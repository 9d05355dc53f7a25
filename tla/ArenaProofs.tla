----------------------------- MODULE ArenaProofs -----------------------------
(***************************************************************************)
(* Theorems about Arena: what holds of every arena but those over the TLSF *)
(* allocator, whatever the sizes, the alignments and the threads.          *)
(***************************************************************************)
EXTENDS Arena, FiniteSetTheorems, NaturalsInduction, WellFoundedInduction, TLAPS

-----------------------------------------------------------------------------
(* Multiples and remainders.                                               *)

LEMMA MulMono ==
  ASSUME NEW i \in Int, NEW j \in Int, NEW n \in Nat, i <= j PROVE i * n <= j * n
  BY SMT

LEMMA DivMod ==
  ASSUME NEW p \in Int, NEW a \in Nat \ {0}
  PROVE  p \div a \in Int /\ p % a \in 0 .. a - 1 /\ p = (p \div a) * a + (p % a)
  BY SMT

LEMMA ModIs ==
  ASSUME NEW a \in Nat \ {0}, NEW i \in Int, NEW r \in 0 .. a - 1
  PROVE  (i * a + r) % a = r
<1> DEFINE p == i * a + r
           q == p \div a
<1>1. p \in Int BY SMT
<1>2. q \in Int /\ p % a \in 0 .. a - 1 /\ p = q * a + (p % a) BY <1>1, DivMod
<1>3. CASE q = i BY <1>2, <1>3, SMT
<1>4. CASE q < i
  <2>1. (q + 1) * a <= i * a BY <1>2, <1>4, MulMono
  <2>2. (q + 1) * a = q * a + a BY <1>2, SMT
  <2>3. q * a \in Int /\ i * a \in Int BY <1>2, SMT
  <2> QED BY <1>2, <2>1, <2>2, <2>3, SMT
<1>5. CASE q > i
  <2>1. (i + 1) * a <= q * a BY <1>2, <1>5, MulMono
  <2>2. (i + 1) * a = i * a + a BY SMT
  <2>3. q * a \in Int /\ i * a \in Int BY <1>2, SMT
  <2> QED BY <1>2, <2>1, <2>2, <2>3, SMT
<1> QED BY <1>2, <1>3, <1>4, <1>5

(* A multiple of the alignment is reached with less than one alignment.    *)
LEMMA PaddingFacts ==
  ASSUME NEW p \in Int, NEW a \in Nat \ {0}
  PROVE  /\ alignment_padding(p, a) \in 0 .. a - 1
         /\ (p + alignment_padding(p, a)) % a = 0
<1> DEFINE q == p \div a
           r == p % a
<1>1. q \in Int /\ r \in 0 .. a - 1 /\ p = q * a + r BY DivMod
<1>2. CASE r = 0 BY <1>1, <1>2, SMT DEF alignment_padding
<1>3. CASE r # 0
  <2>1. (q + 1) * a = q * a + a /\ q * a \in Int BY <1>1, SMT
  <2>2. alignment_padding(p, a) = (q + 1) * a - p BY <1>3 DEF alignment_padding
  <2>3. alignment_padding(p, a) = a - r BY <1>1, <2>1, <2>2, SMT
  <2>4. p + alignment_padding(p, a) = (q + 1) * a + 0 BY <1>1, <2>1, <2>3, SMT
  <2>5. ((q + 1) * a + 0) % a = 0 BY <1>1, ModIs
  <2> QED BY <1>1, <1>3, <2>3, <2>4, <2>5, SMT
<1> QED BY <1>2, <1>3

(* The padding of an address is given by its remainder.                    *)
LEMMA PaddingOf ==
  ASSUME NEW a \in Nat \ {0}, NEW i \in Int, NEW r \in 1 .. a - 1
  PROVE  alignment_padding(i * a + r, a) = a - r
<1> DEFINE p == i * a + r
           q == p \div a
<1>1. p \in Int /\ i * a \in Int BY SMT
<1>2. p % a = r BY ModIs
<1>3. q \in Int /\ p = q * a + (p % a) BY <1>1, DivMod
<1>4. (q + 1) * a = q * a + a /\ q * a \in Int BY <1>3, SMT
<1>5. alignment_padding(p, a) = (q + 1) * a - p BY <1>2 DEF alignment_padding
<1> QED BY <1>1, <1>2, <1>3, <1>4, <1>5, SMT

(* An address behind a multiple of the alignment.                          *)
LEMMA PaddingAfter ==
  ASSUME NEW a \in Nat \ {0}, NEW i \in Int, NEW r \in 1 .. a
  PROVE  alignment_padding(i * a + r, a) = a - r
<1>1. CASE r = a
  <2>1. i * a + r = (i + 1) * a + 0 BY <1>1, SMT
  <2>2. ((i + 1) * a + 0) % a = 0 BY ModIs
  <2> QED BY <1>1, <2>1, <2>2, SMT DEF alignment_padding
<1>2. CASE r # a
  <2>1. r \in 1 .. a - 1 BY <1>2, SMT
  <2> QED BY <2>1, PaddingOf
<1> QED BY <1>1, <1>2

LEMMA LinesOf ==
  ASSUME NEW a \in Nat \ {0}, NEW p \in Int, p % a = 0
  PROVE  \E i \in Int : p = i * a
<1> DEFINE q == p \div a
<1>1. q \in Int /\ p = q * a + (p % a) BY DivMod
<1> HIDE DEF q
<1>2. q * a \in Int BY <1>1, SMT
<1>3. p = q * a + 0 BY <1>1
<1>4. p = q * a BY <1>2, <1>3, SMT
<1> QED BY <1>1, <1>4

LEMMA NoPadding ==
  ASSUME NEW a, NEW p, p % a = 0
  PROVE  alignment_padding(p, a) = 0
  BY DEF alignment_padding

(* Rounding up gives the next multiple.                                    *)
LEMMA AlignUp ==
  ASSUME NEW x \in Int, NEW a \in Nat \ {0}
  PROVE  \E k \in Int : align_up(x, a) = k * a /\ x <= k * a /\ k * a < x + a
<1> DEFINE y == x + a - 1
           k == y \div a
<1>1. y \in Int BY SMT
<1>2. k \in Int /\ y % a \in 0 .. a - 1 /\ y = k * a + (y % a) BY <1>1, DivMod
<1>3. k * a \in Int BY <1>2, SMT
<1>4. x <= k * a /\ k * a < x + a BY <1>2, <1>3, SMT
<1>5. align_up(x, a) = k * a BY DEF align_up
<1> QED BY <1>2, <1>4, <1>5

(* A set of natural numbers has a least element.                           *)
LEMMA LeastNat ==
    ASSUME NEW X \in SUBSET Nat, X # {}
    PROVE  \E m \in X : \A k \in X : m <= k
<1>. DEFINE R == {p \in Nat \X Nat : p[1] < p[2]}
<1>1. IsWellFoundedOn(R, Nat)
  BY NatLessThanWellFounded DEF OpToRel
<1>2. PICK m \in X : \A k \in X : ~(<<k, m>> \in R)
  <2>. HIDE DEF R
  <2>. QED
    BY <1>1, WFMin
<1>3. \A k \in X : ~(k < m)
  BY <1>2
<1>. QED
  BY <1>3

-----------------------------------------------------------------------------
(* The nodes of a pool.                                                    *)

LEMMA SizeFacts ==
  /\ MaxNodes \in Nat \ {0} /\ NodeUser \in Nat \ {0} /\ SlabSize \in Nat \ {0}
  /\ CacheLine \in Nat \ {0} /\ CacheLine >= 16
  /\ \A size \in Sizes : size \in Nat \ {0}
  /\ \A alignment \in Alignments : alignment \in Nat \ {0}
  /\ MaxLive \in Nat \ {0}
  BY ArenaAssumption

(* A node of a pool has room for the largest request, its decoration and   *)
(* any padding; one of the atomic pool for two cache lines.                *)
LEMMA NodeSizes ==
  ASSUME sentinel \in {0, 8}
  PROVE  /\ NodeSize \in Nat \ {0}
         /\ kind = "pool" => NodeSize >= NodeUser + 8 + 2 * sentinel + 16
         /\ kind # "pool" => \E k \in Int : NodeSize = k * CacheLine /\ k >= 2
<1>1. CASE kind = "pool"
  <2> DEFINE x == NodeUser + (8 + 2 * sentinel) + 16
  <2>1. x \in Nat \ {0} /\ 16 \in Nat \ {0} BY SizeFacts, SMT
  <2> HIDE DEF x
  <2>2. PICK k \in Int : align_up(x, 16) = k * 16 /\ x <= k * 16 /\ k * 16 < x + 16
    <3>1. x \in Int BY <2>1
    <3> QED BY ONLY <2>1, <3>1, AlignUp
  <2>3. NodeSize = k * 16 BY <1>1, <2>2 DEF x, NodeSize, pool_node_size, Decorated, round_up_pow2
  <2> QED BY <1>1, <2>1, <2>2, <2>3, SizeFacts, SMT DEF x
<1>2. CASE kind # "pool"
  <2> DEFINE x == CacheLine + 8
  <2>1. x \in Int /\ CacheLine \in Nat \ {0} /\ x > CacheLine BY SizeFacts, SMT
  <2> HIDE DEF x
  <2>2. PICK k \in Int : align_up(x, CacheLine) = k * CacheLine /\ x <= k * CacheLine
                         /\ k * CacheLine < x + CacheLine
    BY ONLY <2>1, AlignUp
  <2>3. NodeSize = k * CacheLine BY <1>2, <2>2 DEF x, NodeSize, atomic_node_size, round_up_pow2
  <2>4. k >= 2
    <3> SUFFICES ASSUME k <= 1 PROVE FALSE BY <2>2, SMT
    <3>1. k * CacheLine <= 1 * CacheLine BY <2>2, MulMono, SizeFacts
    <3>2. 1 * CacheLine = CacheLine /\ k * CacheLine \in Int BY <2>1, <2>2, SMT
    <3> QED BY <2>1, <2>2, <3>1, <3>2, SMT
  <2> QED BY <1>2, <2>1, <2>2, <2>3, <2>4, SizeFacts, SMT
<1> QED BY <1>1, <1>2

(* Nodes lie in the slab, one behind the other.                            *)
LEMMA NodeFacts ==
  ASSUME sentinel \in {0, 8}, slab.begin \in Nat \ {0}
  PROVE  /\ \A n \in Nodes : n \in Nat \ {0} /\ slab.begin <= n
                             /\ n + NodeSize <= slab.begin + NodeSize * MaxNodes
         /\ \A n, m \in Nodes : n = m \/ n + NodeSize <= m \/ m + NodeSize <= n
<1> DEFINE ns == NodeSize
<1>1. ns \in Nat \ {0} BY NodeSizes
<1> HIDE DEF ns
<1>2. Nodes = {slab.begin + i * ns : i \in 0 .. MaxNodes - 1} BY DEF Nodes, ns
<1>3. ASSUME NEW i \in Int, NEW j \in Int, i < j PROVE i * ns + ns <= j * ns /\ i * ns \in Int /\ j * ns \in Int
  <2>1. (i + 1) * ns <= j * ns BY <1>1, <1>3, MulMono
  <2>2. (i + 1) * ns = i * ns + ns BY <1>1, SMT
  <2> QED BY <1>1, <2>1, <2>2, SMT
<1>4. ASSUME NEW n \in Nodes
      PROVE  n \in Nat \ {0} /\ slab.begin <= n /\ n + ns <= slab.begin + ns * MaxNodes
  <2>1. PICK i \in 0 .. MaxNodes - 1 : n = slab.begin + i * ns BY <1>2
  <2>2. i \in Int /\ MaxNodes \in Int /\ i < MaxNodes BY SizeFacts, SMT
  <2>3. i * ns + ns <= MaxNodes * ns /\ i * ns \in Int BY <1>3, <2>2
  <2>4. MaxNodes * ns = ns * MaxNodes /\ 0 <= i * ns BY <1>1, SizeFacts, SMT
  <2> QED BY <1>1, <2>1, <2>3, <2>4, SizeFacts, SMT
<1>5. ASSUME NEW n \in Nodes, NEW m \in Nodes PROVE n = m \/ n + ns <= m \/ m + ns <= n
  <2>1. PICK i \in 0 .. MaxNodes - 1 : n = slab.begin + i * ns BY <1>2
  <2>2. PICK j \in 0 .. MaxNodes - 1 : m = slab.begin + j * ns BY <1>2
  <2>3. i \in Int /\ j \in Int BY SizeFacts, SMT
  <2>4. CASE i = j BY <2>1, <2>2, <2>4
  <2>5. CASE i < j
    <3>1. i * ns + ns <= j * ns /\ i * ns \in Int /\ j * ns \in Int BY <1>3, <2>3, <2>5
    <3> QED BY <1>1, <2>1, <2>2, <3>1, SMT
  <2>6. CASE j < i
    <3>1. j * ns + ns <= i * ns /\ i * ns \in Int /\ j * ns \in Int BY <1>3, <2>3, <2>6
    <3> QED BY <1>1, <2>1, <2>2, <3>1, SMT
  <2> QED BY <2>3, <2>4, <2>5, <2>6, SMT
<1> QED BY <1>4, <1>5 DEF ns

(* node_of() finds the node an address lies in.                            *)
LEMMA NodeOf ==
  ASSUME sentinel \in {0, 8}, slab.begin \in Nat \ {0}, NEW a, a.begin = slab.begin, a.node_size = NodeSize,
         NEW p \in Int, NEW n, Holds(p, n)
  PROVE  node_of(a, p) = n
<1> DEFINE ns == NodeSize
<1>1. ns \in Nat \ {0} BY NodeSizes
<1> HIDE DEF ns
<1>2. PICK i \in 0 .. MaxNodes - 1 : n = slab.begin + i * ns BY DEF Holds, Nodes, ns
<1>3. i \in Int /\ i * ns \in Int BY <1>1, SizeFacts, SMT
<1>4. n <= p /\ p < n + ns BY DEF Holds, ns
<1> DEFINE r == p - n
<1>5. r \in 0 .. ns - 1 BY <1>1, <1>2, <1>3, <1>4, SMT
<1>6. p - slab.begin = i * ns + r BY <1>2, <1>3, SMT
<1>7. (p - slab.begin) % ns = r BY <1>1, <1>3, <1>5, <1>6, ModIs
<1>8. node_of(a, p) = p - ((p - slab.begin) % ns) BY DEF node_of, ns
<1> QED BY <1>2, <1>3, <1>7, <1>8, SMT

(* The nodes of the atomic pool start at cache lines.                      *)
LEMMA NodeLines ==
  ASSUME sentinel \in {0, 8}, slab.begin \in Nat \ {0}, kind # "pool", slab.begin % CacheLine = 0,
         NEW n \in Nodes
  PROVE  \E k \in Int : n = k * CacheLine
<1>1. PICK s \in Int : NodeSize = s * CacheLine BY NodeSizes
<1>2. PICK i \in 0 .. MaxNodes - 1 : n = slab.begin + i * NodeSize BY DEF Nodes
<1> DEFINE q == slab.begin \div CacheLine
<1>3. q \in Int /\ slab.begin = q * CacheLine
  <2>1. slab.begin \in Int /\ CacheLine \in Nat \ {0} BY SizeFacts
  <2>2. q \in Int /\ slab.begin = q * CacheLine + (slab.begin % CacheLine) BY <2>1, DivMod
  <2>3. q * CacheLine \in Int BY <2>1, <2>2, SMT
  <2> QED BY <2>2, <2>3, SMT
<1>4. i \in Int BY SizeFacts, SMT
<1>5. n = (q + i * s) * CacheLine
  <2>1. i * (s * CacheLine) = (i * s) * CacheLine /\ i * s \in Int BY <1>1, <1>4, SizeFacts, SMT
  <2>2. (q + i * s) * CacheLine = q * CacheLine + (i * s) * CacheLine BY <1>3, <2>1, SizeFacts, SMT
  <2> QED BY <1>1, <1>2, <1>3, <2>1, <2>2
<1>6. q + i * s \in Int BY <1>1, <1>3, <1>4, SMT
<1> QED BY <1>5, <1>6

-----------------------------------------------------------------------------
(* The area and the first allocations of a job system.                     *)

LEMMA SlabFacts ==
  ASSUME NEW a, a.head \in Nat \ {0}, NEW size \in Nat, NEW name
  PROVE  LET r == require_slab(a, size, name)
         IN  /\ r.range[1] \in Nat \ {0} /\ r.range[1] % CacheLine = 0
             /\ a.head <= r.range[1] /\ r.range[1] < a.head + CacheLine
             /\ r.range[2] = r.range[1] + size + 1
             /\ a.head % CacheLine = 0 => r.range[1] = a.head
             /\ r.fits = (r.range[1] + size < area_end(a))
<1> DEFINE padding == alignment_padding(a.head, CacheLine)
           first == a.head + padding
<1>1. padding \in 0 .. CacheLine - 1 /\ first % CacheLine = 0 BY PaddingFacts, SizeFacts
<1>2. a.head % CacheLine = 0 => padding = 0 BY NoPadding
<1>3. /\ require_slab(a, size, name).range = <<first, first + size + 1>>
      /\ require_slab(a, size, name).fits = (first + size < area_end(a))
  BY DEF require_slab
<1> HIDE DEF padding
<1>4. /\ first \in Nat \ {0} /\ a.head <= first /\ first < a.head + CacheLine
      /\ padding = 0 => first = a.head
  BY <1>1, SizeFacts, SMT
<1> QED BY <1>1, <1>2, <1>3, <1>4

LEMMA SlabArea ==
  ASSUME NEW a, NEW size, NEW name, DOMAIN a = {"begin", "size", "head", "items"},
         a.head \in Nat \ {0}, size \in Nat
  PROVE  LET r == require_slab(a, size, name)
         IN  /\ r.area.head = r.range[1] + size
             /\ r.area.begin = a.begin /\ r.area.size = a.size
  BY DEF require_slab

(* head_ takes a position below its range as it is.                        *)
LEMMA HeadKept ==
  ASSUME NEW n \in Nat, n < HeadRange
  PROVE  n % HeadRange = n
  BY WidthAssumption, SMT

(* The three allocations of the constructor fit in the local arena.        *)
LEMMA ConstructorFits ==
  ASSUME NEW begin \in Nat \ {0}, begin % CacheLine = 0, NEW barriers \in Nat, NEW workers \in Nat,
         local_arena_requirements(barriers, workers) < HeadRange
  PROVE  \A i \in DOMAIN Constructor(begin, barriers, workers) :
             Constructor(begin, barriers, workers)[i].ptr # nullptr
<1> DEFINE c == CacheLine
           b == barriers * c
           w == workers * c
<1>1. c \in Nat \ {0} /\ c >= 16 BY SizeFacts
<1> HIDE DEF c
<1>2. b \in Nat /\ w \in Nat BY <1>1, SMT
<1>3. Lines(barriers) = b /\ Lines(workers) = w /\ Lines(1) = c
  BY <1>1, SMT DEF Lines, c
<1>4. PICK q \in Int : begin = q * c BY <1>1, LinesOf DEF c
<1> DEFINE total == local_arena_requirements(barriers, workers)
           a0 == LinearAllocator(<<begin, begin + total + 1>>)
           a1 == linear_allocate(a0, b + 16, c, 16)
           a2 == linear_allocate(a1.a, c + 8, c, 8)
           a3 == linear_allocate(a2.a, w + 16, c, 16)
<1>5. total = b + w + 4 * c
  BY <1>1, <1>2, <1>3, SMT
  DEF local_arena_requirements, barrier_alloc_size, worker_alloc_size, shared_state_size, c
<1>6. Constructor(begin, barriers, workers) = <<a1, a2, a3>>
  BY <1>3 DEF Constructor, c
<1>11. total < HeadRange OBVIOUS
<1> HIDE DEF b, w, total
<1>7. a0 = [begin |-> begin, end |-> begin + total + 1, head |-> 0]
  BY DEF LinearAllocator
<1>8. a1.ptr # nullptr /\ a1.a = [begin |-> begin, end |-> begin + total + 1, head |-> b + c]
  <2>1. alignment_padding(q * c + 16, c) = c - 16
    <3>1. 16 \in 1 .. c BY <1>1, SMT
    <3> QED BY <1>1, <3>1, PaddingAfter
  <2>2. begin + 0 + 16 = q * c + 16 BY <1>1, <1>4, SMT
  <2>3. alignment_padding(a0.begin + a0.head + 16, c) = c - 16 BY <1>7, <2>1, <2>2
  <2>4. 0 + (c - 16) + (b + 16) = b + c /\ (b + c) % HeadRange = b + c
    <3>1. b + c \in Nat /\ b + c < HeadRange BY <1>1, <1>2, <1>5, <1>11, WidthAssumption, SMT
    <3> QED BY <1>1, <1>2, <3>1, HeadKept
  <2> QED BY <1>1, <1>2, <1>5, <1>7, <2>3, <2>4, SMT DEF linear_allocate, nullptr
<1>9. a2.ptr # nullptr /\ a2.a = [begin |-> begin, end |-> begin + total + 1, head |-> b + 3 * c]
  <2>1. alignment_padding((q + barriers + 1) * c + 8, c) = c - 8
    <3>1. 8 \in 1 .. c /\ q + barriers + 1 \in Int BY <1>1, SMT
    <3> QED BY <1>1, <3>1, PaddingAfter
  <2>2. begin + (b + c) + 8 = (q + barriers + 1) * c + 8 BY <1>1, <1>4, SMT DEF b
  <2>3. alignment_padding(a1.a.begin + a1.a.head + 8, c) = c - 8 BY <1>8, <2>1, <2>2
  <2>4. b + c + (c - 8) + (c + 8) = b + 3 * c /\ (b + 3 * c) % HeadRange = b + 3 * c
    <3>1. b + 3 * c \in Nat /\ b + 3 * c < HeadRange BY <1>1, <1>2, <1>5, <1>11, WidthAssumption, SMT
    <3> QED BY <1>1, <1>2, <3>1, HeadKept
  <2> HIDE DEF a1
  <2> QED BY <1>1, <1>2, <1>5, <1>8, <2>3, <2>4, SMT DEF linear_allocate, nullptr
<1>10. a3.ptr # nullptr
  <2>1. alignment_padding((q + barriers + 3) * c + 16, c) = c - 16
    <3>1. 16 \in 1 .. c /\ q + barriers + 3 \in Int BY <1>1, SMT
    <3> QED BY <1>1, <3>1, PaddingAfter
  <2>2. begin + (b + 3 * c) + 16 = (q + barriers + 3) * c + 16 BY <1>1, <1>4, SMT DEF b
  <2>3. alignment_padding(a2.a.begin + a2.a.head + 16, c) = c - 16 BY <1>9, <2>1, <2>2
  <2> HIDE DEF a2
  <2> QED BY <1>1, <1>2, <1>5, <1>9, <2>3, SMT DEF linear_allocate, nullptr
<1> QED BY <1>6, <1>8, <1>9, <1>10

(* The area is large enough for the arena and the pool of a job system.    *)
LEMMA JobSystemFits ==
  ASSUME NEW begin \in Nat \ {0}, NEW barriers \in Nat, NEW workers \in Nat, sentinel = 0,
         local_arena_requirements(barriers, workers) < HeadRange,
         kind = "atomic", InitJobs(begin, barriers, workers)
  PROVE  /\ slab.begin \in Nat \ {0} /\ slab.begin % CacheLine = 0
         /\ slab.size = NodeSize * MaxNodes /\ slab.fits
         /\ al = AtomicPoolAllocator(slab.begin, NodeSize, MaxNodes)
<1> DEFINE c == CacheLine
           total == local_arena_requirements(barriers, workers)
           size == get_memory_requirements(barriers, workers, c)
           h == HeapArea(begin, size)
           first == require_slab(h, total, "local")
           r == require_slab(first.area, NodeSize * MaxNodes, kind)
           f == first.range[1]
<1>0. local_arena_requirements(barriers, workers) < HeadRange OBVIOUS
<1>1. c \in Nat \ {0} /\ c >= 16 /\ MaxNodes \in Nat BY SizeFacts
<1>2. NodeSize \in Nat \ {0} BY NodeSizes
<1>3. NodeSize = atomic_node_size(c, 8, c) BY DEF NodeSize
<1>4. total \in Nat /\ \E k \in Int : total = k * c
  <2>1. Lines(barriers) = barriers * c /\ Lines(workers) = workers * c /\ Lines(1) = c
    BY <1>1, SMT DEF Lines
  <2>2. barriers * c \in Nat /\ workers * c \in Nat BY <1>1, SMT
  <2>3. total = barriers * c + workers * c + 4 * c
    BY <1>1, <2>1, <2>2, SMT
    DEF local_arena_requirements, barrier_alloc_size, worker_alloc_size, shared_state_size
  <2>4. total \in Nat BY <1>1, <2>2, <2>3, SMT
  <2>5. barriers * c + workers * c + 4 * c = (barriers + workers + 4) * c BY <1>1, SMT
  <2>6. barriers + workers + 4 \in Int BY SMT
  <2> HIDE DEF total, c
  <2> QED BY <2>3, <2>4, <2>5, <2>6
<1>5. PICK k \in Int : total = k * c BY <1>4
<1>6. size = total + NodeSize * MaxNodes + c
  <2>1. round_up_pow2(c + 8, c) = NodeSize BY <1>3 DEF atomic_node_size
  <2>2. MaxNodes * NodeSize = NodeSize * MaxNodes BY <1>1, <1>2, SMT
  <2> QED BY <2>1, <2>2 DEF get_memory_requirements
<1>7. NodeSize * MaxNodes \in Nat BY <1>1, <1>2, SMT
<1>8. h.head = begin /\ h.begin = begin /\ h.size = size /\ DOMAIN h = {"begin", "size", "head", "items"}
  BY DEF HeapArea
<1>9. /\ slab = [Slab(r, NodeSize * MaxNodes) EXCEPT !.fits =
                   @ /\ first.fits /\ \A i \in DOMAIN Constructor(f, barriers, workers) :
                                         Constructor(f, barriers, workers)[i].ptr # nullptr]
      /\ al = AtomicPoolAllocator(r.range[1], NodeSize, MaxNodes)
  BY <1>3 DEF InitJobs
<1> HIDE DEF total, size, h
<1>10. /\ f \in Nat \ {0} /\ f % c = 0 /\ begin <= f /\ f < begin + c
       /\ first.fits = (f + total < area_end(h))
  BY <1>4, <1>8, SlabFacts
<1>11. first.area.head = f + total /\ first.area.begin = begin /\ first.area.size = size
  BY <1>4, <1>8, SlabArea
<1> HIDE DEF first
<1>12. area_end(h) = begin + size + 1 /\ area_end(first.area) = begin + size + 1
  BY <1>8, <1>11 DEF area_end
<1>13. first.area.head \in Nat \ {0} /\ first.area.head % c = 0
  <2>1. PICK q \in Int : f = q * c
    <3>1. f \in Int /\ c \in Nat \ {0} /\ f % c = 0 BY <1>1, <1>10
    <3> HIDE DEF f, c
    <3> QED BY ONLY <3>1, LinesOf
  <2>2. f + total = (q + k) * c + 0 BY <1>1, <1>5, <2>1, SMT
  <2>3. ((q + k) * c + 0) % c = 0
    <3>1. q + k \in Int /\ 0 \in 0 .. c - 1 BY <1>1, <2>1, SMT
    <3> QED BY <1>1, <3>1, ModIs
  <2>4. f + total \in Nat \ {0} BY <1>4, <1>10, SMT
  <2> QED BY <1>11, <2>2, <2>3, <2>4
<1>14. r.range[1] = first.area.head /\ r.fits = (r.range[1] + NodeSize * MaxNodes < area_end(first.area))
  BY <1>7, <1>13, SlabFacts
<1> HIDE DEF r
<1>15. first.fits /\ r.fits
  <2> DEFINE m == NodeSize * MaxNodes
  <2>1. m \in Nat /\ size = total + m + c /\ r.fits = (f + total + m < begin + size + 1)
    BY <1>6, <1>7, <1>11, <1>12, <1>14
  <2>2. first.fits = (f + total < begin + size + 1) BY <1>10, <1>12
  <2> HIDE DEF m, f, c
  <2>3. c \in Nat /\ f \in Nat /\ f < begin + c BY <1>1, <1>10 DEF f, c
  <2>4. f + total + m < begin + size + 1 /\ f + total < begin + size + 1
    BY <1>4, <2>1, <2>3, SMT
  <2> QED BY <2>1, <2>2, <2>4
<1>16. \A i \in DOMAIN Constructor(f, barriers, workers) : Constructor(f, barriers, workers)[i].ptr # nullptr
  BY <1>0, <1>10, ConstructorFits
<1>17. /\ slab.begin = r.range[1] /\ slab.size = NodeSize * MaxNodes
       /\ slab.fits = (r.fits /\ first.fits /\ \A i \in DOMAIN Constructor(f, barriers, workers) :
                                         Constructor(f, barriers, workers)[i].ptr # nullptr)
  BY <1>9 DEF Slab
<1> QED BY <1>9, <1>13, <1>14, <1>15, <1>16, <1>17

-----------------------------------------------------------------------------
(* The records of a LinearBuffer.                                          *)

Buffers(s, e) == [begin : {s}, end : {e}, head : Int, channel : BOOLEAN, warned : BOOLEAN]
Told(b, e)    == b.channel /\ b.head >= e => b.warned

(* The flags are of any set here, for the provers.                         *)
LEMMA BufferFields ==
  ASSUME NEW W, NEW s, NEW e,
         NEW b \in [begin : {s}, end : {e}, head : Int, channel : W, warned : W],
         NEW h \in Int, NEW w \in W
  PROVE  LET c == [b EXCEPT !.head = h, !.warned = w]
         IN  /\ c \in [begin : {s}, end : {e}, head : Int, channel : W, warned : W]
             /\ c.channel = b.channel /\ c.head = h /\ c.warned = w
  OBVIOUS

LEMMA BufferMoved ==
  ASSUME NEW W, NEW s, NEW e,
         NEW b \in [begin : {s}, end : {e}, head : Int, channel : W, warned : W], NEW h \in Int
  PROVE  LET c == [b EXCEPT !.head = h]
         IN  /\ c \in [begin : {s}, end : {e}, head : Int, channel : W, warned : W]
             /\ c.head = h
  OBVIOUS

Moved(b, h, w) == [b EXCEPT !.head = h, !.warned = w]
LEMMA BufferSet ==
  ASSUME NEW s, NEW e, NEW b \in Buffers(s, e), NEW h \in Int, NEW w \in BOOLEAN
  PROVE  /\ Moved(b, h, w) \in Buffers(s, e)
         /\ Moved(b, h, w).channel = b.channel /\ Moved(b, h, w).head = h /\ Moved(b, h, w).warned = w
  BY BufferFields, Zenon DEF Buffers, Moved

LEMMA BufferHead ==
  ASSUME NEW s, NEW e, NEW b \in Buffers(s, e), NEW h \in Int
  PROVE  LET c == [b EXCEPT !.head = h]
         IN  c \in Buffers(s, e) /\ c.head = h
  BY BufferMoved, Zenon DEF Buffers

LEMMA BufferMade ==
  ASSUME NEW s, NEW e, NEW h \in Int, NEW channel \in BOOLEAN
  PROVE  [begin |-> s, end |-> e, head |-> h, channel |-> channel, warned |-> FALSE]
             \in [begin : {s}, end : {e}, head : Int, channel : BOOLEAN, warned : BOOLEAN]
  BY Zenon

-----------------------------------------------------------------------------
(* The invariant holds at the start.                                       *)

LEMMA FreshPool ==
  ASSUME sentinel \in {0, 8}, slab.begin \in Nat \ {0}, slab.size = NodeSize * MaxNodes,
         al = PoolAllocator(slab.begin, NodeSize, MaxNodes), live = {}, Returning = {}
  PROVE  NodesOK /\ al.count = 0 /\ Len(al.free) = MaxNodes
<1> DEFINE s == [i \in 1 .. MaxNodes |-> slab.begin + (i - 1) * NodeSize]
<1>1. al = [begin |-> slab.begin, node_size |-> NodeSize, count |-> 0, free |-> s]
  BY DEF PoolAllocator, freelist_init
<1>2. MaxNodes \in Nat \ {0} /\ NodeSize \in Nat \ {0} BY SizeFacts, NodeSizes
<1>3. \A i \in 1 .. MaxNodes : s[i] \in Nodes
  <2>1. \A i \in 1 .. MaxNodes : i - 1 \in 0 .. MaxNodes - 1 BY <1>2, SMT
  <2> QED BY <2>1 DEF Nodes
<1>4. \A n \in Nodes : \E i \in 1 .. MaxNodes : s[i] = n
  <2> SUFFICES ASSUME NEW n \in Nodes PROVE \E i \in 1 .. MaxNodes : s[i] = n OBVIOUS
  <2>1. PICK j \in 0 .. MaxNodes - 1 : n = slab.begin + j * NodeSize BY DEF Nodes
  <2>2. j + 1 \in 1 .. MaxNodes /\ (j + 1) - 1 = j BY <1>2, SMT
  <2>3. s[j + 1] = n BY <2>1, <2>2
  <2> QED BY <2>2, <2>3
<1>5. \A i, j \in 1 .. MaxNodes : s[i] = s[j] => i = j
  <2>1. ASSUME NEW i \in 1 .. MaxNodes, NEW j \in 1 .. MaxNodes, i < j PROVE s[i] # s[j]
    <3>1. i \in Int /\ j \in Int /\ i <= j - 1 BY <1>2, <2>1, SMT
    <3>2. i * NodeSize <= (j - 1) * NodeSize BY <1>2, <3>1, MulMono
    <3>3. (i - 1) * NodeSize = i * NodeSize - NodeSize BY <1>2, <3>1, SMT
    <3>4. i * NodeSize \in Int /\ (j - 1) * NodeSize \in Int BY <1>2, <3>1, SMT
    <3>5. s[i] = slab.begin + (i - 1) * NodeSize /\ s[j] = slab.begin + (j - 1) * NodeSize OBVIOUS
    <3> HIDE DEF s
    <3> QED BY <1>2, <3>2, <3>3, <3>4, <3>5, SMT
  <2>2. \A i, j \in 1 .. MaxNodes : i = j \/ i < j \/ j < i BY <1>2, SMT
  <2> HIDE DEF s
  <2> QED BY <2>1, <2>2
<1>6. s \in Seq(Nodes) /\ Len(s) = MaxNodes /\ DOMAIN s = 1 .. MaxNodes
  <2>1. DOMAIN s = 1 .. MaxNodes /\ s = [i \in 1 .. MaxNodes |-> s[i]] OBVIOUS
  <2> HIDE DEF s
  <2> QED BY <1>2, <1>3, <2>1
<1> HIDE DEF s
<1>7. al \in [begin : {slab.begin}, node_size : {NodeSize}, count : Int, free : Seq(Nodes)]
  BY <1>1, <1>6
<1>8. IsInjective(al.free) BY <1>1, <1>5, <1>6 DEF IsInjective
<1>9. ToSet(al.free) = Nodes BY <1>1, <1>3, <1>4, <1>6 DEF ToSet
<1> QED BY <1>1, <1>6, <1>7, <1>8, <1>9 DEF NodesOK

LEMMA LeastBegin == Min(AreaBegins) \in AreaBegins
<1>1. AreaBegins \in SUBSET Nat /\ AreaBegins # {} BY ArenaAssumption
<1>2. PICK m \in AreaBegins : \A k \in AreaBegins : m <= k BY <1>1, LeastNat
<1> QED BY <1>2 DEF Min

LEMMA ArenaInit == Init => Inv /\ SlabsFit
<1> SUFFICES ASSUME Init PROVE Inv /\ SlabsFit OBVIOUS
<1>1. /\ th = [t \in Threads |-> Idle] /\ live = {} /\ owner = Nobody /\ tracker = Tracked(0, {})
      /\ guarded \in BOOLEAN /\ (guarded => kind \in {"linear", "pool"})
      /\ sentinel \in {0, 8} /\ (kind \in {"linear", "atomic"} => sentinel = 0)
  BY DEF Init
<1>2. Returning = {} BY <1>1 DEF Returning, Returns, Idle
<1>3. GuardExclusive BY <1>1 DEF GuardExclusive
<1>4. CallsOK BY <1>1 DEF CallsOK, CallOK, Idle
<1>5. LiveOK BY <1>1 DEF LiveOK
<1> DEFINE least == Min(AreaBegins)
           h == HeapArea(least, 512)
<1>6. least \in Nat \ {0} /\ h.head = least BY LeastBegin, ArenaAssumption DEF HeapArea
<1> HIDE DEF least, h
<1>7. CASE \E begin \in AreaBegins, n \in 1 .. 2 : InitJobs(begin, n, 3 - n)
  <2>1. PICK begin \in AreaBegins, n \in 1 .. 2 : InitJobs(begin, n, 3 - n) BY <1>7
  <2>2. begin \in Nat \ {0} /\ n \in Nat /\ 3 - n \in Nat BY ArenaAssumption, SMT
  <2>3. kind = "atomic" /\ sentinel = 0 BY <2>1 DEF InitJobs
  <2>6. local_arena_requirements(n, 3 - n) < HeadRange
    <3>1. /\ Lines(1) = CacheLine /\ Lines(2) = 2 * CacheLine /\ CacheLine \in Nat
          /\ 7 * CacheLine + 1 < HeadRange /\ HeadRange \in Nat
      BY SizeFacts, WidthAssumption, SMT DEF Lines
    <3>2. (n = 1 /\ 3 - n = 2) \/ (n = 2 /\ 3 - n = 1)
      <4>1. n \in 1 .. 2 BY <2>1
      <4> QED BY <4>1
    <3>3. Lines(n) + Lines(3 - n) = 3 * CacheLine /\ Lines(n) \in Nat /\ Lines(3 - n) \in Nat
      BY <3>1, <3>2, SMT
    <3> QED BY <3>1, <3>3, SMT
            DEF local_arena_requirements, barrier_alloc_size, worker_alloc_size, shared_state_size
  <2>4. /\ slab.begin \in Nat \ {0} /\ slab.begin % CacheLine = 0
        /\ slab.size = NodeSize * MaxNodes /\ slab.fits
        /\ al = AtomicPoolAllocator(slab.begin, NodeSize, MaxNodes)
    BY <2>1, <2>2, <2>3, <2>6, JobSystemFits
  <2>5. NodesOK BY <1>1, <1>2, <2>3, <2>4, FreshPool DEF AtomicPoolAllocator
  <2> QED BY <1>1, <1>3, <1>4, <1>5, <2>3, <2>4, <2>5
          DEF Inv, Fixed, LinearOK, CountsOK, BufferOK, OverrunReported, SlabsFit
<1>8. CASE InitPool(least)
  <2> DEFINE r == require_slab(h, NodeSize * MaxNodes, kind)
  <2>1. kind = "pool" BY <1>8 DEF InitPool
  <2>2. NodeSize = pool_node_size(NodeUser, Decorated(sentinel), 16) BY <2>1 DEF NodeSize
  <2>3. slab = Slab(r, NodeSize * MaxNodes) /\ al = PoolAllocator(r.range[1], NodeSize, MaxNodes)
    BY <1>8, <2>2 DEF InitPool, least, h
  <2>4. NodeSize * MaxNodes \in Nat
    <3>1. NodeSize \in Nat /\ MaxNodes \in Nat BY <1>1, NodeSizes, SizeFacts
    <3> QED BY <3>1, SMT
  <2>5. r.range[1] \in Nat \ {0} BY <1>6, <2>4, SlabFacts
  <2>6. slab.begin = r.range[1] /\ slab.size = NodeSize * MaxNodes BY <2>3 DEF Slab
  <2> HIDE DEF r
  <2>7. NodesOK /\ al.count = 0 /\ Len(al.free) = MaxNodes BY <1>1, <1>2, <2>3, <2>5, <2>6, FreshPool
  <2>8. CountsOK
    <3>1. al.count = MaxNodes - Len(al.free) BY <2>7, SizeFacts, SMT
    <3> QED BY <1>1, <1>2, <2>7, <3>1 DEF CountsOK
  <2> QED BY <1>1, <1>3, <1>4, <1>5, <2>1, <2>5, <2>6, <2>7, <2>8
          DEF Inv, Fixed, LinearOK, BufferOK, OverrunReported, SlabsFit
<1>9. CASE InitLinear(least, SlabSize)
  <2> DEFINE r == require_slab(h, SlabSize, kind)
  <2>1. kind = "linear" /\ slab = Slab(r, SlabSize) /\ al = LinearAllocator(r.range)
    BY <1>9 DEF InitLinear, least, h
  <2>2. r.range[1] \in Nat \ {0} /\ r.range[2] = r.range[1] + SlabSize + 1
    BY <1>6, SizeFacts, SlabFacts
  <2>3. slab.begin = r.range[1] /\ slab.size = SlabSize
        /\ al = [begin |-> r.range[1], end |-> r.range[2], head |-> 0]
    BY <2>1 DEF Slab, LinearAllocator
  <2> HIDE DEF r
  <2>4. LinearOK BY <1>1, <2>2, <2>3, SizeFacts DEF LinearOK
  <2> QED BY <1>1, <1>3, <1>4, <1>5, <2>1, <2>2, <2>3, <2>4
          DEF Inv, Fixed, NodesOK, CountsOK, BufferOK, OverrunReported, SlabsFit
<1>10. CASE InitBuffer(least, SlabSize)
  <2> DEFINE r == require_slab(h, SlabSize, kind)
  <2>1. /\ kind = "buffer" /\ slab = Slab(r, SlabSize)
        /\ \E channel \in BOOLEAN : al = LinearBuffer(r.range, channel)
    BY <1>10 DEF InitBuffer, least, h
  <2>2. r.range[1] \in Nat \ {0} /\ r.range[2] = r.range[1] + SlabSize + 1
    BY <1>6, SizeFacts, SlabFacts
  <2>3. /\ slab.begin = r.range[1]
        /\ slab.size = SlabSize
        /\ \E channel \in BOOLEAN : al = LinearBuffer(r.range, channel)
    BY <2>1 DEF Slab
  <2> HIDE DEF r
  <2>4. BufferOK /\ OverrunReported
    <3>1. PICK channel \in BOOLEAN :
            al = [begin |-> slab.begin, end |-> slab.begin + SlabSize + 1, head |-> slab.begin,
                  channel |-> channel, warned |-> FALSE]
      BY <2>2, <2>3 DEF LinearBuffer
    <3>2. al.head = slab.begin /\ ~(slab.begin > slab.begin + SlabSize) /\ slab.begin \in Int
      BY <2>2, <2>3, <3>1, SizeFacts
    <3>3. BufferOK BY <1>1, <2>3, <3>1, <3>2, BufferMade DEF BufferOK
    <3> QED BY <2>3, <3>2, <3>3 DEF OverrunReported
  <2> QED BY <1>1, <1>3, <1>4, <1>5, <2>1, <2>2, <2>3, <2>4
          DEF Inv, Fixed, NodesOK, CountsOK, LinearOK, SlabsFit
<1>11. CASE kind \in {"tlsf", "raw"}
  BY <1>1, <1>3, <1>4, <1>11 DEF Inv, Fixed, SlabsFit
<1>12. \/ \E begin \in AreaBegins, n \in 1 .. 2 : InitJobs(begin, n, 3 - n)
       \/ InitPool(least) \/ InitLinear(least, SlabSize) \/ InitBuffer(least, SlabSize)
       \/ kind \in {"tlsf", "raw"}
  BY DEF Init, InitTlsf, least
<1> QED BY <1>7, <1>8, <1>9, <1>10, <1>11, <1>12
-----------------------------------------------------------------------------
(* Steps.  The configuration never changes; neither do the places of the   *)
(* nodes.                                                                  *)

LEMMA ConfigurationStep == [Next]_vars => UNCHANGED <<kind, guarded, sentinel, area, slab>>
  BY DEF Next, vars, BeginAllocate, AllocateFails, Allocate, CountLoad, CountStore, Leave,
         BeginDeallocate, Deallocate, Push, Reset, Reallocate, BufferNext

LEMMA SameNodes ==
  ASSUME UNCHANGED <<kind, sentinel, slab>>
  PROVE  /\ Nodes' = Nodes /\ NodeSize' = NodeSize
         /\ \A p, n : Holds(p, n)' <=> Holds(p, n)
  BY DEF Nodes, NodeSize, Holds, Decorated

LEMMA FixedStep == Fixed /\ [Next]_vars => Fixed'
  BY ConfigurationStep DEF Fixed

(* Calls: each step of a thread leaves it at one of the positions of       *)
(* CallOK.                                                                 *)
LEMMA CallFrame ==
  ASSUME CallsOK, UNCHANGED kind, NEW t \in Threads, NEW c, CallOK(c), th' = [th EXCEPT ![t] = c]
  PROVE  CallsOK'
  BY DEF CallsOK, CallOK, Idle

LEMMA CallsStep ==
  ASSUME CallsOK, NodesOK, BufferOK, [Next]_vars
  PROVE  CallsOK'
<1>1. UNCHANGED kind BY ConfigurationStep
<1>2. CASE UNCHANGED th BY <1>1, <1>2 DEF CallsOK, CallOK, Idle
<1>3. ASSUME NEW t \in Threads, NEW size \in Sizes, NEW alignment \in Alignments, NEW offset \in Offsets,
             BeginAllocate(t, size, alignment, offset)
      PROVE  CallsOK'
  <2> DEFINE c == [pc |-> "allocate", size |-> size + offset, align |-> alignment, off |-> offset]
  <2>1. size \in Nat \ {0} /\ alignment \in Nat \ {0} /\ offset \in {0, 8}
    BY SizeFacts, ArenaAssumption
  <2>2. size + offset \in Nat \ {0} BY <2>1, SMT
  <2>3. CallOK(c)
    <3>1. kind = "pool" => size + offset <= NodeUser /\ alignment <= 16
      BY <1>3 DEF BeginAllocate
    <3>2. kind = "atomic" => size + offset <= CacheLine /\ alignment = CacheLine /\ offset = 0
      BY <1>3, <2>1, SMT DEF BeginAllocate
    <3>3. kind # "buffer" BY <1>3 DEF BeginAllocate
    <3> QED BY <2>1, <2>2, <3>1, <3>2, <3>3 DEF CallOK
  <2>4. th' = [th EXCEPT ![t] = c] BY <1>3 DEF BeginAllocate
  <2> HIDE DEF c
  <2> QED BY <1>1, <2>3, <2>4, CallFrame
<1>4. ASSUME NEW t \in Threads, NEW c, CallOK(c), th' = [th EXCEPT ![t] = c] PROVE CallsOK'
  BY <1>1, <1>4, CallFrame
<1>5. /\ CallOK(Idle) /\ (kind # "buffer" => CallOK([pc |-> "leave"]))
      /\ kind = "atomic" => CallOK([pc |-> "count", by |-> 1])
  BY DEF CallOK, Idle
<1>6. \A p : /\ kind = "atomic" => /\ CallOK([pc |-> "count", by |-> -1, ptr |-> p])
                                   /\ CallOK([pc |-> "push", ptr |-> p])
             /\ kind \notin {"atomic", "buffer"} => CallOK([pc |-> "deallocate", ptr |-> p])
  BY DEF CallOK, Idle
<1>7. \A t \in Threads : AllocateFails(t) \/ Leave(t) => CallsOK' BY <1>4, <1>5 DEF AllocateFails, Leave
<1>8. \A t \in Threads : th[t].pc # "idle" => kind # "buffer" BY DEF CallsOK, CallOK
<1>9. \A t \in Threads : Allocate(t) => CallsOK' BY <1>4, <1>5, <1>8 DEF Allocate
<1>10. ASSUME NEW t \in Threads, CountLoad(t) PROVE CallsOK'
  <2> DEFINE c == [pc |-> "store", value |-> al.count + th[t].by, by |-> th[t].by,
                   ptr |-> IF th[t].by = 1 THEN nullptr ELSE th[t].ptr]
  <2>1. th[t].by \in {1, -1} /\ kind = "atomic" BY <1>10 DEF CallsOK, CallOK, CountLoad
  <2>2. CallOK(c)
    <3>1. al.count \in Int BY <2>1 DEF NodesOK
    <3>2. c.value \in Int BY <2>1, <3>1
    <3> QED BY <2>1, <3>2 DEF CallOK, Idle
  <2>3. th' = [th EXCEPT ![t] = c] BY <1>10 DEF CountLoad
  <2> HIDE DEF c
  <2> QED BY <1>4, <2>2, <2>3
<1>11. ASSUME NEW t \in Threads, CountStore(t) PROVE CallsOK'
  <2> DEFINE c == IF th[t].by = 1 THEN [pc |-> "leave"] ELSE [pc |-> "push", ptr |-> th[t].ptr]
  <2>1. th' = [th EXCEPT ![t] = c] BY <1>11 DEF CountStore
  <2>2. kind = "atomic" BY <1>11 DEF CallsOK, CallOK, CountStore
  <2>3. CallOK(c) BY <1>5, <1>6, <2>2
  <2> HIDE DEF c
  <2> QED BY <1>4, <2>1, <2>3
<1>12. ASSUME NEW t \in Threads, NEW x \in live, BeginDeallocate(t, x) PROVE CallsOK'
  <2> DEFINE c == IF kind = "atomic" THEN [pc |-> "count", by |-> -1, ptr |-> x.begin]
                  ELSE [pc |-> "deallocate", ptr |-> x.begin]
  <2>1. th' = [th EXCEPT ![t] = c] BY <1>12 DEF BeginDeallocate
  <2>2. CallOK(c) BY <1>6, <1>12 DEF BufferOK
  <2> HIDE DEF c
  <2> QED BY <1>4, <2>1, <2>2
<1>13. \A t \in Threads : Deallocate(t) \/ Push(t) => CallsOK' BY <1>4, <1>5, <1>8 DEF Deallocate, Push
<1> QED BY <1>2, <1>3, <1>7, <1>9, <1>10, <1>11, <1>12, <1>13
        DEF Next, Users, vars, Reset, Reallocate, BufferNext

(* The guard: a thread enters when nobody has it.                          *)
LEMMA GuardStep ==
  ASSUME CallsOK, GuardExclusive, [Next]_vars
  PROVE  GuardExclusive'
<1>1. UNCHANGED guarded BY ConfigurationStep
<1> SUFFICES ASSUME guarded, NEW u \in Threads, th'[u] # Idle PROVE owner' = u
  BY <1>1 DEF GuardExclusive
<1>2. CASE UNCHANGED <<th, owner>> BY <1>2 DEF GuardExclusive
<1>3. th = [s \in Threads |-> th[s]] BY DEF CallsOK
<1>4. ASSUME NEW t \in Threads, NEW x \in live, BeginDeallocate(t, x)
      PROVE  owner = Nobody /\ owner' = t /\ \A s \in Threads \ {t} : th'[s] = th[s]
  <2>1. owner = Nobody /\ owner' = t BY <1>4 DEF BeginDeallocate, enter
  <2>2. \E c : th' = [th EXCEPT ![t] = c] BY <1>4 DEF BeginDeallocate
  <2> QED BY <1>3, <2>1, <2>2
<1>5. \A t \in Threads : \A size, alignment, offset :
         BeginAllocate(t, size, alignment, offset) => owner = Nobody /\ owner' = t /\ \A s \in Threads \ {t} : th'[s] = th[s]
  BY <1>3 DEF BeginAllocate, enter
<1>6. Nobody \notin Threads BY ArenaAssumption DEF Nobody
<1>7. CASE owner = Nobody /\ \E t \in Threads : owner' = t /\ \A s \in Threads \ {t} : th'[s] = th[s]
  BY <1>6, <1>7 DEF GuardExclusive
<1>8. ASSUME NEW t \in Threads, Leave(t) PROVE owner' = u
  <2>1. th[t] # Idle /\ th'[t] = Idle /\ \A s \in Threads \ {t} : th'[s] = th[s]
    BY <1>3, <1>8 DEF Leave, Idle
  <2> QED BY <2>1 DEF GuardExclusive
<1>9. ASSUME NEW t \in Threads,
             AllocateFails(t) \/ Allocate(t) \/ CountLoad(t) \/ CountStore(t) \/ Deallocate(t) \/ Push(t)
      PROVE  owner' = u
  <2>1. th[t].pc # "idle" /\ UNCHANGED owner
    BY <1>9 DEF AllocateFails, Allocate, CountLoad, CountStore, Deallocate, Push
  <2>2. \E c : th' = [th EXCEPT ![t] = c]
    BY <1>9 DEF AllocateFails, Allocate, CountLoad, CountStore, Deallocate, Push
  <2>3. th[t] # Idle BY <2>1 DEF Idle
  <2>4. \A s \in Threads \ {t} : th'[s] = th[s] BY <1>3, <2>2
  <2> QED BY <2>1, <2>3, <2>4 DEF GuardExclusive
<1>10. \A x \in live : \A size : Reallocate(x, size) => UNCHANGED <<th, owner>> BY DEF Reallocate
<1>11. BufferNext \/ UNCHANGED vars => UNCHANGED <<th, owner>> BY DEF BufferNext, vars
<1>12. \A t \in Threads : Reset(t) => UNCHANGED <<th, owner>> BY DEF Reset
<1> QED BY <1>2, <1>4, <1>5, <1>7, <1>8, <1>9, <1>10, <1>11, <1>12 DEF Next, Users

-----------------------------------------------------------------------------
(* Buffers.                                                                *)

(* A copy: the head moves on, a channel hears of it when the end is        *)
(* reached.  e is one past the last byte but one, as in the range.         *)
LEMMA CopyFacts ==
  ASSUME NEW s \in Int, NEW e \in Int, NEW b \in Buffers(s, e), NEW size \in Nat
  PROVE  buffer_copy(b, size) \in Buffers(s, e) /\ Told(buffer_copy(b, size), e)
<1> DEFINE w == b.warned \/ (b.channel /\ buffer_full(b, size))
           h == b.head + size
           c == [b EXCEPT !.head = h, !.warned = w]
<1>1. buffer_copy(b, size) = c BY DEF buffer_copy
<1>2. /\ b.head \in Int /\ h \in Int /\ b.channel \in BOOLEAN /\ b.end = e
      /\ w \in BOOLEAN
  BY DEF buffer_full, Buffers
<1>3. h >= e /\ b.channel => w BY <1>2 DEF buffer_full
<1> HIDE DEF w, h
<1>4. c \in Buffers(s, e) /\ c.channel = b.channel /\ c.head = h /\ c.warned = w
  <2>1. c = Moved(b, h, w) BY DEF Moved
  <2> HIDE DEF c
  <2>2. PICK g \in Int, v \in BOOLEAN : g = h /\ v = w BY <1>2, Zenon
  <2>3. /\ Moved(b, g, v) \in Buffers(s, e)
        /\ Moved(b, g, v).channel = b.channel /\ Moved(b, g, v).head = g /\ Moved(b, g, v).warned = v
    BY ONLY b \in Buffers(s, e), g \in Int, v \in BOOLEAN, BufferSet
  <2> QED BY <2>1, <2>2, <2>3, Zenon
<1> HIDE DEF c
<1> QED BY <1>1, <1>3, <1>4 DEF Told

LEMMA BufferStep ==
  ASSUME Fixed, CallsOK, BufferOK, OverrunReported, [Next]_vars
  PROVE  BufferOK' /\ OverrunReported'
<1>1. UNCHANGED <<kind, slab>> BY ConfigurationStep
<1> SUFFICES ASSUME kind = "buffer" PROVE BufferOK' /\ OverrunReported'
  BY <1>1 DEF BufferOK, OverrunReported
<1>2. CASE UNCHANGED vars BY <1>1, <1>2 DEF BufferOK, OverrunReported, vars
<1>3. CASE BufferNext
  <2>1. PICK s \in Nat, e \in Int : s = slab.begin /\ e = slab.begin + SlabSize + 1 /\ s + SlabSize = e - 1
    BY SizeFacts DEF Fixed
  <2>2. al \in Buffers(s, e) /\ live = {} /\ live' = live /\ slab.size = SlabSize
    BY <1>3, <2>1 DEF BufferOK, BufferNext, Buffers
  <2>3. Told(al, e)
    <3>1. al.head \in Int BY <2>2 DEF Buffers
    <3>2. al.head >= e => al.head > slab.begin + slab.size BY <2>1, <2>2, <3>1, SizeFacts
    <3> QED BY <3>2 DEF OverrunReported, Told
  <2>4. ASSUME NEW size \in Sizes,
               al' \in {buffer_write(al, size), buffer_write_str(al, size),
                        buffer_read(al, size), buffer_read_str(al, size)}
        PROVE  al' \in Buffers(s, e) /\ Told(al', e)
    <3>1. size \in Nat /\ 4 \in Nat BY SizeFacts
    <3> DEFINE a == buffer_copy(al, size)
               b == buffer_copy(al, 4)
               c == buffer_copy(b, size)
    <3>2. a \in Buffers(s, e) /\ Told(a, e) BY <2>1, <2>2, <3>1, CopyFacts
    <3>3. b \in Buffers(s, e) BY <2>1, <2>2, <3>1, CopyFacts
    <3>4. al' \in {a, c}
      BY <2>4 DEF buffer_write, buffer_write_str, buffer_read, buffer_read_str
    <3> HIDE DEF a, b
    <3>5. c \in Buffers(s, e) /\ Told(c, e) BY <2>1, <3>1, <3>3, CopyFacts
    <3> QED BY <3>2, <3>4, <3>5
  <2>5. ASSUME NEW ptr \in Int, ptr < e, al' = [al EXCEPT !.head = ptr]
        PROVE  al' \in Buffers(s, e) /\ Told(al', e)
    <3>1. al' \in Buffers(s, e) /\ al'.head = ptr BY <2>2, <2>5, BufferHead
    <3> QED BY <2>1, <2>5, <3>1 DEF Told
  <2>6. al.begin \in Int /\ al.begin = s /\ al.end = e /\ s < e
    BY <2>1, <2>2, SizeFacts DEF Buffers
  <2>7. al' \in Buffers(s, e) /\ Told(al', e)
    <3>1. CASE al' = buffer_reset(al) BY <2>5, <2>6, <3>1 DEF buffer_reset
    <3>2. ASSUME NEW ptr \in {al.begin + 4, al.end - 1}, ptr < al.end, al' = buffer_seek(al, ptr)
          PROVE  al' \in Buffers(s, e) /\ Told(al', e)
      BY <2>5, <2>6, <3>2 DEF buffer_seek
    <3> QED BY <1>3, <2>4, <3>1, <3>2 DEF BufferNext
  <2>8. BufferOK' BY <1>1, <2>1, <2>2, <2>7 DEF BufferOK, Buffers
  <2>9. OverrunReported'
    <3>1. al'.head \in Int BY <2>7 DEF Buffers
    <3>2. al'.head > slab.begin + slab.size => al'.head >= e BY <2>1, <2>2, <3>1, SizeFacts
    <3> QED BY <1>1, <2>7, <3>2 DEF OverrunReported, Told
  <2> QED BY <2>8, <2>9
<1>4. \A t \in Threads : th[t].pc = "idle" BY DEF CallsOK, CallOK
<1>5. live = {} BY DEF BufferOK
<1> QED BY <1>2, <1>3, <1>4, <1>5
        DEF Next, Users, BeginAllocate, AllocateFails, Allocate, CountLoad, CountStore, Leave, Deallocate, Push,
            Reset, Reallocate

-----------------------------------------------------------------------------
(* Linear arenas.                                                          *)

LEMMA Overheads ==
  ASSUME Fixed, kind # "raw"
  PROVE  /\ k_front_overhead = sentinel + 8 /\ k_allocation_overhead = 2 * sentinel + 8
         /\ sentinel \in {0, 8}
  BY SMT DEF Fixed, k_front_overhead, k_back_overhead, k_allocation_overhead

(* What a linear allocator hands out lies between the head before and the  *)
(* head after, and is aligned behind the offset.                           *)
LEMMA LinearFits ==
  ASSUME NEW a \in [begin : Nat, end : Nat, head : Nat], NEW size \in Nat, NEW align \in Nat \ {0},
         NEW offset \in Nat, linear_allocate(a, size, align, offset).ptr # nullptr,
         a.end - a.begin < HeadRange
  PROVE  LET r == linear_allocate(a, size, align, offset)
         IN  /\ r.ptr \in Nat /\ a.begin + a.head <= r.ptr /\ (r.ptr + offset) % align = 0
             /\ r.a \in [begin : {a.begin}, end : {a.end}, head : Nat]
             /\ r.ptr + size = a.begin + r.a.head /\ a.begin + r.a.head <= a.end
<1> DEFINE current == a.begin + a.head
           padding == alignment_padding(current + offset, align)
           r == linear_allocate(a, size, align, offset)
<1>1. current \in Nat /\ current + offset \in Int OBVIOUS
<1>2. padding \in 0 .. align - 1 /\ (current + offset + padding) % align = 0
  BY <1>1, PaddingFacts
<1>3. ~(current + padding + size > a.end)
  BY DEF linear_allocate
<1>4. r.ptr = current + padding /\ r.a = [a EXCEPT !.head = a.head + padding + size]
  <2>1. r.ptr = current + padding /\ r.a = [a EXCEPT !.head = (a.head + padding + size) % HeadRange]
    BY <1>3 DEF linear_allocate
  <2>2. a.head + padding + size \in Nat /\ a.head + padding + size < HeadRange
    <3> HIDE DEF padding
    <3>1. padding \in Nat BY <1>2, SMT
    <3> QED BY <1>3, <3>1, WidthAssumption, SMT
  <2> QED BY <2>1, <2>2, HeadKept
<1> HIDE DEF padding, r
<1>5. current + padding + offset = current + offset + padding /\ padding \in Nat BY <1>1, <1>2, SMT
<1>6. (r.ptr + offset) % align = 0 BY <1>2, <1>4, <1>5
<1>7. /\ r.a \in [begin : {a.begin}, end : {a.end}, head : Nat]
      /\ r.a.head = a.head + padding + size
  BY <1>4, <1>5, SMT
<1> QED BY <1>1, <1>3, <1>4, <1>5, <1>6, <1>7, SMT DEF r

LEMMA LinearStep ==
  ASSUME Fixed, CallsOK, LinearOK, LiveOK, kind = "linear", [Next]_vars
  PROVE  LinearOK' /\ LiveOK'
<1>1. UNCHANGED <<kind, sentinel, slab>> BY ConfigurationStep
<1> DEFINE A == [begin : {slab.begin}, end : {slab.begin + SlabSize + 1}, head : Nat]
<1>2. al \in A /\ al.begin + al.head <= al.end /\ \A x \in live : x.begin + x.size <= al.begin + al.head
  BY DEF LinearOK
<1>3. slab.begin \in Nat \ {0} /\ SlabSize \in Nat BY SizeFacts DEF Fixed
<1>4. \A x : User(x)' = User(x)
  BY <1>1 DEF User, k_front_overhead
<1>5. ASSUME al' = al, live' \subseteq live PROVE LinearOK' /\ LiveOK'
  BY <1>1, <1>2, <1>4, <1>5 DEF LinearOK, LiveOK
<1>6. ASSUME NEW t \in Threads, Allocate(t) PROVE LinearOK' /\ LiveOK'
  <2> DEFINE c == th[t]
             size == k_allocation_overhead + c.size
             offset == c.off + k_front_overhead
             r == linear_allocate(al, size, c.align, offset)
             x == Allocation(r.ptr, c)
  <2>1. c.size \in Nat \ {0} /\ c.align \in Nat \ {0} /\ c.off \in {0, 8}
    BY <1>6 DEF CallsOK, CallOK, Allocate
  <2>2. k_front_overhead = 8 /\ k_allocation_overhead = 8 BY Overheads, SMT DEF Fixed
  <2>3. size \in Nat \ {0} /\ offset \in Nat BY <2>1, <2>2, SMT
  <2>4. r.ptr # nullptr /\ al' = r.a /\ live' = live \union {x}
    BY <1>6 DEF Allocate, AllocatorResult
  <2>5. /\ al \in [begin : Nat, end : Nat, head : Nat]
        /\ al.begin = slab.begin /\ al.end = slab.begin + SlabSize + 1
        /\ al.end - al.begin < HeadRange
    <3>1. al \in [begin : Nat, end : Nat, head : Nat] /\ al.begin = slab.begin /\ al.end = slab.begin + SlabSize + 1
      BY <1>2, <1>3
    <3>2. PICK b \in Nat, e \in Nat : al.begin = b /\ al.end = e /\ e = b + SlabSize + 1
      BY <1>3, <3>1
    <3>3. e - b < HeadRange BY <1>3, <3>2, WidthAssumption, SMT
    <3> QED BY <3>1, <3>2, <3>3, Zenon
  <2>6. /\ r.ptr \in Nat /\ al.begin + al.head <= r.ptr /\ (r.ptr + offset) % c.align = 0
        /\ r.a \in [begin : {al.begin}, end : {al.end}, head : Nat]
        /\ r.ptr + size = al.begin + r.a.head /\ al.begin + r.a.head <= al.end
    <3> HIDE DEF size, offset
    <3> QED BY <2>1, <2>3, <2>4, <2>5, LinearFits
  <2> HIDE DEF r
  <2>7. x.begin = r.ptr /\ x.size = size /\ x.align = c.align /\ x.off = c.off
    BY DEF Allocation
  <2>8. User(x) % x.align = 0
    <3>1. User(x) = r.ptr + offset BY <2>1, <2>2, <2>6, <2>7, SMT DEF User
    <3> QED BY <2>6, <2>7, <3>1
  <2> HIDE DEF x, size, offset
  <2>9. al' \in A /\ al'.begin = al.begin /\ al'.end = al.end /\ al'.begin + al'.head <= al'.end
    BY <2>4, <2>5, <2>6
  <2>10. al.head \in Nat /\ al'.head \in Nat /\ al.begin \in Nat BY <1>3, <2>5, <2>9
  <2>11. al.begin + al.head <= al'.begin + al'.head /\ x.begin + x.size <= al'.begin + al'.head
    BY <2>3, <2>4, <2>6, <2>7, <2>9, <2>10, SMT
  <2>12. \A y \in live : y.begin \in Int /\ y.size \in Nat \ {0} BY DEF LiveOK
  <2>13. \A y \in live : y.begin + y.size <= al'.begin + al'.head /\ y.begin + y.size <= x.begin
    <3> SUFFICES ASSUME NEW y \in live
                 PROVE  y.begin + y.size <= al'.begin + al'.head /\ y.begin + y.size <= x.begin
      OBVIOUS
    <3>1. y.begin \in Int /\ y.size \in Nat /\ y.begin + y.size <= al.begin + al.head BY <1>2, <2>12
    <3>2. al'.begin + al'.head \in Int /\ al.begin + al.head \in Int /\ x.begin \in Int BY <2>6, <2>7, <2>9, <2>10
    <3>3. al.begin + al.head <= x.begin BY <2>6, <2>7
    <3> QED BY <2>11, <3>1, <3>2, <3>3, SMT
  <2>14. LinearOK'
    BY <1>1, <2>4, <2>9, <2>11, <2>13 DEF LinearOK
  <2>15. /\ x.begin \in Int /\ x.size \in Nat \ {0} /\ x.align \in Nat \ {0} /\ x.off \in {0, 8}
         /\ slab.begin <= x.begin
    BY <1>3, <2>1, <2>3, <2>5, <2>6, <2>7, <2>10, SMT
  <2> QED BY <1>1, <1>4, <2>4, <2>8, <2>13, <2>14, <2>15 DEF LiveOK
<1>7. ASSUME NEW t \in Threads, Reset(t) PROVE LinearOK' /\ LiveOK'
  <2>1. al' = [al EXCEPT !.head = 0] /\ live' = {} BY <1>7 DEF Reset, linear_reset
  <2>2. al' \in A /\ al'.begin = al.begin /\ al'.end = al.end /\ al'.head = 0 BY <1>2, <2>1
  <2>3. al.begin + 0 <= al.end BY <1>2, <1>3, SMT
  <2> QED BY <1>1, <2>1, <2>2, <2>3 DEF LinearOK, LiveOK
<1>8. \A t \in Threads : ~CountLoad(t) /\ ~CountStore(t) /\ ~Push(t)
  BY DEF CallsOK, CallOK, CountLoad, CountStore, Push
<1>9. \A t \in Threads : \A size, alignment, offset : BeginAllocate(t, size, alignment, offset) => al' = al /\ live' = live
  BY DEF BeginAllocate
<1>10. \A t \in Threads : AllocateFails(t) \/ Leave(t) => al' = al /\ live' = live
  BY DEF AllocateFails, Leave
<1>11. \A t \in Threads, x \in live : BeginDeallocate(t, x) => al' = al /\ live' \subseteq live
  BY DEF BeginDeallocate
<1>12. \A t \in Threads : Deallocate(t) => al' = al /\ live' = live BY DEF Deallocate
<1>13. ~BufferNext /\ \A x \in live : \A size : ~Reallocate(x, size) BY DEF BufferNext, Reallocate
<1>14. UNCHANGED vars => al' = al /\ live' = live BY DEF vars
<1> QED BY <1>5, <1>6, <1>7, <1>8, <1>9, <1>10, <1>11, <1>12, <1>13, <1>14 DEF Next, Users

-----------------------------------------------------------------------------
(* Free lists: nodes, each once.                                           *)

LEMMA TakenFirst ==
  ASSUME NEW T, NEW q \in Seq(T), IsInjective(q), q # <<>>
  PROVE  /\ Tail(q) \in Seq(T) /\ IsInjective(Tail(q)) /\ Len(Tail(q)) = Len(q) - 1
         /\ Head(q) \in T /\ Head(q) \in ToSet(q) /\ ToSet(Tail(q)) = ToSet(q) \ {Head(q)}
<1>1. /\ Tail(q) \in Seq(T) /\ DOMAIN Tail(q) = 1 .. Len(q) - 1 /\ DOMAIN q = 1 .. Len(q)
      /\ Len(q) \in Nat /\ Len(q) > 0 /\ Head(q) = q[1] /\ Len(Tail(q)) = Len(q) - 1
      /\ \A j \in 1 .. Len(q) - 1 : Tail(q)[j] = q[j + 1]
  OBVIOUS
<1> DEFINE p == Tail(q)
<1> HIDE DEF p
<1>2. \A j \in DOMAIN p : j \in Nat /\ j + 1 \in DOMAIN q /\ j + 1 # 1 /\ p[j] = q[j + 1]
  BY <1>1, SMT DEF p
<1>3. \A i \in DOMAIN q : i # 1 => i - 1 \in DOMAIN p /\ p[i - 1] = q[i]
  <2> SUFFICES ASSUME NEW i \in DOMAIN q, i # 1 PROVE i - 1 \in DOMAIN p /\ p[i - 1] = q[i]
    OBVIOUS
  <2>1. i - 1 \in 1 .. Len(q) - 1 /\ (i - 1) + 1 = i BY <1>1, SMT
  <2> QED BY <1>1, <2>1 DEF p
<1>4. 1 \in DOMAIN q /\ q[1] \in T BY <1>1
<1>5. IsInjective(p)
  <2> SUFFICES ASSUME NEW i \in DOMAIN p, NEW j \in DOMAIN p, p[i] = p[j] PROVE i = j
    BY DEF IsInjective
  <2>1. i + 1 = j + 1 BY <1>2 DEF IsInjective
  <2> QED BY <1>2, <2>1, SMT
<1>6. ToSet(p) = ToSet(q) \ {q[1]}
  BY <1>2, <1>3, <1>4 DEF ToSet, IsInjective
<1> QED BY <1>1, <1>4, <1>5, <1>6 DEF ToSet, p

(* One more element, at either end.                                        *)
LEMMA PutBack ==
  ASSUME NEW T, NEW q \in Seq(T), IsInjective(q), NEW x \in T, x \notin ToSet(q),
         NEW s, s = Append(q, x) \/ s = <<x>> \o q
  PROVE  s \in Seq(T) /\ IsInjective(s) /\ Len(s) = Len(q) + 1 /\ ToSet(s) = ToSet(q) \union {x}
<1>1. Len(q) \in Nat /\ DOMAIN q = 1 .. Len(q) OBVIOUS
<1>2. CASE s = Append(q, x)
  <2>1. /\ s \in Seq(T) /\ Len(s) = Len(q) + 1 /\ DOMAIN s = 1 .. Len(q) + 1
        /\ s[Len(q) + 1] = x /\ \A i \in DOMAIN q : s[i] = q[i]
    BY <1>1, <1>2
  <2>2. \A i \in DOMAIN s : i = Len(q) + 1 \/ i \in DOMAIN q BY <1>1, <2>1, SMT
  <2>3. \A i \in DOMAIN q : i \in DOMAIN s BY <1>1, <2>1, SMT
  <2>4. Len(q) + 1 \in DOMAIN s BY <1>1, <2>1, SMT
  <2> QED BY <2>1, <2>2, <2>3, <2>4 DEF IsInjective, ToSet
<1>3. CASE s = <<x>> \o q
  <2>1. /\ s \in Seq(T) /\ Len(s) = Len(q) + 1 /\ DOMAIN s = 1 .. Len(q) + 1
        /\ s[1] = x /\ \A i \in 2 .. Len(q) + 1 : s[i] = q[i - 1]
    BY <1>1, <1>3
  <2>2. \A i \in DOMAIN s : i = 1 \/ (i - 1 \in DOMAIN q /\ i \in Int /\ s[i] = q[i - 1])
    <3> SUFFICES ASSUME NEW i \in DOMAIN s, i # 1 PROVE i - 1 \in DOMAIN q /\ i \in Int /\ s[i] = q[i - 1]
      OBVIOUS
    <3>1. i \in 2 .. Len(q) + 1 BY <1>1, <2>1, SMT
    <3>2. i - 1 \in 1 .. Len(q) BY <1>1, <3>1, SMT
    <3> QED BY <1>1, <2>1, <3>1, <3>2
  <2>3. \A i \in DOMAIN q : i + 1 \in DOMAIN s /\ s[i + 1] = q[i]
    <3> SUFFICES ASSUME NEW i \in DOMAIN q PROVE i + 1 \in DOMAIN s /\ s[i + 1] = q[i]
      OBVIOUS
    <3>1. i + 1 \in 2 .. Len(q) + 1 /\ (i + 1) - 1 = i BY <1>1, SMT
    <3>2. i + 1 \in DOMAIN s BY <1>1, <2>1, <3>1, SMT
    <3> QED BY <2>1, <3>1, <3>2
  <2>4. 1 \in DOMAIN s BY <1>1, <2>1, SMT
  <2>5. IsInjective(s)
    <3> SUFFICES ASSUME NEW i \in DOMAIN s, NEW j \in DOMAIN s, s[i] = s[j] PROVE i = j
      BY DEF IsInjective
    <3>1. CASE i = 1 \/ j = 1 BY <2>1, <2>2, <3>1 DEF ToSet
    <3>2. CASE i # 1 /\ j # 1
      <4>1. i - 1 = j - 1 BY <2>2, <3>2 DEF IsInjective
      <4> QED BY <2>2, <3>2, <4>1, SMT
    <3> QED BY <3>1, <3>2
  <2>6. ToSet(s) = ToSet(q) \union {x}
    <3>1. ASSUME NEW i \in DOMAIN s PROVE s[i] \in ToSet(q) \union {x} BY <2>1, <2>2 DEF ToSet
    <3>2. ASSUME NEW i \in DOMAIN q PROVE q[i] \in ToSet(s) BY <2>3 DEF ToSet
    <3>3. x \in ToSet(s) BY <2>1, <2>4 DEF ToSet
    <3>4. ToSet(s) \subseteq ToSet(q) \union {x} BY <3>1 DEF ToSet
    <3>5. ToSet(q) \subseteq ToSet(s) BY <3>2 DEF ToSet
    <3> QED BY <3>3, <3>4, <3>5
  <2> QED BY <2>1, <2>5, <2>6
<1> QED BY <1>2, <1>3

-----------------------------------------------------------------------------
(* Pools.                                                                  *)

(* A request lies within its node, its data aligned.                       *)
LEMMA NodeAddress ==
  ASSUME Fixed, kind \in {"pool", "atomic"}, NEW c, CallOK(c), c.pc = "allocate", NEW n \in Nodes, NEW a
  PROVE  LET p == node_address(a, n, c.align, c.off + k_front_overhead)
         IN  /\ p \in Nat \ {0} /\ n <= p /\ p + (k_allocation_overhead + c.size) <= n + NodeSize
             /\ (p + k_front_overhead + c.off) % c.align = 0
<1> DEFINE offset == c.off + k_front_overhead
           padding == alignment_padding(n + offset, c.align)
           p == node_address(a, n, c.align, offset)
<1>1. /\ sentinel \in {0, 8} /\ slab.begin \in Nat \ {0} /\ k_front_overhead = sentinel + 8
      /\ k_allocation_overhead = 2 * sentinel + 8
  BY Overheads DEF Fixed
<1>2. c.size \in Nat \ {0} /\ c.align \in Nat \ {0} /\ c.off \in {0, 8} BY DEF CallOK
<1>3. n \in Nat \ {0} BY <1>1, NodeFacts
<1>4. offset \in Nat BY <1>1, <1>2, SMT
<1> HIDE DEF offset
<1>5. padding \in 0 .. c.align - 1 /\ (n + offset + padding) % c.align = 0
  <2>1. n + offset \in Int BY <1>3, <1>4
  <2> QED BY <1>2, <2>1, PaddingFacts
<1>6. p = n + padding BY DEF node_address
<1>7. padding + 2 * sentinel + 8 + c.size <= NodeSize
  <2>1. CASE kind = "pool"
    <3>1. NodeSize \in Nat /\ NodeSize >= NodeUser + 8 + 2 * sentinel + 16 BY <1>1, <2>1, NodeSizes
    <3>2. c.size <= NodeUser /\ c.align <= 16 BY <2>1 DEF CallOK
    <3> HIDE DEF padding
    <3> QED BY <1>1, <1>2, <1>5, <3>1, <3>2, SizeFacts, SMT
  <2>2. CASE kind = "atomic"
    <3>1. c.size <= CacheLine /\ c.align = CacheLine /\ c.off = 0 BY <2>2 DEF CallOK
    <3>2. sentinel = 0 /\ slab.begin % CacheLine = 0 BY <2>2 DEF Fixed
    <3>3. PICK k \in Int : n = k * CacheLine BY <1>1, <2>2, <3>2, NodeLines
    <3>4. offset = 8 BY <1>1, <3>1, <3>2, SMT DEF offset
    <3>5. padding = CacheLine - 8
      <4>1. 8 \in 1 .. CacheLine /\ CacheLine \in Nat \ {0} BY SizeFacts, SMT
      <4>2. alignment_padding(k * CacheLine + 8, CacheLine) = CacheLine - 8 BY <4>1, PaddingAfter
      <4> QED BY <3>1, <3>3, <3>4, <4>2
    <3>6. PICK m \in Int : NodeSize = m * CacheLine /\ m >= 2 BY <1>1, <2>2, NodeSizes
    <3>7. 2 * CacheLine <= m * CacheLine BY <3>6, MulMono, SizeFacts
    <3>8. m * CacheLine \in Int BY <3>6, SizeFacts, SMT
    <3> HIDE DEF padding
    <3> QED BY <1>2, <3>1, <3>2, <3>5, <3>6, <3>7, <3>8, SizeFacts, SMT
  <2> QED BY <2>1, <2>2
<1>8. p + k_front_overhead + c.off = n + offset + padding
  <2> HIDE DEF p, padding
  <2>1. padding \in Nat BY <1>2, <1>5, SMT
  <2> QED BY <1>1, <1>2, <1>3, <1>6, <2>1, SMT DEF offset
<1>9. NodeSize \in Nat BY <1>1, NodeSizes
<1> HIDE DEF p, padding
<1>10. p \in Nat \ {0} /\ n <= p /\ p + (k_allocation_overhead + c.size) <= n + NodeSize
  <2>1. padding \in Nat BY <1>2, <1>5, SMT
  <2> QED BY <1>1, <1>2, <1>3, <1>6, <1>7, <1>9, <2>1, SMT
<1> QED BY <1>5, <1>8, <1>10 DEF p, offset

(* What a step does to the nodes on the way back.                          *)
LEMMA ReturningSame ==
  ASSUME CallsOK, NEW t \in Threads, NEW c, th' = [th EXCEPT ![t] = c],
         Returns(c) <=> Returns(th[t]), Returns(c) => c.ptr = th[t].ptr
  PROVE  Returning' = Returning /\ \A u \in Returning : th'[u].ptr = th[u].ptr
<1>1. th'[t] = c /\ \A u \in Threads \ {t} : th'[u] = th[u] BY DEF CallsOK
<1> QED BY <1>1 DEF Returning, Returns

LEMMA ReturningMore ==
  ASSUME CallsOK, NEW t \in Threads, NEW c, th' = [th EXCEPT ![t] = c], ~Returns(th[t]), Returns(c)
  PROVE  /\ t \notin Returning /\ Returning' = Returning \union {t} /\ th'[t].ptr = c.ptr
         /\ \A u \in Returning : th'[u].ptr = th[u].ptr
<1>1. th'[t] = c /\ \A u \in Threads \ {t} : th'[u] = th[u] BY DEF CallsOK
<1> QED BY <1>1 DEF Returning, Returns

LEMMA ReturningLess ==
  ASSUME CallsOK, NEW t \in Threads, NEW c, th' = [th EXCEPT ![t] = c], Returns(th[t]), ~Returns(c)
  PROVE  /\ t \in Returning /\ Returning' = Returning \ {t}
         /\ \A u \in Returning \ {t} : th'[u].ptr = th[u].ptr
<1>1. th'[t] = c /\ \A u \in Threads \ {t} : th'[u] = th[u] BY DEF CallsOK
<1> QED BY <1>1 DEF Returning, Returns

LEMMA SameUser ==
  ASSUME UNCHANGED <<kind, sentinel>>
  PROVE  \A x : User(x)' = User(x)
  BY DEF User, k_front_overhead

(* The invariants of a pool, when its nodes stay where they are.           *)
LEMMA PoolFrame ==
  ASSUME NodesOK, CountsOK, LiveOK, kind \in {"pool", "atomic"},
         UNCHANGED <<kind, sentinel, slab, live, tracker>>,
         al' \in [begin : {slab.begin}, node_size : {NodeSize}, count : Int, free : Seq(Nodes)],
         al'.free = al.free, kind = "pool" => al' = al,
         Returning' = Returning, \A u \in Returning : th'[u].ptr = th[u].ptr
  PROVE  NodesOK' /\ CountsOK' /\ LiveOK'
<1>1. /\ Nodes' = Nodes /\ NodeSize' = NodeSize /\ (\A p, n : Holds(p, n)' <=> Holds(p, n))
  BY SameNodes
<1>2. NodesOK' BY <1>1 DEF NodesOK
<1>3. CountsOK' BY <1>1 DEF CountsOK, Tracked
<1>4. LiveOK' BY SameUser DEF LiveOK
<1> QED BY <1>2, <1>3, <1>4

(* Two ranges in one node are of one owner; in different nodes they are    *)
(* apart.                                                                  *)
LEMMA Apart ==
  ASSUME Fixed, kind \in {"pool", "atomic"}, NEW n \in Nodes, NEW m \in Nodes, n # m,
         NEW b \in Int, NEW s \in Nat, n <= b, b + s <= n + NodeSize,
         NEW d \in Int, NEW z \in Nat, m <= d, d + z <= m + NodeSize
  PROVE  b + s <= d \/ d + z <= b
<1>1. n \in Nat /\ m \in Nat /\ NodeSize \in Nat /\ (n + NodeSize <= m \/ m + NodeSize <= n)
  BY NodeFacts, NodeSizes DEF Fixed
<1> QED BY <1>1, SMT

(* An address lies in one node.                                            *)
LEMMA OneNode ==
  ASSUME Fixed, kind \in {"pool", "atomic"}, NEW p \in Int, NEW n, NEW m, Holds(p, n), Holds(p, m)
  PROVE  n = m
<1>1. /\ n \in Nat /\ m \in Nat /\ NodeSize \in Nat
      /\ n = m \/ n + NodeSize <= m \/ m + NodeSize <= n
  BY NodeFacts, NodeSizes DEF Fixed, Holds
<1> QED BY <1>1, SMT DEF Holds

LEMMA PoolRecord ==
  ASSUME NEW B, NEW Z, NEW T, NEW a \in [begin : B, node_size : Z, count : Int, free : T],
         NEW f \in T, NEW k \in Int, NEW r, r = [a EXCEPT !.free = f, !.count = k]
  PROVE  r \in [begin : B, node_size : Z, count : Int, free : T] /\ r.free = f /\ r.count = k
  OBVIOUS

(* NodesOK after a step, written with what the step leaves.                *)
LEMMA NodesNext ==
  ASSUME UNCHANGED <<kind, sentinel, slab>>, slab.size = NodeSize * MaxNodes,
         al' \in [begin : {slab.begin}, node_size : {NodeSize}, count : Int, free : Seq(Nodes)],
         IsInjective(al'.free),
         \A x \in live' : \E n \in Nodes : n <= x.begin /\ x.begin + x.size <= n + NodeSize,
         \A t \in Returning' : th'[t].ptr \in Int /\ \E n \in Nodes : Holds(th'[t].ptr, n),
         \A n \in Nodes :
            /\ \A x, y \in live' : Holds(x.begin, n) /\ Holds(y.begin, n) => x = y
            /\ \A t, u \in Returning' : Holds(th'[t].ptr, n) /\ Holds(th'[u].ptr, n) => t = u
            /\ \A x \in live', t \in Returning' : ~(Holds(x.begin, n) /\ Holds(th'[t].ptr, n))
            /\ n \in ToSet(al'.free) <=>
                   /\ \A x \in live' : ~Holds(x.begin, n)
                   /\ \A t \in Returning' : ~Holds(th'[t].ptr, n)
  PROVE  NodesOK'
<1>1. Nodes' = Nodes /\ NodeSize' = NodeSize BY SameNodes
<1>2. \A p, n : Holds(p, n)' <=> Holds(p, n) BY SameNodes
<1>3. /\ \A t \in Returning' : \A n : Holds(th[t].ptr, n)' <=> Holds(th'[t].ptr, n)
      /\ \A x \in live' : \A n : Holds(x.begin, n)' <=> Holds(x.begin, n)
  BY <1>1 DEF Holds
<1> QED BY <1>1, <1>3 DEF NodesOK

(* The first free node goes to an allocation.                              *)
LEMMA PoolAllocates ==
  ASSUME Fixed, NodesOK, CountsOK, LiveOK, kind \in {"pool", "atomic"},
         UNCHANGED <<kind, sentinel, slab>>,
         Returning' = Returning, \A u \in Returning : th'[u].ptr = th[u].ptr,
         al.free # <<>>,
         al' = [al EXCEPT !.free = Tail(al.free), !.count = IF kind = "pool" THEN al.count + 1 ELSE al.count],
         NEW x, live' = live \union {x}, on_allocation(x.begin),
         x.begin \in Nat \ {0}, x.size \in Nat \ {0}, x.align \in Nat \ {0}, x.off \in {0, 8},
         Head(al.free) <= x.begin, x.begin + x.size <= Head(al.free) + NodeSize, User(x) % x.align = 0
  PROVE  NodesOK' /\ CountsOK' /\ LiveOK'
<1> DEFINE h == Head(al.free)
<1>1. /\ Nodes' = Nodes /\ NodeSize' = NodeSize /\ (\A p, n : Holds(p, n)' <=> Holds(p, n))
  BY SameNodes
<1>2. /\ al \in [begin : {slab.begin}, node_size : {NodeSize}, count : Int, free : Seq(Nodes)]
      /\ IsInjective(al.free)
  BY DEF NodesOK
<1>3. /\ Tail(al.free) \in Seq(Nodes) /\ IsInjective(Tail(al.free)) /\ Len(Tail(al.free)) = Len(al.free) - 1
      /\ h \in Nodes /\ h \in ToSet(al.free) /\ ToSet(Tail(al.free)) = ToSet(al.free) \ {h}
  <2>1. al.free \in Seq(Nodes) BY <1>2
  <2> QED BY <1>2, <2>1, TakenFirst
<1> HIDE DEF h
<1>4. /\ al'.free = Tail(al.free) /\ al'.count = (IF kind = "pool" THEN al.count + 1 ELSE al.count)
      /\ al' \in [begin : {slab.begin}, node_size : {NodeSize}, count : Int, free : Seq(Nodes)]
  <2> DEFINE k == IF kind = "pool" THEN al.count + 1 ELSE al.count
  <2>1. k \in Int /\ Tail(al.free) \in Seq(Nodes) BY <1>2, <1>3
  <2> HIDE DEF k
  <2>2. al' = [al EXCEPT !.free = Tail(al.free), !.count = k] BY DEF k
  <2>3. /\ al'.free = Tail(al.free) /\ al'.count = k
        /\ al' \in [begin : {slab.begin}, node_size : {NodeSize}, count : Int, free : Seq(Nodes)]
    BY ONLY <1>2, <2>1, <2>2, PoolRecord
  <2> QED BY <2>3 DEF k
<1>5. /\ h \in Nat \ {0} /\ slab.begin <= h /\ slab.begin \in Nat /\ NodeSize \in Nat
      /\ h <= x.begin /\ x.begin + x.size <= h + NodeSize
  BY <1>3, NodeFacts, NodeSizes DEF Fixed, h
<1>6. Holds(x.begin, h) BY <1>3, <1>5, SMT DEF Holds
<1>7. \A n : Holds(x.begin, n) <=> n = h BY <1>6, OneNode DEF Holds
<1>8. /\ \A y \in live : ~Holds(y.begin, h)
      /\ \A t \in Returning : ~Holds(th[t].ptr, h)
  BY <1>3 DEF NodesOK
<1>9. \A n \in Nodes : n \in ToSet(al'.free) <=>
                          /\ \A y \in live' : ~Holds(y.begin, n)
                          /\ \A t \in Returning : ~Holds(th[t].ptr, n)
  <2>1. \A n \in Nodes : n \in ToSet(al.free) <=>
                          /\ \A y \in live : ~Holds(y.begin, n)
                          /\ \A t \in Returning : ~Holds(th[t].ptr, n)
    BY DEF NodesOK
  <2> QED BY <1>3, <1>4, <1>7, <2>1
<1>10. \A n \in Nodes :
          /\ \A y, z \in live' : Holds(y.begin, n) /\ Holds(z.begin, n) => y = z
          /\ \A t, u \in Returning : Holds(th[t].ptr, n) /\ Holds(th[u].ptr, n) => t = u
          /\ \A y \in live', t \in Returning : ~(Holds(y.begin, n) /\ Holds(th[t].ptr, n))
  BY <1>7, <1>8 DEF NodesOK
<1>11. \A y \in live' : \E n \in Nodes : n <= y.begin /\ y.begin + y.size <= n + NodeSize
  BY <1>3, <1>5 DEF NodesOK
<1>12. NodesOK'
  <2>1. slab.size = NodeSize * MaxNodes BY DEF NodesOK
  <2>2. \A t \in Returning' : th'[t].ptr \in Int /\ \E n \in Nodes : Holds(th'[t].ptr, n)
    BY DEF NodesOK
  <2>3. \A n \in Nodes :
            /\ \A y, z \in live' : Holds(y.begin, n) /\ Holds(z.begin, n) => y = z
            /\ \A t, u \in Returning' : Holds(th'[t].ptr, n) /\ Holds(th'[u].ptr, n) => t = u
            /\ \A y \in live', t \in Returning' : ~(Holds(y.begin, n) /\ Holds(th'[t].ptr, n))
            /\ n \in ToSet(al'.free) <=>
                   /\ \A y \in live' : ~Holds(y.begin, n)
                   /\ \A t \in Returning' : ~Holds(th'[t].ptr, n)
    BY <1>9, <1>10
  <2>4. IsInjective(al'.free) BY <1>3, <1>4
  <2> QED BY <1>4, <1>11, <2>1, <2>2, <2>3, <2>4, NodesNext
<1>13. CountsOK'
  <2> SUFFICES ASSUME kind = "pool"
               PROVE  /\ al'.count = MaxNodes - Len(al'.free)
                      /\ tracker' = Tracked(al'.count, {y.begin : y \in live'} \union {th'[t].ptr : t \in Returning'})
    BY DEF CountsOK
  <2>1. /\ al.count = MaxNodes - Len(al.free)
        /\ tracker = Tracked(al.count, {y.begin : y \in live} \union {th[t].ptr : t \in Returning})
    BY DEF CountsOK
  <2>2. Len(al.free) \in Nat BY <1>2
  <2>3. al'.count = MaxNodes - Len(al'.free) BY <1>3, <1>4, <2>1, <2>2, SizeFacts, SMT
  <2>4. tracker' = Tracked(tracker.n + 1, tracker.keys \union {x.begin}) BY DEF on_allocation
  <2>5. {th'[t].ptr : t \in Returning'} = {th[t].ptr : t \in Returning} OBVIOUS
  <2>6. {y.begin : y \in live'} = {y.begin : y \in live} \union {x.begin} OBVIOUS
  <2>7. tracker.n = al.count /\ tracker.keys = {y.begin : y \in live} \union {th[t].ptr : t \in Returning}
    BY <2>1 DEF Tracked
  <2>8. al'.count = al.count + 1 BY <1>4
  <2>9. tracker.keys \union {x.begin} = {y.begin : y \in live'} \union {th'[t].ptr : t \in Returning'}
    BY <2>5, <2>6, <2>7
  <2> QED BY <2>3, <2>4, <2>7, <2>8, <2>9
<1>14. ASSUME NEW y \in live PROVE x.begin + x.size <= y.begin \/ y.begin + y.size <= x.begin
  <2>1. PICK n \in Nodes : n <= y.begin /\ y.begin + y.size <= n + NodeSize BY DEF NodesOK
  <2>2. y.begin \in Int /\ y.size \in Nat \ {0} BY DEF LiveOK
  <2>3. n # h
    <3>1. n \in Nat /\ NodeSize \in Nat BY <2>1, NodeFacts, NodeSizes DEF Fixed
    <3>2. Holds(y.begin, n) BY <2>1, <2>2, <3>1, SMT DEF Holds
    <3> QED BY <1>8, <3>2
  <2>4. x.begin \in Int /\ x.size \in Nat /\ y.size \in Nat BY <2>2
  <2> QED BY <1>3, <1>5, <2>1, <2>2, <2>3, <2>4, Apart
<1>15. LiveOK'
  <2>1. slab.begin <= x.begin /\ x.begin \in Int BY <1>5, SMT
  <2> QED BY <1>14, <2>1, SameUser DEF LiveOK
<1> QED BY <1>12, <1>13, <1>15

(* The client lets go of an allocation: its node is on the way back.       *)
LEMMA PoolBegins ==
  ASSUME Fixed, NodesOK, CountsOK, LiveOK, kind \in {"pool", "atomic"},
         UNCHANGED <<kind, sentinel, slab, al, tracker>>,
         NEW x \in live, live' = live \ {x},
         NEW t, t \notin Returning, Returning' = Returning \union {t}, th'[t].ptr = x.begin,
         \A u \in Returning : th'[u].ptr = th[u].ptr
  PROVE  NodesOK' /\ CountsOK' /\ LiveOK'
<1>1. x.begin \in Int /\ x.size \in Nat \ {0} BY DEF LiveOK
<1>2. PICK h \in Nodes : Holds(x.begin, h)
  <2>1. PICK n \in Nodes : n <= x.begin /\ x.begin + x.size <= n + NodeSize BY DEF NodesOK
  <2>2. n \in Nat /\ NodeSize \in Nat BY <2>1, NodeFacts, NodeSizes DEF Fixed
  <2> QED BY <1>1, <2>1, <2>2, SMT DEF Holds
<1>3. /\ \A y \in live, n \in Nodes : Holds(y.begin, n) /\ Holds(x.begin, n) => y = x
      /\ \A u \in Returning, n \in Nodes : ~(Holds(x.begin, n) /\ Holds(th[u].ptr, n))
  BY DEF NodesOK
<1>4. NodesOK'
  <2>1. slab.size = NodeSize * MaxNodes BY DEF NodesOK
  <2>2. /\ al' \in [begin : {slab.begin}, node_size : {NodeSize}, count : Int, free : Seq(Nodes)]
        /\ IsInjective(al'.free)
    BY DEF NodesOK
  <2>3. \A y \in live' : \E n \in Nodes : n <= y.begin /\ y.begin + y.size <= n + NodeSize BY DEF NodesOK
  <2>4. \A u \in Returning' : th'[u].ptr \in Int /\ \E n \in Nodes : Holds(th'[u].ptr, n)
    BY <1>1, <1>2 DEF NodesOK
  <2>5. ASSUME NEW n \in Nodes
        PROVE  /\ \A y, z \in live' : Holds(y.begin, n) /\ Holds(z.begin, n) => y = z
               /\ \A u, w \in Returning' : Holds(th'[u].ptr, n) /\ Holds(th'[w].ptr, n) => u = w
               /\ \A y \in live', u \in Returning' : ~(Holds(y.begin, n) /\ Holds(th'[u].ptr, n))
               /\ n \in ToSet(al'.free) <=>
                      /\ \A y \in live' : ~Holds(y.begin, n)
                      /\ \A u \in Returning' : ~Holds(th'[u].ptr, n)
    BY <1>3 DEF NodesOK
  <2> QED BY <2>1, <2>2, <2>3, <2>4, <2>5, NodesNext
<1>5. CountsOK'
  <2> SUFFICES ASSUME kind = "pool"
               PROVE  /\ al'.count = MaxNodes - Len(al'.free)
                      /\ tracker' = Tracked(al'.count, {y.begin : y \in live'} \union {th'[u].ptr : u \in Returning'})
    BY DEF CountsOK
  <2>1. {y.begin : y \in live} \union {th[u].ptr : u \in Returning}
           = {y.begin : y \in live'} \union {th'[u].ptr : u \in Returning'}
    <3>1. {th'[u].ptr : u \in Returning'} = {th[u].ptr : u \in Returning} \union {x.begin} OBVIOUS
    <3>2. {y.begin : y \in live} = {y.begin : y \in live'} \union {x.begin} OBVIOUS
    <3> QED BY <3>1, <3>2
  <2> QED BY <2>1 DEF CountsOK
<1>6. LiveOK' BY SameUser DEF LiveOK
<1> QED BY <1>4, <1>5, <1>6

(* A node comes back to the free ones.                                     *)
LEMMA PoolReturns ==
  ASSUME Fixed, NodesOK, CountsOK, LiveOK, kind \in {"pool", "atomic"},
         UNCHANGED <<kind, sentinel, slab, live>>,
         NEW t \in Returning, Returning' = Returning \ {t},
         \A u \in Returning \ {t} : th'[u].ptr = th[u].ptr,
         NEW s \in {Append(al.free, node_of(al, th[t].ptr)), <<node_of(al, th[t].ptr)>> \o al.free},
         al' = [al EXCEPT !.free = s, !.count = IF kind = "pool" THEN al.count - 1 ELSE al.count],
         on_deallocation(th[t].ptr)
  PROVE  NodesOK' /\ CountsOK' /\ LiveOK'
<1> DEFINE p == th[t].ptr
<1>1. /\ al \in [begin : {slab.begin}, node_size : {NodeSize}, count : Int, free : Seq(Nodes)]
      /\ IsInjective(al.free)
  BY DEF NodesOK
<1>2. PICK h \in Nodes : Holds(p, h) BY DEF NodesOK
<1>3. p \in Int BY DEF NodesOK
<1>4. node_of(al, p) = h
  <2>1. sentinel \in {0, 8} /\ slab.begin \in Nat \ {0} /\ al.begin = slab.begin /\ al.node_size = NodeSize
    BY <1>1 DEF Fixed
  <2> HIDE DEF p
  <2> QED BY <1>2, <1>3, <2>1, NodeOf
<1>5. \A n : Holds(p, n) <=> n = h
  <2> HIDE DEF p
  <2> QED BY <1>2, <1>3, OneNode
<1>6. h \notin ToSet(al.free) BY <1>2 DEF NodesOK
<1>7. /\ s \in Seq(Nodes) /\ IsInjective(s) /\ Len(s) = Len(al.free) + 1
      /\ ToSet(s) = ToSet(al.free) \union {h}
  <2> DEFINE q == al.free
             T == Nodes
  <2>1. q \in Seq(T) /\ IsInjective(q) /\ h \in T /\ h \notin ToSet(q) BY <1>1, <1>6
  <2>2. s = Append(q, h) \/ s = <<h>> \o q BY <1>4
  <2> HIDE DEF q, T
  <2>3. s \in Seq(T) /\ IsInjective(s) /\ Len(s) = Len(q) + 1 /\ ToSet(s) = ToSet(q) \union {h}
    BY ONLY <2>1, <2>2, PutBack
  <2> QED BY <2>3 DEF q, T
<1>8. /\ al'.free = s /\ al'.count = (IF kind = "pool" THEN al.count - 1 ELSE al.count)
      /\ al' \in [begin : {slab.begin}, node_size : {NodeSize}, count : Int, free : Seq(Nodes)]
  <2> DEFINE k == IF kind = "pool" THEN al.count - 1 ELSE al.count
  <2>1. k \in Int BY <1>1
  <2> HIDE DEF k
  <2>2. al' = [al EXCEPT !.free = s, !.count = k] BY DEF k
  <2>3. /\ al'.free = s /\ al'.count = k
        /\ al' \in [begin : {slab.begin}, node_size : {NodeSize}, count : Int, free : Seq(Nodes)]
    BY ONLY <1>1, <1>7, <2>1, <2>2, PoolRecord
  <2> QED BY <2>3 DEF k
<1>9. /\ \A y \in live : ~Holds(y.begin, h)
      /\ \A u \in Returning : Holds(th[u].ptr, h) => u = t
  BY <1>2 DEF NodesOK
<1>10. NodesOK'
  <2>1. slab.size = NodeSize * MaxNodes BY DEF NodesOK
  <2>2. IsInjective(al'.free) BY <1>7, <1>8
  <2>3. \A y \in live' : \E n \in Nodes : n <= y.begin /\ y.begin + y.size <= n + NodeSize BY DEF NodesOK
  <2>4. \A u \in Returning' : th'[u].ptr \in Int /\ \E n \in Nodes : Holds(th'[u].ptr, n)
    BY DEF NodesOK
  <2>5. ASSUME NEW n \in Nodes
        PROVE  /\ \A y, z \in live' : Holds(y.begin, n) /\ Holds(z.begin, n) => y = z
               /\ \A u, w \in Returning' : Holds(th'[u].ptr, n) /\ Holds(th'[w].ptr, n) => u = w
               /\ \A y \in live', u \in Returning' : ~(Holds(y.begin, n) /\ Holds(th'[u].ptr, n))
    BY DEF NodesOK
  <2>6. ASSUME NEW n \in Nodes
        PROVE  n \in ToSet(al'.free) <=>
                      /\ \A y \in live' : ~Holds(y.begin, n)
                      /\ \A u \in Returning' : ~Holds(th'[u].ptr, n)
    <3>1. n \in ToSet(al.free) <=>
                      /\ \A y \in live : ~Holds(y.begin, n)
                      /\ \A u \in Returning : ~Holds(th[u].ptr, n)
      BY DEF NodesOK
    <3>2. CASE n = h BY <1>7, <1>8, <1>9, <3>2
    <3>3. CASE n # h
      <4>1. ~Holds(th[t].ptr, n) BY <1>5, <3>3
      <4> QED BY <1>7, <1>8, <3>1, <3>3, <4>1
    <3> QED BY <3>2, <3>3
  <2> QED BY <1>8, <2>1, <2>2, <2>3, <2>4, <2>5, <2>6, NodesNext
<1>11. CountsOK'
  <2> SUFFICES ASSUME kind = "pool"
               PROVE  /\ al'.count = MaxNodes - Len(al'.free)
                      /\ tracker' = Tracked(al'.count, {y.begin : y \in live'} \union {th'[u].ptr : u \in Returning'})
    BY DEF CountsOK
  <2>1. /\ al.count = MaxNodes - Len(al.free)
        /\ tracker = Tracked(al.count, {y.begin : y \in live} \union {th[u].ptr : u \in Returning})
    BY DEF CountsOK
  <2>2. Len(al.free) \in Nat BY <1>1
  <2>3. al'.count = MaxNodes - Len(al'.free) BY <1>7, <1>8, <2>1, <2>2, SizeFacts, SMT
  <2>4. tracker' = Tracked(tracker.n - 1, tracker.keys \ {p}) BY DEF on_deallocation
  <2>5. tracker.n = al.count /\ tracker.keys = {y.begin : y \in live} \union {th[u].ptr : u \in Returning}
    BY <2>1 DEF Tracked
  <2>6. al'.count = al.count - 1 BY <1>8
  <2>7. \A y \in live : y.begin # p BY <1>2, <1>9
  <2>8. \A u \in Returning \ {t} : th[u].ptr # p BY <1>2, <1>9
  <2>9. tracker.keys \ {p} = {y.begin : y \in live'} \union {th'[u].ptr : u \in Returning'}
    BY <2>5, <2>7, <2>8
  <2> QED BY <2>3, <2>4, <2>5, <2>6, <2>9
<1>12. LiveOK' BY SameUser DEF LiveOK
<1> QED BY <1>10, <1>11, <1>12

LEMMA PoolStep ==
  ASSUME Fixed, CallsOK, NodesOK, CountsOK, LiveOK, kind \in {"pool", "atomic"}, [Next]_vars
  PROVE  NodesOK' /\ CountsOK' /\ LiveOK'
<1>1. UNCHANGED <<kind, sentinel, slab>> BY ConfigurationStep
<1> DEFINE A == [begin : {slab.begin}, node_size : {NodeSize}, count : Int, free : Seq(Nodes)]
<1>2. al \in A BY DEF NodesOK
<1>3. \A t \in Threads : CallOK(th[t]) BY DEF CallsOK
<1>4. CASE UNCHANGED vars
  <2>1. Returning' = Returning /\ \A u \in Returning : th'[u].ptr = th[u].ptr BY <1>4 DEF vars, Returning, Returns
  <2>2. UNCHANGED <<kind, sentinel, slab, live, tracker, al>> BY <1>4 DEF vars
  <2> QED BY <1>2, <2>1, <2>2, PoolFrame
(* Steps that move no node.                                                *)
<1>5. ASSUME NEW t \in Threads, NEW c, th' = [th EXCEPT ![t] = c],
             Returns(c) <=> Returns(th[t]), Returns(c) => c.ptr = th[t].ptr,
             UNCHANGED <<live, tracker>>, al' \in A, al'.free = al.free, kind = "pool" => al' = al
      PROVE  NodesOK' /\ CountsOK' /\ LiveOK'
  <2>1. Returning' = Returning /\ \A u \in Returning : th'[u].ptr = th[u].ptr BY <1>5, ReturningSame
  <2> QED BY <1>1, <1>5, <2>1, PoolFrame
<1> HIDE DEF A
<1>6. ASSUME NEW t \in Threads, NEW size, NEW alignment, NEW offset, BeginAllocate(t, size, alignment, offset)
      PROVE  NodesOK' /\ CountsOK' /\ LiveOK'
  <2> DEFINE c == [pc |-> "allocate", size |-> size + offset, align |-> alignment, off |-> offset]
  <2>1. th' = [th EXCEPT ![t] = c] /\ UNCHANGED <<live, tracker, al>> BY <1>6 DEF BeginAllocate
  <2>2. ~Returns(c) /\ ~Returns(th[t]) BY <1>6 DEF Returns, BeginAllocate, Idle
  <2> HIDE DEF c
  <2> QED BY <1>2, <1>5, <2>1, <2>2
<1>7. ASSUME NEW t \in Threads, AllocateFails(t) \/ Leave(t)
      PROVE  NodesOK' /\ CountsOK' /\ LiveOK'
  <2>1. th' = [th EXCEPT ![t] = Idle] /\ UNCHANGED <<live, tracker, al>> BY <1>7 DEF AllocateFails, Leave
  <2>2. ~Returns(Idle) /\ ~Returns(th[t]) BY <1>7 DEF Returns, AllocateFails, Leave, Idle
  <2> QED BY <1>2, <1>5, <2>1, <2>2
<1>8. ASSUME NEW t \in Threads, CountLoad(t)
      PROVE  NodesOK' /\ CountsOK' /\ LiveOK'
  <2> DEFINE c == [pc |-> "store", value |-> al.count + th[t].by, by |-> th[t].by,
                   ptr |-> IF th[t].by = 1 THEN nullptr ELSE th[t].ptr]
  <2>1. th' = [th EXCEPT ![t] = c] /\ UNCHANGED <<live, tracker, al>> /\ th[t].pc = "count" BY <1>8 DEF CountLoad
  <2>2. th[t].by \in {1, -1} BY <1>3, <2>1 DEF CallOK
  <2>3. c.pc = "store" /\ c.by = th[t].by /\ (th[t].by # 1 => c.ptr = th[t].ptr) OBVIOUS
  <2> HIDE DEF c
  <2>4. (Returns(c) <=> Returns(th[t])) /\ (Returns(c) => c.ptr = th[t].ptr) BY <2>1, <2>2, <2>3 DEF Returns
  <2> QED BY <1>2, <1>5, <2>1, <2>4
<1>9. ASSUME NEW t \in Threads, CountStore(t)
      PROVE  NodesOK' /\ CountsOK' /\ LiveOK'
  <2> DEFINE c == IF th[t].by = 1 THEN [pc |-> "leave"] ELSE [pc |-> "push", ptr |-> th[t].ptr]
  <2>1. /\ th' = [th EXCEPT ![t] = c] /\ UNCHANGED <<live, tracker>> /\ th[t].pc = "store"
        /\ al' = [al EXCEPT !.count = th[t].value]
    BY <1>9 DEF CountStore
  <2>2. th[t].by \in {1, -1} /\ kind = "atomic" BY <1>3, <2>1 DEF CallOK
  <2>3. (Returns(c) <=> Returns(th[t])) /\ (Returns(c) => c.ptr = th[t].ptr) BY <2>1, <2>2 DEF Returns
  <2>4. al'.free = al.free BY <1>2, <2>1 DEF A
  <2>5. al' \in A
    <3>1. th[t].value \in Int BY <1>3, <2>1 DEF CallOK
    <3> QED BY <1>2, <2>1, <3>1 DEF A
  <2> HIDE DEF c
  <2> QED BY <1>5, <2>1, <2>2, <2>3, <2>4, <2>5
(* Steps that move one.                                                    *)
<1>10. ASSUME NEW t \in Threads, Allocate(t)
       PROVE  NodesOK' /\ CountsOK' /\ LiveOK'
  <2> DEFINE d == IF kind = "atomic" THEN [pc |-> "count", by |-> 1] ELSE [pc |-> "leave"]
             c == th[t]
             size == k_allocation_overhead + c.size
             offset == c.off + k_front_overhead
             p == node_address(al, Head(al.free), c.align, offset)
             x == Allocation(p, c)
  <2>1. th' = [th EXCEPT ![t] = d] /\ c.pc = "allocate" BY <1>10 DEF Allocate
  <2>2. ~Returns(d) /\ ~Returns(th[t]) BY <2>1 DEF Returns
  <2>3. Returning' = Returning /\ \A u \in Returning : th'[u].ptr = th[u].ptr
    <3> HIDE DEF d
    <3> QED BY <2>1, <2>2, ReturningSame
  <2>4. /\ al.free # <<>> /\ live' = live \union {x} /\ on_allocation(p)
        /\ al' = [al EXCEPT !.free = Tail(al.free), !.count = IF kind = "pool" THEN al.count + 1 ELSE al.count]
    <3>1. CASE kind = "pool"
      <4>1. AllocatorResult(c) = pool_allocate(al, size, c.align, offset) BY <3>1 DEF AllocatorResult
      <4>2. freelist_acquire(al.free) # nullptr /\ al.free # <<>>
        BY <1>10, <4>1 DEF Allocate, pool_allocate, freelist_acquire
      <4>3. AllocatorResult(c) = [a |-> [al EXCEPT !.free = Tail(@), !.count = @ + 1], ptr |-> p]
        BY <4>1, <4>2 DEF pool_allocate, freelist_acquire
      <4> QED BY <1>10, <3>1, <4>2, <4>3 DEF Allocate
    <3>2. CASE kind = "atomic"
      <4>1. AllocatorResult(c) = [a |-> [al EXCEPT !.free = Tail(@)], ptr |-> p]
        BY <3>2 DEF AllocatorResult, atomic_pop
      <4>2. [al EXCEPT !.free = Tail(@)] = [al EXCEPT !.free = Tail(al.free), !.count = al.count]
        BY <1>2 DEF A
      <4> QED BY <1>10, <3>2, <4>1, <4>2 DEF Allocate
    <3> QED BY <3>1, <3>2
  <2>5. Head(al.free) \in Nodes
    <3>1. al.free \in Seq(Nodes) BY <1>2 DEF A
    <3> QED BY <2>4, <3>1
  <2>6. /\ p \in Nat \ {0} /\ Head(al.free) <= p
        /\ p + size <= Head(al.free) + NodeSize /\ (p + k_front_overhead + c.off) % c.align = 0
    <3>1. CallOK(c) BY <1>3
    <3> QED BY <2>1, <2>5, <3>1, NodeAddress
  <2>7. c.size \in Nat \ {0} /\ c.align \in Nat \ {0} /\ c.off \in {0, 8} BY <1>3, <2>1 DEF CallOK
  <2>8. size \in Nat \ {0}
    <3>1. sentinel \in {0, 8} /\ k_allocation_overhead = 2 * sentinel + 8 BY Overheads DEF Fixed
    <3> QED BY <2>7, <3>1, SMT
  <2>9. x.begin = p /\ x.size = size /\ x.align = c.align /\ x.off = c.off BY DEF Allocation
  <2>10. User(x) % x.align = 0 BY <2>6, <2>9 DEF User
  <2> HIDE DEF p, x, size
  <2> QED BY <1>1, <2>3, <2>4, <2>6, <2>7, <2>8, <2>9, <2>10, PoolAllocates
<1>11. ASSUME NEW t \in Threads, NEW x \in live, BeginDeallocate(t, x)
       PROVE  NodesOK' /\ CountsOK' /\ LiveOK'
  <2> DEFINE c == IF kind = "atomic" THEN [pc |-> "count", by |-> -1, ptr |-> x.begin]
                  ELSE [pc |-> "deallocate", ptr |-> x.begin]
  <2>1. th' = [th EXCEPT ![t] = c] /\ UNCHANGED <<al, tracker>> /\ live' = live \ {x} /\ th[t] = Idle
    BY <1>11 DEF BeginDeallocate
  <2>2. Returns(c) /\ c.ptr = x.begin /\ ~Returns(th[t]) BY <2>1 DEF Returns, Idle
  <2> HIDE DEF c
  <2>3. /\ t \notin Returning /\ Returning' = Returning \union {t} /\ th'[t].ptr = x.begin
        /\ \A u \in Returning : th'[u].ptr = th[u].ptr
    BY <2>1, <2>2, ReturningMore
  <2> QED BY <1>1, <2>1, <2>3, PoolBegins
<1>12. ASSUME NEW t \in Threads, Deallocate(t) \/ Push(t)
       PROVE  NodesOK' /\ CountsOK' /\ LiveOK'
  <2> DEFINE c == [pc |-> "leave"]
             n == node_of(al, th[t].ptr)
  <2>1. th' = [th EXCEPT ![t] = c] /\ UNCHANGED live /\ th[t].pc \in {"deallocate", "push"}
    BY <1>12 DEF Deallocate, Push
  <2>2. ~Returns(c) /\ Returns(th[t]) BY <2>1 DEF Returns
  <2> HIDE DEF c
  <2>3. /\ t \in Returning /\ Returning' = Returning \ {t}
        /\ \A u \in Returning \ {t} : th'[u].ptr = th[u].ptr
    BY <2>1, <2>2, ReturningLess
  <2>4. /\ th[t].pc = "push" => kind = "atomic" /\ Push(t)
        /\ th[t].pc = "deallocate" => kind = "pool" /\ Deallocate(t)
    BY <1>3, <1>12 DEF CallOK, Deallocate, Push
  <2>5. PICK s \in {Append(al.free, n), <<n>> \o al.free} :
           al' = [al EXCEPT !.free = s, !.count = IF kind = "pool" THEN al.count - 1 ELSE al.count]
    <3>1. CASE th[t].pc = "deallocate"
      <4>1. al' = [al EXCEPT !.free = <<n>> \o al.free, !.count = al.count - 1]
        BY <2>4, <3>1 DEF Deallocate, pool_deallocate, freelist_release
      <4> QED BY <2>4, <3>1, <4>1
    <3>2. CASE th[t].pc = "push"
      <4>1. al' = [al EXCEPT !.free = Append(@, n)] BY <2>4, <3>2 DEF Push, atomic_push
      <4>2. al' = [al EXCEPT !.free = Append(al.free, n), !.count = al.count] BY <1>2, <4>1 DEF A
      <4> QED BY <2>4, <3>2, <4>2
    <3> QED BY <2>1, <3>1, <3>2
  <2>6. on_deallocation(th[t].ptr) BY <2>1, <2>4 DEF Deallocate, Push, on_deallocation
  <2> QED BY <1>1, <2>1, <2>3, <2>5, <2>6, PoolReturns
<1>13. ~BufferNext /\ (\A x \in live : \A size : ~Reallocate(x, size)) /\ (\A t \in Threads : ~Reset(t))
  BY DEF BufferNext, Reallocate, Reset
<1> QED BY <1>4, <1>6, <1>7, <1>8, <1>9, <1>10, <1>11, <1>12, <1>13 DEF Next, Users

-----------------------------------------------------------------------------
(* The invariant is inductive.                                             *)

LEMMA ArenaStep == Inv /\ [Next]_vars => Inv'
<1> SUFFICES ASSUME Inv, [Next]_vars PROVE Inv' OBVIOUS
<1>1. UNCHANGED kind BY ConfigurationStep
<1>2. Fixed /\ CallsOK /\ GuardExclusive BY DEF Inv
<1>3. BufferOK /\ NodesOK BY DEF Inv, BufferOK, NodesOK
<1>4. Fixed' /\ CallsOK' /\ GuardExclusive' BY <1>2, <1>3, FixedStep, CallsStep, GuardStep
<1>5. ASSUME kind \notin {"tlsf", "raw"}
      PROVE  LinearOK' /\ NodesOK' /\ CountsOK' /\ LiveOK' /\ BufferOK' /\ OverrunReported'
  <2>1. LinearOK /\ NodesOK /\ CountsOK /\ LiveOK /\ BufferOK /\ OverrunReported BY <1>5 DEF Inv
  <2>2. BufferOK' /\ OverrunReported' BY <1>2, <2>1, BufferStep
  <2>3. kind # "linear" => LinearOK' BY <1>1 DEF LinearOK
  <2>4. kind \notin {"pool", "atomic"} => NodesOK' /\ CountsOK' BY <1>1 DEF NodesOK, CountsOK
  <2>5. CASE kind = "linear" BY <1>2, <2>1, <2>2, <2>4, <2>5, LinearStep
  <2>6. CASE kind \in {"pool", "atomic"} BY <1>2, <2>1, <2>2, <2>3, <2>6, PoolStep
  <2>7. CASE kind = "buffer" BY <1>1, <2>2, <2>3, <2>4, <2>7 DEF BufferOK, LiveOK
  <2> QED BY <1>2, <1>5, <2>5, <2>6, <2>7 DEF Fixed
<1> QED BY <1>1, <1>4, <1>5 DEF Inv

-----------------------------------------------------------------------------
(* Counting.                                                               *)

LEMMA SameSize ==
  ASSUME NEW S, NEW T, NEW f \in [S -> T], IsFiniteSet(S) \/ IsFiniteSet(T),
         \A a, b \in S : f[a] = f[b] => a = b, \A y \in T : \E a \in S : f[a] = y
  PROVE  IsFiniteSet(S) /\ IsFiniteSet(T) /\ Cardinality(S) = Cardinality(T)
<1>1. f \in Injection(S, T) /\ f \in Bijection(S, T)
  BY DEF Bijection, Injection, Surjection, IsInjective
<1>2. IsFiniteSet(S) BY <1>1, FS_Injection
<1> QED BY <1>1, <1>2, FS_Bijection DEF ExistsBijection

LEMMA ThreeParts ==
  ASSUME NEW A, NEW B, NEW C, IsFiniteSet(A), IsFiniteSet(B), IsFiniteSet(C),
         A \cap B = {}, A \cap C = {}, B \cap C = {}
  PROVE  Cardinality(A \union B \union C) = Cardinality(A) + Cardinality(B) + Cardinality(C)
<1>1. IsFiniteSet(A \union B) /\ Cardinality(A \union B) = Cardinality(A) + Cardinality(B) - Cardinality({})
  <2>1. Cardinality(A \union B) = Cardinality(A) + Cardinality(B) - Cardinality(A \cap B) /\ IsFiniteSet(A \union B)
    BY FS_Union
  <2> QED BY <2>1
<1>2. (A \union B) \cap C = {} OBVIOUS
<1>3. Cardinality(A \union B \union C) = Cardinality(A \union B) + Cardinality(C) - Cardinality({})
  <2>1. Cardinality((A \union B) \union C)
           = Cardinality(A \union B) + Cardinality(C) - Cardinality((A \union B) \cap C)
    BY <1>1, FS_Union
  <2> QED BY <1>2, <2>1
<1>4. Cardinality(A) \in Nat /\ Cardinality(B) \in Nat /\ Cardinality(C) \in Nat /\ Cardinality({}) = 0
  BY FS_CardinalityType, FS_EmptySet
<1> QED BY <1>1, <1>3, <1>4, SMT

LEMMA ListSize ==
  ASSUME NEW T, NEW q \in Seq(T), IsInjective(q)
  PROVE  IsFiniteSet(ToSet(q)) /\ Cardinality(ToSet(q)) = Len(q)
<1>1. PICK n \in Nat : n = Len(q) OBVIOUS
<1> DEFINE I == 1 .. n
           R == ToSet(q)
<1>2. IsFiniteSet(I) /\ Cardinality(I) = n
  <2>1. 1 \in Int /\ n \in Int /\ (IF 1 > n THEN 0 ELSE n - 1 + 1) = n BY SMT
  <2>2. IsFiniteSet(I) /\ Cardinality(I) = IF 1 > n THEN 0 ELSE n - 1 + 1 BY <2>1, FS_Interval
  <2> QED BY <2>1, <2>2
<1>3. q \in [I -> R] /\ DOMAIN q = I BY <1>1 DEF ToSet
<1>4. (\A a, b \in I : q[a] = q[b] => a = b) /\ \A y \in R : \E a \in I : q[a] = y
  BY <1>3 DEF IsInjective, ToSet
<1> HIDE DEF I, R
<1>5. IsFiniteSet(R) /\ Cardinality(I) = Cardinality(R)
  BY <1>2, <1>3, <1>4, SameSize
<1> QED BY <1>1, <1>2, <1>5 DEF R

LEMMA NodesSize ==
  ASSUME Fixed, kind \in {"pool", "atomic"}
  PROVE  IsFiniteSet(Nodes) /\ Cardinality(Nodes) = MaxNodes
<1> DEFINE I == 0 .. MaxNodes - 1
           f == [i \in I |-> slab.begin + i * NodeSize]
<1>1. MaxNodes \in Nat \ {0} /\ NodeSize \in Nat \ {0} /\ slab.begin \in Nat BY SizeFacts, NodeSizes DEF Fixed
<1>2. IsFiniteSet(I) /\ Cardinality(I) = MaxNodes
  <2>1. 0 \in Int /\ MaxNodes - 1 \in Int /\ ~(0 > MaxNodes - 1) /\ (MaxNodes - 1) - 0 + 1 = MaxNodes BY <1>1, SMT
  <2>2. IsFiniteSet(I) /\ Cardinality(I) = IF 0 > MaxNodes - 1 THEN 0 ELSE (MaxNodes - 1) - 0 + 1
    BY <2>1, FS_Interval
  <2> QED BY <2>1, <2>2
<1>3. f \in [I -> Nodes] /\ \A y \in Nodes : \E i \in I : f[i] = y BY DEF Nodes
<1>4. ASSUME NEW i \in I, NEW j \in I, f[i] = f[j] PROVE i = j
  <2> DEFINE ns == NodeSize
  <2>1. slab.begin + i * ns = slab.begin + j * ns BY <1>4
  <2>2. ns \in Nat \ {0} /\ i \in Int /\ j \in Int BY <1>1
  <2> HIDE DEF ns
  <2>3. i * ns \in Int /\ j * ns \in Int BY <2>2, SMT
  <2>4. i * ns = j * ns BY <1>1, <2>1, <2>3, SMT
  <2>5. ASSUME NEW k \in Int, NEW l \in Int, k < l, k * ns = l * ns PROVE FALSE
    <3>1. (k + 1) * ns <= l * ns BY <2>2, <2>5, MulMono
    <3>2. (k + 1) * ns = k * ns + ns BY <2>2, SMT
    <3>3. k * ns \in Int BY <2>2, SMT
    <3> QED BY <2>2, <2>5, <3>1, <3>2, <3>3, SMT
  <2>6. i < j \/ j < i \/ i = j BY <2>2, SMT
  <2> QED BY <2>2, <2>4, <2>5, <2>6
<1> HIDE DEF I, f
<1> QED BY <1>2, <1>3, <1>4, SameSize

-----------------------------------------------------------------------------
(* What the invariant says of the properties.                              *)

LEMMA InvNodes ==
  ASSUME Inv, kind \in {"pool", "atomic"}
  PROVE  /\ NodesConserved /\ IsFiniteSet(live)
         /\ Len(al.free) + Cardinality(live) + Cardinality({node_of(al, th[t].ptr) : t \in Returning}) = MaxNodes
<1> DEFINE nodes == {node_of(al, x.begin) : x \in live}
           held  == {node_of(al, th[t].ptr) : t \in Returning}
           F     == ToSet(al.free)
<1>1. Fixed /\ NodesOK /\ LiveOK BY DEF Inv
<1>2. /\ sentinel \in {0, 8} /\ slab.begin \in Nat \ {0} /\ al.begin = slab.begin /\ al.node_size = NodeSize
      /\ al.free \in Seq(Nodes) /\ IsInjective(al.free)
  BY <1>1 DEF Fixed, NodesOK
<1>3. ASSUME NEW x \in live PROVE node_of(al, x.begin) \in Nodes /\ Holds(x.begin, node_of(al, x.begin))
  <2>1. x.begin \in Int /\ x.size \in Nat \ {0} BY <1>1 DEF LiveOK
  <2>2. PICK n \in Nodes : n <= x.begin /\ x.begin + x.size <= n + NodeSize BY <1>1 DEF NodesOK
  <2>3. n \in Nat /\ NodeSize \in Nat BY <1>2, NodeFacts, NodeSizes
  <2>4. Holds(x.begin, n) BY <2>1, <2>2, <2>3, SMT DEF Holds
  <2> QED BY <1>2, <2>1, <2>4, NodeOf
<1>4. ASSUME NEW t \in Returning PROVE node_of(al, th[t].ptr) \in Nodes /\ Holds(th[t].ptr, node_of(al, th[t].ptr))
  <2>1. th[t].ptr \in Int /\ \E n \in Nodes : Holds(th[t].ptr, n) BY <1>1 DEF NodesOK
  <2> QED BY <1>2, <2>1, NodeOf
<1>5. F \subseteq Nodes BY <1>2 DEF ToSet
<1>6. \A n \in Nodes :
          /\ \A x, y \in live : Holds(x.begin, n) /\ Holds(y.begin, n) => x = y
          /\ \A x \in live, t \in Returning : ~(Holds(x.begin, n) /\ Holds(th[t].ptr, n))
          /\ n \in F <=>
                 /\ \A x \in live : ~Holds(x.begin, n)
                 /\ \A t \in Returning : ~Holds(th[t].ptr, n)
  BY <1>1 DEF NodesOK
<1>7. \A n \in Nodes : /\ n \in nodes <=> \E x \in live : Holds(x.begin, n)
                       /\ n \in held <=> \E t \in Returning : Holds(th[t].ptr, n)
  <2> SUFFICES ASSUME NEW n \in Nodes
               PROVE  /\ n \in nodes <=> \E x \in live : Holds(x.begin, n)
                      /\ n \in held <=> \E t \in Returning : Holds(th[t].ptr, n)
    OBVIOUS
  <2>1. ASSUME NEW x \in live, Holds(x.begin, n) PROVE node_of(al, x.begin) = n
    <3>1. x.begin \in Int BY <1>1 DEF LiveOK
    <3> QED BY <1>2, <2>1, <3>1, NodeOf
  <2>2. ASSUME NEW t \in Returning, Holds(th[t].ptr, n) PROVE node_of(al, th[t].ptr) = n
    <3>1. th[t].ptr \in Int BY <1>1 DEF NodesOK
    <3> QED BY <1>2, <2>2, <3>1, NodeOf
  <2> QED BY <1>3, <1>4, <2>1, <2>2
<1>8. nodes \subseteq Nodes /\ held \subseteq Nodes BY <1>3, <1>4
<1> HIDE DEF held, F
<1>9. F \union nodes \union held = Nodes
  <2> HIDE DEF nodes
  <2> QED BY <1>5, <1>6, <1>7, <1>8
<1>10. F \cap nodes = {} /\ F \cap held = {} /\ nodes \cap held = {}
  <2> HIDE DEF nodes
  <2> QED BY <1>5, <1>6, <1>7, <1>8
<1>11. IsFiniteSet(Nodes) /\ Cardinality(Nodes) = MaxNodes BY <1>1, NodesSize
<1>12. IsFiniteSet(F) /\ IsFiniteSet(nodes) /\ IsFiniteSet(held)
  <2> HIDE DEF nodes
  <2> QED BY <1>5, <1>8, <1>11, FS_Subset
<1>13. Cardinality(F) = Len(al.free) BY <1>2, ListSize DEF F
<1>14. IsFiniteSet(live) /\ Cardinality(live) = Cardinality(nodes)
  <2> DEFINE f == [x \in live |-> node_of(al, x.begin)]
  <2>1. f \in [live -> nodes] /\ \A y \in nodes : \E x \in live : f[x] = y OBVIOUS
  <2>2. \A x, y \in live : f[x] = f[y] => x = y BY <1>3, <1>6
  <2> HIDE DEF f, nodes
  <2> QED BY <1>12, <2>1, <2>2, SameSize
<1> HIDE DEF nodes
<1>15. Cardinality(F \union nodes \union held) = Cardinality(F) + Cardinality(nodes) + Cardinality(held)
  BY <1>10, <1>12, ThreeParts
<1>16. Len(al.free) + Cardinality(live) + Cardinality(held) = MaxNodes BY <1>9, <1>11, <1>13, <1>14, <1>15
<1>17. Nodes = {slab.begin + i * al.node_size : i \in 0 .. MaxNodes - 1} BY <1>2 DEF Nodes
<1> QED BY <1>9, <1>14, <1>16, <1>17 DEF NodesConserved, nodes, held, F

LEMMA InvAccounts == Inv /\ kind \notin {"tlsf", "raw"} => AccountsExact
<1> SUFFICES ASSUME Inv, kind \notin {"tlsf", "raw"} PROVE AccountsExact OBVIOUS
<1>1. GuardExclusive /\ LinearOK /\ NodesOK /\ CountsOK /\ LiveOK BY DEF Inv
<1>2. NodesConserved BY InvNodes DEF NodesConserved
<1>3. ASSUME kind = "pool", Quiet
      PROVE  al.count = Cardinality(live) /\ tracker.n = Cardinality(live) /\ tracker.keys = {x.begin : x \in live}
  <2>1. Returning = {} BY <1>3 DEF Quiet, Returning, Returns, Idle
  <2>2. {node_of(al, th[t].ptr) : t \in Returning} = {} /\ {th[t].ptr : t \in Returning} = {} BY <2>1
  <2>3. Len(al.free) + Cardinality(live) + 0 = MaxNodes
    <3>1. Len(al.free) + Cardinality(live) + Cardinality({node_of(al, th[t].ptr) : t \in Returning}) = MaxNodes
      BY <1>3, InvNodes
    <3> QED BY <2>2, <3>1, FS_EmptySet
  <2>4. al.count = MaxNodes - Len(al.free) /\ Len(al.free) \in Nat BY <1>1, <1>3 DEF CountsOK, NodesOK
  <2>5. Cardinality(live) \in Nat
    <3>1. IsFiniteSet(live) BY <1>3, InvNodes
    <3> QED BY <3>1, FS_CardinalityType
  <2>6. al.count = Cardinality(live) BY <2>3, <2>4, <2>5, SizeFacts, SMT
  <2>7. tracker = Tracked(al.count, {x.begin : x \in live}) BY <1>1, <1>3, <2>2 DEF CountsOK
  <2> QED BY <2>6, <2>7 DEF Tracked
<1>4. UsedExact BY <1>1, <1>3 DEF UsedExact, LinearOK
<1>5. TrackerExact BY <1>3 DEF TrackerExact
<1> QED BY <1>1, <1>2, <1>4, <1>5 DEF AccountsExact

LEMMA InvLive == Inv /\ kind \notin {"tlsf", "raw"} => LiveSound
<1> SUFFICES ASSUME Inv, kind \notin {"tlsf", "raw"}, NEW x \in live
             PROVE  x.begin + x.size <= slab.begin + slab.size + (IF kind = "linear" THEN 1 ELSE 0)
  BY DEF LiveSound, LiveOK, Inv
<1>1. Fixed /\ LinearOK /\ NodesOK /\ LiveOK /\ BufferOK BY DEF Inv
<1>2. x.begin \in Int /\ x.size \in Nat BY <1>1 DEF LiveOK
<1>3. CASE kind = "linear"
  <2>1. /\ al \in [begin : {slab.begin}, end : {slab.begin + SlabSize + 1}, head : Nat]
        /\ al.begin + al.head <= al.end /\ x.begin + x.size <= al.begin + al.head
        /\ slab.size = SlabSize
    BY <1>1, <1>3 DEF LinearOK
  <2>2. slab.begin \in Nat /\ SlabSize \in Nat BY <1>1, <1>3, SizeFacts DEF Fixed
  <2>3. /\ al.begin \in Nat /\ al.end \in Nat /\ al.head \in Nat
        /\ al.end = slab.begin + SlabSize + 1
    BY <2>1, <2>2
  <2> QED BY <1>2, <1>3, <2>1, <2>3, SMT
<1>4. CASE kind \in {"pool", "atomic"}
  <2>1. PICK n \in Nodes : n <= x.begin /\ x.begin + x.size <= n + NodeSize BY <1>1, <1>4 DEF NodesOK
  <2>2. sentinel \in {0, 8} /\ slab.begin \in Nat \ {0} /\ slab.size = NodeSize * MaxNodes
    BY <1>1, <1>4 DEF Fixed, NodesOK
  <2>3. n \in Nat /\ NodeSize \in Nat /\ n + NodeSize <= slab.begin + slab.size BY <2>1, <2>2, NodeFacts, NodeSizes
  <2>4. slab.begin + slab.size \in Int
    <3>1. NodeSize * MaxNodes \in Int BY <2>3, SizeFacts, SMT
    <3> QED BY <2>2, <3>1
  <2> QED BY <1>2, <1>4, <2>1, <2>3, <2>4, SMT
<1>5. CASE kind = "buffer" BY <1>1, <1>5 DEF BufferOK
<1> QED BY <1>1, <1>3, <1>4, <1>5 DEF Fixed

-----------------------------------------------------------------------------
(* The theorems.                                                           *)

(* Inv holds of every arena: the induction behind what follows.            *)
THEOREM InvHolds == Spec => []Inv
  BY ArenaInit, ArenaStep, PTL DEF Spec

(* What get_memory_requirements() asks for is enough for both arenas of a  *)
(* job system (of three threads and barriers, arenas below 4 GiB) wherever *)
(* its area starts, and a LinearBuffer that has a log channel has reported *)
(* a copy whenever its head is past its slab, whatever the sizes.          *)
THEOREM InBoundsHolds == Spec => []InBounds
<1>1. Init => Inv /\ SlabsFit BY ArenaInit
<1>2. SlabsFit /\ [Next]_vars => SlabsFit' BY ConfigurationStep DEF SlabsFit
<1>3. Inv /\ SlabsFit => InBounds BY DEF Inv, InBounds, OverrunReported
<1> QED BY <1>1, <1>2, <1>3, ArenaStep, PTL DEF Spec

(* The thread guard keeps all but one thread out of an arena, also when    *)
(* allocations fail and return without leaving it.                         *)
THEOREM GuardHolds == Spec => []GuardExclusive
<1>1. Inv => GuardExclusive BY DEF Inv
<1> QED BY <1>1, InvHolds, PTL

(* Linear arenas below 4 GiB, pools and the atomic pool: allocations are   *)
(* aligned as asked, inside the slab (a linear arena: with the byte after  *)
(* it) and disjoint, whatever the order in which threads allocate and      *)
(* deallocate.                                                             *)
THEOREM LiveSoundHolds == Spec => [](kind \notin {"tlsf", "raw"} => LiveSound)
  BY InvLive, InvHolds, PTL

(* Pools and the atomic pool: every node is alive, on the way back or free *)
(* and never two of these; with a guard, used_size() and the tracker count *)
(* what is alive.  Linear arenas: nothing is alive past the head.          *)
THEOREM AccountsExactHolds == Spec => [](kind \notin {"tlsf", "raw"} => AccountsExact)
  BY InvAccounts, InvHolds, PTL
=============================================================================
