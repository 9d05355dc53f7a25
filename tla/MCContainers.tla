---------------------------- MODULE MCContainers ----------------------------
(***************************************************************************)
(* The containers of source/kibble/util and the search of                  *)
(* source/kibble/algorithm on small instances: a behaviour picks one of    *)
(* them and makes its calls; the others stay as they were built.           *)
(***************************************************************************)
EXTENDS SparseSet

CONSTANTS PoolTMax, Guards, Keys, Mapped, HashBits, LoadFactors, MaxContainer,
          Elements, num_bits, MaxSegments, MaxLength,
          Vertices, Edges, Costs, Estimates, Start, Goals, MaxNodes

VARIABLES
    subject,                                                  \* the container in use
    secure, asserting, pool_dense, pool_sparse, guard, pool_size, held, stale,
    hash_of, table, contents,
    seg, memory, owned, model,
    problem, pool, open, closed, cursor, status, solution_cost, cancelled

pool_vars == <<secure, asserting, pool_dense, pool_sparse, guard, pool_size, held, stale>>
map_vars == <<hash_of, table, contents>>
seg_vars == <<seg, memory, owned, model>>
search_vars == <<problem, pool, open, closed, cursor, status, solution_cost, cancelled>>
all_vars == <<subject, vars, pool_vars, map_vars, seg_vars, search_vars>>

(* All keys at home in the last bucket, with two fingerprints; and homes   *)
(* in the last and the first bucket, so that the walks pass the end.       *)
MCHashes == {[k1 |-> 15, k2 |-> 14, k3 |-> 15], [k1 |-> 12, k2 |-> 15, k3 |-> 1]}

(* 1 is the start, 5 a goal, 6 out of reach.  Vertex 3 has three walks from *)
(* the start and 3 -> 2 closes a cycle: a node can be closed, re-opened and *)
(* then improved again.                                                     *)
MCEdges == {<<1, 2>>, <<1, 3>>, <<2, 3>>, <<2, 4>>, <<4, 3>>, <<3, 5>>, <<3, 2>>}

MCCosts == {[e \in MCEdges |-> CASE e = <<1, 3>> -> a [] e = <<2, 3>> -> b
                                [] e = <<4, 3>> -> c [] e = <<3, 5>> -> d
                                [] OTHER -> 1] :
              a \in {1, 5}, b \in {1, 3}, c \in {1, 3}, d \in {1, 5}}

P == INSTANCE SparsePool WITH TMax <- PoolTMax, dense <- pool_dense, sparse <- pool_sparse, size <- pool_size
H == INSTANCE HashMap WITH Hashes <- MCHashes
S == INSTANCE SegmentedVector
A == INSTANCE AStar

ASSUME HandleAssumption == P!PoolAssumption
ASSUME BlockAssumption == S!SegmentAssumption
ASSUME SearchAssumption == A!ProblemAssumption

MCInit ==
    /\ subject \in {"set", "pool", "map", "segments", "search"}
    /\ growable \in (IF subject = "set" THEN BOOLEAN ELSE {TRUE}) /\ Init
    /\ secure \in (IF subject = "pool" THEN BOOLEAN ELSE {TRUE})
    /\ asserting \in (IF subject = "pool" THEN BOOLEAN ELSE {TRUE})
    /\ pool_sparse \in [P!Indices -> IF subject = "pool" THEN {0, 1, PoolTMax} ELSE {0}]
    /\ P!Init
    /\ H!Init /\ (subject # "map" => hash_of.k1 = 12)
    /\ S!Init /\ (subject # "segments" => seg["b"].alloc = 1)
    /\ IF subject = "search" THEN A!Init
       ELSE /\ problem = <<>> /\ pool = <<>> /\ open = <<>> /\ closed = <<>> /\ cursor = <<>>
            /\ status = "READY" /\ solution_cost = 0 /\ cancelled = FALSE

MCNext ==
    \/ subject = "set" /\ Next /\ UNCHANGED <<subject, pool_vars, map_vars, seg_vars, search_vars>>
    \/ subject = "pool" /\ P!Next /\ UNCHANGED <<subject, vars, map_vars, seg_vars, search_vars>>
    \/ subject = "map" /\ H!Next /\ UNCHANGED <<subject, vars, pool_vars, seg_vars, search_vars>>
    \/ subject = "segments" /\ S!Next /\ UNCHANGED <<subject, vars, pool_vars, map_vars, search_vars>>
    \/ subject = "search" /\ A!Next /\ UNCHANGED <<subject, vars, pool_vars, map_vars, seg_vars>>

(* Who runs a search goes on calling step().                               *)
MCSpec ==
    /\ MCInit /\ [][MCNext]_all_vars
    /\ WF_all_vars(subject = "search" /\ A!step /\ UNCHANGED <<subject, vars, pool_vars, map_vars, seg_vars>>)

-----------------------------------------------------------------------------
(* The handles of the pools: no integer is handed out twice, is_valid()    *)
(* accepts the handles that are held, as long as their guard fits, and     *)
(* rejects the others over arrays nobody initialized; the secure pool      *)
(* rejects those that were released.                                       *)
HandlesSound == P!HandlesSound

(* The hash table: the order that lets find() and erase() stop early, find *)
(* returns what the user put in and end() for what was erased, iteration   *)
(* visits each pair once.                                                  *)
TableSound == H!TypeOK /\ H!RobinHood /\ H!FindExact /\ H!IterationExact

(* The segmented vector: it reads back what was put in, and no copy or     *)
(* move leaks a block, shares one or gives it to the wrong allocator.      *)
SegmentsSound == S!SegmentsExact /\ S!BlocksOwned

(* A search that succeeds has a shortest path, and one that fails on its   *)
(* own has none to find, consistent heuristic or not; between steps an     *)
(* open node lies on a shortest path.                                      *)
Optimal == subject = "search" => A!Optimal /\ A!FailureMeansUnreachable /\ A!FrontierLeadsToGoal
(* No node of a search leaks or is destroyed twice, and no parent pointer  *)
(* that is followed leads to a destroyed node.                             *)
NodesAccounted == subject = "search" => A!TypeOK /\ A!NodesAccounted /\ A!ParentsAlive
(* Every search ends.                                                      *)
Terminates == subject = "search" => A!Terminates
=============================================================================
