------------------------------- MODULE AStar --------------------------------
(***************************************************************************)
(* kb::Astar (algorithm/astar.h) and kb::experimental::Astar               *)
(* (algorithm/experimental/astar_with_hashset.h): A* over nodes taken from *)
(* an intrusive free list.  The two differ in their open set: a vector     *)
(* kept as a binary heap, whose members are improved in place, or a        *)
(* priority queue with lazily removed, invalidated members and a hash set  *)
(* of the valid ones.                                                      *)
(*                                                                         *)
(* The user's state type is a problem: a cost for each edge (the           *)
(* successors of a state are the targets of its edges), an admissible      *)
(* heuristic and a goal.  Hashes are distinct.  Scores are integers.       *)
(***************************************************************************)
EXTENDS Integers, FiniteSets, Sequences, FiniteSetsExt, SequencesExt

CONSTANTS
    Vertices,   \* the user's states, naturals above 0
    Edges,      \* pairs of vertices
    Costs,      \* the transition costs to try: functions on Edges, above 0
    Estimates,  \* the heuristic's values to try
    Start,      \* the start state
    Goals,      \* the goal states to try
    MaxNodes    \* the constructor's max_nodes, sufficient for these problems

null == 0
NodeIds == 1..MaxNodes
Infinity == 1000   \* more than any walk costs that visits no vertex twice

\* What is asked of the problems.
ProblemAssumption ==
    /\ Vertices \subseteq Nat \ {0} /\ IsFiniteSet(Vertices) /\ Edges \subseteq Vertices \X Vertices
    /\ \A c \in Costs : /\ c \in [Edges -> Nat \ {0}]
                        /\ \A e \in Edges : c[e] * Cardinality(Vertices) < Infinity
    /\ Estimates \subseteq Nat /\ 0 \in Estimates
    /\ Start \in Vertices /\ Goals \subseteq Vertices
    /\ MaxNodes \in Nat /\ MaxNodes > Cardinality(Vertices) + 1

VARIABLES
    problem,  \* the user's graph, the goal and which of the two classes runs
    pool,     \* NodePool: the memory of the elements and the free list
    open,     \* open_set_, as a set; whether it is a heap; open_hash_
    closed,   \* closed_set_
    cursor,   \* where step() is: "top", in the loop over the successors of a
              \* node, or in the loop that links the path
    status,   \* status_, or "DESTROYED"
    solution_cost,
    cancelled \* cancel_request returned true

vars == <<problem, pool, open, closed, cursor, status, solution_cost, cancelled>>

-----------------------------------------------------------------------------
(* The problem.  The heuristic never overestimates: what the comment in    *)
(* step() assumes of the user, and no more (it may be inconsistent).       *)

\* The cost of the shortest walk from each vertex to the goal: each edge
\* relaxed as many times as there are vertices.
relax(cost, d) ==
    [v \in Vertices |-> Min({d[v]} \union {cost[e] + d[e[2]] : e \in {x \in Edges : x[1] = v}})]
Distance(cost, goal) ==
    LET d[i \in 0..Cardinality(Vertices)] ==
          IF i = 0 THEN [v \in Vertices |-> IF v = goal THEN 0 ELSE Infinity]
          ELSE relax(cost, d[i - 1])
    IN  d[Cardinality(Vertices)]

Problems ==
    LET admissible(d) == {x \in [Vertices -> Estimates] :
                            /\ \A v \in Vertices : x[v] <= d[v]
                            /\ d[Start] = Infinity => x = [v \in Vertices |-> 0]}
        posed(c, t) == UNION {{[cost |-> c, goal |-> t, best |-> d[Start], h |-> h, hashset |-> b] :
                                  h \in admissible(d), b \in BOOLEAN}
                              : d \in {Distance(c, t)}}
    IN  UNION {posed(c, t) : c \in Costs, t \in Goals}

\* The members of a set of numbers in their order.
InOrder(ns) ==
    [i \in 1..Cardinality(ns) |-> CHOOSE n \in ns : Cardinality({m \in ns : m < n}) = i - 1]

get_successors(v) == InOrder({e[2] : e \in {x \in Edges : x[1] = v}})
transition_cost(v, w) == problem.cost[<<v, w>>]
heuristic(v) == problem.h[v]

-----------------------------------------------------------------------------
(* The node pool.                                                          *)

Node(v) == [state |-> v, g_score |-> 0, parent |-> null, next |-> null, valid |-> TRUE]

NodePool == [mem |-> [n \in NodeIds |-> Node(Start)], free |-> [i \in NodeIds |-> i]]

allocate(p) == Head(p.free)

\* create_node: the element at the head of the free list, constructed.
create_node(p, node) ==
    [mem |-> [p.mem EXCEPT ![allocate(p)] = node], free |-> Tail(p.free)]

\* The memory of a destroyed node keeps its contents: the list's link is
\* behind the node, not in it.
deallocate(p, n) == [p EXCEPT !.free = <<n>> \o @]

destroy_node(p, n) == deallocate(p, n)

\* One after the other.
destroy_nodes(p, ns) == [p EXCEPT !.free = InOrder(ns) \o @]

f_score(p, n) == p.mem[n].g_score + heuristic(p.mem[n].state)

\* The constructor takes the first two elements.
start_ == 1
goal_ == 2

-----------------------------------------------------------------------------
(* The open and closed sets.  `a` carries what a successor changes: the    *)
(* pool, the open set with its hash set, and the closed set.               *)

hash(p, n) == p.mem[n].state

find_in_open_set(a, v) ==
    LET where == IF problem.hashset THEN a.open.hash ELSE a.open.set
    IN  {n \in where : a.pool.mem[n].state = v}

find_in_closed_set(a, v) == {n \in a.closed : hash(a.pool, n) = v}

push_open(a, n) ==
    [a EXCEPT !.open.set = @ \union {n},
              !.open.hash = IF problem.hashset THEN @ \union {n} ELSE @]

invalidate_open_heap(a) == [a EXCEPT !.open.heap = TRUE]

\* A score changed behind the comparator's back is what breaks the heap.
update(a, n, parent, g) ==
    [a EXCEPT !.pool.mem[n].parent = parent, !.pool.mem[n].g_score = g,
              !.open.heap = @ /\ n \notin a.open.set]

invalidate_open(a, n) ==
    [a EXCEPT !.pool.mem[n].valid = FALSE, !.open.hash = @ \ {n}]

create_and_push(a, v, parent, g) ==
    push_open([a EXCEPT !.pool = create_node(@, [Node(v) EXCEPT !.parent = parent, !.g_score = g])],
              allocate(a.pool))

\* front() of a heap is a least node by fComparator; of a vector that is not
\* a heap it is any member.
Tops(p, os) == {n \in os.set : os.heap => \A k \in os.set : f_score(p, n) <= f_score(p, k)}

\* The invalid nodes popped, and destroyed, before the valid node n: those of
\* a smaller score, and some of those of the same score.
Skipped(p, os, n) ==
    LET invalid == {k \in os.set : ~p.mem[k].valid}
    IN  {{k \in invalid : f_score(p, k) < f_score(p, n)} \union ties :
            ties \in SUBSET {k \in invalid : f_score(p, k) = f_score(p, n)}}

\* MUTANT: the front of the heap is not popped.
pop_open_peeks(p, os) ==
    {[node |-> n, pool |-> p, open |-> os] : n \in Tops(p, os)}

\* What pop_open, or pop_open_heap, may return: the node and what is left.
pop_open(p, os) ==
    IF problem.hashset
    THEN UNION {{[node |-> n, pool |-> destroy_nodes(p, s),
                  open |-> [os EXCEPT !.set = (@ \ {n}) \ s, !.hash = @ \ {n}]] :
                    s \in Skipped(p, os, n)}
                : n \in {k \in os.hash : \A l \in os.hash : f_score(p, k) <= f_score(p, l)}}
    ELSE {[node |-> n, pool |-> p, open |-> [os EXCEPT !.set = @ \ {n}]] : n \in Tops(p, os)}

-----------------------------------------------------------------------------
(* Init: the object as its constructor leaves it, for every problem.       *)

Init ==
    /\ problem \in Problems
    /\ pool = create_node(create_node(NodePool, Node(Start)), Node(problem.goal))
    /\ open = [set |-> {start_}, heap |-> TRUE,
               hash |-> IF problem.hashset THEN {start_} ELSE {}]
    /\ closed = {}
    /\ cursor = [at |-> "top"]
    /\ status = "RUNNING"
    /\ solution_cost = Infinity
    /\ cancelled = FALSE

-----------------------------------------------------------------------------
(* step().                                                                 *)

open_empty == (IF problem.hashset THEN open.hash ELSE open.set) = {}

free_all_nodes(p) == destroy_node(destroy_nodes(p, open.set \union closed), goal_)

give_up ==
    /\ status = "RUNNING" /\ cursor.at = "top"
    /\ pool' = free_all_nodes(pool)
    /\ open' = [open EXCEPT !.set = {}, !.hash = {}]
    /\ closed' = {}
    /\ status' = "FAILURE"
    /\ UNCHANGED <<problem, cursor, solution_cost>>

\* No node is left.
Exhausted == open_empty /\ give_up /\ UNCHANGED cancelled

\* cancel_request returned true.
Cancelled == ~open_empty /\ give_up /\ cancelled' = TRUE

\* MUTANT: closed nodes stay closed, as if the heuristic were consistent.
analyze_vector_consistent(a, node, v, g) ==
    LET inOpen == find_in_open_set(a, v)
        n == CHOOSE k \in inOpen : TRUE
    IN  CASE inOpen \union find_in_closed_set(a, v) = {} -> create_and_push(a, v, node, g)
          [] inOpen # {} /\ a.pool.mem[n].g_score > g ->
               invalidate_open_heap(update(a, n, node, g))
          [] OTHER -> a

\* What becomes of one successor: the vector's version looks into the open set
\* first and improves its node in place.
analyze_vector(a, node, v, g) ==
    LET inOpen == find_in_open_set(a, v)
        inClosed == find_in_closed_set(a, v)
        n == CHOOSE k \in (IF inOpen # {} THEN inOpen ELSE inClosed) : TRUE
    IN  CASE inOpen \union inClosed = {} -> create_and_push(a, v, node, g)
          [] inOpen \union inClosed # {} /\ a.pool.mem[n].g_score <= g -> a
          [] inOpen # {} /\ a.pool.mem[n].g_score > g ->
               invalidate_open_heap(update(a, n, node, g))
          [] inOpen = {} /\ inClosed # {} /\ a.pool.mem[n].g_score > g ->
               [push_open(update(a, n, node, g), n) EXCEPT !.closed = @ \ {n}]

\* MUTANT: an improved closed node is replaced, as an open one is.
analyze_hashset_replaces(a, node, v, g) ==
    LET known == find_in_closed_set(a, v) \union find_in_open_set(a, v)
        n == CHOOSE k \in known : TRUE
    IN  CASE known = {} -> create_and_push(a, v, node, g)
          [] known # {} /\ a.pool.mem[n].g_score <= g -> a
          [] n \in a.closed /\ a.pool.mem[n].g_score > g ->
               [create_and_push(a, v, node, g) EXCEPT !.closed = @ \ {n},
                                                      !.pool = destroy_node(@, n)]
          [] known # {} /\ n \notin a.closed /\ a.pool.mem[n].g_score > g ->
               create_and_push(invalidate_open(a, n), v, node, g)

\* The hash set's version looks into the closed set first, and replaces the
\* node of the open set.
analyze_hashset(a, node, v, g) ==
    LET inOpen == find_in_open_set(a, v)
        inClosed == find_in_closed_set(a, v)
        n == CHOOSE k \in (IF inClosed # {} THEN inClosed ELSE inOpen) : TRUE
    IN  CASE inOpen \union inClosed = {} -> create_and_push(a, v, node, g)
          [] inOpen \union inClosed # {} /\ a.pool.mem[n].g_score <= g -> a
          [] inClosed # {} /\ a.pool.mem[n].g_score > g ->
               [push_open(update(a, n, node, g), n) EXCEPT !.closed = @ \ {n}]
          [] inClosed = {} /\ inOpen # {} /\ a.pool.mem[n].g_score > g ->
               create_and_push(invalidate_open(a, n), v, node, g)

\* Pop a node that is not the goal, and generate its successors.
Pop ==
    /\ status = "RUNNING" /\ cursor.at = "top" /\ ~open_empty
    /\ \E top \in pop_open(pool, open) :
         LET v == top.pool.mem[top.node].state
         IN  /\ v # problem.goal
             /\ pool' = top.pool
             /\ open' = top.open
             /\ cursor' = [at |-> "successors", node |-> top.node, todo |-> get_successors(v)]
    /\ UNCHANGED <<problem, closed, status, solution_cost, cancelled>>

\* One iteration of the loop over the successors.
Analyze ==
    /\ cursor.at = "successors" /\ cursor.todo # <<>>
    /\ pool.free # <<>>   \* bound: the constructor's max_nodes is enough
    /\ LET node == pool.mem[cursor.node]
           w == Head(cursor.todo)
           g == node.g_score + transition_cost(node.state, w)
           now == [pool |-> pool, open |-> open, closed |-> closed]
       IN  \E a \in {IF problem.hashset THEN analyze_hashset(now, cursor.node, w, g)
                                        ELSE analyze_vector(now, cursor.node, w, g)} :
             pool' = a.pool /\ open' = a.open /\ closed' = a.closed
    /\ cursor' = [cursor EXCEPT !.todo = Tail(@)]
    /\ UNCHANGED <<problem, status, solution_cost, cancelled>>

\* The node is explored.  insert() leaves a node of the same hash in place.
Close ==
    /\ cursor.at = "successors" /\ cursor.todo = <<>>
    /\ closed' = closed \union
                   {n \in {cursor.node} : \A k \in closed : hash(pool, k) # hash(pool, n)}
    /\ cursor' = [at |-> "top"]
    /\ UNCHANGED <<problem, pool, open, status, solution_cost, cancelled>>

\* First the invalid nodes of the queue, then the valid ones off the path.
free_unused_hashset(p) ==
    destroy_nodes(destroy_nodes(p, {n \in open.set : ~p.mem[n].valid}),
                  {n \in open.hash \union closed : p.mem[n].next = null})

\* The nodes that are not on the path.
free_unused_vector(p) ==
    destroy_nodes(p, {n \in open.set \union closed : p.mem[n].next = null})

free_unused_nodes(p) ==
    IF problem.hashset THEN free_unused_hashset(p) ELSE free_unused_vector(p)

\* Pop a node of the goal's state: the goal node takes its place.
Reach ==
    /\ status = "RUNNING" /\ cursor.at = "top" /\ ~open_empty
    /\ \E top \in pop_open(pool, open) :
         LET node == top.pool.mem[top.node]
         IN  /\ node.state = problem.goal
             /\ pool' = destroy_node([top.pool EXCEPT !.mem[goal_].parent = node.parent,
                                                     !.mem[goal_].g_score = node.g_score],
                                     top.node)
             /\ open' = top.open
             /\ cursor' = [at |-> "path", next |-> goal_, parent |-> node.parent]
    /\ UNCHANGED <<problem, closed, status, solution_cost, cancelled>>

\* reconstruct_path: one iteration of its loop.
Link ==
    /\ cursor.at = "path" /\ pool.mem[cursor.next].state # pool.mem[start_].state
    /\ pool' = [pool EXCEPT !.mem[cursor.parent].next = cursor.next]
    /\ cursor' = [cursor EXCEPT !.next = cursor.parent, !.parent = pool.mem[cursor.parent].parent]
    /\ UNCHANGED <<problem, open, closed, status, solution_cost, cancelled>>

\* The path is linked: its cost, and what becomes of the other nodes.
Finish ==
    /\ cursor.at = "path" /\ pool.mem[cursor.next].state = pool.mem[start_].state
    /\ solution_cost' = pool.mem[goal_].g_score
    /\ pool' = free_unused_nodes(pool)
    /\ open' = [open EXCEPT !.set = {}, !.hash = {}]
    /\ closed' = {}
    /\ cursor' = [at |-> "top"]
    /\ status' = "SUCCESS"
    /\ UNCHANGED <<problem, cancelled>>

step == Exhausted \/ Pop \/ Analyze \/ Close \/ Reach \/ Link \/ Finish

\* walk_path: the nodes from the start along `next`.
walk_path(p) ==
    LET at[i \in NodeIds] ==
          IF i = 1 THEN start_ ELSE IF at[i - 1] = null THEN null ELSE p.mem[at[i - 1]].next
    IN  [i \in 1..Cardinality({k \in NodeIds : at[k] # null}) |-> at[i]]

\* The destructor.
Destroy ==
    /\ status \in {"SUCCESS", "FAILURE"}
    /\ pool' = IF status = "SUCCESS"
               THEN [pool EXCEPT !.free = Reverse(walk_path(pool)) \o @] ELSE pool
    /\ status' = "DESTROYED"
    /\ UNCHANGED <<problem, open, closed, cursor, solution_cost, cancelled>>

Next == step \/ Cancelled \/ Destroy

\* search() is a loop around step(): it goes on until the status changes.  The
\* user never has to cancel.
Spec == Init /\ [][Next]_vars /\ WF_vars(step)

-----------------------------------------------------------------------------
(* Properties.                                                             *)

Allocated == NodeIds \ Range(pool.free)
StateOf(n) == pool.mem[n].state
BetweenSteps == status = "RUNNING" /\ cursor.at = "top"

TypeOK ==
    /\ open.set \subseteq NodeIds /\ open.hash \subseteq NodeIds /\ closed \subseteq NodeIds
    /\ pool.free \in Seq(NodeIds)
    /\ status \in {"RUNNING", "SUCCESS", "FAILURE", "DESTROYED"}

\* A successful search returns a shortest path, for every admissible heuristic,
\* inconsistent ones included: the nodes walk_path visits start at the start
\* state, end at the goal, follow edges, and cost what get_solution_cost says.
Optimal ==
    status = "SUCCESS" =>
      LET p == walk_path(pool)
          edge(i) == <<StateOf(p[i]), StateOf(p[i + 1])>>
          walked[i \in 1..Len(p)] ==
            IF i = 1 THEN 0 ELSE walked[i - 1] + problem.cost[edge(i - 1)]
      IN  /\ StateOf(p[1]) = Start /\ p[Len(p)] = goal_
          /\ \A i \in 1..Len(p) - 1 : edge(i) \in Edges
          /\ solution_cost = walked[Len(p)]
          /\ solution_cost = problem.best

\* The search fails only when the goal cannot be reached or the user cancels.
FailureMeansUnreachable ==
    status = "FAILURE" /\ ~cancelled =>
        problem.best = Infinity

\* While a path exists and the search runs, some valid node of the open set
\* has a score that does not exceed the optimum: what makes the first goal
\* node popped an optimal one, although closed nodes are re-opened and open
\* ones replaced.
FrontierLeadsToGoal ==
    BetweenSteps /\ problem.best < Infinity =>
        \E n \in open.set : pool.mem[n].valid /\ f_score(pool, n) <= problem.best

\* "Only the nodes in the solution path are alive at this point": the comment
\* of the destructor, which destroys the nodes of walk_path.
OnlyPathAlive == status = "SUCCESS" => Allocated = Range(walk_path(pool))

\* No node is leaked or freed twice: while the search runs the allocated nodes
\* are the goal's and the members of the two sets; after a success, exactly
\* the nodes of the path; after a failure or the destructor none (the
\* assertion at the end of the destructor).
NodesAccounted ==
    /\ Cardinality(Range(pool.free)) = Len(pool.free)
    /\ BetweenSteps => /\ Allocated = {goal_} \union open.set \union closed
                       /\ goal_ \notin open.set \union closed
                       /\ open.set \cap closed = {}
    /\ OnlyPathAlive
    /\ status \in {"FAILURE", "DESTROYED"} => Allocated = {}

\* The parent of a valid node is never a destroyed one, nor one whose memory
\* now holds another state: the version with lazy removal frees replaced
\* nodes while their children still point at them, and step() follows
\* node->parent of what it pops.
ParentsAlive ==
    status = "RUNNING" =>
      \A n \in open.set \union closed :
         pool.mem[n].valid /\ pool.mem[n].parent # null =>
            /\ pool.mem[n].parent \in Allocated
            /\ <<StateOf(pool.mem[n].parent), StateOf(n)>> \in Edges

\* search() returns.
Terminates == <>(status \in {"SUCCESS", "FAILURE"})

-----------------------------------------------------------------------------
(* Why they hold.                                                          *)

(* The problems the code is made for: a state is none of its successors,   *)
(* and the start is not the goal.                                          *)
Proper == (\A v \in Vertices : <<v, v>> \notin Edges) /\ Start \notin Goals

Current == IF cursor.at = "successors" THEN {cursor.node} ELSE {}
Known == open.set \union closed \union Current
Live == {n \in Known : pool.mem[n].valid}
Linked == {n \in Allocated : pool.mem[n].next # null}
Searching == status = "RUNNING" /\ cursor.at # "path"
G(n) == pool.mem[n].g_score
ToGoal(v) == Distance(problem.cost, problem.goal)[v]
EdgeCost(m, n) == problem.cost[<<StateOf(m), StateOf(n)>>]

Nodes == [state : Vertices, g_score : Nat, parent : NodeIds \union {null},
          next : NodeIds \union {null}, valid : BOOLEAN]
Cursors ==
    [at : {"top"}] \union [at : {"successors"}, node : NodeIds, todo : Seq(Vertices)]
    \union [at : {"path"}, next : NodeIds, parent : NodeIds \union {null}]

Types ==
    /\ problem \in Problems
    /\ pool \in [mem : [NodeIds -> Nodes], free : Seq(NodeIds)]
    /\ open \in [set : SUBSET NodeIds, heap : {TRUE}, hash : SUBSET NodeIds]
    /\ closed \subseteq NodeIds
    /\ cursor \in Cursors
    /\ status \in {"RUNNING", "SUCCESS", "FAILURE", "DESTROYED"}
    /\ solution_cost \in Nat /\ cancelled \in BOOLEAN
    /\ status # "RUNNING" => cursor.at = "top" /\ Known = {}

(* Every element of the pool is free or in one place.                      *)
Books ==
    /\ IsInjective(pool.free)
    /\ status = "RUNNING" =>
         /\ Allocated = {goal_} \union Known /\ goal_ \notin Known
         /\ open.set \cap closed = {} /\ Current \cap (open.set \union closed) = {}
         /\ open.hash = IF problem.hashset THEN open.set \cap Live ELSE {}
         /\ ~problem.hashset => open.set \subseteq Live
         /\ closed \union Current \subseteq Live
    /\ status = "SUCCESS" => Allocated = {goal_} \union Linked
    /\ status \in {"FAILURE", "DESTROYED"} => Allocated = {}

(* One valid node for each state that was seen; no score is better than    *)
(* the costs of the graph allow.                                           *)
Scores ==
    /\ status \in {"RUNNING", "SUCCESS"} =>
         /\ StateOf(start_) = Start /\ G(start_) = 0
         /\ StateOf(goal_) = problem.goal /\ pool.mem[goal_].next = null
    /\ status = "RUNNING" =>
         /\ start_ \in Live /\ pool.mem[start_].parent = null
         /\ \A m, n \in Live : StateOf(m) = StateOf(n) => m = n
         /\ \A n \in Known : /\ problem.best <= G(n) + ToGoal(StateOf(n))
                             /\ problem.best = Infinity => ToGoal(StateOf(n)) = Infinity
         /\ \A n \in closed \union Current : StateOf(n) # problem.goal

(* The parent of a valid node is in the pool.  One that was replaced stays  *)
(* there as long as the better node that replaced it has not come to the    *)
(* child.                                                                   *)
ParentOK(n) ==
    LET q == pool.mem[n].parent
    IN  /\ q \in Known /\ StateOf(q) # problem.goal
        /\ <<StateOf(q), StateOf(n)>> \in Edges /\ G(q) + EdgeCost(q, n) <= G(n)
        /\ q \in Live \/ \E m \in Live :
             /\ StateOf(m) = StateOf(q) /\ G(m) < G(q)
             /\ m \in open.set \/ (m \in Current /\ StateOf(n) \in Range(cursor.todo))
Parents == status = "RUNNING" => \A n \in Live \ {start_} : ParentOK(n)

(* What an explored node leads to has been seen.                           *)
Expanded ==
    Searching =>
        /\ \A n \in Known : pool.mem[n].next = null
        /\ \A m \in Current : \A w \in Range(cursor.todo) : <<StateOf(m), w>> \in Edges
        /\ \A m \in closed \union Current, w \in Vertices :
             <<StateOf(m), w>> \in Edges /\ (m \in Current => w \notin Range(cursor.todo)) =>
                \E n \in Live : StateOf(n) = w /\ G(n) <= G(m) + problem.cost[<<StateOf(m), w>>]

(* The linked nodes lie on a shortest path, from the cursor to the goal.   *)
Path(x) ==
    /\ problem.best < Infinity /\ G(goal_) = problem.best
    /\ x \in Linked \union {goal_} /\ goal_ \notin Linked
    /\ \A m \in Linked : LET n == pool.mem[m].next
                         IN  /\ n \in Linked \union {goal_} /\ <<StateOf(m), StateOf(n)>> \in Edges
                             /\ G(n) = G(m) + EdgeCost(m, n)
    /\ \A n \in (Linked \union {goal_}) \ {x} :
          /\ pool.mem[n].parent \in Linked /\ pool.mem[pool.mem[n].parent].next = n
          /\ G(x) < G(n)
PathSoFar ==
    status = "RUNNING" /\ cursor.at = "path" =>
        /\ Path(cursor.next) /\ cursor.parent = pool.mem[cursor.next].parent
        /\ ParentOK(goal_) /\ Linked \subseteq Live
        /\ \A n \in Linked : G(n) + ToGoal(StateOf(n)) = problem.best
PathFound == status = "SUCCESS" => Path(start_) /\ solution_cost = problem.best

Inv ==
    /\ Types /\ Books /\ Scores /\ Parents /\ Expanded /\ PathSoFar /\ PathFound
    /\ FailureMeansUnreachable
=============================================================================
