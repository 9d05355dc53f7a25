------------------------------ MODULE SparseSet ------------------------------
(***************************************************************************)
(* kb::SparseSet and kb::DynamicSparseSet (source/kibble/util): a set of   *)
(* integers in two arrays.  dense lists the members, sparse maps a member  *)
(* to its place in dense; neither is cleared, and the fixed-size version   *)
(* never initializes them, so that has() must be right whatever they hold. *)
(***************************************************************************)
EXTENDS Integers, FiniteSets

CONSTANTS
    Size,       \* SIZE, or a bound on the values put into the growable set
    TMax,       \* the largest T: T is an unsigned integer type
    CarefulErase    \* erase() is given no reference into the set, save to its last member

ASSUME SizeAssumption ==
    /\ Size \in Nat
    /\ TMax \in Nat
    /\ Size <= TMax + 1
    /\ CarefulErase \in BOOLEAN

VARIABLES
    growable,      \* DynamicSparseSet rather than SparseSet
    dense, sparse,
    size,          \* size_
    capacity,      \* capacity_, or SIZE
    members        \* the set the two arrays stand for

vars == <<growable, dense, sparse, size, capacity, members>>

T      == 0 .. TMax
Values == 0 .. Size - 1

(* std::array leaves its elements uninitialized, std::vector starts empty. *)
Init ==
    /\ growable \in BOOLEAN
    /\ capacity = IF growable THEN 0 ELSE Size
    /\ dense \in [0 .. capacity - 1 -> T]
    /\ sparse \in [0 .. capacity - 1 -> T]
    /\ size = 0
    /\ members = {}

Has(v) == v < capacity /\ sparse[v] < size /\ dense[sparse[v]] = v

(* vector::resize(u, 0)                                                    *)
Resized(array, u) == [i \in 0 .. u - 1 |-> IF i < capacity THEN array[i] ELSE 0]

Reserve(u) ==
    /\ growable
    /\ u > capacity
    /\ dense' = Resized(dense, u)
    /\ sparse' = Resized(sparse, u)
    /\ capacity' = u
    /\ UNCHANGED <<growable, size, members>>

(* Mutant: a member is inserted again.                                     *)
InsertAgain(v) ==
    /\ growable \/ v < capacity
    /\ LET u == IF v >= capacity THEN v + 1 ELSE capacity
       IN  /\ dense' = [Resized(dense, u) EXCEPT ![size] = v]
           /\ sparse' = [Resized(sparse, u) EXCEPT ![v] = size]
           /\ capacity' = u
    /\ size' = size + 1
    /\ members' = members \union {v}
    /\ UNCHANGED growable

Insert(v) ==
    /\ ~Has(v)
    /\ growable \/ v < capacity
    /\ LET u == IF v >= capacity THEN v + 1 ELSE capacity
       IN  /\ dense' = [Resized(dense, u) EXCEPT ![size] = v]
           /\ sparse' = [Resized(sparse, u) EXCEPT ![v] = size]
           /\ capacity' = u
    /\ size' = size + 1
    /\ members' = members \union {v}
    /\ UNCHANGED growable

(* The last member takes the place of v: two assignments, in this order.   *)
(* The argument is a const T&.  If it refers to v's own place in dense     *)
(* (alias: a dereferenced iterator), the first assignment makes it the     *)
(* last member, and the second one writes that member's entry onto itself. *)
(* Mutant: the entry of the last member is not written.                    *)
EraseForgetting(v, alias) ==
    /\ Has(v)
    /\ dense' = [dense EXCEPT ![sparse[v]] = dense[size - 1]]
    /\ size' = size - 1
    /\ members' = members \ {v}
    /\ UNCHANGED <<growable, sparse, capacity>>

Erase(v, alias) ==
    /\ Has(v)
    /\ CarefulErase /\ alias => v = dense[size - 1]
    /\ LET last == dense[size - 1]
           val  == IF alias THEN last ELSE v
       IN  /\ dense' = [dense EXCEPT ![sparse[v]] = last]
           /\ sparse' = [sparse EXCEPT ![last] = sparse[val]]
    /\ size' = size - 1
    /\ members' = members \ {v}
    /\ UNCHANGED <<growable, capacity>>

Clear ==
    /\ size' = 0
    /\ members' = {}
    /\ UNCHANGED <<growable, dense, sparse, capacity>>

Next ==
    \/ \E v \in Values : Insert(v) \/ \E alias \in BOOLEAN : Erase(v, alias)
    \/ \E u \in 1 .. Size : Reserve(u)
    \/ Clear

Spec == Init /\ [][Next]_vars

-----------------------------------------------------------------------------
(* Properties.                                                             *)

(* The arrays keep their types, and size_ never passes the capacity, so    *)
(* that insert() writes inside dense.                                      *)
TypeOK ==
    /\ growable \in BOOLEAN
    /\ capacity \in 0 .. Size
    /\ dense \in [0 .. capacity - 1 -> T]
    /\ sparse \in [0 .. capacity - 1 -> T]
    /\ size \in 0 .. capacity
    /\ members \subseteq Values

(* has() answers for the set: nothing left in the arrays by their          *)
(* uninitialized memory, by erase() or by clear() makes it say otherwise,  *)
(* as long as the client is a CarefulErase one.                            *)
HasIsMembership == \A v \in Values : Has(v) <=> v \in members

(* Iterating from begin() to end() visits every member exactly once.       *)
IterationIsMembers ==
    /\ {dense[i] : i \in 0 .. size - 1} = members
    /\ \A i, j \in 0 .. size - 1 : dense[i] = dense[j] => i = j

(* The two together: a lookup and a walk over the set agree.               *)
SetSound == HasIsMembership /\ IterationIsMembers

(* The inductive invariant behind them: on the members, sparse is the      *)
(* inverse of dense.                                                       *)
Linked == \A i \in 0 .. size - 1 : dense[i] \in 0 .. capacity - 1 /\ sparse[dense[i]] = i
Inv == TypeOK /\ Linked /\ members = {dense[i] : i \in 0 .. size - 1}
=============================================================================
