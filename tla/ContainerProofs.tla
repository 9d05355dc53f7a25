--------------------------- MODULE ContainerProofs ---------------------------
(***************************************************************************)
(* Proofs about SparseSet and SparsePool, for every size and whatever the  *)
(* uninitialized arrays hold: has() is membership and iteration visits     *)
(* each member once; the handles of the plain and of the secure pool are   *)
(* unique, valid while in use, and rejected otherwise.  Then about AStar,  *)
(* for any finite graph, start, goal, costs and heuristic: the search      *)
(* keeps one valid node of each state it met, loses no node, and the path  *)
(* it returns is optimal.  And about SegmentedVector, for any elements,    *)
(* block size and number of blocks: two vectors hold what was put in, in   *)
(* blocks of their own that go back to the allocator they came from.       *)
(***************************************************************************)
EXTENDS MCContainers, FiniteSetTheorems, Sequences, NaturalsInduction, WellFoundedInduction, TLAPS

(* has() on arrays that satisfy the invariant.                             *)
LEMMA HasFact ==
    ASSUME Inv, NEW v \in Values
    PROVE  Has(v) <=> v \in members
<1>. USE SizeAssumption DEF T
<1>1. ASSUME Has(v) PROVE v \in members
  <2>1. v \in 0 .. capacity - 1 /\ sparse[v] \in 0 .. size - 1 /\ dense[sparse[v]] = v
    BY <1>1 DEF Has, Inv, TypeOK, Values
  <2>. QED
    BY <2>1 DEF Inv
<1>2. ASSUME v \in members PROVE Has(v)
  <2>1. PICK i \in 0 .. size - 1 : dense[i] = v
    BY <1>2 DEF Inv
  <2>2. v \in 0 .. capacity - 1 /\ sparse[v] = i
    BY <2>1 DEF Inv, Linked
  <2>. QED
    BY <2>1, <2>2 DEF Has, Inv, TypeOK
<1>. QED
  BY <1>1, <1>2

(* A set without v that holds only values below the capacity is not full:  *)
(* insert() writes inside dense.                                           *)
LEMMA Room ==
    ASSUME Inv, NEW v \in 0 .. capacity - 1, v \notin members
    PROVE  size < capacity
<1>. DEFINE Places == 0 .. capacity - 1
            R == Places \ {v}
<1>. SUFFICES ASSUME size = capacity PROVE FALSE
  BY DEF Inv, TypeOK
<1>0. capacity \in Nat /\ capacity > 0
  BY DEF Inv, TypeOK
<1>1. IsFiniteSet(Places) /\ Cardinality(Places) = capacity
  BY <1>0, FS_Interval
<1>2. IsFiniteSet(R) /\ Cardinality(R) = capacity - 1
  BY <1>1, FS_RemoveElement
<1>3. dense \in [Places -> R]
  <2>1. \A i \in Places : dense[i] \in Places /\ dense[i] \in members
    BY DEF Inv, Linked
  <2>. QED
    BY <2>1 DEF Inv, TypeOK
<1>. HIDE DEF Places, R
<1>4. Cardinality(R) < Cardinality(Places)
  BY <1>0, <1>1, <1>2
<1>5. PICK x, y \in Places : x # y /\ dense[x] = dense[y]
  BY <1>1, <1>2, <1>3, <1>4, FS_PigeonHole
<1>. QED
  BY <1>5 DEF Inv, Linked, Places

LEMMA InvInit == Init => Inv
BY SizeAssumption DEF Init, Inv, TypeOK, Linked, T

(* resize() keeps what the arrays hold.                                    *)
LEMMA ResizedFact ==
    ASSUME Inv, NEW array \in [0 .. capacity - 1 -> T], NEW u \in Nat, u >= capacity
    PROVE  /\ Resized(array, u) \in [0 .. u - 1 -> T]
           /\ \A i \in 0 .. capacity - 1 : i \in 0 .. u - 1 /\ Resized(array, u)[i] = array[i]
BY SizeAssumption DEF Inv, TypeOK, Resized, T

LEMMA InsertInv ==
    ASSUME Inv, NEW v \in Values, Insert(v)
    PROVE  Inv'
<1>. DEFINE u == IF v >= capacity THEN v + 1 ELSE capacity
            D == Resized(dense, u)
            Grown == Resized(sparse, u)
<1>0. /\ v \in Nat /\ v < Size
      /\ capacity \in Nat /\ capacity <= Size /\ size \in Nat /\ size <= capacity
      /\ Size \in Nat /\ TMax \in Nat /\ Size <= TMax + 1
  BY SizeAssumption DEF Inv, TypeOK, Values
<1>1. u \in Nat /\ u >= capacity /\ v < u /\ u <= Size
  BY <1>0
<1>2. /\ D \in [0 .. u - 1 -> T] /\ Grown \in [0 .. u - 1 -> T]
      /\ \A i \in 0 .. capacity - 1 : i \in 0 .. u - 1 /\ D[i] = dense[i] /\ Grown[i] = sparse[i]
  BY <1>1, ResizedFact DEF Inv, TypeOK
<1>3. v \notin members
  BY HasFact DEF Insert
<1>4. size < u
  <2>1. CASE v < capacity
    BY <1>0, <1>3, <2>1, Room
  <2>2. CASE v >= capacity
    BY <1>0, <2>2
  <2>. QED
    BY <1>0, <2>1, <2>2
<1>. HIDE DEF D, Grown, u
<1>5. /\ dense' = [D EXCEPT ![size] = v]
      /\ sparse' = [Grown EXCEPT ![v] = size]
      /\ capacity' = u /\ size' = size + 1 /\ members' = members \union {v}
  BY DEF Insert, D, Grown, u
<1>6. size \in T /\ v \in T
  BY <1>0, <1>1, <1>4 DEF T
<1>7. TypeOK'
  <2>1. members' \subseteq Values
    BY <1>5 DEF Inv, TypeOK
  <2>2. growable' \in BOOLEAN
    BY DEF Insert, Inv, TypeOK
  <2>. QED
    BY <1>0, <1>1, <1>2, <1>4, <1>5, <1>6, <2>1, <2>2 DEF TypeOK
<1>8. \A i \in 0 .. size - 1 : dense'[i] = dense[i] /\ dense[i] # v /\ dense[i] \in members
  BY <1>0, <1>1, <1>2, <1>3, <1>4, <1>5 DEF Inv
<1>9. dense'[size] = v /\ sparse'[v] = size
  BY <1>0, <1>1, <1>2, <1>4, <1>5
<1>10. ASSUME NEW i \in 0 .. size' - 1
       PROVE  dense'[i] \in 0 .. capacity' - 1 /\ sparse'[dense'[i]] = i
  <2>1. CASE i = size
    BY <1>0, <1>1, <1>5, <1>9, <2>1
  <2>2. CASE i \in 0 .. size - 1
    <3>1. dense[i] \in 0 .. capacity - 1 /\ sparse[dense[i]] = i
      BY <2>2 DEF Inv, Linked
    <3>. QED
      BY <1>0, <1>1, <1>2, <1>5, <1>8, <2>2, <3>1
  <2>. QED
    BY <1>0, <1>5, <2>1, <2>2
<1>11. members' = {dense'[i] : i \in 0 .. size' - 1}
  <2>1. members = {dense[i] : i \in 0 .. size - 1}
    BY DEF Inv
  <2>2. 0 .. size' - 1 = (0 .. size - 1) \union {size}
    BY <1>0, <1>5
  <2>. QED
    BY <1>5, <1>8, <1>9, <2>1, <2>2
<1>. QED
  BY <1>7, <1>10, <1>11 DEF Inv, Linked

LEMMA EraseInv ==
    ASSUME CarefulErase, Inv, NEW v \in Values, NEW alias \in BOOLEAN, Erase(v, alias)
    PROVE  Inv'
<1>. DEFINE idx  == sparse[v]
            last == dense[size - 1]
<1>0. /\ v \in 0 .. capacity - 1 /\ idx \in 0 .. size - 1 /\ dense[idx] = v
      /\ size \in Nat /\ capacity \in Nat /\ size <= capacity /\ size > 0
  BY SizeAssumption DEF Erase, Has, Inv, TypeOK, Values, T
<1>1. /\ dense \in [0 .. capacity - 1 -> T] /\ sparse \in [0 .. capacity - 1 -> T]
      /\ size - 1 \in 0 .. capacity - 1 /\ idx \in 0 .. capacity - 1
  BY <1>0 DEF Inv, TypeOK
<1>2. last \in 0 .. capacity - 1 /\ sparse[last] = size - 1
  BY <1>0 DEF Inv, Linked
<1>. HIDE DEF idx, last
<1>3. /\ dense' = [dense EXCEPT ![idx] = last]
      /\ size' = size - 1 /\ capacity' = capacity /\ members' = members \ {v}
  BY DEF Erase, idx, last
<1>4. alias => v = last
  BY DEF Erase, last
<1>5. sparse' = [sparse EXCEPT ![last] = idx]
  <2>1. sparse' = [sparse EXCEPT ![last] = sparse[IF alias THEN last ELSE v]]
    BY DEF Erase, last
  <2>. QED
    BY <1>4, <2>1 DEF idx
<1>6. TypeOK'
  <2>1. idx \in T /\ last \in T
    BY <1>0, <1>1 DEF idx, last
  <2>2. dense' \in [0 .. capacity' - 1 -> T] /\ sparse' \in [0 .. capacity' - 1 -> T]
    BY <1>1, <1>2, <1>3, <1>5, <2>1
  <2>3. growable' \in BOOLEAN
    BY DEF Erase, Inv, TypeOK
  <2>. QED
    BY <1>0, <1>3, <2>2, <2>3 DEF Inv, TypeOK
<1>7. \A i \in 0 .. size - 1 : dense[i] \in 0 .. capacity - 1 /\ sparse[dense[i]] = i
  BY DEF Inv, Linked
<1>8. ASSUME NEW i \in 0 .. size' - 1
      PROVE  dense'[i] \in 0 .. capacity' - 1 /\ sparse'[dense'[i]] = i
  <2>1. i \in 0 .. size - 1 /\ i \in 0 .. capacity - 1 /\ i # size - 1
    BY <1>0, <1>3
  <2>2. CASE i = idx
    BY <1>1, <1>2, <1>3, <1>5, <2>2
  <2>3. CASE i # idx
    <3>1. dense'[i] = dense[i] /\ dense[i] # last
      BY <1>0, <1>2, <1>3, <1>7, <2>1, <2>3
    <3>. QED
      BY <1>1, <1>2, <1>3, <1>5, <1>7, <2>1, <3>1
  <2>. QED
    BY <2>2, <2>3
<1>9. members' = {dense'[i] : i \in 0 .. size' - 1}
  <2>1. members = {dense[i] : i \in 0 .. size - 1}
    BY DEF Inv
  <2>2. ASSUME NEW i \in 0 .. size' - 1 PROVE dense'[i] \in members \ {v}
    <3>1. i \in 0 .. size - 1 /\ i # size - 1
      BY <1>0, <1>3
    <3>2. CASE i = idx
      <4>1. dense'[i] = last /\ last # v
        BY <1>0, <1>1, <1>2, <1>3, <1>7, <3>1, <3>2
      <4>. QED
        BY <1>0, <2>1, <4>1 DEF last
    <3>3. CASE i # idx
      BY <1>0, <1>1, <1>3, <1>7, <2>1, <3>1, <3>3
    <3>. QED
      BY <3>2, <3>3
  <2>3. ASSUME NEW x \in members \ {v} PROVE \E i \in 0 .. size' - 1 : dense'[i] = x
    <3>1. PICK i \in 0 .. size - 1 : dense[i] = x /\ i # idx
      BY <1>0, <2>1
    <3>2. CASE i = size - 1
      <4>1. dense'[idx] = x /\ idx \in 0 .. size' - 1
        BY <1>0, <1>1, <1>3, <3>1, <3>2 DEF last
      <4>. QED
        BY <4>1
    <3>3. CASE i # size - 1
      <4>1. dense'[i] = x /\ i \in 0 .. size' - 1
        BY <1>0, <1>1, <1>3, <3>1, <3>3
      <4>. QED
        BY <4>1
    <3>. QED
      BY <3>2, <3>3
  <2>. QED
    BY <1>3, <2>2, <2>3
<1>. QED
  BY <1>6, <1>8, <1>9 DEF Inv, Linked

LEMMA ReserveInv ==
    ASSUME Inv, NEW u \in 1 .. Size, Reserve(u)
    PROVE  Inv'
<1>0. u \in Nat /\ u >= capacity /\ capacity \in Nat /\ size \in Nat /\ size <= capacity /\ u <= Size
  BY SizeAssumption DEF Reserve, Inv, TypeOK
<1>1. /\ dense' = Resized(dense, u) /\ sparse' = Resized(sparse, u)
      /\ capacity' = u /\ size' = size /\ members' = members
  BY DEF Reserve
<1>2. /\ dense' \in [0 .. u - 1 -> T] /\ sparse' \in [0 .. u - 1 -> T]
      /\ \A i \in 0 .. capacity - 1 : i \in 0 .. u - 1 /\ dense'[i] = dense[i] /\ sparse'[i] = sparse[i]
  BY <1>0, <1>1, ResizedFact DEF Inv, TypeOK
<1>3. TypeOK'
  <2>1. growable' \in BOOLEAN
    BY DEF Reserve, Inv, TypeOK
  <2>. QED
    BY <1>0, <1>1, <1>2, <2>1 DEF Inv, TypeOK
<1>4. \A i \in 0 .. size - 1 : i \in 0 .. capacity - 1 /\ dense'[i] = dense[i]
  BY <1>0, <1>2
<1>5. Linked'
  <2>. SUFFICES ASSUME NEW i \in 0 .. size - 1
                PROVE  dense'[i] \in 0 .. u - 1 /\ sparse'[dense'[i]] = i
    BY <1>1 DEF Linked
  <2>1. dense[i] \in 0 .. capacity - 1 /\ sparse[dense[i]] = i
    BY DEF Inv, Linked
  <2>2. dense'[i] = dense[i]
    BY <1>4
  <2>. QED
    BY <1>2, <2>1, <2>2
<1>6. members' = {dense'[i] : i \in 0 .. size' - 1}
  BY <1>1, <1>4 DEF Inv
<1>. QED
  BY <1>3, <1>5, <1>6 DEF Inv

LEMMA InvStep == CarefulErase /\ Inv /\ [Next]_vars => Inv'
<1>. SUFFICES ASSUME CarefulErase, Inv, [Next]_vars PROVE Inv'
  OBVIOUS
<1>1. ASSUME NEW v \in Values, Insert(v) \/ \E alias \in BOOLEAN : Erase(v, alias) PROVE Inv'
  BY <1>1, InsertInv, EraseInv
<1>2. ASSUME NEW u \in 1 .. Size, Reserve(u) PROVE Inv'
  BY <1>2, ReserveInv
<1>3. CASE Clear
  BY <1>3, SizeAssumption DEF Clear, Inv, TypeOK, Linked
<1>4. CASE UNCHANGED vars
  BY <1>4 DEF vars, Inv, TypeOK, Linked
<1>. QED
  BY <1>1, <1>2, <1>3, <1>4 DEF Next

(* The arrays stay linked in every state of every behaviour.               *)
THEOREM Invariance == ASSUME CarefulErase PROVE Spec => []Inv
BY InvInit, InvStep, PTL DEF Spec

-----------------------------------------------------------------------------
(* Results.                                                                *)

(* The arrays keep their types and size_ stays within the capacity, so     *)
(* that no operation of the set writes outside them, provided erase() is   *)
(* given no reference into the set save to its last member.                *)
THEOREM TypeCorrect == ASSUME CarefulErase PROVE Spec => []TypeOK
BY Invariance, PTL DEF Inv

(* has() is membership and a walk from begin() to end() visits every       *)
(* member once, for every size and every initial content of the            *)
(* uninitialized arrays, provided erase() is given no reference into the   *)
(* set save to its last member.                                            *)
THEOREM SetSoundHolds == ASSUME CarefulErase PROVE Spec => []SetSound
<1>1. Inv => HasIsMembership
  BY HasFact DEF HasIsMembership
<1>2. Inv => IterationIsMembers
  BY DEF Inv, Linked, IterationIsMembers
<1>3. Inv => SetSound
  BY <1>1, <1>2 DEF SetSound
<1>. QED
  BY <1>3, Invariance, PTL

-----------------------------------------------------------------------------
(* Sparse pools.                                                           *)

(* The constructor.                                                        *)
LEMMA PoolInit == ASSUME P!PoolAssumption, P!Init PROVE P!Inv
BY DEF P!PoolAssumption, P!Init, P!Inv, P!TypeOK, P!Linked, P!Indices, P!T, P!Handle

(* is_valid() finds the place of a handle: only a base in use passes.      *)
LEMMA ValidPlace ==
    ASSUME P!PoolAssumption, P!Inv, NEW h \in P!Handle, P!IsValid(h)
    PROVE  pool_sparse[h.base] \in 0 .. pool_size - 1 /\ pool_dense[pool_sparse[h.base]] = h.base
BY DEF P!PoolAssumption, P!Inv, P!TypeOK, P!IsValid, P!Handle, P!T, P!Indices

(* A handle in use sits where sparse says, and is as it was issued.        *)
LEMMA HeldPlace ==
    ASSUME P!PoolAssumption, P!Inv, NEW h \in held
    PROVE  /\ h \in P!Handle
           /\ pool_sparse[h.base] \in 0 .. pool_size - 1
           /\ h = P!Issued(pool_sparse[h.base])
<1>1. PICK i \in 0 .. pool_size - 1 : h = P!Issued(i)
  BY DEF P!Inv
<1>2. h.base = pool_dense[i] /\ pool_sparse[pool_dense[i]] = i
  BY <1>1 DEF P!Inv, P!Linked, P!Issued
<1>. QED
  BY <1>1, <1>2 DEF P!Inv, P!TypeOK

(* The guard bits of a handle.                                             *)
LEMMA GuardBits ==
    ASSUME P!PoolAssumption, NEW g \in P!T
    PROVE  /\ g \in Nat /\ g <= PoolTMax
           /\ g % Guards \in 0 .. Guards - 1 /\ g % Guards <= g
           /\ g < Guards <=> g % Guards = g
           /\ g # PoolTMax => (g + 1) % (PoolTMax + 1) = g + 1
           /\ g = PoolTMax => (g + 1) % (PoolTMax + 1) = 0
<1>1. g \in Nat /\ g <= PoolTMax /\ Guards \in Nat \ {0} /\ PoolTMax \in Nat
  BY DEF P!PoolAssumption, P!T
<1>2. g % Guards \in 0 .. Guards - 1 /\ g % Guards <= g /\ (g < Guards => g % Guards = g)
  BY <1>1
<1>3. /\ g # PoolTMax => (g + 1) % (PoolTMax + 1) = g + 1
      /\ g = PoolTMax => (g + 1) % (PoolTMax + 1) = 0
  BY <1>1
<1>. QED
  BY <1>1, <1>2, <1>3

(* acquire(): the base comes from behind the handles in use.               *)
LEMMA AcquireInv == ASSUME P!PoolAssumption, P!Inv, P!Acquire PROVE P!Inv'
<1>. DEFINE base == pool_dense[pool_size]
            h == [base |-> base, guard |-> guard[base] % Guards]
<1>0. /\ pool_size \in 0 .. Size - 1 /\ pool_size \in P!Indices /\ base \in P!Indices /\ pool_size \in P!T
      /\ Size \in Nat
  <2>1. pool_size \in 0 .. Size - 1 /\ Size \in Nat /\ PoolTMax \in Nat /\ Size <= PoolTMax + 1
    BY DEF P!PoolAssumption, P!Inv, P!TypeOK, P!Acquire
  <2>2. pool_size \in P!Indices /\ pool_size \in P!T
    BY <2>1 DEF P!Indices, P!T
  <2>. QED
    BY <2>1, <2>2 DEF P!Inv, P!TypeOK
<1>1. guard[base] % Guards \in 0 .. Guards - 1
  BY <1>0, GuardBits DEF P!Inv, P!TypeOK
<1>2. h = P!Issued(pool_size) /\ h \in P!Handle
  BY <1>0, <1>1 DEF P!Issued, P!Handle
<1>3. /\ pool_sparse' = [pool_sparse EXCEPT ![base] = pool_size] /\ held' = held \union {h}
      /\ pool_size' = pool_size + 1
      /\ secure' = secure /\ asserting' = asserting
      /\ pool_dense' = pool_dense /\ guard' = guard /\ stale' = stale
  BY DEF P!Acquire
<1>4. P!TypeOK'
  <2>1. pool_sparse' \in [P!Indices -> P!T]
    BY <1>0, <1>3 DEF P!Inv, P!TypeOK
  <2>2. held' \subseteq P!Handle
    BY <1>2, <1>3 DEF P!Inv, P!TypeOK
  <2>3. pool_size' \in 0 .. Size
    BY <1>0, <1>3
  <2>. QED
    BY <1>3, <2>1, <2>2, <2>3 DEF P!Inv, P!TypeOK
<1>5. 0 .. pool_size' - 1 = (0 .. pool_size - 1) \union {pool_size}
  BY <1>0, <1>3
<1>6. P!Linked'
  <2>. SUFFICES ASSUME NEW i \in 0 .. pool_size' - 1 PROVE pool_sparse'[pool_dense'[i]] = i
    BY DEF P!Linked
  <2>1. CASE i = pool_size
    BY <1>0, <1>3, <2>1 DEF P!Inv, P!TypeOK
  <2>2. CASE i \in 0 .. pool_size - 1
    <3>1. i \in P!Indices /\ i # pool_size
      BY <1>0, <2>2 DEF P!Indices
    <3>2. pool_dense[i] # base /\ pool_dense[i] \in P!Indices
      BY <1>0, <3>1 DEF P!Inv, P!TypeOK
    <3>. QED
      BY <1>3, <2>2, <3>2 DEF P!Inv, P!TypeOK, P!Linked
  <2>. QED
    BY <1>5, <2>1, <2>2
<1>7. held' = {P!Issued(i)' : i \in 0 .. pool_size' - 1}
  <2>1. \A i : P!Issued(i)' = P!Issued(i)
    BY <1>3 DEF P!Issued
  <2>. QED
    BY <1>2, <1>3, <1>5, <2>1 DEF P!Inv
<1>. QED
  BY <1>3, <1>4, <1>6, <1>7 DEF P!Inv

(* release(): the handle changes places with the last one in use.          *)
LEMMA ReleaseInv == ASSUME P!PoolAssumption, P!Inv, NEW h \in P!Handle, P!Release(h) PROVE P!Inv'
<1>. DEFINE index == pool_sparse[h.base]
            temp == pool_dense[pool_size - 1]
<1>0. /\ h \in held /\ index \in 0 .. pool_size - 1 /\ pool_dense[index] = h.base /\ h = P!Issued(index)
  <2>1. h \in held
    BY DEF P!Release
  <2>2. index \in 0 .. pool_size - 1 /\ h = P!Issued(index)
    BY <2>1, HeldPlace
  <2>. QED
    BY <2>1, <2>2 DEF P!Issued
<1>1. /\ Size \in Nat /\ pool_size \in 1 .. Size /\ pool_size - 1 \in P!Indices /\ index \in P!Indices
      /\ temp \in P!Indices /\ h.base \in P!Indices
  BY <1>0 DEF P!PoolAssumption, P!Inv, P!TypeOK, P!Indices, P!Handle
<1>2. /\ pool_sparse' = [pool_sparse EXCEPT ![temp] = index]
      /\ pool_dense' = [[pool_dense EXCEPT ![pool_size - 1] = h.base] EXCEPT ![index] = temp]
      /\ pool_size' = pool_size - 1
      /\ guard' = [guard EXCEPT ![h.base] = IF secure THEN (@ + 1) % (PoolTMax + 1) ELSE @]
      /\ held' = held \ {h} /\ secure' = secure /\ asserting' = asserting
      /\ stale' = IF secure /\ guard[h.base] = PoolTMax THEN {g \in stale : g.base # h.base}
                  ELSE stale \union {h}
  BY DEF P!Release, P!CountRelease
<1>. HIDE DEF index, temp
<1>3. \A i \in P!Indices : pool_dense'[i] = IF i = index THEN temp
                                     ELSE IF i = pool_size - 1 THEN h.base ELSE pool_dense[i]
  BY <1>1, <1>2 DEF P!Inv, P!TypeOK
<1>4. \A i, j \in P!Indices : pool_dense[i] = pool_dense[j] => i = j
  BY DEF P!Inv, P!TypeOK
<1>5. temp = pool_dense[pool_size - 1]
  BY DEF temp
<1>6. pool_dense' \in [P!Indices -> P!Indices] /\ \A i, j \in P!Indices : pool_dense'[i] = pool_dense'[j] => i = j
  <2>1. pool_dense' \in [P!Indices -> P!Indices]
    BY <1>1, <1>2 DEF P!Inv, P!TypeOK
  <2>. QED
    BY <1>0, <1>1, <1>3, <1>4, <1>5, <2>1
<1>7. /\ index \in P!T /\ pool_sparse' \in [P!Indices -> P!T]
  <2>1. index \in P!T
    BY <1>0, <1>1 DEF P!PoolAssumption, P!T
  <2>. QED
    BY <1>1, <1>2, <2>1 DEF P!Inv, P!TypeOK
<1>8. /\ guard' \in [P!Indices -> P!T]
      /\ guard'[h.base] = (IF secure THEN (guard[h.base] + 1) % (PoolTMax + 1) ELSE guard[h.base])
      /\ \A b \in P!Indices \ {h.base} : guard'[b] = guard[b]
  <2>1. guard \in [P!Indices -> P!T] /\ guard[h.base] \in P!T
    BY <1>1 DEF P!Inv, P!TypeOK
  <2>2. (guard[h.base] + 1) % (PoolTMax + 1) \in P!T
    BY <2>1 DEF P!T, P!PoolAssumption
  <2>. QED
    BY <1>1, <1>2, <2>1, <2>2
<1>9. P!TypeOK'
  BY <1>1, <1>2, <1>6, <1>7, <1>8 DEF P!Inv, P!TypeOK
<1>10. 0 .. pool_size - 1 = (0 .. pool_size' - 1) \union {pool_size - 1} /\ pool_size - 1 \notin 0 .. pool_size' - 1
  BY <1>1, <1>2
<1>11. \A i \in 0 .. pool_size' - 1 : i \in P!Indices /\ i # pool_size - 1 /\ i \in 0 .. pool_size - 1
  BY <1>1, <1>2, <1>10 DEF P!Indices
<1>12. \A i \in 0 .. pool_size' - 1 : pool_dense'[i] # h.base /\ pool_dense'[i] \in P!Indices
  <2>. SUFFICES ASSUME NEW i \in 0 .. pool_size' - 1 PROVE pool_dense'[i] # h.base
    BY <1>6, <1>11
  <2>1. CASE i = index
    BY <1>0, <1>1, <1>3, <1>4, <1>5, <1>11, <2>1
  <2>2. CASE i # index
    BY <1>0, <1>1, <1>3, <1>4, <1>11, <2>2
  <2>. QED
    BY <2>1, <2>2
<1>13. P!Linked'
  <2>. SUFFICES ASSUME NEW i \in 0 .. pool_size' - 1 PROVE pool_sparse'[pool_dense'[i]] = i
    BY DEF P!Linked
  <2>0. pool_sparse \in [P!Indices -> P!T] /\ pool_sparse[pool_dense[i]] = i
    BY <1>11 DEF P!Inv, P!TypeOK, P!Linked
  <2>1. CASE i = index
    BY <1>1, <1>2, <1>3, <1>11, <2>0, <2>1
  <2>2. CASE i # index
    <3>1. pool_dense'[i] = pool_dense[i] /\ pool_dense[i] # temp /\ pool_dense[i] \in P!Indices
      BY <1>1, <1>3, <1>4, <1>5, <1>11, <1>12, <2>2
    <3>. QED
      BY <1>1, <1>2, <2>0, <3>1
  <2>. QED
    BY <2>1, <2>2
<1>14. \A i \in 0 .. pool_size' - 1 : P!Issued(i)' = [base |-> pool_dense'[i], guard |-> guard[pool_dense'[i]] % Guards]
  BY <1>8, <1>12 DEF P!Issued
<1>15. held' = {P!Issued(i)' : i \in 0 .. pool_size' - 1}
  <2>1. ASSUME NEW i \in 0 .. pool_size' - 1 PROVE P!Issued(i)' \in held'
    <3>1. CASE i = index
      <4>1. P!Issued(i)' = P!Issued(pool_size - 1)
        BY <1>3, <1>5, <1>11, <1>14, <3>1 DEF P!Issued
      <4>2. P!Issued(pool_size - 1) \in held
        BY <1>10 DEF P!Inv
      <4>3. P!Issued(pool_size - 1).base # h.base
        BY <1>3, <1>5, <1>11, <1>12, <3>1 DEF P!Issued
      <4>. QED
        BY <1>2, <4>1, <4>2, <4>3
    <3>2. CASE i # index
      <4>1. P!Issued(i)' = P!Issued(i) /\ P!Issued(i) \in held
        BY <1>3, <1>11, <1>14, <3>2 DEF P!Issued, P!Inv
      <4>2. P!Issued(i).base # h.base
        BY <1>3, <1>11, <1>12, <3>2 DEF P!Issued
      <4>. QED
        BY <1>2, <4>1, <4>2
    <3>. QED
      BY <3>1, <3>2
  <2>2. ASSUME NEW g \in held' PROVE \E i \in 0 .. pool_size' - 1 : g = P!Issued(i)'
    <3>1. PICK j \in 0 .. pool_size - 1 : g = P!Issued(j)
      BY <1>2 DEF P!Inv
    <3>2. j # index
      BY <1>0, <1>2, <3>1
    <3>3. CASE j = pool_size - 1
      <4>1. PICK k \in 0 .. pool_size' - 1 : k = index
        BY <1>0, <1>1, <1>2, <3>2, <3>3
      <4>2. P!Issued(k)' = g
        BY <1>3, <1>5, <1>11, <1>14, <3>1, <3>3, <4>1 DEF P!Issued
      <4>. QED
        BY <4>1, <4>2
    <3>4. CASE j # pool_size - 1
      <4>1. j \in 0 .. pool_size' - 1
        BY <1>10, <3>4
      <4>2. P!Issued(j)' = g
        BY <1>3, <1>11, <1>14, <3>1, <3>2, <4>1 DEF P!Issued
      <4>. QED
        BY <4>1, <4>2
    <3>. QED
      BY <3>3, <3>4
  <2>. QED
    BY <2>1, <2>2
<1>16. ~secure' => \A b \in P!Indices : guard'[b] = 0
  BY <1>1, <1>2, <1>8 DEF P!Inv
<1>17. secure' => \A g \in stale' : g.guard < guard'[g.base]
  <2>. SUFFICES ASSUME secure, NEW g \in stale' PROVE g.guard < guard'[g.base]
    BY <1>2
  <2>0. guard \in [P!Indices -> P!T] /\ stale \subseteq P!Handle /\ g \in stale \union {h}
    BY <1>2 DEF P!Inv, P!TypeOK
  <2>3. guard[h.base] # PoolTMax \/ g.base # h.base
    BY <1>2
  <2>1. CASE g.base = h.base
    <3>1. h.guard = guard[h.base] % Guards /\ guard[h.base] \in P!T
      BY <1>0, <1>1, <2>0 DEF P!Issued
    <3>2. g = h \/ g.guard < guard[h.base]
      BY <2>0, <2>1 DEF P!Inv
    <3>3. g.guard \in Int
      BY <2>0 DEF P!Handle, P!PoolAssumption
    <3>4. guard'[h.base] = guard[h.base] + 1 /\ guard[h.base] \in Nat /\ guard[h.base] % Guards <= guard[h.base]
      BY <1>8, <2>1, <2>3, <3>1, GuardBits
    <3>5. g.guard <= guard[h.base]
      BY <3>1, <3>2, <3>3, <3>4
    <3>. QED
      BY <2>1, <3>3, <3>4, <3>5
  <2>2. CASE g.base # h.base
    <3>1. g \in P!Handle /\ g.guard < guard[g.base]
      BY <2>0, <2>2 DEF P!Inv
    <3>2. g.base \in P!Indices
      BY <3>1 DEF P!Handle
    <3>. QED
      BY <1>8, <2>2, <3>1, <3>2
  <2>. QED
    BY <2>1, <2>2
<1>. QED
  BY <1>9, <1>13, <1>15, <1>16, <1>17 DEF P!Inv

(* clear() forgets everything but sparse.                                  *)
LEMMA PoolClear == ASSUME P!PoolAssumption, P!Inv, P!Clear PROVE P!Inv'
<1>1. 0 \in P!T /\ 0 \in 0 .. Size /\ 0 .. 0 - 1 = {}
  BY DEF P!PoolAssumption, P!T
<1>2. guard' = [i \in P!Indices |-> 0] /\ guard' \in [P!Indices -> P!T]
  BY <1>1 DEF P!Clear
<1>3. P!TypeOK'
  BY <1>1, <1>2 DEF P!Clear, P!Inv, P!TypeOK
<1>4. P!Linked' /\ held' = {P!Issued(i)' : i \in 0 .. pool_size' - 1}
  BY <1>1 DEF P!Clear, P!Linked
<1>5. stale' = {} /\ \A b \in P!Indices : guard'[b] = 0
  BY <1>2 DEF P!Clear
<1>. QED
  BY <1>3, <1>4, <1>5 DEF P!Inv

LEMMA PoolStep == ASSUME P!PoolAssumption, P!Inv, [P!Next]_(P!vars) PROVE P!Inv'
<1>1. CASE P!Acquire
  BY <1>1, AcquireInv
<1>2. ASSUME NEW h \in P!Handle, P!Release(h) PROVE P!Inv'
  BY <1>2, ReleaseInv
<1>3. CASE P!Clear
  BY <1>3, PoolClear
<1>4. CASE UNCHANGED P!vars
  BY <1>4 DEF P!vars, P!Inv, P!TypeOK, P!Linked, P!Issued
<1>. QED
  BY <1>1, <1>2, <1>3, <1>4 DEF P!Next

(* There are size() handles in use, one for each place.                    *)
LEMMA HeldCount == ASSUME P!PoolAssumption, P!Inv PROVE Cardinality(held) = pool_size
<1>. DEFINE Places == 0 .. pool_size - 1
            f == [i \in Places |-> P!Issued(i)]
<1>1. pool_size \in Nat /\ IsFiniteSet(Places) /\ Cardinality(Places) = pool_size
  <2>1. pool_size \in Nat
    BY DEF P!Inv, P!TypeOK, P!PoolAssumption
  <2>. QED
    BY <2>1, FS_Interval
<1>2. \A i, j \in Places : P!Issued(i) = P!Issued(j) => i = j
  <2>1. Places \subseteq P!Indices
    BY DEF P!Inv, P!TypeOK, P!PoolAssumption, P!Indices
  <2>. QED
    BY <2>1 DEF P!Inv, P!TypeOK, P!Issued
<1>3. f \in Bijection(Places, held)
  <2>1. held = {P!Issued(i) : i \in Places}
    BY DEF P!Inv
  <2>. HIDE DEF Places
  <2>2. f \in [Places -> held]
    BY <2>1
  <2>3. \A g \in held : \E i \in Places : f[i] = g
    BY <2>1
  <2>4. \A i, j \in Places : f[i] = f[j] => i = j
    BY <1>2
  <2>. HIDE DEF f
  <2>. QED
    BY <2>2, <2>3, <2>4 DEF Bijection, Injection, Surjection, IsInjective
<1>. HIDE DEF Places, f
<1>. QED
  BY <1>1, <1>3, FS_Bijection DEF ExistsBijection

LEMMA InvImplies == ASSUME P!PoolAssumption, P!Inv PROVE P!HandlesSound
<1>1. P!HandlesUnique
  <2>1. \A g, h \in held : g.base = h.base => g = h
    BY HeldPlace
  <2>2. P!Cardinality(held) = Cardinality(held)
    BY DEF P!Cardinality, Cardinality
  <2>. QED
    BY <2>1, <2>2, HeldCount DEF P!HandlesUnique
<1>2. P!HeldIsValid
  <2>. SUFFICES ASSUME NEW h \in held PROVE P!IsValid(h) <=> (secure => guard[h.base] < Guards)
    BY DEF P!HeldIsValid
  <2>1. /\ h \in P!Handle
        /\ h = P!Issued(pool_sparse[h.base]) /\ pool_sparse[h.base] \in 0 .. pool_size - 1
    BY HeldPlace
  <2>2. pool_sparse[h.base] < pool_size /\ pool_dense[pool_sparse[h.base]] = h.base
    BY <2>1 DEF P!Inv, P!TypeOK, P!PoolAssumption, P!Issued
  <2>3. h.guard = guard[h.base] % Guards
    BY <2>1 DEF P!Issued
  <2>4. guard[h.base] \in P!T
    BY <2>1 DEF P!Inv, P!TypeOK, P!Handle
  <2>5. guard[h.base] < Guards <=> h.guard = guard[h.base]
    BY <2>3, <2>4, GuardBits
  <2>. QED
    BY <2>2, <2>5 DEF P!IsValid
<1>3. P!ValidIsHeld
  <2>. SUFFICES ASSUME NEW h \in P!Handle, P!IsValid(h) PROVE \E g \in held : g.base = h.base
    BY DEF P!ValidIsHeld
  <2>1. pool_sparse[h.base] \in 0 .. pool_size - 1 /\ pool_dense[pool_sparse[h.base]] = h.base
    BY ValidPlace
  <2>. QED
    <3>1. P!Issued(pool_sparse[h.base]) \in held
      BY <2>1 DEF P!Inv
    <3>. QED
      BY <2>1, <3>1 DEF P!Issued
<1>4. P!StaleIsInvalid
  <2>. SUFFICES ASSUME secure, NEW h \in stale PROVE ~P!IsValid(h)
    BY DEF P!StaleIsInvalid
  <2>1. h \in P!Handle /\ h.guard < guard[h.base]
    BY DEF P!Inv, P!TypeOK
  <2>2. h.guard \in Int /\ guard[h.base] \in Int
    BY <2>1 DEF P!Inv, P!TypeOK, P!Handle, P!PoolAssumption, P!T
  <2>. QED
    BY <2>1, <2>2 DEF P!IsValid
<1>. QED
  BY <1>1, <1>2, <1>3, <1>4 DEF P!HandlesSound

(* Acquire, release and clear keep dense and sparse linked for the handles *)
(* in use, in both pools.                                                  *)
THEOREM PoolInvariance == ASSUME P!PoolAssumption PROVE P!Spec => []P!Inv
<1>1. P!Init => P!Inv
  BY PoolInit
<1>2. P!Inv /\ [P!Next]_(P!vars) => P!Inv'
  BY PoolStep
<1>. QED
  BY <1>1, <1>2, PTL DEF P!Spec

(* For any size and guard width, with and without assertions, and any      *)
(* content of the uninitialized array: handles in use are unique, and      *)
(* valid exactly as long as their guard fits its bits; others are          *)
(* rejected, and a secure pool rejects the handles that were released      *)
(* since the guard last overflowed.                                        *)
THEOREM HandlesSoundHolds == ASSUME P!PoolAssumption PROVE P!Spec => []HandlesSound
<1>1. P!Inv => HandlesSound
  BY InvImplies DEF HandlesSound
<1>. QED
  BY <1>1, PoolInvariance, PTL

-----------------------------------------------------------------------------
(* A*: arithmetic and the orders its definitions use.                      *)

(* A set of natural numbers has a least element.                           *)
LEMMA LeastNat ==
    ASSUME NEW Q \in SUBSET Nat, Q # {}
    PROVE  \E m \in Q : \A k \in Q : m <= k
<1>. DEFINE R == {p \in Nat \X Nat : p[1] < p[2]}
<1>1. IsWellFoundedOn(R, Nat)
  BY NatLessThanWellFounded DEF OpToRel
<1>2. PICK m \in Q : \A k \in Q : ~(<<k, m>> \in R)
  <2>. HIDE DEF R
  <2>. QED
    BY <1>1, WFMin
<1>3. \A k \in Q : ~(k < m)
  BY <1>2
<1>. QED
  BY <1>3

(* The functions the recursive definitions of AStar describe exist.        *)
Iterated(f, n, X, x, step) ==
    f \in [0 .. n -> X] /\ f[0] = x /\ \A i \in 1 .. n : f[i] = step[i][f[i - 1]]

LEMMA Iterates ==
    ASSUME NEW X, NEW x \in X, NEW step \in [Nat -> [X -> X]], NEW n \in Nat
    PROVE  \E f : Iterated(f, n, X, x, step)
<1>. DEFINE Good(k) == \E f \in [0 .. k -> X] : f[0] = x /\ \A i \in 1 .. k : f[i] = step[i][f[i - 1]]
            Bad == {k \in Nat : ~Good(k)}
<1>. SUFFICES ASSUME Bad # {} PROVE FALSE
  BY DEF Iterated
<1>1. PICK k \in Bad : \A j \in Bad : k <= j
  <2>. HIDE DEF Good
  <2>. QED
    BY LeastNat
<1>2. k # 0
  <2>. DEFINE g == [i \in 0 .. 0 |-> x]
  <2>1. g \in [0 .. 0 -> X] /\ g[0] = x /\ \A i \in 1 .. 0 : g[i] = step[i][g[i - 1]]
    OBVIOUS
  <2>2. Good(0)
    <3>. HIDE DEF g
    <3>. QED
      BY <2>1
  <2>. HIDE DEF Good
  <2>. QED
    BY <1>1, <2>2
<1>3. k - 1 \in Nat /\ Good(k - 1)
  <2>. HIDE DEF Good
  <2>. QED
    BY <1>1, <1>2
<1>4. PICK f \in [0 .. k - 1 -> X] : f[0] = x /\ \A i \in 1 .. k - 1 : f[i] = step[i][f[i - 1]]
  BY <1>3
<1>. DEFINE g == [i \in 0 .. k |-> IF i = k THEN step[k][f[k - 1]] ELSE f[i]]
<1>5. k - 1 \in 0 .. k - 1 /\ k \in Nat /\ f[k - 1] \in X
  BY <1>3, <1>4
<1>6. step[k][f[k - 1]] \in X
  BY <1>5
<1>7. g \in [0 .. k -> X] /\ g[0] = x
  BY <1>2, <1>4, <1>5, <1>6
<1>8. ASSUME NEW i \in 1 .. k PROVE g[i] = step[i][g[i - 1]]
  <2>1. i - 1 \in 0 .. k /\ i - 1 # k /\ i \in 0 .. k /\ (i # k => i \in 1 .. k - 1)
    BY <1>5
  <2>2. g[i - 1] = f[i - 1]
    BY <2>1
  <2>. QED
    BY <1>4, <2>1, <2>2
<1>9. Good(k)
  <2>. HIDE DEF g
  <2>. QED
    BY <1>7, <1>8
<1>. QED
  BY <1>1, <1>9

LEMMA MinNat ==
    ASSUME NEW Q \in SUBSET Nat, Q # {}
    PROVE  A!Min(Q) \in Q /\ \A k \in Q : A!Min(Q) <= k
BY LeastNat DEF A!Min

(* The module's own copies of the operators on finite sets.                *)
LEMMA SameSize ==
    ASSUME NEW Q
    PROVE  A!Cardinality(Q) = Cardinality(Q) /\ (A!IsFiniteSet(Q) <=> IsFiniteSet(Q))
<1>1. A!Cardinality(Q) = Cardinality(Q)
  BY Zenon DEF A!Cardinality, Cardinality, A!IsFiniteSet, IsFiniteSet
<1>2. A!IsFiniteSet(Q) <=> IsFiniteSet(Q)
  BY Zenon DEF A!Cardinality, Cardinality, A!IsFiniteSet, IsFiniteSet
<1>. QED
  BY <1>1, <1>2

(* The members of a finite set of numbers, each once.                      *)
LEMMA InOrderFacts ==
    ASSUME NEW ns \in SUBSET Nat, IsFiniteSet(ns)
    PROVE  /\ A!InOrder(ns) \in Seq(ns) /\ A!IsInjective(A!InOrder(ns))
           /\ A!Range(A!InOrder(ns)) = ns
<1>. DEFINE c == Cardinality(ns)
            below(n) == {m \in ns : m < n}
            rank == [n \in ns |-> Cardinality(below(n))]
<1>1. c \in Nat
  BY FS_CardinalityType
<1>2. ASSUME NEW n \in ns
      PROVE  IsFiniteSet(below(n)) /\ rank[n] \in 0 .. c - 1
  <2>1. below(n) \in SUBSET ns /\ below(n) \in SUBSET (ns \ {n})
    OBVIOUS
  <2>2. IsFiniteSet(ns \ {n}) /\ Cardinality(ns \ {n}) = c - 1
    BY FS_RemoveElement
  <2>3. IsFiniteSet(below(n)) /\ Cardinality(below(n)) <= c - 1 /\ Cardinality(below(n)) \in Nat
    <3>. HIDE DEF below
    <3>. QED
      BY <2>1, <2>2, FS_Subset, FS_CardinalityType
  <2>. QED
    BY <1>1, <2>3
<1>3. ASSUME NEW m \in ns, NEW n \in ns, m < n PROVE rank[m] < rank[n]
  <2>1. below(m) \in SUBSET (below(n) \ {m}) /\ m \in below(n)
    <3>1. \A x \in ns : x < m => x < n /\ x # m
      BY <1>3
    <3>. QED
      BY <1>3, <3>1
  <2>2. IsFiniteSet(below(n) \ {m}) /\ Cardinality(below(n) \ {m}) = rank[n] - 1
    <3>. HIDE DEF below
    <3>. QED
      BY <1>2, <2>1, FS_RemoveElement
  <2>3. Cardinality(below(m)) <= rank[n] - 1
    <3>. HIDE DEF below
    <3>. QED
      BY <2>1, <2>2, FS_Subset
  <2>. QED
    BY <1>1, <1>2, <2>3
<1>. HIDE DEF below
<1>4. rank \in [ns -> 0 .. c - 1]
  BY <1>2
<1>5. \A m, n \in ns : rank[m] = rank[n] => m = n
  <2>. HIDE DEF rank
  <2>. QED
    BY <1>1, <1>3, <1>4
<1>6. \A i \in 0 .. c - 1 : \E n \in ns : rank[n] = i
  <2>1. IsFiniteSet(0 .. c - 1) /\ Cardinality(0 .. c - 1) = c
    <3>1. 0 \in Int /\ c - 1 \in Int
      BY <1>1
    <3>. QED
      BY <1>1, <3>1, FS_Interval
  <2>2. rank \in Injection(ns, 0 .. c - 1)
    <3>. HIDE DEF rank
    <3>. QED
      BY <1>4, <1>5 DEF Injection, IsInjective
  <2>. HIDE DEF rank
  <2>3. rank \in Surjection(ns, 0 .. c - 1)
    BY <2>1, <2>2, FS_Injection
  <2>. QED
    BY <2>3 DEF Surjection
<1>. DEFINE f == A!InOrder(ns)
<1>. DEFINE chosen(i) == CHOOSE n \in ns : A!Cardinality({m \in ns : m < n}) = i - 1
<1>7. f = [i \in 1 .. c |-> chosen(i)]
  <2>1. A!Cardinality(ns) = c
    BY SameSize
  <2>. QED
    BY <2>1 DEF A!InOrder
<1>8. ASSUME NEW i \in 1 .. c PROVE f[i] \in ns /\ rank[f[i]] = i - 1
  <2>. HIDE DEF rank, f
  <2>1. i - 1 \in 0 .. c - 1
    BY <1>1
  <2>2. \A n : A!Cardinality({m \in ns : m < n}) = Cardinality(below(n))
    BY SameSize DEF below
  <2>3. \E n \in ns : A!Cardinality({m \in ns : m < n}) = i - 1
    BY <1>6, <2>1, <2>2 DEF rank
  <2>4. chosen(i) \in ns /\ A!Cardinality({m \in ns : m < chosen(i)}) = i - 1
    BY <2>3
  <2>. HIDE DEF chosen
  <2>5. f[i] = chosen(i)
    BY <1>7
  <2>6. rank[chosen(i)] = i - 1
    BY <2>2, <2>4 DEF rank
  <2>. QED
    BY <2>4, <2>5, <2>6
<1>9. ASSUME NEW n \in ns PROVE \E i \in 1 .. c : f[i] = n
  <2>1. rank[n] \in 0 .. c - 1 /\ rank[n] + 1 \in 1 .. c /\ (rank[n] + 1) - 1 = rank[n]
    BY <1>1, <1>2
  <2>. HIDE DEF rank, f
  <2>. QED
    BY <1>5, <1>8, <2>1
<1>. HIDE DEF rank, f, chosen
<1>10. f \in [1 .. c -> ns] /\ DOMAIN f = 1 .. c
  BY <1>7, <1>8
<1>11. f \in Seq(ns)
  BY <1>1, <1>10
<1>12. A!IsInjective(f)
  <2>1. ASSUME NEW i \in 1 .. c, NEW j \in 1 .. c, f[i] = f[j] PROVE i = j
    <3>1. rank[f[i]] = i - 1 /\ rank[f[j]] = j - 1
      BY <1>8
    <3>. QED
      BY <1>1, <2>1, <3>1
  <2>. QED
    BY <1>10, <2>1 DEF A!IsInjective
<1>13. A!Range(f) = ns
  BY <1>8, <1>9, <1>10 DEF A!Range
<1>. QED
  BY <1>11, <1>12, <1>13 DEF f

(* The least of two natural numbers' upper bounds: a property of an initial *)
(* segment that goes from each number to the next.                          *)
LEMMA Upwards ==
    ASSUME NEW a \in Nat, NEW b \in Nat, NEW good, good \subseteq a .. b, a \in good,
           \A i \in a .. b - 1 : i \in good => i + 1 \in good
    PROVE  \A i \in a .. b : i \in good
<1>. DEFINE Bad == {i \in a .. b : i \notin good}
<1>. SUFFICES ASSUME Bad # {} PROVE FALSE
  OBVIOUS
<1>1. PICK k \in Bad : \A j \in Bad : k <= j
  <2>1. Bad \in SUBSET Nat
    OBVIOUS
  <2>. HIDE DEF Bad
  <2>. QED
    BY <2>1, LeastNat
<1>2. k - 1 \in a .. b - 1 /\ k - 1 \notin Bad
  BY <1>1
<1>. QED
  BY <1>1, <1>2

(* What one round of relaxation does.                                       *)
LEMMA RelaxFacts ==
    ASSUME NEW c \in Costs, NEW d \in [Vertices -> Nat], NEW v \in Vertices
    PROVE  LET r == A!relax(c, d)[v]
           IN  /\ r \in Nat /\ r <= d[v]
               /\ \A w \in Vertices : <<v, w>> \in Edges => r <= c[<<v, w>>] + d[w]
               /\ r = d[v] \/ \E w \in Vertices : <<v, w>> \in Edges /\ r = c[<<v, w>>] + d[w]
<1>1. c \in [Edges -> Nat \ {0}] /\ Edges \subseteq Vertices \X Vertices
  BY SearchAssumption DEF A!ProblemAssumption
<1>. DEFINE Out == {x \in Edges : x[1] = v}
            Q == {d[v]} \union {c[e] + d[e[2]] : e \in Out}
<1>2. \A e \in Out : e \in Edges /\ e[2] \in Vertices /\ e = <<v, e[2]>> /\ c[e] \in Nat /\ d[e[2]] \in Nat
  BY <1>1
<1>3. Q \in SUBSET Nat /\ d[v] \in Q /\ \A w \in Vertices : <<v, w>> \in Edges => c[<<v, w>>] + d[w] \in Q
  <2>1. \A w \in Vertices : <<v, w>> \in Edges => <<v, w>> \in Out /\ <<v, w>>[2] = w
    OBVIOUS
  <2>2. d[v] \in Nat
    OBVIOUS
  <2>. QED
    BY <1>2, <2>1, <2>2
<1>4. \A s \in Q : s = d[v] \/ \E w \in Vertices : <<v, w>> \in Edges /\ s = c[<<v, w>>] + d[w]
  BY <1>2
<1>5. A!relax(c, d)[v] = A!Min(Q)
  BY DEF A!relax
<1>. HIDE DEF Q
<1>6. A!Min(Q) \in Q /\ \A k \in Q : A!Min(Q) <= k
  BY <1>3, MinNat
<1>. QED
  BY <1>3, <1>4, <1>5, <1>6

(* The rounds of Distance.                                                  *)
LEMMA Rounds ==
    ASSUME NEW c \in Costs, NEW t \in Vertices
    PROVE  LET N == Cardinality(Vertices)
           IN  \E f \in [0 .. N -> [Vertices -> Nat]] :
                  /\ f[0] = [v \in Vertices |-> IF v = t THEN 0 ELSE 1000]
                  /\ \A i \in 1 .. N : f[i] = A!relax(c, f[i - 1])
                  /\ A!Distance(c, t) = f[N]
<1>. DEFINE N == Cardinality(Vertices)
            Maps == [Vertices -> Nat]
            first == [v \in Vertices |-> IF v = t THEN 0 ELSE 1000]
            rounds == [i \in Nat |-> [d \in Maps |-> A!relax(c, d)]]
<1>1. N \in Nat /\ A!Cardinality(Vertices) = N
  BY SearchAssumption, SameSize, FS_CardinalityType DEF A!ProblemAssumption
<1>2. first \in Maps
  OBVIOUS
<1>3. \A d \in Maps : A!relax(c, d) \in Maps
  <2>1. ASSUME NEW d \in Maps PROVE A!relax(c, d) \in Maps
    <3>1. \A v \in Vertices : A!relax(c, d)[v] \in Nat
      BY RelaxFacts
    <3>2. A!relax(c, d) = [v \in Vertices |-> A!relax(c, d)[v]]
      BY DEF A!relax
    <3>. QED
      BY <3>1, <3>2
  <2>. QED
    BY <2>1
<1>4. rounds \in [Nat -> [Maps -> Maps]]
  <2>. HIDE DEF Maps
  <2>. QED
    BY <1>3
<1>5. PICK f \in [0 .. N -> Maps] : f[0] = first /\ \A i \in 1 .. N : f[i] = rounds[i][f[i - 1]]
  <2>1. N \in Nat
    BY <1>1
  <2>. HIDE DEF N, Maps, first, rounds
  <2>2. \E f : Iterated(f, N, Maps, first, rounds)
    BY <1>2, <1>4, <2>1, Iterates
  <2>. QED
    BY <2>2 DEF Iterated
<1>6. \A i \in 1 .. N : f[i] = A!relax(c, f[i - 1])
  <2>1. ASSUME NEW i \in 1 .. N PROVE f[i] = A!relax(c, f[i - 1])
    <3>1. i \in Nat /\ i - 1 \in 0 .. N
      BY <1>1
    <3>2. f[i - 1] \in Maps
      <4>. HIDE DEF Maps, first, rounds
      <4>. QED
        BY <1>5, <3>1
    <3>3. rounds[i] = [d \in Maps |-> A!relax(c, d)]
      BY <3>1
    <3>. HIDE DEF Maps, first, rounds
    <3>4. f[i] = [d \in Maps |-> A!relax(c, d)][f[i - 1]]
      BY <1>5, <3>3
    <3>. QED
      BY <3>2, <3>4
  <2>. QED
    BY <2>1
<1>. HIDE DEF N
<1>. DEFINE body(g) == [i \in 0 .. N |-> IF i = 0 THEN first ELSE A!relax(c, g[i - 1])]
            d == CHOOSE g : g = body(g)
<1>7. f = body(f)
  <2>. HIDE DEF first, rounds, Maps
  <2>1. \A i \in 0 .. N : i # 0 => i \in 1 .. N
    BY <1>1
  <2>2. \A i \in 0 .. N : f[i] = IF i = 0 THEN first ELSE A!relax(c, f[i - 1])
    BY <1>5, <1>6, <2>1
  <2>3. f = [i \in 0 .. N |-> f[i]]
    BY <1>5
  <2>. QED
    BY <2>2, <2>3
<1>8. d = body(d)
  <2>. HIDE DEF body
  <2>. QED
    BY <1>7
<1>9. A!Distance(c, t) = d[N]
  BY <1>1 DEF A!Distance, A!Infinity
<1>10. d = f
  <2>. HIDE DEF first, rounds, Maps, d
  <2>. DEFINE good == {i \in 0 .. N : d[i] = f[i]}
  <2>0. \A i \in 0 .. N : d[i] = (IF i = 0 THEN first ELSE A!relax(c, d[i - 1])) /\ f[i] = IF i = 0 THEN first ELSE A!relax(c, f[i - 1])
    BY <1>7, <1>8
  <2>1. 0 \in Nat /\ good \subseteq 0 .. N /\ 0 \in good
    BY <1>1, <2>0
  <2>2. \A i \in 0 .. N - 1 : i \in good => i + 1 \in good
    <3>1. \A i \in 0 .. N - 1 : i + 1 \in 0 .. N /\ i + 1 # 0 /\ (i + 1) - 1 = i
      BY <1>1
    <3>. QED
      BY <2>0, <3>1
  <2>3. \A i \in 0 .. N : i \in good
    <3>. HIDE DEF good
    <3>. QED
      BY <1>1, <2>1, <2>2, Upwards
  <2>4. d = [i \in 0 .. N |-> d[i]] /\ f = [i \in 0 .. N |-> f[i]]
    BY <1>5, <1>8
  <2>. QED
    BY <2>3, <2>4
<1>. QED
  BY <1>5, <1>6, <1>9, <1>10, Zenon DEF N

(* As many rounds as there are vertices are enough: a vertex with the least *)
(* of the distances a round changes is not changed again, and one round     *)
(* changes something only if the one before did.                            *)
LEMMA Converges ==
    ASSUME NEW c \in Costs, NEW f, NEW N, N = Cardinality(Vertices),
           f \in [0 .. N + 1 -> [Vertices -> Nat]],
           \A i \in 1 .. N + 1 : f[i] = A!relax(c, f[i - 1])
    PROVE  f[N + 1] = f[N]
<1>. DEFINE Changed(i) == {v \in Vertices : f[i][v] # f[i - 1][v]}
<1>1. N \in Nat /\ IsFiniteSet(Vertices)
  BY SearchAssumption, SameSize, FS_CardinalityType DEF A!ProblemAssumption
<1>2. c \in [Edges -> Nat \ {0}] /\ Edges \subseteq Vertices \X Vertices
  BY SearchAssumption DEF A!ProblemAssumption
<1>. SUFFICES ASSUME f[N + 1] # f[N] PROVE FALSE
  OBVIOUS
<1>3. \A i \in 0 .. N + 1 : f[i] \in [Vertices -> Nat]
  OBVIOUS
<1>4. ASSUME NEW i \in 1 .. N + 1, NEW v \in Vertices
      PROVE  /\ f[i][v] \in Nat /\ f[i - 1][v] \in Nat /\ f[i][v] <= f[i - 1][v]
             /\ \A w \in Vertices : <<v, w>> \in Edges => f[i][v] <= c[<<v, w>>] + f[i - 1][w]
             /\ f[i][v] # f[i - 1][v] =>
                   \E w \in Vertices : <<v, w>> \in Edges /\ f[i][v] = c[<<v, w>>] + f[i - 1][w]
  <2>1. i - 1 \in 0 .. N + 1
    BY <1>1
  <2>2. PICK d \in [Vertices -> Nat] : d = f[i - 1]
    BY <1>3, <2>1
  <2>3. f[i][v] = A!relax(c, d)[v]
    BY <2>2
  <2>4. d[v] \in Nat
    OBVIOUS
  <2>. DEFINE r == A!relax(c, d)[v]
  <2>5. /\ r \in Nat /\ r <= d[v]
        /\ \A w \in Vertices : <<v, w>> \in Edges => r <= c[<<v, w>>] + d[w]
        /\ r = d[v] \/ \E w \in Vertices : <<v, w>> \in Edges /\ r = c[<<v, w>>] + d[w]
    BY RelaxFacts
  <2>. HIDE DEF r
  <2>6. f[i][v] = r /\ f[i - 1] = d
    BY <2>2, <2>3 DEF r
  <2>. QED
    BY <2>4, <2>5, <2>6
<1>5. ASSUME NEW i \in 1 .. N, NEW v \in Changed(i + 1)
      PROVE  \E w \in Changed(i) : f[i + 1][v] > f[i][w]
  <2>1. i + 1 \in 1 .. N + 1 /\ i \in 1 .. N + 1 /\ (i + 1) - 1 = i /\ v \in Vertices /\ f[i + 1][v] # f[i][v]
    BY <1>1
  <2>a. f[i + 1][v] # f[(i + 1) - 1][v]
    BY <2>1
  <2>b. PICK w \in Vertices : <<v, w>> \in Edges /\ f[i + 1][v] = c[<<v, w>>] + f[(i + 1) - 1][w]
    BY ONLY <1>4, <2>1, <2>a
  <2>2. <<v, w>> \in Edges /\ f[i + 1][v] = c[<<v, w>>] + f[i][w]
    BY <2>1, <2>b
  <2>3. f[i][v] <= c[<<v, w>>] + f[i - 1][w] /\ f[i + 1][v] <= f[i][v]
    BY <1>4, <2>1, <2>2
  <2>4. c[<<v, w>>] \in Nat \ {0} /\ f[i][w] \in Nat /\ f[i][v] \in Nat /\ f[i + 1][v] \in Nat
    BY <1>2, <1>4, <2>1, <2>2
  <2>5. f[i][w] # f[i - 1][w]
    <3>. SUFFICES ASSUME f[i][w] = f[i - 1][w] PROVE FALSE
      OBVIOUS
    <3>1. f[i][v] <= f[i + 1][v] /\ f[i + 1][v] <= f[i][v] /\ f[i + 1][v] # f[i][v]
      BY <2>1, <2>2, <2>3
    <3>. QED
      BY <2>4, <3>1
  <2>. QED
    BY <2>2, <2>4, <2>5
<1>. HIDE DEF Changed
<1>6. ASSUME NEW i \in 1 .. N + 1 PROVE Changed(i) # {}
  <2>. DEFINE empty == {k \in i .. N + 1 : Changed(k) = {}}
  <2>. SUFFICES ASSUME Changed(i) = {} PROVE FALSE
    OBVIOUS
  <2>1. i \in Nat /\ N + 1 \in Nat /\ empty \subseteq i .. N + 1 /\ i \in empty
    BY <1>1
  <2>2. \A k \in i .. (N + 1) - 1 : k \in empty => k + 1 \in empty
    <3>1. \A k \in i .. (N + 1) - 1 : k \in 1 .. N /\ k + 1 \in i .. N + 1
      BY <1>1
    <3>. QED
      BY <1>5, <3>1
  <2>3. \A k \in i .. N + 1 : k \in empty
    <3>. HIDE DEF empty
    <3>. QED
      BY <2>1, <2>2, Upwards
  <2>4. Changed(N + 1) = {}
    BY <1>1, <2>3
  <2>5. \A v \in Vertices : f[N + 1][v] = f[N][v]
    <3>1. (N + 1) - 1 = N
      BY <1>1
    <3>. QED
      BY <2>4, <3>1 DEF Changed
  <2>6. f[N + 1] \in [Vertices -> Nat] /\ f[N] \in [Vertices -> Nat]
    BY <1>1, <1>3
  <2>. QED
    BY <2>5, <2>6
<1>. DEFINE u == [i \in 1 .. N + 1 |-> CHOOSE v \in Changed(i) : \A w \in Changed(i) : f[i][v] <= f[i][w]]
<1>7. ASSUME NEW i \in 1 .. N + 1
      PROVE  u[i] \in Vertices /\ u[i] \in Changed(i) /\ \A w \in Changed(i) : f[i][u[i]] <= f[i][w]
  <2>. DEFINE Q == {f[i][w] : w \in Changed(i)}
  <2>1. Changed(i) \subseteq Vertices
    BY DEF Changed
  <2>2. Q \in SUBSET Nat /\ Q # {}
    BY <1>4, <1>6, <2>1
  <2>3. PICK m \in Q : \A k \in Q : m <= k
    <3>. HIDE DEF Q
    <3>. QED
      BY <2>2, LeastNat
  <2>4. \E v \in Changed(i) : \A w \in Changed(i) : f[i][v] <= f[i][w]
    BY <2>3
  <2>. QED
    BY <2>1, <2>4
<1>. HIDE DEF u
<1>8. ASSUME NEW i \in 1 .. N + 1, NEW j \in 1 .. N + 1, i < j PROVE u[i] # u[j]
  <2>. DEFINE v == u[i]
              good == {k \in i .. N + 1 : /\ f[k][v] <= f[i][v]
                                          /\ k > i => \A w \in Changed(k) : f[k][w] > f[i][v]}
  <2>1. i \in Nat /\ N + 1 \in Nat /\ good \subseteq i .. N + 1 /\ i \in good
    BY <1>1, <1>4, <1>7
  <2>2. ASSUME NEW k \in i .. (N + 1) - 1, k \in good PROVE k + 1 \in good
    <3>1. k \in 1 .. N /\ k + 1 \in i .. N + 1 /\ k + 1 \in 1 .. N + 1 /\ (k + 1) - 1 = k /\ k \in 1 .. N + 1
      BY <1>1
    <3>2. v \in Vertices
      BY <1>7
    <3>3. f[k + 1][v] <= f[k][v] /\ f[k][v] <= f[i][v]
      BY <1>4, <2>2, <3>1, <3>2
    <3>4. f[k + 1][v] \in Nat /\ f[k][v] \in Nat /\ f[i][v] \in Nat
      BY <1>4, <3>1, <3>2
    <3>5. ASSUME NEW w \in Changed(k + 1) PROVE f[k + 1][w] > f[i][v]
      <4>1. PICK x \in Changed(k) : f[k + 1][w] > f[k][x]
        BY <1>5, <3>1
      <4>2. w \in Vertices /\ x \in Vertices
        BY DEF Changed
      <4>3. f[k][x] >= f[i][v]
        <5>1. CASE k = i
          BY <1>7, <5>1
        <5>2. CASE k # i
          <6>1. f[k][x] > f[i][v]
            BY <2>2, <3>1, <5>2
          <6>2. f[k][x] \in Nat
            BY <1>4, <3>1, <4>2
          <6>. QED
            BY <3>4, <6>1, <6>2
        <5>. QED
          BY <5>1, <5>2
      <4>4. f[k + 1][w] \in Nat /\ f[k][x] \in Nat
        BY <1>4, <3>1, <4>2
      <4>. QED
        BY <3>4, <4>1, <4>3, <4>4
    <3>6. f[k + 1][v] <= f[i][v]
      BY <3>3, <3>4
    <3>. QED
      BY <3>1, <3>5, <3>6
  <2>3. \A k \in i .. N + 1 : k \in good
    <3>. HIDE DEF good
    <3>. QED
      BY <2>1, <2>2, Upwards
  <2>4. j \in good
    BY <1>8, <2>1, <2>3
  <2>5. f[j][v] <= f[i][v] /\ \A w \in Changed(j) : f[j][w] > f[i][v]
    BY <1>8, <2>1, <2>4
  <2>6. f[j][v] \in Nat /\ f[i][v] \in Nat
    BY <1>4, <1>7
  <2>7. u[j] \in Changed(j)
    BY <1>7
  <2>. QED
    BY <2>5, <2>6, <2>7
<1>9. IsFiniteSet(1 .. N + 1) /\ Cardinality(1 .. N + 1) = N + 1
  <2>1. 1 \in Int /\ N + 1 \in Int
    BY <1>1
  <2>. QED
    BY <1>1, <2>1, FS_Interval
<1>10. u \in [1 .. N + 1 -> Vertices]
  BY <1>7 DEF u
<1>11. PICK x, y \in 1 .. N + 1 : x # y /\ u[x] = u[y]
  <2>. DEFINE R == 1 .. N + 1
  <2>1. IsFiniteSet(R) /\ Cardinality(Vertices) < Cardinality(R) /\ u \in [R -> Vertices]
    BY <1>1, <1>9, <1>10
  <2>. HIDE DEF R
  <2>2. \E x, y \in R : x # y /\ u[x] = u[y]
    BY <1>1, <2>1, FS_PigeonHole
  <2>. QED
    BY <2>2 DEF R
<1>12. x < y \/ y < x
  BY <1>1, <1>11
<1>. QED
  BY <1>8, <1>11, <1>12

(* Distance is the least cost of a walk to t, capped.                       *)
LEMMA DistanceFixed ==
    ASSUME NEW c \in Costs, NEW t \in Vertices
    PROVE  LET D == A!Distance(c, t)
           IN  /\ D \in [Vertices -> Nat] /\ D[t] = 0
               /\ \A v \in Vertices : D[v] <= 1000
               /\ \A v, w \in Vertices : <<v, w>> \in Edges => D[v] <= c[<<v, w>>] + D[w]
               /\ \A v \in Vertices : v # t /\ D[v] < 1000 =>
                    \E w \in Vertices : <<v, w>> \in Edges /\ D[v] = c[<<v, w>>] + D[w]
<1>. DEFINE N == Cardinality(Vertices)
            D == A!Distance(c, t)
            init == [v \in Vertices |-> IF v = t THEN 0 ELSE 1000]
<1>1. PICK f \in [0 .. N -> [Vertices -> Nat]] :
          f[0] = init /\ (\A i \in 1 .. N : f[i] = A!relax(c, f[i - 1])) /\ D = f[N]
  BY Rounds
<1>2. N \in Nat
  BY SearchAssumption, SameSize, FS_CardinalityType DEF A!ProblemAssumption
<1>3. c \in [Edges -> Nat \ {0}] /\ Edges \subseteq Vertices \X Vertices
  BY SearchAssumption DEF A!ProblemAssumption
<1>. HIDE DEF N, D, init
<1>4. D \in [Vertices -> Nat]
  BY <1>1, <1>2
<1>5. ASSUME NEW d \in [Vertices -> Nat], NEW v \in Vertices
      PROVE  /\ A!relax(c, d)[v] \in Nat /\ A!relax(c, d)[v] <= d[v]
             /\ \A w \in Vertices : <<v, w>> \in Edges => A!relax(c, d)[v] <= c[<<v, w>>] + d[w]
             /\ \/ A!relax(c, d)[v] = d[v]
                \/ \E w \in Vertices : <<v, w>> \in Edges /\ A!relax(c, d)[v] = c[<<v, w>>] + d[w]
  BY <1>5, RelaxFacts
<1>6. A!relax(c, D) = D
  <2>. DEFINE g == [i \in 0 .. N + 1 |-> IF i = N + 1 THEN A!relax(c, D) ELSE f[i]]
  <2>1. A!relax(c, D) \in [Vertices -> Nat]
    <3>1. \A v \in Vertices : A!relax(c, D)[v] \in Nat
      BY <1>4, <1>5
    <3>2. A!relax(c, D) = [v \in Vertices |-> A!relax(c, D)[v]]
      BY DEF A!relax
    <3>. QED
      BY <3>1, <3>2
  <2>2. g \in [0 .. N + 1 -> [Vertices -> Nat]]
    <3>1. \A i \in 0 .. N + 1 : i # N + 1 => i \in 0 .. N
      BY <1>2
    <3>. QED
      BY <1>1, <2>1, <3>1
  <2>3. ASSUME NEW i \in 1 .. N + 1 PROVE g[i] = A!relax(c, g[i - 1])
    <3>1. i - 1 \in 0 .. N /\ i - 1 # N + 1 /\ i - 1 \in 0 .. N + 1 /\ i \in 0 .. N + 1
      BY <1>2
    <3>2. g[i - 1] = f[i - 1]
      BY <3>1
    <3>3. CASE i = N + 1
      <4>1. i - 1 = N
        BY <1>2, <3>3
      <4>2. g[i] = A!relax(c, D)
        BY <3>1, <3>3
      <4>. QED
        BY <1>1, <3>2, <4>1, <4>2
    <3>4. CASE i # N + 1
      <4>1. i \in 1 .. N
        BY <1>2, <3>4
      <4>2. g[i] = f[i]
        BY <3>1, <3>4
      <4>. QED
        BY <1>1, <3>2, <4>1, <4>2
    <3>. QED
      BY <3>3, <3>4
  <2>4. g[N + 1] = A!relax(c, D) /\ g[N] = D
    BY <1>1, <1>2
  <2>. HIDE DEF g
  <2>5. g[N + 1] = g[N]
    BY <2>2, <2>3, Converges DEF N
  <2>. QED
    BY <2>4, <2>5
<1>7. \A v, w \in Vertices : <<v, w>> \in Edges => D[v] <= c[<<v, w>>] + D[w]
  BY <1>4, <1>5, <1>6
<1>. DEFINE fine(d) == /\ d[t] = 0
                       /\ \A v \in Vertices : d[v] <= 1000
                       /\ \A v \in Vertices : v # t /\ d[v] < 1000 =>
                            \E w \in Vertices : <<v, w>> \in Edges /\ d[v] >= c[<<v, w>>] + d[w]
            good == {i \in 0 .. N : fine(f[i])}
<1>8. fine(init)
  BY DEF init
<1>9. ASSUME NEW d \in [Vertices -> Nat], fine(d) PROVE fine(A!relax(c, d))
  <2>. DEFINE e == A!relax(c, d)
  <2>0. \A v \in Vertices : v # t /\ d[v] < 1000 =>
            \E w \in Vertices : <<v, w>> \in Edges /\ d[v] >= c[<<v, w>>] + d[w]
    BY <1>9, Zenon
  <2>1. \A v \in Vertices : e[v] \in Nat /\ e[v] <= d[v] /\ d[v] \in Nat
    BY <1>5
  <2>2. e[t] = 0 /\ \A v \in Vertices : e[v] <= 1000
    <3>. HIDE DEF e
    <3>. QED
      BY <1>9, <2>1
  <2>3. ASSUME NEW v \in Vertices, v # t, e[v] < 1000
        PROVE  \E w \in Vertices : <<v, w>> \in Edges /\ e[v] >= c[<<v, w>>] + e[w]
    <3>1. \E w \in Vertices : <<v, w>> \in Edges /\ e[v] >= c[<<v, w>>] + d[w]
      <4>1. CASE e[v] = d[v]
        <5>1. d[v] < 1000
          BY <2>3, <4>1
        <5>2. \E w \in Vertices : <<v, w>> \in Edges /\ d[v] >= c[<<v, w>>] + d[w]
          BY <2>0, <2>3, <5>1
        <5>. HIDE DEF e
        <5>. QED
          BY <4>1, <5>2
      <4>2. CASE \E w \in Vertices : <<v, w>> \in Edges /\ e[v] = c[<<v, w>>] + d[w]
        <5>1. PICK w \in Vertices : <<v, w>> \in Edges /\ e[v] = c[<<v, w>>] + d[w]
          BY <4>2
        <5>2. c[<<v, w>>] \in Nat /\ d[w] \in Nat
          BY <1>3, <5>1
        <5>. HIDE DEF e
        <5>3. e[v] >= c[<<v, w>>] + d[w]
          BY <5>1, <5>2
        <5>. QED
          BY <5>1, <5>3
      <4>. QED
        BY <1>5, <4>1, <4>2
    <3>2. PICK w \in Vertices : <<v, w>> \in Edges /\ e[v] >= c[<<v, w>>] + d[w]
      BY <3>1
    <3>3. e[w] \in Nat /\ e[w] <= d[w] /\ d[w] \in Nat /\ e[v] \in Nat /\ c[<<v, w>>] \in Nat
      BY <1>3, <2>1, <3>2
    <3>. HIDE DEF e
    <3>4. e[v] >= c[<<v, w>>] + e[w]
      BY <3>2, <3>3
    <3>. QED
      BY <3>2, <3>4
  <2>. QED
    BY <2>2, <2>3
<1>. HIDE DEF fine
<1>10. fine(D)
  <2>1. 0 \in Nat /\ good \subseteq 0 .. N /\ 0 \in good
    BY <1>1, <1>2, <1>8
  <2>2. \A i \in 0 .. N - 1 : i \in good => i + 1 \in good
    <3>1. ASSUME NEW i \in 0 .. N - 1, i \in good PROVE i + 1 \in good
      <4>1. i + 1 \in 1 .. N /\ (i + 1) - 1 = i /\ i \in 0 .. N /\ i + 1 \in 0 .. N
        BY <1>2
      <4>2. f[i] \in [Vertices -> Nat] /\ fine(f[i])
        BY <1>1, <3>1, <4>1
      <4>3. f[i + 1] = A!relax(c, f[i])
        BY <1>1, <4>1
      <4>4. fine(f[i + 1])
        BY <1>9, <4>2, <4>3
      <4>. QED
        BY <4>1, <4>4
    <3>. QED
      BY <3>1
  <2>3. \A i \in 0 .. N : i \in good
    <3>. HIDE DEF good
    <3>. QED
      BY <1>2, <2>1, <2>2, Upwards
  <2>4. N \in good
    BY <1>2, <2>3
  <2>. QED
    BY <1>1, <2>4
<1>11. \A v \in Vertices : v # t /\ D[v] < 1000 =>
         \E w \in Vertices : <<v, w>> \in Edges /\ D[v] = c[<<v, w>>] + D[w]
  <2>1. ASSUME NEW v \in Vertices, v # t, D[v] < 1000
        PROVE  \E w \in Vertices : <<v, w>> \in Edges /\ D[v] = c[<<v, w>>] + D[w]
    <3>1. PICK w \in Vertices : <<v, w>> \in Edges /\ D[v] >= c[<<v, w>>] + D[w]
      BY <1>10, <2>1 DEF fine
    <3>2. D[v] \in Nat /\ D[w] \in Nat /\ c[<<v, w>>] \in Nat /\ D[v] <= c[<<v, w>>] + D[w]
      BY <1>3, <1>4, <1>7, <3>1
    <3>3. D[v] = c[<<v, w>>] + D[w]
      BY <3>1, <3>2
    <3>. QED
      BY <3>1, <3>3
  <2>. QED
    BY <2>1
<1>12. D[t] = 0 /\ \A v \in Vertices : D[v] <= 1000
  BY <1>10 DEF fine
<1>. QED
  BY <1>4, <1>7, <1>11, <1>12 DEF D

(* A walk to t costs less than the cap: from a vertex that reaches t, and   *)
(* from one with an edge to it.                                             *)
LEMMA DistanceFacts ==
    ASSUME NEW c \in Costs, NEW t \in Vertices, NEW D, D = A!Distance(c, t)
    PROVE  /\ D \in [Vertices -> Nat] /\ D[t] = 0
           /\ \A v \in Vertices : D[v] <= 1000
           /\ \A v, w \in Vertices : <<v, w>> \in Edges => D[v] <= c[<<v, w>>] + D[w]
           /\ \A v \in Vertices : v # t /\ D[v] < 1000 =>
                \E w \in Vertices : <<v, w>> \in Edges /\ D[v] = c[<<v, w>>] + D[w]
           /\ \A v, w \in Vertices : <<v, w>> \in Edges /\ D[w] < 1000 => D[v] < 1000
<1>. DEFINE N == Cardinality(Vertices)
            Near(v) == {u \in Vertices : D[u] < D[v]}
            Bounds == {k \in Nat : \A e \in Edges : c[e] <= k}
<1>1. /\ D \in [Vertices -> Nat] /\ D[t] = 0
      /\ \A v \in Vertices : D[v] <= 1000
      /\ \A v, w \in Vertices : <<v, w>> \in Edges => D[v] <= c[<<v, w>>] + D[w]
      /\ \A v \in Vertices : v # t /\ D[v] < 1000 =>
           \E w \in Vertices : <<v, w>> \in Edges /\ D[v] = c[<<v, w>>] + D[w]
  BY DistanceFixed
<1>20. \A v \in Vertices : v # t /\ D[v] < 1000 =>
           \E w \in Vertices : <<v, w>> \in Edges /\ D[v] = c[<<v, w>>] + D[w]
  BY <1>1, Zenon
<1>2. N \in Nat /\ A!Cardinality(Vertices) = N /\ IsFiniteSet(Vertices)
  BY SearchAssumption, SameSize, FS_CardinalityType DEF A!ProblemAssumption
<1>3. /\ c \in [Edges -> Nat \ {0}] /\ Edges \subseteq Vertices \X Vertices
      /\ \A e \in Edges : c[e] * N < 1000
  BY <1>2, SearchAssumption DEF A!ProblemAssumption, A!Infinity
<1>. SUFFICES ASSUME NEW a \in Vertices, NEW b \in Vertices, <<a, b>> \in Edges, D[b] < 1000
              PROVE  D[a] < 1000
  BY <1>1
<1>. HIDE DEF N
<1>4. N >= 1
  <2>1. Vertices # {}
    OBVIOUS
  <2>. QED
    BY <1>2, <2>1, FS_EmptySet DEF N
<1>5. PICK C \in Bounds : \A k \in Bounds : C <= k
  <2>1. 1000 \in Bounds
    <3>1. ASSUME NEW e \in Edges PROVE c[e] <= 1000
      <4>1. c[e] \in Nat /\ c[e] * N < 1000
        BY <1>3
      <4>2. c[e] * N >= c[e] * 1
        BY <1>2, <1>4, <4>1, SMT
      <4>. QED
        BY <1>2, <4>1, <4>2
    <3>. QED
      BY <3>1
  <2>2. Bounds \in SUBSET Nat /\ Bounds # {}
    BY <2>1
  <2>. HIDE DEF Bounds
  <2>. QED
    BY <2>2, LeastNat
<1>6. C \in Nat /\ \A e \in Edges : c[e] \in Nat /\ c[e] <= C
  BY <1>3, <1>5
<1>7. C * N < 1000
  <2>1. PICK e \in Edges : c[e] = C
    <3>. SUFFICES ASSUME \A e \in Edges : c[e] # C PROVE FALSE
      OBVIOUS
    <3>1. \A e \in Edges : c[e] <= C - 1
      BY <1>6
    <3>2. C - 1 \in Nat
      BY <1>6
    <3>3. C - 1 \in Bounds
      BY <3>1, <3>2
    <3>. QED
      BY <1>5, <1>6, <3>3
  <2>. QED
    BY <1>3, <2>1
<1>8. ASSUME NEW v \in Vertices
      PROVE  IsFiniteSet(Near(v)) /\ Cardinality(Near(v)) \in Nat
  <2>1. Near(v) \in SUBSET Vertices
    OBVIOUS
  <2>. QED
    BY <1>2, <2>1, FS_Subset, FS_CardinalityType
<1>9. ASSUME NEW v \in Vertices PROVE Cardinality(Near(v)) <= N - 1
  <2>1. Near(v) \in SUBSET (Vertices \ {v})
    BY <1>1
  <2>2. IsFiniteSet(Vertices \ {v}) /\ Cardinality(Vertices \ {v}) = N - 1
    BY <1>2, FS_RemoveElement DEF N
  <2>. HIDE DEF Near
  <2>. QED
    BY <2>1, <2>2, FS_Subset
<1>10. ASSUME NEW v \in Vertices, NEW w \in Vertices, D[w] < D[v]
       PROVE  Cardinality(Near(w)) + 1 <= Cardinality(Near(v))
  <2>1. w \in Near(v) /\ Near(w) \in SUBSET (Near(v) \ {w})
    BY <1>1, <1>10
  <2>2. IsFiniteSet(Near(v) \ {w}) /\ Cardinality(Near(v) \ {w}) = Cardinality(Near(v)) - 1
    <3>. HIDE DEF Near
    <3>. QED
      BY <1>8, <2>1, FS_RemoveElement
  <2>3. Cardinality(Near(w)) <= Cardinality(Near(v)) - 1
    <3>. HIDE DEF Near
    <3>. QED
      BY <2>1, <2>2, FS_Subset
  <2>4. Cardinality(Near(v)) \in Nat /\ Cardinality(Near(w)) \in Nat
    BY <1>8
  <2>. HIDE DEF Near
  <2>. QED
    BY <2>3, <2>4
<1>. HIDE DEF Near
<1>. DEFINE Bad == {v \in Vertices : D[v] < 1000 /\ D[v] > C * Cardinality(Near(v))}
<1>11. Bad = {}
  <2>. SUFFICES ASSUME Bad # {} PROVE FALSE
    OBVIOUS
  <2>. DEFINE Q == {D[v] : v \in Bad}
  <2>1. Q \in SUBSET Nat /\ Q # {}
    BY <1>1
  <2>2. PICK m \in Q : \A k \in Q : m <= k
    <3>. HIDE DEF Q
    <3>. QED
      BY <2>1, LeastNat
  <2>3. PICK v \in Bad : \A u \in Bad : D[v] <= D[u]
    BY <2>2
  <2>4. v \in Vertices /\ D[v] \in Nat /\ Cardinality(Near(v)) \in Nat
    BY <1>1, <1>8
  <2>5. C * Cardinality(Near(v)) \in Nat
    BY <1>6, <2>4
  <2>6. v # t
    BY <1>1, <2>4, <2>5
  <2>7. PICK w \in Vertices : <<v, w>> \in Edges /\ D[v] = c[<<v, w>>] + D[w]
    <3>1. D[v] < 1000
      BY <2>3
    <3>. QED
      BY ONLY <1>20, <2>4, <2>6, <3>1
  <2>8. c[<<v, w>>] \in Nat /\ c[<<v, w>>] # 0 /\ c[<<v, w>>] <= C /\ D[w] \in Nat
    BY <1>1, <1>3, <1>6, <2>7
  <2>9. D[w] < D[v] /\ D[w] < 1000
    BY <2>4, <2>7, <2>8
  <2>10. w \notin Bad
    BY <2>3, <2>4, <2>8, <2>9
  <2>11. D[w] <= C * Cardinality(Near(w)) /\ Cardinality(Near(w)) \in Nat
    BY <1>6, <1>8, <2>8, <2>9, <2>10
  <2>12. Cardinality(Near(w)) + 1 <= Cardinality(Near(v))
    BY <1>10, <2>4, <2>9
  <2>13. C * (Cardinality(Near(w)) + 1) <= C * Cardinality(Near(v))
    <3>1. \A x, y, z \in Nat : y <= z => x * y <= x * z
      BY SMT
    <3>. QED
      BY <1>6, <2>4, <2>11, <2>12, <3>1
  <2>14. C * (Cardinality(Near(w)) + 1) = C * Cardinality(Near(w)) + C
    BY <1>6, <2>11
  <2>15. D[v] <= C * Cardinality(Near(v))
    BY <1>6, <2>4, <2>5, <2>7, <2>8, <2>11, <2>13, <2>14
  <2>. QED
    BY <2>4, <2>5, <2>15
<1>12. D[b] <= C * Cardinality(Near(b)) /\ D[b] \in Nat /\ Cardinality(Near(b)) \in Nat
  <2>1. D[b] \in Nat /\ Cardinality(Near(b)) \in Nat
    BY <1>1, <1>8
  <2>2. C * Cardinality(Near(b)) \in Nat
    BY <1>6, <2>1
  <2>. QED
    BY <1>11, <2>1, <2>2
<1>13. C * Cardinality(Near(b)) + C <= C * N
  <2>1. Cardinality(Near(b)) + 1 <= N
    BY <1>2, <1>9, <1>12
  <2>2. \A x, y, z \in Nat : y <= z => x * y <= x * z
    BY SMT
  <2>3. C * (Cardinality(Near(b)) + 1) <= C * N
    BY <1>2, <1>6, <1>12, <2>1, <2>2
  <2>. QED
    BY <1>6, <1>12, <2>3
<1>14. D[a] <= c[<<a, b>>] + D[b] /\ D[a] \in Nat /\ c[<<a, b>>] \in Nat /\ c[<<a, b>>] <= C
  BY <1>1, <1>6
<1>15. C * Cardinality(Near(b)) \in Nat /\ C * N \in Nat
  BY <1>2, <1>6, <1>12
<1>. QED
  BY <1>6, <1>7, <1>12, <1>13, <1>14, <1>15

-----------------------------------------------------------------------------
(* The problem.                                                            *)

LEMMA ProblemFacts ==
    ASSUME problem \in A!Problems
    PROVE  /\ problem.cost \in Costs /\ problem.cost \in [Edges -> Nat \ {0}]
           /\ problem.goal \in Vertices /\ problem.goal \in Goals
           /\ problem.h \in [Vertices -> Nat] /\ problem.hashset \in BOOLEAN
           /\ problem.best = A!ToGoal(Start)
           /\ \A v \in Vertices : /\ A!ToGoal(v) \in Nat /\ A!ToGoal(v) <= 1000
                                  /\ problem.h[v] <= A!ToGoal(v)
<1>1. PICK c \in Costs, t \in Goals :
          \E h \in [Vertices -> Estimates], b \in BOOLEAN :
             /\ problem = [cost |-> c, goal |-> t, best |-> A!Distance(c, t)[Start], h |-> h, hashset |-> b]
             /\ \A v \in Vertices : h[v] <= A!Distance(c, t)[v]
  BY DEF A!Problems
<1>2. PICK h \in [Vertices -> Estimates], b \in BOOLEAN :
          /\ problem = [cost |-> c, goal |-> t, best |-> A!Distance(c, t)[Start], h |-> h, hashset |-> b]
          /\ \A v \in Vertices : h[v] <= A!Distance(c, t)[v]
  BY <1>1
<1>3. /\ c \in [Edges -> Nat \ {0}] /\ t \in Vertices /\ Estimates \subseteq Nat /\ Start \in Vertices
  BY SearchAssumption DEF A!ProblemAssumption
<1>4. A!Distance(c, t) \in [Vertices -> Nat] /\ \A v \in Vertices : A!Distance(c, t)[v] <= 1000
  BY <1>3, DistanceFacts
<1>5. /\ problem.cost = c /\ problem.goal = t /\ problem.best = A!Distance(c, t)[Start] /\ problem.h = h
      /\ problem.hashset = b
  BY <1>2
<1>6. \A v : A!ToGoal(v) = A!Distance(c, t)[v]
  BY <1>5 DEF A!ToGoal
<1>7. h \in [Vertices -> Nat]
  BY <1>3
<1>. QED
  BY <1>2, <1>3, <1>4, <1>5, <1>6, <1>7

(* The distances of the problem at hand.                                   *)
LEMMA ToGoalFacts ==
    ASSUME problem \in A!Problems
    PROVE  /\ A!ToGoal(problem.goal) = 0
           /\ \A v, w \in Vertices : <<v, w>> \in Edges =>
                /\ A!ToGoal(v) <= problem.cost[<<v, w>>] + A!ToGoal(w)
                /\ A!ToGoal(w) < 1000 => A!ToGoal(v) < 1000
           /\ \A v \in Vertices : v # problem.goal /\ A!ToGoal(v) < 1000 =>
                \E w \in Vertices : <<v, w>> \in Edges /\ A!ToGoal(v) = problem.cost[<<v, w>>] + A!ToGoal(w)
<1>1. PICK c \in Costs, t \in Vertices : c = problem.cost /\ t = problem.goal
  BY ProblemFacts
<1>a. PICK D : D = A!Distance(c, t)
  OBVIOUS
<1>2. /\ D[t] = 0
      /\ \A v, w \in Vertices : <<v, w>> \in Edges => D[v] <= c[<<v, w>>] + D[w]
      /\ \A v \in Vertices : v # t /\ D[v] < 1000 =>
           \E w \in Vertices : <<v, w>> \in Edges /\ D[v] = c[<<v, w>>] + D[w]
      /\ \A v, w \in Vertices : <<v, w>> \in Edges /\ D[w] < 1000 => D[v] < 1000
  BY <1>a, DistanceFacts
<1>3. \A v : A!ToGoal(v) = D[v]
  BY <1>1, <1>a DEF A!ToGoal
<1>. QED
  BY <1>1, <1>2, <1>3

LEMMA SuccessorFacts ==
    ASSUME NEW v \in Vertices
    PROVE  /\ A!get_successors(v) \in Seq(Vertices)
           /\ \A w : w \in A!Range(A!get_successors(v)) <=> (w \in Vertices /\ <<v, w>> \in Edges)
<1>. DEFINE ws == {e[2] : e \in {x \in Edges : x[1] = v}}
<1>1. Vertices \subseteq Nat /\ IsFiniteSet(Vertices) /\ Edges \subseteq Vertices \X Vertices
  BY SearchAssumption, SameSize DEF A!ProblemAssumption
<1>2. \A w : w \in ws <=> (w \in Vertices /\ <<v, w>> \in Edges)
  <2>1. ASSUME NEW e \in Edges, e[1] = v PROVE e[2] \in Vertices /\ <<v, e[2]>> \in Edges
    <3>1. e = <<e[1], e[2]>> /\ e[2] \in Vertices
      BY <1>1
    <3>. QED
      BY <2>1, <3>1
  <2>2. ASSUME NEW w \in Vertices, <<v, w>> \in Edges PROVE w \in ws
    <3>1. <<v, w>>[1] = v /\ <<v, w>>[2] = w
      OBVIOUS
    <3>. QED
      BY <2>2, <3>1
  <2>3. \A w \in ws : w \in Vertices /\ <<v, w>> \in Edges
    BY <2>1
  <2>. HIDE DEF ws
  <2>. QED
    BY <2>2, <2>3
<1>3. A!get_successors(v) = A!InOrder(ws)
  BY DEF A!get_successors
<1>. HIDE DEF ws
<1>4. ws \in SUBSET Vertices
  BY <1>2
<1>5. ws \in SUBSET Nat /\ IsFiniteSet(ws)
  BY <1>1, <1>4, FS_Subset
<1>6. A!InOrder(ws) \in Seq(ws) /\ A!Range(A!InOrder(ws)) = ws
  BY <1>5, InOrderFacts
<1>7. A!InOrder(ws) \in Seq(Vertices)
  BY <1>4, <1>6
<1>. QED
  BY <1>2, <1>3, <1>6, <1>7

-----------------------------------------------------------------------------
(* The free list.                                                          *)

LEMMA Prepended ==
    ASSUME NEW ids, NEW s \in Seq(ids), NEW f \in Seq(ids), A!IsInjective(s), A!IsInjective(f),
           A!Range(s) \cap A!Range(f) = {}
    PROVE  /\ s \o f \in Seq(ids) /\ A!IsInjective(s \o f)
           /\ A!Range(s \o f) = A!Range(s) \union A!Range(f)
<1>. DEFINE r == s \o f
<1>1. /\ r \in Seq(ids) /\ Len(s) \in Nat /\ Len(f) \in Nat /\ Len(r) = Len(s) + Len(f)
      /\ DOMAIN s = 1 .. Len(s) /\ DOMAIN f = 1 .. Len(f) /\ DOMAIN r = 1 .. Len(s) + Len(f)
  OBVIOUS
<1>2. /\ \A i \in 1 .. Len(s) : r[i] = s[i]
      /\ \A i \in Len(s) + 1 .. Len(s) + Len(f) : r[i] = f[i - Len(s)]
  OBVIOUS
<1>. HIDE DEF r
<1>3. \A i \in DOMAIN r : i \notin DOMAIN s => i \in Len(s) + 1 .. Len(s) + Len(f) /\ i - Len(s) \in DOMAIN f
  BY <1>1
<1>4. \A i \in DOMAIN f : i + Len(s) \in Len(s) + 1 .. Len(s) + Len(f) /\ (i + Len(s)) - Len(s) = i /\ i + Len(s) \in DOMAIN r
  BY <1>1
<1>5. DOMAIN s \subseteq DOMAIN r
  BY <1>1
<1>6. A!Range(r) = A!Range(s) \union A!Range(f)
  <2>1. \A i \in DOMAIN r : r[i] \in A!Range(s) \union A!Range(f)
    BY <1>1, <1>2, <1>3 DEF A!Range
  <2>2. \A i \in DOMAIN s : s[i] \in A!Range(r)
    BY <1>1, <1>2, <1>5 DEF A!Range
  <2>3. \A i \in DOMAIN f : f[i] \in A!Range(r)
    <3>1. ASSUME NEW i \in DOMAIN f PROVE f[i] \in A!Range(r)
      <4>1. r[i + Len(s)] = f[i] /\ i + Len(s) \in DOMAIN r
        BY <1>2, <1>4
      <4>. QED
        BY <4>1 DEF A!Range
    <3>. QED
      BY <3>1
  <2>. QED
    BY <2>1, <2>2, <2>3 DEF A!Range
<1>7. ASSUME NEW i \in DOMAIN r, NEW j \in DOMAIN r, r[i] = r[j] PROVE i = j
  <2>1. CASE i \in DOMAIN s /\ j \in DOMAIN s
    BY <1>1, <1>2, <1>7, <2>1 DEF A!IsInjective
  <2>2. CASE i \notin DOMAIN s /\ j \notin DOMAIN s
    <3>1. i - Len(s) \in DOMAIN f /\ j - Len(s) \in DOMAIN f /\ f[i - Len(s)] = f[j - Len(s)]
      BY <1>2, <1>3, <1>7, <2>2
    <3>2. i - Len(s) = j - Len(s)
      BY <3>1 DEF A!IsInjective
    <3>. QED
      BY <1>1, <3>2
  <2>3. ASSUME NEW x \in DOMAIN s, NEW y \in DOMAIN r, y \notin DOMAIN s PROVE r[x] # r[y]
    <3>1. r[x] \in A!Range(s) /\ r[y] \in A!Range(f)
      BY <1>1, <1>2, <1>3, <2>3 DEF A!Range
    <3>. QED
      BY <3>1
  <2>. QED
    BY <1>7, <2>1, <2>2, <2>3
<1>. QED
  BY <1>1, <1>6, <1>7 DEF A!IsInjective, r

LEMMA Pushed ==
    ASSUME NEW ids, NEW n \in ids, NEW f \in Seq(ids), A!IsInjective(f), n \notin A!Range(f)
    PROVE  /\ <<n>> \o f \in Seq(ids) /\ A!IsInjective(<<n>> \o f)
           /\ A!Range(<<n>> \o f) = {n} \union A!Range(f)
<1>. DEFINE s == <<n>>
<1>1. s \in Seq(ids) /\ DOMAIN s = {1} /\ s[1] = n
  OBVIOUS
<1>2. A!IsInjective(s) /\ A!Range(s) = {n}
  <2>. HIDE DEF s
  <2>. QED
    BY <1>1 DEF A!IsInjective, A!Range
<1>. HIDE DEF s
<1>3. /\ s \o f \in Seq(ids) /\ A!IsInjective(s \o f) /\ A!Range(s \o f) = A!Range(s) \union A!Range(f)
  BY <1>1, <1>2, Prepended
<1>. QED
  BY <1>2, <1>3 DEF s

LEMMA Popped ==
    ASSUME NEW ids, NEW f \in Seq(ids), A!IsInjective(f), f # <<>>
    PROVE  /\ Head(f) \in ids /\ Head(f) \in A!Range(f)
           /\ Tail(f) \in Seq(ids) /\ A!IsInjective(Tail(f)) /\ A!Range(Tail(f)) = A!Range(f) \ {Head(f)}
<1>1. /\ Len(f) \in Nat /\ Len(f) >= 1 /\ DOMAIN f = 1 .. Len(f) /\ Head(f) = f[1] /\ Head(f) \in ids
      /\ Tail(f) \in Seq(ids) /\ DOMAIN Tail(f) = 1 .. Len(f) - 1
      /\ \A i \in 1 .. Len(f) - 1 : Tail(f)[i] = f[i + 1]
  OBVIOUS
<1>. DEFINE t == Tail(f)
<1>. HIDE DEF t
<1>2. \A i \in DOMAIN t : i + 1 \in DOMAIN f /\ i + 1 # 1 /\ t[i] = f[i + 1]
  BY <1>1 DEF t
<1>3. \A i \in DOMAIN f : i # 1 => i - 1 \in DOMAIN t /\ t[i - 1] = f[i]
  <2>1. ASSUME NEW i \in DOMAIN f, i # 1 PROVE i - 1 \in DOMAIN t /\ t[i - 1] = f[i]
    <3>1. i - 1 \in 1 .. Len(f) - 1 /\ (i - 1) + 1 = i
      BY <1>1, <2>1
    <3>2. t[i - 1] = f[(i - 1) + 1]
      BY <1>1, <3>1 DEF t
    <3>. QED
      BY <1>1, <3>1, <3>2 DEF t
  <2>. QED
    BY <2>1
<1>4. 1 \in DOMAIN f
  BY <1>1
<1>5. A!Range(t) = A!Range(f) \ {f[1]}
  <2>1. \A i \in DOMAIN t : t[i] \in A!Range(f) /\ t[i] # f[1]
    BY <1>2, <1>4 DEF A!Range, A!IsInjective
  <2>2. \A i \in DOMAIN f : f[i] # f[1] => f[i] \in A!Range(t)
    BY <1>3 DEF A!Range
  <2>. QED
    BY <2>1, <2>2 DEF A!Range
<1>6. A!IsInjective(t)
  <2>1. ASSUME NEW i \in DOMAIN t, NEW j \in DOMAIN t, t[i] = t[j] PROVE i = j
    <3>1. i + 1 \in DOMAIN f /\ j + 1 \in DOMAIN f /\ f[i + 1] = f[j + 1]
      BY <1>2, <2>1
    <3>2. i + 1 = j + 1
      BY <3>1 DEF A!IsInjective
    <3>3. i \in Nat /\ j \in Nat
      BY <1>1 DEF t
    <3>. QED
      BY <3>2, <3>3
  <2>. QED
    BY <2>1 DEF A!IsInjective
<1>7. f[1] \in A!Range(f)
  BY <1>4 DEF A!Range
<1>. QED
  BY <1>1, <1>5, <1>6, <1>7 DEF t

-----------------------------------------------------------------------------
(* What the invariant says of a state.                                     *)

LEMMA TypedNodes ==
    ASSUME A!Types
    PROVE  /\ problem \in A!Problems
           /\ A!NodeIds \in SUBSET Nat /\ 1 \in A!NodeIds /\ 2 \in A!NodeIds /\ 0 \notin A!NodeIds
           /\ \A n \in A!NodeIds :
                 /\ A!StateOf(n) \in Vertices /\ A!G(n) \in Nat /\ pool.mem[n] \in A!Nodes
                 /\ pool.mem[n].parent \in A!NodeIds \union {0}
                 /\ pool.mem[n].next \in A!NodeIds \union {0}
                 /\ pool.mem[n].valid \in BOOLEAN
           /\ pool.mem \in [A!NodeIds -> A!Nodes] /\ pool.free \in Seq(A!NodeIds)
           /\ pool = [mem |-> pool.mem, free |-> pool.free]
           /\ open.set \subseteq A!NodeIds /\ open.hash \subseteq A!NodeIds /\ closed \subseteq A!NodeIds
           /\ open = [set |-> open.set, heap |-> open.heap, hash |-> open.hash] /\ open.heap = TRUE
           /\ A!Current \subseteq A!NodeIds /\ A!Known \subseteq A!NodeIds /\ A!Live \subseteq A!Known
           /\ A!Allocated \subseteq A!NodeIds
<1>1. MaxNodes \in Nat /\ MaxNodes >= 2
  <2>1. IsFiniteSet(Vertices) /\ MaxNodes \in Nat /\ MaxNodes > Cardinality(Vertices) + 1
    BY SearchAssumption, SameSize DEF A!ProblemAssumption
  <2>2. Cardinality(Vertices) \in Nat
    BY <2>1, FS_CardinalityType
  <2>. QED
    BY <2>1, <2>2
<1>2. A!NodeIds \in SUBSET Nat /\ 1 \in A!NodeIds /\ 2 \in A!NodeIds /\ 0 \notin A!NodeIds
  BY <1>1 DEF A!NodeIds
<1>3. pool \in [mem : [A!NodeIds -> A!Nodes], free : Seq(A!NodeIds)]
  BY DEF A!Types
<1>4. pool.mem \in [A!NodeIds -> A!Nodes] /\ pool.free \in Seq(A!NodeIds) /\ pool = [mem |-> pool.mem, free |-> pool.free]
  BY <1>3
<1>5. ASSUME NEW n \in A!NodeIds
      PROVE  /\ A!StateOf(n) \in Vertices /\ A!G(n) \in Nat /\ pool.mem[n] \in A!Nodes
             /\ pool.mem[n].parent \in A!NodeIds \union {0}
             /\ pool.mem[n].next \in A!NodeIds \union {0}
             /\ pool.mem[n].valid \in BOOLEAN
  <2>1. pool.mem[n] \in A!Nodes
    BY <1>4
  <2>. QED
    BY <2>1 DEF A!Nodes, A!StateOf, A!G, A!null
<1>6. open \in [set : SUBSET A!NodeIds, heap : {TRUE}, hash : SUBSET A!NodeIds]
  BY DEF A!Types
<1>7. /\ open.set \subseteq A!NodeIds /\ open.hash \subseteq A!NodeIds
      /\ open = [set |-> open.set, heap |-> open.heap, hash |-> open.hash] /\ open.heap = TRUE
  BY <1>6
<1>8. closed \subseteq A!NodeIds /\ problem \in A!Problems
  BY DEF A!Types
<1>9. A!Current \subseteq A!NodeIds
  <2>1. cursor.at = "successors" => cursor.node \in A!NodeIds
    BY DEF A!Types, A!Cursors
  <2>. QED
    BY <2>1 DEF A!Current
<1>10. A!Known \subseteq A!NodeIds /\ A!Live \subseteq A!Known
  BY <1>7, <1>8, <1>9 DEF A!Known, A!Live
<1>11. A!Allocated \subseteq A!NodeIds
  BY DEF A!Allocated
<1>. QED
  BY <1>2, <1>4, <1>5, <1>7, <1>8, <1>9, <1>10, <1>11

(* At the top of the loop some valid open node lies on a shortest path: of  *)
(* the valid nodes that do, the nearest to the goal has not been explored.  *)
LEMMA Frontier ==
    ASSUME A!Inv, status = "RUNNING", cursor.at = "top", problem.best < 1000
    PROVE  \E n \in A!Live : n \in open.set /\ A!G(n) + A!ToGoal(A!StateOf(n)) = problem.best
<1>. DEFINE Tight == {n \in A!Live : A!G(n) + A!ToGoal(A!StateOf(n)) = problem.best}
            Q == {A!ToGoal(A!StateOf(n)) : n \in Tight}
<1>1. A!Types /\ A!Books /\ A!Scores /\ A!Expanded
  BY DEF A!Inv
<1>2. /\ problem \in A!Problems /\ \A n \in A!NodeIds : A!StateOf(n) \in Vertices /\ A!G(n) \in Nat
      /\ A!Known \subseteq A!NodeIds /\ A!Live \subseteq A!Known
  BY <1>1, TypedNodes
<1>3. \A n \in A!Live : /\ A!G(n) \in Nat /\ A!StateOf(n) \in Vertices /\ A!ToGoal(A!StateOf(n)) \in Nat
                        /\ n \in A!Known
  BY <1>2, ProblemFacts
<1>4. problem.best = A!ToGoal(Start) /\ problem.best \in Nat
  <2>1. Start \in Vertices
    BY SearchAssumption DEF A!ProblemAssumption
  <2>. QED
    BY <1>2, <2>1, ProblemFacts
<1>5. 1 \in Tight
  BY <1>1, <1>4 DEF A!Scores, A!start_
<1>6. Q \in SUBSET Nat /\ Q # {}
  BY <1>3, <1>5
<1>7. PICK m \in Q : \A k \in Q : m <= k
  <2>. HIDE DEF Q
  <2>. QED
    BY <1>6, LeastNat
<1>8. PICK n \in Tight : \A k \in Tight : A!ToGoal(A!StateOf(n)) <= A!ToGoal(A!StateOf(k))
  BY <1>7
<1>9. n \in A!Live /\ A!G(n) + A!ToGoal(A!StateOf(n)) = problem.best
  BY <1>8
<1>10. SUFFICES ASSUME n \notin open.set PROVE FALSE
  BY <1>9
<1>11. n \in closed
  BY <1>9, <1>10, <1>3 DEF A!Known, A!Current
<1>12. A!StateOf(n) # problem.goal
  BY <1>1, <1>11 DEF A!Scores
<1>13. A!ToGoal(A!StateOf(n)) < 1000
  BY <1>3, <1>4, <1>9
<1>14. PICK w \in Vertices : /\ <<A!StateOf(n), w>> \in Edges
                             /\ A!ToGoal(A!StateOf(n)) = problem.cost[<<A!StateOf(n), w>>] + A!ToGoal(w)
  <2>1. \A v \in Vertices : v # problem.goal /\ A!ToGoal(v) < 1000 =>
          \E w \in Vertices : <<v, w>> \in Edges /\ A!ToGoal(v) = problem.cost[<<v, w>>] + A!ToGoal(w)
    BY <1>2, ToGoalFacts, Zenon
  <2>2. A!StateOf(n) \in Vertices
    BY <1>3, <1>9
  <2>. QED
    BY ONLY <1>12, <1>13, <2>1, <2>2, Zenon
<1>15. PICK k \in A!Live : A!StateOf(k) = w /\ A!G(k) <= A!G(n) + problem.cost[<<A!StateOf(n), w>>]
  <2>1. A!Searching /\ n \notin A!Current
    BY DEF A!Searching, A!Current
  <2>. QED
    BY <1>1, <1>11, <1>14, <2>1 DEF A!Expanded
<1>16. problem.best <= A!G(k) + A!ToGoal(w)
  <2>1. problem.best <= A!G(k) + A!ToGoal(A!StateOf(k))
    <3>1. \A i \in A!Known : problem.best <= A!G(i) + A!ToGoal(A!StateOf(i))
      BY <1>1 DEF A!Scores
    <3>. QED
      BY <1>3, <3>1
  <2>. QED
    BY <1>15, <2>1
<1>17. /\ problem.cost[<<A!StateOf(n), w>>] \in Nat \ {0} /\ A!ToGoal(w) \in Nat
       /\ A!G(k) \in Nat /\ A!G(n) \in Nat
  BY <1>2, <1>3, <1>9, <1>14, <1>15, ProblemFacts
<1>18. A!G(k) + A!ToGoal(w) = problem.best
  BY <1>4, <1>9, <1>14, <1>15, <1>16, <1>17
<1>19. k \in Tight /\ A!ToGoal(A!StateOf(k)) < A!ToGoal(A!StateOf(n))
  BY <1>14, <1>15, <1>17, <1>18
<1>20. A!ToGoal(A!StateOf(n)) \in Nat /\ A!ToGoal(A!StateOf(k)) \in Nat
  BY <1>3, <1>9
<1>. HIDE DEF Tight
<1>. QED
  BY <1>8, <1>19, <1>20

-----------------------------------------------------------------------------
(* Init and the steps that leave the nodes as they are.                    *)

LEMMA SearchInit ==
    ASSUME A!Init, A!Proper
    PROVE  A!Inv
<1>1. /\ problem \in A!Problems /\ problem.goal \in Vertices /\ problem.goal \in Goals /\ problem.hashset \in BOOLEAN
      /\ problem.best = A!ToGoal(Start) /\ \A v \in Vertices : A!ToGoal(v) \in Nat /\ A!ToGoal(v) <= 1000
  BY ProblemFacts DEF A!Init
<1>2. Start \in Vertices /\ Start # problem.goal /\ MaxNodes \in Nat /\ MaxNodes >= 3
  <2>1. IsFiniteSet(Vertices) /\ MaxNodes \in Nat /\ MaxNodes > Cardinality(Vertices) + 1 /\ Start \in Vertices
    BY SearchAssumption, SameSize DEF A!ProblemAssumption
  <2>2. Cardinality(Vertices) \in Nat /\ Cardinality(Vertices) # 0
    BY <2>1, FS_CardinalityType, FS_EmptySet
  <2>. QED
    BY <1>1, <2>1, <2>2 DEF A!Proper
<1>3. 1 \in A!NodeIds /\ 2 \in A!NodeIds /\ 3 \in A!NodeIds /\ 0 \notin A!NodeIds /\ A!NodeIds \in SUBSET Nat
  BY <1>2 DEF A!NodeIds
<1>. DEFINE all == [i \in A!NodeIds |-> i]
            fresh == [n \in A!NodeIds |-> A!Node(Start)]
<1>4. all \in Seq(A!NodeIds) /\ all # <<>> /\ A!IsInjective(all) /\ A!Range(all) = A!NodeIds /\ Head(all) = 1
  <2>1. all \in Seq(A!NodeIds) /\ Len(all) = MaxNodes /\ DOMAIN all = A!NodeIds
    BY <1>2 DEF A!NodeIds
  <2>. QED
    BY <1>2, <1>3, <2>1 DEF A!IsInjective, A!Range
<1>5. /\ Tail(all) \in Seq(A!NodeIds) /\ A!IsInjective(Tail(all)) /\ A!Range(Tail(all)) = A!NodeIds \ {1}
      /\ Tail(all) # <<>> /\ Head(Tail(all)) = 2
  <2>1. Tail(all) \in Seq(A!NodeIds) /\ A!IsInjective(Tail(all)) /\ A!Range(Tail(all)) = A!NodeIds \ {1}
    <3>. HIDE DEF all
    <3>. QED
      BY <1>4, Popped
  <2>2. Len(all) = MaxNodes /\ all[2] = 2
    BY <1>2, <1>3 DEF A!NodeIds
  <2>3. Len(Tail(all)) = MaxNodes - 1 /\ Tail(all)[1] = all[2]
    <3>. HIDE DEF all
    <3>. QED
      BY <1>2, <1>4, <2>2
  <2>4. Head(Tail(all)) = Tail(all)[1] /\ Tail(all) # <<>>
    <3>1. PICK t \in Seq(A!NodeIds) : t = Tail(all)
      BY <2>1
    <3>2. Len(t) = MaxNodes - 1
      BY <2>3, <3>1
    <3>3. Len(t) >= 2
      BY <1>2, <3>2
    <3>4. Head(t) = t[1] /\ t # <<>>
      BY <3>3
    <3>. QED
      BY <3>1, <3>4
  <2>. QED
    BY <2>1, <2>2, <2>3, <2>4
<1>6. /\ Tail(Tail(all)) \in Seq(A!NodeIds) /\ A!IsInjective(Tail(Tail(all)))
      /\ A!Range(Tail(Tail(all))) = (A!NodeIds \ {1}) \ {2}
  <2>. HIDE DEF all
  <2>. QED
    BY <1>5, Popped
<1>7. /\ pool.free = Tail(Tail(all))
      /\ pool.mem = [[fresh EXCEPT ![1] = A!Node(Start)] EXCEPT ![2] = A!Node(problem.goal)]
      /\ pool = [mem |-> pool.mem, free |-> pool.free]
  <2>1. A!NodePool = [mem |-> fresh, free |-> all]
    BY DEF A!NodePool
  <2>. HIDE DEF all, fresh
  <2>2. A!create_node(A!NodePool, A!Node(Start)) = [mem |-> [fresh EXCEPT ![1] = A!Node(Start)], free |-> Tail(all)]
    BY <1>4, <2>1 DEF A!create_node, A!allocate
  <2>3. A!create_node(A!create_node(A!NodePool, A!Node(Start)), A!Node(problem.goal))
        = [mem |-> [[fresh EXCEPT ![1] = A!Node(Start)] EXCEPT ![2] = A!Node(problem.goal)], free |-> Tail(Tail(all))]
    BY <1>5, <2>2 DEF A!create_node, A!allocate
  <2>. QED
    BY <2>3 DEF A!Init
<1>. HIDE DEF all
<1>8. \A v \in Vertices : A!Node(v) \in A!Nodes
  BY DEF A!Node, A!Nodes, A!null
<1>9. fresh \in [A!NodeIds -> A!Nodes]
  BY <1>2, <1>8
<1>10. /\ pool.mem \in [A!NodeIds -> A!Nodes]
       /\ pool.mem[1] = A!Node(Start) /\ pool.mem[2] = A!Node(problem.goal)
  <2>. HIDE DEF fresh
  <2>. QED
    BY <1>1, <1>2, <1>3, <1>7, <1>8, <1>9
<1>11. /\ status = "RUNNING" /\ cursor = [at |-> "top"] /\ closed = {} /\ open.set = {1} /\ open.heap = TRUE
       /\ open.hash = (IF problem.hashset THEN {1} ELSE {}) /\ solution_cost = 1000 /\ cancelled = FALSE
       /\ open = [set |-> {1}, heap |-> TRUE, hash |-> IF problem.hashset THEN {1} ELSE {}]
  BY DEF A!Init, A!start_, A!Infinity
<1>12. A!Types
  <2>1. pool \in [mem : [A!NodeIds -> A!Nodes], free : Seq(A!NodeIds)]
    BY <1>6, <1>7, <1>10
  <2>2. open \in [set : SUBSET A!NodeIds, heap : {TRUE}, hash : SUBSET A!NodeIds]
    BY <1>3, <1>11
  <2>3. cursor \in A!Cursors
    BY <1>11 DEF A!Cursors
  <2>4. solution_cost \in Nat /\ closed \subseteq A!NodeIds
    BY <1>11
  <2>5. cancelled \in BOOLEAN
    BY Zenon, <1>11
  <2>. QED
    BY <1>1, <1>11, <2>1, <2>2, <2>3, <2>4, <2>5 DEF A!Types
<1>13. /\ A!StateOf(1) = Start /\ A!G(1) = 0 /\ pool.mem[1].parent = 0 /\ pool.mem[1].next = 0 /\ pool.mem[1].valid
       /\ A!StateOf(2) = problem.goal /\ pool.mem[2].next = 0
  BY <1>10 DEF A!Node, A!StateOf, A!G, A!null
<1>14. A!Current = {} /\ A!Known = {1} /\ A!Live = {1} /\ cursor.at = "top"
  <2>1. A!Current = {} /\ cursor.at = "top"
    BY <1>11 DEF A!Current
  <2>2. A!Known = {1}
    BY <1>11, <2>1 DEF A!Known
  <2>3. A!Live = {1}
    BY Zenon, <1>13, <2>2 DEF A!Live
  <2>. QED
    BY <2>1, <2>2, <2>3
<1>15. A!Allocated = {1, 2}
  BY <1>3, <1>6, <1>7 DEF A!Allocated
<1>16. A!Books
  BY <1>6, <1>7, <1>11, <1>14, <1>15 DEF A!Books, A!goal_
<1>17. A!Scores
  <2>1. A!ToGoal(Start) \in Nat /\ problem.best <= A!G(1) + A!ToGoal(A!StateOf(1))
    BY <1>1, <1>2, <1>13
  <2>. QED
    BY <1>1, <1>2, <1>11, <1>13, <1>14, <2>1 DEF A!Scores, A!start_, A!goal_, A!null
<1>18. A!Parents /\ A!Expanded /\ A!PathSoFar /\ A!PathFound /\ A!FailureMeansUnreachable
  BY <1>11, <1>13, <1>14 DEF A!Parents, A!Expanded, A!PathSoFar, A!PathFound, A!FailureMeansUnreachable, A!start_, A!null
<1>. QED
  BY <1>12, <1>16, <1>17, <1>18 DEF A!Inv

(* A step that leaves the nodes, the problem and the start alone leaves     *)
(* what is said of each of them.                                           *)
LEMMA SameProblem ==
    ASSUME problem' = problem
    PROVE  \A v : A!ToGoal(v)' = A!ToGoal(v)
BY DEF A!ToGoal

LEMMA SameNodes ==
    ASSUME pool'.mem = pool.mem
    PROVE  \A n : A!StateOf(n)' = A!StateOf(n) /\ A!G(n)' = A!G(n)
BY DEF A!StateOf, A!G

LEMMA Freed ==
    ASSUME NEW m, NEW f, NEW g
    PROVE  [[mem |-> m, free |-> f] EXCEPT !.free = g] = [mem |-> m, free |-> g]
OBVIOUS

(* destroy_nodes on the free list.                                          *)
LEMMA Destroyed ==
    ASSUME NEW p, NEW ns \in SUBSET A!NodeIds,
           p = [mem |-> p.mem, free |-> p.free], p.free \in Seq(A!NodeIds), A!IsInjective(p.free),
           ns \cap A!Range(p.free) = {}
    PROVE  LET r == A!destroy_nodes(p, ns)
           IN  /\ r = [mem |-> p.mem, free |-> r.free] /\ r.mem = p.mem
               /\ r.free \in Seq(A!NodeIds) /\ A!IsInjective(r.free)
               /\ A!Range(r.free) = ns \union A!Range(p.free)
<1>. DEFINE s == A!InOrder(ns)
            r == A!destroy_nodes(p, ns)
<1>1. A!NodeIds \in SUBSET Nat /\ IsFiniteSet(A!NodeIds)
  <2>1. MaxNodes \in Nat
    BY SearchAssumption DEF A!ProblemAssumption
  <2>2. 1 \in Int /\ MaxNodes \in Int
    BY <2>1
  <2>. QED
    <3>1. IsFiniteSet(1 .. MaxNodes)
      BY <2>2, FS_Interval
    <3>. QED
      BY <2>1, <3>1 DEF A!NodeIds
<1>2. ns \in SUBSET Nat /\ IsFiniteSet(ns)
  BY <1>1, FS_Subset
<1>3. s \in Seq(ns) /\ A!IsInjective(s) /\ A!Range(s) = ns
  BY <1>2, InOrderFacts
<1>4. r = [mem |-> p.mem, free |-> s \o p.free]
  <2>1. PICK m, f : p = [mem |-> m, free |-> f] /\ m = p.mem /\ f = p.free
    OBVIOUS
  <2>2. A!destroy_nodes(p, ns) = [p EXCEPT !.free = s \o p.free]
    BY DEF A!destroy_nodes
  <2>. HIDE DEF s, r
  <2>3. [[mem |-> m, free |-> f] EXCEPT !.free = s \o f] = [mem |-> m, free |-> s \o f]
    BY Freed
  <2>. QED
    BY <2>1, <2>2, <2>3 DEF r
<1>5. s \in Seq(A!NodeIds)
  <2>. HIDE DEF s
  <2>. QED
    BY <1>3
<1>6. /\ s \o p.free \in Seq(A!NodeIds) /\ A!IsInjective(s \o p.free)
      /\ A!Range(s \o p.free) = ns \union A!Range(p.free)
  <2>. HIDE DEF s
  <2>. QED
    BY <1>3, <1>5, Prepended
<1>. HIDE DEF s
<1>7. r.free = s \o p.free /\ r.mem = p.mem /\ r = [mem |-> p.mem, free |-> r.free]
  BY <1>4
<1>. HIDE DEF r
<1>8. /\ r = [mem |-> p.mem, free |-> r.free] /\ r.mem = p.mem
      /\ r.free \in Seq(A!NodeIds) /\ A!IsInjective(r.free)
      /\ A!Range(r.free) = ns \union A!Range(p.free)
  BY <1>6, <1>7
<1>. QED
  BY <1>8 DEF r

LEMMA DestroyedOne ==
    ASSUME NEW p, NEW n \in A!NodeIds,
           p = [mem |-> p.mem, free |-> p.free], p.free \in Seq(A!NodeIds), A!IsInjective(p.free),
           n \notin A!Range(p.free)
    PROVE  LET r == A!destroy_node(p, n)
           IN  /\ r = [mem |-> p.mem, free |-> r.free] /\ r.mem = p.mem
               /\ r.free \in Seq(A!NodeIds) /\ A!IsInjective(r.free)
               /\ A!Range(r.free) = {n} \union A!Range(p.free)
<1>. DEFINE r == A!destroy_node(p, n)
<1>1. r = [mem |-> p.mem, free |-> <<n>> \o p.free]
  <2>1. PICK m, f : p = [mem |-> m, free |-> f] /\ m = p.mem /\ f = p.free
    OBVIOUS
  <2>2. A!destroy_node(p, n) = [p EXCEPT !.free = <<n>> \o p.free]
    BY DEF A!destroy_node, A!deallocate
  <2>. HIDE DEF r
  <2>. DEFINE g == <<n>> \o f
  <2>. HIDE DEF g
  <2>3. [[mem |-> m, free |-> f] EXCEPT !.free = g] = [mem |-> m, free |-> g]
    BY Freed
  <2>. QED
    BY <2>1, <2>2, <2>3 DEF r, g
<1>2. /\ <<n>> \o p.free \in Seq(A!NodeIds) /\ A!IsInjective(<<n>> \o p.free)
      /\ A!Range(<<n>> \o p.free) = {n} \union A!Range(p.free)
  BY Pushed
<1>3. r.free = <<n>> \o p.free /\ r.mem = p.mem /\ r = [mem |-> p.mem, free |-> r.free]
  BY <1>1
<1>. HIDE DEF r
<1>4. /\ r = [mem |-> p.mem, free |-> r.free] /\ r.mem = p.mem
      /\ r.free \in Seq(A!NodeIds) /\ A!IsInjective(r.free)
      /\ A!Range(r.free) = {n} \union A!Range(p.free)
  BY <1>2, <1>3
<1>. QED
  BY <1>4 DEF r

(* step() gives up: no node is left, or the user cancels.                   *)
LEMMA GiveUpStep ==
    ASSUME A!Inv, A!Exhausted \/ A!Cancelled
    PROVE  A!Inv'
<1>0. A!give_up /\ cancelled' \in BOOLEAN /\ (cancelled' \/ (A!open_empty /\ cancelled' = cancelled))
  BY Zenon DEF A!Exhausted, A!Cancelled, A!Inv, A!Types
<1>1. /\ status = "RUNNING" /\ cursor.at = "top" /\ pool' = A!free_all_nodes(pool)
      /\ open' = [open EXCEPT !.set = {}, !.hash = {}] /\ closed' = {} /\ status' = "FAILURE"
      /\ problem' = problem /\ cursor' = cursor /\ solution_cost' = solution_cost
  BY <1>0 DEF A!give_up
<1>2. A!Types /\ A!Books /\ A!Scores
  BY DEF A!Inv
<1>3. A!Current = {} /\ A!Known = open.set \union closed
  BY <1>1 DEF A!Current, A!Known
<1>4. /\ A!Allocated = {2} \union (open.set \union closed) /\ 2 \notin open.set \union closed
      /\ A!IsInjective(pool.free)
  BY <1>1, <1>2, <1>3 DEF A!Books, A!goal_
<1>. DEFINE ns == open.set \union closed
            p == A!destroy_nodes(pool, ns)
<1>5. /\ ns \in SUBSET A!NodeIds /\ 2 \in A!NodeIds /\ pool.mem \in [A!NodeIds -> A!Nodes]
      /\ pool.free \in Seq(A!NodeIds) /\ pool = [mem |-> pool.mem, free |-> pool.free]
      /\ open = [set |-> open.set, heap |-> open.heap, hash |-> open.hash] /\ open.heap = TRUE
  BY <1>2, TypedNodes
<1>6. A!Range(pool.free) \cap ({2} \union ns) = {} /\ A!NodeIds \ A!Range(pool.free) = {2} \union ns
  BY <1>4 DEF A!Allocated
<1>7. /\ p = [mem |-> p.mem, free |-> p.free] /\ p.mem = pool.mem
      /\ p.free \in Seq(A!NodeIds) /\ A!IsInjective(p.free)
      /\ A!Range(p.free) = ns \union A!Range(pool.free)
  <2>. HIDE DEF ns
  <2>. QED
    BY <1>4, <1>5, <1>6, Destroyed
<1>8. pool' = A!destroy_node(p, 2)
  BY <1>1 DEF A!free_all_nodes, A!goal_
<1>. HIDE DEF p
<1>9. /\ pool' = [mem |-> pool.mem, free |-> pool'.free] /\ pool'.mem = pool.mem
      /\ pool'.free \in Seq(A!NodeIds) /\ A!IsInjective(pool'.free)
      /\ A!Range(pool'.free) = {2} \union ns \union A!Range(pool.free)
  <2>1. 2 \notin A!Range(p.free)
    BY <1>4, <1>6, <1>7
  <2>. DEFINE r == A!destroy_node(p, 2)
  <2>2. /\ r = [mem |-> p.mem, free |-> r.free] /\ r.mem = p.mem
        /\ r.free \in Seq(A!NodeIds) /\ A!IsInjective(r.free)
        /\ A!Range(r.free) = {2} \union A!Range(p.free)
    BY <1>5, <1>7, <2>1, DestroyedOne
  <2>. HIDE DEF ns, r
  <2>3. pool' = r
    BY <1>8 DEF r
  <2>. QED
    BY <1>7, <2>2, <2>3
<1>10. A!Allocated' = {}
  BY <1>6, <1>9 DEF A!Allocated
<1>11. A!Current' = {} /\ A!Known' = {} /\ open'.set = {} /\ open'.hash = {}
       /\ open' \in [set : SUBSET A!NodeIds, heap : {TRUE}, hash : SUBSET A!NodeIds]
  <2>1. PICK o, h, t : open = [set |-> o, heap |-> t, hash |-> h] /\ t = TRUE
    BY <1>5
  <2>2. open' = [set |-> {}, heap |-> t, hash |-> {}] /\ t = TRUE
    BY <1>1, <2>1
  <2>3. A!Current' = {}
    BY <1>1 DEF A!Current
  <2>4. open'.set = {} /\ open'.hash = {} /\ open' \in [set : SUBSET A!NodeIds, heap : {TRUE}, hash : SUBSET A!NodeIds]
    BY <2>2
  <2>. QED
    BY <1>1, <2>3, <2>4 DEF A!Known
<1>12. A!Types'
  <2>1. pool' \in [mem : [A!NodeIds -> A!Nodes], free : Seq(A!NodeIds)]
    BY <1>5, <1>9
  <2>. QED
    BY <1>0, <1>1, <1>2, <1>11, <2>1 DEF A!Types
<1>13. A!Books'
  BY <1>1, <1>9, <1>10 DEF A!Books
<1>14. A!Scores' /\ A!Parents' /\ A!Expanded' /\ A!PathSoFar' /\ A!PathFound'
  BY <1>1 DEF A!Scores, A!Parents, A!Expanded, A!Searching, A!PathSoFar, A!PathFound
<1>15. A!FailureMeansUnreachable'
  <2>1. CASE cancelled'
    BY Zenon, <2>1 DEF A!FailureMeansUnreachable
  <2>2. CASE A!open_empty
    <3>1. problem.best <= 1000 /\ problem.best \in Nat
      <4>1. Start \in Vertices
        BY SearchAssumption DEF A!ProblemAssumption
      <4>. QED
        BY <1>2, <4>1, TypedNodes, ProblemFacts
    <3>2. \A n \in A!Live : n \notin open.set
      <4>1. CASE problem.hashset
        <5>1. open.hash = open.set \cap A!Live
          BY <1>1, <1>2, <4>1 DEF A!Books
        <5>2. open.hash = {}
          BY <2>2, <4>1 DEF A!open_empty
        <5>. QED
          BY <5>1, <5>2
      <4>2. CASE ~problem.hashset
        BY <2>2, <4>2 DEF A!open_empty
      <4>. QED
        BY <4>1, <4>2
    <3>3. problem.best = 1000
      BY <1>1, <3>1, <3>2, Frontier
    <3>. QED
      BY <1>1, <3>3 DEF A!FailureMeansUnreachable, A!Infinity
  <2>. QED
    BY <1>0, <2>1, <2>2
<1>. QED
  BY <1>12, <1>13, <1>14, <1>15 DEF A!Inv

-----------------------------------------------------------------------------
(* The steps that pop a node.                                              *)

LEMMA OpenLess ==
    ASSUME NEW o, NEW t, NEW h, NEW a
    PROVE  [[set |-> o, heap |-> t, hash |-> h] EXCEPT !.set = a] = [set |-> a, heap |-> t, hash |-> h]
OBVIOUS

LEMMA OpenLeft ==
    ASSUME NEW o, NEW t, NEW h, NEW a, NEW b, NEW x,
           x = [[set |-> o, heap |-> t, hash |-> h] EXCEPT !.set = a, !.hash = b]
    PROVE  x = [set |-> a, heap |-> t, hash |-> b]
<1>1. DOMAIN x = {"set", "heap", "hash"} /\ x = [i \in DOMAIN x |-> x[i]]
  OBVIOUS
<1>2. x["set"] = a /\ x["heap"] = t /\ x["hash"] = b
  OBVIOUS
<1>. DEFINE y == [set |-> a, heap |-> t, hash |-> b]
<1>3. DOMAIN y = {"set", "heap", "hash"} /\ y = [i \in DOMAIN y |-> y[i]]
  OBVIOUS
<1>4. y["set"] = a /\ y["heap"] = t /\ y["hash"] = b
  OBVIOUS
<1>. HIDE DEF y
<1>5. x = y
  BY <1>1, <1>2, <1>3, <1>4
<1>. QED
  BY <1>5 DEF y

(* pop_open: a valid node of the least score, and the invalid ones that had *)
(* to be skipped, none of them of a greater score.                          *)
LEMMA PopOpenFacts ==
    ASSUME A!Inv, status = "RUNNING", cursor.at = "top", NEW top \in A!pop_open(pool, open)
    PROVE  \E n \in A!Live, s \in SUBSET open.set :
              /\ n = top.node /\ n \in open.set /\ s \cap A!Live = {}
              /\ \A k \in s : A!f_score(pool, k) <= A!f_score(pool, n)
              /\ \A k \in A!Live : k \in open.set => A!f_score(pool, n) <= A!f_score(pool, k)
              /\ top.pool = [mem |-> pool.mem, free |-> top.pool.free] /\ top.pool.mem = pool.mem
              /\ top.pool.free \in Seq(A!NodeIds) /\ A!IsInjective(top.pool.free)
              /\ A!Range(top.pool.free) = s \union A!Range(pool.free)
              /\ top.open = [set |-> (open.set \ {n}) \ s, heap |-> open.heap, hash |-> open.hash \ {n}]
<1>1. A!Types /\ A!Books
  BY DEF A!Inv
<1>2. /\ pool.mem \in [A!NodeIds -> A!Nodes]
      /\ pool.free \in Seq(A!NodeIds) /\ pool = [mem |-> pool.mem, free |-> pool.free]
      /\ open = [set |-> open.set, heap |-> open.heap, hash |-> open.hash] /\ open.heap = TRUE
      /\ open.set \subseteq A!NodeIds
  BY <1>1, TypedNodes
<1>3. /\ A!IsInjective(pool.free) /\ A!Allocated = {2} \union A!Known
      /\ open.hash = (IF problem.hashset THEN open.set \cap A!Live ELSE {})
      /\ ~problem.hashset => open.set \subseteq A!Live
  BY <1>1 DEF A!Books, A!goal_
<1>4. open.set \subseteq A!Known /\ A!Live = {n \in A!Known : pool.mem[n].valid}
  BY DEF A!Known, A!Live
<1>5. open.set \cap A!Range(pool.free) = {}
  BY <1>3, <1>4 DEF A!Allocated
<1>6. PICK o, h, t : o = open.set /\ h = open.hash /\ t = open.heap /\ open = [set |-> o, heap |-> t, hash |-> h]
  BY <1>2
<1>7. CASE problem.hashset
  <2>0. PICK n \in {k \in open.hash : \A l \in open.hash : A!f_score(pool, k) <= A!f_score(pool, l)} :
          \E s \in A!Skipped(pool, open, n) :
             top = [node |-> n, pool |-> A!destroy_nodes(pool, s),
                    open |-> [open EXCEPT !.set = (@ \ {n}) \ s, !.hash = @ \ {n}]]
    BY <1>7 DEF A!pop_open
  <2>1. PICK s \in A!Skipped(pool, open, n) :
          top = [node |-> n, pool |-> A!destroy_nodes(pool, s),
                 open |-> [open EXCEPT !.set = (@ \ {n}) \ s, !.hash = @ \ {n}]]
    BY <2>0
  <2>2. n \in open.set /\ n \in A!Live /\ open.hash = open.set \cap A!Live
    BY <1>3, <1>7, <2>0
  <2>3. /\ s \in SUBSET open.set /\ \A k \in s : ~pool.mem[k].valid
        /\ \A k \in s : A!f_score(pool, k) < A!f_score(pool, n) \/ A!f_score(pool, k) = A!f_score(pool, n)
    BY <2>1 DEF A!Skipped
  <2>4. s \cap A!Live = {}
    BY Zenon, <1>4, <2>3
  <2>5. \A k \in s : A!f_score(pool, k) <= A!f_score(pool, n)
    <3>1. \A k \in A!NodeIds : A!f_score(pool, k) \in Int
      <4>1. \A k \in A!NodeIds : pool.mem[k].g_score \in Nat /\ pool.mem[k].state \in Vertices
        BY <1>1, TypedNodes DEF A!StateOf, A!G
      <4>2. problem.h \in [Vertices -> Nat]
        BY <1>1, TypedNodes, ProblemFacts
      <4>. QED
        BY <4>1, <4>2 DEF A!f_score, A!heuristic
    <3>2. n \in A!NodeIds /\ s \subseteq A!NodeIds
      BY <1>2, <2>2, <2>3
    <3>. QED
      BY <2>3, <3>1, <3>2
  <2>6. s \in SUBSET A!NodeIds /\ s \cap A!Range(pool.free) = {}
    BY <1>2, <1>5, <2>3
  <2>. DEFINE r == A!destroy_nodes(pool, s)
  <2>7. /\ r = [mem |-> pool.mem, free |-> r.free] /\ r.mem = pool.mem
        /\ r.free \in Seq(A!NodeIds) /\ A!IsInjective(r.free)
        /\ A!Range(r.free) = s \union A!Range(pool.free)
    BY <1>2, <1>3, <2>6, Destroyed
  <2>8. [open EXCEPT !.set = (@ \ {n}) \ s, !.hash = @ \ {n}]
        = [set |-> (open.set \ {n}) \ s, heap |-> open.heap, hash |-> open.hash \ {n}]
    <3>. DEFINE a == (o \ {n}) \ s
                b == h \ {n}
    <3>1. [open EXCEPT !.set = (@ \ {n}) \ s, !.hash = @ \ {n}]
          = [[set |-> o, heap |-> t, hash |-> h] EXCEPT !.set = a, !.hash = b]
      BY <1>6
    <3>. HIDE DEF a, b
    <3>a. PICK x : x = [[set |-> o, heap |-> t, hash |-> h] EXCEPT !.set = a, !.hash = b]
      OBVIOUS
    <3>2. x = [set |-> a, heap |-> t, hash |-> b]
      BY <3>a, OpenLeft
    <3>. QED
      BY <1>6, <3>1, <3>a, <3>2 DEF a, b
  <2>. HIDE DEF r
  <2>9. top.node = n /\ top.pool = r /\ top.open = [set |-> (open.set \ {n}) \ s, heap |-> open.heap, hash |-> open.hash \ {n}]
    BY <2>1, <2>8 DEF r
  <2>10. \A k \in A!Live : k \in open.set => A!f_score(pool, n) <= A!f_score(pool, k)
    BY <2>0, <2>2
  <2>. QED
    BY <2>2, <2>3, <2>4, <2>5, <2>7, <2>9, <2>10
<1>8. CASE ~problem.hashset
  <2>1. PICK n \in A!Tops(pool, open) :
          top = [node |-> n, pool |-> pool, open |-> [open EXCEPT !.set = @ \ {n}]]
    BY <1>8 DEF A!pop_open
  <2>2. n \in open.set /\ n \in A!Live
    BY <1>3, <1>8, <2>1 DEF A!Tops
  <2>3. \A k \in open.set : A!f_score(pool, n) <= A!f_score(pool, k)
    BY <1>2, <2>1 DEF A!Tops
  <2>4. open.hash = {}
    BY <1>3, <1>8
  <2>. DEFINE s == {}
  <2>5. [open EXCEPT !.set = @ \ {n}] = [set |-> (open.set \ {n}) \ s, heap |-> open.heap, hash |-> open.hash \ {n}]
    <3>1. [open EXCEPT !.set = @ \ {n}] = [set |-> o \ {n}, heap |-> t, hash |-> h]
      <4>. DEFINE a == o \ {n}
      <4>1. [open EXCEPT !.set = @ \ {n}] = [[set |-> o, heap |-> t, hash |-> h] EXCEPT !.set = a]
        BY <1>6
      <4>. HIDE DEF a
      <4>2. [[set |-> o, heap |-> t, hash |-> h] EXCEPT !.set = a] = [set |-> a, heap |-> t, hash |-> h]
        BY OpenLess
      <4>. QED
        BY <4>1, <4>2 DEF a
    <3>. QED
      BY <1>6, <2>4, <3>1
  <2>6. top.node = n /\ top.pool = pool /\ top.open = [open EXCEPT !.set = @ \ {n}]
    BY <2>1
  <2>7. s \in SUBSET open.set /\ s \cap A!Live = {} /\ \A k \in s : A!f_score(pool, k) <= A!f_score(pool, n)
    OBVIOUS
  <2>8. A!Range(pool.free) = s \union A!Range(pool.free)
    OBVIOUS
  <2>9. /\ n = top.node /\ n \in open.set
        /\ \A k \in A!Live : k \in open.set => A!f_score(pool, n) <= A!f_score(pool, k)
        /\ top.pool = [mem |-> pool.mem, free |-> top.pool.free] /\ top.pool.mem = pool.mem
        /\ top.pool.free \in Seq(A!NodeIds) /\ A!IsInjective(top.pool.free)
        /\ A!Range(top.pool.free) = s \union A!Range(pool.free)
        /\ top.open = [set |-> (open.set \ {n}) \ s, heap |-> open.heap, hash |-> open.hash \ {n}]
    <3>. HIDE DEF s
    <3>. QED
      BY <1>2, <1>3, <2>2, <2>3, <2>5, <2>6, <2>8
  <2>. HIDE DEF s
  <2>. QED
    BY <2>2, <2>7, <2>9
<1>. QED
  BY <1>7, <1>8

(* No skipped node is the parent of a valid one: the better node of its     *)
(* state that replaced it is still open and would have come before it.      *)
LEMMA SkippedAreNoParents ==
    ASSUME A!Inv, status = "RUNNING", cursor.at = "top", NEW n \in A!Live, n \in open.set,
           NEW s \in SUBSET open.set, s \cap A!Live = {},
           \A k \in s : A!f_score(pool, k) <= A!f_score(pool, n),
           \A k \in A!Live : k \in open.set => A!f_score(pool, n) <= A!f_score(pool, k),
           NEW k \in A!Live \ {1}
    PROVE  /\ pool.mem[k].parent \in A!Known \ s
           /\ \/ pool.mem[k].parent \in A!Live
              \/ \E m \in A!Live : /\ A!StateOf(m) = A!StateOf(pool.mem[k].parent)
                                   /\ A!G(m) < A!G(pool.mem[k].parent) /\ m \in open.set
<1>. DEFINE q == pool.mem[k].parent
<1>1. A!Types /\ A!Parents
  BY DEF A!Inv
<1>2. A!ParentOK(k) /\ A!Current = {}
  BY <1>1 DEF A!Parents, A!Current, A!start_
<1>3. /\ q \in A!Known
      /\ q \in A!Live \/ \E m \in A!Live : A!StateOf(m) = A!StateOf(q) /\ A!G(m) < A!G(q) /\ m \in open.set
  BY <1>2 DEF A!ParentOK
<1>4. q \notin s
  <2>. SUFFICES ASSUME q \in s PROVE FALSE
    OBVIOUS
  <2>1. PICK m \in A!Live : A!StateOf(m) = A!StateOf(q) /\ A!G(m) < A!G(q) /\ m \in open.set
    BY <1>3
  <2>2. A!f_score(pool, q) <= A!f_score(pool, n) /\ A!f_score(pool, n) <= A!f_score(pool, m)
    BY <2>1
  <2>3. n \in A!NodeIds /\ m \in A!NodeIds /\ q \in A!NodeIds
    BY <1>1, <1>3, TypedNodes
  <2>4. \A i \in A!NodeIds : A!G(i) \in Nat /\ problem.h[A!StateOf(i)] \in Nat
    BY <1>1, TypedNodes, ProblemFacts
  <2>5. \A i \in A!NodeIds : A!f_score(pool, i) = A!G(i) + problem.h[A!StateOf(i)]
    BY DEF A!f_score, A!heuristic, A!G, A!StateOf
  <2>. HIDE DEF q
  <2>. QED
    BY <2>1, <2>2, <2>3, <2>4, <2>5
<1>. QED
  BY <1>3, <1>4

LEMMA PopStep ==
    ASSUME A!Inv, A!Pop
    PROVE  A!Inv'
<1>1. /\ status = "RUNNING" /\ cursor.at = "top" /\ problem' = problem /\ closed' = closed
      /\ status' = status /\ solution_cost' = solution_cost /\ cancelled' = cancelled
  BY DEF A!Pop
<1>2. PICK top \in A!pop_open(pool, open) :
          LET v == top.pool.mem[top.node].state
          IN  /\ v # problem.goal /\ pool' = top.pool /\ open' = top.open
              /\ cursor' = [at |-> "successors", node |-> top.node, todo |-> A!get_successors(v)]
  BY Zenon DEF A!Pop
<1>3. PICK n \in A!Live, s \in SUBSET open.set :
          /\ n = top.node /\ n \in open.set /\ s \cap A!Live = {}
          /\ \A k \in s : A!f_score(pool, k) <= A!f_score(pool, n)
          /\ \A k \in A!Live : k \in open.set => A!f_score(pool, n) <= A!f_score(pool, k)
          /\ top.pool = [mem |-> pool.mem, free |-> top.pool.free] /\ top.pool.mem = pool.mem
          /\ top.pool.free \in Seq(A!NodeIds) /\ A!IsInjective(top.pool.free)
          /\ A!Range(top.pool.free) = s \union A!Range(pool.free)
          /\ top.open = [set |-> (open.set \ {n}) \ s, heap |-> open.heap, hash |-> open.hash \ {n}]
  BY <1>1, PopOpenFacts
<1>4. A!Types /\ A!Books /\ A!Scores /\ A!Parents /\ A!Expanded
  BY DEF A!Inv
<1>5. /\ n \in A!NodeIds /\ pool.mem \in [A!NodeIds -> A!Nodes] /\ A!StateOf(n) \in Vertices
      /\ open.set \subseteq A!NodeIds /\ open.hash \subseteq A!NodeIds /\ open.heap = TRUE
      /\ closed \subseteq A!NodeIds /\ A!Known \subseteq A!NodeIds /\ A!Live \subseteq A!Known
  BY <1>4, TypedNodes
<1>6. A!Current = {} /\ A!Known = open.set \union closed
  BY <1>1 DEF A!Current, A!Known
<1>7. /\ A!Allocated = {2} \union A!Known /\ 2 \notin A!Known /\ open.set \cap closed = {}
      /\ open.hash = (IF problem.hashset THEN open.set \cap A!Live ELSE {})
      /\ ~problem.hashset => open.set \subseteq A!Live
      /\ closed \subseteq A!Live
  BY <1>1, <1>4, <1>6 DEF A!Books, A!goal_
<1>8. /\ pool'.mem = pool.mem /\ pool' = [mem |-> pool.mem, free |-> pool'.free]
      /\ pool'.free \in Seq(A!NodeIds) /\ A!IsInjective(pool'.free)
      /\ A!Range(pool'.free) = s \union A!Range(pool.free)
      /\ open' = [set |-> (open.set \ {n}) \ s, heap |-> open.heap, hash |-> open.hash \ {n}]
      /\ open'.set = (open.set \ {n}) \ s /\ open'.heap = open.heap /\ open'.hash = open.hash \ {n}
  BY <1>2, <1>3
<1>9. /\ A!StateOf(n) # problem.goal
      /\ cursor' = [at |-> "successors", node |-> n, todo |-> A!get_successors(A!StateOf(n))]
  BY <1>2, <1>3 DEF A!StateOf
<1>10. cursor'.at = "successors" /\ cursor'.node = n /\ cursor'.todo = A!get_successors(A!StateOf(n))
  BY <1>9
<1>11. n \notin s /\ n \notin closed
  BY <1>3, <1>7
<1>12. A!Current' = {n} /\ A!Known' = A!Known \ s
  <2>1. A!Current' = {n}
    BY <1>10 DEF A!Current
  <2>2. A!Known' = ((open.set \ {n}) \ s) \union closed \union {n}
    BY <1>1, <1>8, <2>1 DEF A!Known
  <2>3. s \cap closed = {}
    BY <1>7
  <2>. QED
    BY <1>3, <1>6, <1>11, <2>1, <2>2, <2>3
<1>13. A!Live' = A!Live
  <2>1. A!Live' = {k \in A!Known \ s : pool.mem[k].valid}
    BY Zenon, <1>8, <1>12 DEF A!Live
  <2>2. A!Live = {k \in A!Known : pool.mem[k].valid}
    BY DEF A!Live
  <2>. QED
    BY <1>3, <2>1, <2>2
<1>14. (\A k : A!StateOf(k)' = A!StateOf(k) /\ A!G(k)' = A!G(k)) /\ \A v : A!ToGoal(v)' = A!ToGoal(v)
  BY <1>1, <1>8, SameNodes, SameProblem
<1>15. A!Types'
  <2>1. pool' \in [mem : [A!NodeIds -> A!Nodes], free : Seq(A!NodeIds)]
    BY <1>5, <1>8
  <2>2. open' \in [set : SUBSET A!NodeIds, heap : {TRUE}, hash : SUBSET A!NodeIds]
    BY <1>5, <1>8
  <2>3. cursor' \in A!Cursors
    BY <1>5, <1>9, SuccessorFacts DEF A!Cursors
  <2>4. /\ problem \in A!Problems /\ closed \subseteq A!NodeIds /\ solution_cost \in Nat /\ cancelled \in BOOLEAN
    BY <1>4 DEF A!Types
  <2>. QED
    BY <1>1, <2>1, <2>2, <2>3, <2>4 DEF A!Types
<1>16. A!Books'
  <2>1. A!Allocated' = A!Allocated \ s
    BY <1>8 DEF A!Allocated
  <2>2. 2 \notin s
    BY <1>6, <1>7
  <2>3. A!Allocated' = {2} \union A!Known'
    BY <1>7, <1>12, <2>1, <2>2
  <2>4. /\ 2 \notin A!Known' /\ open'.set \cap closed' = {} /\ A!Current' \cap (open'.set \union closed') = {}
        /\ ~problem.hashset => open'.set \subseteq A!Live'
        /\ closed' \union A!Current' \subseteq A!Live'
    BY <1>1, <1>7, <1>8, <1>11, <1>12, <1>13
  <2>5. open'.hash = IF problem.hashset THEN open'.set \cap A!Live' ELSE {}
    BY <1>3, <1>7, <1>8, <1>13
  <2>. QED
    BY <1>1, <1>8, <2>3, <2>4, <2>5 DEF A!Books, A!goal_
<1>17. A!Scores'
  <2>1. /\ A!StateOf(1) = Start /\ A!G(1) = 0 /\ A!StateOf(2) = problem.goal /\ pool.mem[2].next = 0
        /\ 1 \in A!Live /\ pool.mem[1].parent = 0
        /\ \A i, j \in A!Live : A!StateOf(i) = A!StateOf(j) => i = j
        /\ \A i \in A!Known : /\ problem.best <= A!G(i) + A!ToGoal(A!StateOf(i))
                              /\ problem.best = A!Infinity => A!ToGoal(A!StateOf(i)) = A!Infinity
        /\ \A i \in closed : A!StateOf(i) # problem.goal
    BY <1>1, <1>4 DEF A!Scores, A!start_, A!goal_, A!null
  <2>2. \A i \in closed' \union A!Current' : A!StateOf(i)' # problem'.goal
    BY <1>1, <1>9, <1>12, <1>14, <2>1
  <2>3. \A i \in A!Known' : /\ problem'.best <= A!G(i)' + A!ToGoal(A!StateOf(i))'
                            /\ problem'.best = A!Infinity => A!ToGoal(A!StateOf(i))' = A!Infinity
    <3>1. \A i : A!ToGoal(A!StateOf(i))' = A!ToGoal(A!StateOf(i))
      BY <1>1, <1>8 DEF A!ToGoal, A!StateOf
    <3>. QED
      BY <1>1, <1>12, <1>14, <2>1, <3>1
  <2>. QED
    BY <1>1, <1>8, <1>13, <1>14, <2>1, <2>2, <2>3 DEF A!Scores, A!start_, A!goal_, A!null
<1>18. A!Parents'
  <2>1. ASSUME NEW k \in A!Live \ {1} PROVE A!ParentOK(k)'
    <3>0. PICK q : q = pool.mem[k].parent
      OBVIOUS
    <3>1. /\ q \in A!Known \ s
          /\ \/ q \in A!Live
             \/ \E m \in A!Live : A!StateOf(m) = A!StateOf(q) /\ A!G(m) < A!G(q) /\ m \in open.set
      BY <1>1, <1>3, <3>0, SkippedAreNoParents
    <3>2. /\ A!StateOf(q) # problem.goal /\ <<A!StateOf(q), A!StateOf(k)>> \in Edges
          /\ A!G(q) + A!EdgeCost(q, k) <= A!G(k)
      BY <1>1, <1>4, <3>0 DEF A!Parents, A!start_, A!ParentOK
    <3>3. A!EdgeCost(q, k)' = A!EdgeCost(q, k)
      BY <1>1, <1>8 DEF A!EdgeCost, A!StateOf
    <3>4. ASSUME NEW m \in A!Live, A!StateOf(m) = A!StateOf(q), m \in open.set
          PROVE  m \in open'.set \/ (m \in A!Current' /\ A!StateOf(k) \in A!Range(cursor'.todo))
      <4>1. CASE m = n
        <5>1. k \in A!NodeIds
          BY <1>5
        <5>2. A!StateOf(k) \in Vertices
          BY <1>4, <5>1, TypedNodes
        <5>3. A!StateOf(k) \in A!Range(cursor'.todo)
          BY <1>5, <1>10, <3>2, <3>4, <4>1, <5>2, SuccessorFacts
        <5>. QED
          BY <1>12, <4>1, <5>3
      <4>2. CASE m # n
        BY <1>3, <1>8, <3>4, <4>2
      <4>. QED
        BY <4>1, <4>2
    <3>5. pool'.mem[k].parent = q
      BY <1>8, <3>0
    <3>6. q \in A!Live' \/ \E m \in A!Live' :
            /\ A!StateOf(m)' = A!StateOf(q)' /\ A!G(m)' < A!G(q)'
            /\ m \in open'.set \/ (m \in A!Current' /\ A!StateOf(k)' \in A!Range(cursor'.todo))
      BY <1>13, <1>14, <3>1, <3>4
    <3>7. /\ q \in A!Known' /\ A!StateOf(q)' # problem'.goal /\ <<A!StateOf(q)', A!StateOf(k)'>> \in Edges
          /\ A!G(q)' + A!EdgeCost(q, k)' <= A!G(k)'
      BY <1>1, <1>12, <1>14, <3>1, <3>2, <3>3
    <3>. QED
      BY <3>5, <3>6, <3>7 DEF A!ParentOK
  <2>. QED
    BY <1>13, <2>1 DEF A!Parents, A!start_
<1>19. A!Expanded'
  <2>1. A!Searching
    BY <1>1 DEF A!Searching
  <2>2. \A i \in A!Known' : pool'.mem[i].next = A!null
    BY <1>4, <1>8, <1>12, <2>1 DEF A!Expanded
  <2>3. ASSUME NEW m \in closed' \union A!Current', NEW w \in Vertices, <<A!StateOf(m)', w>> \in Edges,
               m \in A!Current' => w \notin A!Range(cursor'.todo)
        PROVE  \E i \in A!Live' : A!StateOf(i)' = w /\ A!G(i)' <= A!G(m)' + problem'.cost[<<A!StateOf(m)', w>>]
    <3>1. m # n
      <4>. SUFFICES ASSUME m = n PROVE FALSE
        OBVIOUS
      <4>1. w \notin A!Range(A!get_successors(A!StateOf(n))) /\ <<A!StateOf(n), w>> \in Edges
        BY <1>10, <1>12, <1>14, <2>3
      <4>. QED
        BY <1>5, <4>1, SuccessorFacts
    <3>2. m \in closed /\ m \notin A!Current /\ <<A!StateOf(m), w>> \in Edges
      BY <1>1, <1>6, <1>12, <1>14, <2>3, <3>1
    <3>3. \E i \in A!Live : A!StateOf(i) = w /\ A!G(i) <= A!G(m) + problem.cost[<<A!StateOf(m), w>>]
      BY <1>4, <2>1, <3>2 DEF A!Expanded
    <3>. QED
      BY <1>1, <1>13, <1>14, <3>3
  <2>4. \A m \in A!Current', w \in A!Range(cursor'.todo) : <<A!StateOf(m)', w>> \in Edges
    BY <1>5, <1>10, <1>12, <1>14, SuccessorFacts
  <2>. QED
    BY <2>2, <2>3, <2>4 DEF A!Expanded
<1>20. A!PathSoFar' /\ A!PathFound' /\ A!FailureMeansUnreachable'
  BY <1>1, <1>10 DEF A!PathSoFar, A!PathFound, A!FailureMeansUnreachable
<1>. QED
  BY <1>15, <1>16, <1>17, <1>18, <1>19, <1>20 DEF A!Inv

LEMMA CloseStep ==
    ASSUME A!Inv, A!Close
    PROVE  A!Inv'
<1>1. /\ cursor.at = "successors" /\ cursor.todo = <<>> /\ cursor' = [at |-> "top"] /\ problem' = problem
      /\ pool' = pool /\ open' = open /\ status' = status /\ solution_cost' = solution_cost /\ cancelled' = cancelled
      /\ closed' = closed \union {n \in {cursor.node} : \A k \in closed : A!hash(pool, k) # A!hash(pool, n)}
  BY DEF A!Close
<1>2. A!Types /\ A!Books /\ A!Scores /\ A!Parents /\ A!Expanded
  BY DEF A!Inv
<1>3. status = "RUNNING" /\ A!Current = {cursor.node} /\ cursor'.at = "top"
  BY <1>1, <1>2 DEF A!Types, A!Current
<1>a. PICK c : c = cursor.node
  OBVIOUS
<1>4. /\ A!Current \cap (open.set \union closed) = {} /\ closed \union A!Current \subseteq A!Live
      /\ open.set \cap closed = {}
      /\ ~problem.hashset => open.set \subseteq A!Live
      /\ A!Allocated = {2} \union A!Known /\ 2 \notin A!Known /\ A!IsInjective(pool.free)
      /\ open.hash = (IF problem.hashset THEN open.set \cap A!Live ELSE {})
  BY <1>2, <1>3 DEF A!Books, A!goal_
<1>5. closed' = closed \union {c}
  <2>1. \A k \in closed : A!StateOf(k) # A!StateOf(c)
    BY <1>2, <1>3, <1>4, <1>a DEF A!Scores
  <2>2. \A k : A!hash(pool, k) = A!StateOf(k)
    BY DEF A!hash, A!StateOf
  <2>. QED
    BY <1>1, <1>a, <2>1, <2>2
<1>6. A!Current' = {} /\ A!Known' = A!Known /\ A!Live' = A!Live
  <2>1. A!Current' = {}
    BY <1>3 DEF A!Current
  <2>2. A!Known' = A!Known
    BY <1>1, <1>3, <1>5, <1>a, <2>1 DEF A!Known
  <2>. QED
    BY <1>1, <2>1, <2>2 DEF A!Live
<1>7. (\A k : A!StateOf(k)' = A!StateOf(k) /\ A!G(k)' = A!G(k)) /\ \A v : A!ToGoal(v)' = A!ToGoal(v)
  BY <1>1, SameNodes, SameProblem
<1>8. A!Types'
  <2>1. cursor' \in A!Cursors
    BY <1>1 DEF A!Cursors
  <2>2. closed' \subseteq A!NodeIds
    BY <1>2, <1>3, <1>5, <1>a, TypedNodes
  <2>3. /\ problem \in A!Problems /\ solution_cost \in Nat /\ cancelled \in BOOLEAN
        /\ pool \in [mem : [A!NodeIds -> A!Nodes], free : Seq(A!NodeIds)]
        /\ open \in [set : SUBSET A!NodeIds, heap : {TRUE}, hash : SUBSET A!NodeIds]
    BY <1>2 DEF A!Types
  <2>. QED
    BY <1>1, <1>3, <2>1, <2>2, <2>3 DEF A!Types
<1>9. A!Books'
  <2>1. A!Allocated' = A!Allocated
    BY <1>1 DEF A!Allocated
  <2>2. open'.set \cap closed' = {} /\ closed' \union A!Current' \subseteq A!Live'
    BY <1>1, <1>3, <1>4, <1>5, <1>a, <1>6
  <2>3. open'.hash = IF problem'.hashset THEN open'.set \cap A!Live' ELSE {}
    BY <1>1, <1>4, <1>6
  <2>. QED
    BY <1>1, <1>3, <1>4, <1>6, <2>1, <2>2, <2>3 DEF A!Books, A!goal_
<1>10. A!Scores'
  <2>1. /\ A!StateOf(1) = Start /\ A!G(1) = 0 /\ A!StateOf(2) = problem.goal /\ pool.mem[2].next = 0
        /\ 1 \in A!Live /\ pool.mem[1].parent = 0
        /\ \A i, j \in A!Live : A!StateOf(i) = A!StateOf(j) => i = j
        /\ \A i \in A!Known : /\ problem.best <= A!G(i) + A!ToGoal(A!StateOf(i))
                              /\ problem.best = A!Infinity => A!ToGoal(A!StateOf(i)) = A!Infinity
        /\ \A i \in closed \union A!Current : A!StateOf(i) # problem.goal
    BY <1>2, <1>3 DEF A!Scores, A!start_, A!goal_, A!null
  <2>2. \A i : A!ToGoal(A!StateOf(i))' = A!ToGoal(A!StateOf(i))
    BY <1>1 DEF A!ToGoal, A!StateOf
  <2>3. \A i \in closed' \union A!Current' : A!StateOf(i)' # problem'.goal
    BY <1>1, <1>3, <1>5, <1>a, <1>6, <1>7, <2>1
  <2>4. \A i \in A!Known' : /\ problem'.best <= A!G(i)' + A!ToGoal(A!StateOf(i))'
                            /\ problem'.best = A!Infinity => A!ToGoal(A!StateOf(i))' = A!Infinity
    BY <1>1, <1>6, <1>7, <2>1, <2>2
  <2>. QED
    BY <1>1, <1>3, <1>6, <1>7, <2>1, <2>3, <2>4 DEF A!Scores, A!start_, A!goal_, A!null
<1>11. A!Parents'
  <2>1. ASSUME NEW k \in A!Live \ {1} PROVE A!ParentOK(k)'
    <3>0. PICK q : q = pool.mem[k].parent
      OBVIOUS
    <3>1. /\ q \in A!Known /\ A!StateOf(q) # problem.goal /\ <<A!StateOf(q), A!StateOf(k)>> \in Edges
          /\ A!G(q) + A!EdgeCost(q, k) <= A!G(k)
          /\ q \in A!Live \/ \E m \in A!Live :
               /\ A!StateOf(m) = A!StateOf(q) /\ A!G(m) < A!G(q)
               /\ m \in open.set \/ (m \in A!Current /\ A!StateOf(k) \in A!Range(cursor.todo))
      BY <1>2, <1>3, <3>0 DEF A!Parents, A!start_, A!ParentOK
    <3>2. A!Range(cursor.todo) = {}
      BY <1>1 DEF A!Range
    <3>3. A!EdgeCost(q, k)' = A!EdgeCost(q, k)
      BY <1>1 DEF A!EdgeCost, A!StateOf
    <3>4. pool'.mem[k].parent = q
      BY <1>1, <3>0
    <3>. QED
      BY <1>1, <1>6, <1>7, <3>1, <3>2, <3>3, <3>4 DEF A!ParentOK
  <2>. QED
    BY <1>6, <2>1 DEF A!Parents, A!start_
<1>12. A!Expanded'
  <2>1. A!Searching
    BY <1>1, <1>3 DEF A!Searching
  <2>2. \A i \in A!Known' : pool'.mem[i].next = A!null
    BY <1>1, <1>2, <1>6, <2>1 DEF A!Expanded
  <2>3. ASSUME NEW m \in closed' \union A!Current', NEW w \in Vertices, <<A!StateOf(m)', w>> \in Edges
        PROVE  \E i \in A!Live' : A!StateOf(i)' = w /\ A!G(i)' <= A!G(m)' + problem'.cost[<<A!StateOf(m)', w>>]
    <3>1. m \in closed \union A!Current /\ <<A!StateOf(m), w>> \in Edges
      BY <1>3, <1>5, <1>a, <1>6, <1>7, <2>3
    <3>2. w \notin A!Range(cursor.todo)
      BY <1>1 DEF A!Range
    <3>3. \E i \in A!Live : A!StateOf(i) = w /\ A!G(i) <= A!G(m) + problem.cost[<<A!StateOf(m), w>>]
      BY <1>2, <2>1, <3>1, <3>2 DEF A!Expanded
    <3>. QED
      BY <1>1, <1>6, <1>7, <3>3
  <2>4. \A m \in A!Current' : FALSE
    BY <1>6
  <2>. QED
    BY <2>2, <2>3, <2>4 DEF A!Expanded
<1>13. A!PathSoFar' /\ A!PathFound' /\ A!FailureMeansUnreachable'
  BY <1>1, <1>3 DEF A!PathSoFar, A!PathFound, A!FailureMeansUnreachable
<1>. QED
  BY <1>8, <1>9, <1>10, <1>11, <1>12, <1>13 DEF A!Inv

-----------------------------------------------------------------------------
(* The path.                                                               *)

(* What an assignment to a node's parent and score leaves.                  *)
LEMMA ParentSet ==
    ASSUME NEW a, NEW b, NEW c, NEW d, NEW e, NEW p
    PROVE  [[state |-> a, g_score |-> b, parent |-> c, next |-> d, valid |-> e] EXCEPT !.parent = p]
             = [state |-> a, g_score |-> b, parent |-> p, next |-> d, valid |-> e]
OBVIOUS

LEMMA ScoreSet ==
    ASSUME NEW a, NEW b, NEW c, NEW d, NEW e, NEW g
    PROVE  [[state |-> a, g_score |-> b, parent |-> c, next |-> d, valid |-> e] EXCEPT !.g_score = g]
             = [state |-> a, g_score |-> g, parent |-> c, next |-> d, valid |-> e]
OBVIOUS

Rescores(m, n, p, g, z) ==
    /\ z \in [A!NodeIds -> A!Nodes]
    /\ \A k \in A!NodeIds : k # n => z[k] = m[k]
    /\ z[n].parent = p /\ z[n].g_score = g /\ z[n].state = m[n].state
    /\ z[n].next = m[n].next /\ z[n].valid = m[n].valid

LEMMA Rescored ==
    ASSUME NEW m \in [A!NodeIds -> A!Nodes], NEW n \in A!NodeIds,
           NEW p \in A!NodeIds \union {0}, NEW g \in Nat
    PROVE  Rescores(m, n, p, g, [[m EXCEPT ![n].parent = p] EXCEPT ![n].g_score = g])
<1>. DEFINE r == [m[n] EXCEPT !.parent = p]
            y == [m EXCEPT ![n] = r]
            s == [y[n] EXCEPT !.g_score = g]
            z == [y EXCEPT ![n] = s]
<1>1. PICK a, b, c, d, e : /\ m[n] = [state |-> a, g_score |-> b, parent |-> c, next |-> d, valid |-> e]
                           /\ a \in Vertices /\ b \in Nat /\ d \in A!NodeIds \union {0} /\ e \in BOOLEAN
  BY DEF A!Nodes, A!null
<1>2. r = [state |-> a, g_score |-> b, parent |-> p, next |-> d, valid |-> e]
  BY <1>1, ParentSet
<1>3. y[n] = r /\ y \in [A!NodeIds -> A!Nodes] /\ \A k \in A!NodeIds : k # n => y[k] = m[k]
  <2>1. r \in A!Nodes
    <3>. HIDE DEF r
    <3>. QED
      BY <1>1, <1>2 DEF A!Nodes, A!null
  <2>. HIDE DEF r
  <2>. QED
    BY <2>1
<1>. HIDE DEF r, y
<1>4. s = [state |-> a, g_score |-> g, parent |-> p, next |-> d, valid |-> e]
  BY <1>2, <1>3, ScoreSet
<1>. HIDE DEF s
<1>5. s \in A!Nodes
  BY <1>1, <1>4 DEF A!Nodes, A!null
<1>6. /\ z \in [A!NodeIds -> A!Nodes] /\ z[n] = s /\ \A k \in A!NodeIds : k # n => z[k] = m[k]
  BY <1>3, <1>5
<1>7. z = [[m EXCEPT ![n].parent = p] EXCEPT ![n].g_score = g]
  BY DEF y, r, s
<1>. HIDE DEF z
<1>9. /\ s.parent = p /\ s.g_score = g /\ s.state = a /\ s.next = d /\ s.valid = e
      /\ m[n].state = a /\ m[n].next = d /\ m[n].valid = e
  BY <1>1, <1>4
<1>10. Rescores(m, n, p, g, z)
  BY <1>6, <1>9 DEF Rescores
<1>. QED
  BY <1>7, <1>10

LEMMA MemRescored ==
    ASSUME NEW m, NEW f, NEW n, NEW p, NEW g
    PROVE  [[mem |-> m, free |-> f] EXCEPT !.mem[n].parent = p, !.mem[n].g_score = g]
             = [mem |-> [[m EXCEPT ![n].parent = p] EXCEPT ![n].g_score = g], free |-> f]
<1>1. [[mem |-> m, free |-> f] EXCEPT !.mem[n].parent = p] = [mem |-> [m EXCEPT ![n].parent = p], free |-> f]
  OBVIOUS
<1>2. \A y : [[mem |-> y, free |-> f] EXCEPT !.mem[n].g_score = g] = [mem |-> [y EXCEPT ![n].g_score = g], free |-> f]
  OBVIOUS
<1>3. [[mem |-> m, free |-> f] EXCEPT !.mem[n].parent = p, !.mem[n].g_score = g]
        = [[[mem |-> m, free |-> f] EXCEPT !.mem[n].parent = p] EXCEPT !.mem[n].g_score = g]
  OBVIOUS
<1>. QED
  BY ONLY <1>1, <1>2, <1>3

LEMMA NextSet ==
    ASSUME NEW a, NEW b, NEW c, NEW d, NEW e, NEW k
    PROVE  [[state |-> a, g_score |-> b, parent |-> c, next |-> d, valid |-> e] EXCEPT !.next = k]
             = [state |-> a, g_score |-> b, parent |-> c, next |-> k, valid |-> e]
OBVIOUS

(* What an assignment to a node's `next` leaves.                            *)
Relinks(m, n, k, z) ==
    /\ z \in [A!NodeIds -> A!Nodes]
    /\ \A i \in A!NodeIds : i # n => z[i] = m[i]
    /\ z[n].parent = m[n].parent /\ z[n].g_score = m[n].g_score /\ z[n].state = m[n].state
    /\ z[n].next = k /\ z[n].valid = m[n].valid

LEMMA Relinked ==
    ASSUME NEW m \in [A!NodeIds -> A!Nodes], NEW n \in A!NodeIds, NEW k \in A!NodeIds
    PROVE  Relinks(m, n, k, [m EXCEPT ![n].next = k])
<1>. DEFINE r == [m[n] EXCEPT !.next = k]
            z == [m EXCEPT ![n] = r]
<1>1. PICK a, b, c, d, e : /\ m[n] = [state |-> a, g_score |-> b, parent |-> c, next |-> d, valid |-> e]
                           /\ a \in Vertices /\ b \in Nat /\ c \in A!NodeIds \union {0} /\ e \in BOOLEAN
  BY DEF A!Nodes, A!null
<1>2. r = [state |-> a, g_score |-> b, parent |-> c, next |-> k, valid |-> e]
  BY <1>1, NextSet
<1>. HIDE DEF r
<1>3. r \in A!Nodes
  BY <1>1, <1>2 DEF A!Nodes, A!null
<1>4. z = [m EXCEPT ![n].next = k]
  BY DEF r
<1>5. z \in [A!NodeIds -> A!Nodes] /\ z[n] = r /\ \A i \in A!NodeIds : i # n => z[i] = m[i]
  BY <1>3
<1>. HIDE DEF z
<1>7. /\ r.parent = c /\ r.g_score = b /\ r.state = a /\ r.next = k /\ r.valid = e
      /\ m[n].parent = c /\ m[n].g_score = b /\ m[n].state = a /\ m[n].valid = e
  BY <1>1, <1>2
<1>8. Relinks(m, n, k, z)
  BY <1>5, <1>7 DEF Relinks
<1>. QED
  BY <1>4, <1>8

LEMMA MemRelinked ==
    ASSUME NEW m, NEW f, NEW n, NEW k
    PROVE  [[mem |-> m, free |-> f] EXCEPT !.mem[n].next = k]
             = [mem |-> [m EXCEPT ![n].next = k], free |-> f]
OBVIOUS

(* Popping the goal's state: the node popped is an optimal one, and the     *)
(* goal's own node takes its parent and its score.                          *)
LEMMA ReachStep ==
    ASSUME A!Inv, A!Proper, A!Reach
    PROVE  A!Inv'
<1>1. /\ status = "RUNNING" /\ cursor.at = "top" /\ problem' = problem /\ closed' = closed
      /\ status' = status /\ solution_cost' = solution_cost /\ cancelled' = cancelled
  BY DEF A!Reach
<1>2. PICK top \in A!pop_open(pool, open) :
          LET node == top.pool.mem[top.node]
          IN  /\ node.state = problem.goal
              /\ pool' = A!destroy_node([top.pool EXCEPT !.mem[2].parent = node.parent,
                                                         !.mem[2].g_score = node.g_score], top.node)
              /\ open' = top.open
              /\ cursor' = [at |-> "path", next |-> 2, parent |-> node.parent]
  BY Zenon DEF A!Reach, A!goal_
<1>3. PICK n \in A!Live, s \in SUBSET open.set :
          /\ n = top.node /\ n \in open.set /\ s \cap A!Live = {}
          /\ \A k \in s : A!f_score(pool, k) <= A!f_score(pool, n)
          /\ \A k \in A!Live : k \in open.set => A!f_score(pool, n) <= A!f_score(pool, k)
          /\ top.pool = [mem |-> pool.mem, free |-> top.pool.free] /\ top.pool.mem = pool.mem
          /\ top.pool.free \in Seq(A!NodeIds) /\ A!IsInjective(top.pool.free)
          /\ A!Range(top.pool.free) = s \union A!Range(pool.free)
          /\ top.open = [set |-> (open.set \ {n}) \ s, heap |-> open.heap, hash |-> open.hash \ {n}]
  BY <1>1, PopOpenFacts
<1>4. A!Types /\ A!Books /\ A!Scores /\ A!Parents /\ A!Expanded
  BY DEF A!Inv
<1>5. /\ n \in A!NodeIds /\ 2 \in A!NodeIds /\ 1 \in A!NodeIds
      /\ pool.mem \in [A!NodeIds -> A!Nodes] /\ problem \in A!Problems
      /\ open.set \subseteq A!NodeIds /\ open.hash \subseteq A!NodeIds /\ open.heap = TRUE
      /\ closed \subseteq A!NodeIds /\ A!Known \subseteq A!NodeIds /\ A!Live \subseteq A!Known
      /\ \A k \in A!NodeIds : /\ A!StateOf(k) \in Vertices /\ A!G(k) \in Nat
                              /\ pool.mem[k].parent \in A!NodeIds \union {0}
  BY <1>4, TypedNodes
<1>6. A!Current = {} /\ A!Known = open.set \union closed
  BY <1>1 DEF A!Current, A!Known
<1>7. /\ A!Allocated = {2} \union A!Known /\ 2 \notin A!Known /\ open.set \cap closed = {}
      /\ open.hash = (IF problem.hashset THEN open.set \cap A!Live ELSE {})
      /\ ~problem.hashset => open.set \subseteq A!Live
      /\ closed \subseteq A!Live
  BY <1>1, <1>4, <1>6 DEF A!Books, A!goal_
<1>8. /\ A!StateOf(1) = Start /\ A!G(1) = 0 /\ A!StateOf(2) = problem.goal /\ pool.mem[2].next = 0
      /\ 1 \in A!Live /\ pool.mem[1].parent = 0
      /\ \A i, j \in A!Live : A!StateOf(i) = A!StateOf(j) => i = j
      /\ \A i \in A!Known : /\ problem.best <= A!G(i) + A!ToGoal(A!StateOf(i))
                            /\ problem.best = A!Infinity => A!ToGoal(A!StateOf(i)) = A!Infinity
      /\ \A i \in closed : A!StateOf(i) # problem.goal
  BY <1>1, <1>4 DEF A!Scores, A!start_, A!goal_, A!null
<1>. DEFINE x == [top.pool EXCEPT !.mem[2].parent = pool.mem[n].parent, !.mem[2].g_score = pool.mem[n].g_score]
<1>9. A!StateOf(n) = problem.goal /\ pool' = A!destroy_node(x, n) /\ open' = top.open
      /\ cursor' = [at |-> "path", next |-> 2, parent |-> pool.mem[n].parent]
  BY <1>2, <1>3 DEF A!StateOf
<1>10. /\ x = [mem |-> x.mem, free |-> top.pool.free] /\ x.free = top.pool.free
       /\ x.mem \in [A!NodeIds -> A!Nodes]
       /\ \A k \in A!NodeIds : k # 2 => x.mem[k] = pool.mem[k]
       /\ x.mem[2].parent = pool.mem[n].parent /\ x.mem[2].g_score = A!G(n)
       /\ x.mem[2].state = A!StateOf(2) /\ x.mem[2].next = 0
  <2>1. PICK m, f : m \in [A!NodeIds -> A!Nodes] /\ m = pool.mem /\ f = top.pool.free /\ top.pool = [mem |-> m, free |-> f]
    BY <1>3, <1>5
  <2>2. x = [[mem |-> m, free |-> f] EXCEPT !.mem[2].parent = pool.mem[n].parent, !.mem[2].g_score = A!G(n)]
    BY <2>1 DEF A!G
  <2>. HIDE DEF x
  <2>3. PICK p \in A!NodeIds \union {0}, g \in Nat : p = pool.mem[n].parent /\ g = A!G(n)
    BY <1>5
  <2>4. x = [[mem |-> m, free |-> f] EXCEPT !.mem[2].parent = p, !.mem[2].g_score = g]
    BY <2>2, <2>3
  <2>5. PICK z : z = [[m EXCEPT ![2].parent = p] EXCEPT ![2].g_score = g]
    OBVIOUS
  <2>6. Rescores(m, 2, p, g, z)
    BY <1>5, <2>1, <2>5, Rescored
  <2>7. x = [mem |-> z, free |-> f]
    BY <2>4, <2>5, MemRescored
  <2>8. x.mem = z /\ x.free = f
    BY ONLY <2>7
  <2>. QED
    BY <1>8, <2>1, <2>3, <2>6, <2>7, <2>8 DEF A!StateOf, Rescores
<1>. HIDE DEF x
<1>11. n \notin s /\ n \notin closed /\ n # 2 /\ 2 \notin s
  BY <1>3, <1>5, <1>6, <1>7
<1>12. /\ pool' = [mem |-> x.mem, free |-> pool'.free] /\ pool'.mem = x.mem
       /\ pool'.free \in Seq(A!NodeIds) /\ A!IsInjective(pool'.free)
       /\ A!Range(pool'.free) = {n} \union s \union A!Range(pool.free)
  <2>1. n \notin A!Range(x.free)
    <3>1. n \in A!Allocated
      BY <1>3, <1>5, <1>7
    <3>. QED
      BY <1>3, <1>10, <1>11, <3>1 DEF A!Allocated
  <2>. DEFINE r == A!destroy_node(x, n)
  <2>2. x = [mem |-> x.mem, free |-> x.free] /\ x.free \in Seq(A!NodeIds) /\ A!IsInjective(x.free)
    BY <1>3, <1>10
  <2>3. /\ r = [mem |-> x.mem, free |-> r.free] /\ r.mem = x.mem
        /\ r.free \in Seq(A!NodeIds) /\ A!IsInjective(r.free)
        /\ A!Range(r.free) = {n} \union A!Range(x.free)
    BY <1>5, <2>1, <2>2, DestroyedOne
  <2>. HIDE DEF r
  <2>4. pool' = r
    BY <1>9 DEF r
  <2>. QED
    BY <1>3, <1>10, <2>3, <2>4
<1>13. /\ open' = [set |-> (open.set \ {n}) \ s, heap |-> open.heap, hash |-> open.hash \ {n}]
       /\ open'.set = (open.set \ {n}) \ s /\ open'.heap = open.heap /\ open'.hash = open.hash \ {n}
       /\ cursor'.at = "path" /\ cursor'.next = 2 /\ cursor'.parent = pool.mem[n].parent
  BY <1>3, <1>9
<1>14. A!Current' = {} /\ A!Known' = (A!Known \ s) \ {n}
  <2>1. A!Current' = {}
    BY <1>13 DEF A!Current
  <2>2. A!Known' = ((open.set \ {n}) \ s) \union closed
    BY <1>1, <1>13, <2>1 DEF A!Known
  <2>. QED
    BY <1>6, <1>7, <1>11, <2>1, <2>2
<1>15. \A k \in A!NodeIds : k # 2 => /\ pool'.mem[k] = pool.mem[k]
                                     /\ A!StateOf(k)' = A!StateOf(k) /\ A!G(k)' = A!G(k)
                                     /\ A!ToGoal(A!StateOf(k))' = A!ToGoal(A!StateOf(k))
  <2>1. \A k \in A!NodeIds : k # 2 => pool'.mem[k] = pool.mem[k]
    BY <1>10, <1>12
  <2>. QED
    BY <1>1, <2>1 DEF A!StateOf, A!G, A!ToGoal
<1>16. A!StateOf(2)' = problem.goal /\ A!G(2)' = A!G(n) /\ pool'.mem[2].next = 0 /\ pool'.mem[2].parent = pool.mem[n].parent
  BY <1>8, <1>10, <1>12 DEF A!StateOf, A!G
<1>17. A!Live' = A!Live \ {n}
  <2>1. A!Live' = {k \in A!Known' : pool'.mem[k].valid}
    BY DEF A!Live
  <2>2. A!Live = {k \in A!Known : pool.mem[k].valid}
    BY DEF A!Live
  <2>3. \A k \in A!Known' : pool'.mem[k] = pool.mem[k]
    BY <1>5, <1>7, <1>14, <1>15
  <2>4. A!Live' = {k \in A!Known' : pool.mem[k].valid}
    BY Zenon, <2>1, <2>3
  <2>. QED
    BY <1>3, <1>14, <2>2, <2>4
<1>18. n # 1
  <2>1. Start # problem.goal
    BY <1>5, ProblemFacts DEF A!Proper
  <2>. QED
    BY <1>8, <1>9, <2>1
<1>19. A!Types'
  <2>1. pool' \in [mem : [A!NodeIds -> A!Nodes], free : Seq(A!NodeIds)]
    BY <1>10, <1>12
  <2>2. open' \in [set : SUBSET A!NodeIds, heap : {TRUE}, hash : SUBSET A!NodeIds]
    BY <1>5, <1>13
  <2>3. cursor' \in A!Cursors
    <3>1. pool.mem[n].parent \in A!NodeIds \union {A!null}
      BY <1>5 DEF A!null
    <3>. QED
      BY <1>5, <1>9, <3>1 DEF A!Cursors
  <2>4. /\ problem \in A!Problems /\ closed \subseteq A!NodeIds /\ solution_cost \in Nat /\ cancelled \in BOOLEAN
    BY <1>4 DEF A!Types
  <2>. QED
    BY <1>1, <2>1, <2>2, <2>3, <2>4 DEF A!Types
<1>20. A!Books'
  <2>1. A!Allocated' = (A!Allocated \ s) \ {n}
    BY <1>12 DEF A!Allocated
  <2>2. A!Allocated' = {2} \union A!Known'
    BY <1>7, <1>11, <1>14, <2>1
  <2>3. 2 \notin A!Known' /\ open'.set \cap closed' = {} /\ A!Current' \cap (open'.set \union closed') = {}
    BY <1>1, <1>7, <1>13, <1>14
  <2>4. ~problem.hashset => open'.set \subseteq A!Live'
    BY <1>7, <1>13, <1>17
  <2>5. closed' \union A!Current' \subseteq A!Live'
    BY <1>1, <1>7, <1>11, <1>14, <1>17
  <2>6. open'.hash = IF problem.hashset THEN open'.set \cap A!Live' ELSE {}
    BY <1>3, <1>7, <1>13, <1>17
  <2>. QED
    BY <1>1, <1>12, <2>2, <2>3, <2>4, <2>5, <2>6 DEF A!Books, A!goal_
<1>21. A!Scores'
  <2>1. /\ A!StateOf(1)' = Start /\ A!G(1)' = 0 /\ pool'.mem[1].parent = 0 /\ 1 \in A!Live'
    BY <1>5, <1>8, <1>15, <1>17, <1>18
  <2>2. A!Known' \subseteq A!Known /\ A!Live' \subseteq A!Live /\ \A k \in A!Known' : k \in A!NodeIds /\ k # 2
    BY <1>5, <1>7, <1>14, <1>17
  <2>3. \A i, j \in A!Live' : A!StateOf(i)' = A!StateOf(j)' => i = j
    BY <1>5, <1>7, <1>8, <1>15, <2>2
  <2>4. \A i \in A!Known' : /\ problem'.best <= A!G(i)' + A!ToGoal(A!StateOf(i))'
                            /\ problem'.best = A!Infinity => A!ToGoal(A!StateOf(i))' = A!Infinity
    BY <1>1, <1>8, <1>15, <2>2
  <2>5. \A i \in closed' \union A!Current' : A!StateOf(i)' # problem'.goal
    BY <1>1, <1>5, <1>6, <1>7, <1>8, <1>14, <1>15
  <2>. QED
    BY <1>1, <1>16, <2>1, <2>3, <2>4, <2>5 DEF A!Scores, A!start_, A!goal_, A!null
<1>22. ASSUME NEW k \in A!Live \ {1}, NEW i \in A!NodeIds, k = i \/ (i = 2 /\ k = n), i # n,
              A!StateOf(i)' = A!StateOf(k), A!G(i)' = A!G(k), pool'.mem[i].parent = pool.mem[k].parent
       PROVE  A!ParentOK(i)'
  <2>0. PICK q : q = pool.mem[k].parent
    OBVIOUS
  <2>1. /\ q \in A!Known \ s
        /\ \/ q \in A!Live
           \/ \E m \in A!Live : A!StateOf(m) = A!StateOf(q) /\ A!G(m) < A!G(q) /\ m \in open.set
    BY <1>1, <1>3, <2>0, SkippedAreNoParents
  <2>2. /\ A!StateOf(q) # problem.goal /\ <<A!StateOf(q), A!StateOf(k)>> \in Edges
        /\ A!G(q) + A!EdgeCost(q, k) <= A!G(k)
    BY <1>1, <1>4, <2>0 DEF A!Parents, A!start_, A!ParentOK
  <2>3. q # n /\ q \in A!Known' /\ q \in A!NodeIds /\ q # 2
    BY <1>5, <1>7, <1>9, <1>14, <2>1, <2>2
  <2>4. A!StateOf(q)' = A!StateOf(q) /\ A!G(q)' = A!G(q)
    BY <1>15, <2>3
  <2>5. A!EdgeCost(q, i)' = A!EdgeCost(q, k)
    BY <1>1, <1>22, <2>4 DEF A!EdgeCost
  <2>6. q \in A!Live' \/ \E m \in A!Live' : /\ A!StateOf(m)' = A!StateOf(q)' /\ A!G(m)' < A!G(q)' /\ m \in open'.set
    <3>1. CASE q \in A!Live
      BY <1>17, <2>3, <3>1
    <3>2. CASE \E m \in A!Live : A!StateOf(m) = A!StateOf(q) /\ A!G(m) < A!G(q) /\ m \in open.set
      <4>1. PICK m \in A!Live : A!StateOf(m) = A!StateOf(q) /\ A!G(m) < A!G(q) /\ m \in open.set
        BY <3>2
      <4>2. m # n /\ m \notin s /\ m # 2 /\ m \in A!NodeIds
        BY <1>3, <1>5, <1>7, <1>9, <2>2, <4>1
      <4>3. m \in A!Live' /\ m \in open'.set
        BY <1>13, <1>17, <4>1, <4>2
      <4>4. A!StateOf(m)' = A!StateOf(q)' /\ A!G(m)' < A!G(q)'
        BY <1>15, <2>4, <4>1, <4>2
      <4>. QED
        BY <4>3, <4>4
    <3>. QED
      BY <2>1, <3>1, <3>2
  <2>7. /\ q \in A!Known' /\ A!StateOf(q)' # problem'.goal /\ <<A!StateOf(q)', A!StateOf(i)'>> \in Edges
        /\ A!G(q)' + A!EdgeCost(q, i)' <= A!G(i)'
    BY <1>1, <1>22, <2>2, <2>3, <2>4, <2>5
  <2>8. pool'.mem[i].parent = q
    BY <1>22, <2>0
  <2>. QED
    BY <2>6, <2>7, <2>8 DEF A!ParentOK
<1>23. A!Parents'
  <2>1. ASSUME NEW k \in A!Live' \ {1} PROVE A!ParentOK(k)'
    <3>1. k \in A!Live \ {1} /\ k # n /\ k \in A!NodeIds /\ k # 2
      BY <1>5, <1>7, <1>17
    <3>2. /\ A!StateOf(k)' = A!StateOf(k) /\ A!G(k)' = A!G(k) /\ pool'.mem[k].parent = pool.mem[k].parent
      BY <1>15, <3>1
    <3>. QED
      BY <1>22, <3>1, <3>2
  <2>. QED
    BY <2>1 DEF A!Parents, A!start_
<1>24. A!Expanded' /\ A!PathFound' /\ A!FailureMeansUnreachable'
  BY <1>1, <1>13 DEF A!Expanded, A!Searching, A!PathFound, A!FailureMeansUnreachable
<1>25. problem.best < 1000 /\ A!G(n) = problem.best
  <2>1. A!ToGoal(problem.goal) = 0 /\ problem.best \in Nat /\ problem.best <= 1000
    <3>1. Start \in Vertices
      BY SearchAssumption DEF A!ProblemAssumption
    <3>. QED
      BY <1>5, <3>1, ProblemFacts, ToGoalFacts
  <2>2. n \in A!Known /\ A!G(n) \in Nat
    BY <1>5
  <2>3. problem.best <= A!G(n) + A!ToGoal(A!StateOf(n)) /\ problem.best # 1000
    BY <1>8, <1>9, <2>1, <2>2 DEF A!Infinity
  <2>4. problem.best <= A!G(n)
    BY <1>9, <2>1, <2>2, <2>3
  <2>5. problem.best < 1000
    BY <2>1, <2>3
  <2>6. PICK k \in A!Live : k \in open.set /\ A!G(k) + A!ToGoal(A!StateOf(k)) = problem.best
    BY <1>1, <2>5, Frontier
  <2>7. A!f_score(pool, n) <= A!f_score(pool, k)
    BY <1>3, <2>6
  <2>8. \A i : A!f_score(pool, i) = A!G(i) + problem.h[A!StateOf(i)]
    BY DEF A!f_score, A!heuristic, A!G, A!StateOf
  <2>9. /\ problem.h[A!StateOf(n)] \in Nat /\ problem.h[A!StateOf(k)] \in Nat
        /\ problem.h[A!StateOf(k)] <= A!ToGoal(A!StateOf(k)) /\ A!ToGoal(A!StateOf(k)) \in Nat /\ A!G(k) \in Nat
    BY <1>5, ProblemFacts
  <2>10. /\ A!f_score(pool, n) = A!G(n) + problem.h[A!StateOf(n)]
         /\ A!f_score(pool, k) = A!G(k) + problem.h[A!StateOf(k)]
    BY <2>8
  <2>. QED
    BY <2>1, <2>2, <2>4, <2>5, <2>6, <2>7, <2>9, <2>10
<1>26. A!PathSoFar'
  <2>1. A!Linked' = {}
    <3>1. \A k \in A!Known : pool.mem[k].next = 0
      BY <1>1, <1>4 DEF A!Expanded, A!Searching, A!null
    <3>2. A!Allocated' \subseteq {2} \union (A!Known \ {2})
      BY <1>7, <1>12 DEF A!Allocated
    <3>3. \A k \in A!Allocated' : pool'.mem[k].next = 0
      BY <1>5, <1>15, <1>16, <3>1, <3>2
    <3>. QED
      BY <3>3 DEF A!Linked, A!null
  <2>2. A!ParentOK(2)'
    <3>1. n \in A!Live \ {1}
      BY <1>18
    <3>. QED
      BY <1>5, <1>9, <1>11, <1>16, <1>22, <3>1
  <2>3. A!Path(2)'
    BY <1>1, <1>16, <1>25, <2>1 DEF A!Path, A!goal_, A!Infinity
  <2>4. A!Path(cursor.next)'
    BY <1>13, <2>3 DEF A!Path
  <2>5. cursor'.parent = pool'.mem[cursor'.next].parent
    BY <1>13, <1>16
  <2>. QED
    BY <2>1, <2>2, <2>4, <2>5 DEF A!PathSoFar, A!goal_
<1>. QED
  BY <1>19, <1>20, <1>21, <1>23, <1>24, <1>26 DEF A!Inv

(* One iteration of reconstruct_path: the parent of a node of the path is   *)
(* one of the path.  A parent that was replaced would have been replaced by *)
(* a node of a better score than the graph allows.                         *)
LEMMA LinkStep ==
    ASSUME A!Inv, A!Link
    PROVE  A!Inv'
<1>1. PICK x, q : x = cursor.next /\ q = cursor.parent
  OBVIOUS
<1>2. /\ cursor.at = "path" /\ pool.mem[x].state # pool.mem[1].state /\ problem' = problem
      /\ pool' = [pool EXCEPT !.mem[q].next = x]
      /\ cursor' = [cursor EXCEPT !.next = q, !.parent = pool.mem[q].parent]
      /\ open' = open /\ closed' = closed /\ status' = status
      /\ solution_cost' = solution_cost /\ cancelled' = cancelled
  BY <1>1 DEF A!Link, A!start_
<1>3. A!Types /\ A!Books /\ A!Scores /\ A!Parents /\ A!PathSoFar
  BY DEF A!Inv
<1>4. status = "RUNNING" /\ A!Current = {} /\ A!Known = open.set \union closed
  BY <1>2, <1>3 DEF A!Types, A!Current, A!Known
<1>5. /\ 2 \in A!NodeIds /\ 1 \in A!NodeIds /\ 0 \notin A!NodeIds
      /\ pool.mem \in [A!NodeIds -> A!Nodes] /\ pool.free \in Seq(A!NodeIds)
      /\ pool = [mem |-> pool.mem, free |-> pool.free] /\ problem \in A!Problems
      /\ A!Known \subseteq A!NodeIds /\ A!Live \subseteq A!Known /\ A!Allocated \subseteq A!NodeIds
      /\ \A k \in A!NodeIds : /\ A!StateOf(k) \in Vertices /\ A!G(k) \in Nat
                              /\ pool.mem[k].parent \in A!NodeIds \union {0}
  BY <1>3, TypedNodes
<1>6. /\ A!Path(x) /\ q = pool.mem[x].parent /\ A!ParentOK(2) /\ A!Linked \subseteq A!Live
      /\ \A n \in A!Linked : A!G(n) + A!ToGoal(A!StateOf(n)) = problem.best
  BY <1>1, <1>2, <1>3, <1>4 DEF A!PathSoFar, A!Path, A!goal_
<1>7. /\ problem.best < 1000 /\ A!G(2) = problem.best
      /\ x \in A!Linked \union {2} /\ 2 \notin A!Linked
      /\ \A m \in A!Linked : LET n == pool.mem[m].next
                           IN  /\ n \in A!Linked \union {2} /\ <<A!StateOf(m), A!StateOf(n)>> \in Edges
                               /\ A!G(n) = A!G(m) + A!EdgeCost(m, n)
      /\ \A n \in (A!Linked \union {2}) \ {x} :
            /\ pool.mem[n].parent \in A!Linked /\ pool.mem[pool.mem[n].parent].next = n
            /\ A!G(x) < A!G(n)
  BY <1>6 DEF A!Path, A!goal_, A!Infinity
<1>8. /\ A!StateOf(1) = Start /\ A!G(1) = 0 /\ A!StateOf(2) = problem.goal /\ pool.mem[2].next = 0
      /\ 1 \in A!Live /\ pool.mem[1].parent = 0
      /\ \A i, j \in A!Live : A!StateOf(i) = A!StateOf(j) => i = j
      /\ \A i \in A!Known : /\ problem.best <= A!G(i) + A!ToGoal(A!StateOf(i))
                            /\ problem.best = A!Infinity => A!ToGoal(A!StateOf(i)) = A!Infinity
      /\ \A i \in closed \union A!Current : A!StateOf(i) # problem.goal
  BY <1>3, <1>4 DEF A!Scores, A!start_, A!goal_, A!null
<1>9. /\ A!Allocated = {2} \union A!Known /\ 2 \notin A!Known /\ open.set \cap closed = {}
      /\ A!Current \cap (open.set \union closed) = {}
      /\ open.hash = (IF problem.hashset THEN open.set \cap A!Live ELSE {})
      /\ ~problem.hashset => open.set \subseteq A!Live
      /\ closed \union A!Current \subseteq A!Live /\ A!IsInjective(pool.free)
  BY <1>3, <1>4 DEF A!Books, A!goal_
<1>10. /\ x \in A!NodeIds /\ problem.best \in Nat /\ A!ToGoal(problem.goal) = 0
       /\ \A v \in Vertices : A!ToGoal(v) \in Nat
       /\ problem.cost \in [Edges -> Nat \ {0}]
  <2>1. Start \in Vertices
    BY SearchAssumption DEF A!ProblemAssumption
  <2>. QED
    BY <1>5, <1>6, <1>7, <2>1, ProblemFacts, ToGoalFacts
<1>11. A!G(x) + A!ToGoal(A!StateOf(x)) = problem.best
  <2>1. CASE x = 2
    BY <1>5, <1>7, <1>8, <1>10, <2>1
  <2>2. CASE x \in A!Linked
    BY <1>6, <2>2
  <2>. QED
    BY <1>7, <2>1, <2>2
<1>12. A!ParentOK(x)
  <2>1. CASE x = 2
    BY <1>6, <2>1
  <2>2. CASE x \in A!Linked
    <3>1. x \in A!Live \ {1}
      BY <1>2, <1>6, <2>2
    <3>. QED
      BY <1>3, <1>4, <3>1 DEF A!Parents, A!start_
  <2>. QED
    BY <1>7, <2>1, <2>2
<1>13. /\ q \in A!Known /\ q \in A!NodeIds /\ A!StateOf(q) # problem.goal
       /\ <<A!StateOf(q), A!StateOf(x)>> \in Edges /\ A!G(q) + A!EdgeCost(q, x) <= A!G(x)
       /\ q \in A!Live \/ \E m \in A!Live : A!StateOf(m) = A!StateOf(q) /\ A!G(m) < A!G(q)
  BY <1>4, <1>5, <1>6, <1>12 DEF A!ParentOK
<1>14. /\ A!EdgeCost(q, x) = problem.cost[<<A!StateOf(q), A!StateOf(x)>>] /\ A!EdgeCost(q, x) \in Nat \ {0}
       /\ A!ToGoal(A!StateOf(q)) <= A!EdgeCost(q, x) + A!ToGoal(A!StateOf(x))
  BY <1>5, <1>10, <1>13, ToGoalFacts DEF A!EdgeCost
<1>15. /\ A!G(q) \in Nat /\ A!G(x) \in Nat /\ A!ToGoal(A!StateOf(q)) \in Nat /\ A!ToGoal(A!StateOf(x)) \in Nat
       /\ problem.best <= A!G(q) + A!ToGoal(A!StateOf(q))
  BY <1>5, <1>8, <1>10, <1>13
<1>16. /\ A!G(q) + A!ToGoal(A!StateOf(q)) = problem.best /\ A!G(x) = A!G(q) + A!EdgeCost(q, x)
       /\ A!G(q) < A!G(x)
  BY <1>10, <1>11, <1>13, <1>14, <1>15
<1>17. q \in A!Live
  <2>1. ASSUME NEW m \in A!Live, A!StateOf(m) = A!StateOf(q), A!G(m) < A!G(q) PROVE FALSE
    <3>1. problem.best <= A!G(m) + A!ToGoal(A!StateOf(m)) /\ A!G(m) \in Nat
      BY <1>5, <1>8
    <3>2. problem.best <= A!G(m) + A!ToGoal(A!StateOf(q))
      BY <2>1, <3>1
    <3>. QED
      BY <1>15, <1>16, <2>1, <3>1, <3>2
  <2>. QED
    BY <1>13, <2>1
<1>18. q \notin A!Linked /\ q # 2 /\ q # x /\ q \in A!Allocated /\ pool.mem[q].next = 0
  <2>1. q # 2 /\ q \in A!Allocated
    BY <1>9, <1>13
  <2>2. q # x
    BY <1>15, <1>16
  <2>3. q \notin A!Linked
    <3>. SUFFICES ASSUME q \in A!Linked PROVE FALSE
      OBVIOUS
    <3>1. A!G(x) < A!G(q)
      BY <1>7, <2>2
    <3>. QED
      BY <1>15, <1>16, <3>1
  <2>. QED
    BY <2>1, <2>2, <2>3 DEF A!Linked, A!null
<1>19. PICK z : /\ Relinks(pool.mem, q, x, z) /\ pool' = [mem |-> z, free |-> pool.free]
                /\ pool'.mem = z /\ pool'.free = pool.free
  <2>1. PICK m, f : m = pool.mem /\ f = pool.free /\ pool = [mem |-> m, free |-> f]
    BY <1>5
  <2>2. pool' = [[mem |-> m, free |-> f] EXCEPT !.mem[q].next = x]
    BY <1>2, <2>1
  <2>3. PICK z : z = [m EXCEPT ![q].next = x]
    OBVIOUS
  <2>4. pool' = [mem |-> z, free |-> f]
    BY <2>2, <2>3, MemRelinked
  <2>5. Relinks(m, q, x, z)
    <3>1. m \in [A!NodeIds -> A!Nodes] /\ q \in A!NodeIds /\ x \in A!NodeIds
      BY <1>5, <1>10, <1>13, <2>1
    <3>2. Relinks(m, q, x, [m EXCEPT ![q].next = x])
      BY ONLY <3>1, Relinked
    <3>. QED
      BY <2>3, <3>2
  <2>6. pool'.mem = z /\ pool'.free = f
    BY ONLY <2>4
  <2>. QED
    BY <2>1, <2>4, <2>5, <2>6
<1>20. /\ pool'.mem \in [A!NodeIds -> A!Nodes]
       /\ \A k \in A!NodeIds : /\ k # q => pool'.mem[k] = pool.mem[k]
                               /\ pool'.mem[k].parent = pool.mem[k].parent
                               /\ A!StateOf(k)' = A!StateOf(k) /\ A!G(k)' = A!G(k)
       /\ pool'.mem[q].next = x /\ pool'.mem[q].valid = pool.mem[q].valid
  BY <1>19 DEF Relinks, A!StateOf, A!G
<1>21. /\ cursor' = [at |-> "path", next |-> q, parent |-> pool.mem[q].parent]
       /\ cursor'.at = "path" /\ cursor'.next = q /\ cursor'.parent = pool.mem[q].parent
  <2>1. PICK r : cursor = [at |-> "path", next |-> x, parent |-> r]
    BY <1>1, <1>2, <1>3 DEF A!Types, A!Cursors
  <2>2. cursor' = [at |-> "path", next |-> q, parent |-> pool.mem[q].parent]
    BY <1>2, <2>1
  <2>. QED
    BY <2>2
<1>22. A!Current' = {} /\ A!Known' = A!Known /\ A!Live' = A!Live /\ A!Allocated' = A!Allocated
  <2>1. A!Current' = {}
    BY <1>21 DEF A!Current
  <2>2. A!Known' = A!Known
    BY <1>2, <1>4, <2>1 DEF A!Known
  <2>3. A!Live' = {k \in A!Known : pool'.mem[k].valid} /\ A!Live = {k \in A!Known : pool.mem[k].valid}
    BY Zenon, <2>2 DEF A!Live
  <2>4. \A k \in A!Known : pool'.mem[k].valid = pool.mem[k].valid
    BY <1>5, <1>20
  <2>5. A!Live' = A!Live
    BY Zenon, <2>3, <2>4
  <2>6. A!Allocated' = A!Allocated
    BY <1>19 DEF A!Allocated
  <2>. QED
    BY <2>1, <2>2, <2>5, <2>6
<1>23. /\ \A v : A!ToGoal(v)' = A!ToGoal(v)
       /\ \A k \in A!NodeIds : A!ToGoal(A!StateOf(k))' = A!ToGoal(A!StateOf(k))
  BY <1>2, <1>20 DEF A!ToGoal, A!StateOf
<1>24. A!Types'
  <2>1. pool' \in [mem : [A!NodeIds -> A!Nodes], free : Seq(A!NodeIds)]
    BY <1>5, <1>19, <1>20
  <2>2. cursor' \in A!Cursors
    <3>1. pool.mem[q].parent \in A!NodeIds \union {A!null}
      BY <1>5, <1>13 DEF A!null
    <3>. QED
      BY <1>13, <1>21, <3>1 DEF A!Cursors
  <2>3. /\ problem \in A!Problems /\ closed \subseteq A!NodeIds /\ solution_cost \in Nat /\ cancelled \in BOOLEAN
        /\ open \in [set : SUBSET A!NodeIds, heap : {TRUE}, hash : SUBSET A!NodeIds]
    BY <1>3 DEF A!Types
  <2>. QED
    BY <1>2, <1>4, <2>1, <2>2, <2>3 DEF A!Types
<1>25. A!Books'
  <2>1. open'.hash = IF problem'.hashset THEN open'.set \cap A!Live' ELSE {}
    BY <1>2, <1>9, <1>22
  <2>. QED
    BY <1>2, <1>4, <1>9, <1>19, <1>22, <2>1 DEF A!Books, A!goal_
<1>26. A!Scores'
  <2>1. A!StateOf(1)' = Start /\ A!G(1)' = 0 /\ A!StateOf(2)' = problem'.goal /\ pool'.mem[2].next = 0
    BY <1>2, <1>5, <1>8, <1>18, <1>20
  <2>2. 1 \in A!Live' /\ pool'.mem[1].parent = 0
    BY <1>5, <1>8, <1>20, <1>22
  <2>3. \A i, j \in A!Live' : A!StateOf(i)' = A!StateOf(j)' => i = j
    BY <1>5, <1>8, <1>20, <1>22
  <2>4. \A i \in A!Known' : /\ problem'.best <= A!G(i)' + A!ToGoal(A!StateOf(i))'
                            /\ problem'.best = A!Infinity => A!ToGoal(A!StateOf(i))' = A!Infinity
    BY <1>2, <1>5, <1>8, <1>20, <1>22, <1>23
  <2>5. \A i \in closed' \union A!Current' : A!StateOf(i)' # problem'.goal
    BY <1>2, <1>4, <1>5, <1>8, <1>20, <1>22
  <2>. QED
    BY <1>2, <1>4, <2>1, <2>2, <2>3, <2>4, <2>5 DEF A!Scores, A!start_, A!goal_, A!null
<1>27. ASSUME NEW i \in A!NodeIds, A!ParentOK(i) PROVE A!ParentOK(i)'
  <2>0. PICK p : p = pool.mem[i].parent
    OBVIOUS
  <2>1. /\ p \in A!Known /\ A!StateOf(p) # problem.goal /\ <<A!StateOf(p), A!StateOf(i)>> \in Edges
        /\ A!G(p) + A!EdgeCost(p, i) <= A!G(i)
        /\ p \in A!Live \/ \E m \in A!Live : A!StateOf(m) = A!StateOf(p) /\ A!G(m) < A!G(p) /\ m \in open.set
    BY <1>4, <1>27, <2>0 DEF A!ParentOK
  <2>2. p \in A!NodeIds /\ A!StateOf(p)' = A!StateOf(p) /\ A!G(p)' = A!G(p)
    BY <1>5, <1>20, <2>1
  <2>3. A!StateOf(i)' = A!StateOf(i) /\ A!G(i)' = A!G(i) /\ pool'.mem[i].parent = p
    BY <1>20, <2>0
  <2>4. A!EdgeCost(p, i)' = A!EdgeCost(p, i)
    BY <1>2, <2>2, <2>3 DEF A!EdgeCost
  <2>5. p \in A!Live' \/ \E m \in A!Live' : /\ A!StateOf(m)' = A!StateOf(p)' /\ A!G(m)' < A!G(p)' /\ m \in open'.set
    <3>1. \A m \in A!Live : m \in A!NodeIds /\ A!StateOf(m)' = A!StateOf(m) /\ A!G(m)' = A!G(m)
      BY <1>5, <1>20
    <3>. QED
      BY <1>2, <1>22, <2>1, <2>2, <3>1
  <2>6. /\ p \in A!Known' /\ A!StateOf(p)' # problem'.goal /\ <<A!StateOf(p)', A!StateOf(i)'>> \in Edges
        /\ A!G(p)' + A!EdgeCost(p, i)' <= A!G(i)'
    BY <1>2, <1>22, <2>1, <2>2, <2>3, <2>4
  <2>. QED
    BY <2>3, <2>5, <2>6 DEF A!ParentOK
<1>28. A!Parents'
  <2>1. ASSUME NEW k \in A!Live \ {1} PROVE A!ParentOK(k)'
    <3>1. A!ParentOK(k) /\ k \in A!NodeIds
      BY <1>3, <1>4, <1>5 DEF A!Parents, A!start_
    <3>. QED
      BY <1>27, <3>1
  <2>. QED
    BY <1>22, <2>1 DEF A!Parents, A!start_
<1>29. A!Expanded' /\ A!PathFound' /\ A!FailureMeansUnreachable'
  BY <1>2, <1>4, <1>21 DEF A!Expanded, A!Searching, A!PathFound, A!FailureMeansUnreachable
<1>30. A!Linked' = A!Linked \union {q}
  <2>1. A!Linked' = {k \in A!Allocated : pool'.mem[k].next # 0}
    BY <1>22 DEF A!Linked, A!null
  <2>2. A!Linked = {k \in A!Allocated : pool.mem[k].next # 0}
    BY DEF A!Linked, A!null
  <2>3. \A k \in A!Allocated : k # q => pool'.mem[k].next = pool.mem[k].next
    BY <1>5, <1>20
  <2>. QED
    BY <1>5, <1>10, <1>18, <1>20, <2>1, <2>2, <2>3
<1>31. A!Path(q)'
  <2>1. A!Linked \subseteq A!NodeIds
    BY <1>5 DEF A!Linked
  <2>2. ASSUME NEW m \in A!Linked'
        PROVE  (LET n == pool.mem[m].next
                IN  /\ n \in A!Linked \union {2} /\ <<A!StateOf(m), A!StateOf(n)>> \in Edges
                    /\ A!G(n) = A!G(m) + A!EdgeCost(m, n))'
    <3>0. PICK n : n = pool'.mem[m].next
      OBVIOUS
    <3>1. /\ n \in A!Linked \union {2} /\ <<A!StateOf(m), A!StateOf(n)>> \in Edges
          /\ A!G(n) = A!G(m) + A!EdgeCost(m, n)
      <4>1. CASE m = q
        BY <1>7, <1>13, <1>16, <1>20, <3>0, <4>1
      <4>2. CASE m # q
        <5>1. m \in A!Linked /\ m \in A!NodeIds
          BY <1>30, <2>1, <4>2
        <5>2. n = pool.mem[m].next
          BY <1>20, <3>0, <4>2, <5>1
        <5>. QED
          BY <1>7, <5>1, <5>2
      <4>. QED
        BY <4>1, <4>2
    <3>2. m \in A!NodeIds /\ n \in A!NodeIds
      BY <1>5, <1>13, <1>30, <2>1, <3>1
    <3>3. A!StateOf(m)' = A!StateOf(m) /\ A!StateOf(n)' = A!StateOf(n) /\ A!G(m)' = A!G(m) /\ A!G(n)' = A!G(n)
      BY <1>20, <3>2
    <3>4. A!EdgeCost(m, n)' = A!EdgeCost(m, n)
      BY <1>2, <3>3 DEF A!EdgeCost
    <3>. QED
      BY <1>30, <3>0, <3>1, <3>3, <3>4
  <2>3. ASSUME NEW n \in (A!Linked' \union {2}) \ {q}
        PROVE  /\ pool'.mem[n].parent \in A!Linked' /\ pool'.mem[pool'.mem[n].parent].next = n
               /\ A!G(q)' < A!G(n)'
    <3>1. n \in A!Linked \union {2} /\ n \in A!NodeIds
      BY <1>5, <1>30, <2>1, <2>3
    <3>2. pool'.mem[n].parent = pool.mem[n].parent /\ A!G(q)' = A!G(q) /\ A!G(n)' = A!G(n)
      BY <1>13, <1>20, <3>1
    <3>3. CASE n = x
      BY <1>6, <1>16, <1>20, <1>30, <3>2, <3>3
    <3>4. CASE n # x
      <4>0. PICK p : p = pool.mem[n].parent
        OBVIOUS
      <4>1. p \in A!Linked /\ pool.mem[p].next = n /\ A!G(x) < A!G(n)
        BY <1>7, <3>1, <3>4, <4>0
      <4>2. p # q /\ p \in A!NodeIds
        BY <1>18, <2>1, <4>1
      <4>3. pool'.mem[p].next = n
        BY <1>20, <4>1, <4>2
      <4>4. A!G(q) < A!G(n)
        <5>1. A!G(n) \in Nat
          BY <1>5, <3>1
        <5>. QED
          BY <1>15, <1>16, <4>1, <5>1
      <4>. QED
        BY <1>30, <3>2, <4>0, <4>1, <4>3, <4>4
    <3>. QED
      BY <3>3, <3>4
  <2>4. problem'.best < 1000 /\ A!G(2)' = problem'.best /\ q \in A!Linked' \union {2} /\ 2 \notin A!Linked'
    BY <1>2, <1>5, <1>7, <1>18, <1>20, <1>30
  <2>. QED
    BY <2>2, <2>3, <2>4 DEF A!Path, A!goal_, A!Infinity
<1>32. A!PathSoFar'
  <2>1. A!Path(cursor.next)'
    BY <1>21, <1>31 DEF A!Path
  <2>2. cursor'.parent = pool'.mem[cursor'.next].parent
    BY <1>13, <1>20, <1>21
  <2>3. A!ParentOK(2)'
    BY <1>5, <1>6, <1>27
  <2>4. A!Linked' \subseteq A!Live'
    BY <1>6, <1>17, <1>22, <1>30
  <2>5. \A n \in A!Linked' : A!G(n)' + A!ToGoal(A!StateOf(n))' = problem'.best
    BY <1>2, <1>5, <1>6, <1>13, <1>16, <1>20, <1>23, <1>30
  <2>. QED
    BY <2>1, <2>2, <2>3, <2>4, <2>5 DEF A!PathSoFar, A!goal_
<1>. QED
  BY <1>24, <1>25, <1>26, <1>28, <1>29, <1>32 DEF A!Inv

(* What step() frees when the path is linked: the nodes that are not on it. *)
LEMMA FreedUnused ==
    ASSUME A!Types, A!Books, status = "RUNNING", A!Current = {}, A!Linked \subseteq A!Live
    PROVE  LET r == A!free_unused_nodes(pool)
           IN  /\ r = [mem |-> pool.mem, free |-> r.free] /\ r.mem = pool.mem
               /\ r.free \in Seq(A!NodeIds) /\ A!IsInjective(r.free)
               /\ A!Range(r.free) = (A!Known \ A!Linked) \union A!Range(pool.free)
<1>. DEFINE r == A!free_unused_nodes(pool)
            unused == {n \in open.set \union closed : pool.mem[n].next = 0}
            gone == {n \in open.set : ~pool.mem[n].valid}
            off == {n \in open.hash \union closed : pool.mem[n].next = 0}
<1>1. /\ pool.mem \in [A!NodeIds -> A!Nodes] /\ pool.free \in Seq(A!NodeIds)
      /\ pool = [mem |-> pool.mem, free |-> pool.free]
      /\ A!Known \subseteq A!NodeIds /\ A!Live \subseteq A!Known /\ A!Allocated \subseteq A!NodeIds
      /\ open.set \subseteq A!NodeIds /\ open.hash \subseteq A!NodeIds /\ closed \subseteq A!NodeIds
      /\ problem \in A!Problems
  BY TypedNodes
<1>2. /\ A!Allocated = {2} \union A!Known /\ 2 \notin A!Known /\ open.set \cap closed = {}
      /\ open.hash = (IF problem.hashset THEN open.set \cap A!Live ELSE {})
      /\ closed \subseteq A!Live /\ A!IsInjective(pool.free)
  BY DEF A!Books, A!goal_
<1>3. A!Known = open.set \union closed
  BY DEF A!Known
<1>4. A!Known \cap A!Range(pool.free) = {}
  BY <1>2 DEF A!Allocated
<1>5. unused = A!Known \ A!Linked
  BY <1>2, <1>3 DEF A!Linked, A!null
<1>6. CASE ~problem.hashset
  <2>1. r = A!destroy_nodes(pool, unused)
    BY <1>6 DEF A!free_unused_nodes, A!free_unused_vector, A!null
  <2>2. unused \in SUBSET A!NodeIds /\ unused \cap A!Range(pool.free) = {}
    BY <1>1, <1>4, <1>5
  <2>. HIDE DEF unused, r
  <2>. DEFINE t == A!destroy_nodes(pool, unused)
  <2>3. /\ t = [mem |-> pool.mem, free |-> t.free] /\ t.mem = pool.mem
        /\ t.free \in Seq(A!NodeIds) /\ A!IsInjective(t.free)
        /\ A!Range(t.free) = unused \union A!Range(pool.free)
    BY <1>1, <1>2, <2>2, Destroyed
  <2>. HIDE DEF t
  <2>4. r = t
    BY <2>1 DEF t
  <2>. QED
    BY <1>5, <2>3, <2>4 DEF r
<1>7. CASE problem.hashset
  <2>1. r = A!destroy_nodes(A!destroy_nodes(pool, gone), off)
    BY <1>7 DEF A!free_unused_nodes, A!free_unused_hashset, A!null
  <2>2. gone = open.set \ A!Live
    BY Zenon, <1>3 DEF A!Live
  <2>3. off = {n \in (open.set \cap A!Live) \union closed : pool.mem[n].next = 0}
    BY <1>2, <1>7
  <2>4. gone \union off = A!Known \ A!Linked /\ gone \cap off = {}
    <3>1. \A n \in A!Known : n \in A!Linked <=> pool.mem[n].next # 0
      BY <1>2 DEF A!Linked, A!null
    <3>. HIDE DEF gone, off
    <3>. QED
      BY <1>2, <1>3, <2>2, <2>3, <3>1
  <2>. HIDE DEF gone, off, r
  <2>5. /\ gone \in SUBSET A!NodeIds /\ off \in SUBSET A!NodeIds
        /\ gone \cap A!Range(pool.free) = {} /\ off \cap A!Range(pool.free) = {}
    BY <1>1, <1>4, <2>4
  <2>. DEFINE t == A!destroy_nodes(pool, gone)
  <2>6. /\ t = [mem |-> pool.mem, free |-> t.free] /\ t.mem = pool.mem
        /\ t.free \in Seq(A!NodeIds) /\ A!IsInjective(t.free)
        /\ A!Range(t.free) = gone \union A!Range(pool.free)
    BY <1>1, <1>2, <2>5, Destroyed
  <2>. HIDE DEF t
  <2>. DEFINE u == A!destroy_nodes(t, off)
  <2>7. /\ u = [mem |-> t.mem, free |-> u.free] /\ u.mem = t.mem
        /\ u.free \in Seq(A!NodeIds) /\ A!IsInjective(u.free)
        /\ A!Range(u.free) = off \union A!Range(t.free)
    <3>1. off \cap A!Range(t.free) = {}
      BY <2>4, <2>5, <2>6
    <3>2. t = [mem |-> t.mem, free |-> t.free]
      BY <2>6
    <3>. QED
      BY <2>5, <2>6, <3>1, <3>2, Destroyed
  <2>. HIDE DEF u
  <2>8. r = u
    BY <2>1 DEF t, u
  <2>9. A!Range(u.free) = (A!Known \ A!Linked) \union A!Range(pool.free)
    BY <2>4, <2>6, <2>7
  <2>10. u = [mem |-> pool.mem, free |-> u.free] /\ u.mem = pool.mem
    BY <2>6, <2>7
  <2>. QED
    BY <2>7, <2>8, <2>9, <2>10 DEF r
<1>. QED
  BY <1>6, <1>7

LEMMA FinishStep ==
    ASSUME A!Inv, A!Proper, A!Finish
    PROVE  A!Inv'
<1>1. PICK x : x = cursor.next
  OBVIOUS
<1>2. /\ cursor.at = "path" /\ pool.mem[x].state = pool.mem[1].state /\ problem' = problem
      /\ solution_cost' = A!G(2) /\ pool' = A!free_unused_nodes(pool)
      /\ open' = [open EXCEPT !.set = {}, !.hash = {}] /\ closed' = {}
      /\ cursor' = [at |-> "top"] /\ status' = "SUCCESS" /\ cancelled' = cancelled
  BY <1>1 DEF A!Finish, A!start_, A!goal_, A!G
<1>3. A!Types /\ A!Books /\ A!Scores /\ A!PathSoFar
  BY DEF A!Inv
<1>4. status = "RUNNING" /\ A!Current = {} /\ cursor'.at = "top"
  BY <1>2, <1>3 DEF A!Types, A!Current
<1>5. /\ 2 \in A!NodeIds /\ 1 \in A!NodeIds
      /\ pool.mem \in [A!NodeIds -> A!Nodes] /\ problem \in A!Problems
      /\ A!Known \subseteq A!NodeIds /\ A!Live \subseteq A!Known
      /\ A!G(2) \in Nat
      /\ open = [set |-> open.set, heap |-> open.heap, hash |-> open.hash] /\ open.heap = TRUE
  BY <1>3, TypedNodes
<1>6. /\ A!Path(x) /\ A!Linked \subseteq A!Live
  BY <1>1, <1>2, <1>3, <1>4 DEF A!PathSoFar, A!Path
<1>7. /\ A!StateOf(1) = Start /\ A!G(1) = 0 /\ A!StateOf(2) = problem.goal /\ pool.mem[2].next = 0
      /\ 1 \in A!Live /\ \A i, j \in A!Live : A!StateOf(i) = A!StateOf(j) => i = j
  BY <1>3, <1>4 DEF A!Scores, A!start_, A!goal_, A!null
<1>8. A!Allocated = {2} \union A!Known /\ 2 \notin A!Known
  BY <1>3, <1>4 DEF A!Books, A!goal_
<1>9. x = 1
  <2>1. x \in A!Linked \union {2}
    BY <1>6 DEF A!Path, A!goal_
  <2>2. x # 2
    <3>1. Start # problem.goal
      BY <1>5, ProblemFacts DEF A!Proper
    <3>. QED
      BY <1>2, <1>7, <3>1 DEF A!StateOf
  <2>3. x \in A!Live /\ A!StateOf(x) = A!StateOf(1)
    BY <1>2, <1>6, <2>1, <2>2 DEF A!StateOf
  <2>. QED
    BY <1>7, <2>3
<1>10. /\ pool' = [mem |-> pool.mem, free |-> pool'.free] /\ pool'.mem = pool.mem
       /\ pool'.free \in Seq(A!NodeIds) /\ A!IsInjective(pool'.free)
       /\ A!Range(pool'.free) = (A!Known \ A!Linked) \union A!Range(pool.free)
  <2>. DEFINE r == A!free_unused_nodes(pool)
  <2>1. /\ r = [mem |-> pool.mem, free |-> r.free] /\ r.mem = pool.mem
        /\ r.free \in Seq(A!NodeIds) /\ A!IsInjective(r.free)
        /\ A!Range(r.free) = (A!Known \ A!Linked) \union A!Range(pool.free)
    BY <1>3, <1>4, <1>6, FreedUnused
  <2>2. PICK p : p = r
    OBVIOUS
  <2>3. /\ p = [mem |-> pool.mem, free |-> p.free] /\ p.mem = pool.mem
        /\ p.free \in Seq(A!NodeIds) /\ A!IsInjective(p.free)
        /\ A!Range(p.free) = (A!Known \ A!Linked) \union A!Range(pool.free)
    <3>. HIDE DEF r
    <3>. QED
      BY <2>1, <2>2
  <2>4. pool' = p
    BY <1>2, <2>2
  <2>. HIDE DEF r
  <2>. QED
    BY <2>3, <2>4
<1>11. A!Allocated' = {2} \union A!Linked
  <2>1. A!Allocated' = A!Allocated \ (A!Known \ A!Linked)
    BY <1>10 DEF A!Allocated
  <2>2. A!Linked \subseteq A!Known
    BY <1>5, <1>6
  <2>. QED
    BY <1>8, <2>1, <2>2
<1>12. 2 \notin A!Linked /\ A!Linked' = A!Linked
  <2>1. 2 \notin A!Linked
    BY <1>6 DEF A!Path, A!goal_
  <2>2. A!Linked' = {n \in {2} \union A!Linked : pool.mem[n].next # 0}
    BY <1>10, <1>11 DEF A!Linked, A!null
  <2>3. \A n \in A!Linked : pool.mem[n].next # 0
    BY DEF A!Linked, A!null
  <2>. QED
    BY <1>7, <2>1, <2>2, <2>3
<1>13. A!Known' = {} /\ open' \in [set : SUBSET A!NodeIds, heap : {TRUE}, hash : SUBSET A!NodeIds]
  <2>1. PICK o, h, t : open = [set |-> o, heap |-> t, hash |-> h] /\ t = TRUE
    BY <1>5
  <2>2. open' = [set |-> {}, heap |-> t, hash |-> {}] /\ t = TRUE
    BY <1>2, <2>1
  <2>3. A!Current' = {}
    BY <1>4 DEF A!Current
  <2>4. open'.set = {} /\ open'.hash = {} /\ open' \in [set : SUBSET A!NodeIds, heap : {TRUE}, hash : SUBSET A!NodeIds]
    BY <2>2
  <2>. QED
    BY <1>2, <2>3, <2>4 DEF A!Known
<1>14. A!Types'
  <2>1. pool' \in [mem : [A!NodeIds -> A!Nodes], free : Seq(A!NodeIds)]
    BY <1>5, <1>10
  <2>2. cursor' \in A!Cursors
    BY <1>2 DEF A!Cursors
  <2>3. cancelled \in BOOLEAN
    BY <1>3 DEF A!Types
  <2>. QED
    BY <1>2, <1>4, <1>5, <1>13, <2>1, <2>2, <2>3 DEF A!Types
<1>15. A!Books'
  BY <1>2, <1>10, <1>11, <1>12 DEF A!Books, A!goal_
<1>16. A!Scores' /\ A!Parents' /\ A!Expanded' /\ A!PathSoFar' /\ A!FailureMeansUnreachable'
  BY <1>2, <1>7, <1>10 DEF A!Scores, A!Parents, A!Expanded, A!Searching, A!PathSoFar, A!FailureMeansUnreachable,
     A!StateOf, A!G, A!start_, A!goal_, A!null
<1>17. A!PathFound'
  <2>1. A!Path(1)'
    <3>1. A!Path(1)
      BY <1>6, <1>9
    <3>. QED
      BY <1>2, <1>10, <1>12, <3>1 DEF A!Path, A!StateOf, A!G, A!EdgeCost
  <2>2. solution_cost' = problem'.best
    BY <1>2, <1>6 DEF A!Path, A!goal_
  <2>. QED
    BY <2>1, <2>2 DEF A!PathFound, A!start_
<1>. QED
  BY <1>14, <1>15, <1>16, <1>17 DEF A!Inv

-----------------------------------------------------------------------------
(* A successor.  What the helpers leave of what a successor changes.        *)
LEMMA PoolOf ==
    ASSUME NEW p, NEW o, NEW c, NEW q
    PROVE  [[pool |-> p, open |-> o, closed |-> c] EXCEPT !.pool = q] = [pool |-> q, open |-> o, closed |-> c]
OBVIOUS

LEMMA OpenOf ==
    ASSUME NEW p, NEW o, NEW c, NEW q
    PROVE  [[pool |-> p, open |-> o, closed |-> c] EXCEPT !.open = q] = [pool |-> p, open |-> q, closed |-> c]
OBVIOUS

LEMMA ClosedOf ==
    ASSUME NEW p, NEW o, NEW c, NEW q
    PROVE  [[pool |-> p, open |-> o, closed |-> c] EXCEPT !.closed = q] = [pool |-> p, open |-> o, closed |-> q]
OBVIOUS

LEMMA MemOf ==
    ASSUME NEW m, NEW f, NEW z
    PROVE  [[mem |-> m, free |-> f] EXCEPT !.mem = z] = [mem |-> z, free |-> f]
OBVIOUS

LEMMA SetOf ==
    ASSUME NEW s, NEW h, NEW t, NEW q
    PROVE  [[set |-> s, heap |-> h, hash |-> t] EXCEPT !.set = q] = [set |-> q, heap |-> h, hash |-> t]
OBVIOUS

LEMMA HeapOf ==
    ASSUME NEW s, NEW h, NEW t, NEW q
    PROVE  [[set |-> s, heap |-> h, hash |-> t] EXCEPT !.heap = q] = [set |-> s, heap |-> q, hash |-> t]
OBVIOUS

LEMMA HashOf ==
    ASSUME NEW s, NEW h, NEW t, NEW q
    PROVE  [[set |-> s, heap |-> h, hash |-> t] EXCEPT !.hash = q] = [set |-> s, heap |-> h, hash |-> q]
OBVIOUS

Situation(m, f, s, h, t, c) ==
    [pool |-> [mem |-> m, free |-> f], open |-> [set |-> s, heap |-> h, hash |-> t], closed |-> c]

LEMMA PoolPart ==
    ASSUME NEW m, NEW f, NEW s, NEW h, NEW t, NEW c
    PROVE  Situation(m, f, s, h, t, c).pool = [mem |-> m, free |-> f]
<1>1. PICK p, o : p = [mem |-> m, free |-> f] /\ o = [set |-> s, heap |-> h, hash |-> t]
  OBVIOUS
<1>2. PICK a : a = Situation(m, f, s, h, t, c) /\ a = [pool |-> p, open |-> o, closed |-> c]
  BY <1>1 DEF Situation
<1>3. a.pool = p /\ a.open = o /\ a.closed = c
  BY ONLY <1>2
<1>. QED
  BY <1>1, <1>2, <1>3

LEMMA OpenPart ==
    ASSUME NEW m, NEW f, NEW s, NEW h, NEW t, NEW c
    PROVE  Situation(m, f, s, h, t, c).open = [set |-> s, heap |-> h, hash |-> t]
<1>1. PICK p, o : p = [mem |-> m, free |-> f] /\ o = [set |-> s, heap |-> h, hash |-> t]
  OBVIOUS
<1>2. PICK a : a = Situation(m, f, s, h, t, c) /\ a = [pool |-> p, open |-> o, closed |-> c]
  BY <1>1 DEF Situation
<1>3. a.pool = p /\ a.open = o /\ a.closed = c
  BY ONLY <1>2
<1>. QED
  BY <1>1, <1>2, <1>3

LEMMA ClosedPart ==
    ASSUME NEW m, NEW f, NEW s, NEW h, NEW t, NEW c
    PROVE  Situation(m, f, s, h, t, c).closed = c
<1>1. PICK p, o : p = [mem |-> m, free |-> f] /\ o = [set |-> s, heap |-> h, hash |-> t]
  OBVIOUS
<1>2. PICK a : a = Situation(m, f, s, h, t, c) /\ a = [pool |-> p, open |-> o, closed |-> c]
  BY <1>1 DEF Situation
<1>3. a.pool = p /\ a.open = o /\ a.closed = c
  BY ONLY <1>2
<1>. QED
  BY <1>1, <1>2, <1>3

LEMMA MemChanged ==
    ASSUME NEW m, NEW f, NEW s, NEW h, NEW t, NEW c, NEW z
    PROVE  [Situation(m, f, s, h, t, c) EXCEPT !.pool.mem = z] = Situation(z, f, s, h, t, c)
<1>. DEFINE a == Situation(m, f, s, h, t, c)
<1>2. a.pool = [mem |-> m, free |-> f]
  BY PoolPart
<1>1. a = Situation(m, f, s, h, t, c)
  OBVIOUS
<1>. HIDE DEF a
<1>3. [a EXCEPT !.pool.mem = z] = [a EXCEPT !.pool = [a.pool EXCEPT !.mem = z]]
  OBVIOUS
<1>4. [a.pool EXCEPT !.mem = z] = [mem |-> z, free |-> f]
  BY <1>2, MemOf
<1>5. PICK p, o, q : p = [mem |-> m, free |-> f] /\ o = [set |-> s, heap |-> h, hash |-> t] /\ q = [mem |-> z, free |-> f]
  OBVIOUS
<1>6. a = [pool |-> p, open |-> o, closed |-> c]
  BY <1>1, <1>5 DEF Situation
<1>7. [[pool |-> p, open |-> o, closed |-> c] EXCEPT !.pool = q] = [pool |-> q, open |-> o, closed |-> c]
  BY PoolOf
<1>8. [a EXCEPT !.pool.mem = z] = [pool |-> q, open |-> o, closed |-> c]
  BY Zenon, <1>3, <1>4, <1>5, <1>6, <1>7
<1>. QED
  BY Zenon, <1>1, <1>5, <1>8 DEF Situation

LEMMA PoolChanged ==
    ASSUME NEW m, NEW f, NEW s, NEW h, NEW t, NEW c, NEW n, NEW e
    PROVE  [Situation(m, f, s, h, t, c) EXCEPT !.pool = [mem |-> n, free |-> e]] = Situation(n, e, s, h, t, c)
<1>1. PICK p, o, q : p = [mem |-> m, free |-> f] /\ o = [set |-> s, heap |-> h, hash |-> t] /\ q = [mem |-> n, free |-> e]
  OBVIOUS
<1>2. [[pool |-> p, open |-> o, closed |-> c] EXCEPT !.pool = q] = [pool |-> q, open |-> o, closed |-> c]
  BY PoolOf
<1>. QED
  BY Zenon, <1>1, <1>2 DEF Situation

LEMMA OpenChanged ==
    ASSUME NEW m, NEW f, NEW s, NEW h, NEW t, NEW c, NEW w, NEW b, NEW u
    PROVE  [Situation(m, f, s, h, t, c) EXCEPT !.open = [set |-> w, heap |-> b, hash |-> u]]
             = Situation(m, f, w, b, u, c)
<1>1. PICK p, o, q : p = [mem |-> m, free |-> f] /\ o = [set |-> s, heap |-> h, hash |-> t]
                     /\ q = [set |-> w, heap |-> b, hash |-> u]
  OBVIOUS
<1>2. [[pool |-> p, open |-> o, closed |-> c] EXCEPT !.open = q] = [pool |-> p, open |-> q, closed |-> c]
  BY OpenOf
<1>. QED
  BY Zenon, <1>1, <1>2 DEF Situation

LEMMA ClosedChanged ==
    ASSUME NEW m, NEW f, NEW s, NEW h, NEW t, NEW c, NEW d
    PROVE  [Situation(m, f, s, h, t, c) EXCEPT !.closed = d] = Situation(m, f, s, h, t, d)
<1>1. PICK p, o : p = [mem |-> m, free |-> f] /\ o = [set |-> s, heap |-> h, hash |-> t]
  OBVIOUS
<1>2. [[pool |-> p, open |-> o, closed |-> c] EXCEPT !.closed = d] = [pool |-> p, open |-> o, closed |-> d]
  BY ClosedOf
<1>. QED
  BY Zenon, <1>1, <1>2 DEF Situation

LEMMA SetChanged ==
    ASSUME NEW m, NEW f, NEW s, NEW h, NEW t, NEW c, NEW w
    PROVE  [Situation(m, f, s, h, t, c) EXCEPT !.open.set = w] = Situation(m, f, w, h, t, c)
<1>. DEFINE a == Situation(m, f, s, h, t, c)
<1>2. a.open = [set |-> s, heap |-> h, hash |-> t]
  BY OpenPart
<1>6. [a EXCEPT !.open = [set |-> w, heap |-> h, hash |-> t]] = Situation(m, f, w, h, t, c)
  BY OpenChanged
<1>. HIDE DEF a
<1>3. [a EXCEPT !.open.set = w] = [a EXCEPT !.open = [a.open EXCEPT !.set = w]]
  OBVIOUS
<1>4. [a.open EXCEPT !.set = w] = [set |-> w, heap |-> h, hash |-> t]
  BY <1>2, SetOf
<1>5. [a EXCEPT !.open.set = w] = [a EXCEPT !.open = [set |-> w, heap |-> h, hash |-> t]]
  BY Zenon, <1>3, <1>4
<1>. QED
  BY Zenon, <1>5, <1>6 DEF a

LEMMA HeapChanged ==
    ASSUME NEW m, NEW f, NEW s, NEW h, NEW t, NEW c, NEW b
    PROVE  [Situation(m, f, s, h, t, c) EXCEPT !.open.heap = b] = Situation(m, f, s, b, t, c)
<1>. DEFINE a == Situation(m, f, s, h, t, c)
<1>2. a.open = [set |-> s, heap |-> h, hash |-> t]
  BY OpenPart
<1>6. [a EXCEPT !.open = [set |-> s, heap |-> b, hash |-> t]] = Situation(m, f, s, b, t, c)
  BY OpenChanged
<1>. HIDE DEF a
<1>3. [a EXCEPT !.open.heap = b] = [a EXCEPT !.open = [a.open EXCEPT !.heap = b]]
  OBVIOUS
<1>4. [a.open EXCEPT !.heap = b] = [set |-> s, heap |-> b, hash |-> t]
  BY <1>2, HeapOf
<1>5. [a EXCEPT !.open.heap = b] = [a EXCEPT !.open = [set |-> s, heap |-> b, hash |-> t]]
  BY Zenon, <1>3, <1>4
<1>. QED
  BY Zenon, <1>5, <1>6 DEF a

LEMMA HashChanged ==
    ASSUME NEW m, NEW f, NEW s, NEW h, NEW t, NEW c, NEW u
    PROVE  [Situation(m, f, s, h, t, c) EXCEPT !.open.hash = u] = Situation(m, f, s, h, u, c)
<1>. DEFINE a == Situation(m, f, s, h, t, c)
<1>2. a.open = [set |-> s, heap |-> h, hash |-> t]
  BY OpenPart
<1>6. [a EXCEPT !.open = [set |-> s, heap |-> h, hash |-> u]] = Situation(m, f, s, h, u, c)
  BY OpenChanged
<1>. HIDE DEF a
<1>3. [a EXCEPT !.open.hash = u] = [a EXCEPT !.open = [a.open EXCEPT !.hash = u]]
  OBVIOUS
<1>4. [a.open EXCEPT !.hash = u] = [set |-> s, heap |-> h, hash |-> u]
  BY <1>2, HashOf
<1>5. [a EXCEPT !.open.hash = u] = [a EXCEPT !.open = [set |-> s, heap |-> h, hash |-> u]]
  BY Zenon, <1>3, <1>4
<1>. QED
  BY Zenon, <1>5, <1>6 DEF a

Fresh(v, p, g, b) ==
    [state |-> v, g_score |-> g, parent |-> p, next |-> 0, valid |-> b]

(* Truth values as the provers are given them: by name.                     *)
IsTrue(b) ==
    b = TRUE

IsFalse(b) ==
    b = FALSE

StaysHeap(b, h, n, s) ==
    b = (h /\ n \notin s)

(* The parts of a search after an assignment.                               *)
IsRescored(z, m, n, p, g) ==
    z = [[m EXCEPT ![n].parent = p] EXCEPT ![n].g_score = g]

IsRevoked(z, m, n, b) ==
    z = [m EXCEPT ![n].valid = b]

IsBorn(z, m, n, v, p, g, b) ==
    z = [m EXCEPT ![n] = Fresh(v, p, g, b)]

IsHashed(t, u, n) ==
    t = IF problem.hashset THEN u \union {n} ELSE u

LEMMA PushedOpen ==
    ASSUME NEW m, NEW f, NEW s, NEW h, NEW t, NEW c, NEW n, NEW u, IsHashed(u, t, n)
    PROVE  A!push_open(Situation(m, f, s, h, t, c), n) = Situation(m, f, s \union {n}, h, u, c)
<1>. DEFINE a == Situation(m, f, s, h, t, c)
            w == s \union {n}
            b == Situation(m, f, w, h, t, c)
<1>1. a.open.set = s /\ a.open.hash = t
  <2>1. a.open = [set |-> s, heap |-> h, hash |-> t]
    BY OpenPart
  <2>. HIDE DEF a
  <2>. QED
    BY ONLY <2>1
<1>2. A!push_open(a, n) = [a EXCEPT !.open.set = a.open.set \union {n},
                                    !.open.hash = IF problem.hashset THEN a.open.hash \union {n} ELSE a.open.hash]
  BY DEF A!push_open
<1>3. A!push_open(a, n) = [a EXCEPT !.open.set = w, !.open.hash = u]
  <2>. HIDE DEF a
  <2>. QED
    BY Zenon, <1>1, <1>2 DEF IsHashed
<1>. HIDE DEF w
<1>4. [a EXCEPT !.open.set = w] = b
  BY SetChanged
<1>5. [b EXCEPT !.open.hash = u] = Situation(m, f, w, h, u, c)
  BY HashChanged
<1>. HIDE DEF a, b
<1>6. [a EXCEPT !.open.set = w, !.open.hash = u] = [[a EXCEPT !.open.set = w] EXCEPT !.open.hash = u]
  OBVIOUS
<1>7. A!push_open(a, n) = Situation(m, f, w, h, u, c)
  BY Zenon, <1>3, <1>4, <1>5, <1>6
<1>. QED
  BY Zenon, <1>7 DEF a, w

(* update() on a node; b is what it leaves of the heap.                     *)
LEMMA Updated ==
    ASSUME NEW m, NEW f, NEW s, NEW h, NEW t, NEW c, NEW n, NEW p, NEW g, NEW b, StaysHeap(b, h, n, s),
           NEW z, IsRescored(z, m, n, p, g)
    PROVE  A!update(Situation(m, f, s, h, t, c), n, p, g) = Situation(z, f, s, b, t, c)
<1>. DEFINE y == [m EXCEPT ![n].parent = p]
            a0 == Situation(m, f, s, h, t, c)
            a1 == Situation(y, f, s, h, t, c)
            a2 == Situation(z, f, s, h, t, c)
<1>1. y = [m EXCEPT ![n].parent = p] /\ z = [y EXCEPT ![n].g_score = g]
  BY Zenon DEF IsRescored
<1>. HIDE DEF y
<1>2. /\ a0.open = [set |-> s, heap |-> h, hash |-> t] /\ a0.pool = [mem |-> m, free |-> f]
      /\ a1.pool = [mem |-> y, free |-> f]
  BY OpenPart, PoolPart
<1>3. [a0 EXCEPT !.pool.mem = y] = a1
  BY MemChanged
<1>4. [a1 EXCEPT !.pool.mem = z] = a2
  BY MemChanged
<1>5. [a2 EXCEPT !.open.heap = b] = Situation(z, f, s, b, t, c)
  BY HeapChanged
<1>6. A!update(a0, n, p, g)
        = [a0 EXCEPT !.pool.mem[n].parent = p, !.pool.mem[n].g_score = g,
                     !.open.heap = a0.open.heap /\ n \notin a0.open.set]
  BY DEF A!update
<1>. HIDE DEF a0, a1, a2
<1>7. a0.open.heap = h /\ a0.open.set = s /\ a0.pool.mem = m /\ a1.pool.mem = y
  BY ONLY <1>2
<1>8. (a0.open.heap /\ n \notin a0.open.set) = b
  BY <1>7 DEF StaysHeap
<1>9. A!update(a0, n, p, g)
        = [a0 EXCEPT !.pool.mem[n].parent = p, !.pool.mem[n].g_score = g, !.open.heap = b]
  BY Zenon, <1>6, <1>8
<1>10. [a0 EXCEPT !.pool.mem[n].parent = p, !.pool.mem[n].g_score = g, !.open.heap = b]
         = [[[a0 EXCEPT !.pool.mem[n].parent = p] EXCEPT !.pool.mem[n].g_score = g] EXCEPT !.open.heap = b]
  OBVIOUS
<1>11. [a0 EXCEPT !.pool.mem[n].parent = p] = [a0 EXCEPT !.pool.mem = [a0.pool.mem EXCEPT ![n].parent = p]]
  OBVIOUS
<1>12. [a0 EXCEPT !.pool.mem[n].parent = p] = a1
  BY Zenon, <1>1, <1>3, <1>7, <1>11
<1>13. [a1 EXCEPT !.pool.mem[n].g_score = g] = [a1 EXCEPT !.pool.mem = [a1.pool.mem EXCEPT ![n].g_score = g]]
  OBVIOUS
<1>14. [a1 EXCEPT !.pool.mem[n].g_score = g] = a2
  BY Zenon, <1>1, <1>4, <1>7, <1>13
<1>15. A!update(a0, n, p, g) = [a2 EXCEPT !.open.heap = b]
  BY Zenon, <1>9, <1>10, <1>12, <1>14
<1>. QED
  BY Zenon, <1>5, <1>15 DEF a0, a2

LEMMA HeapMade ==
    ASSUME NEW m, NEW f, NEW s, NEW h, NEW t, NEW c, NEW b, IsTrue(b)
    PROVE  A!invalidate_open_heap(Situation(m, f, s, h, t, c)) = Situation(m, f, s, b, t, c)
<1>1. b = TRUE
  BY Zenon DEF IsTrue
<1>. DEFINE a == Situation(m, f, s, h, t, c)
<1>2. [a EXCEPT !.open.heap = b] = Situation(m, f, s, b, t, c)
  BY HeapChanged
<1>3. A!invalidate_open_heap(a) = [a EXCEPT !.open.heap = TRUE]
  BY DEF A!invalidate_open_heap
<1>. HIDE DEF a
<1>. QED
  BY Zenon, <1>1, <1>2, <1>3 DEF a

LEMMA Invalidated ==
    ASSUME NEW m, NEW f, NEW s, NEW h, NEW t, NEW c, NEW n, NEW b, IsFalse(b),
           NEW y, IsRevoked(y, m, n, b)
    PROVE  A!invalidate_open(Situation(m, f, s, h, t, c), n) = Situation(y, f, s, h, t \ {n}, c)
<1>. DEFINE u == t \ {n}
            a0 == Situation(m, f, s, h, t, c)
            a1 == Situation(y, f, s, h, t, c)
<1>1. y = [m EXCEPT ![n].valid = b] /\ u = t \ {n}
  BY Zenon DEF IsRevoked
<1>. HIDE DEF u
<1>2. a0.open = [set |-> s, heap |-> h, hash |-> t] /\ a0.pool = [mem |-> m, free |-> f]
  BY OpenPart, PoolPart
<1>3. [a0 EXCEPT !.pool.mem = y] = a1
  BY MemChanged
<1>4. [a1 EXCEPT !.open.hash = u] = Situation(y, f, s, h, u, c)
  BY HashChanged
<1>5. A!invalidate_open(a0, n) = [a0 EXCEPT !.pool.mem[n].valid = FALSE, !.open.hash = a0.open.hash \ {n}]
  BY DEF A!invalidate_open
<1>. HIDE DEF a0, a1
<1>6. a0.open.hash = t /\ a0.pool.mem = m
  BY ONLY <1>2
<1>7. A!invalidate_open(a0, n) = [a0 EXCEPT !.pool.mem[n].valid = b, !.open.hash = u]
  BY Zenon, <1>1, <1>5, <1>6 DEF IsFalse
<1>8. [a0 EXCEPT !.pool.mem[n].valid = b, !.open.hash = u]
        = [[a0 EXCEPT !.pool.mem[n].valid = b] EXCEPT !.open.hash = u]
  OBVIOUS
<1>9. [a0 EXCEPT !.pool.mem[n].valid = b] = [a0 EXCEPT !.pool.mem = [a0.pool.mem EXCEPT ![n].valid = b]]
  OBVIOUS
<1>10. [a0 EXCEPT !.pool.mem[n].valid = b] = a1
  BY Zenon, <1>1, <1>3, <1>6, <1>9
<1>11. A!invalidate_open(a0, n) = Situation(y, f, s, h, u, c)
  BY Zenon, <1>4, <1>7, <1>8, <1>10
<1>. QED
  BY Zenon, <1>11 DEF a0, u

LEMMA CreatedAndPushed ==
    ASSUME NEW m, NEW f, NEW s, NEW h, NEW t, NEW c, NEW v, NEW p, NEW g, NEW b, IsTrue(b),
           NEW z, IsBorn(z, m, Head(f), v, p, g, b), NEW u, IsHashed(u, t, Head(f))
    PROVE  A!create_and_push(Situation(m, f, s, h, t, c), v, p, g)
             = Situation(z, Tail(f), s \union {Head(f)}, h, u, c)
<1>. DEFINE n == Head(f)
            e == Tail(f)
            q == [A!Node(v) EXCEPT !.parent = p, !.g_score = g]
            a0 == Situation(m, f, s, h, t, c)
            a1 == Situation(z, e, s, h, t, c)
<1>1. q = Fresh(v, p, g, b)
  <2>1. A!Node(v) = [state |-> v, g_score |-> 0, parent |-> 0, next |-> 0, valid |-> b]
    BY Zenon DEF A!Node, A!null, IsTrue
  <2>2. [[state |-> v, g_score |-> 0, parent |-> 0, next |-> 0, valid |-> b] EXCEPT !.parent = p, !.g_score = g]
          = [state |-> v, g_score |-> g, parent |-> p, next |-> 0, valid |-> b]
    <3>. DEFINE r == [state |-> v, g_score |-> 0, parent |-> 0, next |-> 0, valid |-> b]
                w == [state |-> v, g_score |-> 0, parent |-> p, next |-> 0, valid |-> b]
    <3>1. [r EXCEPT !.parent = p] = w
      BY ONLY ParentSet
    <3>2. [w EXCEPT !.g_score = g] = [state |-> v, g_score |-> g, parent |-> p, next |-> 0, valid |-> b]
      BY ONLY ScoreSet
    <3>. HIDE DEF r, w
    <3>3. [r EXCEPT !.parent = p, !.g_score = g] = [[r EXCEPT !.parent = p] EXCEPT !.g_score = g]
      OBVIOUS
    <3>4. [r EXCEPT !.parent = p, !.g_score = g] = [state |-> v, g_score |-> g, parent |-> p, next |-> 0, valid |-> b]
      BY Zenon, <3>1, <3>2, <3>3
    <3>. QED
      BY Zenon, <3>4 DEF r
  <2>. QED
    BY Zenon, <2>1, <2>2 DEF Fresh
<1>2. z = [m EXCEPT ![n] = q] /\ q = [A!Node(v) EXCEPT !.parent = p, !.g_score = g] /\ n = Head(f) /\ e = Tail(f)
  <2>. HIDE DEF q
  <2>1. z = [m EXCEPT ![n] = q]
    BY Zenon, <1>1 DEF IsBorn
  <2>. QED
    BY Zenon, <2>1 DEF q
<1>0. IsHashed(u, t, n)
  OBVIOUS
<1>. HIDE DEF n, e, q
<1>3. a0.pool = [mem |-> m, free |-> f]
  BY PoolPart
<1>4. [a0 EXCEPT !.pool = [mem |-> z, free |-> e]] = a1
  BY PoolChanged
<1>5. A!push_open(a1, n) = Situation(z, e, s \union {n}, h, u, c)
  BY ONLY <1>0, PushedOpen
<1>. HIDE DEF a0, a1
<1>6. A!create_and_push(a0, v, p, g) = A!push_open([a0 EXCEPT !.pool = A!create_node(a0.pool, q)], A!allocate(a0.pool))
  BY Zenon, <1>2 DEF A!create_and_push
<1>7. a0.pool.mem = m /\ a0.pool.free = f
  BY ONLY <1>3
<1>8. A!allocate(a0.pool) = n
  BY Zenon, <1>2, <1>7 DEF A!allocate
<1>9. A!create_node(a0.pool, q) = [mem |-> [a0.pool.mem EXCEPT ![A!allocate(a0.pool)] = q], free |-> Tail(a0.pool.free)]
  BY DEF A!create_node
<1>10. A!create_node(a0.pool, q) = [mem |-> z, free |-> e]
  BY Zenon, <1>2, <1>7, <1>8, <1>9
<1>11. A!create_and_push(a0, v, p, g) = A!push_open(a1, n)
  BY Zenon, <1>4, <1>6, <1>8, <1>10
<1>12. A!create_and_push(a0, v, p, g) = Situation(z, e, s \union {n}, h, u, c)
  BY Zenon, <1>5, <1>11
<1>. QED
  BY Zenon, <1>12 DEF a0, n, e

(* The end of an alternative: the node is not a closed one any more.        *)
NotClosed(u, n) ==
    [u EXCEPT !.closed = u.closed \ {n}]

LEMMA Unclosed ==
    ASSUME NEW m, NEW f, NEW s, NEW h, NEW t, NEW c, NEW n
    PROVE  NotClosed(Situation(m, f, s, h, t, c), n) = Situation(m, f, s, h, t, c \ {n})
<1>. DEFINE a == Situation(m, f, s, h, t, c)
            d == c \ {n}
<1>1. a.closed = c
  BY ClosedPart
<1>. HIDE DEF d
<1>2. [a EXCEPT !.closed = d] = Situation(m, f, s, h, t, d)
  BY ClosedChanged
<1>. HIDE DEF a
<1>3. NotClosed(a, n) = [a EXCEPT !.closed = a.closed \ {n}]
  BY DEF NotClosed
<1>4. a.closed \ {n} = d
  BY <1>1 DEF d
<1>5. NotClosed(a, n) = Situation(m, f, s, h, t, d)
  BY Zenon, <1>2, <1>3, <1>4
<1>. QED
  BY Zenon, <1>5 DEF a, d

(* Which of its alternatives the analysis of a successor takes: the nodes   *)
(* found decide.                                                           *)
LEMMA VectorCases ==
    ASSUME NEW a, NEW c, NEW v, NEW g, NEW io, NEW ic, io = A!find_in_open_set(a, v), ic = A!find_in_closed_set(a, v)
    PROVE  /\ io \union ic = {} => A!analyze_vector(a, c, v, g) = A!create_and_push(a, v, c, g)
           /\ \A n : io \union ic = {n} /\ a.pool.mem[n].g_score <= g /\ ~(a.pool.mem[n].g_score > g) =>
                A!analyze_vector(a, c, v, g) = a
           /\ \A n : io = {n} /\ ic = {} /\ a.pool.mem[n].g_score > g /\ ~(a.pool.mem[n].g_score <= g) =>
                A!analyze_vector(a, c, v, g) = A!invalidate_open_heap(A!update(a, n, c, g))
           /\ \A n : io = {} /\ ic = {n} /\ a.pool.mem[n].g_score > g /\ ~(a.pool.mem[n].g_score <= g) =>
                A!analyze_vector(a, c, v, g) = NotClosed(A!push_open(A!update(a, n, c, g), n), n)
<1>. DEFINE k == CHOOSE i \in (IF io # {} THEN io ELSE ic) : TRUE
            r == A!analyze_vector(a, c, v, g)
            low(n) == a.pool.mem[n].g_score <= g
            high(n) == a.pool.mem[n].g_score > g
            e1 == A!create_and_push(a, v, c, g)
            e3 == A!invalidate_open_heap(A!update(a, k, c, g))
            e4 == NotClosed(A!push_open(A!update(a, k, c, g), k), k)
<1>1. r = CASE io \union ic = {} -> e1
            [] io \union ic # {} /\ low(k) -> a
            [] io # {} /\ high(k) -> e3
            [] io = {} /\ ic # {} /\ high(k) -> e4
  BY DEF A!analyze_vector, NotClosed
<1>2. \A n : io \union ic = {n} => k = n
  OBVIOUS
<1>. HIDE DEF k, r, low, high, e1, e3, e4
<1>3. io \union ic = {} => r = e1
  BY <1>1
<1>4. ASSUME NEW n, io \union ic = {n}, low(n), ~high(n) PROVE r = a
  <2>1. k = n /\ io \union ic # {}
    BY <1>2, <1>4
  <2>. QED
    BY <1>1, <1>4, <2>1
<1>5. ASSUME NEW n, io = {n}, ic = {}, high(n), ~low(n) PROVE r = e3 /\ k = n
  <2>1. k = n /\ io \union ic # {} /\ io # {}
    BY <1>2, <1>5
  <2>. QED
    BY <1>1, <1>5, <2>1
<1>6. ASSUME NEW n, io = {}, ic = {n}, high(n), ~low(n) PROVE r = e4 /\ k = n
  <2>1. k = n /\ io \union ic # {}
    BY <1>2, <1>6
  <2>. QED
    BY <1>1, <1>6, <2>1
<1>. QED
  BY <1>3, <1>4, <1>5, <1>6 DEF r, low, high, e1, e3, e4

LEMMA HashsetCases ==
    ASSUME NEW a, NEW c, NEW v, NEW g, NEW io, NEW ic, io = A!find_in_open_set(a, v), ic = A!find_in_closed_set(a, v)
    PROVE  /\ io \union ic = {} => A!analyze_hashset(a, c, v, g) = A!create_and_push(a, v, c, g)
           /\ \A n : io \union ic = {n} /\ a.pool.mem[n].g_score <= g /\ ~(a.pool.mem[n].g_score > g) =>
                A!analyze_hashset(a, c, v, g) = a
           /\ \A n : io = {n} /\ ic = {} /\ a.pool.mem[n].g_score > g /\ ~(a.pool.mem[n].g_score <= g) =>
                A!analyze_hashset(a, c, v, g) = A!create_and_push(A!invalidate_open(a, n), v, c, g)
           /\ \A n : io = {} /\ ic = {n} /\ a.pool.mem[n].g_score > g /\ ~(a.pool.mem[n].g_score <= g) =>
                A!analyze_hashset(a, c, v, g) = NotClosed(A!push_open(A!update(a, n, c, g), n), n)
<1>. DEFINE k == CHOOSE i \in (IF ic # {} THEN ic ELSE io) : TRUE
            r == A!analyze_hashset(a, c, v, g)
            low(n) == a.pool.mem[n].g_score <= g
            high(n) == a.pool.mem[n].g_score > g
            e1 == A!create_and_push(a, v, c, g)
            e3 == A!create_and_push(A!invalidate_open(a, k), v, c, g)
            e4 == NotClosed(A!push_open(A!update(a, k, c, g), k), k)
<1>1. r = CASE io \union ic = {} -> e1
            [] io \union ic # {} /\ low(k) -> a
            [] ic # {} /\ high(k) -> e4
            [] ic = {} /\ io # {} /\ high(k) -> e3
  BY DEF A!analyze_hashset, NotClosed
<1>2. \A n : io \union ic = {n} => k = n
  OBVIOUS
<1>. HIDE DEF k, r, low, high, e1, e3, e4
<1>3. io \union ic = {} => r = e1
  BY <1>1
<1>4. ASSUME NEW n, io \union ic = {n}, low(n), ~high(n) PROVE r = a
  <2>1. k = n /\ io \union ic # {}
    BY <1>2, <1>4
  <2>. QED
    BY <1>1, <1>4, <2>1
<1>5. ASSUME NEW n, io = {n}, ic = {}, high(n), ~low(n) PROVE r = e3 /\ k = n
  <2>1. k = n /\ io \union ic # {} /\ io # {}
    BY <1>2, <1>5
  <2>. QED
    BY <1>1, <1>5, <2>1
<1>6. ASSUME NEW n, io = {}, ic = {n}, high(n), ~low(n) PROVE r = e4 /\ k = n
  <2>1. k = n /\ io \union ic # {}
    BY <1>2, <1>6
  <2>. QED
    BY <1>1, <1>6, <2>1
<1>. QED
  BY <1>3, <1>4, <1>5, <1>6 DEF r, low, high, e1, e3, e4

(* What an assignment of FALSE to a node's `valid` leaves, and what a new   *)
(* node leaves of the others.                                              *)
LEMMA ValidSet ==
    ASSUME NEW a, NEW b, NEW c, NEW d, NEW e, NEW k
    PROVE  [[state |-> a, g_score |-> b, parent |-> c, next |-> d, valid |-> e] EXCEPT !.valid = k]
             = [state |-> a, g_score |-> b, parent |-> c, next |-> d, valid |-> k]
OBVIOUS

Revokes(m, n, b, z) ==
    /\ z \in [A!NodeIds -> A!Nodes]
    /\ \A i \in A!NodeIds : i # n => z[i] = m[i]
    /\ z[n].parent = m[n].parent /\ z[n].g_score = m[n].g_score /\ z[n].state = m[n].state
    /\ z[n].next = m[n].next /\ z[n].valid = b

LEMMA Revoked ==
    ASSUME NEW m \in [A!NodeIds -> A!Nodes], NEW n \in A!NodeIds, NEW k \in BOOLEAN
    PROVE  Revokes(m, n, k, [m EXCEPT ![n].valid = k])
<1>. DEFINE r == [m[n] EXCEPT !.valid = k]
            z == [m EXCEPT ![n] = r]
<1>1. PICK a, b, c, d, e : /\ m[n] = [state |-> a, g_score |-> b, parent |-> c, next |-> d, valid |-> e]
                           /\ a \in Vertices /\ b \in Nat /\ c \in A!NodeIds \union {0} /\ d \in A!NodeIds \union {0}
  BY DEF A!Nodes, A!null
<1>2. r = [state |-> a, g_score |-> b, parent |-> c, next |-> d, valid |-> k]
  BY <1>1, ValidSet
<1>. HIDE DEF r
<1>3. r \in A!Nodes
  BY <1>1, <1>2 DEF A!Nodes, A!null
<1>4. z = [m EXCEPT ![n].valid = k]
  BY DEF r
<1>5. z \in [A!NodeIds -> A!Nodes] /\ z[n] = r /\ \A i \in A!NodeIds : i # n => z[i] = m[i]
  BY <1>3
<1>. HIDE DEF z
<1>7. /\ r.parent = c /\ r.g_score = b /\ r.state = a /\ r.next = d /\ r.valid = k
      /\ m[n].parent = c /\ m[n].g_score = b /\ m[n].state = a /\ m[n].next = d
  BY <1>1, <1>2
<1>8. Revokes(m, n, k, z)
  BY <1>5, <1>7 DEF Revokes
<1>. QED
  BY <1>4, <1>8

Births(m, n, v, p, g, b, z) ==
    /\ z \in [A!NodeIds -> A!Nodes]
    /\ \A i \in A!NodeIds : i # n => z[i] = m[i]
    /\ z[n].state = v /\ z[n].g_score = g /\ z[n].parent = p /\ z[n].next = 0 /\ z[n].valid = b

LEMMA Born ==
    ASSUME NEW m \in [A!NodeIds -> A!Nodes], NEW n \in A!NodeIds, NEW v \in Vertices, NEW p \in A!NodeIds,
           NEW g \in Nat, NEW b \in BOOLEAN
    PROVE  Births(m, n, v, p, g, b, [m EXCEPT ![n] = Fresh(v, p, g, b)])
<1>. DEFINE r == Fresh(v, p, g, b)
            z == [m EXCEPT ![n] = r]
<1>1. /\ r.state = v /\ r.g_score = g /\ r.parent = p /\ r.next = 0 /\ r.valid = b /\ r \in A!Nodes
  BY DEF Fresh, A!Nodes, A!null
<1>. HIDE DEF r
<1>2. z \in [A!NodeIds -> A!Nodes] /\ z[n] = r /\ \A i \in A!NodeIds : i # n => z[i] = m[i]
  BY <1>1
<1>. HIDE DEF z
<1>3. Births(m, n, v, p, g, b, z)
  BY <1>1, <1>2 DEF Births
<1>. QED
  BY <1>3 DEF z, r

(* What the analysis of a successor w of the node c, at the score g, makes  *)
(* of the search: the node x takes the state, or takes the better score,    *)
(* and the nodes of `gone` (at most one) are replaced by it.                *)
Takes(z, e, b, t, c, w, g, x, gone) ==
    /\ IsTrue(b)
    /\ z \in [A!NodeIds -> A!Nodes] /\ e \in Seq(A!NodeIds) /\ A!IsInjective(e)
    /\ t = IF problem.hashset THEN (open.hash \ gone) \union {x} ELSE open.hash
    /\ x \in A!NodeIds /\ x # 2 /\ x # c /\ x \notin gone /\ c \notin gone
    /\ z[x].state = w /\ z[x].g_score = g /\ z[x].parent = c /\ z[x].next = 0 /\ z[x].valid = b
    /\ \A k \in A!NodeIds : k # x /\ k \notin gone => z[k] = pool.mem[k]
    /\ gone \subseteq A!Live /\ gone \subseteq open.set /\ (gone # {} => problem.hashset)
    /\ \A k \in gone : /\ A!StateOf(k) = w /\ g < A!G(k)
                       /\ z[k].state = w /\ z[k].g_score = A!G(k) /\ z[k].parent = pool.mem[k].parent
                       /\ z[k].next = pool.mem[k].next /\ z[k].valid = FALSE
    /\ \A k \in A!Live : k \notin gone /\ A!StateOf(k) = w => k = x
    /\ \/ x \in A!Live /\ g < A!G(x) /\ A!StateOf(x) = w /\ gone = {} /\ A!Range(e) = A!Range(pool.free)
       \/ x \in A!Range(pool.free) /\ A!Range(e) = A!Range(pool.free) \ {x}

(* What the analysis finds, and what it knows of it.                        *)
LEMMA FoundNodes ==
    ASSUME A!Inv, cursor.at = "successors", NEW c, c = cursor.node, NEW w \in Vertices, w # A!StateOf(c),
           NEW a, a = Situation(pool.mem, pool.free, open.set, open.heap, open.hash, closed)
    PROVE  /\ status = "RUNNING" /\ A!Current = {c} /\ c \in A!Live /\ c \notin open.set \union closed
           /\ A!Known = open.set \union closed \union {c} /\ open.set \cap closed = {}
           /\ A!Allocated = {2} \union A!Known /\ 2 \notin A!Known /\ A!IsInjective(pool.free)
           /\ open.hash = (IF problem.hashset THEN open.set \cap A!Live ELSE {})
           /\ ~problem.hashset => open.set \subseteq A!Live
           /\ closed \subseteq A!Live
           /\ \A i, j \in A!Live : A!StateOf(i) = A!StateOf(j) => i = j
           /\ \A i \in A!Known : pool.mem[i].next = 0
           /\ A!find_in_open_set(a, w) = {n \in open.set : n \in A!Live /\ A!StateOf(n) = w}
           /\ A!find_in_closed_set(a, w) = {n \in closed : A!StateOf(n) = w}
<1>1. A!Types /\ A!Books /\ A!Scores /\ A!Expanded
  BY DEF A!Inv
<1>2. status = "RUNNING" /\ A!Current = {c} /\ A!Known = open.set \union closed \union {c}
  BY <1>1 DEF A!Types, A!Current, A!Known
<1>3. /\ A!Allocated = {2} \union A!Known /\ 2 \notin A!Known
      /\ A!Current \cap (open.set \union closed) = {} /\ closed \union A!Current \subseteq A!Live
      /\ open.set \cap closed = {} /\ A!IsInjective(pool.free)
      /\ ~problem.hashset => open.set \subseteq A!Live
      /\ open.hash = (IF problem.hashset THEN open.set \cap A!Live ELSE {})
  BY <1>1, <1>2 DEF A!Books, A!goal_
<1>4. \A i, j \in A!Live : A!StateOf(i) = A!StateOf(j) => i = j
  BY <1>1, <1>2 DEF A!Scores
<1>5. \A i \in A!Known : pool.mem[i].next = 0
  BY <1>1, <1>2 DEF A!Expanded, A!Searching, A!null
<1>6. PICK o, p : /\ o = [set |-> open.set, heap |-> open.heap, hash |-> open.hash]
                  /\ p = [mem |-> pool.mem, free |-> pool.free]
                  /\ a = [pool |-> p, open |-> o, closed |-> closed]
  BY DEF Situation
<1>7. a.pool.mem = pool.mem /\ a.open.set = open.set /\ a.open.hash = open.hash /\ a.closed = closed
  <2>1. a.pool = p /\ a.open = o /\ a.closed = closed
    BY ONLY <1>6
  <2>2. p.mem = pool.mem /\ o.set = open.set /\ o.hash = open.hash
    BY ONLY <1>6
  <2>. QED
    BY <2>1, <2>2
<1>8. A!find_in_open_set(a, w) = {n \in open.set : n \in A!Live /\ A!StateOf(n) = w}
  <2>1. \A n : a.pool.mem[n].state = A!StateOf(n)
    BY <1>7 DEF A!StateOf
  <2>2. CASE problem.hashset
    <3>1. A!find_in_open_set(a, w) = {n \in a.open.hash : a.pool.mem[n].state = w}
      BY <2>2 DEF A!find_in_open_set
    <3>2. a.open.hash = open.set \cap A!Live
      BY <1>3, <1>7, <2>2
    <3>. QED
      BY ONLY <2>1, <3>1, <3>2
  <2>3. CASE ~problem.hashset
    <3>1. A!find_in_open_set(a, w) = {n \in a.open.set : a.pool.mem[n].state = w}
      BY <2>3 DEF A!find_in_open_set
    <3>2. a.open.set = open.set /\ open.set \subseteq A!Live
      BY <1>3, <1>7, <2>3
    <3>. QED
      BY ONLY <2>1, <3>1, <3>2
  <2>. QED
    BY <2>2, <2>3
<1>9. A!find_in_closed_set(a, w) = {n \in closed : A!StateOf(n) = w}
  BY <1>7 DEF A!find_in_closed_set, A!hash, A!StateOf
<1>. QED
  BY <1>2, <1>3, <1>4, <1>5, <1>8, <1>9

(* A node of a worse score takes the better one.                            *)
LEMMA NodeImproved ==
    ASSUME A!Inv, cursor.at = "successors", NEW c, c = cursor.node, NEW w \in Vertices, w # A!StateOf(c),
           NEW g \in Nat, NEW n \in A!Live, A!StateOf(n) = w, g < A!G(n), NEW b, IsTrue(b),
           NEW z, IsRescored(z, pool.mem, n, c, g), NEW t, IsHashed(t, open.hash, n)
    PROVE  Takes(z, pool.free, b, t, c, w, g, n, {})
<1>. PICK a : a = Situation(pool.mem, pool.free, open.set, open.heap, open.hash, closed)
  OBVIOUS
<1>1. /\ A!Current = {c} /\ c \in A!Live /\ 2 \notin A!Known /\ A!IsInjective(pool.free)
      /\ \A i, j \in A!Live : A!StateOf(i) = A!StateOf(j) => i = j
      /\ \A i \in A!Known : pool.mem[i].next = 0
  BY FoundNodes
<1>2. /\ pool.mem \in [A!NodeIds -> A!Nodes] /\ pool.free \in Seq(A!NodeIds) /\ A!Known \subseteq A!NodeIds
      /\ A!Live \subseteq A!Known
  BY TypedNodes DEF A!Inv
<1>3. n \in A!NodeIds /\ c \in A!NodeIds /\ n \in A!Known /\ n # 2 /\ n # c
  BY <1>1, <1>2
<1>4. Rescores(pool.mem, n, c, g, z)
  <2>1. Rescores(pool.mem, n, c, g, [[pool.mem EXCEPT ![n].parent = c] EXCEPT ![n].g_score = g])
    BY <1>2, <1>3, Rescored
  <2>. QED
    BY Zenon, <2>1 DEF IsRescored
<1>5. pool.mem[n].valid = TRUE
  <2>1. pool.mem[n].valid /\ pool.mem[n].valid \in BOOLEAN
    <3>1. pool.mem[n].valid \in BOOLEAN
      BY <1>3, TypedNodes DEF A!Inv
    <3>2. pool.mem[n].valid
      BY Zenon DEF A!Live
    <3>. QED
      BY Zenon, <3>1, <3>2
  <2>. QED
    BY Zenon, <2>1
<1>6. z[n].valid = b
  BY Zenon, <1>4, <1>5 DEF Rescores, IsTrue
<1>7. /\ z \in [A!NodeIds -> A!Nodes] /\ \A k \in A!NodeIds : k # n => z[k] = pool.mem[k]
      /\ z[n].state = w /\ z[n].g_score = g /\ z[n].parent = c /\ z[n].next = 0
  BY <1>1, <1>3, <1>4 DEF Rescores, A!StateOf
<1>8. \A k \in A!Live : k \notin {} /\ A!StateOf(k) = w => k = n
  BY <1>1
<1>9. t = IF problem.hashset THEN (open.hash \ {}) \union {n} ELSE open.hash
  BY DEF IsHashed
<1>. QED
  BY <1>1, <1>2, <1>3, <1>6, <1>7, <1>8, <1>9 DEF Takes

(* A node is created; the node of a worse score it replaces, if there is    *)
(* one, was invalidated.                                                   *)
LEMMA NodeCreated ==
    ASSUME A!Inv, cursor.at = "successors", NEW c, c = cursor.node, NEW w \in Vertices, w # A!StateOf(c),
           NEW g \in Nat, NEW b, IsTrue(b), pool.free # <<>>, NEW x, x = Head(pool.free),
           NEW gone \in SUBSET A!Live, gone \subseteq open.set, gone # {} => problem.hashset,
           \A k \in A!Live : k \notin gone => A!StateOf(k) # w,
           NEW m \in [A!NodeIds -> A!Nodes], \A k \in A!NodeIds : k \notin gone => m[k] = pool.mem[k],
           \A k \in gone : /\ A!StateOf(k) = w /\ g < A!G(k)
                           /\ m[k].state = w /\ m[k].g_score = A!G(k) /\ m[k].parent = pool.mem[k].parent
                           /\ m[k].next = pool.mem[k].next /\ m[k].valid = FALSE,
           NEW z, IsBorn(z, m, x, w, c, g, b), NEW t, IsHashed(t, open.hash \ gone, x)
    PROVE  Takes(z, Tail(pool.free), b, t, c, w, g, x, gone) /\ x \notin A!Known
<1>. PICK a : a = Situation(pool.mem, pool.free, open.set, open.heap, open.hash, closed)
  OBVIOUS
<1>1. /\ A!Current = {c} /\ c \in A!Live /\ A!Allocated = {2} \union A!Known /\ A!IsInjective(pool.free)
      /\ c \notin open.set
  BY FoundNodes
<1>2. /\ pool.free \in Seq(A!NodeIds) /\ A!Known \subseteq A!NodeIds /\ A!Live \subseteq A!Known
  BY TypedNodes DEF A!Inv
<1>3. /\ x \in A!NodeIds /\ x \in A!Range(pool.free)
      /\ Tail(pool.free) \in Seq(A!NodeIds) /\ A!IsInjective(Tail(pool.free))
      /\ A!Range(Tail(pool.free)) = A!Range(pool.free) \ {x}
  BY <1>1, <1>2, Popped
<1>4. x \notin A!Known /\ x # 2 /\ x # c /\ x \notin gone /\ c \notin gone /\ c \in A!NodeIds
  BY <1>1, <1>2, <1>3 DEF A!Allocated
<1>5. Births(m, x, w, c, g, b, z)
  <2>1. b \in BOOLEAN
    BY Zenon DEF IsTrue
  <2>2. Births(m, x, w, c, g, b, [m EXCEPT ![x] = Fresh(w, c, g, b)])
    <3>1. m \in [A!NodeIds -> A!Nodes] /\ w \in Vertices /\ g \in Nat /\ x \in A!NodeIds /\ c \in A!NodeIds
      BY Zenon, <1>3, <1>4
    <3>. QED
      BY ONLY <2>1, <3>1, Born
  <2>. QED
    BY Zenon, <2>2 DEF IsBorn
<1>6. /\ z \in [A!NodeIds -> A!Nodes] /\ \A k \in A!NodeIds : k # x => z[k] = m[k]
      /\ z[x].state = w /\ z[x].g_score = g /\ z[x].parent = c /\ z[x].next = 0 /\ z[x].valid = b
  BY Zenon, <1>5 DEF Births
<1>7. \A k \in A!NodeIds : k # x /\ k \notin gone => z[k] = pool.mem[k]
  BY ONLY <1>6, \A k \in A!NodeIds : k \notin gone => m[k] = pool.mem[k]
<1>8. \A k \in gone : z[k] = m[k]
  BY <1>2, <1>4, <1>6
<1>9. \A k \in gone : /\ A!StateOf(k) = w /\ g < A!G(k)
                      /\ z[k].state = w /\ z[k].g_score = A!G(k) /\ z[k].parent = pool.mem[k].parent
                      /\ z[k].next = pool.mem[k].next /\ z[k].valid = FALSE
  <2>1. ASSUME NEW k \in gone
        PROVE  /\ A!StateOf(k) = w /\ g < A!G(k)
               /\ z[k].state = w /\ z[k].g_score = A!G(k) /\ z[k].parent = pool.mem[k].parent
               /\ z[k].next = pool.mem[k].next /\ z[k].valid = FALSE
    <3>1. z[k] = m[k]
      BY <1>8
    <3>2. /\ A!StateOf(k) = w /\ g < A!G(k)
          /\ m[k].state = w /\ m[k].g_score = A!G(k) /\ m[k].parent = pool.mem[k].parent
          /\ m[k].next = pool.mem[k].next /\ m[k].valid = FALSE
      BY Zenon
    <3>. QED
      BY Zenon, <3>1, <3>2
  <2>. QED
    BY Zenon, <2>1
<1>10. \A k \in A!Live : k \notin gone /\ A!StateOf(k) = w => k = x
  BY Zenon
<1>11. gone \subseteq A!Live /\ gone \subseteq open.set /\ (gone # {} => problem.hashset)
  OBVIOUS
<1>12. t = IF problem.hashset THEN (open.hash \ gone) \union {x} ELSE open.hash
  BY <1>11 DEF IsHashed
<1>. QED
  BY Zenon, <1>3, <1>4, <1>6, <1>7, <1>9, <1>10, <1>11, <1>12 DEF Takes

LEMMA Analyzed ==
    ASSUME A!Inv, cursor.at = "successors", pool.free # <<>>, NEW c, c = cursor.node, NEW w \in Vertices,
           w # A!StateOf(c), NEW g \in Nat, NEW now, now = [pool |-> pool, open |-> open, closed |-> closed],
           NEW r, r = IF problem.hashset THEN A!analyze_hashset(now, c, w, g) ELSE A!analyze_vector(now, c, w, g)
    PROVE  \/ r = now /\ \E k \in A!Live : A!StateOf(k) = w /\ A!G(k) <= g
           \/ \E z, e, b, t, x, gone :
                /\ r = Situation(z, e, open.set \union {x}, b, t, closed \ {x})
                /\ Takes(z, e, b, t, c, w, g, x, gone)
<1>. DEFINE Added == \E z, e, b, t, x, gone :
                   /\ r = Situation(z, e, open.set \union {x}, b, t, closed \ {x})
                   /\ Takes(z, e, b, t, c, w, g, x, gone)
<1>1. now = Situation(pool.mem, pool.free, open.set, open.heap, open.hash, closed)
  <2>1. /\ pool = [mem |-> pool.mem, free |-> pool.free]
        /\ open = [set |-> open.set, heap |-> open.heap, hash |-> open.hash]
    BY TypedNodes DEF A!Inv
  <2>. QED
    BY ONLY <2>1, now = [pool |-> pool, open |-> open, closed |-> closed] DEF Situation
<1>2. PICK io, ic : io = A!find_in_open_set(now, w) /\ ic = A!find_in_closed_set(now, w)
  OBVIOUS
<1>3. /\ A!Current = {c} /\ c \in A!Live /\ c \notin open.set \union closed
      /\ A!Known = open.set \union closed \union {c} /\ open.set \cap closed = {}
      /\ ~problem.hashset => open.set \subseteq A!Live
      /\ closed \subseteq A!Live
      /\ \A i, j \in A!Live : A!StateOf(i) = A!StateOf(j) => i = j
      /\ io = {n \in open.set : n \in A!Live /\ A!StateOf(n) = w}
      /\ ic = {n \in closed : A!StateOf(n) = w}
  BY <1>1, <1>2, FoundNodes
<1>4. /\ open.heap = TRUE /\ A!Live \subseteq A!Known /\ A!Known \subseteq A!NodeIds
      /\ pool.mem \in [A!NodeIds -> A!Nodes]
      /\ \A n \in A!NodeIds : A!G(n) \in Nat
  BY TypedNodes DEF A!Inv
<1>5. \A n \in A!Live : A!StateOf(n) = w => n \in open.set \union closed
  BY <1>3, <1>4
<1>6. PICK b, x : IsTrue(b) /\ x = Head(pool.free)
  BY DEF IsTrue
<1>7. \A n : now.pool.mem[n].g_score = A!G(n)
  <2>1. Situation(pool.mem, pool.free, open.set, open.heap, open.hash, closed).pool = [mem |-> pool.mem, free |-> pool.free]
    BY PoolPart
  <2>2. now.pool = [mem |-> pool.mem, free |-> pool.free]
    BY Zenon, <1>1, <2>1
  <2>3. now.pool.mem = pool.mem
    BY ONLY <2>2
  <2>. QED
    BY <2>3 DEF A!G
<1>8. CASE \A n \in A!Live : A!StateOf(n) # w
  <2>1. io \union ic = {}
    BY <1>3, <1>8
  <2>2. r = A!create_and_push(now, w, c, g)
    <3>2. CASE problem.hashset
      BY <1>2, <2>1, <3>2, HashsetCases
    <3>3. CASE ~problem.hashset
      BY <1>2, <2>1, <3>3, VectorCases
    <3>. QED
      BY <3>2, <3>3
  <2>3. PICK z, t : IsBorn(z, pool.mem, x, w, c, g, b) /\ IsHashed(t, open.hash, x)
    BY Zenon DEF IsBorn, IsHashed
  <2>4. r = Situation(z, Tail(pool.free), open.set \union {x}, open.heap, t, closed)
    <3>1. IsTrue(b) /\ IsBorn(z, pool.mem, Head(pool.free), w, c, g, b) /\ IsHashed(t, open.hash, Head(pool.free))
      BY Zenon, <1>6, <2>3
    <3>2. A!create_and_push(Situation(pool.mem, pool.free, open.set, open.heap, open.hash, closed), w, c, g)
            = Situation(z, Tail(pool.free), open.set \union {Head(pool.free)}, open.heap, t, closed)
      BY ONLY <3>1, CreatedAndPushed
    <3>. QED
      BY Zenon, <1>1, <1>6, <2>2, <3>2
  <2>5. Takes(z, Tail(pool.free), b, t, c, w, g, x, {}) /\ x \notin A!Known
    <3>1. IsHashed(t, open.hash \ {}, x)
      <4>1. open.hash \ {} = open.hash
        OBVIOUS
      <4>. QED
        BY Zenon, <2>3, <4>1
    <3>2. {} \in SUBSET A!Live /\ {} \subseteq open.set /\ ({} # {} => problem.hashset)
      OBVIOUS
    <3>3. \A k \in A!Live : k \notin {} => A!StateOf(k) # w
      BY Zenon, <1>8
    <3>4. \A k \in {} : /\ A!StateOf(k) = w /\ g < A!G(k)
                         /\ pool.mem[k].state = w /\ pool.mem[k].g_score = A!G(k)
                         /\ pool.mem[k].parent = pool.mem[k].parent
                         /\ pool.mem[k].next = pool.mem[k].next /\ pool.mem[k].valid = FALSE
      OBVIOUS
    <3>5. pool.mem \in [A!NodeIds -> A!Nodes] /\ \A k \in A!NodeIds : k \notin {} => pool.mem[k] = pool.mem[k]
      BY Zenon, <1>4
    <3>. QED
      BY ONLY A!Inv, cursor.at = "successors", pool.free # <<>>, c = cursor.node, w \in Vertices, g \in Nat,
              w # A!StateOf(c), <1>6, <2>3, <3>1, <3>2, <3>3, <3>4, <3>5, NodeCreated
  <2>6. closed \ {x} = closed
    BY <1>3, <2>5
  <2>7. r = Situation(z, Tail(pool.free), open.set \union {x}, b, t, closed \ {x})
    BY Zenon, <1>4, <1>6, <2>4, <2>6 DEF IsTrue
  <2>. QED
    BY Zenon, <2>5, <2>7
<1>9. ASSUME NEW n \in A!Live, A!StateOf(n) = w, A!G(n) <= g PROVE r = now
  <2>1. io \union ic = {n}
    BY <1>3, <1>5, <1>9
  <2>2. now.pool.mem[n].g_score <= g /\ ~(now.pool.mem[n].g_score > g)
    BY <1>4, <1>7, <1>9
  <2>3. CASE problem.hashset
    BY <1>2, <2>1, <2>2, <2>3, HashsetCases
  <2>4. CASE ~problem.hashset
    BY <1>2, <2>1, <2>2, <2>4, VectorCases
  <2>. QED
    BY <2>3, <2>4
<1>10. ASSUME NEW n \in A!Live, A!StateOf(n) = w, ~(A!G(n) <= g), n \in closed PROVE Added
  <2>1. io = {} /\ ic = {n} /\ n \notin open.set
    BY <1>3, <1>5, <1>10
  <2>2. now.pool.mem[n].g_score > g /\ ~(now.pool.mem[n].g_score <= g) /\ g < A!G(n)
    BY <1>4, <1>7, <1>10
  <2>3. PICK u : u = A!push_open(A!update(now, n, c, g), n)
    OBVIOUS
  <2>4. r = NotClosed(u, n)
    <3>1. CASE problem.hashset
      BY <1>2, <2>1, <2>2, <2>3, <3>1, HashsetCases
    <3>2. CASE ~problem.hashset
      BY <1>2, <2>1, <2>2, <2>3, <3>2, VectorCases
    <3>. QED
      BY <3>1, <3>2
  <2>5. PICK z, t : IsRescored(z, pool.mem, n, c, g) /\ IsHashed(t, open.hash, n)
    BY Zenon DEF IsRescored, IsHashed
  <2>6. A!update(now, n, c, g) = Situation(z, pool.free, open.set, b, open.hash, closed)
    <3>1. StaysHeap(b, open.heap, n, open.set)
      BY Zenon, <1>4, <1>6, <2>1 DEF StaysHeap, IsTrue
    <3>3. A!update(Situation(pool.mem, pool.free, open.set, open.heap, open.hash, closed), n, c, g)
            = Situation(z, pool.free, open.set, b, open.hash, closed)
      BY ONLY <2>5, <3>1, Updated
    <3>. QED
      BY Zenon, <1>1, <3>3
  <2>7. u = Situation(z, pool.free, open.set \union {n}, b, t, closed)
    <3>1. A!push_open(Situation(z, pool.free, open.set, b, open.hash, closed), n)
            = Situation(z, pool.free, open.set \union {n}, b, t, closed)
      BY ONLY <2>5, PushedOpen
    <3>. QED
      BY Zenon, <2>3, <2>6, <3>1
  <2>8. r = Situation(z, pool.free, open.set \union {n}, b, t, closed \ {n})
    <3>1. NotClosed(Situation(z, pool.free, open.set \union {n}, b, t, closed), n)
            = Situation(z, pool.free, open.set \union {n}, b, t, closed \ {n})
      BY ONLY Unclosed
    <3>. QED
      BY Zenon, <2>4, <2>7, <3>1
  <2>9. Takes(z, pool.free, b, t, c, w, g, n, {})
    BY ONLY A!Inv, cursor.at = "successors", c = cursor.node, w \in Vertices, w # A!StateOf(c), g \in Nat,
            n \in A!Live, <1>6, <1>10, <2>2, <2>5, NodeImproved
  <2>. QED
    BY Zenon, <2>8, <2>9
<1>11. ASSUME NEW n \in A!Live, A!StateOf(n) = w, ~(A!G(n) <= g), n \in open.set PROVE Added
  <2>1. io = {n} /\ ic = {} /\ n \notin closed
    BY <1>3, <1>5, <1>11
  <2>2. now.pool.mem[n].g_score > g /\ ~(now.pool.mem[n].g_score <= g) /\ g < A!G(n)
    BY <1>4, <1>7, <1>11
  <2>3. CASE ~problem.hashset
    <3>1. PICK z, h : IsRescored(z, pool.mem, n, c, g) /\ StaysHeap(h, open.heap, n, open.set)
      BY Zenon DEF IsRescored, StaysHeap
    <3>2. r = A!invalidate_open_heap(A!update(now, n, c, g))
      BY <1>2, <2>1, <2>2, <2>3, VectorCases
    <3>3. A!update(Situation(pool.mem, pool.free, open.set, open.heap, open.hash, closed), n, c, g)
            = Situation(z, pool.free, open.set, h, open.hash, closed)
      BY ONLY <3>1, Updated
    <3>4. A!invalidate_open_heap(Situation(z, pool.free, open.set, h, open.hash, closed))
            = Situation(z, pool.free, open.set, b, open.hash, closed)
      BY ONLY <1>6, HeapMade
    <3>5. open.set \union {n} = open.set /\ closed \ {n} = closed
      BY <1>11, <2>1
    <3>6. r = Situation(z, pool.free, open.set, b, open.hash, closed)
      BY Zenon, <1>1, <3>2, <3>3, <3>4
    <3>7. r = Situation(z, pool.free, open.set \union {n}, b, open.hash, closed \ {n})
      BY Zenon, <3>5, <3>6
    <3>8. IsHashed(open.hash, open.hash, n)
      BY <2>3 DEF IsHashed
    <3>9. Takes(z, pool.free, b, open.hash, c, w, g, n, {})
      BY ONLY A!Inv, cursor.at = "successors", c = cursor.node, w \in Vertices, w # A!StateOf(c), g \in Nat,
              n \in A!Live, <1>6, <1>11, <2>2, <3>1, <3>8, NodeImproved
    <3>. QED
      BY Zenon, <3>7, <3>9
  <2>4. CASE problem.hashset
    <3>1. PICK f, m : IsFalse(f) /\ IsRevoked(m, pool.mem, n, f)
      BY Zenon DEF IsFalse, IsRevoked
    <3>10. PICK z, t : IsBorn(z, m, x, w, c, g, b) /\ IsHashed(t, open.hash \ {n}, x)
      BY Zenon DEF IsBorn, IsHashed
    <3>2. r = A!create_and_push(A!invalidate_open(now, n), w, c, g)
      BY <1>2, <2>1, <2>2, <2>4, HashsetCases
    <3>3. A!invalidate_open(Situation(pool.mem, pool.free, open.set, open.heap, open.hash, closed), n)
            = Situation(m, pool.free, open.set, open.heap, open.hash \ {n}, closed)
      BY ONLY <3>1, Invalidated
    <3>5. IsBorn(z, m, Head(pool.free), w, c, g, b) /\ IsHashed(t, open.hash \ {n}, Head(pool.free))
      BY Zenon, <1>6, <3>10
    <3>4. A!create_and_push(Situation(m, pool.free, open.set, open.heap, open.hash \ {n}, closed), w, c, g)
            = Situation(z, Tail(pool.free), open.set \union {Head(pool.free)}, open.heap, t, closed)
      BY ONLY <1>6, <3>5, CreatedAndPushed
    <3>6. r = Situation(z, Tail(pool.free), open.set \union {x}, open.heap, t, closed)
      BY Zenon, <1>1, <1>6, <3>2, <3>3, <3>4
    <3>7. Revokes(pool.mem, n, f, m)
      <4>1. f \in BOOLEAN /\ n \in A!NodeIds
        <5>1. f \in BOOLEAN
          BY Zenon, <3>1 DEF IsFalse
        <5>2. n \in A!NodeIds
          BY <1>4
        <5>. QED
          BY Zenon, <5>1, <5>2
      <4>2. Revokes(pool.mem, n, f, [pool.mem EXCEPT ![n].valid = f])
        BY ONLY <1>4, <4>1, Revoked
      <4>. QED
        BY Zenon, <3>1, <4>2 DEF IsRevoked
    <3>8. Takes(z, Tail(pool.free), b, t, c, w, g, x, {n}) /\ x \notin A!Known
      <4>1. m \in [A!NodeIds -> A!Nodes] /\ \A k \in A!NodeIds : k \notin {n} => m[k] = pool.mem[k]
        BY <3>7 DEF Revokes
      <4>2. \A k \in {n} : /\ A!StateOf(k) = w /\ g < A!G(k)
                           /\ m[k].state = w /\ m[k].g_score = A!G(k) /\ m[k].parent = pool.mem[k].parent
                           /\ m[k].next = pool.mem[k].next /\ m[k].valid = FALSE
        <5>1. /\ A!StateOf(n) = w /\ g < A!G(n)
              /\ m[n].state = w /\ m[n].g_score = A!G(n) /\ m[n].parent = pool.mem[n].parent
              /\ m[n].next = pool.mem[n].next
          BY <1>11, <2>2, <3>7 DEF Revokes, A!StateOf, A!G
        <5>2. m[n].valid = FALSE
          BY Zenon, <3>1, <3>7 DEF Revokes, IsFalse
        <5>. QED
          BY Zenon, <5>1, <5>2
      <4>3. {n} \in SUBSET A!Live /\ {n} \subseteq open.set /\ ({n} # {} => problem.hashset)
        BY <1>11, <2>4
      <4>4. \A k \in A!Live : k \notin {n} => A!StateOf(k) # w
        BY <1>3, <1>11
      <4>. QED
        BY ONLY A!Inv, cursor.at = "successors", pool.free # <<>>, c = cursor.node, w \in Vertices, g \in Nat,
                w # A!StateOf(c), <1>6, <3>10, <4>1, <4>2, <4>3, <4>4, NodeCreated
    <3>9. closed \ {x} = closed
      BY <1>3, <3>8
    <3>11. r = Situation(z, Tail(pool.free), open.set \union {x}, b, t, closed \ {x})
      BY Zenon, <1>4, <1>6, <3>6, <3>9 DEF IsTrue
    <3>. QED
      BY Zenon, <3>8, <3>11
  <2>. QED
    BY <2>3, <2>4
<1>. HIDE DEF Added
<1>12. CASE \E n \in A!Live : A!StateOf(n) = w
  <2>1. PICK n \in A!Live : A!StateOf(n) = w
    BY <1>12
  <2>2. CASE A!G(n) <= g
    BY <1>9, <2>1, <2>2
  <2>3. CASE ~(A!G(n) <= g)
    <3>1. Added
      BY <1>5, <1>10, <1>11, <2>1, <2>3
    <3>. QED
      BY <3>1 DEF Added
  <2>. QED
    BY <2>2, <2>3
<1>. QED
  BY <1>8, <1>12

(* The successors still to be analyzed.                                     *)
LEMMA HeadOrTail ==
    ASSUME NEW ids, NEW s \in Seq(ids), s # <<>>
    PROVE  /\ Head(s) \in ids /\ Tail(s) \in Seq(ids)
           /\ A!Range(s) = {Head(s)} \union A!Range(Tail(s))
<1>1. /\ Len(s) \in Nat /\ Len(s) >= 1 /\ DOMAIN s = 1 .. Len(s) /\ Head(s) = s[1] /\ Head(s) \in ids
      /\ Tail(s) \in Seq(ids) /\ DOMAIN Tail(s) = 1 .. Len(s) - 1
      /\ \A i \in 1 .. Len(s) - 1 : Tail(s)[i] = s[i + 1]
  OBVIOUS
<1>. DEFINE t == Tail(s)
<1>. HIDE DEF t
<1>2. \A i \in DOMAIN t : i + 1 \in DOMAIN s /\ t[i] = s[i + 1]
  BY <1>1 DEF t
<1>3. \A i \in DOMAIN s : i # 1 => i - 1 \in DOMAIN t /\ t[i - 1] = s[i]
  <2>1. ASSUME NEW i \in DOMAIN s, i # 1 PROVE i - 1 \in DOMAIN t /\ t[i - 1] = s[i]
    <3>1. i - 1 \in 1 .. Len(s) - 1 /\ (i - 1) + 1 = i
      BY <1>1, <2>1
    <3>2. t[i - 1] = s[(i - 1) + 1]
      BY <1>1, <3>1 DEF t
    <3>. QED
      BY <1>1, <3>1, <3>2 DEF t
  <2>. QED
    BY <2>1
<1>4. 1 \in DOMAIN s
  BY <1>1
<1>5. A!Range(s) = {s[1]} \union A!Range(t)
  <2>1. \A i \in DOMAIN t : t[i] \in A!Range(s)
    BY <1>2 DEF A!Range
  <2>2. \A i \in DOMAIN s : s[i] = s[1] \/ s[i] \in A!Range(t)
    BY <1>3 DEF A!Range
  <2>3. s[1] \in A!Range(s)
    BY <1>4 DEF A!Range
  <2>. QED
    BY <2>1, <2>2, <2>3 DEF A!Range
<1>. QED
  BY <1>1, <1>5 DEF t

(* The loop over the successors of c takes w, at the score g, and o is      *)
(* what it leaves to do.                                                   *)
Successor(c, w, g, o) ==
    /\ cursor.at = "successors" /\ c = cursor.node /\ pool.free # <<>>
    /\ w \in Vertices /\ o \in Seq(Vertices) /\ A!Range(cursor.todo) = {w} \union A!Range(o)
    /\ cursor' = [at |-> "successors", node |-> c, todo |-> o]
    /\ <<A!StateOf(c), w>> \in Edges /\ w # A!StateOf(c) /\ problem.cost[<<A!StateOf(c), w>>] \in Nat \ {0}
    /\ g \in Nat /\ g = A!G(c) + problem.cost[<<A!StateOf(c), w>>]
    /\ problem' = problem /\ status' = status /\ solution_cost' = solution_cost /\ cancelled' = cancelled

(* A node of the successor's state is there already, with a score as good.  *)
LEMMA SuccessorKept ==
    ASSUME A!Inv, NEW c, NEW w, NEW g, NEW o, Successor(c, w, g, o),
           pool' = pool, open' = open, closed' = closed,
           \E k \in A!Live : A!StateOf(k) = w /\ A!G(k) <= g
    PROVE  A!Inv'
<1>1. /\ cursor.at = "successors" /\ c = cursor.node /\ w \in Vertices /\ o \in Seq(Vertices)
      /\ A!Range(cursor.todo) = {w} \union A!Range(o)
      /\ cursor' = [at |-> "successors", node |-> c, todo |-> o]
      /\ <<A!StateOf(c), w>> \in Edges /\ problem.cost[<<A!StateOf(c), w>>] \in Nat \ {0}
      /\ g \in Nat /\ g = A!G(c) + problem.cost[<<A!StateOf(c), w>>]
      /\ problem' = problem /\ status' = status /\ solution_cost' = solution_cost /\ cancelled' = cancelled
  BY DEF Successor
<1>2. A!Types /\ A!Books /\ A!Scores /\ A!Parents /\ A!Expanded
  BY DEF A!Inv
<1>3. status = "RUNNING" /\ A!Current = {c} /\ cursor'.at = "successors" /\ cursor'.node = c /\ cursor'.todo = o
  BY <1>1, <1>2 DEF A!Types, A!Current
<1>4. PICK k \in A!Live : A!StateOf(k) = w /\ A!G(k) <= g
  OBVIOUS
<1>5. A!Current' = A!Current /\ A!Known' = A!Known /\ A!Live' = A!Live /\ A!Allocated' = A!Allocated
  <2>1. A!Current' = A!Current
    BY <1>3 DEF A!Current
  <2>2. A!Known' = A!Known
    BY <2>1 DEF A!Known
  <2>3. A!Live' = A!Live
    BY Zenon, <2>2 DEF A!Live
  <2>. QED
    BY <2>1, <2>2, <2>3 DEF A!Allocated
<1>6. \A i : A!StateOf(i)' = A!StateOf(i) /\ A!G(i)' = A!G(i)
  BY SameNodes
<1>7. A!Types'
  <2>1. c \in A!NodeIds
    BY <1>2, <1>3, TypedNodes
  <2>2. cursor' \in A!Cursors
    BY <1>1, <2>1 DEF A!Cursors
  <2>3. /\ problem \in A!Problems /\ solution_cost \in Nat /\ cancelled \in BOOLEAN /\ closed \subseteq A!NodeIds
        /\ pool \in [mem : [A!NodeIds -> A!Nodes], free : Seq(A!NodeIds)]
        /\ open \in [set : SUBSET A!NodeIds, heap : {TRUE}, hash : SUBSET A!NodeIds]
    BY <1>2 DEF A!Types
  <2>. QED
    BY <1>1, <1>3, <2>2, <2>3 DEF A!Types
<1>8. A!Books'
  BY <1>1, <1>2, <1>3, <1>5 DEF A!Books, A!goal_
<1>9. A!Scores'
  <2>1. /\ A!StateOf(1) = Start /\ A!G(1) = 0 /\ A!StateOf(2) = problem.goal /\ pool.mem[2].next = 0
        /\ 1 \in A!Live /\ pool.mem[1].parent = 0
        /\ \A i, j \in A!Live : A!StateOf(i) = A!StateOf(j) => i = j
        /\ \A i \in A!Known : /\ problem.best <= A!G(i) + A!ToGoal(A!StateOf(i))
                              /\ problem.best = A!Infinity => A!ToGoal(A!StateOf(i)) = A!Infinity
        /\ \A i \in closed \union A!Current : A!StateOf(i) # problem.goal
    BY <1>2, <1>3 DEF A!Scores, A!start_, A!goal_, A!null
  <2>2. \A i : A!ToGoal(A!StateOf(i))' = A!ToGoal(A!StateOf(i))
    BY <1>1 DEF A!ToGoal, A!StateOf
  <2>. QED
    BY <1>1, <1>3, <1>5, <1>6, <2>1, <2>2 DEF A!Scores, A!start_, A!goal_, A!null
<1>10. A!Parents'
  <2>1. ASSUME NEW n \in A!Live \ {1} PROVE A!ParentOK(n)'
    <3>0. PICK q : q = pool.mem[n].parent
      OBVIOUS
    <3>1. /\ q \in A!Known /\ A!StateOf(q) # problem.goal /\ <<A!StateOf(q), A!StateOf(n)>> \in Edges
          /\ A!G(q) + A!EdgeCost(q, n) <= A!G(n)
          /\ q \in A!Live \/ \E m \in A!Live :
               /\ A!StateOf(m) = A!StateOf(q) /\ A!G(m) < A!G(q)
               /\ m \in open.set \/ (m \in A!Current /\ A!StateOf(n) \in A!Range(cursor.todo))
      BY <1>2, <1>3, <3>0 DEF A!Parents, A!start_, A!ParentOK
    <3>2. A!EdgeCost(q, n)' = A!EdgeCost(q, n)
      BY <1>1 DEF A!EdgeCost, A!StateOf
    <3>3. ASSUME NEW m \in A!Live, A!StateOf(m) = A!StateOf(q), A!G(m) < A!G(q), m \in A!Current,
                 A!StateOf(n) \in A!Range(cursor.todo)
          PROVE  A!StateOf(n) \in A!Range(o)
      <4>. SUFFICES ASSUME A!StateOf(n) = w PROVE FALSE
        BY <1>1, <3>3
      <4>1. n = k /\ m = c
        <5>1. \A i, j \in A!Live : A!StateOf(i) = A!StateOf(j) => i = j
          BY <1>2, <1>3 DEF A!Scores
        <5>. QED
          BY <1>3, <1>4, <3>3, <5>1
      <4>2. A!G(n) <= A!G(c) + problem.cost[<<A!StateOf(c), w>>]
        BY <1>1, <1>4, <4>1
      <4>3. A!EdgeCost(q, n) = problem.cost[<<A!StateOf(c), w>>]
        BY <3>3, <4>1 DEF A!EdgeCost
      <4>4. A!G(c) < A!G(q)
        BY <3>3, <4>1
      <4>5. A!G(c) \in Nat /\ A!G(q) \in Nat /\ A!G(n) \in Nat
        BY <1>2, <3>1, <4>1, TypedNodes
      <4>. QED
        BY <1>1, <3>1, <4>2, <4>3, <4>4, <4>5
    <3>4. q \in A!Live' \/ \E m \in A!Live' :
            /\ A!StateOf(m)' = A!StateOf(q)' /\ A!G(m)' < A!G(q)'
            /\ m \in open'.set \/ (m \in A!Current' /\ A!StateOf(n)' \in A!Range(cursor'.todo))
      BY <1>3, <1>5, <1>6, <3>1, <3>3
    <3>5. pool'.mem[n].parent = q
      BY <3>0
    <3>6. /\ q \in A!Known' /\ A!StateOf(q)' # problem'.goal /\ <<A!StateOf(q)', A!StateOf(n)'>> \in Edges
          /\ A!G(q)' + A!EdgeCost(q, n)' <= A!G(n)'
      BY <1>1, <1>5, <1>6, <3>1, <3>2
    <3>. QED
      BY <3>4, <3>5, <3>6 DEF A!ParentOK
  <2>. QED
    BY <1>5, <2>1 DEF A!Parents, A!start_
<1>11. A!Expanded'
  <2>1. A!Searching
    BY <1>1, <1>3 DEF A!Searching
  <2>2. \A i \in A!Known' : pool'.mem[i].next = A!null
    BY <1>2, <1>5, <2>1 DEF A!Expanded
  <2>3. ASSUME NEW m \in closed' \union A!Current', NEW v \in Vertices, <<A!StateOf(m)', v>> \in Edges,
               m \in A!Current' => v \notin A!Range(cursor'.todo)
        PROVE  \E i \in A!Live' : A!StateOf(i)' = v /\ A!G(i)' <= A!G(m)' + problem'.cost[<<A!StateOf(m)', v>>]
    <3>1. m \in closed \union A!Current /\ <<A!StateOf(m), v>> \in Edges
      BY <1>5, <1>6, <2>3
    <3>2. CASE m = c /\ v = w
      BY <1>1, <1>4, <1>5, <1>6, <3>2
    <3>3. CASE ~(m = c /\ v = w)
      <4>1. m \in A!Current => v \notin A!Range(cursor.todo)
        BY <1>1, <1>3, <1>5, <2>3, <3>3
      <4>2. \E i \in A!Live : A!StateOf(i) = v /\ A!G(i) <= A!G(m) + problem.cost[<<A!StateOf(m), v>>]
        BY <1>2, <2>1, <3>1, <4>1 DEF A!Expanded
      <4>. QED
        BY <1>1, <1>5, <1>6, <4>2
    <3>. QED
      BY <3>2, <3>3
  <2>4. \A m \in A!Current', v \in A!Range(cursor'.todo) : <<A!StateOf(m)', v>> \in Edges
    BY <1>1, <1>2, <1>3, <1>5, <1>6, <2>1 DEF A!Expanded
  <2>. QED
    BY <2>2, <2>3, <2>4 DEF A!Expanded
<1>12. A!PathSoFar' /\ A!PathFound' /\ A!FailureMeansUnreachable'
  BY <1>1, <1>3 DEF A!PathSoFar, A!PathFound, A!FailureMeansUnreachable
<1>. QED
  BY <1>7, <1>8, <1>9, <1>10, <1>11, <1>12 DEF A!Inv

(* What a successor's new score leaves of the nodes.                        *)
LEMMA TakenNodes ==
    ASSUME A!Inv, NEW c, NEW w, NEW g, NEW o, Successor(c, w, g, o),
           NEW z, NEW e, NEW b, NEW t, NEW x, NEW gone, Takes(z, e, b, t, c, w, g, x, gone),
           pool' = [mem |-> z, free |-> e], open' = [set |-> open.set \union {x}, heap |-> b, hash |-> t],
           closed' = closed \ {x}
    PROVE  /\ pool'.mem = z /\ pool'.free = e
           /\ open'.set = open.set \union {x} /\ open'.heap = b /\ open'.hash = t
           /\ A!Current = {c} /\ A!Current' = {c}
           /\ A!Known = open.set \union closed \union {c} /\ A!Known' = A!Known \union {x}
           /\ A!Live' = (A!Live \ gone) \union {x} /\ A!Allocated' = A!Allocated \union {x}
           /\ x # 1 /\ 1 \notin gone
           /\ (x \in A!Live /\ g < A!G(x) /\ A!StateOf(x) = w /\ gone = {}) \/ x \notin A!Known
           /\ A!StateOf(x)' = w /\ A!G(x)' = g
           /\ \A k \in A!NodeIds : k # x => /\ A!StateOf(k)' = A!StateOf(k) /\ A!G(k)' = A!G(k)
                                            /\ z[k].parent = pool.mem[k].parent /\ z[k].next = pool.mem[k].next
<1>1. cursor.at = "successors" /\ c = cursor.node /\ w \in Vertices /\ w # A!StateOf(c) /\ g \in Nat
  BY DEF Successor
<1>2. cursor'.at = "successors" /\ cursor'.node = c
  <2>1. cursor' = [at |-> "successors", node |-> c, todo |-> o]
    BY DEF Successor
  <2>. QED
    BY ONLY <2>1
<1>3. pool'.mem = z /\ pool'.free = e
  <2>1. pool' = [mem |-> z, free |-> e]
    OBVIOUS
  <2>. QED
    BY ONLY <2>1
<1>4. open'.set = open.set \union {x} /\ open'.heap = b /\ open'.hash = t
  <2>1. open' = [set |-> open.set \union {x}, heap |-> b, hash |-> t]
    OBVIOUS
  <2>. QED
    BY ONLY <2>1
<1>5. /\ status = "RUNNING" /\ A!Current = {c} /\ c \in A!Live /\ A!Known = open.set \union closed \union {c}
      /\ A!Allocated = {2} \union A!Known
  <2>. PICK a : a = Situation(pool.mem, pool.free, open.set, open.heap, open.hash, closed)
    OBVIOUS
  <2>. QED
    BY <1>1, FoundNodes
<1>6. /\ A!Known \subseteq A!NodeIds /\ A!Live \subseteq A!Known /\ 1 \in A!NodeIds
      /\ \A n \in A!NodeIds : A!G(n) \in Nat
  BY TypedNodes DEF A!Inv
<1>7. 1 \in A!Live /\ A!G(1) = 0
  BY <1>5 DEF A!Inv, A!Scores, A!start_
<1>8. /\ x \in A!NodeIds /\ x # c /\ x \notin gone /\ c \notin gone
      /\ gone \subseteq A!Live /\ gone \subseteq open.set
      /\ \A k \in A!NodeIds : k # x /\ k \notin gone => z[k] = pool.mem[k]
      /\ \/ x \in A!Live /\ g < A!G(x) /\ A!StateOf(x) = w /\ gone = {} /\ A!Range(e) = A!Range(pool.free)
         \/ x \in A!Range(pool.free) /\ A!Range(e) = A!Range(pool.free) \ {x}
  BY Zenon DEF Takes
<1>9. z[x].state = w /\ z[x].g_score = g /\ z[x].parent = c /\ z[x].next = 0
  BY Zenon DEF Takes
<1>10. z[x].valid
  BY Zenon DEF Takes, IsTrue
<1>11. \A k \in gone : /\ A!StateOf(k) = w /\ g < A!G(k)
                       /\ z[k].state = w /\ z[k].g_score = A!G(k) /\ z[k].parent = pool.mem[k].parent
                       /\ z[k].next = pool.mem[k].next
  BY Zenon DEF Takes
<1>12. \A k \in gone : ~z[k].valid
  BY Zenon DEF Takes
<1>13. A!Current' = {c}
  BY <1>2 DEF A!Current
<1>14. A!Known' = A!Known \union {x}
  <2>1. A!Known' = (open.set \union {x}) \union (closed \ {x}) \union {c}
    BY <1>4, <1>13 DEF A!Known
  <2>. QED
    BY <1>5, <2>1
<1>15. A!Live' = (A!Live \ gone) \union {x}
  <2>1. \A k : k \in A!Live' <=> k \in A!Known' /\ z[k].valid
    BY Zenon, <1>3 DEF A!Live
  <2>2. \A k : k \in A!Live <=> k \in A!Known /\ pool.mem[k].valid
    BY Zenon DEF A!Live
  <2>3. ASSUME NEW k, k \in A!Live' PROVE k \in (A!Live \ gone) \union {x}
    <3>. SUFFICES ASSUME k # x PROVE k \in A!Live \ gone
      OBVIOUS
    <3>1. k \in A!Known /\ k \in A!NodeIds
      BY <1>6, <1>14, <2>1, <2>3
    <3>2. k \notin gone
      BY Zenon, <1>12, <2>1, <2>3
    <3>3. z[k] = pool.mem[k]
      BY <1>8, <3>1, <3>2
    <3>4. k \in A!Live
      BY Zenon, <2>1, <2>2, <2>3, <3>1, <3>3
    <3>. QED
      BY <3>2, <3>4
  <2>4. ASSUME NEW k \in A!Live, k \notin gone PROVE k \in A!Live'
    <3>1. CASE k = x
      BY Zenon, <1>10, <1>14, <2>1, <3>1
    <3>2. CASE k # x
      <4>1. k \in A!Known /\ k \in A!NodeIds /\ k \in A!Known'
        BY <1>6, <1>14
      <4>2. z[k] = pool.mem[k]
        BY <1>8, <2>4, <3>2, <4>1
      <4>. QED
        BY Zenon, <2>1, <2>2, <4>1, <4>2
    <3>. QED
      BY <3>1, <3>2
  <2>5. x \in A!Live'
    <3>1. x \in A!Known'
      BY <1>14
    <3>. QED
      BY Zenon, <1>10, <2>1, <3>1
  <2>. QED
    BY <2>3, <2>4, <2>5
<1>16. A!Allocated' = A!Allocated \union {x}
  <2>1. A!Allocated' = A!NodeIds \ A!Range(e) /\ A!Allocated = A!NodeIds \ A!Range(pool.free)
    BY <1>3 DEF A!Allocated
  <2>2. CASE x \in A!Live /\ A!Range(e) = A!Range(pool.free)
    BY <1>5, <1>6, <2>1, <2>2
  <2>3. CASE A!Range(e) = A!Range(pool.free) \ {x}
    BY <1>8, <2>1, <2>3
  <2>. QED
    BY <1>8, <2>2, <2>3
<1>17. (x \in A!Live /\ g < A!G(x) /\ A!StateOf(x) = w /\ gone = {}) \/ x \notin A!Known
  BY <1>5, <1>8 DEF A!Allocated
<1>18. x # 1 /\ 1 \notin gone
  <2>1. ~(g < 0)
    BY <1>1
  <2>2. 1 \notin gone
    BY <1>7, <1>11, <2>1
  <2>3. x # 1
    BY <1>6, <1>7, <1>17, <2>1
  <2>. QED
    BY <2>2, <2>3
<1>19. A!StateOf(x)' = w /\ A!G(x)' = g
  BY <1>3, <1>9 DEF A!StateOf, A!G
<1>20. ASSUME NEW k \in A!NodeIds, k # x
       PROVE  /\ A!StateOf(k)' = A!StateOf(k) /\ A!G(k)' = A!G(k)
              /\ z[k].parent = pool.mem[k].parent /\ z[k].next = pool.mem[k].next
  <2>1. A!StateOf(k)' = z[k].state /\ A!G(k)' = z[k].g_score
    BY <1>3 DEF A!StateOf, A!G
  <2>2. CASE k \in gone
    BY <1>11, <2>1, <2>2
  <2>3. CASE k \notin gone
    <3>1. z[k] = pool.mem[k]
      BY <1>8, <1>20, <2>3
    <3>. QED
      BY <2>1, <3>1 DEF A!StateOf, A!G
  <2>. QED
    BY <2>2, <2>3
<1>. QED
  BY <1>3, <1>4, <1>5, <1>13, <1>14, <1>15, <1>16, <1>17, <1>18, <1>19, <1>20

(* A node of the successor's state is created, or takes the better score.   *)
LEMMA SuccessorTaken ==
    ASSUME A!Inv, NEW c, NEW w, NEW g, NEW o, Successor(c, w, g, o),
           NEW z, NEW e, NEW b, NEW t, NEW x, NEW gone, Takes(z, e, b, t, c, w, g, x, gone),
           pool' = [mem |-> z, free |-> e], open' = [set |-> open.set \union {x}, heap |-> b, hash |-> t],
           closed' = closed \ {x}
    PROVE  A!Inv'
<1>1. /\ cursor.at = "successors" /\ c = cursor.node /\ w \in Vertices /\ o \in Seq(Vertices)
      /\ A!Range(cursor.todo) = {w} \union A!Range(o) /\ w # A!StateOf(c)
      /\ cursor' = [at |-> "successors", node |-> c, todo |-> o]
      /\ <<A!StateOf(c), w>> \in Edges /\ problem.cost[<<A!StateOf(c), w>>] \in Nat \ {0}
      /\ g \in Nat /\ g = A!G(c) + problem.cost[<<A!StateOf(c), w>>]
      /\ problem' = problem /\ status' = status /\ solution_cost' = solution_cost /\ cancelled' = cancelled
  BY DEF Successor
<1>2. A!Types /\ A!Books /\ A!Scores /\ A!Parents /\ A!Expanded
  BY DEF A!Inv
<1>3. cursor'.at = "successors" /\ cursor'.node = c /\ cursor'.todo = o
  BY <1>1
<1>4. /\ pool'.mem = z /\ pool'.free = e
      /\ open'.set = open.set \union {x} /\ open'.heap = b /\ open'.hash = t
      /\ A!Current = {c} /\ A!Current' = {c}
      /\ A!Known = open.set \union closed \union {c} /\ A!Known' = A!Known \union {x}
      /\ A!Live' = (A!Live \ gone) \union {x} /\ A!Allocated' = A!Allocated \union {x}
      /\ x # 1 /\ 1 \notin gone
      /\ (x \in A!Live /\ g < A!G(x) /\ A!StateOf(x) = w /\ gone = {}) \/ x \notin A!Known
      /\ A!StateOf(x)' = w /\ A!G(x)' = g
      /\ \A k \in A!NodeIds : k # x => /\ A!StateOf(k)' = A!StateOf(k) /\ A!G(k)' = A!G(k)
                                       /\ z[k].parent = pool.mem[k].parent /\ z[k].next = pool.mem[k].next
  BY TakenNodes
<1>5. /\ status = "RUNNING" /\ c \in A!Live /\ c \notin open.set \union closed /\ open.set \cap closed = {}
      /\ A!Allocated = {2} \union A!Known /\ 2 \notin A!Known
      /\ open.hash = (IF problem.hashset THEN open.set \cap A!Live ELSE {})
      /\ ~problem.hashset => open.set \subseteq A!Live
      /\ closed \subseteq A!Live
  <2>. PICK a : a = Situation(pool.mem, pool.free, open.set, open.heap, open.hash, closed)
    OBVIOUS
  <2>. QED
    BY <1>1, FoundNodes
<1>6. /\ problem \in A!Problems /\ A!Known \subseteq A!NodeIds /\ A!Live \subseteq A!Known /\ 1 \in A!NodeIds /\ 2 \in A!NodeIds
      /\ open.set \subseteq A!NodeIds /\ open.hash \subseteq A!NodeIds /\ closed \subseteq A!NodeIds
      /\ \A n \in A!NodeIds : A!G(n) \in Nat /\ A!StateOf(n) \in Vertices
  BY <1>2, TypedNodes
<1>7. /\ z \in [A!NodeIds -> A!Nodes] /\ e \in Seq(A!NodeIds) /\ A!IsInjective(e)
      /\ x \in A!NodeIds /\ x # 2 /\ x # c /\ x \notin gone /\ c \notin gone
      /\ gone \subseteq A!Live /\ gone \subseteq open.set /\ (gone # {} => problem.hashset)
      /\ \A k \in gone : A!StateOf(k) = w /\ g < A!G(k)
      /\ \A k \in A!Live : k \notin gone /\ A!StateOf(k) = w => k = x
      /\ t = IF problem.hashset THEN (open.hash \ gone) \union {x} ELSE open.hash
      /\ z[x].parent = c /\ z[x].next = 0
  BY Zenon DEF Takes
<1>8. \A v : A!ToGoal(v)' = A!ToGoal(v)
  BY <1>1, SameProblem
<1>9. A!Types'
  <2>1. pool' \in [mem : [A!NodeIds -> A!Nodes], free : Seq(A!NodeIds)]
    <3>1. z \in [A!NodeIds -> A!Nodes] /\ e \in Seq(A!NodeIds)
      BY <1>7
    <3>. QED
      BY ONLY <3>1, pool' = [mem |-> z, free |-> e]
  <2>2. open' \in [set : SUBSET A!NodeIds, heap : {TRUE}, hash : SUBSET A!NodeIds]
    <3>1. b \in {TRUE}
      BY Zenon DEF Takes, IsTrue
    <3>2. open.set \union {x} \in SUBSET A!NodeIds /\ t \in SUBSET A!NodeIds
      BY <1>6, <1>7
    <3>3. PICK s : s = open.set \union {x}
      OBVIOUS
    <3>4. s \in SUBSET A!NodeIds /\ t \in SUBSET A!NodeIds
      BY <3>2, <3>3
    <3>5. [set |-> s, heap |-> b, hash |-> t] \in [set : SUBSET A!NodeIds, heap : {TRUE}, hash : SUBSET A!NodeIds]
      BY Zenon, <3>1, <3>4
    <3>. QED
      BY Zenon, <3>3, <3>5
  <2>3. cursor' \in A!Cursors
    <3>1. c \in A!NodeIds
      BY <1>5, <1>6
    <3>. QED
      BY <1>1, <3>1 DEF A!Cursors
  <2>4. closed' \subseteq A!NodeIds
    BY <1>6
  <2>5. problem \in A!Problems /\ solution_cost \in Nat /\ cancelled \in BOOLEAN
    BY <1>2 DEF A!Types
  <2>. QED
    BY <1>1, <1>5, <2>1, <2>2, <2>3, <2>4, <2>5 DEF A!Types
<1>10. A!Books'
  <2>1. A!Allocated' = {2} \union A!Known' /\ 2 \notin A!Known'
    BY <1>4, <1>5, <1>7
  <2>2. /\ open'.set \cap closed' = {} /\ A!Current' \cap (open'.set \union closed') = {}
        /\ ~problem.hashset => open'.set \subseteq A!Live'
        /\ closed' \union A!Current' \subseteq A!Live'
    BY <1>4, <1>5, <1>7
  <2>3. open'.hash = IF problem.hashset THEN open'.set \cap A!Live' ELSE {}
    <3>1. CASE problem.hashset
      <4>1. t = ((open.set \cap A!Live) \ gone) \union {x}
        BY <1>5, <1>7, <3>1
      <4>. QED
        BY <1>4, <3>1, <4>1
    <3>2. CASE ~problem.hashset
      BY <1>4, <1>5, <1>7, <3>2
    <3>. QED
      BY <3>1, <3>2
  <2>. QED
    BY <1>1, <1>4, <1>5, <1>7, <2>1, <2>2, <2>3 DEF A!Books, A!goal_
<1>11. A!Scores'
  <2>1. /\ A!StateOf(1) = Start /\ A!G(1) = 0 /\ A!StateOf(2) = problem.goal /\ pool.mem[2].next = 0
        /\ 1 \in A!Live /\ pool.mem[1].parent = 0
        /\ \A i, j \in A!Live : A!StateOf(i) = A!StateOf(j) => i = j
        /\ \A i \in A!Known : /\ problem.best <= A!G(i) + A!ToGoal(A!StateOf(i))
                              /\ problem.best = A!Infinity => A!ToGoal(A!StateOf(i)) = A!Infinity
        /\ \A i \in closed \union A!Current : A!StateOf(i) # problem.goal
    BY <1>2, <1>5 DEF A!Scores, A!start_, A!goal_, A!null
  <2>2. /\ A!StateOf(1)' = Start /\ A!G(1)' = 0 /\ A!StateOf(2)' = problem'.goal /\ pool'.mem[2].next = 0
        /\ 1 \in A!Live' /\ pool'.mem[1].parent = 0
    BY <1>1, <1>4, <1>6, <1>7, <2>1
  <2>3. \A i, j \in A!Live' : A!StateOf(i)' = A!StateOf(j)' => i = j
    <3>1. \A i \in A!Live' : i # x => i \in A!Live /\ i \notin gone /\ A!StateOf(i)' = A!StateOf(i)
      BY <1>4, <1>6
    <3>2. \A i \in A!Live' : i # x => A!StateOf(i)' # w
      BY <1>7, <3>1
    <3>. QED
      BY <1>4, <2>1, <3>1, <3>2
  <2>4. ASSUME NEW i \in A!Known'
        PROVE  /\ problem'.best <= A!G(i)' + A!ToGoal(A!StateOf(i))'
               /\ problem'.best = A!Infinity => A!ToGoal(A!StateOf(i))' = A!Infinity
    <3>1. A!ToGoal(A!StateOf(i))' = A!ToGoal(A!StateOf(i)')
      BY <1>1 DEF A!ToGoal, A!StateOf
    <3>2. CASE i # x
      <4>1. i \in A!Known /\ i \in A!NodeIds
        BY <1>4, <1>6, <3>2
      <4>. QED
        BY <1>1, <1>4, <2>1, <3>1, <3>2, <4>1
    <3>3. CASE i = x
      <4>0. PICK v : v = A!StateOf(c)
        OBVIOUS
      <4>1. /\ problem.best <= A!G(c) + A!ToGoal(v) /\ (problem.best = 1000 => A!ToGoal(v) = 1000)
            /\ c \in A!NodeIds /\ v \in Vertices /\ A!G(c) \in Nat
        BY <1>5, <1>6, <2>1, <4>0 DEF A!Infinity
      <4>2. /\ A!ToGoal(v) <= problem.cost[<<v, w>>] + A!ToGoal(w)
            /\ A!ToGoal(w) < 1000 => A!ToGoal(v) < 1000
        BY <1>1, <1>6, <4>0, <4>1, ToGoalFacts
      <4>3. A!ToGoal(v) \in Nat /\ A!ToGoal(w) \in Nat /\ A!ToGoal(w) <= 1000 /\ A!ToGoal(v) <= 1000 /\ problem.best \in Nat
        <5>1. problem.best = A!ToGoal(Start) /\ Start \in Vertices
          BY <1>6, SearchAssumption, ProblemFacts DEF A!ProblemAssumption
        <5>. QED
          BY <1>1, <1>6, <4>1, <5>1, ProblemFacts
      <4>4. g = A!G(c) + problem.cost[<<v, w>>] /\ problem.cost[<<v, w>>] \in Nat
        BY <1>1, <4>0
      <4>5. problem.best <= g + A!ToGoal(w) /\ (problem.best = 1000 => A!ToGoal(w) = 1000)
        <5>1. PICK d, p, q : d = problem.cost[<<v, w>>] /\ p = A!ToGoal(v) /\ q = A!ToGoal(w)
          OBVIOUS
        <5>2. /\ d \in Nat /\ p \in Nat /\ q \in Nat /\ p <= d + q /\ q <= 1000 /\ p <= 1000 /\ (q < 1000 => p < 1000)
              /\ A!G(c) \in Nat /\ g = A!G(c) + d /\ problem.best \in Nat /\ problem.best <= A!G(c) + p
          BY <4>1, <4>2, <4>3, <4>4, <5>1
        <5>4. problem.best = 1000 => p = 1000
          BY <4>1, <5>1
        <5>3. problem.best <= g + q /\ (problem.best = 1000 => q = 1000)
          BY <5>2, <5>4
        <5>. QED
          BY <5>1, <5>3
      <4>. QED
        BY <1>1, <1>4, <3>1, <3>3, <4>5 DEF A!Infinity
    <3>. QED
      BY <3>2, <3>3
  <2>5. \A i \in closed' \union A!Current' : A!StateOf(i)' # problem'.goal
    <3>1. \A i \in closed' \union A!Current' : i \in closed \union A!Current /\ i # x /\ i \in A!NodeIds
      BY <1>4, <1>5, <1>6, <1>7
    <3>. QED
      BY <1>1, <1>4, <2>1, <3>1
  <2>. QED
    BY <1>1, <1>5, <2>2, <2>3, <2>4, <2>5 DEF A!Scores, A!start_, A!goal_, A!null
<1>12. A!Parents'
  <2>1. ASSUME NEW n \in A!Live' \ {1} PROVE A!ParentOK(n)'
    <3>1. CASE n = x
      <4>1. /\ c \in A!Known' /\ c \in A!Live' /\ c \in A!NodeIds
        BY <1>4, <1>5, <1>6, <1>7
      <4>2. A!StateOf(c)' = A!StateOf(c) /\ A!G(c)' = A!G(c) /\ A!StateOf(c) # problem.goal
        BY <1>2, <1>4, <1>5, <1>7, <4>1 DEF A!Scores
      <4>3. A!EdgeCost(c, x)' = problem'.cost[<<A!StateOf(c)', A!StateOf(x)'>>]
        BY DEF A!EdgeCost
      <4>4. A!G(c) + problem.cost[<<A!StateOf(c), w>>] <= g
        <5>1. A!G(c) \in Nat
          BY <1>6, <4>1
        <5>. QED
          BY <1>1, <5>1
      <4>5. pool'.mem[n].parent = c
        BY <1>4, <1>7, <3>1
      <4>6. /\ A!StateOf(c)' # problem'.goal /\ <<A!StateOf(c)', A!StateOf(n)'>> \in Edges
            /\ A!G(c)' + A!EdgeCost(c, n)' <= A!G(n)'
        BY <1>1, <1>4, <3>1, <4>2, <4>3, <4>4
      <4>. QED
        BY <4>1, <4>5, <4>6 DEF A!ParentOK
    <3>2. CASE n # x
      <4>0. PICK q : q = pool.mem[n].parent
        OBVIOUS
      <4>1. n \in A!Live \ {1} /\ n \notin gone /\ n \in A!NodeIds
        BY <1>4, <1>6, <3>2
      <4>2. /\ q \in A!Known /\ A!StateOf(q) # problem.goal /\ <<A!StateOf(q), A!StateOf(n)>> \in Edges
            /\ A!G(q) + A!EdgeCost(q, n) <= A!G(n)
            /\ q \in A!Live \/ \E m \in A!Live :
                 /\ A!StateOf(m) = A!StateOf(q) /\ A!G(m) < A!G(q)
                 /\ m \in open.set \/ (m \in A!Current /\ A!StateOf(n) \in A!Range(cursor.todo))
        BY <1>2, <1>5, <4>0, <4>1 DEF A!Parents, A!start_, A!ParentOK
      <4>3. q \in A!NodeIds /\ A!G(q) \in Nat /\ A!G(n) \in Nat /\ q \in A!Known'
        BY <1>4, <1>6, <4>1, <4>2
      <4>4. pool'.mem[n].parent = q /\ A!StateOf(n)' = A!StateOf(n) /\ A!G(n)' = A!G(n)
        BY <1>4, <3>2, <4>0, <4>1
      <4>5. A!StateOf(n) # w
        BY <1>7, <3>2, <4>1
      <4>6. A!EdgeCost(q, n)' = problem.cost[<<A!StateOf(q)', A!StateOf(n)>>]
              /\ A!EdgeCost(q, n) = problem.cost[<<A!StateOf(q), A!StateOf(n)>>]
        BY <1>1, <4>4 DEF A!EdgeCost
      <4>7. CASE q = x
        <5>1. A!StateOf(q)' = A!StateOf(q) /\ A!G(q)' = g /\ g < A!G(q) /\ q \in A!Live'
          BY <1>4, <4>2, <4>7
        <5>2. A!EdgeCost(q, n)' = A!EdgeCost(q, n)
          BY <4>6, <5>1
        <5>3. A!EdgeCost(q, n) \in Nat
          <6>1. problem.cost \in [Edges -> Nat \ {0}]
            BY <1>6, ProblemFacts
          <6>. QED
            BY <4>2, <4>6, <6>1
        <5>4. A!G(q)' + A!EdgeCost(q, n)' <= A!G(n)'
          BY <1>1, <4>2, <4>3, <4>4, <5>1, <5>2, <5>3
        <5>5. A!StateOf(q)' # problem'.goal /\ <<A!StateOf(q)', A!StateOf(n)'>> \in Edges
          BY <1>1, <4>2, <4>4, <5>1
        <5>. QED
          BY <4>3, <4>4, <5>1, <5>4, <5>5 DEF A!ParentOK
      <4>8. CASE q # x
        <5>1. A!StateOf(q)' = A!StateOf(q) /\ A!G(q)' = A!G(q)
          BY <1>4, <4>3, <4>8
        <5>2. /\ A!StateOf(q)' # problem'.goal /\ <<A!StateOf(q)', A!StateOf(n)'>> \in Edges
              /\ A!G(q)' + A!EdgeCost(q, n)' <= A!G(n)'
          BY <1>1, <4>2, <4>4, <4>6, <5>1
        <5>3. q \in A!Live' \/ \E m \in A!Live' :
                /\ A!StateOf(m)' = A!StateOf(q)' /\ A!G(m)' < A!G(q)'
                /\ m \in open'.set \/ (m \in A!Current' /\ A!StateOf(n)' \in A!Range(cursor'.todo))
          <6>0. x \in A!Live' /\ x \in open'.set
            BY <1>4
          <6>1. CASE q \in A!Live /\ q \notin gone
            BY <1>4, <6>1
          <6>2. CASE q \in gone
            <7>1. A!StateOf(q) = w /\ g < A!G(q)
              BY <1>7, <6>2
            <7>. QED
              BY <1>4, <5>1, <6>0, <7>1
          <6>3. ASSUME NEW m \in A!Live, A!StateOf(m) = A!StateOf(q), A!G(m) < A!G(q),
                       m \in open.set \/ (m \in A!Current /\ A!StateOf(n) \in A!Range(cursor.todo))
                PROVE  \E i \in A!Live' :
                          /\ A!StateOf(i)' = A!StateOf(q)' /\ A!G(i)' < A!G(q)'
                          /\ i \in open'.set \/ (i \in A!Current' /\ A!StateOf(n)' \in A!Range(cursor'.todo))
            <7>1. m \in A!NodeIds /\ A!G(m) \in Nat
              BY <1>6
            <7>2. CASE m \in gone \/ m = x
              <8>1. A!StateOf(m) = w /\ g < A!G(m)
                BY <1>4, <1>6, <1>7, <7>2
              <8>2. g < A!G(q)
                BY <1>1, <4>3, <6>3, <7>1, <8>1
              <8>3. A!StateOf(x)' = A!StateOf(q)' /\ A!G(x)' < A!G(q)'
                BY <1>4, <5>1, <6>3, <8>1, <8>2
              <8>. QED
                BY <6>0, <8>3
            <7>3. CASE m \notin gone /\ m # x
              <8>1. m \in A!Live' /\ A!StateOf(m)' = A!StateOf(q)' /\ A!G(m)' < A!G(q)'
                BY <1>4, <5>1, <6>3, <7>1, <7>3
              <8>2. m \in open'.set \/ (m \in A!Current' /\ A!StateOf(n)' \in A!Range(cursor'.todo))
                BY <1>1, <1>3, <1>4, <4>4, <4>5, <6>3
              <8>. QED
                BY <8>1, <8>2
            <7>. QED
              BY <7>2, <7>3
          <6>4. CASE q \notin A!Live
            BY <4>2, <6>3, <6>4
          <6>. QED
            BY <6>1, <6>2, <6>4
        <5>. QED
          BY <4>3, <4>4, <5>2, <5>3 DEF A!ParentOK
      <4>. QED
        BY <4>7, <4>8
    <3>. QED
      BY <3>1, <3>2
  <2>. QED
    BY <2>1 DEF A!Parents, A!start_
<1>13. A!Expanded'
  <2>1. A!Searching
    BY <1>1, <1>5 DEF A!Searching
  <2>2. \A i \in A!Known' : pool'.mem[i].next = A!null
    <3>1. \A i \in A!Known : pool.mem[i].next = 0
      BY <1>2, <2>1 DEF A!Expanded, A!null
    <3>2. \A i \in A!Known' : i # x => i \in A!Known /\ i \in A!NodeIds
      BY <1>4, <1>6
    <3>. QED
      BY <1>4, <1>7, <3>1, <3>2 DEF A!null
  <2>3. ASSUME NEW m \in closed' \union A!Current', NEW v \in Vertices, <<A!StateOf(m)', v>> \in Edges,
               m \in A!Current' => v \notin A!Range(cursor'.todo)
        PROVE  \E i \in A!Live' : A!StateOf(i)' = v /\ A!G(i)' <= A!G(m)' + problem'.cost[<<A!StateOf(m)', v>>]
    <3>1. m # x /\ m \in closed \union A!Current /\ m \in A!NodeIds
      BY <1>4, <1>5, <1>6, <1>7
    <3>2. A!StateOf(m)' = A!StateOf(m) /\ A!G(m)' = A!G(m) /\ <<A!StateOf(m), v>> \in Edges
      BY <1>4, <2>3, <3>1
    <3>3. x \in A!Live'
      BY <1>4
    <3>4. PICK d : d = problem.cost[<<A!StateOf(m), v>>]
      OBVIOUS
    <3>5. d \in Nat /\ A!G(m) \in Nat
      <4>1. problem.cost \in [Edges -> Nat \ {0}]
        BY <1>6, ProblemFacts
      <4>. QED
        BY <1>6, <3>1, <3>2, <3>4, <4>1
    <3>6. problem'.cost[<<A!StateOf(m)', v>>] = d
      BY <1>1, <3>2, <3>4
    <3>7. CASE m = c /\ v = w
      <4>1. g <= A!G(m) + d
        BY <1>1, <3>4, <3>5, <3>7
      <4>. QED
        BY <1>4, <3>2, <3>3, <3>6, <3>7, <4>1
    <3>8. CASE ~(m = c /\ v = w)
      <4>1. m \in A!Current => v \notin A!Range(cursor.todo)
        BY <1>1, <1>3, <1>4, <2>3, <3>8
      <4>2. PICK i \in A!Live : A!StateOf(i) = v /\ A!G(i) <= A!G(m) + d
        BY <1>2, <2>1, <3>1, <3>2, <3>4, <4>1 DEF A!Expanded
      <4>3. i \in A!NodeIds /\ A!G(i) \in Nat
        BY <1>6
      <4>4. CASE i \in gone \/ i = x
        <5>1. A!StateOf(i) = w /\ g < A!G(i)
          BY <1>4, <1>6, <1>7, <4>4
        <5>2. v = w /\ g <= A!G(m) + d
          BY <1>1, <3>5, <4>2, <4>3, <5>1
        <5>. QED
          BY <1>4, <3>2, <3>3, <3>6, <5>2
      <4>5. CASE i \notin gone /\ i # x
        BY <1>4, <3>2, <3>6, <4>2, <4>3, <4>5
      <4>. QED
        BY <4>4, <4>5
    <3>. QED
      BY <3>7, <3>8
  <2>4. \A m \in A!Current', v \in A!Range(cursor'.todo) : <<A!StateOf(m)', v>> \in Edges
    <3>1. \A v \in A!Range(cursor.todo) : <<A!StateOf(c), v>> \in Edges
      BY <1>2, <1>4, <2>1 DEF A!Expanded
    <3>2. A!StateOf(c)' = A!StateOf(c)
      BY <1>4, <1>5, <1>6, <1>7
    <3>. QED
      BY <1>1, <1>3, <1>4, <3>1, <3>2
  <2>. QED
    BY <2>2, <2>3, <2>4 DEF A!Expanded
<1>14. A!PathSoFar' /\ A!PathFound' /\ A!FailureMeansUnreachable'
  BY <1>1, <1>3, <1>5 DEF A!PathSoFar, A!PathFound, A!FailureMeansUnreachable
<1>. QED
  BY <1>9, <1>10, <1>11, <1>12, <1>13, <1>14 DEF A!Inv

LEMMA AnalyzeStep ==
    ASSUME A!Inv, A!Proper, A!Analyze
    PROVE  A!Inv'
<1>1. /\ cursor.at = "successors" /\ cursor.todo # <<>> /\ pool.free # <<>>
      /\ cursor' = [cursor EXCEPT !.todo = Tail(cursor.todo)]
      /\ problem' = problem /\ status' = status /\ solution_cost' = solution_cost /\ cancelled' = cancelled
  BY DEF A!Analyze
<1>2. PICK c, w, o : c = cursor.node /\ w = Head(cursor.todo) /\ o = Tail(cursor.todo)
  OBVIOUS
<1>3. PICK g : g = A!G(c) + problem.cost[<<A!StateOf(c), w>>]
  OBVIOUS
<1>4. PICK now : now = [pool |-> pool, open |-> open, closed |-> closed]
  OBVIOUS
<1>5. PICK r : /\ r = IF problem.hashset THEN A!analyze_hashset(now, c, w, g) ELSE A!analyze_vector(now, c, w, g)
               /\ pool' = r.pool /\ open' = r.open /\ closed' = r.closed
  <2>1. A!transition_cost(A!StateOf(c), w) = problem.cost[<<A!StateOf(c), w>>]
    BY DEF A!transition_cost
  <2>2. g = pool.mem[cursor.node].g_score + A!transition_cost(pool.mem[cursor.node].state, Head(cursor.todo))
    BY <1>2, <1>3, <2>1 DEF A!StateOf, A!G
  <2>3. \E r \in {IF problem.hashset THEN A!analyze_hashset(now, c, w, g) ELSE A!analyze_vector(now, c, w, g)} :
           pool' = r.pool /\ open' = r.open /\ closed' = r.closed
    BY Zenon, <1>2, <1>4, <2>2 DEF A!Analyze
  <2>. QED
    BY <2>3
<1>6. A!Types /\ A!Books /\ A!Expanded
  BY DEF A!Inv
<1>7. /\ cursor.todo \in Seq(Vertices) /\ cursor = [at |-> "successors", node |-> c, todo |-> cursor.todo] /\ c \in A!NodeIds
  <2>1. cursor \in A!Cursors
    BY <1>6 DEF A!Types
  <2>. QED
    BY <1>1, <1>2, <2>1 DEF A!Cursors
<1>8. w \in Vertices /\ o \in Seq(Vertices) /\ A!Range(cursor.todo) = {w} \union A!Range(o)
  BY <1>1, <1>2, <1>7, HeadOrTail
<1>9. status = "RUNNING" /\ c \in A!Current
  BY <1>1, <1>2, <1>6 DEF A!Types, A!Current
<1>10. <<A!StateOf(c), w>> \in Edges
  <2>1. A!Searching
    BY <1>1, <1>9 DEF A!Searching
  <2>. QED
    BY <1>6, <1>8, <1>9, <2>1 DEF A!Expanded
<1>11. w # A!StateOf(c)
  BY <1>8, <1>10 DEF A!Proper
<1>12. problem.cost[<<A!StateOf(c), w>>] \in Nat \ {0} /\ A!G(c) \in Nat
  <2>1. problem \in A!Problems
    BY <1>6 DEF A!Types
  <2>2. problem.cost \in [Edges -> Nat \ {0}]
    BY <2>1, ProblemFacts
  <2>3. A!G(c) \in Nat
    BY <1>6, <1>7, TypedNodes
  <2>. QED
    BY <1>10, <2>2, <2>3
<1>13. g \in Nat
  BY <1>3, <1>12
<1>14. cursor' = [at |-> "successors", node |-> c, todo |-> o]
  <2>1. PICK s : s = cursor.todo
    OBVIOUS
  <2>2. cursor = [at |-> "successors", node |-> c, todo |-> s] /\ cursor' = [cursor EXCEPT !.todo = o]
    BY <1>1, <1>2, <1>7, <2>1
  <2>. QED
    BY ONLY <2>2
<1>15. Successor(c, w, g, o)
  BY <1>1, <1>2, <1>3, <1>8, <1>10, <1>11, <1>12, <1>13, <1>14 DEF Successor
<1>16. \/ r = now /\ \E k \in A!Live : A!StateOf(k) = w /\ A!G(k) <= g
       \/ \E z, e, b, t, x, gone :
            /\ r = Situation(z, e, open.set \union {x}, b, t, closed \ {x})
            /\ Takes(z, e, b, t, c, w, g, x, gone)
  <2>1. r = IF problem.hashset THEN A!analyze_hashset(now, c, w, g) ELSE A!analyze_vector(now, c, w, g)
    BY <1>5
  <2>. QED
    BY ONLY A!Inv, <1>1, <1>2, <1>4, <1>8, <1>11, <1>13, <2>1, Analyzed, ZenonT(30)
<1>17. CASE r = now /\ \E k \in A!Live : A!StateOf(k) = w /\ A!G(k) <= g
  <2>1. pool' = pool /\ open' = open /\ closed' = closed
    BY <1>4, <1>5, <1>17
  <2>. QED
    BY <1>15, <1>17, <2>1, SuccessorKept
<1>18. ASSUME NEW z, NEW e, NEW b, NEW t, NEW x, NEW gone,
              r = Situation(z, e, open.set \union {x}, b, t, closed \ {x}), Takes(z, e, b, t, c, w, g, x, gone)
       PROVE  A!Inv'
  <2>1. pool' = [mem |-> z, free |-> e]
    <3>1. Situation(z, e, open.set \union {x}, b, t, closed \ {x}).pool = [mem |-> z, free |-> e]
      BY PoolPart
    <3>. QED
      BY Zenon, <1>5, <1>18, <3>1
  <2>2. open' = [set |-> open.set \union {x}, heap |-> b, hash |-> t]
    <3>1. Situation(z, e, open.set \union {x}, b, t, closed \ {x}).open = [set |-> open.set \union {x}, heap |-> b, hash |-> t]
      BY OpenPart
    <3>. QED
      BY Zenon, <1>5, <1>18, <3>1
  <2>3. closed' = closed \ {x}
    <3>1. Situation(z, e, open.set \union {x}, b, t, closed \ {x}).closed = closed \ {x}
      BY ClosedPart
    <3>. QED
      BY Zenon, <1>5, <1>18, <3>1
  <2>. QED
    BY ONLY A!Inv, <1>15, <1>18, <2>1, <2>2, <2>3, SuccessorTaken
<1>. QED
  BY <1>16, <1>17, <1>18

-----------------------------------------------------------------------------
(* The path. walk_path follows `next` from the start.                       *)
LEMMA WalkAt ==
    ASSUME A!Types
    PROVE  \E at \in [A!NodeIds -> A!NodeIds \union {0}] :
              /\ at[1] = 1
              /\ \A i \in 2 .. MaxNodes : at[i] = IF at[i - 1] = 0 THEN 0 ELSE pool.mem[at[i - 1]].next
              /\ A!walk_path(pool) = [i \in 1 .. Cardinality({k \in A!NodeIds : at[k] # 0}) |-> at[i]]
<1>. DEFINE X == A!NodeIds \union {0}
            follow == [x \in X |-> IF x = 0 THEN 0 ELSE pool.mem[x].next]
            steps == [i \in Nat |-> follow]
<1>1. /\ MaxNodes \in Nat /\ MaxNodes >= 2 /\ A!NodeIds = 1 .. MaxNodes
  <2>1. MaxNodes \in Nat
    BY SearchAssumption DEF A!ProblemAssumption
  <2>2. 2 \in A!NodeIds
    BY TypedNodes
  <2>. QED
    BY <2>1, <2>2 DEF A!NodeIds
<1>2. \A n \in A!NodeIds : pool.mem[n].next \in X
  BY TypedNodes
<1>3. 1 \in X /\ follow \in [X -> X]
  BY <1>1, <1>2
<1>4. steps \in [Nat -> [X -> X]] /\ \A i \in Nat : steps[i] = follow
  <2>. HIDE DEF follow, X
  <2>. QED
    BY <1>3
<1>5. \A x \in X : follow[x] = IF x = 0 THEN 0 ELSE pool.mem[x].next
  OBVIOUS
<1>. HIDE DEF steps, follow, X
<1>6. MaxNodes - 1 \in Nat
  BY <1>1
<1>7. PICK f : Iterated(f, MaxNodes - 1, X, 1, steps)
  BY ONLY <1>3, <1>4, <1>6, Iterates
<1>8. /\ f \in [0 .. MaxNodes - 1 -> X] /\ f[0] = 1
      /\ \A i \in 1 .. MaxNodes - 1 : f[i] = IF f[i - 1] = 0 THEN 0 ELSE pool.mem[f[i - 1]].next
  <2>1. f \in [0 .. MaxNodes - 1 -> X] /\ f[0] = 1 /\ \A i \in 1 .. MaxNodes - 1 : f[i] = steps[i][f[i - 1]]
    BY <1>7 DEF Iterated
  <2>2. ASSUME NEW i \in 1 .. MaxNodes - 1 PROVE f[i] = IF f[i - 1] = 0 THEN 0 ELSE pool.mem[f[i - 1]].next
    <3>1. i \in Nat /\ i - 1 \in 0 .. MaxNodes - 1
      BY <1>1
    <3>2. f[i - 1] \in X /\ steps[i] = follow
      BY <1>4, <2>1, <3>1
    <3>. QED
      BY <1>5, <2>1, <3>2
  <2>. QED
    BY <2>1, <2>2
<1>. DEFINE body(g) == [i \in A!NodeIds |-> IF i = 1 THEN 1 ELSE IF g[i - 1] = 0 THEN 0 ELSE pool.mem[g[i - 1]].next]
            h == [i \in A!NodeIds |-> f[i - 1]]
            at == CHOOSE g : g = body(g)
<1>9. h = body(h)
  <2>1. ASSUME NEW i \in A!NodeIds
        PROVE  h[i] = IF i = 1 THEN 1 ELSE IF h[i - 1] = 0 THEN 0 ELSE pool.mem[h[i - 1]].next
    <3>1. CASE i = 1
      BY <1>8, <3>1
    <3>2. CASE i # 1
      <4>1. i - 1 \in A!NodeIds /\ i - 1 \in 1 .. MaxNodes - 1
        BY <1>1, <3>2
      <4>2. h[i] = f[i - 1] /\ h[i - 1] = f[(i - 1) - 1]
        BY <4>1
      <4>3. f[i - 1] = IF f[(i - 1) - 1] = 0 THEN 0 ELSE pool.mem[f[(i - 1) - 1]].next
        BY <1>8, <4>1
      <4>. QED
        BY <3>2, <4>2, <4>3
    <3>. QED
      BY <3>1, <3>2
  <2>. HIDE DEF h
  <2>2. h = [i \in A!NodeIds |-> h[i]]
    BY DEF h
  <2>. QED
    BY <2>1, <2>2
<1>10. at = body(at)
  <2>. HIDE DEF body, h
  <2>. QED
    BY <1>9
<1>11. A!walk_path(pool) = [i \in 1 .. Cardinality({k \in A!NodeIds : at[k] # 0}) |-> at[i]]
  <2>1. A!Cardinality({k \in A!NodeIds : at[k] # 0}) = Cardinality({k \in A!NodeIds : at[k] # 0})
    <3>. HIDE DEF at
    <3>. QED
      BY SameSize
  <2>. QED
    BY Zenon, <2>1 DEF A!walk_path, A!start_, A!null
<1>. HIDE DEF at, h
<1>12. /\ at = [i \in A!NodeIds |-> at[i]]
       /\ \A i \in A!NodeIds : at[i] = IF i = 1 THEN 1 ELSE IF at[i - 1] = 0 THEN 0 ELSE pool.mem[at[i - 1]].next
  BY <1>10
<1>13. at[1] = 1 /\ 1 \in A!NodeIds
  <2>1. 1 \in A!NodeIds
    BY <1>1
  <2>. QED
    BY ONLY <1>12, <2>1
<1>14. \A i \in 2 .. MaxNodes : at[i] = IF at[i - 1] = 0 THEN 0 ELSE pool.mem[at[i - 1]].next
  <2>1. \A i \in 2 .. MaxNodes : i \in A!NodeIds /\ i # 1
    BY <1>1
  <2>. QED
    BY <1>12, <2>1
<1>15. \A i \in A!NodeIds : at[i] \in X
  <2>. DEFINE good == {i \in 1 .. MaxNodes : at[i] \in X}
  <2>1. good \subseteq 1 .. MaxNodes /\ 1 \in good
    BY <1>1, <1>13 DEF X
  <2>2. ASSUME NEW i \in 1 .. MaxNodes - 1, i \in good PROVE i + 1 \in good
    <3>1. i + 1 \in 2 .. MaxNodes /\ (i + 1) - 1 = i /\ i + 1 \in 1 .. MaxNodes
      BY <1>1
    <3>2. at[i + 1] = IF at[i] = 0 THEN 0 ELSE pool.mem[at[i]].next
      BY <1>14, <3>1
    <3>3. at[i + 1] \in X
      BY <1>2, <2>2, <3>2 DEF X
    <3>. QED
      BY <3>1, <3>3
  <2>3. 1 \in Nat /\ MaxNodes \in Nat
    BY <1>1
  <2>4. \A i \in 1 .. MaxNodes : i \in good
    <3>. HIDE DEF good
    <3>. QED
      BY ONLY <2>1, <2>2, <2>3, Upwards
  <2>. QED
    BY <1>1, <2>4
<1>16. at \in [A!NodeIds -> A!NodeIds \union {0}]
  BY <1>12, <1>15 DEF X
<1>. QED
  BY <1>11, <1>13, <1>14, <1>16

(* From the start the nodes follow edges, of increasing scores, to the      *)
(* goal's: the linked nodes are all there are on the way.                   *)
LEMMA WalkFacts ==
    ASSUME A!Inv, status = "SUCCESS"
    PROVE  \E k, p :
              /\ k \in Nat \ {0}
              /\ p \in [1 .. k -> A!NodeIds] /\ A!walk_path(pool) = p /\ p[1] = 1 /\ p[k] = 2
              /\ \A i \in 1 .. k - 1 : /\ <<A!StateOf(p[i]), A!StateOf(p[i + 1])>> \in Edges
                                       /\ A!G(p[i + 1]) = A!G(p[i]) + A!EdgeCost(p[i], p[i + 1])
              /\ \A i, j \in 1 .. k : p[i] = p[j] => i = j
              /\ A!Linked \union {2} = {p[i] : i \in 1 .. k}
<1>1. A!Types /\ A!Scores /\ A!PathFound
  BY DEF A!Inv
<1>2. MaxNodes \in Nat /\ A!NodeIds = 1 .. MaxNodes
  BY SearchAssumption DEF A!ProblemAssumption, A!NodeIds
<1>3. /\ problem \in A!Problems /\ 1 \in A!NodeIds /\ 2 \in A!NodeIds /\ 0 \notin A!NodeIds
      /\ \A n \in A!NodeIds : A!G(n) \in Nat /\ A!StateOf(n) \in Vertices
      /\ A!Allocated \subseteq A!NodeIds
  BY <1>1, TypedNodes
<1>4. pool.mem[2].next = 0
  BY <1>1 DEF A!Scores, A!goal_, A!null
<1>. DEFINE L == A!Linked
<1>5. /\ 1 \in L \union {2} /\ 2 \notin L
      /\ \A m \in L : /\ pool.mem[m].next \in L \union {2}
                      /\ <<A!StateOf(m), A!StateOf(pool.mem[m].next)>> \in Edges
                      /\ A!G(pool.mem[m].next) = A!G(m) + A!EdgeCost(m, pool.mem[m].next)
      /\ \A n \in (L \union {2}) \ {1} : pool.mem[n].parent \in L /\ pool.mem[pool.mem[n].parent].next = n
  BY <1>1 DEF A!PathFound, A!Path, A!start_, A!goal_
<1>6. L \subseteq A!NodeIds
  BY <1>3 DEF A!Linked
<1>7. 1 \in L
  BY <1>5
<1>. HIDE DEF L
<1>8. \A m \in L : A!G(m) < A!G(pool.mem[m].next) /\ A!G(m) \in Nat /\ A!G(pool.mem[m].next) \in Nat
  <2>1. ASSUME NEW m \in L PROVE A!G(m) < A!G(pool.mem[m].next) /\ A!G(m) \in Nat /\ A!G(pool.mem[m].next) \in Nat
    <3>0. PICK n, d : n = pool.mem[m].next /\ d = A!EdgeCost(m, pool.mem[m].next)
      OBVIOUS
    <3>1. n \in A!NodeIds /\ A!G(m) \in Nat /\ A!G(n) \in Nat /\ <<A!StateOf(m), A!StateOf(n)>> \in Edges
          /\ A!G(n) = A!G(m) + d
      BY <1>3, <1>5, <1>6, <3>0
    <3>2. d \in Nat \ {0}
      <4>1. problem.cost \in [Edges -> Nat \ {0}]
        BY <1>3, ProblemFacts
      <4>. QED
        BY <3>0, <3>1, <4>1 DEF A!EdgeCost
    <3>. QED
      BY <3>0, <3>1, <3>2
  <2>. QED
    BY <2>1
<1>9. PICK at \in [A!NodeIds -> A!NodeIds \union {0}] :
          /\ at[1] = 1
          /\ \A i \in 2 .. MaxNodes : at[i] = IF at[i - 1] = 0 THEN 0 ELSE pool.mem[at[i - 1]].next
          /\ A!walk_path(pool) = [i \in 1 .. Cardinality({k \in A!NodeIds : at[k] # 0}) |-> at[i]]
  BY <1>1, WalkAt
<1>10. \A i \in 1 .. MaxNodes - 1 : /\ i \in A!NodeIds /\ i + 1 \in A!NodeIds
                                    /\ at[i + 1] = IF at[i] = 0 THEN 0 ELSE pool.mem[at[i]].next
  <2>1. ASSUME NEW i \in 1 .. MaxNodes - 1
        PROVE  /\ i \in A!NodeIds /\ i + 1 \in A!NodeIds
               /\ at[i + 1] = IF at[i] = 0 THEN 0 ELSE pool.mem[at[i]].next
    <3>1. i + 1 \in 2 .. MaxNodes /\ (i + 1) - 1 = i /\ i \in A!NodeIds /\ i + 1 \in A!NodeIds
      BY <1>2
    <3>. QED
      BY <1>9, <3>1
  <2>. QED
    BY <2>1
(* An initial segment of linked nodes has increasing scores.                *)
<1>11. ASSUME NEW b \in A!NodeIds, \A i \in 1 .. b - 1 : at[i] \in L
       PROVE  \A i, j \in 1 .. b : i < j => A!G(at[i]) < A!G(at[j])
  <2>1. SUFFICES ASSUME NEW i \in 1 .. b - 1 PROVE \A j \in i + 1 .. b : A!G(at[i]) < A!G(at[j])
    <3>1. \A i, j \in 1 .. b : i < j => i \in 1 .. b - 1 /\ j \in i + 1 .. b
      BY <1>2
    <3>. QED
      BY <2>1, <3>1
  <2>. DEFINE good == {j \in i + 1 .. b : A!G(at[i]) < A!G(at[j]) /\ A!G(at[j]) \in Nat}
  <2>2. \A j \in 1 .. b - 1 : A!G(at[j]) < A!G(at[j + 1]) /\ A!G(at[j]) \in Nat /\ A!G(at[j + 1]) \in Nat
    <3>1. ASSUME NEW j \in 1 .. b - 1
          PROVE  A!G(at[j]) < A!G(at[j + 1]) /\ A!G(at[j]) \in Nat /\ A!G(at[j + 1]) \in Nat
      <4>1. j \in 1 .. MaxNodes - 1 /\ at[j] \in L
        BY <1>2, <1>11
      <4>2. at[j + 1] = pool.mem[at[j]].next
        BY <1>3, <1>6, <1>10, <4>1
      <4>. QED
        BY <1>8, <4>1, <4>2
    <3>. QED
      BY <3>1
  <2>3. i + 1 \in Nat /\ b \in Nat /\ good \subseteq i + 1 .. b /\ i + 1 \in good
    <3>1. i + 1 \in Nat /\ b \in Nat /\ i + 1 \in i + 1 .. b
      BY <1>2
    <3>2. A!G(at[i]) < A!G(at[i + 1]) /\ A!G(at[i + 1]) \in Nat
      BY <2>2
    <3>. QED
      BY ONLY <3>1, <3>2
  <2>4. ASSUME NEW j \in i + 1 .. b - 1, j \in good PROVE j + 1 \in good
    <3>1. j \in 1 .. b - 1 /\ j + 1 \in i + 1 .. b
      BY <1>2
    <3>2. /\ A!G(at[j]) < A!G(at[j + 1]) /\ A!G(at[j]) \in Nat /\ A!G(at[j + 1]) \in Nat
          /\ A!G(at[i]) < A!G(at[j]) /\ A!G(at[i]) \in Nat
      BY <2>2, <2>4, <3>1
    <3>. QED
      BY <3>1, <3>2
  <2>5. \A j \in i + 1 .. b : j \in good
    <3>. HIDE DEF good
    <3>. QED
      BY ONLY <2>3, <2>4, Upwards
  <2>. QED
    BY <2>5
(* The goal's node is reached: there are not as many linked nodes as there  *)
(* are elements in the pool.                                               *)
<1>12. \E k \in A!NodeIds : at[k] = 2
  <2>. SUFFICES ASSUME \A k \in A!NodeIds : at[k] # 2 PROVE FALSE
    OBVIOUS
  <2>. DEFINE good == {i \in 1 .. MaxNodes : at[i] \in L}
  <2>1. 1 \in Nat /\ good \subseteq 1 .. MaxNodes /\ 1 \in good
    BY <1>2, <1>3, <1>7, <1>9
  <2>2. ASSUME NEW i \in 1 .. MaxNodes - 1, i \in good PROVE i + 1 \in good
    <3>1. at[i + 1] = pool.mem[at[i]].next /\ i + 1 \in A!NodeIds
      BY <1>3, <1>6, <1>10, <2>2
    <3>2. at[i + 1] \in L
      BY <1>5, <2>2, <3>1
    <3>. QED
      BY <1>2, <3>1, <3>2
  <2>3. \A i \in 1 .. MaxNodes : at[i] \in L
    <3>. HIDE DEF good
    <3>1. \A i \in 1 .. MaxNodes : i \in good
      BY ONLY <1>2, <2>1, <2>2, Upwards
    <3>. QED
      BY <3>1 DEF good
  <2>4. at \in [A!NodeIds -> A!NodeIds \ {2}]
    BY <1>2, <1>5, <1>6, <2>3
  <2>5. IsFiniteSet(A!NodeIds) /\ Cardinality(A!NodeIds) = MaxNodes
    <3>1. 1 \in Int /\ MaxNodes \in Int /\ ~(1 > MaxNodes) /\ MaxNodes - 1 + 1 = MaxNodes
      BY <1>2, <1>3
    <3>. QED
      BY <1>2, <3>1, FS_Interval
  <2>6. IsFiniteSet(A!NodeIds \ {2}) /\ Cardinality(A!NodeIds \ {2}) < Cardinality(A!NodeIds)
    <3>1. Cardinality(A!NodeIds \ {2}) = Cardinality(A!NodeIds) - 1 /\ IsFiniteSet(A!NodeIds \ {2})
      BY <1>3, <2>5, FS_RemoveElement
    <3>. QED
      BY <1>2, <2>5, <3>1
  <2>7. PICK i, j \in A!NodeIds : i # j /\ at[i] = at[j]
    BY ONLY <2>4, <2>5, <2>6, FS_PigeonHole
  <2>8. MaxNodes \in A!NodeIds
    BY <1>2, <1>3
  <2>9. \A m, n \in 1 .. MaxNodes : m < n => A!G(at[m]) < A!G(at[n])
    <3>1. \A m \in 1 .. MaxNodes - 1 : at[m] \in L
      BY <1>2, <2>3
    <3>. QED
      BY <1>11, <2>8, <3>1
  <2>10. A!G(at[i]) \in Nat
    BY <1>2, <1>3, <1>6, <2>3, <2>7
  <2>. QED
    BY <1>2, <2>7, <2>9, <2>10
<1>13. PICK k \in A!NodeIds : at[k] = 2 /\ \A i \in A!NodeIds : at[i] = 2 => k <= i
  <2>. DEFINE Q == {i \in A!NodeIds : at[i] = 2}
  <2>1. Q \in SUBSET Nat /\ Q # {}
    BY <1>2, <1>12
  <2>2. PICK m \in Q : \A i \in Q : m <= i
    <3>. HIDE DEF Q
    <3>. QED
      BY <2>1, LeastNat
  <2>. QED
    BY <2>2
<1>14. k \in Nat \ {0} /\ k <= MaxNodes
  BY <1>2
<1>15. \A i \in 1 .. k - 1 : at[i] \in L
  <2>. DEFINE good == {i \in 1 .. k - 1 : at[i] \in L}
  <2>1. CASE k = 1
    BY <2>1
  <2>2. CASE k # 1
    <3>1. 1 \in Nat /\ k - 1 \in Nat /\ good \subseteq 1 .. k - 1 /\ 1 \in good
      BY <1>7, <1>9, <1>14, <2>2
    <3>2. ASSUME NEW i \in 1 .. (k - 1) - 1, i \in good PROVE i + 1 \in good
      <4>1. i \in 1 .. MaxNodes - 1 /\ i + 1 \in 1 .. k - 1 /\ ~(k <= i + 1)
        BY <1>2, <1>14
      <4>2. at[i + 1] = pool.mem[at[i]].next /\ i + 1 \in A!NodeIds
        BY <1>3, <1>6, <1>10, <3>2, <4>1
      <4>3. at[i + 1] \in L \union {2} /\ at[i + 1] # 2
        BY <1>5, <1>13, <3>2, <4>1, <4>2
      <4>. QED
        BY <4>1, <4>3
    <3>3. \A i \in 1 .. k - 1 : i \in good
      <4>. HIDE DEF good
      <4>. QED
        BY ONLY <3>1, <3>2, Upwards
    <3>. QED
      BY <3>3
  <2>. QED
    BY <2>1, <2>2
<1>16. \A i \in k + 1 .. MaxNodes : at[i] = 0
  <2>. DEFINE good == {i \in k + 1 .. MaxNodes : at[i] = 0}
  <2>1. CASE k = MaxNodes
    BY <1>2, <2>1
  <2>2. CASE k # MaxNodes
    <3>1. k + 1 \in Nat /\ good \subseteq k + 1 .. MaxNodes /\ k \in 1 .. MaxNodes - 1 /\ k + 1 \in k + 1 .. MaxNodes
      BY <1>2, <1>14, <2>2
    <3>2. at[k + 1] = 0
      BY <1>4, <1>10, <1>13, <3>1
    <3>3. ASSUME NEW i \in k + 1 .. MaxNodes - 1, i \in good PROVE i + 1 \in good
      <4>1. i \in 1 .. MaxNodes - 1 /\ i + 1 \in k + 1 .. MaxNodes
        BY <1>2, <1>14
      <4>. QED
        BY <1>10, <3>3, <4>1
    <3>4. k + 1 \in good
      BY <3>1, <3>2
    <3>5. \A i \in k + 1 .. MaxNodes : i \in good
      <4>. HIDE DEF good
      <4>. QED
        BY ONLY <1>2, <3>1, <3>3, <3>4, Upwards
    <3>. QED
      BY <3>5
  <2>. QED
    BY <2>1, <2>2
<1>17. {i \in A!NodeIds : at[i] # 0} = 1 .. k
  <2>1. \A i \in 1 .. k : i \in A!NodeIds /\ at[i] # 0
    <3>1. \A i \in 1 .. k : i \in A!NodeIds /\ (i = k \/ i \in 1 .. k - 1)
      BY <1>2, <1>14
    <3>. QED
      BY <1>3, <1>6, <1>13, <1>15, <3>1
  <2>2. \A i \in A!NodeIds : i \in 1 .. k \/ i \in k + 1 .. MaxNodes
    BY <1>2, <1>14
  <2>. QED
    BY <1>16, <2>1, <2>2
<1>18. Cardinality(1 .. k) = k
  <2>1. 1 \in Int /\ k \in Int /\ ~(1 > k) /\ k - 1 + 1 = k
    BY <1>14
  <2>. QED
    BY <2>1, FS_Interval
<1>. DEFINE p == [i \in 1 .. k |-> at[i]]
<1>19. A!walk_path(pool) = p
  BY <1>9, <1>17, <1>18
<1>20. \A i \in 1 .. k : p[i] = at[i] /\ i \in A!NodeIds /\ at[i] \in L \union {2} /\ at[i] \in A!NodeIds
  <2>1. \A i \in 1 .. k : i \in A!NodeIds /\ (i = k \/ i \in 1 .. k - 1)
    BY <1>2, <1>14
  <2>. QED
    BY <1>3, <1>6, <1>13, <1>15, <2>1
<1>21. p \in [1 .. k -> A!NodeIds] /\ p[1] = 1 /\ p[k] = 2
  BY <1>9, <1>13, <1>14, <1>20
<1>22. \A i \in 1 .. k - 1 : i \in 1 .. k /\ i + 1 \in 1 .. k /\ at[i] \in L /\ at[i + 1] = pool.mem[at[i]].next
  <2>1. ASSUME NEW i \in 1 .. k - 1 PROVE i \in 1 .. k /\ i + 1 \in 1 .. k /\ at[i] \in L /\ at[i + 1] = pool.mem[at[i]].next
    <3>1. i \in 1 .. MaxNodes - 1 /\ i \in 1 .. k /\ i + 1 \in 1 .. k
      BY <1>2, <1>14
    <3>. QED
      BY <1>3, <1>6, <1>10, <1>15, <3>1
  <2>. QED
    BY <2>1
<1>. HIDE DEF p
<1>23. \A i \in 1 .. k - 1 : /\ <<A!StateOf(p[i]), A!StateOf(p[i + 1])>> \in Edges
                             /\ A!G(p[i + 1]) = A!G(p[i]) + A!EdgeCost(p[i], p[i + 1])
  BY <1>5, <1>20, <1>22
<1>24. \A i, j \in 1 .. k : p[i] = p[j] => i = j
  <2>1. \A i, j \in 1 .. k : i < j => A!G(p[i]) < A!G(p[j])
    BY <1>11, <1>15, <1>20
  <2>2. \A i \in 1 .. k : A!G(p[i]) \in Nat
    BY <1>3, <1>20
  <2>. QED
    BY <1>14, <2>1, <2>2
<1>25. L \union {2} = {p[i] : i \in 1 .. k}
  <2>. DEFINE R == {p[i] : i \in 1 .. k}
              Q == {A!G(n) : n \in (L \union {2}) \ R}
  <2>1. R \subseteq L \union {2}
    BY <1>20
  <2>2. Q \in SUBSET Nat
    BY <1>3, <1>6
  <2>3. CASE Q = {}
    BY <2>1, <2>3
  <2>4. CASE Q # {}
    <3>1. PICK m \in Q : \A s \in Q : m <= s
      <4>. HIDE DEF Q
      <4>. QED
        BY <2>2, <2>4, LeastNat
    <3>2. PICK n \in (L \union {2}) \ R : \A j \in (L \union {2}) \ R : A!G(n) <= A!G(j)
      BY <3>1
    <3>3. n # 1
      <4>1. p[1] \in R
        BY <1>14
      <4>. QED
        BY <1>21, <3>2, <4>1
    <3>4. PICK q : q = pool.mem[n].parent
      OBVIOUS
    <3>5. q \in L /\ pool.mem[q].next = n
      BY <1>5, <3>2, <3>3, <3>4
    <3>6. q \in R
      <4>1. A!G(q) < A!G(n) /\ A!G(q) \in Nat /\ A!G(n) \in Nat
        BY <1>8, <3>5
      <4>2. ~(A!G(n) <= A!G(q))
        BY <4>1
      <4>. QED
        BY <3>2, <3>5, <4>2
    <3>7. PICK i \in 1 .. k : q = p[i]
      BY <3>6
    <3>8. i \in 1 .. k - 1
      <4>1. i # k
        BY <1>5, <1>21, <3>5, <3>7
      <4>. QED
        BY <1>14, <4>1
    <3>9. p[i + 1] = n /\ i + 1 \in 1 .. k
      BY <1>20, <1>22, <3>5, <3>7, <3>8
    <3>. QED
      BY <3>2, <3>9
  <2>. QED
    BY <2>3, <2>4
<1>. QED
  BY <1>14, <1>19, <1>21, <1>23, <1>24, <1>25 DEF L

(* The destructor gives back the nodes of the path, which are the last.     *)
LEMMA DestroyStep ==
    ASSUME A!Inv, A!Destroy
    PROVE  A!Inv'
<1>1. /\ status \in {"SUCCESS", "FAILURE"} /\ status' = "DESTROYED" /\ problem' = problem /\ open' = open
      /\ closed' = closed /\ cursor' = cursor /\ solution_cost' = solution_cost /\ cancelled' = cancelled
      /\ status # "SUCCESS" => pool' = pool
      /\ status = "SUCCESS" => pool' = [pool EXCEPT !.free = A!Reverse(A!walk_path(pool)) \o pool.free]
  BY DEF A!Destroy
<1>2. A!Types /\ A!Books
  BY DEF A!Inv
<1>3. /\ pool' = [mem |-> pool.mem, free |-> pool'.free] /\ pool'.mem = pool.mem
      /\ pool'.free \in Seq(A!NodeIds) /\ A!IsInjective(pool'.free)
      /\ A!Range(pool'.free) = A!NodeIds
  <2>1. /\ pool.free \in Seq(A!NodeIds) /\ A!IsInjective(pool.free)
        /\ pool = [mem |-> pool.mem, free |-> pool.free] /\ A!Range(pool.free) \subseteq A!NodeIds
    <3>1. pool.free \in Seq(A!NodeIds)
      BY <1>2, TypedNodes
    <3>2. A!Range(pool.free) \subseteq A!NodeIds
      BY <3>1 DEF A!Range
    <3>. QED
      BY <1>2, <3>1, <3>2, TypedNodes DEF A!Books
  <2>2. CASE status = "FAILURE"
    <3>1. A!Allocated = {}
      BY <1>2, <2>2 DEF A!Books
    <3>. QED
      BY <1>1, <2>1, <2>2, <3>1 DEF A!Allocated
  <2>3. CASE status = "SUCCESS"
    <3>1. PICK k, p :
            /\ k \in Nat \ {0}
            /\ p \in [1 .. k -> A!NodeIds] /\ A!walk_path(pool) = p
            /\ \A i, j \in 1 .. k : p[i] = p[j] => i = j
            /\ A!Linked \union {2} = {p[i] : i \in 1 .. k}
      BY <2>3, WalkFacts
    <3>2. PICK s : s = A!Reverse(p)
      OBVIOUS
    <3>3. p \in Seq(A!NodeIds) /\ Len(p) = k /\ DOMAIN p = 1 .. k
      BY <3>1
    <3>4. s = [i \in 1 .. k |-> p[(k - i) + 1]]
      BY <3>2, <3>3 DEF A!Reverse
    <3>5. \A i \in 1 .. k : (k - i) + 1 \in 1 .. k /\ (k - ((k - i) + 1)) + 1 = i
      BY <3>1
    <3>6. /\ DOMAIN s = 1 .. k /\ s \in Seq(A!NodeIds)
          /\ \A i \in 1 .. k : s[i] = p[(k - i) + 1] /\ s[(k - i) + 1] = p[i]
      BY <3>1, <3>4, <3>5
    <3>7. A!IsInjective(s) /\ A!Range(s) = {2} \union A!Linked
      <4>1. A!IsInjective(s)
        <5>1. ASSUME NEW i \in 1 .. k, NEW j \in 1 .. k, s[i] = s[j] PROVE i = j
          <6>1. (k - i) + 1 = (k - j) + 1
            BY <3>1, <3>5, <3>6, <5>1
          <6>. QED
            BY <3>1, <6>1
        <5>. QED
          BY <3>6, <5>1 DEF A!IsInjective
      <4>2. A!Range(s) = {p[i] : i \in 1 .. k}
        BY <3>5, <3>6 DEF A!Range
      <4>. QED
        BY <3>1, <4>1, <4>2
    <3>8. A!Allocated = {2} \union A!Linked
      BY <1>2, <2>3 DEF A!Books, A!goal_
    <3>9. A!Range(s) \cap A!Range(pool.free) = {} /\ A!Range(s) \union A!Range(pool.free) = A!NodeIds
      BY <2>1, <3>7, <3>8 DEF A!Allocated
    <3>10. /\ s \o pool.free \in Seq(A!NodeIds) /\ A!IsInjective(s \o pool.free)
           /\ A!Range(s \o pool.free) = A!Range(s) \union A!Range(pool.free)
      BY <2>1, <3>6, <3>7, <3>9, Prepended
    <3>11. PICK m, f, q : m = pool.mem /\ f = pool.free /\ q = s \o pool.free /\ pool = [mem |-> m, free |-> f]
      BY <2>1
    <3>12. pool' = [mem |-> m, free |-> q]
      <4>1. pool' = [pool EXCEPT !.free = q]
        BY <1>1, <2>3, <3>1, <3>2, <3>11
      <4>2. [[mem |-> m, free |-> f] EXCEPT !.free = q] = [mem |-> m, free |-> q]
        BY Freed
      <4>. QED
        BY Zenon, <3>11, <4>1, <4>2
    <3>13. pool'.mem = m /\ pool'.free = q
      BY ONLY <3>12
    <3>. QED
      BY <3>9, <3>10, <3>11, <3>12, <3>13
  <2>. QED
    BY <1>1, <2>2, <2>3
<1>4. A!Types'
  <2>1. A!Known' = A!Known
    BY <1>1 DEF A!Known, A!Current
  <2>2. /\ problem \in A!Problems /\ pool \in [mem : [A!NodeIds -> A!Nodes], free : Seq(A!NodeIds)]
        /\ open \in [set : SUBSET A!NodeIds, heap : {TRUE}, hash : SUBSET A!NodeIds]
        /\ closed \subseteq A!NodeIds /\ cursor \in A!Cursors /\ solution_cost \in Nat /\ cancelled \in BOOLEAN
        /\ cursor.at = "top" /\ A!Known = {}
    BY <1>1, <1>2 DEF A!Types
  <2>3. pool' \in [mem : [A!NodeIds -> A!Nodes], free : Seq(A!NodeIds)]
    BY <1>3, <2>2
  <2>. QED
    BY <1>1, <2>1, <2>2, <2>3 DEF A!Types
<1>5. A!Books'
  <2>1. A!Allocated' = {}
    BY <1>3 DEF A!Allocated
  <2>. QED
    BY <1>1, <1>3, <2>1 DEF A!Books
<1>6. A!Scores' /\ A!Parents' /\ A!Expanded' /\ A!PathSoFar' /\ A!PathFound' /\ A!FailureMeansUnreachable'
  BY <1>1 DEF A!Scores, A!Parents, A!Expanded, A!Searching, A!PathSoFar, A!PathFound, A!FailureMeansUnreachable
<1>. QED
  BY <1>4, <1>5, <1>6 DEF A!Inv

LEMMA SearchStutters ==
    ASSUME A!Inv, UNCHANGED A!vars
    PROVE  A!Inv'
<1>1. /\ problem' = problem /\ pool' = pool /\ open' = open /\ closed' = closed /\ cursor' = cursor
      /\ status' = status /\ solution_cost' = solution_cost /\ cancelled' = cancelled
  BY DEF A!vars
<1>2. /\ A!Current' = A!Current /\ A!Known' = A!Known /\ A!Live' = A!Live /\ A!Allocated' = A!Allocated
      /\ A!Linked' = A!Linked
  <2>1. A!Current' = A!Current
    BY <1>1 DEF A!Current
  <2>2. A!Known' = A!Known /\ A!Allocated' = A!Allocated
    BY <1>1, <2>1 DEF A!Known, A!Allocated
  <2>3. A!Live' = A!Live /\ A!Linked' = A!Linked
    BY Zenon, <1>1, <2>2 DEF A!Live, A!Linked
  <2>. QED
    BY <2>1, <2>2, <2>3
<1>3. A!Types' /\ A!Books' /\ A!FailureMeansUnreachable'
  <2>1. A!Types /\ A!Books /\ A!FailureMeansUnreachable
    BY DEF A!Inv
  <2>2. A!Types'
    BY <1>1, <1>2, <2>1 DEF A!Types
  <2>3. A!Books'
    BY <1>1, <1>2, <2>1 DEF A!Books
  <2>. QED
    BY <1>1, <2>1, <2>2, <2>3 DEF A!FailureMeansUnreachable
<1>4. A!Scores'
  <2>1. A!Scores
    BY DEF A!Inv
  <2>. QED
    BY <1>1, <1>2, <2>1 DEF A!Scores, A!StateOf, A!G, A!ToGoal
<1>5. \A n : A!ParentOK(n)' <=> A!ParentOK(n)
  BY <1>1, <1>2 DEF A!ParentOK, A!StateOf, A!G, A!EdgeCost
<1>6. A!Parents'
  <2>1. A!Parents
    BY DEF A!Inv
  <2>. QED
    BY <1>1, <1>2, <1>5, <2>1 DEF A!Parents, A!start_
<1>7. A!Expanded'
  <2>1. A!Expanded
    BY DEF A!Inv
  <2>. QED
    BY <1>1, <1>2, <2>1 DEF A!Expanded, A!Searching, A!StateOf, A!G
<1>8. \A x : A!Path(x)' <=> A!Path(x)
  BY <1>1, <1>2 DEF A!Path, A!StateOf, A!G, A!EdgeCost, A!goal_
<1>9. A!PathSoFar' /\ A!PathFound'
  <2>1. A!PathSoFar /\ A!PathFound
    BY DEF A!Inv
  <2>2. A!Path(cursor.next)' <=> A!Path(cursor.next)
    BY <1>1, <1>2 DEF A!Path, A!StateOf, A!G, A!EdgeCost, A!goal_
  <2>3. A!PathSoFar'
    BY <1>1, <1>2, <1>5, <2>1, <2>2 DEF A!PathSoFar, A!StateOf, A!G, A!ToGoal, A!goal_
  <2>4. A!PathFound'
    BY <1>1, <1>8, <2>1 DEF A!PathFound, A!start_
  <2>. QED
    BY <2>3, <2>4
<1>. QED
  BY <1>3, <1>4, <1>6, <1>7, <1>9 DEF A!Inv

LEMMA SearchStep ==
    ASSUME A!Proper
    PROVE  A!Inv /\ [A!Next]_(A!vars) => A!Inv'
<1>. SUFFICES ASSUME A!Inv, A!Next \/ UNCHANGED A!vars PROVE A!Inv'
  OBVIOUS
<1>1. CASE A!Exhausted
  BY <1>1, GiveUpStep
<1>2. CASE A!Pop
  BY <1>2, PopStep
<1>3. CASE A!Analyze
  BY <1>3, AnalyzeStep
<1>4. CASE A!Close
  BY <1>4, CloseStep
<1>5. CASE A!Reach
  BY <1>5, ReachStep
<1>6. CASE A!Link
  BY <1>6, LinkStep
<1>7. CASE A!Finish
  BY <1>7, FinishStep
<1>8. CASE A!Cancelled
  BY <1>8, GiveUpStep
<1>9. CASE A!Destroy
  BY <1>9, DestroyStep
<1>10. CASE UNCHANGED A!vars
  BY <1>10, SearchStutters
<1>. QED
  BY <1>1, <1>2, <1>3, <1>4, <1>5, <1>6, <1>7, <1>8, <1>9, <1>10 DEF A!Next, A!step

(* For every problem whose states are not their own successors and whose    *)
(* start is not the goal: one valid node for each state seen, its parent in *)
(* the pool, and every element of the pool in one place.                    *)
THEOREM SearchInvariance == ASSUME A!Proper PROVE A!Spec => []A!Inv
<1>1. A!Init => A!Inv
  BY SearchInit
<1>2. A!Inv /\ [A!Next]_(A!vars) => A!Inv'
  BY SearchStep
<1>. QED
  BY <1>1, <1>2, PTL DEF A!Spec

(* What it says of the nodes.                                               *)
LEMMA DistinctElements ==
    ASSUME NEW f \in Seq(A!NodeIds), A!IsInjective(f)
    PROVE  Cardinality(A!Range(f)) = Len(f)
<1>1. Len(f) \in Nat /\ DOMAIN f = 1 .. Len(f) /\ \A i \in 1 .. Len(f) : f[i] \in A!Range(f)
  BY DEF A!Range
<1>2. f \in [1 .. Len(f) -> A!Range(f)]
  BY <1>1
<1>3. f \in Surjection(1 .. Len(f), A!Range(f)) /\ f \in Injection(1 .. Len(f), A!Range(f))
  <2>1. \A y \in A!Range(f) : \E i \in 1 .. Len(f) : f[i] = y
    BY <1>1 DEF A!Range
  <2>2. \A i, j \in 1 .. Len(f) : f[i] = f[j] => i = j
    BY <1>1 DEF A!IsInjective
  <2>. QED
    BY <1>2, <2>1, <2>2 DEF Surjection, Injection, IsInjective
<1>4. IsFiniteSet(1 .. Len(f)) /\ Cardinality(1 .. Len(f)) = Len(f)
  <2>1. 1 \in Int /\ Len(f) \in Int /\ (1 > Len(f) => Len(f) = 0) /\ Len(f) - 1 + 1 = Len(f)
    BY <1>1
  <2>. QED
    BY <2>1, FS_Interval
<1>. QED
  BY <1>3, <1>4, FS_Surjection

LEMMA NodesFact ==
    ASSUME A!Inv
    PROVE  A!TypeOK /\ A!NodesAccounted /\ A!ParentsAlive
<1>1. A!Types /\ A!Books /\ A!Scores /\ A!Parents
  BY DEF A!Inv
<1>2. A!TypeOK
  BY <1>1, TypedNodes DEF A!TypeOK, A!Types
<1>3. A!NodesAccounted
  <2>1. A!Cardinality(A!Range(pool.free)) = Len(pool.free)
    <3>1. pool.free \in Seq(A!NodeIds) /\ A!IsInjective(pool.free)
      BY <1>1, TypedNodes DEF A!Books
    <3>. QED
      BY <3>1, DistinctElements, SameSize
  <2>2. A!BetweenSteps => /\ A!Allocated = {2} \union open.set \union closed
                          /\ 2 \notin open.set \union closed
                          /\ open.set \cap closed = {}
    <3>. SUFFICES ASSUME status = "RUNNING", cursor.at = "top"
                  PROVE  /\ A!Allocated = {2} \union open.set \union closed
                         /\ 2 \notin open.set \union closed
                         /\ open.set \cap closed = {}
      BY DEF A!BetweenSteps
    <3>1. A!Known = open.set \union closed
      BY DEF A!Known, A!Current
    <3>. QED
      BY <1>1, <3>1 DEF A!Books, A!goal_
  <2>3. A!OnlyPathAlive
    <3>. SUFFICES ASSUME status = "SUCCESS" PROVE A!Allocated = A!Range(A!walk_path(pool))
      BY DEF A!OnlyPathAlive
    <3>1. PICK k, p :
            /\ k \in Nat \ {0}
            /\ p \in [1 .. k -> A!NodeIds] /\ A!walk_path(pool) = p
            /\ A!Linked \union {2} = {p[i] : i \in 1 .. k}
      BY WalkFacts
    <3>2. A!Range(p) = {p[i] : i \in 1 .. k}
      BY <3>1 DEF A!Range
    <3>. QED
      BY <1>1, <3>1, <3>2 DEF A!Books, A!goal_
  <2>4. status \in {"FAILURE", "DESTROYED"} => A!Allocated = {}
    BY <1>1 DEF A!Books
  <2>. QED
    BY <2>1, <2>2, <2>3, <2>4 DEF A!NodesAccounted, A!goal_
<1>4. A!ParentsAlive
  <2>. SUFFICES ASSUME status = "RUNNING", NEW n \in open.set \union closed, pool.mem[n].valid, pool.mem[n].parent # 0
                PROVE  /\ pool.mem[n].parent \in A!Allocated
                       /\ <<A!StateOf(pool.mem[n].parent), A!StateOf(n)>> \in Edges
    BY Zenon DEF A!ParentsAlive, A!null
  <2>1. n \in A!Live
    <3>1. n \in A!Known
      BY DEF A!Known
    <3>. QED
      BY Zenon, <3>1 DEF A!Live
  <2>2. n # 1
    BY <1>1 DEF A!Scores, A!start_, A!null
  <2>3. /\ pool.mem[n].parent \in A!Known
        /\ <<A!StateOf(pool.mem[n].parent), A!StateOf(n)>> \in Edges
    BY <1>1, <2>1, <2>2 DEF A!Parents, A!start_, A!ParentOK
  <2>. QED
    BY <1>1, <2>3 DEF A!Books
<1>. QED
  BY <1>2, <1>3, <1>4

(* What it says of a solution.                                              *)
LEMMA FrontierFact ==
    ASSUME A!Inv
    PROVE  A!FrontierLeadsToGoal
<1>. SUFFICES ASSUME status = "RUNNING", cursor.at = "top", problem.best < 1000
              PROVE  \E n \in open.set : pool.mem[n].valid /\ A!f_score(pool, n) <= problem.best
  BY Zenon DEF A!FrontierLeadsToGoal, A!BetweenSteps, A!Infinity
<1>1. PICK n \in A!Live : n \in open.set /\ A!G(n) + A!ToGoal(A!StateOf(n)) = problem.best
  BY Frontier
<1>2. problem \in A!Problems /\ n \in A!NodeIds /\ A!StateOf(n) \in Vertices /\ A!G(n) \in Nat
  <2>1. A!Types
    BY DEF A!Inv
  <2>. QED
    BY <2>1, TypedNodes
<1>3. A!f_score(pool, n) = A!G(n) + problem.h[A!StateOf(n)]
  BY DEF A!f_score, A!heuristic, A!G, A!StateOf
<1>4. /\ problem.h[A!StateOf(n)] <= A!ToGoal(A!StateOf(n)) /\ problem.h[A!StateOf(n)] \in Nat
      /\ A!ToGoal(A!StateOf(n)) \in Nat
  BY <1>2, ProblemFacts
<1>5. A!f_score(pool, n) <= problem.best
  BY <1>1, <1>2, <1>3, <1>4
<1>6. pool.mem[n].valid
  BY Zenon DEF A!Live
<1>. QED
  BY Zenon, <1>1, <1>5, <1>6

LEMMA OptimalFact ==
    ASSUME A!Inv
    PROVE  A!Optimal
<1>. SUFFICES ASSUME status = "SUCCESS" PROVE A!Optimal
  BY DEF A!Optimal
<1>. DEFINE p == A!walk_path(pool)
<1>1. PICK k \in Nat \ {0} :
        /\ p \in [1 .. k -> A!NodeIds] /\ p[1] = 1 /\ p[k] = 2
        /\ \A i \in 1 .. k - 1 : /\ <<A!StateOf(p[i]), A!StateOf(p[i + 1])>> \in Edges
                                 /\ A!G(p[i + 1]) = A!G(p[i]) + A!EdgeCost(p[i], p[i + 1])
  <2>1. PICK k, q :
          /\ k \in Nat \ {0}
          /\ q \in [1 .. k -> A!NodeIds] /\ p = q /\ q[1] = 1 /\ q[k] = 2
          /\ \A i \in 1 .. k - 1 : /\ <<A!StateOf(q[i]), A!StateOf(q[i + 1])>> \in Edges
                                   /\ A!G(q[i + 1]) = A!G(q[i]) + A!EdgeCost(q[i], q[i + 1])
    BY WalkFacts
  <2>. HIDE DEF p
  <2>. QED
    BY <2>1
<1>. HIDE DEF p
<1>2. Len(p) = k
  BY <1>1
<1>3. /\ A!StateOf(1) = Start /\ A!G(1) = 0 /\ A!G(2) = problem.best /\ solution_cost = problem.best
  BY DEF A!Inv, A!Scores, A!PathFound, A!Path, A!start_, A!goal_
<1>. DEFINE edge(i) == <<A!StateOf(p[i]), A!StateOf(p[i + 1])>>
            body(g) == [i \in 1 .. k |-> IF i = 1 THEN 0 ELSE g[i - 1] + problem.cost[edge(i - 1)]]
            h == [i \in 1 .. k |-> A!G(p[i])]
            walked == CHOOSE g : g = [i \in 1 .. Len(p) |-> IF i = 1 THEN 0 ELSE g[i - 1] + problem.cost[edge(i - 1)]]
<1>4. \A i \in 2 .. k : i - 1 \in 1 .. k /\ i - 1 \in 1 .. k - 1 /\ A!G(p[i]) = A!G(p[i - 1]) + problem.cost[edge(i - 1)]
  <2>1. ASSUME NEW i \in 2 .. k
        PROVE  i - 1 \in 1 .. k /\ i - 1 \in 1 .. k - 1 /\ A!G(p[i]) = A!G(p[i - 1]) + problem.cost[edge(i - 1)]
    <3>1. i - 1 \in 1 .. k - 1 /\ (i - 1) + 1 = i /\ i - 1 \in 1 .. k
      BY <1>1
    <3>2. A!G(p[(i - 1) + 1]) = A!G(p[i - 1]) + A!EdgeCost(p[i - 1], p[(i - 1) + 1])
      BY <1>1, <3>1
    <3>3. A!EdgeCost(p[i - 1], p[(i - 1) + 1]) = problem.cost[edge(i - 1)]
      BY DEF A!EdgeCost
    <3>. HIDE DEF edge
    <3>. QED
      BY <3>1, <3>2, <3>3
  <2>. QED
    BY <2>1
<1>5. h = body(h)
  <2>1. ASSUME NEW i \in 1 .. k
        PROVE  h[i] = IF i = 1 THEN 0 ELSE h[i - 1] + problem.cost[edge(i - 1)]
    <3>1. CASE i = 1
      BY <1>1, <1>3, <3>1
    <3>2. CASE i # 1
      <4>1. i \in 2 .. k
        BY <1>1, <3>2
      <4>. HIDE DEF edge
      <4>. QED
        BY <1>4, <3>2, <4>1
    <3>. QED
      BY <3>1, <3>2
  <2>2. h = [i \in 1 .. k |-> h[i]]
    OBVIOUS
  <2>. HIDE DEF h, edge
  <2>. QED
    BY <2>1, <2>2
<1>6. walked = body(walked)
  <2>1. walked = CHOOSE g : g = body(g)
    BY <1>2
  <2>. HIDE DEF body, h, walked
  <2>. QED
    BY <1>5, <2>1
<1>7. \A i \in 1 .. k : walked[i] = h[i]
  <2>. DEFINE good == {i \in 1 .. k : walked[i] = h[i]}
  <2>0. \A i \in 1 .. k : /\ walked[i] = (IF i = 1 THEN 0 ELSE walked[i - 1] + problem.cost[edge(i - 1)])
                          /\ h[i] = (IF i = 1 THEN 0 ELSE h[i - 1] + problem.cost[edge(i - 1)])
    <3>. HIDE DEF walked, h, edge
    <3>. QED
      BY <1>5, <1>6
  <2>. HIDE DEF walked, h, edge
  <2>1. 1 \in Nat /\ k \in Nat /\ good \subseteq 1 .. k /\ 1 \in good
    BY <1>1, <2>0
  <2>2. ASSUME NEW i \in 1 .. k - 1, i \in good PROVE i + 1 \in good
    <3>1. i + 1 \in 1 .. k /\ i + 1 # 1 /\ (i + 1) - 1 = i
      BY <1>1
    <3>. QED
      BY <2>0, <2>2, <3>1
  <2>3. \A i \in 1 .. k : i \in good
    <3>. HIDE DEF good
    <3>. QED
      BY ONLY <2>1, <2>2, Upwards
  <2>. QED
    BY <2>3
<1>8. walked[k] = A!G(2)
  <2>1. k \in 1 .. k /\ h[k] = A!G(2)
    BY <1>1
  <2>. HIDE DEF walked, h
  <2>. QED
    BY <1>7, <2>1
<1>9. A!Optimal <=> /\ A!StateOf(p[1]) = Start /\ p[Len(p)] = 2
                    /\ \A i \in 1 .. Len(p) - 1 : edge(i) \in Edges
                    /\ solution_cost = walked[Len(p)]
                    /\ solution_cost = problem.best
  BY Zenon DEF A!Optimal, A!goal_, p
<1>10. \A i \in 1 .. Len(p) - 1 : edge(i) \in Edges
  BY <1>1, <1>2
<1>. HIDE DEF walked, edge
<1>. QED
  BY <1>1, <1>2, <1>3, <1>8, <1>9, <1>10

(* A search that succeeds returns a shortest path, for every admissible     *)
(* heuristic, one that fails on its own has none to find, and between steps *)
(* an open node lies on a shortest path: in both versions, for every graph. *)
THEOREM OptimalHolds == ASSUME A!Proper PROVE A!Spec => []Optimal
<1>1. A!Inv => Optimal
  BY OptimalFact, FrontierFact DEF Optimal, A!Inv
<1>. QED
  BY <1>1, SearchInvariance, PTL

(* No node of a search leaks or is destroyed twice, no parent pointer that  *)
(* is followed leads to a destroyed node, and the destructor destroys what  *)
(* is left: the nodes of the path.                                         *)
THEOREM NodesAccountedHolds == ASSUME A!Proper PROVE A!Spec => []NodesAccounted
<1>1. A!Inv => NodesAccounted
  BY NodesFact DEF NodesAccounted
<1>. QED
  BY <1>1, SearchInvariance, PTL

-----------------------------------------------------------------------------
(* The segmented vector: blocks and places.                                *)

BlockLen == S!num_elements_in_block

LEMMA BlockLenFacts == ASSUME S!SegmentAssumption PROVE BlockLen \in Nat \ {0}
BY DEF S!SegmentAssumption, BlockLen, S!num_elements_in_block

(* Division with remainder.                                                *)
LEMMA BlockDivision ==
    ASSUME NEW b \in Nat \ {0}, NEW i \in Nat
    PROVE  /\ i \div b \in Nat /\ i % b \in 0 .. b - 1 /\ i = (i \div b) * b + (i % b)
           /\ \A k \in Nat : i < k * b => i \div b < k
<1>1. PICK q, r : q = i \div b /\ r = i % b
  OBVIOUS
<1>2. q \in Int /\ r \in 0 .. b - 1 /\ i = q * b + r
  <2>1. i \in Int /\ b > 0
    OBVIOUS
  <2>. QED
    BY <1>1, <2>1
<1>3. q \in Nat
  <2>1. ASSUME q <= -1 PROVE FALSE
    <3>1. q * b <= (-1) * b
      BY <1>2, <2>1
    <3>. QED
      BY <1>2, <3>1
  <2>. QED
    BY <1>2, <2>1
<1>4. ASSUME NEW k \in Nat, i < k * b PROVE q < k
  <2>1. ASSUME k <= q PROVE FALSE
    <3>1. k * b <= q * b
      BY <1>2, <1>3, <2>1
    <3>. QED
      BY <1>2, <1>3, <1>4, <3>1
  <2>. QED
    BY <1>3, <2>1
<1>. QED
  BY <1>1, <1>2, <1>3, <1>4

(* As many blocks as calc_num_blocks_for_capacity says are enough, and no  *)
(* fewer.                                                                  *)
LEMMA BlocksEnough ==
    ASSUME S!SegmentAssumption, NEW c \in Nat
    PROVE  /\ S!calc_num_blocks_for_capacity(c) \in Nat
           /\ c <= S!calc_num_blocks_for_capacity(c) * BlockLen
           /\ \A k \in Nat : c <= k * BlockLen => S!calc_num_blocks_for_capacity(c) <= k
<1>1. PICK b \in Nat \ {0} : b = BlockLen
  BY BlockLenFacts
<1>2. PICK n \in Nat : n = c + b - 1
  BY <1>1
<1>3. PICK q : q = n \div b
  OBVIOUS
<1>4. S!calc_num_blocks_for_capacity(c) = q
  BY <1>1, <1>2, <1>3 DEF S!calc_num_blocks_for_capacity, BlockLen
<1>5. /\ q \in Nat /\ n % b \in 0 .. b - 1 /\ n = q * b + (n % b)
      /\ \A k \in Nat : n < k * b => q < k
  BY <1>3, BlockDivision
<1>6. c <= q * b
  <2>1. PICK r \in 0 .. b - 1 : r = n % b
    BY <1>5
  <2>2. q * b \in Nat
    BY <1>5
  <2>. QED
    BY <1>2, <1>5, <2>1, <2>2
<1>7. ASSUME NEW k \in Nat, c <= k * b PROVE q <= k
  <2>1. n < (k + 1) * b
    <3>1. (k + 1) * b = k * b + b /\ k * b \in Nat
      OBVIOUS
    <3>. QED
      BY <1>2, <1>7, <3>1
  <2>2. q < k + 1
    BY <1>5, <2>1
  <2>. QED
    BY <1>5, <2>2
<1>. QED
  BY <1>1, <1>4, <1>5, <1>6, <1>7

(* The blocks of a vector with room for size elements.                     *)
LEMMA Places ==
    ASSUME S!SegmentAssumption, NEW blocks \in Seq(S!Segments), NEW i \in Nat, i < Len(blocks) * BlockLen
    PROVE  /\ i \div BlockLen + 1 \in 1 .. Len(blocks)
           /\ blocks[i \div BlockLen + 1] \in S!Segments
           /\ i % BlockLen \in 0 .. BlockLen - 1
<1>1. PICK b \in Nat \ {0} : b = BlockLen
  BY BlockLenFacts
<1>2. PICK k \in Nat : k = Len(blocks)
  OBVIOUS
<1>3. PICK q : q = i \div b
  OBVIOUS
<1>4. q \in Nat /\ i % b \in 0 .. b - 1 /\ q < k
  BY <1>1, <1>2, <1>3, BlockDivision
<1>5. q + 1 \in 1 .. k /\ blocks[q + 1] \in S!Segments
  BY <1>2, <1>4
<1>. QED
  BY <1>1, <1>2, <1>3, <1>4, <1>5

LEMMA PlacesApart ==
    ASSUME S!SegmentAssumption, NEW blocks \in Seq(S!Segments),
           \A m, n \in 1 .. Len(blocks) : blocks[m] = blocks[n] => m = n,
           NEW i \in Nat, i < Len(blocks) * BlockLen, NEW j \in Nat, j < Len(blocks) * BlockLen,
           blocks[i \div BlockLen + 1] = blocks[j \div BlockLen + 1], i % BlockLen = j % BlockLen
    PROVE  i = j
<1>1. PICK b \in Nat \ {0} : b = BlockLen
  BY BlockLenFacts
<1>2. PICK p, q : p = i \div b /\ q = j \div b
  OBVIOUS
<1>3. p + 1 \in 1 .. Len(blocks) /\ q + 1 \in 1 .. Len(blocks)
  BY <1>1, <1>2, Places
<1>4. p + 1 = q + 1
  BY <1>1, <1>2, <1>3
<1>5. p \in Nat /\ q \in Nat /\ i = p * b + (i % b) /\ j = q * b + (j % b)
  BY <1>2, BlockDivision
<1>6. PICK r : r = i % b
  OBVIOUS
<1>7. r = j % b /\ p = q
  BY <1>1, <1>4, <1>5, <1>6
<1>8. i = p * b + r /\ j = p * b + r
  BY <1>5, <1>6, <1>7
<1>. QED
  BY <1>8

-----------------------------------------------------------------------------
(* The segmented vector: its calls, as functions of a state.               *)

(* Records of three fields, one of them changed.                           *)
LEMMA StateUpdate ==
    ASSUME NEW r, r = [v |-> r.v, memory |-> r.memory, owned |-> r.owned], NEW x
    PROVE  /\ [r EXCEPT !.v = x] = [v |-> x, memory |-> r.memory, owned |-> r.owned]
           /\ [r EXCEPT !.memory = x] = [v |-> r.v, memory |-> x, owned |-> r.owned]
           /\ [r EXCEPT !.owned = x] = [v |-> r.v, memory |-> r.memory, owned |-> x]
<1>. DEFINE D == {"v", "memory", "owned"}
<1>1. [r EXCEPT !.v = x] = [v |-> x, memory |-> r.memory, owned |-> r.owned]
  <2>. DEFINE f == [r EXCEPT !.v = x]
              g == [v |-> x, memory |-> r.memory, owned |-> r.owned]
  <2>1. DOMAIN f = D /\ DOMAIN g = D
    OBVIOUS
  <2>2. f = [i \in DOMAIN f |-> f[i]] /\ g = [i \in DOMAIN g |-> g[i]]
    OBVIOUS
  <2>3. f["v"] = g["v"] /\ f["memory"] = g["memory"] /\ f["owned"] = g["owned"]
    OBVIOUS
  <2>. HIDE DEF f, g
  <2>. QED
    BY <2>1, <2>2, <2>3
<1>2. [r EXCEPT !.memory = x] = [v |-> r.v, memory |-> x, owned |-> r.owned]
  <2>. DEFINE f == [r EXCEPT !.memory = x]
              g == [v |-> r.v, memory |-> x, owned |-> r.owned]
  <2>1. DOMAIN f = D /\ DOMAIN g = D
    OBVIOUS
  <2>2. f = [i \in DOMAIN f |-> f[i]] /\ g = [i \in DOMAIN g |-> g[i]]
    OBVIOUS
  <2>3. f["v"] = g["v"] /\ f["memory"] = g["memory"] /\ f["owned"] = g["owned"]
    OBVIOUS
  <2>. HIDE DEF f, g
  <2>. QED
    BY <2>1, <2>2, <2>3
<1>3. [r EXCEPT !.owned = x] = [v |-> r.v, memory |-> r.memory, owned |-> x]
  <2>. DEFINE f == [r EXCEPT !.owned = x]
              g == [v |-> r.v, memory |-> r.memory, owned |-> x]
  <2>1. DOMAIN f = D /\ DOMAIN g = D
    OBVIOUS
  <2>2. f = [i \in DOMAIN f |-> f[i]] /\ g = [i \in DOMAIN g |-> g[i]]
    OBVIOUS
  <2>3. f["v"] = g["v"] /\ f["memory"] = g["memory"] /\ f["owned"] = g["owned"]
    OBVIOUS
  <2>. HIDE DEF f, g
  <2>. QED
    BY <2>1, <2>2, <2>3
<1>. QED
  BY <1>1, <1>2, <1>3

LEMMA VectorUpdate ==
    ASSUME NEW r, r = [blocks |-> r.blocks, size |-> r.size, alloc |-> r.alloc], NEW x
    PROVE  /\ [r EXCEPT !.blocks = x] = [blocks |-> x, size |-> r.size, alloc |-> r.alloc]
           /\ [r EXCEPT !.size = x] = [blocks |-> r.blocks, size |-> x, alloc |-> r.alloc]
           /\ [r EXCEPT !.alloc = x] = [blocks |-> r.blocks, size |-> r.size, alloc |-> x]
<1>. DEFINE D == {"blocks", "size", "alloc"}
<1>1. [r EXCEPT !.blocks = x] = [blocks |-> x, size |-> r.size, alloc |-> r.alloc]
  <2>. DEFINE f == [r EXCEPT !.blocks = x]
              g == [blocks |-> x, size |-> r.size, alloc |-> r.alloc]
  <2>1. DOMAIN f = D /\ DOMAIN g = D
    OBVIOUS
  <2>2. f = [i \in DOMAIN f |-> f[i]] /\ g = [i \in DOMAIN g |-> g[i]]
    OBVIOUS
  <2>3. f["blocks"] = g["blocks"] /\ f["size"] = g["size"] /\ f["alloc"] = g["alloc"]
    OBVIOUS
  <2>. HIDE DEF f, g
  <2>. QED
    BY <2>1, <2>2, <2>3
<1>2. [r EXCEPT !.size = x] = [blocks |-> r.blocks, size |-> x, alloc |-> r.alloc]
  <2>. DEFINE f == [r EXCEPT !.size = x]
              g == [blocks |-> r.blocks, size |-> x, alloc |-> r.alloc]
  <2>1. DOMAIN f = D /\ DOMAIN g = D
    OBVIOUS
  <2>2. f = [i \in DOMAIN f |-> f[i]] /\ g = [i \in DOMAIN g |-> g[i]]
    OBVIOUS
  <2>3. f["blocks"] = g["blocks"] /\ f["size"] = g["size"] /\ f["alloc"] = g["alloc"]
    OBVIOUS
  <2>. HIDE DEF f, g
  <2>. QED
    BY <2>1, <2>2, <2>3
<1>3. [r EXCEPT !.alloc = x] = [blocks |-> r.blocks, size |-> r.size, alloc |-> x]
  <2>. DEFINE f == [r EXCEPT !.alloc = x]
              g == [blocks |-> r.blocks, size |-> r.size, alloc |-> x]
  <2>1. DOMAIN f = D /\ DOMAIN g = D
    OBVIOUS
  <2>2. f = [i \in DOMAIN f |-> f[i]] /\ g = [i \in DOMAIN g |-> g[i]]
    OBVIOUS
  <2>3. f["blocks"] = g["blocks"] /\ f["size"] = g["size"] /\ f["alloc"] = g["alloc"]
    OBVIOUS
  <2>. HIDE DEF f, g
  <2>. QED
    BY <2>1, <2>2, <2>3
<1>. QED
  BY <1>1, <1>2, <1>3

(* The elements a state holds, and what a call leaves to the other vector. *)
StoredAt(st, i) == st.memory[S!block_at(st.v, i)][S!place_at(i)]
Stored(st) == [i \in 1 .. st.v.size |-> StoredAt(st, i - 1)]
SameFor(taken, st, u) == \A s \in taken : u.memory[s] = st.memory[s] /\ u.owned[s] = st.owned[s]

(* The free blocks are finitely many, and Min picks one.                   *)
LEMMA FreeFacts ==
    ASSUME S!SegmentAssumption, NEW st
    PROVE  /\ IsFiniteSet(S!Free(st)) /\ Cardinality(S!Free(st)) \in Nat
           /\ Cardinality(S!Free(st)) > 0 => S!Free(st) # {}
           /\ S!Free(st) # {} => S!Min(S!Free(st)) \in S!Free(st)
<1>1. IsFiniteSet(S!Segments)
  <2>1. MaxSegments \in Int /\ 1 \in Int
    BY DEF S!SegmentAssumption
  <2>. QED
    BY <2>1, FS_Interval DEF S!Segments
<1>2. S!Free(st) \subseteq S!Segments
  BY DEF S!Free
<1>3. IsFiniteSet(S!Free(st)) /\ Cardinality(S!Free(st)) \in Nat
  BY <1>1, <1>2, FS_Subset, FS_CardinalityType
<1>4. S!Free(st) = {} => Cardinality(S!Free(st)) = 0
  BY FS_EmptySet
<1>5. ASSUME S!Free(st) # {} PROVE S!Min(S!Free(st)) \in S!Free(st)
  <2>1. S!Free(st) \in SUBSET Nat
    BY <1>2 DEF S!Segments
  <2>2. PICK Q \in SUBSET Nat : Q = S!Free(st) /\ Q # {}
    BY <1>5, <2>1
  <2>3. S!Min(Q) \in Q
    BY <2>2, LeastNat DEF S!Min
  <2>. QED
    BY <2>2, <2>3
<1>. QED
  BY <1>3, <1>4, <1>5

(* A vector has room for what it holds.                                    *)
LEMMA StateFacts ==
    ASSUME S!SegmentAssumption, NEW st, NEW taken, S!StateOK(st, taken)
    PROVE  /\ st.v.blocks \in Seq(S!Segments) /\ Len(st.v.blocks) \in Nat
           /\ st.v.size \in Nat /\ Len(st.v.blocks) * BlockLen \in Nat
           /\ st.v.size <= Len(st.v.blocks) * BlockLen
           /\ \A i \in 1 .. st.v.size : i - 1 \in Nat /\ i - 1 < Len(st.v.blocks) * BlockLen
<1>1. PICK b \in Nat \ {0} : b = BlockLen
  BY BlockLenFacts
<1>2. st.v.blocks \in Seq(S!Segments) /\ st.v.size \in 0 .. Len(st.v.blocks) * b
  BY <1>1 DEF S!StateOK, S!capacity, BlockLen
<1>3. PICK k \in Nat : k = Len(st.v.blocks)
  BY <1>2
<1>4. PICK m \in Nat : m = k * b
  OBVIOUS
<1>5. PICK n : n = st.v.size
  OBVIOUS
<1>6. n \in 0 .. m
  BY <1>2, <1>3, <1>4, <1>5
<1>7. n \in Nat /\ n <= m /\ \A i \in 1 .. n : i - 1 \in Nat /\ i - 1 < m
  BY <1>6
<1>. QED
  BY <1>1, <1>2, <1>3, <1>4, <1>5, <1>7

(* A new block: what is stored stays where it is.                          *)
LEMMA IncreaseOK ==
    ASSUME S!SegmentAssumption, NEW st, NEW taken, S!StateOK(st, taken), S!Free(st) # {}
    PROVE  /\ S!StateOK(S!increase_capacity(st), taken)
           /\ SameFor(taken, st, S!increase_capacity(st))
           /\ S!increase_capacity(st).v.size = st.v.size
           /\ S!increase_capacity(st).v.alloc = st.v.alloc
           /\ Len(S!increase_capacity(st).v.blocks) = Len(st.v.blocks) + 1
           /\ Stored(S!increase_capacity(st)) = Stored(st)
           /\ Cardinality(S!Free(S!increase_capacity(st))) = Cardinality(S!Free(st)) - 1
<1>0. PICK B : B = st.v.blocks
  OBVIOUS
<1>1. PICK s \in S!Free(st) : s = S!Min(S!Free(st))
  BY FreeFacts
<1>2. s \in S!Segments /\ st.owned[s] = S!free /\ s \notin S!Range(B) /\ s \notin taken
  BY <1>0, <1>1 DEF S!Free, S!StateOK
<1>3. PICK u : u = [v |-> [blocks |-> Append(B, s), size |-> st.v.size, alloc |-> st.v.alloc],
                    memory |-> st.memory, owned |-> [st.owned EXCEPT ![s] = st.v.alloc]]
  OBVIOUS
<1>4. S!increase_capacity(st) = u
  <2>. DEFINE b == Append(B, s)
  <2>1. PICK v : v = st.v
    OBVIOUS
  <2>2. PICK w : w = [v EXCEPT !.blocks = b]
    OBVIOUS
  <2>3. w = [blocks |-> b, size |-> v.size, alloc |-> v.alloc]
    BY <2>1, <2>2, VectorUpdate DEF S!StateOK
  <2>4. PICK t : t = [st EXCEPT !.v = w]
    OBVIOUS
  <2>5. t = [v |-> w, memory |-> st.memory, owned |-> st.owned]
    BY <2>4, StateUpdate DEF S!StateOK
  <2>6. t.owned = st.owned /\ t.v = w /\ t.memory = st.memory
    BY <2>5
  <2>7. [st EXCEPT !.v.blocks = b] = t
    BY <2>1, <2>2, <2>4
  <2>8. PICK q : q = [t.owned EXCEPT ![s] = v.alloc]
    OBVIOUS
  <2>9. [t EXCEPT !.owned = q] = [v |-> w, memory |-> st.memory, owned |-> q]
    BY <2>5, <2>6, StateUpdate
  <2>10. [st EXCEPT !.v.blocks = b, !.owned[s] = v.alloc] = [t EXCEPT !.owned[s] = v.alloc]
    BY <2>7
  <2>11. [t EXCEPT !.owned[s] = v.alloc] = [t EXCEPT !.owned = q]
    BY <2>8
  <2>12. S!increase_capacity(st) = [st EXCEPT !.v.blocks = b, !.owned[s] = v.alloc]
    BY <1>0, <1>1, <2>1 DEF S!increase_capacity
  <2>. QED
    BY <1>0, <1>3, <2>1, <2>3, <2>6, <2>8, <2>9, <2>10, <2>11, <2>12
<1>5. /\ B \in Seq(S!Segments) /\ Len(B) \in Nat
      /\ \A i, j \in 1 .. Len(B) : B[i] = B[j] => i = j
  BY <1>0 DEF S!StateOK, S!IsInjective
<1>6a. PICK C : C = Append(B, s)
  OBVIOUS
<1>6. C \in Seq(S!Segments) /\ C = Append(B, s)
  BY <1>2, <1>5, <1>6a
<1>7. /\ Len(C) = Len(B) + 1 /\ C[Len(B) + 1] = s
      /\ \A i \in 1 .. Len(B) : C[i] = B[i] /\ B[i] \in S!Range(B)
      /\ DOMAIN C = 1 .. Len(B) + 1
  BY <1>5, <1>6 DEF S!Range
<1>8. S!IsInjective(C)
  <2>1. ASSUME NEW i \in DOMAIN C, NEW j \in DOMAIN C, C[i] = C[j] PROVE i = j
    <3>1. (i \in 1 .. Len(B) \/ i = Len(B) + 1) /\ (j \in 1 .. Len(B) \/ j = Len(B) + 1)
      BY <1>5, <1>7
    <3>. QED
      BY <1>2, <1>5, <1>7, <2>1, <3>1
  <2>. QED
    BY <2>1 DEF S!IsInjective
<1>9. S!Range(C) = S!Range(B) \union {s}
  <2>1. ASSUME NEW t \in S!Range(C) PROVE t \in S!Range(B) \union {s}
    <3>1. PICK i \in 1 .. Len(B) + 1 : C[i] = t
      BY <1>7, <2>1 DEF S!Range
    <3>2. i \in 1 .. Len(B) \/ i = Len(B) + 1
      BY <1>5
    <3>. QED
      BY <1>7, <3>1, <3>2
  <2>2. ASSUME NEW t \in S!Range(B) PROVE t \in S!Range(C)
    <3>1. PICK i \in 1 .. Len(B) : B[i] = t
      BY <1>5, <2>2 DEF S!Range
    <3>2. i \in DOMAIN C /\ C[i] = t
      BY <1>5, <1>7, <3>1
    <3>. QED
      BY <3>2 DEF S!Range
  <2>3. s \in S!Range(C)
    <3>1. Len(B) + 1 \in DOMAIN C
      BY <1>5, <1>7
    <3>. QED
      BY <1>7, <3>1 DEF S!Range
  <2>. QED
    BY <2>1, <2>2, <2>3
<1>10. u.v.blocks = C /\ u.v.size = st.v.size /\ u.v.alloc = st.v.alloc /\ u.memory = st.memory
       /\ u.owned = [st.owned EXCEPT ![s] = st.v.alloc]
  BY <1>3, <1>6
<1>11. /\ u.owned[s] = st.v.alloc /\ st.v.alloc \in {1, 2} /\ st.v.alloc # S!free
       /\ \A t \in S!Segments : t # s => u.owned[t] = st.owned[t]
       /\ u.owned \in [S!Segments -> {S!free, 1, 2}]
  BY <1>2, <1>10 DEF S!StateOK, S!free
<1>12. S!capacity(st.v) = Len(B) * BlockLen /\ S!capacity(u.v) = (Len(B) + 1) * BlockLen
  BY <1>0, <1>7, <1>10 DEF S!capacity, BlockLen
<1>13. st.v.size \in 0 .. (Len(B) + 1) * BlockLen
  <2>1. st.v.size \in 0 .. Len(B) * BlockLen
    BY <1>0, StateFacts
  <2>2. PICK b \in Nat \ {0} : b = BlockLen
    BY BlockLenFacts
  <2>3. Len(B) * b \in Nat /\ (Len(B) + 1) * b = Len(B) * b + b
    BY <1>5
  <2>. QED
    BY <2>1, <2>2, <2>3
<1>14. \A t \in taken : t # s /\ t \in S!Segments
  BY <1>2 DEF S!StateOK
<1>15. S!StateOK(u, taken)
  <2>1. /\ u = [v |-> u.v, memory |-> u.memory, owned |-> u.owned]
        /\ u.v = [blocks |-> u.v.blocks, size |-> u.v.size, alloc |-> u.v.alloc]
    BY <1>3
  <2>2. \A t \in S!Range(C) : t \notin taken /\ u.owned[t] = u.v.alloc
    BY <1>0, <1>2, <1>9, <1>10, <1>11 DEF S!StateOK
  <2>3. \A t \in S!Segments : u.owned[t] = S!free <=> t \notin S!Range(C) \union taken
    BY <1>0, <1>2, <1>9, <1>10, <1>11 DEF S!StateOK
  <2>4. /\ u.memory = [t \in S!Segments |-> u.memory[t]]
        /\ \A t \in S!Segments : u.memory[t] = [i \in 0 .. BlockLen - 1 |-> u.memory[t][i]]
    BY <1>10 DEF S!StateOK, BlockLen
  <2>5. taken \subseteq S!Segments
    BY DEF S!StateOK
  <2>6. u.v.blocks \in Seq(S!Segments) /\ S!IsInjective(u.v.blocks)
    BY <1>6, <1>8, <1>10
  <2>7. u.v.size \in 0 .. S!capacity(u.v) /\ u.v.alloc \in {1, 2}
    BY <1>10, <1>11, <1>12, <1>13
  <2>. QED
    BY ONLY <1>10, <1>11, <2>1, <2>2, <2>3, <2>4, <2>5, <2>6, <2>7 DEF S!StateOK, BlockLen
<1>16. SameFor(taken, st, u)
  BY <1>10, <1>11, <1>14 DEF SameFor
<1>17. Stored(u) = Stored(st)
  <2>1. ASSUME NEW i \in 1 .. st.v.size PROVE StoredAt(u, i - 1) = StoredAt(st, i - 1)
    <3>1. i - 1 \in Nat /\ i - 1 < Len(B) * BlockLen
      BY <1>0, StateFacts
    <3>2. (i - 1) \div BlockLen + 1 \in 1 .. Len(B)
      BY <1>5, <3>1, Places
    <3>3. S!block_at(u.v, i - 1) = S!block_at(st.v, i - 1)
      BY <1>0, <1>7, <1>10, <3>2 DEF S!block_at, BlockLen
    <3>. QED
      BY <1>10, <3>3 DEF StoredAt
  <2>. QED
    BY <1>10, <2>1 DEF Stored
<1>18. Cardinality(S!Free(u)) = Cardinality(S!Free(st)) - 1
  <2>1. S!Free(u) = S!Free(st) \ {s}
    BY <1>11 DEF S!Free
  <2>2. IsFiniteSet(S!Free(st))
    BY FreeFacts
  <2>. QED
    BY <1>1, <2>1, <2>2, FS_RemoveElement
<1>. QED
  BY <1>0, <1>4, <1>7, <1>10, <1>15, <1>16, <1>17, <1>18

(* One element is written into a block of the vector, at place n, and the  *)
(* size set to z.                                                          *)
WrittenAt(st, a, b, e, z) ==
    [v |-> [blocks |-> st.v.blocks, size |-> z, alloc |-> st.v.alloc],
     memory |-> [st.memory EXCEPT ![a][b] = e], owned |-> st.owned]
Write(st, n, e, z) == WrittenAt(st, S!block_at(st.v, n), S!place_at(n), e, z)
WrittenThen(st, a, b, e, z) == [[st EXCEPT !.memory[a][b] = e] EXCEPT !.v.size = z]

LEMMA WriteOK ==
    ASSUME S!SegmentAssumption, NEW st, NEW taken, S!StateOK(st, taken),
           NEW n \in Nat, n < Len(st.v.blocks) * BlockLen, NEW e,
           NEW z \in Nat, z <= Len(st.v.blocks) * BlockLen
    PROVE  /\ S!StateOK(Write(st, n, e, z), taken) /\ SameFor(taken, st, Write(st, n, e, z))
           /\ S!Free(Write(st, n, e, z)) = S!Free(st)
           /\ Write(st, n, e, z).v.size = z /\ Write(st, n, e, z).v.blocks = st.v.blocks
           /\ Write(st, n, e, z).v.alloc = st.v.alloc
           /\ \A j \in Nat : j < Len(st.v.blocks) * BlockLen =>
                 StoredAt(Write(st, n, e, z), j) = IF j = n THEN e ELSE StoredAt(st, j)
<1>. DEFINE B == st.v.blocks
            a == S!block_at(st.v, n)
            b == S!place_at(n)
            M == [st.memory EXCEPT ![a][b] = e]
<1>0. PICK w : w = Write(st, n, e, z)
  OBVIOUS
<1>0a. w = [v |-> [blocks |-> B, size |-> z, alloc |-> st.v.alloc], memory |-> M, owned |-> st.owned]
  BY <1>0 DEF Write, WrittenAt
<1>1. /\ w.v = [blocks |-> B, size |-> z, alloc |-> st.v.alloc]
      /\ w.memory = M /\ w.owned = st.owned
      /\ w = [v |-> w.v, memory |-> w.memory, owned |-> w.owned]
  BY <1>0a
<1>2. w.v = [blocks |-> w.v.blocks, size |-> w.v.size, alloc |-> w.v.alloc]
      /\ w.v.blocks = B /\ w.v.size = z /\ w.v.alloc = st.v.alloc
  BY <1>1
<1>3. B \in Seq(S!Segments) /\ \A i, j \in 1 .. Len(B) : B[i] = B[j] => i = j
  BY DEF S!StateOK, S!IsInjective
<1>4. /\ n \div BlockLen + 1 \in 1 .. Len(B) /\ a = B[n \div BlockLen + 1]
      /\ a \in S!Segments /\ b \in 0 .. BlockLen - 1 /\ b = n % BlockLen
  BY <1>3, Places DEF S!block_at, S!place_at, BlockLen
<1>5. a \in S!Range(B)
  BY <1>3, <1>4 DEF S!Range
<1>6. /\ st.memory = [t \in S!Segments |-> st.memory[t]]
      /\ \A t \in S!Segments : st.memory[t] = [i \in 0 .. BlockLen - 1 |-> st.memory[t][i]]
  BY DEF S!StateOK, BlockLen
<1>7. PICK mem, blk : mem = st.memory /\ blk = mem[a]
  OBVIOUS
<1>8. M = [mem EXCEPT ![a] = [blk EXCEPT ![b] = e]]
  BY <1>7
<1>9. PICK written : written = [blk EXCEPT ![b] = e]
  OBVIOUS
<1>10. /\ written = [i \in 0 .. BlockLen - 1 |-> written[i]] /\ written[b] = e
       /\ \A i \in 0 .. BlockLen - 1 : i # b => written[i] = blk[i]
  <2>1. blk = [i \in 0 .. BlockLen - 1 |-> blk[i]]
    BY <1>4, <1>6, <1>7
  <2>. QED
    BY <1>4, <1>9, <2>1
<1>11. /\ M = [t \in S!Segments |-> M[t]] /\ M[a] = written
       /\ \A t \in S!Segments : t # a => M[t] = mem[t]
  <2>1. mem = [t \in S!Segments |-> mem[t]]
    BY <1>6, <1>7
  <2>2. M = [mem EXCEPT ![a] = written]
    BY <1>8, <1>9
  <2>. HIDE DEF M
  <2>. QED
    BY <1>4, <2>1, <2>2
<1>. HIDE DEF M
<1>12. \A t \in S!Segments : M[t] = [i \in 0 .. BlockLen - 1 |-> M[t][i]]
  BY <1>6, <1>7, <1>10, <1>11
<1>13. S!capacity(w.v) = Len(B) * BlockLen /\ z \in 0 .. Len(B) * BlockLen
  <2>1. Len(B) * BlockLen \in Nat
    BY StateFacts
  <2>. QED
    BY <1>2, <2>1 DEF S!capacity, BlockLen
<1>14. S!StateOK(w, taken)
  <2>1. /\ S!IsInjective(B) /\ st.v.alloc \in {1, 2} /\ st.owned \in [S!Segments -> {S!free, 1, 2}]
        /\ taken \subseteq S!Segments
        /\ \A t \in S!Range(B) : t \notin taken /\ st.owned[t] = st.v.alloc
        /\ \A t \in S!Segments : st.owned[t] = S!free <=> t \notin S!Range(B) \union taken
    BY DEF S!StateOK
  <2>2. /\ w.memory = [t \in S!Segments |-> w.memory[t]]
        /\ \A t \in S!Segments : w.memory[t] = [i \in 0 .. BlockLen - 1 |-> w.memory[t][i]]
    BY <1>1, <1>11, <1>12
  <2>. QED
    BY ONLY <1>1, <1>2, <1>3, <1>13, <2>1, <2>2 DEF S!StateOK, BlockLen
<1>15. SameFor(taken, st, w)
  <2>1. \A t \in taken : t \in S!Segments /\ t # a
    BY <1>5 DEF S!StateOK
  <2>. QED
    BY <1>1, <1>7, <1>11, <2>1 DEF SameFor
<1>16. S!Free(w) = S!Free(st)
  BY <1>1 DEF S!Free
<1>17. ASSUME NEW j \in Nat, j < Len(B) * BlockLen
       PROVE  StoredAt(w, j) = IF j = n THEN e ELSE StoredAt(st, j)
  <2>1. PICK c, d : c = S!block_at(st.v, j) /\ d = S!place_at(j)
    OBVIOUS
  <2>2. c = B[j \div BlockLen + 1] /\ d = j % BlockLen /\ c \in S!Segments /\ d \in 0 .. BlockLen - 1
    BY <1>3, <1>17, <2>1, Places DEF S!block_at, S!place_at, BlockLen
  <2>3. StoredAt(w, j) = M[c][d] /\ StoredAt(st, j) = mem[c][d]
    BY <1>1, <1>2, <1>7, <2>1 DEF StoredAt, S!block_at
  <2>4. CASE j = n
    BY <1>4, <1>10, <1>11, <2>1, <2>3, <2>4
  <2>5. CASE j # n
    <3>1. c # a \/ d # b
      <4>1. PICK f \in Seq(S!Segments) : f = B
        BY <1>3
      <4>2. \A i, k \in 1 .. Len(f) : f[i] = f[k] => i = k
        BY <1>3, <4>1
      <4>3. n < Len(f) * BlockLen /\ j < Len(f) * BlockLen
        BY <1>17, <4>1
      <4>4. ASSUME c = a, d = b PROVE FALSE
        <5>1. f[j \div BlockLen + 1] = f[n \div BlockLen + 1] /\ j % BlockLen = n % BlockLen
          BY <1>4, <2>2, <4>1, <4>4
        <5>2. j = n
          BY ONLY <4>2, <4>3, <5>1, PlacesApart, S!SegmentAssumption, f \in Seq(S!Segments), j \in Nat, n \in Nat
        <5>. QED
          BY <2>5, <5>2
      <4>. QED
        BY <4>4
    <3>. QED
      BY <1>4, <1>7, <1>10, <1>11, <2>2, <2>3, <2>5, <3>1
  <2>. QED
    BY <2>4, <2>5
<1>. QED
  BY <1>0, <1>2, <1>14, <1>15, <1>16, <1>17

(* What is stored, as a sequence.                                          *)
LEMMA StoredSeq ==
    ASSUME NEW st, st.v.size \in Nat
    PROVE  /\ DOMAIN Stored(st) = 1 .. st.v.size
           /\ \A i \in 1 .. st.v.size : Stored(st)[i] = StoredAt(st, i - 1)
           /\ Stored(st) = [i \in 1 .. st.v.size |-> StoredAt(st, i - 1)]
BY DEF Stored

(* The two updates of one call, as one record.                             *)
LEMMA WrittenIs ==
    ASSUME NEW st, NEW taken, S!StateOK(st, taken), NEW a, NEW b, NEW e, NEW z
    PROVE  WrittenThen(st, a, b, e, z) = WrittenAt(st, a, b, e, z)
<1>1. PICK mem : mem = [st.memory EXCEPT ![a][b] = e]
  OBVIOUS
<1>2. PICK t : t = [st EXCEPT !.memory = mem]
  OBVIOUS
<1>3. t = [v |-> st.v, memory |-> mem, owned |-> st.owned]
  BY <1>2, StateUpdate DEF S!StateOK
<1>4. [st EXCEPT !.memory[a][b] = e] = t
  BY <1>1, <1>2
<1>5. PICK v : v = [st.v EXCEPT !.size = z]
  OBVIOUS
<1>6. v = [blocks |-> st.v.blocks, size |-> z, alloc |-> st.v.alloc]
  BY <1>5, VectorUpdate DEF S!StateOK
<1>7. t.v = st.v /\ t.memory = mem /\ t.owned = st.owned
  BY <1>3
<1>8. t = [v |-> t.v, memory |-> t.memory, owned |-> t.owned]
  BY <1>3, <1>7
<1>9. [t EXCEPT !.v = v] = [v |-> v, memory |-> mem, owned |-> st.owned]
  BY <1>7, <1>8, StateUpdate
<1>10. [t EXCEPT !.v.size = z] = [t EXCEPT !.v = v]
  BY <1>5, <1>7
<1>. QED
  BY <1>1, <1>4, <1>6, <1>9, <1>10 DEF WrittenThen, WrittenAt

LEMMA StoreOK ==
    ASSUME S!SegmentAssumption, NEW st, NEW taken, S!StateOK(st, taken),
           st.v.size < Len(st.v.blocks) * BlockLen, NEW e \in Elements, Stored(st) \in Seq(Elements),
           NEW w, w = WrittenThen(st, S!block_at(st.v, st.v.size), S!place_at(st.v.size), e, st.v.size + 1)
    PROVE  /\ S!StateOK(w, taken) /\ SameFor(taken, st, w) /\ S!Free(w) = S!Free(st)
           /\ w.v.size = st.v.size + 1 /\ w.v.blocks = st.v.blocks /\ w.v.alloc = st.v.alloc
           /\ Stored(w) = Append(Stored(st), e)
<1>1. PICK n \in Nat : n = st.v.size
  BY StateFacts
<1>2. n < Len(st.v.blocks) * BlockLen /\ Len(st.v.blocks) * BlockLen \in Nat
  BY <1>1, StateFacts
<1>3. n + 1 \in Nat /\ n + 1 <= Len(st.v.blocks) * BlockLen
  BY <1>2
<1>4. w = Write(st, n, e, n + 1)
  BY <1>1, WrittenIs DEF Write
<1>5. /\ S!StateOK(w, taken) /\ SameFor(taken, st, w) /\ S!Free(w) = S!Free(st)
      /\ \A j \in Nat : j < Len(st.v.blocks) * BlockLen =>
            StoredAt(w, j) = IF j = n THEN e ELSE StoredAt(st, j)
      /\ w.v.size = n + 1 /\ w.v.blocks = st.v.blocks /\ w.v.alloc = st.v.alloc
  BY <1>2, <1>3, <1>4, WriteOK
<1>6. w.v.size = n + 1 /\ w.v.blocks = st.v.blocks /\ w.v.alloc = st.v.alloc
  BY <1>5
<1>7. Stored(w) = Append(Stored(st), e)
  <2>1. DOMAIN Stored(st) = 1 .. n /\ \A i \in 1 .. n : Stored(st)[i] = StoredAt(st, i - 1)
    BY <1>1, StoredSeq
  <2>2. Stored(w) = [i \in 1 .. n + 1 |-> StoredAt(w, i - 1)]
    BY <1>6 DEF Stored
  <2>3. PICK q \in Seq(Elements) : q = Stored(st)
    OBVIOUS
  <2>4. Len(q) = n
    BY <2>1, <2>3
  <2>5. ASSUME NEW i \in 1 .. n + 1 PROVE StoredAt(w, i - 1) = IF i = n + 1 THEN e ELSE q[i]
    <3>1. PICK j \in Nat : j = i - 1
      OBVIOUS
    <3>2. j < Len(st.v.blocks) * BlockLen
      BY <1>2, <3>1
    <3>3. StoredAt(w, j) = IF j = n THEN e ELSE StoredAt(st, j)
      BY <1>5, <3>2
    <3>4. i # n + 1 => i \in 1 .. n
      OBVIOUS
    <3>. QED
      BY <2>1, <2>3, <3>1, <3>3, <3>4
  <2>6. Append(q, e) = [i \in 1 .. n + 1 |-> IF i = n + 1 THEN e ELSE q[i]]
    <3>1. PICK r : r = Append(q, e)
      OBVIOUS
    <3>2. r \in Seq(Elements) /\ DOMAIN r = 1 .. n + 1
          /\ \A i \in 1 .. n + 1 : r[i] = IF i = n + 1 THEN e ELSE q[i]
      BY <2>3, <2>4, <3>1
    <3>3. r = [i \in 1 .. n + 1 |-> r[i]]
      BY <3>2
    <3>. QED
      BY <3>1, <3>2, <3>3
  <2>7. Stored(w) = [i \in 1 .. n + 1 |-> IF i = n + 1 THEN e ELSE q[i]]
    BY <2>2, <2>5
  <2>. QED
    BY <2>3, <2>6, <2>7
<1>. QED
  BY <1>1, <1>5, <1>6, <1>7

(* emplace_back adds its element at the end, with a new block if it must.  *)
LEMMA EmplaceOK ==
    ASSUME S!SegmentAssumption, NEW st, NEW taken, S!StateOK(st, taken),
           st.v.size < Len(st.v.blocks) * BlockLen \/ S!Free(st) # {},
           NEW e \in Elements, Stored(st) \in Seq(Elements)
    PROVE  /\ S!StateOK(S!emplace_back(st, e), taken)
           /\ SameFor(taken, st, S!emplace_back(st, e))
           /\ S!emplace_back(st, e).v.alloc = st.v.alloc
           /\ S!emplace_back(st, e).v.size = st.v.size + 1
           /\ st.v.size < Len(st.v.blocks) * BlockLen =>
                 S!emplace_back(st, e).v.blocks = st.v.blocks
           /\ Stored(S!emplace_back(st, e)) = Append(Stored(st), e)
<1>1. PICK u : u = IF st.v.size = S!capacity(st.v) THEN S!increase_capacity(st) ELSE st
  OBVIOUS
<1>2. PICK w : w = WrittenThen(u, S!block_at(u.v, u.v.size), S!place_at(u.v.size), e, u.v.size + 1)
  OBVIOUS
<1>3. S!emplace_back(st, e) = w
  <2>1. PICK a, b : a = S!block_at(u.v, u.v.size) /\ b = S!place_at(u.v.size)
    OBVIOUS
  <2>2. S!emplace_back(st, e) = [u EXCEPT !.memory[a][b] = e, !.v.size = @ + 1]
    BY <1>1, <2>1 DEF S!emplace_back
  <2>3. PICK t : t = [u EXCEPT !.memory[a][b] = e]
    OBVIOUS
  <2>4. S!StateOK(u, taken)
    <3>1. CASE st.v.size = S!capacity(st.v)
      <4>1. st.v.size = Len(st.v.blocks) * BlockLen
        BY <3>1 DEF S!capacity, BlockLen
      <4>2. Len(st.v.blocks) * BlockLen \in Nat
        BY StateFacts
      <4>3. S!Free(st) # {}
        BY <4>1, <4>2
      <4>. QED
        BY <1>1, <3>1, <4>3, IncreaseOK
    <3>. QED
      BY <1>1, <3>1
  <2>5. t.v = u.v
    BY <2>3, <2>4 DEF S!StateOK
  <2>. QED
    BY <1>2, <2>1, <2>2, <2>3, <2>5 DEF WrittenThen
<1>4. Len(st.v.blocks) * BlockLen \in Nat /\ Len(st.v.blocks) \in Nat /\ st.v.size \in Nat
      /\ st.v.size <= Len(st.v.blocks) * BlockLen
  BY StateFacts
<1>5. S!capacity(st.v) = Len(st.v.blocks) * BlockLen
  BY DEF S!capacity, BlockLen
<1>6. /\ S!StateOK(u, taken) /\ SameFor(taken, st, u) /\ u.v.size = st.v.size
      /\ u.v.alloc = st.v.alloc /\ Stored(u) = Stored(st)
      /\ u.v.size < Len(u.v.blocks) * BlockLen
      /\ st.v.size < Len(st.v.blocks) * BlockLen => u.v.blocks = st.v.blocks
  <2>1. CASE st.v.size = S!capacity(st.v)
    <3>1. S!Free(st) # {} /\ ~(st.v.size < Len(st.v.blocks) * BlockLen)
      BY <1>4, <1>5, <2>1
    <3>2. PICK b \in Nat \ {0} : b = BlockLen
      BY BlockLenFacts
    <3>3. PICK k, n \in Nat : k = Len(st.v.blocks) /\ n = st.v.size /\ n = k * b
      BY <1>4, <1>5, <2>1, <3>2
    <3>4. n < (k + 1) * b
      BY <3>3
    <3>. QED
      BY <1>1, <2>1, <3>1, <3>2, <3>3, <3>4, IncreaseOK
  <2>2. CASE st.v.size # S!capacity(st.v)
    BY <1>1, <1>4, <1>5, <2>2 DEF SameFor
  <2>. QED
    BY <2>1, <2>2
<1>7. /\ S!StateOK(w, taken) /\ SameFor(taken, u, w)
      /\ w.v.size = u.v.size + 1 /\ w.v.blocks = u.v.blocks /\ w.v.alloc = u.v.alloc
      /\ Stored(w) = Append(Stored(u), e)
  <2>1. Stored(u) \in Seq(Elements)
    BY <1>6
  <2>. QED
    BY ONLY S!SegmentAssumption, e \in Elements, <1>2, <1>6, <2>1, StoreOK
<1>8. SameFor(taken, st, w)
  BY <1>6, <1>7 DEF SameFor
<1>. QED
  BY <1>3, <1>6, <1>7, <1>8

(* pop_back takes the last element away.                                   *)
LEMMA PopOK ==
    ASSUME S!SegmentAssumption, NEW st, NEW taken, S!StateOK(st, taken), st.v.size > 0,
           Stored(st) \in Seq(Elements)
    PROVE  /\ S!StateOK(S!pop_back(st), taken) /\ SameFor(taken, st, S!pop_back(st))
           /\ Stored(S!pop_back(st)) = S!Front(Stored(st))
<1>1. PICK n \in Nat : n = st.v.size - 1
  BY StateFacts
<1>2. /\ n < Len(st.v.blocks) * BlockLen /\ n <= Len(st.v.blocks) * BlockLen
      /\ st.v.size = n + 1 /\ Len(st.v.blocks) * BlockLen \in Nat
  BY <1>1, StateFacts
<1>3. PICK w : w = S!pop_back(st)
  OBVIOUS
<1>4. w = Write(st, n, S!junk, n)
  <2>1. w = WrittenThen(st, S!block_at(st.v, n), S!place_at(n), S!junk, n)
    BY <1>1, <1>3 DEF S!pop_back, WrittenThen
  <2>. QED
    BY <2>1, WrittenIs DEF Write
<1>5. /\ S!StateOK(w, taken) /\ SameFor(taken, st, w)
      /\ \A j \in Nat : j < Len(st.v.blocks) * BlockLen =>
            StoredAt(w, j) = IF j = n THEN S!junk ELSE StoredAt(st, j)
      /\ w.v.size = n
  BY <1>2, <1>4, WriteOK
<1>6. w.v.size = n
  BY <1>5
<1>7. Stored(w) = S!Front(Stored(st))
  <2>1. DOMAIN Stored(st) = 1 .. n + 1 /\ \A i \in 1 .. n + 1 : Stored(st)[i] = StoredAt(st, i - 1)
    BY <1>2, StoredSeq
  <2>2. Stored(w) = [i \in 1 .. n |-> StoredAt(w, i - 1)]
    BY <1>6 DEF Stored
  <2>3. PICK q \in Seq(Elements) : q = Stored(st)
    OBVIOUS
  <2>4. Len(q) = n + 1
    BY <2>1, <2>3
  <2>5. ASSUME NEW i \in 1 .. n PROVE StoredAt(w, i - 1) = q[i]
    <3>1. PICK j \in Nat : j = i - 1
      OBVIOUS
    <3>2. j < Len(st.v.blocks) * BlockLen /\ j # n /\ i \in 1 .. n + 1
      BY <1>2, <3>1
    <3>3. StoredAt(w, j) = StoredAt(st, j)
      BY <1>5, <3>2
    <3>. QED
      BY <2>1, <2>3, <3>1, <3>2, <3>3
  <2>6. S!Front(q) = [i \in 1 .. n |-> q[i]]
    <3>1. S!Front(q) = SubSeq(q, 1, Len(q) - 1)
      BY DEF S!Front
    <3>2. Len(q) - 1 = n /\ SubSeq(q, 1, n) = [i \in 1 .. n |-> q[i]]
      BY <2>4
    <3>. QED
      BY <3>1, <3>2
  <2>7. Stored(w) = [i \in 1 .. n |-> q[i]]
    BY <2>2, <2>5
  <2>. QED
    BY <2>3, <2>6, <2>7
<1>. QED
  BY <1>3, <1>5, <1>7

(* Nothing is stored in a vector of size zero.                             *)
LEMMA NothingStored == ASSUME NEW st, st.v.size = 0 PROVE Stored(st) = <<>>
<1>1. DOMAIN Stored(st) = {} /\ Stored(st) = [i \in DOMAIN Stored(st) |-> Stored(st)[i]]
  BY DEF Stored
<1>2. DOMAIN <<>> = {} /\ <<>> = [i \in DOMAIN <<>> |-> <<>>[i]]
  OBVIOUS
<1>. QED
  BY <1>1, <1>2

(* clear destroys the elements and keeps the blocks.                       *)
LEMMA ClearOK ==
    ASSUME S!SegmentAssumption, NEW st, NEW taken, S!StateOK(st, taken)
    PROVE  /\ S!StateOK(S!clear(st), taken) /\ SameFor(taken, st, S!clear(st))
           /\ S!Free(S!clear(st)) = S!Free(st)
           /\ S!clear(st).v.blocks = st.v.blocks /\ S!clear(st).v.alloc = st.v.alloc
           /\ S!clear(st).v.size = 0 /\ S!clear(st).owned = st.owned
<1>. DEFINE B == st.v.blocks
            M == [s \in S!Segments |-> IF s \in S!Range(B) THEN S!Blank ELSE st.memory[s]]
<1>1. PICK w : w = S!clear(st)
  OBVIOUS
<1>2. w = [v |-> [blocks |-> B, size |-> 0, alloc |-> st.v.alloc], memory |-> M, owned |-> st.owned]
  <2>1. PICK v : v = [st.v EXCEPT !.size = 0]
    OBVIOUS
  <2>2. v = [blocks |-> B, size |-> 0, alloc |-> st.v.alloc]
    BY <2>1, VectorUpdate DEF S!StateOK
  <2>3. PICK t : t = [st EXCEPT !.v = v]
    OBVIOUS
  <2>4. t = [v |-> v, memory |-> st.memory, owned |-> st.owned]
    BY <2>3, StateUpdate DEF S!StateOK
  <2>5. t.v = v /\ t.memory = st.memory /\ t.owned = st.owned
    BY <2>4
  <2>6. [st EXCEPT !.v.size = 0] = t
    BY <2>1, <2>3
  <2>7. PICK m : m = M
    OBVIOUS
  <2>8. [t EXCEPT !.memory = m] = [v |-> v, memory |-> m, owned |-> st.owned]
    BY <2>4, <2>5, StateUpdate
  <2>9. [t EXCEPT !.memory = [s \in S!Segments |-> IF s \in S!Range(B) THEN S!Blank ELSE @[s]]]
          = [t EXCEPT !.memory = m]
    BY <2>5, <2>7
  <2>10. w = [t EXCEPT !.memory = [s \in S!Segments |-> IF s \in S!Range(B) THEN S!Blank ELSE @[s]]]
    BY <1>1, <2>6 DEF S!clear
  <2>. QED
    BY <2>2, <2>7, <2>8, <2>9, <2>10
<1>. HIDE DEF M
<1>3. /\ w.v = [blocks |-> B, size |-> 0, alloc |-> st.v.alloc] /\ w.memory = M /\ w.owned = st.owned
      /\ w = [v |-> w.v, memory |-> w.memory, owned |-> w.owned]
  BY <1>2
<1>4. /\ w.v.blocks = B /\ w.v.size = 0 /\ w.v.alloc = st.v.alloc
      /\ w.v = [blocks |-> w.v.blocks, size |-> w.v.size, alloc |-> w.v.alloc]
  BY <1>3
<1>5. /\ M = [s \in S!Segments |-> M[s]]
      /\ \A s \in S!Segments : M[s] = IF s \in S!Range(B) THEN S!Blank ELSE st.memory[s]
  BY DEF M
<1>6. \A s \in S!Segments : M[s] = [i \in 0 .. BlockLen - 1 |-> M[s][i]]
  <2>1. \A s \in S!Segments : st.memory[s] = [i \in 0 .. BlockLen - 1 |-> st.memory[s][i]]
    BY DEF S!StateOK, BlockLen
  <2>2. S!Blank = [i \in 0 .. BlockLen - 1 |-> S!Blank[i]]
    BY DEF S!Blank, BlockLen
  <2>. QED
    BY <1>5, <2>1, <2>2
<1>7. /\ B \in Seq(S!Segments) /\ S!IsInjective(B) /\ st.v.alloc \in {1, 2}
      /\ st.owned \in [S!Segments -> {S!free, 1, 2}] /\ taken \subseteq S!Segments
      /\ \A t \in S!Range(B) : t \notin taken /\ st.owned[t] = st.v.alloc
      /\ \A t \in S!Segments : st.owned[t] = S!free <=> t \notin S!Range(B) \union taken
  BY DEF S!StateOK
<1>8. 0 \in 0 .. S!capacity(w.v)
  BY <1>4, StateFacts DEF S!capacity, BlockLen
<1>9. S!StateOK(w, taken)
  BY ONLY <1>3, <1>4, <1>5, <1>6, <1>7, <1>8 DEF S!StateOK, BlockLen
<1>10. SameFor(taken, st, w)
  BY <1>3, <1>5, <1>7 DEF SameFor
<1>11. S!Free(w) = S!Free(st)
  BY <1>3 DEF S!Free
<1>. QED
  BY <1>1, <1>3, <1>4, <1>9, <1>10, <1>11

(* The blocks given back are free again.                                   *)
LEMMA GiveBackIs ==
    ASSUME NEW st, NEW taken, S!StateOK(st, taken), NEW blocks
    PROVE  /\ S!GiveBack(st, blocks) = [v |-> st.v, memory |-> st.memory, owned |-> S!GiveBack(st, blocks).owned]
           /\ S!GiveBack(st, blocks).v = st.v /\ S!GiveBack(st, blocks).memory = st.memory
           /\ S!GiveBack(st, blocks).owned \in [S!Segments -> {S!free, 1, 2}]
           /\ \A s \in S!Segments : S!GiveBack(st, blocks).owned[s] =
                                       IF s \in S!Range(blocks) THEN S!free ELSE st.owned[s]
<1>1. PICK own : own = [s \in S!Segments |-> IF s \in S!Range(blocks) THEN S!free ELSE st.owned[s]]
  OBVIOUS
<1>2. own \in [S!Segments -> {S!free, 1, 2}]
  BY <1>1 DEF S!StateOK
<1>3. S!GiveBack(st, blocks) = [st EXCEPT !.owned = own]
  BY <1>1 DEF S!GiveBack
<1>4. PICK w : w = S!GiveBack(st, blocks)
  OBVIOUS
<1>5. w = [v |-> st.v, memory |-> st.memory, owned |-> own]
  BY <1>3, <1>4, StateUpdate DEF S!StateOK
<1>6. w.v = st.v /\ w.memory = st.memory /\ w.owned = own
  BY <1>5
<1>. QED
  BY <1>1, <1>2, <1>4, <1>5, <1>6

(* A vector that has given back all its blocks and starts over.            *)
Emptied(st) == S!dealloc(S!clear(st))

LEMMA EmptiedFacts ==
    ASSUME S!SegmentAssumption, NEW st, NEW taken, S!StateOK(st, taken)
    PROVE  /\ Emptied(st) = [v |-> Emptied(st).v, memory |-> Emptied(st).memory, owned |-> Emptied(st).owned]
           /\ Emptied(st).memory = [s \in S!Segments |-> Emptied(st).memory[s]]
           /\ \A s \in S!Segments :
                 Emptied(st).memory[s] = [i \in 0 .. BlockLen - 1 |-> Emptied(st).memory[s][i]]
           /\ Emptied(st).owned \in [S!Segments -> {S!free, 1, 2}]
           /\ \A s \in S!Segments : Emptied(st).owned[s] = S!free <=> s \notin taken
           /\ SameFor(taken, st, Emptied(st))
<1>1. PICK c : c = S!clear(st)
  OBVIOUS
<1>2. /\ S!StateOK(c, taken) /\ SameFor(taken, st, c) /\ c.v.blocks = st.v.blocks
  BY <1>1, ClearOK
<1>3. PICK blocks : blocks = c.v.blocks
  OBVIOUS
<1>4. PICK w : w = Emptied(st)
  OBVIOUS
<1>5. w = S!GiveBack(c, blocks)
  BY <1>1, <1>3, <1>4 DEF Emptied, S!dealloc
<1>6. /\ w = [v |-> c.v, memory |-> c.memory, owned |-> w.owned] /\ w.v = c.v /\ w.memory = c.memory
      /\ w.owned \in [S!Segments -> {S!free, 1, 2}]
      /\ \A s \in S!Segments : w.owned[s] = IF s \in S!Range(blocks) THEN S!free ELSE c.owned[s]
  BY <1>2, <1>5, GiveBackIs
<1>7. /\ w.memory = [s \in S!Segments |-> w.memory[s]]
      /\ \A s \in S!Segments : w.memory[s] = [i \in 0 .. BlockLen - 1 |-> w.memory[s][i]]
  BY <1>2, <1>6 DEF S!StateOK, BlockLen
<1>8. /\ taken \subseteq S!Segments
      /\ \A s \in S!Range(blocks) : s \notin taken
      /\ \A s \in S!Segments : c.owned[s] = S!free <=> s \notin S!Range(blocks) \union taken
  BY <1>2, <1>3 DEF S!StateOK
<1>9. \A s \in S!Segments : w.owned[s] = S!free <=> s \notin taken
  BY <1>6, <1>8
<1>10. SameFor(taken, st, w)
  BY <1>2, <1>6, <1>8 DEF SameFor
<1>. QED
  BY <1>4, <1>6, <1>7, <1>9, <1>10

LEMMA FreshOK ==
    ASSUME S!SegmentAssumption, NEW st, NEW taken, S!StateOK(st, taken), NEW alloc \in {1, 2}, NEW w,
           w = [Emptied(st) EXCEPT !.v = [blocks |-> <<>>, size |-> 0, alloc |-> alloc]]
    PROVE  /\ S!StateOK(w, taken) /\ SameFor(taken, st, w)
           /\ S!Free(w) = S!Free(Emptied(st)) /\ w.v.size = 0 /\ w.v.blocks = <<>>
<1>1. PICK d : d = Emptied(st)
  OBVIOUS
<1>2. /\ d = [v |-> d.v, memory |-> d.memory, owned |-> d.owned]
      /\ d.memory = [s \in S!Segments |-> d.memory[s]]
      /\ \A s \in S!Segments : d.memory[s] = [i \in 0 .. BlockLen - 1 |-> d.memory[s][i]]
      /\ d.owned \in [S!Segments -> {S!free, 1, 2}]
      /\ \A s \in S!Segments : d.owned[s] = S!free <=> s \notin taken
      /\ SameFor(taken, st, d)
  BY <1>1, EmptiedFacts
<1>3. PICK v : v = [blocks |-> <<>>, size |-> 0, alloc |-> alloc]
  OBVIOUS
<1>4. w = [v |-> v, memory |-> d.memory, owned |-> d.owned]
  BY <1>1, <1>2, <1>3, StateUpdate
<1>5. w.v = v /\ w.memory = d.memory /\ w.owned = d.owned
      /\ w = [v |-> w.v, memory |-> w.memory, owned |-> w.owned]
  BY ONLY <1>4
<1>6. w.v.blocks = <<>> /\ w.v.size = 0 /\ w.v.alloc = alloc
      /\ w.v = [blocks |-> w.v.blocks, size |-> w.v.size, alloc |-> w.v.alloc]
  BY <1>3, <1>5
<1>7. S!Range(w.v.blocks) = {} /\ w.v.blocks \in Seq(S!Segments) /\ S!IsInjective(w.v.blocks)
      /\ Len(w.v.blocks) = 0
  <2>1. PICK none : none = <<>>
    OBVIOUS
  <2>2. none \in Seq(S!Segments) /\ Len(none) = 0
    BY <2>1
  <2>3. DOMAIN none = {}
    BY <2>1
  <2>4. S!Range(none) = {} /\ S!IsInjective(none)
    BY <2>3 DEF S!Range, S!IsInjective
  <2>. QED
    BY <1>6, <2>1, <2>2, <2>4
<1>8. 0 \in 0 .. S!capacity(w.v)
  <2>1. PICK b \in Nat : b = BlockLen
    BY BlockLenFacts
  <2>. QED
    BY <1>7, <2>1 DEF S!capacity, BlockLen
<1>9. taken \subseteq S!Segments
  BY DEF S!StateOK
<1>10. S!StateOK(w, taken)
  BY ONLY <1>2, <1>5, <1>6, <1>7, <1>8, <1>9, alloc \in {1, 2} DEF S!StateOK, BlockLen
<1>11. SameFor(taken, st, w)
  BY <1>2, <1>5 DEF SameFor
<1>12. S!Free(w) = S!Free(d)
  BY <1>5 DEF S!Free
<1>. QED
  BY <1>1, <1>6, <1>10, <1>11, <1>12
-----------------------------------------------------------------------------
(* The segmented vector: the calls that repeat another one.                *)

(* The greatest number of a set of the first n, which the folds take.      *)
LEMMA GreatestOf ==
    ASSUME NEW n \in Nat, NEW s \in SUBSET (1 .. n), s # {}
    PROVE  S!Max(s) \in s /\ \A y \in s : S!Max(s) >= y
<1>. DEFINE D == {k \in Nat : \E y \in s : k + y = n}
<1>1. D # {}
  <2>1. PICK y \in s : TRUE
    OBVIOUS
  <2>2. y \in 1 .. n /\ n - y \in Nat /\ (n - y) + y = n
    BY <2>1
  <2>. QED
    BY <2>2
<1>2. PICK e \in D : \A z \in D : e <= z
  BY <1>1, LeastNat
<1>3. PICK m \in s : e + m = n
  BY <1>2
<1>4. ASSUME NEW y \in s PROVE m >= y
  <2>1. y \in 1 .. n /\ m \in 1 .. n /\ n - y \in Nat /\ (n - y) + y = n
    OBVIOUS
  <2>2. e <= n - y
    BY <1>2, <2>1
  <2>. QED
    BY <1>3, <2>1, <2>2
<1>. QED
  BY <1>3, <1>4 DEF S!Max

LEMMA GreatestOfFirst ==
    ASSUME NEW n \in Nat \ {0}
    PROVE  S!Max(1 .. n) = n /\ (1 .. n) \ {n} = 1 .. (n - 1) /\ 1 .. n # {}
<1>1. n \in 1 .. n /\ \A y \in 1 .. n : n >= y
  OBVIOUS
<1>2. S!Max(1 .. n) \in 1 .. n /\ \A y \in 1 .. n : S!Max(1 .. n) >= y
  BY <1>1 DEF S!Max
<1>3. S!Max(1 .. n) = n
  BY <1>1, <1>2
<1>4. \A y : y \in (1 .. n) \ {n} <=> y \in 1 .. (n - 1)
  OBVIOUS
<1>. QED
  BY <1>1, <1>3, <1>4

(* One call of the repeated operation, and the equation of the fold on the *)
(* subsets of 1 .. n: blocks are added (grow), or the elements of q.       *)
Called(grow, st, e) == IF grow = 1 THEN S!increase_capacity(st) ELSE S!emplace_back(st, e)
Repeats(grow, st, q, n, G) ==
    G = [s \in SUBSET (1 .. n) |->
            IF s = {} THEN st ELSE LET x == S!Max(s) IN Called(grow, G[s \ {x}], q[x])]
Grows(st, q, n, G) ==
    G = [s \in SUBSET (1 .. n) |->
            IF s = {} THEN st ELSE LET x == S!Max(s) IN S!increase_capacity(G[s \ {x}])]
Fills(st, q, n, G) ==
    G = [s \in SUBSET (1 .. n) |->
            IF s = {} THEN st ELSE LET x == S!Max(s) IN S!emplace_back(G[s \ {x}], q[x])]

LEMMA RepeatsExist ==
    ASSUME NEW grow, NEW st, NEW q, NEW n \in Nat
    PROVE  \E G : Repeats(grow, st, q, n, G)
<1>. DEFINE Bad == {k \in Nat : ~ \E G : Repeats(grow, st, q, k, G)}
<1>. SUFFICES Bad = {}
  OBVIOUS
<1>. SUFFICES ASSUME Bad # {} PROVE FALSE
  OBVIOUS
<1>1. PICK k \in Bad : \A j \in Bad : k <= j
  BY LeastNat
<1>2. k # 0
  <2>. DEFINE G == [s \in SUBSET (1 .. 0) |-> st]
  <2>1. SUBSET (1 .. 0) = {{}}
    OBVIOUS
  <2>2. Repeats(grow, st, q, 0, G)
    BY <2>1 DEF Repeats
  <2>. QED
    BY <2>2
<1>3. PICK F : Repeats(grow, st, q, k - 1, F)
  BY <1>1, <1>2
<1>. DEFINE G == [s \in SUBSET (1 .. k) |-> IF k \in s THEN Called(grow, F[s \ {k}], q[k]) ELSE F[s]]
<1>4. ASSUME NEW s \in SUBSET (1 .. k), s # {}
      PROVE  G[s] = LET x == S!Max(s) IN Called(grow, G[s \ {x}], q[x])
  <2>2. S!Max(s) \in s /\ \A y \in s : S!Max(s) >= y
    BY <1>4, GreatestOf
  <2>3. PICK x \in 1 .. k : x = S!Max(s)
    BY <2>2
  <2>4. s \ {x} \in SUBSET (1 .. (k - 1)) /\ k \notin s \ {x} /\ s \ {x} \in SUBSET (1 .. k)
    <3>1. ASSUME NEW y \in s, y # x PROVE y \in 1 .. (k - 1) /\ y # k
      <4>1. y <= x /\ y \in 1 .. k
        BY <2>2, <2>3
      <4>. QED
        BY <3>1, <4>1
    <3>. QED
      BY <3>1
  <2>5. G[s \ {x}] = F[s \ {x}]
    BY <2>4
  <2>6. CASE k \in s
    <3>1. x = k
      BY <2>2, <2>3, <2>6
    <3>. QED
      BY <2>3, <2>5, <2>6, <3>1
  <2>7. CASE k \notin s
    <3>1. s \in SUBSET (1 .. (k - 1))
      BY <2>7
    <3>2. F[s] = Called(grow, F[s \ {x}], q[x])
      BY <1>3, <1>4, <3>1, <2>3 DEF Repeats
    <3>. QED
      BY <2>3, <2>5, <2>7, <3>2
  <2>. QED
    BY <2>6, <2>7
<1>5. G[{}] = st
  <2>1. {} \in SUBSET (1 .. (k - 1))
    OBVIOUS
  <2>2. F[{}] = st
    BY <1>3, <2>1 DEF Repeats
  <2>. QED
    BY <2>2
<1>6. Repeats(grow, st, q, k, G)
  <2>. HIDE DEF G
  <2>1. \A s \in SUBSET (1 .. k) :
           G[s] = IF s = {} THEN st ELSE LET x == S!Max(s) IN Called(grow, G[s \ {x}], q[x])
    BY <1>4, <1>5
  <2>2. G = [s \in SUBSET (1 .. k) |-> G[s]]
    BY DEF G
  <2>. QED
    BY <2>1, <2>2 DEF Repeats
<1>. QED
  BY <1>1, <1>6

(* The folds of the module are such functions, at 1 .. n.                  *)
Grown(st, q) == S!FoldLeft(LAMBDA u, i : S!increase_capacity(u), st, q)
Filled(st, q) == S!FoldLeft(S!emplace_back, st, q)

LEMMA GrownIs ==
    ASSUME NEW st, NEW q, NEW n \in Nat, DOMAIN q = 1 .. n
    PROVE  \E G : Repeats(1, st, q, n, G) /\ Grown(st, q) = G[1 .. n]
<1>. DEFINE C == CHOOSE G : Grows(st, q, n, G)
<1>1. PICK F : Repeats(1, st, q, n, F)
  BY RepeatsExist
<1>2. ASSUME NEW G PROVE Repeats(1, st, q, n, G) <=> Grows(st, q, n, G)
  BY DEF Repeats, Grows, Called
<1>3. Grows(st, q, n, C)
  <2>1. Grows(st, q, n, F)
    BY <1>1, <1>2
  <2>. QED
    BY <2>1
<1>4. Grown(st, q) = C[1 .. n]
  BY DEF Grown, S!FoldLeft, S!MapThenFoldSet, Grows
<1>. QED
  BY <1>2, <1>3, <1>4

LEMMA FilledIs ==
    ASSUME NEW st, NEW q, NEW n \in Nat, DOMAIN q = 1 .. n
    PROVE  \E G : Repeats(0, st, q, n, G) /\ Filled(st, q) = G[1 .. n]
<1>. DEFINE C == CHOOSE G : Fills(st, q, n, G)
<1>1. PICK F : Repeats(0, st, q, n, F)
  BY RepeatsExist
<1>2. ASSUME NEW G PROVE Repeats(0, st, q, n, G) <=> Fills(st, q, n, G)
  BY DEF Repeats, Fills, Called
<1>3. Fills(st, q, n, C)
  <2>1. Fills(st, q, n, F)
    BY <1>1, <1>2
  <2>. QED
    BY <2>1
<1>4. Filled(st, q) = C[1 .. n]
  BY DEF Filled, S!FoldLeft, S!MapThenFoldSet, Fills
<1>. QED
  BY <1>2, <1>3, <1>4

(* The fold over the first j is the fold over the first j - 1 and one call.*)
LEMMA RepeatsStep ==
    ASSUME NEW grow, NEW st, NEW q, NEW n \in Nat, NEW G, Repeats(grow, st, q, n, G)
    PROVE  /\ G[1 .. 0] = st
           /\ \A j \in 1 .. n : G[1 .. j] = Called(grow, G[1 .. (j - 1)], q[j])
<1>1. G[1 .. 0] = st
  <2>1. 1 .. 0 = {} /\ {} \in SUBSET (1 .. n)
    OBVIOUS
  <2>. QED
    BY <2>1 DEF Repeats
<1>2. ASSUME NEW j \in 1 .. n PROVE G[1 .. j] = Called(grow, G[1 .. (j - 1)], q[j])
  <2>1. j \in Nat \ {0} /\ 1 .. j \in SUBSET (1 .. n)
    OBVIOUS
  <2>2. S!Max(1 .. j) = j /\ (1 .. j) \ {j} = 1 .. (j - 1) /\ 1 .. j # {}
    BY <2>1, GreatestOfFirst
  <2>3. G[1 .. j] = Called(grow, G[(1 .. j) \ {S!Max(1 .. j)}], q[S!Max(1 .. j)])
    BY <2>1, <2>2 DEF Repeats
  <2>. QED
    BY <2>2, <2>3
<1>. QED
  BY <1>1, <1>2

(* n more blocks: what is stored stays.                                    *)
GrownBy(st, taken, u, j) ==
    /\ S!StateOK(u, taken) /\ SameFor(taken, st, u)
    /\ u.v.size = st.v.size /\ u.v.alloc = st.v.alloc /\ Stored(u) = Stored(st)
    /\ Len(u.v.blocks) = Len(st.v.blocks) + j
    /\ Cardinality(S!Free(u)) = Cardinality(S!Free(st)) - j

LEMMA GrowOK ==
    ASSUME S!SegmentAssumption, NEW st, NEW taken, S!StateOK(st, taken),
           NEW n \in Nat, n <= Cardinality(S!Free(st)), NEW q, DOMAIN q = 1 .. n
    PROVE  GrownBy(st, taken, Grown(st, q), n)
<1>1. PICK G : Repeats(1, st, q, n, G) /\ Grown(st, q) = G[1 .. n]
  BY GrownIs
<1>2. /\ G[1 .. 0] = st
      /\ \A j \in 1 .. n : G[1 .. j] = S!increase_capacity(G[1 .. (j - 1)])
  <2>1. G[1 .. 0] = st /\ \A j \in 1 .. n : G[1 .. j] = Called(1, G[1 .. (j - 1)], q[j])
    BY <1>1, RepeatsStep
  <2>2. ASSUME NEW x, NEW e PROVE Called(1, x, e) = S!increase_capacity(x)
    BY DEF Called
  <2>. QED
    BY <2>1, <2>2
<1>. DEFINE Bad == {j \in 0 .. n : ~GrownBy(st, taken, G[1 .. j], j)}
<1>3. ASSUME Bad # {} PROVE FALSE
  <2>1. Bad \in SUBSET Nat
    OBVIOUS
  <2>2. PICK j \in Bad : \A i \in Bad : j <= i
    BY <1>3, <2>1, LeastNat
  <2>3. j \in 0 .. n /\ ~GrownBy(st, taken, G[1 .. j], j)
    OBVIOUS
  <2>4. CASE j = 0
    <3>1. Len(st.v.blocks) \in Nat /\ Cardinality(S!Free(st)) \in Nat
      BY StateFacts, FreeFacts
    <3>2. GrownBy(st, taken, st, 0)
      BY <3>1 DEF GrownBy, SameFor
    <3>. QED
      BY <1>2, <2>3, <2>4, <3>2
  <2>5. CASE j # 0
    <3>1. PICK i : i = j - 1
      OBVIOUS
    <3>2. i \in 0 .. n /\ i < j /\ j = i + 1 /\ j \in 1 .. n /\ i \in Nat /\ i < n
      BY <2>3, <2>5, <3>1
    <3>3. GrownBy(st, taken, G[1 .. i], i)
      BY <2>2, <3>2
    <3>4. PICK u : u = G[1 .. i]
      OBVIOUS
    <3>5. /\ S!StateOK(u, taken) /\ SameFor(taken, st, u)
          /\ u.v.size = st.v.size /\ u.v.alloc = st.v.alloc /\ Stored(u) = Stored(st)
          /\ Len(u.v.blocks) = Len(st.v.blocks) + i
          /\ Cardinality(S!Free(u)) = Cardinality(S!Free(st)) - i
      BY <3>3, <3>4 DEF GrownBy
    <3>6. /\ Len(st.v.blocks) \in Nat /\ Cardinality(S!Free(st)) \in Nat
          /\ Cardinality(S!Free(u)) \in Nat
      BY StateFacts, FreeFacts
    <3>7. S!Free(u) # {}
      <4>1. Cardinality(S!Free(u)) > 0
        BY <3>2, <3>5, <3>6
      <4>. QED
        BY <4>1, FreeFacts
    <3>8. PICK w : w = S!increase_capacity(u)
      OBVIOUS
    <3>9. /\ S!StateOK(w, taken) /\ SameFor(taken, u, w)
          /\ w.v.size = u.v.size /\ w.v.alloc = u.v.alloc
          /\ Len(w.v.blocks) = Len(u.v.blocks) + 1 /\ Stored(w) = Stored(u)
          /\ Cardinality(S!Free(w)) = Cardinality(S!Free(u)) - 1
      BY <3>5, <3>7, <3>8, IncreaseOK
    <3>10. SameFor(taken, st, w)
      BY <3>5, <3>9 DEF SameFor
    <3>11. Len(w.v.blocks) = Len(st.v.blocks) + j
           /\ Cardinality(S!Free(w)) = Cardinality(S!Free(st)) - j
      <4>1. PICK a, d \in Nat : a = Len(st.v.blocks) /\ d = Cardinality(S!Free(st))
        BY <3>6
      <4>2. PICK x, y : x = Len(w.v.blocks) /\ y = Cardinality(S!Free(w))
        OBVIOUS
      <4>3. x = (a + i) + 1 /\ y = (d - i) - 1
        BY <3>5, <3>9, <4>1, <4>2
      <4>4. x = a + j /\ y = d - j
        BY <3>2, <4>3
      <4>. QED
        BY <4>1, <4>2, <4>4
    <3>12. GrownBy(st, taken, w, j)
      BY <3>5, <3>9, <3>10, <3>11 DEF GrownBy
    <3>13. G[1 .. j] = w
      BY <1>2, <3>1, <3>2, <3>4, <3>8
    <3>. QED
      BY <2>3, <3>12, <3>13
  <2>. QED
    BY <2>4, <2>5
<1>4. n \in 0 .. n
  OBVIOUS
<1>. QED
  BY <1>1, <1>3, <1>4

(* The module's own copy of Cardinality.                                   *)
LEMMA SegmentsSize == ASSUME NEW Q PROVE S!Cardinality(Q) = Cardinality(Q)
BY Zenon DEF S!Cardinality, Cardinality, S!IsFiniteSet, IsFiniteSet

LEMMA ReserveOK ==
    ASSUME S!SegmentAssumption, NEW st, NEW taken, S!StateOK(st, taken), NEW c \in Nat,
           S!calc_num_blocks_for_capacity(c) - Len(st.v.blocks) <= Cardinality(S!Free(st))
    PROVE  /\ S!StateOK(S!reserve(st, c), taken) /\ SameFor(taken, st, S!reserve(st, c))
           /\ S!reserve(st, c).v.size = st.v.size /\ S!reserve(st, c).v.alloc = st.v.alloc
           /\ Stored(S!reserve(st, c)) = Stored(st)
           /\ c <= Len(S!reserve(st, c).v.blocks) * BlockLen
<1>1. PICK need \in Nat : need = S!calc_num_blocks_for_capacity(c)
  BY BlocksEnough
<1>2. PICK len \in Nat : len = Len(st.v.blocks)
  BY StateFacts
<1>3. PICK missing \in Int : missing = need - len
  OBVIOUS
<1>4. PICK n \in Nat : (missing >= 0 => n = missing) /\ (missing < 0 => n = 0)
  <2>1. CASE missing >= 0
    BY <2>1
  <2>2. CASE missing < 0
    BY <2>2
  <2>. QED
    BY <2>1, <2>2
<1>5. PICK q : q = [i \in 1 .. missing |-> i]
  OBVIOUS
<1>6. DOMAIN q = 1 .. n
  <2>1. DOMAIN q = 1 .. missing
    BY <1>5
  <2>2. 1 .. missing = 1 .. n
    BY <1>4
  <2>. QED
    BY <2>1, <2>2
<1>7. n <= Cardinality(S!Free(st))
  <2>1. Cardinality(S!Free(st)) \in Nat
    BY FreeFacts
  <2>. QED
    BY <1>1, <1>2, <1>3, <1>4, <2>1
<1>8. PICK w : w = S!reserve(st, c)
  OBVIOUS
<1>9. w = Grown(st, q)
  BY <1>1, <1>2, <1>3, <1>5, <1>8 DEF S!reserve, Grown
<1>10. GrownBy(st, taken, w, n)
  BY <1>6, <1>7, <1>9, GrowOK
<1>11. Len(w.v.blocks) = len + n /\ need <= len + n
  BY <1>2, <1>3, <1>4, <1>10 DEF GrownBy
<1>12. c <= Len(w.v.blocks) * BlockLen
  <2>1. PICK b \in Nat \ {0} : b = BlockLen
    BY BlockLenFacts
  <2>2. c <= need * b
    BY <1>1, <2>1, BlocksEnough
  <2>3. need * b <= (len + n) * b /\ need * b \in Nat /\ (len + n) * b \in Nat
    BY <1>11
  <2>4. c <= (len + n) * b
    BY <2>2, <2>3
  <2>. QED
    BY <1>11, <2>1, <2>4
<1>. QED
  BY <1>8, <1>10, <1>12 DEF GrownBy

(* The elements of q go into an empty vector that has room for them.       *)
FilledWith(st, taken, u, q, j) ==
    /\ S!StateOK(u, taken) /\ SameFor(taken, st, u)
    /\ u.v.size = j /\ u.v.alloc = st.v.alloc /\ u.v.blocks = st.v.blocks
    /\ Stored(u) = SubSeq(q, 1, j)

LEMMA PrefixStep ==
    ASSUME NEW X, NEW q \in Seq(X), NEW i \in Nat, i < Len(q)
    PROVE  /\ SubSeq(q, 1, i) \in Seq(X) /\ q[i + 1] \in X
           /\ Append(SubSeq(q, 1, i), q[i + 1]) = SubSeq(q, 1, i + 1)
<1>1. i + 1 \in 1 .. Len(q) /\ q[i + 1] \in X
  OBVIOUS
<1>2. PICK p : p = SubSeq(q, 1, i)
  OBVIOUS
<1>3. p \in Seq(X) /\ Len(p) = i /\ \A k \in 1 .. i : p[k] = q[k]
  BY <1>2
<1>4. PICK r : r = Append(p, q[i + 1])
  OBVIOUS
<1>5. r \in Seq(X) /\ Len(r) = i + 1 /\ \A k \in 1 .. i + 1 : r[k] = q[k]
  BY <1>1, <1>3, <1>4
<1>6. PICK t : t = SubSeq(q, 1, i + 1)
  OBVIOUS
<1>7. t \in Seq(X) /\ Len(t) = i + 1 /\ \A k \in 1 .. i + 1 : t[k] = q[k]
  BY <1>1, <1>6
<1>8. r = t
  <2>1. DOMAIN r = 1 .. i + 1 /\ DOMAIN t = 1 .. i + 1
    BY <1>5, <1>7
  <2>2. r = [k \in 1 .. i + 1 |-> r[k]] /\ t = [k \in 1 .. i + 1 |-> t[k]]
    BY <1>5, <1>7, <2>1
  <2>. QED
    BY <1>5, <1>7, <2>2
<1>. QED
  BY <1>1, <1>2, <1>3, <1>4, <1>6, <1>8

LEMMA FillOK ==
    ASSUME S!SegmentAssumption, NEW st, NEW taken, S!StateOK(st, taken), st.v.size = 0,
           NEW q \in Seq(Elements), Len(q) <= Len(st.v.blocks) * BlockLen
    PROVE  FilledWith(st, taken, Filled(st, q), q, Len(q))
<1>0. PICK n \in Nat : n = Len(q)
  OBVIOUS
<1>1. PICK G : Repeats(0, st, q, n, G) /\ Filled(st, q) = G[1 .. n]
  BY <1>0, FilledIs
<1>2. /\ G[1 .. 0] = st
      /\ \A j \in 1 .. n : G[1 .. j] = S!emplace_back(G[1 .. (j - 1)], q[j])
  <2>1. G[1 .. 0] = st /\ \A j \in 1 .. n : G[1 .. j] = Called(0, G[1 .. (j - 1)], q[j])
    BY <1>1, RepeatsStep
  <2>2. ASSUME NEW x, NEW e PROVE Called(0, x, e) = S!emplace_back(x, e)
    BY DEF Called
  <2>. QED
    BY <2>1, <2>2
<1>. DEFINE Bad == {j \in 0 .. n : ~FilledWith(st, taken, G[1 .. j], q, j)}
<1>3. ASSUME Bad # {} PROVE FALSE
  <2>1. Bad \in SUBSET Nat
    OBVIOUS
  <2>2. PICK j \in Bad : \A i \in Bad : j <= i
    BY <1>3, <2>1, LeastNat
  <2>3. j \in 0 .. n /\ ~FilledWith(st, taken, G[1 .. j], q, j)
    OBVIOUS
  <2>4. CASE j = 0
    <3>1. SubSeq(q, 1, 0) = <<>> /\ Stored(st) = <<>>
      BY NothingStored
    <3>2. FilledWith(st, taken, st, q, 0)
      BY <3>1 DEF FilledWith, SameFor
    <3>. QED
      BY <1>2, <2>3, <2>4, <3>2
  <2>5. CASE j # 0
    <3>1. PICK i : i = j - 1
      OBVIOUS
    <3>2. i \in 0 .. n /\ i < j /\ j = i + 1 /\ j \in 1 .. n /\ i \in Nat /\ i < n
      BY <2>3, <2>5, <3>1
    <3>3. FilledWith(st, taken, G[1 .. i], q, i)
      BY <2>2, <3>2
    <3>4. PICK u : u = G[1 .. i]
      OBVIOUS
    <3>5. /\ S!StateOK(u, taken) /\ SameFor(taken, st, u)
          /\ u.v.size = i /\ u.v.alloc = st.v.alloc /\ u.v.blocks = st.v.blocks
          /\ Stored(u) = SubSeq(q, 1, i)
      BY <3>3, <3>4 DEF FilledWith
    <3>6. SubSeq(q, 1, i) \in Seq(Elements) /\ q[j] \in Elements
          /\ Append(SubSeq(q, 1, i), q[j]) = SubSeq(q, 1, j)
      BY <1>0, <3>2, PrefixStep
    <3>7. u.v.size < Len(u.v.blocks) * BlockLen
      <4>1. Len(st.v.blocks) * BlockLen \in Nat
        BY StateFacts
      <4>. QED
        BY <1>0, <3>2, <3>5, <4>1
    <3>8. PICK e \in Elements : e = q[j]
      BY <3>6
    <3>9. PICK w : w = S!emplace_back(u, e)
      OBVIOUS
    <3>10. Stored(u) \in Seq(Elements)
      BY <3>5, <3>6
    <3>11. /\ S!StateOK(w, taken) /\ SameFor(taken, u, w) /\ w.v.alloc = u.v.alloc
           /\ w.v.size = u.v.size + 1 /\ w.v.blocks = u.v.blocks
           /\ Stored(w) = Append(Stored(u), e)
      BY ONLY S!SegmentAssumption, e \in Elements, <3>5, <3>7, <3>9, <3>10, EmplaceOK
    <3>12. SameFor(taken, st, w)
      BY <3>5, <3>11 DEF SameFor
    <3>13. FilledWith(st, taken, w, q, j)
      BY <3>2, <3>5, <3>6, <3>8, <3>11, <3>12 DEF FilledWith
    <3>14. G[1 .. j] = w
      BY <1>2, <3>1, <3>2, <3>4, <3>8, <3>9
    <3>. QED
      BY <2>3, <3>13, <3>14
  <2>. QED
    BY <2>4, <2>5
<1>4. n \in 0 .. n
  OBVIOUS
<1>. QED
  BY <1>0, <1>1, <1>3, <1>4

(* append_everything_from into an empty vector: it holds what the other    *)
(* one holds.                                                              *)
LEMMA AppendOK ==
    ASSUME S!SegmentAssumption, NEW st, NEW taken, S!StateOK(st, taken), st.v.size = 0,
           NEW q \in Seq(Elements), NEW other, other.size = Len(q), S!Contents(other) = q,
           S!calc_num_blocks_for_capacity(Len(q)) - Len(st.v.blocks) <= Cardinality(S!Free(st)),
           NEW w, w = S!append_everything_from(st, other)
    PROVE  S!StateOK(w, taken) /\ SameFor(taken, st, w) /\ Stored(w) = q
<1>1. PICK c \in Nat : c = Len(q)
  OBVIOUS
<1>2. PICK u : u = S!reserve(st, c)
  OBVIOUS
<1>3. st.v.size + other.size = c
  BY <1>1
<1>4. w = Filled(u, q)
  BY <1>2, <1>3 DEF S!append_everything_from, Filled
<1>5. /\ S!StateOK(u, taken) /\ SameFor(taken, st, u) /\ u.v.size = 0
      /\ c <= Len(u.v.blocks) * BlockLen
  BY <1>1, <1>2, ReserveOK
<1>6. FilledWith(u, taken, w, q, c)
  BY ONLY S!SegmentAssumption, q \in Seq(Elements), <1>1, <1>4, <1>5, FillOK
<1>7. SubSeq(q, 1, c) = q
  BY <1>1
<1>8. SameFor(taken, st, w)
  BY <1>5, <1>6 DEF SameFor, FilledWith
<1>. QED
  BY <1>6, <1>7, <1>8 DEF FilledWith

(* A sequence without repetition, cut in two: no element is in both parts. *)
CutAt(q, k, p, r) == p = SubSeq(q, 1, k) /\ r = SubSeq(q, k + 1, Len(q))

LEMMA CutInTwo ==
    ASSUME NEW X, NEW q \in Seq(X), S!IsInjective(q), NEW k \in 0 .. Len(q),
           NEW p, NEW r, CutAt(q, k, p, r)
    PROVE  /\ p \in Seq(X) /\ Len(p) = k /\ S!IsInjective(p)
           /\ \A i \in 1 .. k : p[i] = q[i]
           /\ \A s \in S!Range(p) : s \in S!Range(q) /\ s \notin S!Range(r)
           /\ \A s \in S!Range(q) : s \in S!Range(p) \/ s \in S!Range(r)
           /\ \A s \in S!Range(r) : s \in S!Range(q)
<1>0. p = SubSeq(q, 1, k) /\ r = SubSeq(q, k + 1, Len(q))
  BY DEF CutAt
<1>1. p \in Seq(X) /\ Len(p) = k /\ DOMAIN p = 1 .. k /\ \A i \in 1 .. k : p[i] = q[i]
  BY <1>0
<1>2. PICK n \in Nat : n = Len(q)
  OBVIOUS
<1>3. k \in Nat /\ k <= n /\ DOMAIN q = 1 .. n
  BY <1>2
<1>4. DOMAIN r = 1 .. (n - k) /\ \A i \in 1 .. (n - k) : r[i] = q[k + i]
  <2>1. k + 1 \in 1 .. n + 1
    BY <1>3
  <2>2. r \in Seq(X) /\ Len(r) = n - k
    BY <1>0, <1>2, <1>3, <2>1
  <2>3. \A i \in 1 .. (n - k) : r[i] = q[k + i]
    <3>1. ASSUME NEW i \in 1 .. (n - k) PROVE r[i] = q[k + i]
      <4>1. i \in 1 .. (n - (k + 1) + 1) /\ (k + 1) + i - 1 = k + i
        BY <1>3
      <4>2. SubSeq(q, k + 1, n)[i] = q[(k + 1) + i - 1]
        BY <1>2, <1>3, <4>1
      <4>. QED
        BY <1>0, <1>2, <4>1, <4>2
    <3>. QED
      BY <3>1
  <2>. QED
    BY <1>3, <2>2, <2>3
<1>5. \A i, j \in 1 .. n : q[i] = q[j] => i = j
  BY <1>3 DEF S!IsInjective
<1>6. S!IsInjective(p)
  <2>1. ASSUME NEW i \in 1 .. k, NEW j \in 1 .. k, p[i] = p[j] PROVE i = j
    <3>1. i \in 1 .. n /\ j \in 1 .. n
      BY <1>3
    <3>. QED
      BY <1>1, <1>5, <2>1, <3>1
  <2>. QED
    BY <1>1, <2>1 DEF S!IsInjective
<1>7. ASSUME NEW s \in S!Range(r) PROVE \E j \in 1 .. n : j > k /\ s = q[j]
  <2>1. PICK i \in 1 .. (n - k) : s = r[i]
    BY <1>4 DEF S!Range
  <2>2. k + i \in 1 .. n /\ k + i > k
    BY <1>3
  <2>. QED
    BY <1>4, <2>1, <2>2
<1>8. ASSUME NEW s \in S!Range(p) PROVE s \in S!Range(q) /\ s \notin S!Range(r)
  <2>1. PICK i \in 1 .. k : s = p[i]
    BY <1>1 DEF S!Range
  <2>2. i \in 1 .. n /\ s = q[i]
    BY <1>1, <1>3, <2>1
  <2>3. ASSUME s \in S!Range(r) PROVE FALSE
    <3>1. PICK j \in 1 .. n : j > k /\ s = q[j]
      BY <1>7, <2>3
    <3>2. i = j
      BY <1>5, <2>2, <3>1
    <3>. QED
      BY <1>3, <3>1, <3>2
  <2>. QED
    BY <1>3, <2>2, <2>3 DEF S!Range
<1>9. ASSUME NEW s \in S!Range(q) PROVE s \in S!Range(p) \/ s \in S!Range(r)
  <2>1. PICK i \in 1 .. n : s = q[i]
    BY <1>3 DEF S!Range
  <2>2. CASE i <= k
    <3>1. i \in 1 .. k
      BY <1>3, <2>2
    <3>. QED
      BY <1>1, <2>1, <3>1 DEF S!Range
  <2>3. CASE i > k
    <3>1. PICK j \in 1 .. (n - k) : k + j = i
      <4>1. i - k \in 1 .. (n - k) /\ k + (i - k) = i
        BY <1>3, <2>3
      <4>. QED
        BY <4>1
    <3>2. r[j] = s
      BY <1>4, <2>1, <3>1
    <3>. QED
      BY <1>4, <3>1, <3>2 DEF S!Range
  <2>. QED
    BY <1>3, <2>2, <2>3
<1>10. ASSUME NEW s \in S!Range(r) PROVE s \in S!Range(q)
  <2>1. PICK j \in 1 .. n : j > k /\ s = q[j]
    BY <1>7
  <2>. QED
    BY <1>3, <2>1 DEF S!Range
<1>. QED
  BY <1>1, <1>6, <1>8, <1>9, <1>10

(* shrink_to_fit gives back the blocks no element lies in.                 *)
LEMMA ShrinkOK ==
    ASSUME S!SegmentAssumption, NEW st, NEW taken, S!StateOK(st, taken)
    PROVE  /\ S!StateOK(S!shrink_to_fit(st), taken) /\ SameFor(taken, st, S!shrink_to_fit(st))
           /\ Stored(S!shrink_to_fit(st)) = Stored(st)
<1>1. PICK B : B = st.v.blocks
  OBVIOUS
<1>2. PICK b \in Nat \ {0} : b = BlockLen
  BY BlockLenFacts
<1>3. B \in Seq(S!Segments) /\ S!IsInjective(B) /\ st.v.size \in Nat /\ st.v.size <= Len(B) * b
  BY <1>1, <1>2, StateFacts DEF S!StateOK
<1>4. PICK kept \in Nat : kept = S!calc_num_blocks_for_capacity(st.v.size)
  BY <1>3, BlocksEnough
<1>5. kept <= Len(B) /\ st.v.size <= kept * b
  <2>1. Len(B) \in Nat
    BY <1>3
  <2>. QED
    BY <1>2, <1>3, <1>4, <2>1, BlocksEnough
<1>6. S!Min({kept, Len(B)}) = kept
  <2>1. PICK len \in Nat : len = Len(B)
    BY <1>3
  <2>2. \A y \in {kept, len} : kept <= y
    BY <1>5, <2>1
  <2>3. \A m \in {kept, len} : (\A y \in {kept, len} : m <= y) => m = kept
    BY <1>5, <2>1
  <2>4. S!Min({kept, len}) \in {kept, len} /\ \A y \in {kept, len} : S!Min({kept, len}) <= y
    BY <2>2 DEF S!Min
  <2>. QED
    BY <2>1, <2>3, <2>4
<1>7. PICK p, r : p = SubSeq(B, 1, kept) /\ r = SubSeq(B, kept + 1, Len(B))
  OBVIOUS
<1>8. /\ p \in Seq(S!Segments) /\ Len(p) = kept /\ S!IsInjective(p)
      /\ \A i \in 1 .. kept : p[i] = B[i]
      /\ \A s \in S!Range(p) : s \in S!Range(B) /\ s \notin S!Range(r)
      /\ \A s \in S!Range(B) : s \in S!Range(p) \/ s \in S!Range(r)
      /\ \A s \in S!Range(r) : s \in S!Range(B)
  <2>1. kept \in 0 .. Len(B)
    BY <1>3, <1>5
  <2>2. CutAt(B, kept, p, r)
    BY <1>7 DEF CutAt
  <2>. QED
    BY <1>3, <2>1, <2>2, CutInTwo
<1>9. PICK g : g = S!GiveBack(st, r)
  OBVIOUS
<1>10. /\ g = [v |-> st.v, memory |-> st.memory, owned |-> g.owned]
       /\ g.v = st.v /\ g.memory = st.memory /\ g.owned \in [S!Segments -> {S!free, 1, 2}]
       /\ \A s \in S!Segments : g.owned[s] = IF s \in S!Range(r) THEN S!free ELSE st.owned[s]
  BY <1>9, GiveBackIs
<1>11. PICK w : w = S!shrink_to_fit(st)
  OBVIOUS
<1>12. w = [v |-> [blocks |-> p, size |-> st.v.size, alloc |-> st.v.alloc], memory |-> st.memory, owned |-> g.owned]
  <2>1. PICK v : v = [g.v EXCEPT !.blocks = p]
    OBVIOUS
  <2>2. v = [blocks |-> p, size |-> st.v.size, alloc |-> st.v.alloc]
    <3>1. st.v = [blocks |-> st.v.blocks, size |-> st.v.size, alloc |-> st.v.alloc]
      BY DEF S!StateOK
    <3>2. PICK h : h = st.v
      OBVIOUS
    <3>. QED
      BY <1>10, <2>1, <3>1, <3>2, VectorUpdate
  <2>3. w = [g EXCEPT !.v.blocks = SubSeq(@, 1, S!Min({kept, Len(@)}))]
    BY <1>1, <1>4, <1>7, <1>9, <1>11 DEF S!shrink_to_fit
  <2>4. [g EXCEPT !.v.blocks = SubSeq(@, 1, S!Min({kept, Len(@)}))] = [g EXCEPT !.v = v]
    BY <1>1, <1>6, <1>7, <1>10, <2>1
  <2>5. g = [v |-> g.v, memory |-> g.memory, owned |-> g.owned]
    BY <1>10
  <2>6. [g EXCEPT !.v = v] = [v |-> v, memory |-> g.memory, owned |-> g.owned]
    BY ONLY <2>5, StateUpdate
  <2>. QED
    BY <1>10, <2>2, <2>3, <2>4, <2>6
<1>13. w.v = [blocks |-> p, size |-> st.v.size, alloc |-> st.v.alloc] /\ w.memory = st.memory
       /\ w.owned = g.owned /\ w = [v |-> w.v, memory |-> w.memory, owned |-> w.owned]
  BY ONLY <1>12
<1>14. w.v.blocks = p /\ w.v.size = st.v.size /\ w.v.alloc = st.v.alloc
       /\ w.v = [blocks |-> w.v.blocks, size |-> w.v.size, alloc |-> w.v.alloc]
  BY ONLY <1>13
<1>15. /\ st.v.alloc \in {1, 2} /\ taken \subseteq S!Segments
       /\ st.memory = [s \in S!Segments |-> st.memory[s]]
       /\ \A s \in S!Segments : st.memory[s] = [i \in 0 .. BlockLen - 1 |-> st.memory[s][i]]
       /\ \A s \in S!Range(B) : s \notin taken /\ st.owned[s] = st.v.alloc
       /\ \A s \in S!Segments : st.owned[s] = S!free <=> s \notin S!Range(B) \union taken
  BY <1>1 DEF S!StateOK, BlockLen
<1>16. S!capacity(w.v) = kept * b /\ st.v.size \in 0 .. kept * b
  <2>1. kept * b \in Nat
    OBVIOUS
  <2>. QED
    <3>1. S!capacity(w.v) = Len(w.v.blocks) * b
      BY <1>2 DEF S!capacity, BlockLen
    <3>2. Len(w.v.blocks) = kept
      BY <1>8, <1>14
    <3>3. PICK z : z = st.v.size
      OBVIOUS
    <3>4. z \in 0 .. kept * b
      BY <1>3, <1>5, <2>1, <3>3
    <3>. QED
      BY <3>1, <3>2, <3>3, <3>4
<1>17. \A s \in S!Range(B) : s \in S!Segments
  BY <1>3 DEF S!Range
<1>18. S!StateOK(w, taken)
  <2>1. \A s \in S!Range(p) : s \notin taken /\ g.owned[s] = st.v.alloc
    BY <1>8, <1>10, <1>15, <1>17
  <2>2. \A s \in S!Segments : g.owned[s] = S!free <=> s \notin S!Range(p) \union taken
    BY <1>8, <1>10, <1>15
  <2>3. w.v.size \in 0 .. S!capacity(w.v)
    BY <1>14, <1>16
  <2>. QED
    BY ONLY <1>8, <1>10, <1>13, <1>14, <1>15, <2>1, <2>2, <2>3 DEF S!StateOK, BlockLen
<1>19. SameFor(taken, st, w)
  <2>1. \A s \in taken : s \in S!Segments /\ s \notin S!Range(r)
    BY <1>8, <1>15
  <2>. QED
    BY <1>10, <1>13, <2>1 DEF SameFor
<1>20. Stored(w) = Stored(st)
  <2>1. ASSUME NEW i \in 1 .. st.v.size PROVE StoredAt(w, i - 1) = StoredAt(st, i - 1)
    <3>1. PICK j \in Nat : j = i - 1
      BY <1>3
    <3>2. j < Len(p) * BlockLen
      <4>1. kept * b \in Nat
        OBVIOUS
      <4>. QED
        BY <1>2, <1>3, <1>5, <1>8, <3>1, <4>1
    <3>3. j \div BlockLen + 1 \in 1 .. kept
      BY <1>8, <3>2, Places
    <3>4. S!block_at(w.v, j) = S!block_at(st.v, j)
      BY <1>1, <1>8, <1>14, <3>3 DEF S!block_at, BlockLen
    <3>. QED
      BY <1>13, <3>1, <3>4 DEF StoredAt
  <2>. QED
    BY <1>14, <2>1 DEF Stored
<1>. QED
  BY <1>11, <1>18, <1>19, <1>20

-----------------------------------------------------------------------------
(* The segmented vector: the invariant.                                    *)

(* One vector of the pair, and the other.                                  *)
LEMMA Pair ==
    /\ S!Vectors = {"a", "b"}
    /\ \A x \in S!Vectors : S!Other(x) \in S!Vectors /\ S!Other(x) # x /\ S!Other(S!Other(x)) = x
    /\ \A x, y \in S!Vectors : y = x \/ y = S!Other(x)
BY DEF S!Vectors, S!Other

(* What the invariant says of one vector.                                  *)
LEMMA VectorFacts ==
    ASSUME S!SegmentAssumption, S!Inv, NEW x \in S!Vectors
    PROVE  /\ S!StateOK(S!State(x), S!Range(seg[S!Other(x)].blocks))
           /\ S!State(x).v = seg[x] /\ S!State(x).memory = memory /\ S!State(x).owned = owned
           /\ Stored(S!State(x)) = model[x] /\ S!Contents(seg[x]) = model[x]
           /\ model[x] \in Seq(Elements) /\ seg[x].size = Len(model[x])
<1>1. /\ S!StateOK(S!State(x), S!Range(seg[S!Other(x)].blocks)) /\ S!Contents(seg[x]) = model[x]
      /\ model \in [S!Vectors -> Seq(Elements)]
  BY DEF S!Inv
<1>2. S!State(x).v = seg[x] /\ S!State(x).memory = memory /\ S!State(x).owned = owned
  BY DEF S!State
<1>3. Stored(S!State(x)) = S!Contents(seg[x])
  BY <1>2 DEF Stored, StoredAt, S!Contents, S!Element
<1>4. S!State(x).v.size \in Nat
  BY <1>1, StateFacts
<1>5. PICK n \in Nat : n = seg[x].size
  BY <1>2, <1>4
<1>6. DOMAIN S!Contents(seg[x]) = 1 .. n
  BY <1>5 DEF S!Contents
<1>7. model[x] \in Seq(Elements)
  BY <1>1
<1>8. Len(model[x]) = n
  BY <1>1, <1>5, <1>6, <1>7
<1>. QED
  BY <1>1, <1>2, <1>3, <1>5, <1>7, <1>8

(* A call on one vector keeps the invariant when it leaves the other's     *)
(* blocks as they are and stores what the user has put in.                 *)
LEMMA BecomesInv ==
    ASSUME S!SegmentAssumption, S!Inv, NEW x \in S!Vectors, NEW st, NEW e \in Seq(Elements),
           S!StateOK(st, S!Range(seg[S!Other(x)].blocks)),
           SameFor(S!Range(seg[S!Other(x)].blocks), S!State(x), st),
           Stored(st) = e, S!Becomes(x, st, e)
    PROVE  S!Inv'
<1>1. PICK y : y = S!Other(x)
  OBVIOUS
<1>2. y \in S!Vectors /\ y # x /\ S!Other(y) = x /\ S!Other(x) = y /\ \A z \in S!Vectors : z = x \/ z = y
  BY <1>1, Pair
<1>3. seg = [z \in S!Vectors |-> seg[z]] /\ model \in [S!Vectors -> Seq(Elements)]
  BY DEF S!Inv
<1>4. /\ seg' = [seg EXCEPT ![x] = st.v] /\ memory' = st.memory /\ owned' = st.owned
      /\ model' = [model EXCEPT ![x] = e]
  BY DEF S!Becomes
<1>5. seg' = [z \in S!Vectors |-> seg'[z]] /\ model' \in [S!Vectors -> Seq(Elements)]
      /\ seg'[x] = st.v /\ seg'[y] = seg[y] /\ model'[x] = e /\ model'[y] = model[y]
  BY <1>2, <1>3, <1>4
<1>6. PICK mine, taken : mine = S!Range(seg[x].blocks) /\ taken = S!Range(seg[y].blocks)
  OBVIOUS
<1>7. S!StateOK(st, taken) /\ SameFor(taken, S!State(x), st)
  BY <1>1, <1>6
<1>8. PICK own : own = S!Range(st.v.blocks)
  OBVIOUS
<1>9. st = [v |-> st.v, memory |-> st.memory, owned |-> st.owned]
  BY <1>7 DEF S!StateOK
<1>10. PICK sx : sx = [v |-> seg'[x], memory |-> memory', owned |-> owned']
  OBVIOUS
<1>11. sx = st
  BY <1>4, <1>5, <1>9, <1>10
<1>12. PICK o : o = S!State(y)
  OBVIOUS
<1>13. o = [v |-> seg[y], memory |-> memory, owned |-> owned] /\ S!StateOK(o, mine)
  BY <1>2, <1>6, <1>12, VectorFacts DEF S!State
<1>14. o.v = seg[y] /\ o.memory = memory /\ o.owned = owned
  BY ONLY <1>13
<1>15. PICK w : w = [v |-> seg'[y], memory |-> memory', owned |-> owned']
  OBVIOUS
<1>16. w.v = o.v /\ w.memory = st.memory /\ w.owned = st.owned
       /\ w = [v |-> w.v, memory |-> w.memory, owned |-> w.owned]
  <2>1. w = [v |-> o.v, memory |-> st.memory, owned |-> st.owned]
    BY <1>4, <1>5, <1>14, <1>15
  <2>. QED
    BY ONLY <2>1
<1>17. taken = S!Range(o.v.blocks) /\ \A s \in taken : st.memory[s] = o.memory[s] /\ st.owned[s] = o.owned[s]
  <2>1. S!State(x).memory = memory /\ S!State(x).owned = owned
    BY VectorFacts
  <2>. QED
    BY <1>6, <1>7, <1>14, <2>1 DEF SameFor
<1>18. S!StateOK(w, own)
  <2>1. /\ o.v = [blocks |-> o.v.blocks, size |-> o.v.size, alloc |-> o.v.alloc]
        /\ o.v.blocks \in Seq(S!Segments) /\ S!IsInjective(o.v.blocks)
        /\ o.v.size \in 0 .. S!capacity(o.v) /\ o.v.alloc \in {1, 2}
        /\ \A s \in taken : o.owned[s] = o.v.alloc
    BY <1>13, <1>17 DEF S!StateOK
  <2>2. /\ st.memory = [s \in S!Segments |-> st.memory[s]]
        /\ \A s \in S!Segments : st.memory[s] = [i \in 0 .. BlockLen - 1 |-> st.memory[s][i]]
        /\ st.owned \in [S!Segments -> {S!free, 1, 2}]
        /\ \A s \in own : s \notin taken
        /\ \A s \in S!Segments : st.owned[s] = S!free <=> s \notin own \union taken
        /\ st.v.blocks \in Seq(S!Segments)
    BY <1>7, <1>8 DEF S!StateOK, BlockLen
  <2>3. own \subseteq S!Segments
    BY <1>8, <2>2 DEF S!Range
  <2>4. /\ \A s \in taken : s \notin own /\ st.owned[s] = o.v.alloc
        /\ \A s \in S!Segments : st.owned[s] = S!free <=> s \notin taken \union own
    BY <1>17, <2>1, <2>2
  <2>. QED
    BY ONLY <1>16, <1>17, <2>1, <2>2, <2>3, <2>4 DEF S!StateOK, BlockLen
<1>19. Stored(w) = Stored(o)
  <2>1. o.v.size = w.v.size
    BY <1>16
  <2>2. ASSUME NEW i \in 1 .. o.v.size PROVE StoredAt(w, i - 1) = StoredAt(o, i - 1)
    <3>1. /\ i - 1 \in Nat /\ i - 1 < Len(o.v.blocks) * BlockLen /\ o.v.blocks \in Seq(S!Segments)
      BY <1>13, StateFacts
    <3>2. PICK k \in 1 .. Len(o.v.blocks) : k = (i - 1) \div BlockLen + 1
      BY <3>1, Places
    <3>3. o.v.blocks[k] \in taken
      BY <1>17, <3>1, <3>2 DEF S!Range
    <3>. QED
      BY <1>16, <1>17, <3>2, <3>3 DEF StoredAt, S!block_at, BlockLen
  <2>. QED
    BY <2>1, <2>2 DEF Stored
<1>20. Stored(o) = model[y]
  BY <1>2, <1>12, VectorFacts
<1>21. /\ S!State(x)' = sx /\ S!State(y)' = w
       /\ S!Contents(seg[x])' = Stored(sx) /\ S!Contents(seg[y])' = Stored(w)
  <2>1. S!State(x)' = sx /\ S!State(y)' = w
    BY <1>10, <1>15 DEF S!State
  <2>2. sx.v = seg'[x] /\ sx.memory = memory' /\ w.v = seg'[y] /\ w.memory = memory'
    BY ONLY <1>10, <1>15
  <2>3. S!Contents(seg[x])' = Stored(sx)
    BY <2>2 DEF S!Contents, S!Element, Stored, StoredAt
  <2>4. S!Contents(seg[y])' = Stored(w)
    BY <2>2 DEF S!Contents, S!Element, Stored, StoredAt
  <2>. QED
    BY <2>1, <2>3, <2>4
<1>22. ASSUME NEW z \in S!Vectors
       PROVE  /\ S!StateOK(S!State(z), S!Range(seg[S!Other(z)].blocks))'
              /\ (S!Contents(seg[z]) = model[z])'
  <2>1. taken = S!Range(seg'[y].blocks) /\ own = S!Range(seg'[x].blocks)
    BY <1>5, <1>6, <1>8
  <2>2. CASE z = x
    <3>1. S!StateOK(S!State(x)', S!Range(seg'[S!Other(x)].blocks))
      BY <1>2, <1>7, <1>11, <1>21, <2>1
    <3>2. S!Contents(seg[x])' = model'[x]
      BY <1>5, <1>11, <1>21
    <3>. QED
      BY <2>2, <3>1, <3>2
  <2>3. CASE z = y
    <3>1. S!StateOK(S!State(y)', S!Range(seg'[S!Other(y)].blocks))
      BY <1>2, <1>18, <1>21, <2>1
    <3>2. S!Contents(seg[y])' = model'[y]
      BY <1>5, <1>19, <1>20, <1>21
    <3>. QED
      BY <2>3, <3>1, <3>2
  <2>. QED
    BY <1>2, <2>2, <2>3
<1>. QED
  BY <1>5, <1>22 DEF S!Inv

(* The free blocks are those of either vector.                             *)
LEMMA RoomIs ==
    ASSUME NEW x \in S!Vectors PROVE S!Room = Cardinality(S!Free(S!State(x)))
<1>1. S!State("a").owned = owned /\ S!State(x).owned = owned
  BY DEF S!State
<1>2. S!Free(S!State("a")) = S!Free(S!State(x))
  BY <1>1 DEF S!Free
<1>. QED
  BY <1>2, SegmentsSize DEF S!Room

LEMMA SegmentsInit == ASSUME S!SegmentAssumption, S!Init PROVE S!Inv
<1>1. PICK allocs \in {<<1, 1>>, <<1, 2>>} :
         seg = [x \in S!Vectors |-> [blocks |-> <<>>, size |-> 0,
                                     alloc |-> IF x = "a" THEN allocs[1] ELSE allocs[2]]]
  BY DEF S!Init
<1>2. /\ memory = [s \in S!Segments |-> S!Blank] /\ owned = [s \in S!Segments |-> S!free]
      /\ model = [x \in S!Vectors |-> <<>>]
  BY DEF S!Init
<1>3. PICK none : none = <<>>
  OBVIOUS
<1>4. none \in Seq(S!Segments) /\ none \in Seq(Elements) /\ Len(none) = 0 /\ DOMAIN none = {}
  BY <1>3
<1>5. S!Range(none) = {} /\ S!IsInjective(none)
  BY <1>4 DEF S!Range, S!IsInjective
<1>6. ASSUME NEW x \in S!Vectors
      PROVE  /\ S!StateOK(S!State(x), S!Range(seg[S!Other(x)].blocks)) /\ S!Contents(seg[x]) = model[x]
  <2>1. PICK alloc \in {1, 2} : seg[x] = [blocks |-> none, size |-> 0, alloc |-> alloc]
    BY <1>1, <1>3
  <2>2. PICK o : o = S!State(x)
    OBVIOUS
  <2>3. o = [v |-> seg[x], memory |-> memory, owned |-> owned]
    BY <2>2 DEF S!State
  <2>4. o.v = seg[x] /\ o.memory = memory /\ o.owned = owned
        /\ o = [v |-> o.v, memory |-> o.memory, owned |-> o.owned]
    BY ONLY <2>3
  <2>5. o.v.blocks = none /\ o.v.size = 0 /\ o.v.alloc = alloc
        /\ o.v = [blocks |-> o.v.blocks, size |-> o.v.size, alloc |-> o.v.alloc]
    BY ONLY <2>1, <2>4
  <2>6. S!Range(seg[S!Other(x)].blocks) = {}
    <3>1. seg[S!Other(x)].blocks = none
      BY <1>1, <1>3, Pair
    <3>. QED
      BY <1>5, <3>1
  <2>7. /\ memory = [s \in S!Segments |-> memory[s]] /\ owned \in [S!Segments -> {S!free, 1, 2}]
        /\ \A s \in S!Segments : memory[s] = S!Blank /\ owned[s] = S!free
    BY <1>2
  <2>8. S!Blank = [i \in 0 .. BlockLen - 1 |-> S!Blank[i]]
    BY DEF S!Blank, BlockLen
  <2>9. 0 \in 0 .. S!capacity(o.v)
    <3>1. PICK b \in Nat : b = BlockLen
      BY BlockLenFacts
    <3>2. S!capacity(o.v) = Len(o.v.blocks) * b
      BY <3>1 DEF S!capacity, BlockLen
    <3>3. Len(o.v.blocks) = 0
      BY <1>4, <2>5
    <3>. QED
      BY <3>1, <3>2, <3>3
  <2>10. \A s \in S!Segments : o.memory[s] = [i \in 0 .. BlockLen - 1 |-> o.memory[s][i]]
    BY <2>4, <2>7, <2>8
  <2>11. /\ o.v.blocks \in Seq(S!Segments) /\ S!IsInjective(o.v.blocks) /\ S!Range(o.v.blocks) = {}
         /\ o.v.size \in 0 .. S!capacity(o.v)
         /\ o.memory = [s \in S!Segments |-> o.memory[s]] /\ o.owned \in [S!Segments -> {S!free, 1, 2}]
         /\ \A s \in S!Segments : o.owned[s] = S!free
    BY <1>4, <1>5, <2>4, <2>5, <2>7, <2>9
  <2>12. S!StateOK(o, {})
    BY ONLY <2>4, <2>5, <2>10, <2>11, alloc \in {1, 2} DEF S!StateOK, BlockLen
  <2>13. S!Contents(seg[x]) = model[x]
    <3>1. Stored(o) = <<>>
      BY <2>5, NothingStored
    <3>2. Stored(o) = S!Contents(seg[x])
      BY <2>4 DEF Stored, StoredAt, S!Contents, S!Element
    <3>. QED
      BY <1>2, <3>1, <3>2
  <2>. QED
    BY <2>2, <2>6, <2>12, <2>13
<1>7. seg = [x \in S!Vectors |-> seg[x]]
  BY <1>1
<1>8. model \in [S!Vectors -> Seq(Elements)]
  BY <1>2, <1>3, <1>4
<1>. QED
  BY <1>6, <1>7, <1>8 DEF S!Inv

LEMMA SegmentsEmplace == ASSUME S!SegmentAssumption, S!Inv, S!EmplaceBack PROVE S!Inv'
<1>1. PICK x \in S!Vectors, e \in Elements :
         /\ seg[x].size < MaxLength /\ S!Room > 0
         /\ S!Becomes(x, S!emplace_back(S!State(x), e), Append(model[x], e))
  BY DEF S!EmplaceBack
<1>2. PICK o, taken, q : o = S!State(x) /\ taken = S!Range(seg[S!Other(x)].blocks) /\ q = model[x]
  OBVIOUS
<1>3. S!StateOK(o, taken) /\ Stored(o) = q /\ q \in Seq(Elements)
  BY <1>2, VectorFacts
<1>4. S!Free(o) # {}
  BY <1>1, <1>2, RoomIs, FreeFacts
<1>5. PICK st : st = S!emplace_back(o, e)
  OBVIOUS
<1>6. Stored(o) \in Seq(Elements)
  BY <1>3
<1>7. S!StateOK(st, taken) /\ SameFor(taken, o, st) /\ Stored(st) = Append(Stored(o), e)
  BY ONLY S!SegmentAssumption, e \in Elements, <1>3, <1>4, <1>5, <1>6, EmplaceOK
<1>8. PICK r : r = Append(q, e)
  OBVIOUS
<1>9. r \in Seq(Elements) /\ Stored(st) = r
  BY <1>3, <1>7, <1>8
<1>10. S!Becomes(x, st, r)
  BY <1>1, <1>2, <1>5, <1>8
<1>. QED
  BY <1>2, <1>7, <1>9, <1>10, BecomesInv

LEMMA SegmentsPop == ASSUME S!SegmentAssumption, S!Inv, S!PopBack PROVE S!Inv'
<1>1. PICK x \in S!Vectors :
         seg[x].size > 0 /\ S!Becomes(x, S!pop_back(S!State(x)), S!Front(model[x]))
  BY DEF S!PopBack
<1>2. PICK o, taken, q : o = S!State(x) /\ taken = S!Range(seg[S!Other(x)].blocks) /\ q = model[x]
  OBVIOUS
<1>3. /\ S!StateOK(o, taken) /\ Stored(o) = q /\ q \in Seq(Elements) /\ o.v = seg[x]
      /\ seg[x].size = Len(q)
  BY <1>2, VectorFacts
<1>4. o.v.size > 0 /\ Stored(o) \in Seq(Elements) /\ Len(q) > 0
  BY <1>1, <1>3
<1>5. PICK st : st = S!pop_back(o)
  OBVIOUS
<1>6. S!StateOK(st, taken) /\ SameFor(taken, o, st) /\ Stored(st) = S!Front(Stored(o))
  BY <1>3, <1>4, <1>5, PopOK
<1>7. PICK r : r = S!Front(q)
  OBVIOUS
<1>8. r \in Seq(Elements) /\ Stored(st) = r
  <2>1. r = SubSeq(q, 1, Len(q) - 1)
    BY <1>7 DEF S!Front
  <2>2. r \in Seq(Elements)
    BY <1>3, <1>4, <2>1
  <2>. QED
    BY <1>3, <1>6, <1>7, <2>2
<1>9. S!Becomes(x, st, r)
  BY <1>1, <1>2, <1>5, <1>7
<1>. QED
  BY <1>2, <1>6, <1>8, <1>9, BecomesInv

LEMMA SegmentsClear == ASSUME S!SegmentAssumption, S!Inv, S!ClearAll PROVE S!Inv'
<1>1. PICK x \in S!Vectors : S!Becomes(x, S!clear(S!State(x)), <<>>)
  BY DEF S!ClearAll
<1>2. PICK o, taken : o = S!State(x) /\ taken = S!Range(seg[S!Other(x)].blocks)
  OBVIOUS
<1>3. S!StateOK(o, taken)
  BY <1>2, VectorFacts
<1>4. PICK st : st = S!clear(o)
  OBVIOUS
<1>5. S!StateOK(st, taken) /\ SameFor(taken, o, st) /\ st.v.size = 0
  BY <1>3, <1>4, ClearOK
<1>6. PICK r : r = <<>>
  OBVIOUS
<1>7. r \in Seq(Elements) /\ Stored(st) = r
  BY <1>5, <1>6, NothingStored
<1>8. S!Becomes(x, st, r)
  BY <1>1, <1>2, <1>4, <1>6
<1>. QED
  BY <1>2, <1>5, <1>7, <1>8, BecomesInv

LEMMA SegmentsReserve == ASSUME S!SegmentAssumption, S!Inv, S!Reserve PROVE S!Inv'
<1>1. PICK x \in S!Vectors, c \in 1 .. MaxLength :
         /\ S!calc_num_blocks_for_capacity(c) - Len(seg[x].blocks) <= S!Room
         /\ S!Becomes(x, S!reserve(S!State(x), c), model[x])
  BY DEF S!Reserve
<1>2. PICK o, taken, q : o = S!State(x) /\ taken = S!Range(seg[S!Other(x)].blocks) /\ q = model[x]
  OBVIOUS
<1>3. S!StateOK(o, taken) /\ Stored(o) = q /\ q \in Seq(Elements) /\ o.v = seg[x]
  BY <1>2, VectorFacts
<1>4. S!calc_num_blocks_for_capacity(c) - Len(o.v.blocks) <= Cardinality(S!Free(o)) /\ c \in Nat
  BY <1>1, <1>2, <1>3, RoomIs
<1>5. PICK st : st = S!reserve(o, c)
  OBVIOUS
<1>6. S!StateOK(st, taken) /\ SameFor(taken, o, st) /\ Stored(st) = Stored(o)
  BY <1>3, <1>4, <1>5, ReserveOK
<1>7. S!Becomes(x, st, q) /\ Stored(st) = q
  BY <1>1, <1>2, <1>3, <1>5, <1>6
<1>. QED
  BY <1>2, <1>3, <1>6, <1>7, BecomesInv

LEMMA SegmentsShrink == ASSUME S!SegmentAssumption, S!Inv, S!ShrinkToFit PROVE S!Inv'
<1>1. PICK x \in S!Vectors : S!Becomes(x, S!shrink_to_fit(S!State(x)), model[x])
  BY DEF S!ShrinkToFit
<1>2. PICK o, taken, q : o = S!State(x) /\ taken = S!Range(seg[S!Other(x)].blocks) /\ q = model[x]
  OBVIOUS
<1>3. S!StateOK(o, taken) /\ Stored(o) = q /\ q \in Seq(Elements)
  BY <1>2, VectorFacts
<1>4. PICK st : st = S!shrink_to_fit(o)
  OBVIOUS
<1>5. S!StateOK(st, taken) /\ SameFor(taken, o, st) /\ Stored(st) = Stored(o)
  BY <1>3, <1>4, ShrinkOK
<1>6. S!Becomes(x, st, q) /\ Stored(st) = q
  BY <1>1, <1>2, <1>3, <1>4, <1>5
<1>. QED
  BY <1>2, <1>3, <1>5, <1>6, BecomesInv

LEMMA SegmentsCopy == ASSUME S!SegmentAssumption, S!Inv, S!CopyAssign PROVE S!Inv'
<1>1. PICK x \in S!Vectors :
         /\ S!calc_num_blocks_for_capacity(seg[S!Other(x)].size) - Len(seg[x].blocks) <= S!Room
         /\ S!Becomes(x, S!append_everything_from(S!clear(S!State(x)), seg[S!Other(x)]), model[S!Other(x)])
  BY DEF S!CopyAssign
<1>2. PICK o, y, taken, q, other, c :
         /\ o = S!State(x) /\ y = S!Other(x) /\ taken = S!Range(seg[y].blocks) /\ q = model[y]
         /\ other = seg[y] /\ c = S!clear(o)
  OBVIOUS
<1>3. /\ S!StateOK(o, taken) /\ o.v = seg[x] /\ q \in Seq(Elements) /\ other.size = Len(q)
      /\ S!Contents(other) = q
  BY <1>2, Pair, VectorFacts
<1>4. /\ S!StateOK(c, taken) /\ SameFor(taken, o, c) /\ S!Free(c) = S!Free(o)
      /\ c.v.blocks = o.v.blocks /\ c.v.size = 0
  BY <1>2, <1>3, ClearOK
<1>5. S!calc_num_blocks_for_capacity(Len(q)) - Len(c.v.blocks) <= Cardinality(S!Free(c))
  BY <1>1, <1>2, <1>3, <1>4, RoomIs
<1>6. PICK st : st = S!append_everything_from(c, other)
  OBVIOUS
<1>7. S!StateOK(st, taken) /\ SameFor(taken, c, st) /\ Stored(st) = q
  BY <1>3, <1>4, <1>5, <1>6, AppendOK
<1>8. SameFor(taken, o, st)
  BY <1>4, <1>7 DEF SameFor
<1>9. S!Becomes(x, st, q)
  BY <1>1, <1>2, <1>6
<1>. QED
  BY <1>2, <1>3, <1>7, <1>8, <1>9, BecomesInv

LEMMA SegmentsMoveElements == ASSUME S!SegmentAssumption, S!Inv, S!MoveElements PROVE S!Inv'
<1>1. PICK x \in S!Vectors, alloc \in {seg["a"].alloc, seg["b"].alloc} :
         /\ S!calc_num_blocks_for_capacity(seg[S!Other(x)].size) <= S!Cardinality(S!Free(Emptied(S!State(x))))
         /\ S!Becomes(x, S!append_everything_from([Emptied(S!State(x)) EXCEPT !.v =
                                     [blocks |-> <<>>, size |-> 0, alloc |-> alloc]], seg[S!Other(x)]),
                      model[S!Other(x)])
  BY DEF S!MoveElements, Emptied
<1>2. PICK o, y, taken, q, other, c :
         /\ o = S!State(x) /\ y = S!Other(x) /\ taken = S!Range(seg[y].blocks) /\ q = model[y]
         /\ other = seg[y] /\ c = [Emptied(o) EXCEPT !.v = [blocks |-> <<>>, size |-> 0, alloc |-> alloc]]
  OBVIOUS
<1>3. /\ S!StateOK(o, taken) /\ q \in Seq(Elements) /\ other.size = Len(q)
      /\ S!Contents(other) = q
  BY <1>2, Pair, VectorFacts
<1>4. alloc \in {1, 2}
  <2>1. \A z \in S!Vectors : seg[z].alloc \in {1, 2}
    <3>1. ASSUME NEW z \in S!Vectors PROVE seg[z].alloc \in {1, 2}
      <4>1. S!StateOK(S!State(z), S!Range(seg[S!Other(z)].blocks)) /\ S!State(z).v = seg[z]
        BY VectorFacts
      <4>2. S!State(z).v.alloc \in {1, 2}
        BY <4>1 DEF S!StateOK
      <4>. QED
        BY <4>1, <4>2
    <3>. QED
      BY <3>1
  <2>. QED
    BY <2>1, Pair
<1>5. /\ S!StateOK(c, taken) /\ SameFor(taken, o, c) /\ S!Free(c) = S!Free(Emptied(o))
      /\ c.v.size = 0 /\ c.v.blocks = <<>>
  BY <1>2, <1>3, <1>4, FreshOK
<1>6. S!calc_num_blocks_for_capacity(Len(q)) - Len(c.v.blocks) <= Cardinality(S!Free(c))
  <2>1. PICK need, room : need = S!calc_num_blocks_for_capacity(Len(q)) /\ room = Cardinality(S!Free(c))
    OBVIOUS
  <2>2. need <= room
    BY <1>1, <1>2, <1>3, <1>5, <2>1, SegmentsSize
  <2>3. need \in Nat
    BY <1>3, <2>1, BlocksEnough
  <2>4. room \in Nat /\ Len(c.v.blocks) = 0
    BY <1>5, <2>1, FreeFacts
  <2>. QED
    BY <2>1, <2>2, <2>3, <2>4
<1>7. PICK st : st = S!append_everything_from(c, other)
  OBVIOUS
<1>8. S!StateOK(st, taken) /\ SameFor(taken, c, st) /\ Stored(st) = q
  BY <1>3, <1>5, <1>6, <1>7, AppendOK
<1>9. SameFor(taken, o, st)
  BY <1>5, <1>8 DEF SameFor
<1>10. S!Becomes(x, st, q)
  BY <1>1, <1>2, <1>7
<1>. QED
  BY <1>2, <1>3, <1>8, <1>9, <1>10, BecomesInv

(* The blocks change hands: what the other vector held, this one holds.    *)
LEMMA SegmentsMoveBlocks == ASSUME S!SegmentAssumption, S!Inv, S!MoveBlocks PROVE S!Inv'
<1>1. PICK x \in S!Vectors :
         /\ seg[x].alloc = seg[S!Other(x)].alloc
         /\ seg' = [seg EXCEPT ![x] = seg[S!Other(x)], ![S!Other(x)].blocks = <<>>, ![S!Other(x)].size = 0]
         /\ memory' = Emptied(S!State(x)).memory /\ owned' = Emptied(S!State(x)).owned
         /\ model' = [model EXCEPT ![x] = model[S!Other(x)], ![S!Other(x)] = <<>>]
  BY DEF S!MoveBlocks, Emptied
<1>2. PICK y, ox, oy, taken, d, none :
         /\ y = S!Other(x) /\ ox = S!State(x) /\ oy = S!State(y) /\ taken = S!Range(seg[y].blocks)
         /\ d = Emptied(ox) /\ none = <<>>
  OBVIOUS
<1>3. y \in S!Vectors /\ y # x /\ S!Other(y) = x /\ S!Other(x) = y /\ \A z \in S!Vectors : z = x \/ z = y
  BY <1>2, Pair
<1>4. S!StateOK(ox, taken) /\ S!StateOK(oy, S!Range(seg[x].blocks))
  BY <1>2, <1>3, VectorFacts
<1>5. /\ ox.memory = memory /\ oy.v = seg[y] /\ oy.memory = memory /\ oy.owned = owned /\ ox.owned = owned
      /\ Stored(oy) = model[y] /\ model[y] \in Seq(Elements)
  BY <1>2, <1>3, VectorFacts
<1>6. /\ d = [v |-> d.v, memory |-> d.memory, owned |-> d.owned]
      /\ d.memory = [s \in S!Segments |-> d.memory[s]]
      /\ \A s \in S!Segments : d.memory[s] = [i \in 0 .. BlockLen - 1 |-> d.memory[s][i]]
      /\ d.owned \in [S!Segments -> {S!free, 1, 2}]
      /\ \A s \in S!Segments : d.owned[s] = S!free <=> s \notin taken
      /\ SameFor(taken, ox, d)
  BY <1>2, <1>4, EmptiedFacts
<1>7. PICK v : v = oy.v
  OBVIOUS
<1>8. /\ v = [blocks |-> v.blocks, size |-> v.size, alloc |-> v.alloc]
      /\ v.blocks \in Seq(S!Segments) /\ S!IsInjective(v.blocks) /\ v.size \in 0 .. S!capacity(v)
      /\ v.alloc \in {1, 2} /\ \A s \in S!Range(v.blocks) : owned[s] = v.alloc
      /\ taken = S!Range(v.blocks)
  BY <1>2, <1>4, <1>5, <1>7 DEF S!StateOK
<1>9. PICK w : w = [blocks |-> none, size |-> 0, alloc |-> v.alloc]
  OBVIOUS
<1>10. /\ seg' = [z \in S!Vectors |-> seg'[z]] /\ seg'[x] = v /\ seg'[y] = w
       /\ memory' = d.memory /\ owned' = d.owned
  <2>1. PICK t : t = [v EXCEPT !.blocks = none]
    OBVIOUS
  <2>2. t = [blocks |-> none, size |-> v.size, alloc |-> v.alloc]
    BY <1>8, <2>1, VectorUpdate
  <2>3. t.blocks = none /\ t.size = v.size /\ t.alloc = v.alloc
        /\ t = [blocks |-> t.blocks, size |-> t.size, alloc |-> t.alloc]
    BY ONLY <2>2
  <2>4. [t EXCEPT !.size = 0] = w
    BY <1>9, <2>3, VectorUpdate
  <2>5. seg = [z \in S!Vectors |-> seg[z]]
    BY DEF S!Inv
  <2>6. PICK f : f = [seg EXCEPT ![x] = v]
    OBVIOUS
  <2>7. f = [z \in S!Vectors |-> f[z]] /\ f[x] = v /\ f[y] = v
    BY <1>3, <1>5, <1>7, <2>5, <2>6
  <2>8. PICK g : g = [f EXCEPT ![y].blocks = none]
    OBVIOUS
  <2>9. g = [z \in S!Vectors |-> g[z]] /\ g[x] = v /\ g[y] = t
    BY <1>3, <2>1, <2>7, <2>8
  <2>10. seg' = [g EXCEPT ![y].size = 0]
    BY <1>1, <1>2, <1>5, <1>7, <2>6, <2>8
  <2>11. seg' = [z \in S!Vectors |-> seg'[z]] /\ seg'[x] = v /\ seg'[y] = w
    BY <1>3, <2>4, <2>9, <2>10
  <2>. QED
    BY <1>1, <1>2, <2>11
<1>11. model' \in [S!Vectors -> Seq(Elements)] /\ model'[x] = model[y] /\ model'[y] = none
  <2>1. model \in [S!Vectors -> Seq(Elements)]
    BY DEF S!Inv
  <2>2. none \in Seq(Elements)
    BY <1>2
  <2>. QED
    BY <1>1, <1>2, <1>3, <2>1, <2>2
<1>12. PICK sx, sy : /\ sx = [v |-> v, memory |-> d.memory, owned |-> d.owned]
                     /\ sy = [v |-> w, memory |-> d.memory, owned |-> d.owned]
  OBVIOUS
<1>13. /\ sx.v = v /\ sx.memory = d.memory /\ sx.owned = d.owned
       /\ sx = [v |-> sx.v, memory |-> sx.memory, owned |-> sx.owned]
       /\ sy.v = w /\ sy.memory = d.memory /\ sy.owned = d.owned
       /\ sy = [v |-> sy.v, memory |-> sy.memory, owned |-> sy.owned]
  BY ONLY <1>12
<1>14. w.blocks = none /\ w.size = 0 /\ w.alloc = v.alloc
       /\ w = [blocks |-> w.blocks, size |-> w.size, alloc |-> w.alloc]
  BY ONLY <1>9
<1>15. none \in Seq(S!Segments) /\ S!IsInjective(none) /\ S!Range(none) = {} /\ Len(none) = 0
  <2>1. none \in Seq(S!Segments) /\ Len(none) = 0 /\ DOMAIN none = {}
    BY <1>2
  <2>. QED
    BY <2>1 DEF S!IsInjective, S!Range
<1>16. taken \subseteq S!Segments /\ \A s \in taken : d.owned[s] = v.alloc /\ d.memory[s] = memory[s]
  <2>1. taken \subseteq S!Segments
    BY <1>4 DEF S!StateOK
  <2>2. ASSUME NEW s \in taken PROVE d.owned[s] = v.alloc /\ d.memory[s] = memory[s]
    <3>1. d.memory[s] = ox.memory[s] /\ d.owned[s] = ox.owned[s]
      BY <1>6 DEF SameFor
    <3>2. owned[s] = v.alloc
      BY <1>8
    <3>. QED
      BY <1>5, <3>1, <3>2
  <2>. QED
    BY <2>1, <2>2
<1>17. S!StateOK(sx, {})
  <2>1. /\ sx.v = [blocks |-> sx.v.blocks, size |-> sx.v.size, alloc |-> sx.v.alloc]
        /\ sx.v.blocks \in Seq(S!Segments) /\ S!IsInjective(sx.v.blocks)
        /\ sx.v.size \in 0 .. S!capacity(sx.v) /\ sx.v.alloc \in {1, 2}
        /\ S!Range(sx.v.blocks) = taken
    BY <1>8, <1>13
  <2>2. /\ sx.memory = [s \in S!Segments |-> sx.memory[s]]
        /\ \A s \in S!Segments : sx.memory[s] = [i \in 0 .. BlockLen - 1 |-> sx.memory[s][i]]
        /\ sx.owned \in [S!Segments -> {S!free, 1, 2}]
    BY <1>6, <1>13
  <2>3. /\ \A s \in taken : s \notin {} /\ sx.owned[s] = sx.v.alloc
        /\ \A s \in S!Segments : sx.owned[s] = S!free <=> s \notin taken \union {}
    BY <1>6, <1>13, <1>16
  <2>. QED
    BY ONLY <1>13, <2>1, <2>2, <2>3 DEF S!StateOK, BlockLen
<1>18. S!StateOK(sy, taken)
  <2>1. 0 \in 0 .. S!capacity(w)
    <3>1. PICK b \in Nat : b = BlockLen
      BY BlockLenFacts
    <3>2. S!capacity(w) = Len(w.blocks) * b
      BY <3>1 DEF S!capacity, BlockLen
    <3>3. Len(w.blocks) = 0
      BY <1>14, <1>15
    <3>. QED
      BY <3>1, <3>2, <3>3
  <2>2. /\ sy.v.blocks \in Seq(S!Segments) /\ S!IsInjective(sy.v.blocks)
        /\ S!Range(sy.v.blocks) = {} /\ sy.v.size \in 0 .. S!capacity(sy.v) /\ sy.v.alloc \in {1, 2}
        /\ sy.v = [blocks |-> sy.v.blocks, size |-> sy.v.size, alloc |-> sy.v.alloc]
    BY <1>8, <1>13, <1>14, <1>15, <2>1
  <2>. QED
    BY ONLY <1>6, <1>13, <1>16, <2>2 DEF S!StateOK, BlockLen
<1>19. Stored(sx) = Stored(oy)
  <2>1. ASSUME NEW i \in 1 .. oy.v.size PROVE StoredAt(sx, i - 1) = StoredAt(oy, i - 1)
    <3>1. i - 1 \in Nat /\ i - 1 < Len(oy.v.blocks) * BlockLen /\ oy.v.blocks \in Seq(S!Segments)
      BY <1>4, StateFacts
    <3>2. PICK k \in 1 .. Len(oy.v.blocks) : k = (i - 1) \div BlockLen + 1
      BY <3>1, Places
    <3>3. oy.v.blocks[k] \in taken
      BY <1>7, <1>8, <3>1, <3>2 DEF S!Range
    <3>. QED
      BY <1>5, <1>7, <1>13, <1>16, <3>2, <3>3 DEF StoredAt, S!block_at, BlockLen
  <2>. QED
    BY <1>7, <1>13, <2>1 DEF Stored
<1>20. Stored(sy) = none
  BY <1>2, <1>13, <1>14, NothingStored
<1>21. /\ S!State(x)' = sx /\ S!State(y)' = sy
       /\ S!Contents(seg[x])' = Stored(sx) /\ S!Contents(seg[y])' = Stored(sy)
  <2>1. S!State(x)' = sx /\ S!State(y)' = sy
    BY <1>10, <1>12 DEF S!State
  <2>2. sx.v = seg'[x] /\ sx.memory = memory' /\ sy.v = seg'[y] /\ sy.memory = memory'
    BY <1>10, <1>13
  <2>3. S!Contents(seg[x])' = Stored(sx)
    BY <2>2 DEF S!Contents, S!Element, Stored, StoredAt
  <2>4. S!Contents(seg[y])' = Stored(sy)
    BY <2>2 DEF S!Contents, S!Element, Stored, StoredAt
  <2>. QED
    BY <2>1, <2>3, <2>4
<1>22. ASSUME NEW z \in S!Vectors
       PROVE  /\ S!StateOK(S!State(z), S!Range(seg[S!Other(z)].blocks))'
              /\ (S!Contents(seg[z]) = model[z])'
  <2>1. S!Range(seg'[y].blocks) = {} /\ S!Range(seg'[x].blocks) = taken
    BY <1>8, <1>10, <1>14, <1>15
  <2>2. CASE z = x
    <3>1. S!StateOK(S!State(x)', S!Range(seg'[S!Other(x)].blocks))
      BY <1>3, <1>17, <1>21, <2>1
    <3>2. S!Contents(seg[x])' = model'[x]
      BY <1>5, <1>11, <1>19, <1>21
    <3>. QED
      BY <2>2, <3>1, <3>2
  <2>3. CASE z = y
    <3>1. S!StateOK(S!State(y)', S!Range(seg'[S!Other(y)].blocks))
      BY <1>3, <1>18, <1>21, <2>1
    <3>2. S!Contents(seg[y])' = model'[y]
      BY <1>11, <1>20, <1>21
    <3>. QED
      BY <2>3, <3>1, <3>2
  <2>. QED
    BY <1>3, <2>2, <2>3
<1>. QED
  BY <1>10, <1>11, <1>22 DEF S!Inv

LEMMA SegmentsStutter == ASSUME S!Inv, UNCHANGED S!vars PROVE S!Inv'
<1>1. seg' = seg /\ memory' = memory /\ owned' = owned /\ model' = model
  BY DEF S!vars
<1>2. seg' = [x \in S!Vectors |-> seg'[x]] /\ model' \in [S!Vectors -> Seq(Elements)]
  BY <1>1 DEF S!Inv
<1>3. ASSUME NEW x \in S!Vectors
      PROVE  /\ S!StateOK(S!State(x), S!Range(seg[S!Other(x)].blocks))'
             /\ (S!Contents(seg[x]) = model[x])'
  <2>1. S!StateOK(S!State(x), S!Range(seg[S!Other(x)].blocks)) /\ S!Contents(seg[x]) = model[x]
    BY DEF S!Inv
  <2>2. S!State(x)' = S!State(x)
    BY <1>1 DEF S!State
  <2>3. S!Contents(seg[x])' = S!Contents(seg[x])
    BY <1>1 DEF S!Contents, S!Element
  <2>4. S!StateOK(S!State(x)', S!Range(seg'[S!Other(x)].blocks))
    BY <1>1, <2>1, <2>2
  <2>. QED
    BY <1>1, <2>1, <2>3, <2>4
<1>. QED
  BY <1>2, <1>3 DEF S!Inv

(* For any elements, block length and number of blocks: the vectors stay   *)
(* as the invariant says, whatever calls are made on them.                 *)
THEOREM SegmentsInvariance == ASSUME S!SegmentAssumption PROVE S!Spec => []S!Inv
<1>1. S!Init => S!Inv
  BY SegmentsInit
<1>2. S!Inv /\ [S!Next]_S!vars => S!Inv'
  BY SegmentsEmplace, SegmentsPop, SegmentsClear, SegmentsReserve, SegmentsShrink, SegmentsCopy,
     SegmentsMoveBlocks, SegmentsMoveElements, SegmentsStutter DEF S!Next
<1>. QED
  BY <1>1, <1>2, PTL DEF S!Spec

LEMMA SegmentsImplies == ASSUME S!SegmentAssumption, S!Inv PROVE S!SegmentsExact /\ S!BlocksOwned
<1>1. S!SegmentsExact
  <2>1. ASSUME NEW x \in S!Vectors PROVE seg[x].size <= S!capacity(seg[x]) /\ S!Contents(seg[x]) = model[x]
    <3>1. S!StateOK(S!State(x), S!Range(seg[S!Other(x)].blocks)) /\ S!State(x).v = seg[x]
          /\ S!Contents(seg[x]) = model[x]
      BY VectorFacts
    <3>2. seg[x].size <= Len(seg[x].blocks) * BlockLen
      BY <3>1, StateFacts
    <3>. QED
      BY <3>1, <3>2 DEF S!capacity, BlockLen
  <2>. QED
    BY <2>1 DEF S!SegmentsExact
<1>2. ASSUME NEW s \in S!Segments
      PROVE  IF owned[s] = S!free THEN \A x \in S!Vectors : s \notin S!Range(seg[x].blocks)
             ELSE \E x \in S!Vectors : /\ s \in S!Range(seg[x].blocks) /\ seg[x].alloc = owned[s]
                                       /\ s \notin S!Range(seg[S!Other(x)].blocks)
  <2>1. ASSUME NEW x \in S!Vectors
        PROVE  /\ \A t \in S!Range(seg[x].blocks) :
                     t \notin S!Range(seg[S!Other(x)].blocks) /\ owned[t] = seg[x].alloc
               /\ owned[s] = S!free <=> s \notin S!Range(seg[x].blocks) \union S!Range(seg[S!Other(x)].blocks)
    <3>1. S!StateOK(S!State(x), S!Range(seg[S!Other(x)].blocks)) /\ S!State(x).v = seg[x]
          /\ S!State(x).owned = owned
      BY VectorFacts
    <3>. QED
      BY <3>1 DEF S!StateOK
  <2>2. CASE owned[s] = S!free
    BY <2>1, <2>2
  <2>3. CASE owned[s] # S!free
    <3>1. PICK x \in S!Vectors : s \in S!Range(seg[x].blocks)
      BY <2>1, <2>3, Pair
    <3>. QED
      BY <2>1, <2>3, <3>1
  <2>. QED
    BY <2>2, <2>3
<1>. QED
  BY <1>1, <1>2 DEF S!BlocksOwned

(* For any elements, block length and number of blocks: indexing and       *)
(* iteration return what the user put in, and each block taken belongs to  *)
(* one vector, that gives it back to the allocator it came from.           *)
THEOREM SegmentsSoundHolds ==
    ASSUME S!SegmentAssumption PROVE S!Spec => []SegmentsSound
<1>1. S!Inv => SegmentsSound
  BY SegmentsImplies DEF SegmentsSound
<1>. QED
  BY <1>1, SegmentsInvariance, PTL

=============================================================================
