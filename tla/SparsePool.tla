------------------------------ MODULE SparsePool ------------------------------
(***************************************************************************)
(* kb::SparsePool and kb::SecureSparsePool (source/kibble/util): a pool of *)
(* integer handles.  The first size_ elements of dense are the handles in  *)
(* use, the others those that are free.  The secure pool counts in guard   *)
(* how often an integer was released and puts the count into the top       *)
(* GUARD_BITS bits of the handle.                                          *)
(*                                                                         *)
(* A handle is the pair of its two bit fields: its base integer, and its   *)
(* guard modulo 2^GUARD_BITS (the shift pushes the higher bits out).       *)
(***************************************************************************)
EXTENDS Integers, FiniteSets

CONSTANTS
    Size,       \* SIZE
    TMax,       \* the largest T
    Guards      \* 2^GUARD_BITS

VARIABLES
    secure,        \* SecureSparsePool rather than SparsePool
    asserting,     \* built with K_ENABLE_ASSERT: a failed assertion ends the program
    dense, sparse, guard,
    size,          \* size_
    held,          \* the handles the client holds
    stale          \* history: the handles released since the last clear() or overflow of their guard

vars == <<secure, asserting, dense, sparse, guard, size, held, stale>>

Indices == 0 .. Size - 1
T       == 0 .. TMax
Handle  == [base : Indices, guard : 0 .. Guards - 1]

(* A T has room for the two bit fields.                                    *)
PoolAssumption ==
    /\ Size \in Nat \ {0} /\ TMax \in Nat /\ Size <= TMax + 1
    /\ Guards \in 1 .. TMax + 1

(* The constructor calls clear(); sparse stays uninitialized.              *)
Init ==
    /\ secure \in BOOLEAN
    /\ asserting \in BOOLEAN
    /\ dense = [i \in Indices |-> i]
    /\ sparse \in [Indices -> T]
    /\ guard = [i \in Indices |-> 0]
    /\ size = 0
    /\ held = {}
    /\ stale = {}

(* guard[] is a whole T and is compared unreduced with the bits of a       *)
(* handle.                                                                 *)
(* Mutant: the guard is not compared.                                      *)
IsValidUnguarded(h) == sparse[h.base] < size /\ dense[sparse[h.base]] = h.base
IsValid(h) ==
    /\ sparse[h.base] < size
    /\ dense[sparse[h.base]] = h.base
    /\ secure => h.guard = guard[h.base]

(* Client code stays within the arrays; the assertion stops it one handle  *)
(* earlier.                                                                *)
Acquire ==
    /\ IF asserting THEN size + 1 < Size ELSE size < Size
    /\ LET base == dense[size]
           h    == [base |-> base, guard |-> guard[base] % Guards]
       IN  /\ sparse' = [sparse EXCEPT ![base] = size]
           /\ held' = held \union {h}
    /\ size' = size + 1
    /\ UNCHANGED <<secure, asserting, dense, guard, stale>>

(* ++guard: once it overflows, the handles released so far may come again. *)
CountRelease(h) ==
    /\ guard' = [guard EXCEPT ![h.base] = IF secure THEN (@ + 1) % (TMax + 1) ELSE @]
    /\ held' = held \ {h}
    /\ stale' = IF secure /\ guard[h.base] = TMax THEN {g \in stale : g.base # h.base}
                ELSE stale \union {h}

(* The client releases what it holds.  Only a build with assertions looks  *)
(* whether it is valid.  It changes places with the last handle in use.    *)
(* Mutants: the two places are not exchanged; only one of them is written. *)
ReleaseInPlace(h) ==
    /\ h \in held
    /\ asserting => IsValid(h)
    /\ size' = size - 1
    /\ CountRelease(h)
    /\ UNCHANGED <<secure, asserting, dense, sparse>>

ReleaseOneWay(h) ==
    /\ h \in held
    /\ asserting => IsValid(h)
    /\ sparse' = [sparse EXCEPT ![dense[size - 1]] = sparse[h.base]]
    /\ dense' = [dense EXCEPT ![sparse[h.base]] = dense[size - 1]]
    /\ size' = size - 1
    /\ CountRelease(h)
    /\ UNCHANGED <<secure, asserting>>

Release(h) ==
    /\ h \in held
    /\ asserting => IsValid(h)
    /\ LET index == sparse[h.base]
           temp  == dense[size - 1]
       IN  /\ sparse' = [sparse EXCEPT ![temp] = index]
           /\ dense' = [[dense EXCEPT ![size - 1] = h.base] EXCEPT ![index] = temp]
    /\ size' = size - 1
    /\ CountRelease(h)
    /\ UNCHANGED <<secure, asserting>>

(* clear() forgets how often the integers were recycled.                   *)
Clear ==
    /\ size' = 0
    /\ dense' = [i \in Indices |-> i]
    /\ guard' = [i \in Indices |-> 0]
    /\ held' = {}
    /\ stale' = {}
    /\ UNCHANGED <<secure, asserting, sparse>>

Next == Acquire \/ (\E h \in Handle : Release(h)) \/ Clear

Spec == Init /\ [][Next]_vars

-----------------------------------------------------------------------------
(* Properties.                                                             *)

(* The arrays keep their types; dense is a permutation of the integers, so *)
(* that none is lost or handed out twice.                                  *)
TypeOK ==
    /\ secure \in BOOLEAN /\ asserting \in BOOLEAN
    /\ dense \in [Indices -> Indices]
    /\ \A i, j \in Indices : dense[i] = dense[j] => i = j
    /\ sparse \in [Indices -> T]
    /\ guard \in [Indices -> T]
    /\ size \in 0 .. Size
    /\ held \subseteq Handle /\ stale \subseteq Handle

(* Integers produced by the pool are unique: no two handles in use have    *)
(* the same base, and there are size() of them.                            *)
HandlesUnique ==
    /\ \A g, h \in held : g.base = h.base => g = h
    /\ Cardinality(held) = size

(* is_valid() accepts what the client of a plain pool holds.  In the       *)
(* secure pool it accepts exactly the handles whose integer was released   *)
(* less than 2^GUARD_BITS times: after that, and until the whole T         *)
(* overflows, none of that integer's handles is ever valid.                *)
HeldIsValid == \A h \in held : IsValid(h) <=> (secure => guard[h.base] < Guards)

(* is_valid() rejects a base that nobody holds, whatever sparse contains.  *)
ValidIsHeld == \A h \in Handle : IsValid(h) => \E g \in held : g.base = h.base

(* A released handle is not accepted again before clear() (sparse_set.h:545,*)
(* "an old handle that has been released will never compare to a recycled  *)
(* handle [...] at least until the counter overflows").                    *)
StaleIsInvalid == secure => \A h \in stale : ~IsValid(h)

(* The handles of the pools: no integer is handed out twice, is_valid()    *)
(* accepts the handles that are held, as long as their guard fits, and     *)
(* rejects the others over arrays nobody initialized; the secure pool      *)
(* rejects those that were released.                                       *)
HandlesSound == HandlesUnique /\ HeldIsValid /\ ValidIsHeld /\ StaleIsInvalid

-----------------------------------------------------------------------------
(* The inductive invariant: the first size_ places of dense are linked     *)
(* back by sparse and carry the handles in use with their present guards,  *)
(* and a released handle has a guard of the past.                          *)
Issued(i) == [base |-> dense[i], guard |-> guard[dense[i]] % Guards]
Linked == \A i \in 0 .. size - 1 : sparse[dense[i]] = i
Inv ==
    /\ TypeOK
    /\ ~secure => \A b \in Indices : guard[b] = 0
    /\ Linked
    /\ held = {Issued(i) : i \in 0 .. size - 1}
    /\ secure => \A h \in stale : h.guard < guard[h.base]
=============================================================================
