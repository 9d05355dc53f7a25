------------------------------- MODULE BusProofs -------------------------------
(***************************************************************************)
(* Proofs about EventBus, for any number of event types, handlers,         *)
(* priorities and events.                                                  *)
(***************************************************************************)
EXTENDS EventBus, FiniteSetTheorems, TLAPS

Delegate == [handler : Handlers, priority : Priorities]

-----------------------------------------------------------------------------
(* Sequences.                                                              *)

LEMMA InSeq == ASSUME NEW T, NEW q \in Seq(T), NEW k \in DOMAIN q PROVE q[k] \in T
OBVIOUS

LEMMA AppendIn == ASSUME NEW T, NEW q \in Seq(T), NEW x \in T PROVE Append(q, x) \in Seq(T)
OBVIOUS

LEMMA SeqDomain == ASSUME NEW T, NEW q \in Seq(T), NEW k \in DOMAIN q PROVE k \in Nat
OBVIOUS

LEMMA ConcatFacts ==
    ASSUME NEW T, NEW l \in Seq(T), NEW u \in Seq(T)
    PROVE  l \o u \in Seq(T) /\ Len(l \o u) = Len(l) + Len(u)
OBVIOUS

(* What a sequence is after its n-th element was erased.                   *)
LEMMA RemoveAtFacts ==
    ASSUME NEW T, NEW q \in Seq(T), NEW n \in DOMAIN q
    PROVE  /\ RemoveAt(q, n) \in Seq(T)
           /\ \A i \in DOMAIN RemoveAt(q, n) : \E j \in DOMAIN q :
                 j # n /\ RemoveAt(q, n)[i] = q[j] /\ j = IF i < n THEN i ELSE i + 1
           /\ \A j \in DOMAIN q : j # n => \E i \in DOMAIN RemoveAt(q, n) : RemoveAt(q, n)[i] = q[j]
<1>. DEFINE l == SubSeq(q, 1, n - 1)
            u == SubSeq(q, n + 1, Len(q))
<1>0. n \in 1 .. Len(q) /\ Len(q) \in Nat /\ DOMAIN q = 1 .. Len(q)
  OBVIOUS
<1>1. l \in Seq(T) /\ Len(l) = n - 1 /\ \A i \in 1 .. n - 1 : l[i] = q[i]
  BY <1>0
<1>2. u \in Seq(T) /\ Len(u) = Len(q) - n /\ \A i \in 1 .. Len(q) - n : u[i] = q[n + i]
  BY <1>0
<1>3. RemoveAt(q, n) = l \o u
  BY DEF RemoveAt
<1>. HIDE DEF l, u
<1>. DEFINE p == l \o u
<1>4. p \in Seq(T) /\ Len(p) = Len(q) - 1 /\ DOMAIN p = 1 .. Len(q) - 1
  <2>1. p \in Seq(T) /\ Len(p) = Len(l) + Len(u)
    BY <1>1, <1>2, ConcatFacts
  <2>2. Len(p) = Len(q) - 1
    BY <1>0, <1>1, <1>2, <2>1
  <2>. HIDE DEF p
  <2>3. DOMAIN p = 1 .. Len(p)
    BY <2>1
  <2>. QED
    BY <2>1, <2>2, <2>3
<1>5. \A i \in 1 .. Len(q) - 1 : p[i] = IF i < n THEN q[i] ELSE q[i + 1]
  <2>. SUFFICES ASSUME NEW i \in 1 .. Len(q) - 1 PROVE p[i] = IF i < n THEN q[i] ELSE q[i + 1]
    OBVIOUS
  <2>1. CASE i < n
    <3>1. p[i] = l[i]
      BY <1>0, <1>1, <1>2, <2>1
    <3>. QED
      BY <1>0, <1>1, <2>1, <3>1
  <2>2. CASE ~(i < n)
    <3>1. p[i] = u[i - (n - 1)]
      BY <1>0, <1>1, <1>2, <2>2
    <3>2. i - (n - 1) \in 1 .. Len(q) - n /\ n + (i - (n - 1)) = i + 1
      BY <1>0, <2>2
    <3>. QED
      BY <1>2, <2>2, <3>1, <3>2
  <2>. QED
    BY <2>1, <2>2
<1>. HIDE DEF p
<1>6. \A i \in DOMAIN p : \E j \in DOMAIN q : j # n /\ p[i] = q[j] /\ j = IF i < n THEN i ELSE i + 1
  BY <1>0, <1>4, <1>5
<1>7. ASSUME NEW j \in DOMAIN q, j # n PROVE \E i \in DOMAIN p : p[i] = q[j]
  <2>1. CASE j < n
    BY <1>0, <1>4, <1>5, <2>1
  <2>2. CASE j > n
    <3>1. j - 1 \in DOMAIN p /\ p[j - 1] = q[j]
      BY <1>0, <1>4, <1>5, <2>2
    <3>. QED
      BY <3>1
  <2>. QED
    BY <1>0, <1>7, <2>1, <2>2
<1>. QED
  BY <1>3, <1>4, <1>6, <1>7 DEF p

(* What a sequence is with an element inserted behind the first k.         *)
IsInserted(p, T, q, k, d) ==
    /\ p \in Seq(T) /\ DOMAIN p = 1 .. Len(q) + 1
    /\ \A i \in 1 .. Len(q) + 1 :
          p[i] = IF i <= k THEN q[i] ELSE IF i = k + 1 THEN d ELSE q[i - 1]

LEMMA InsertAtFacts ==
    ASSUME NEW T, NEW q \in Seq(T), NEW d \in T, NEW k \in 0 .. Len(q)
    PROVE  IsInserted(InsertAt(q, k + 1, d), T, q, k, d)
<1>. DEFINE l == SubSeq(q, 1, k)
            u == SubSeq(q, k + 1, Len(q))
            h == l \o <<d>>
            p == h \o u
<1>0. k \in Nat /\ Len(q) \in Nat /\ k <= Len(q) /\ (k + 1) - 1 = k /\ DOMAIN q = 1 .. Len(q)
  OBVIOUS
<1>1. l \in Seq(T) /\ Len(l) = k /\ \A i \in 1 .. k : l[i] = q[i]
  BY <1>0
<1>2. u \in Seq(T) /\ Len(u) = Len(q) - k /\ \A i \in 1 .. Len(q) - k : u[i] = q[k + i]
  <2>1. CASE k = 0
    <3>1. u = SubSeq(q, 1, Len(q))
      BY <2>1
    <3>2. SubSeq(q, 1, Len(q)) = q
      OBVIOUS
    <3>. HIDE DEF u
    <3>. QED
      BY <1>0, <2>1, <3>1, <3>2
  <2>2. CASE k # 0
    <3>1. k \in 1 .. Len(q)
      BY <1>0, <2>2
    <3>. QED
      BY <1>0, <3>1
  <2>. QED
    BY <2>1, <2>2
<1>3. InsertAt(q, k + 1, d) = p
  BY <1>0 DEF InsertAt
<1>. HIDE DEF l, u
<1>4. /\ h \in Seq(T) /\ Len(h) = k + 1 /\ h[k + 1] = d
      /\ \A i \in 1 .. k : h[i] = q[i]
  BY <1>0, <1>1
<1>. HIDE DEF h
<1>5. p \in Seq(T) /\ Len(p) = Len(q) + 1
  <2>1. p \in Seq(T) /\ Len(p) = Len(h) + Len(u)
    BY <1>2, <1>4, ConcatFacts
  <2>. HIDE DEF p
  <2>. QED
    BY <1>0, <1>2, <1>4, <2>1
<1>6. DOMAIN p = 1 .. Len(q) + 1
  <2>. HIDE DEF p
  <2>. QED
    BY <1>5
<1>7. ASSUME NEW i \in 1 .. Len(q) + 1
      PROVE  p[i] = IF i <= k THEN q[i] ELSE IF i = k + 1 THEN d ELSE q[i - 1]
  <2>1. CASE i <= k + 1
    <3>1. p[i] = h[i]
      BY <1>0, <1>2, <1>4, <2>1
    <3>. QED
      BY <1>0, <1>4, <2>1, <3>1
  <2>2. CASE i > k + 1
    <3>1. p[i] = u[i - Len(h)]
      BY <1>0, <1>2, <1>4, <2>2
    <3>2. i - (k + 1) \in 1 .. Len(q) - k /\ k + (i - (k + 1)) = i - 1
      BY <1>0, <2>2
    <3>3. u[i - (k + 1)] = q[i - 1]
      BY <1>2, <3>2
    <3>. QED
      BY <1>0, <1>4, <2>2, <3>1, <3>3
  <2>. HIDE DEF p
  <2>. QED
    BY <1>0, <2>1, <2>2
<1>. HIDE DEF p
<1>. QED
  BY <1>3, <1>5, <1>6, <1>7 DEF IsInserted

-----------------------------------------------------------------------------
(* The lists of delegates.                                                 *)

(* subscribe() puts a handler that is not in the list behind all of its    *)
(* priority: the list stays sorted.                                        *)
LEMMA InsertSorted ==
    ASSUME Priorities \subseteq Nat,
           NEW s \in Seq(Delegate), NEW r \in Seq(Handlers), Each(s, r), Sorted(s, r),
           NEW d \in Delegate, \A i \in DOMAIN s : s[i].handler # d.handler,
           NEW k \in Behind(s, d)
    PROVE  Each(InsertAt(s, k + 1, d), Append(r, d.handler)) /\ Sorted(InsertAt(s, k + 1, d), Append(r, d.handler))
<1>. DEFINE p == InsertAt(s, k + 1, d)
            n == Append(r, d.handler)
            Old(i) == IF i <= k THEN i ELSE i - 1
<1>0. /\ k \in 0 .. Len(s) /\ Len(s) \in Nat /\ DOMAIN s = 1 .. Len(s)
      /\ \A i \in 1 .. k : s[i].priority <= d.priority
      /\ \A i \in k + 1 .. Len(s) : s[i].priority > d.priority
      /\ Len(r) \in Nat /\ DOMAIN r = 1 .. Len(r)
  BY DEF Behind
<1>1. /\ p \in Seq(Delegate) /\ DOMAIN p = 1 .. Len(s) + 1
      /\ \A i \in 1 .. Len(s) + 1 :
            p[i] = IF i <= k THEN s[i] ELSE IF i = k + 1 THEN d ELSE s[i - 1]
  <2>1. k \in 0 .. Len(s) /\ s \in Seq(Delegate) /\ d \in Delegate
    BY <1>0
  <2>2. IsInserted(p, Delegate, s, k, d)
    BY ONLY <2>1, InsertAtFacts
  <2>. HIDE DEF p
  <2>. QED
    BY <2>2 DEF IsInserted
<1>2. /\ DOMAIN n = 1 .. Len(r) + 1 /\ n[Len(r) + 1] = d.handler
      /\ \A a \in 1 .. Len(r) : n[a] = r[a]
  BY <1>0 DEF Delegate
<1>. HIDE DEF p, n
<1>3. ASSUME NEW i \in DOMAIN p, i # k + 1
      PROVE  Old(i) \in DOMAIN s /\ p[i] = s[Old(i)]
  BY <1>0, <1>1, <1>3
<1>4. p[k + 1] = d /\ k + 1 \in DOMAIN p
  BY <1>0, <1>1
<1>5. \A a \in DOMAIN r : r[a] # d.handler
  BY DEF Each
<1>6. ASSUME NEW i \in DOMAIN s PROVE \E j \in DOMAIN p : j # k + 1 /\ p[j] = s[i]
  <2>1. CASE i <= k
    BY <1>0, <1>1, <2>1
  <2>2. CASE i > k
    <3>1. i + 1 \in DOMAIN p /\ i + 1 # k + 1 /\ p[i + 1] = s[i]
      BY <1>0, <1>1, <2>2
    <3>. QED
      BY <3>1
  <2>. QED
    BY <1>0, <2>1, <2>2
<1>7. Each(p, n)
  <2>1. ASSUME NEW i \in DOMAIN p, NEW j \in DOMAIN p, p[i].handler = p[j].handler PROVE i = j
    <3>1. CASE i = k + 1 \/ j = k + 1
      BY <1>3, <1>4, <2>1, <3>1
    <3>2. CASE i # k + 1 /\ j # k + 1
      <4>1. Old(i) = Old(j)
        BY <1>3, <2>1, <3>2 DEF Each
      <4>. QED
        BY <1>0, <1>1, <3>2, <4>1
    <3>. QED
      BY <3>1, <3>2
  <2>2. ASSUME NEW a \in DOMAIN n, NEW b \in DOMAIN n, n[a] = n[b] PROVE a = b
    <3>1. CASE a \in DOMAIN r /\ b \in DOMAIN r
      BY <1>0, <1>2, <2>2, <3>1 DEF Each
    <3>2. CASE a = Len(r) + 1 \/ b = Len(r) + 1
      BY <1>0, <1>2, <1>5, <2>2, <3>2
    <3>. QED
      BY <1>0, <1>2, <3>1, <3>2
  <2>3. ASSUME NEW i \in DOMAIN p PROVE \E a \in DOMAIN n : n[a] = p[i].handler
    <3>1. CASE i = k + 1
      <4>1. Len(r) + 1 \in DOMAIN n
        BY <1>0, <1>2
      <4>. QED
        BY <1>2, <1>4, <3>1, <4>1
    <3>2. CASE i # k + 1
      <4>1. PICK a \in DOMAIN r : r[a] = s[Old(i)].handler
        BY <1>3, <3>2 DEF Each
      <4>2. a \in DOMAIN n /\ n[a] = r[a]
        BY <1>0, <1>2, <4>1
      <4>. QED
        BY <1>3, <3>2, <4>1, <4>2
    <3>. QED
      BY <3>1, <3>2
  <2>4. ASSUME NEW a \in DOMAIN n PROVE \E i \in DOMAIN p : n[a] = p[i].handler
    <3>1. CASE a = Len(r) + 1
      BY <1>2, <1>4, <3>1
    <3>2. CASE a \in DOMAIN r
      <4>1. PICK i \in DOMAIN s : r[a] = s[i].handler
        BY <3>2 DEF Each
      <4>. QED
        BY <1>0, <1>2, <1>6, <3>2, <4>1
    <3>. QED
      BY <1>0, <1>2, <3>1, <3>2
  <2>. QED
    BY <2>1, <2>2, <2>3, <2>4 DEF Each
<1>8. Sorted(p, n)
  <2>. SUFFICES ASSUME NEW i \in DOMAIN p, NEW j \in DOMAIN p, i < j,
                       ~(p[i].priority < p[j].priority)
                PROVE  /\ p[i].priority = p[j].priority
                       /\ \A a, b \in DOMAIN n : n[a] = p[i].handler /\ n[b] = p[j].handler => a < b
    BY DEF Sorted
  <2>0. ASSUME NEW m \in DOMAIN p PROVE p[m].priority \in Nat
    <3>1. p[m] \in Delegate
      BY <1>1, InSeq
    <3>. QED
      BY <3>1 DEF Delegate
  <2>1. CASE i # k + 1 /\ j # k + 1
    <3>1. Old(i) < Old(j)
      BY <1>0, <1>1, <2>1
    <3>2. /\ s[Old(i)].priority = s[Old(j)].priority
          /\ \A a, b \in DOMAIN r : r[a] = s[Old(i)].handler /\ r[b] = s[Old(j)].handler => a < b
      BY <1>3, <2>1, <3>1 DEF Sorted
    <3>3. ASSUME NEW a \in DOMAIN n, NEW b \in DOMAIN n, n[a] = p[i].handler, n[b] = p[j].handler
          PROVE  a < b
      <4>1. a # Len(r) + 1 /\ b # Len(r) + 1
        BY <1>2, <1>3, <2>1, <3>3
      <4>2. a \in DOMAIN r /\ b \in DOMAIN r
        BY <1>0, <1>2, <4>1
      <4>. QED
        BY <1>0, <1>2, <1>3, <2>1, <3>2, <3>3, <4>2
    <3>. QED
      BY <1>3, <2>1, <3>2, <3>3
  <2>2. CASE i = k + 1
    <3>1. j # k + 1 /\ Old(j) \in k + 1 .. Len(s)
      BY <1>0, <1>1, <2>2
    <3>2. p[j].priority > p[i].priority
      BY <1>0, <1>3, <1>4, <2>2, <3>1
    <3>. QED
      BY <2>0, <3>2
  <2>3. CASE j = k + 1
    <3>1. i # k + 1 /\ Old(i) \in 1 .. k
      BY <1>0, <1>1, <2>3
    <3>2. p[i].priority <= p[j].priority
      BY <1>0, <1>3, <1>4, <2>3, <3>1
    <3>3. ASSUME NEW a \in DOMAIN n, NEW b \in DOMAIN n, n[a] = p[i].handler, n[b] = p[j].handler
          PROVE  a < b
      <4>1. a # Len(r) + 1
        BY <1>2, <1>3, <3>1, <3>3
      <4>2. b = Len(r) + 1
        BY <1>0, <1>2, <1>4, <1>5, <2>3, <3>3
      <4>. QED
        BY <1>0, <1>2, <4>1, <4>2
    <3>. QED
      BY <2>0, <3>2, <3>3
  <2>. QED
    BY <2>1, <2>2, <2>3
<1>. QED
  BY <1>7, <1>8 DEF p, n

(* unsubscribe() erases a handler and its registration.                    *)
LEMMA RemoveSorted ==
    ASSUME NEW s \in Seq(Delegate), NEW r \in Seq(Handlers), Each(s, r), Sorted(s, r),
           NEW m \in DOMAIN s, NEW c \in DOMAIN r, r[c] = s[m].handler
    PROVE  Each(RemoveAt(s, m), RemoveAt(r, c)) /\ Sorted(RemoveAt(s, m), RemoveAt(r, c))
<1>. DEFINE p == RemoveAt(s, m)
            n == RemoveAt(r, c)
<1>0. \A i \in DOMAIN s : i \in Nat
  BY SeqDomain
<1>00. \A i \in DOMAIN r : i \in Nat
  BY SeqDomain
<1>1. /\ p \in Seq(Delegate)
      /\ \A i \in DOMAIN p : \E j \in DOMAIN s :
            j # m /\ p[i] = s[j] /\ j = IF i < m THEN i ELSE i + 1
      /\ \A j \in DOMAIN s : j # m => \E i \in DOMAIN p : p[i] = s[j]
  BY RemoveAtFacts
<1>2. /\ n \in Seq(Handlers)
      /\ \A i \in DOMAIN n : \E j \in DOMAIN r :
            j # c /\ n[i] = r[j] /\ j = IF i < c THEN i ELSE i + 1
      /\ \A j \in DOMAIN r : j # c => \E i \in DOMAIN n : n[i] = r[j]
  BY RemoveAtFacts
<1>. HIDE DEF p, n
<1>3. \A i \in DOMAIN p : i \in Nat
  BY <1>1, SeqDomain
<1>4. \A i \in DOMAIN n : i \in Nat
  BY <1>2, SeqDomain
<1>5. ASSUME NEW i \in DOMAIN p, NEW j \in DOMAIN p, p[i].handler = p[j].handler PROVE i = j
  <2>1. PICK x \in DOMAIN s : x # m /\ p[i] = s[x] /\ x = IF i < m THEN i ELSE i + 1
    BY <1>1
  <2>2. PICK y \in DOMAIN s : y # m /\ p[j] = s[y] /\ y = IF j < m THEN j ELSE j + 1
    BY <1>1
  <2>3. x = y
    <3>1. s[x].handler = s[y].handler
      BY <1>5, <2>1, <2>2
    <3>2. \A a, b \in DOMAIN s : s[a].handler = s[b].handler => a = b
      BY DEF Each
    <3>. QED
      BY ONLY <2>1, <2>2, <3>1, <3>2
  <2>. QED
    BY <1>0, <1>3, <2>1, <2>2, <2>3
<1>6. ASSUME NEW a \in DOMAIN n, NEW b \in DOMAIN n, n[a] = n[b] PROVE a = b
  <2>1. PICK x \in DOMAIN r : x # c /\ n[a] = r[x] /\ x = IF a < c THEN a ELSE a + 1
    BY <1>2
  <2>2. PICK y \in DOMAIN r : y # c /\ n[b] = r[y] /\ y = IF b < c THEN b ELSE b + 1
    BY <1>2
  <2>3. x = y
    BY <1>6, <2>1, <2>2 DEF Each
  <2>. QED
    BY <1>00, <1>4, <2>1, <2>2, <2>3
<1>7. ASSUME NEW i \in DOMAIN p PROVE \E a \in DOMAIN n : n[a] = p[i].handler
  <2>1. PICK x \in DOMAIN s : x # m /\ p[i] = s[x]
    BY <1>1
  <2>2. PICK a \in DOMAIN r : r[a] = s[x].handler
    BY DEF Each
  <2>3. a # c
    <3>1. s[x].handler = s[m].handler => x = m
      BY DEF Each
    <3>. QED
      BY <2>1, <2>2, <3>1
  <2>. QED
    BY <1>2, <2>1, <2>2, <2>3
<1>8. ASSUME NEW a \in DOMAIN n PROVE \E i \in DOMAIN p : n[a] = p[i].handler
  <2>1. PICK x \in DOMAIN r : x # c /\ n[a] = r[x]
    BY <1>2
  <2>2. PICK i \in DOMAIN s : r[x] = s[i].handler
    BY DEF Each
  <2>3. i # m
    BY <2>1, <2>2 DEF Each
  <2>. QED
    BY <1>1, <2>1, <2>2, <2>3
<1>9. Sorted(p, n)
  <2>. SUFFICES ASSUME NEW i \in DOMAIN p, NEW j \in DOMAIN p, i < j,
                       ~(p[i].priority < p[j].priority)
                PROVE  /\ p[i].priority = p[j].priority
                       /\ \A a, b \in DOMAIN n : n[a] = p[i].handler /\ n[b] = p[j].handler => a < b
    BY DEF Sorted
  <2>1. PICK x \in DOMAIN s : x # m /\ p[i] = s[x] /\ x = IF i < m THEN i ELSE i + 1
    BY <1>1
  <2>2. PICK y \in DOMAIN s : y # m /\ p[j] = s[y] /\ y = IF j < m THEN j ELSE j + 1
    BY <1>1
  <2>3. x < y
    BY <1>0, <1>3, <2>1, <2>2
  <2>4. /\ s[x].priority = s[y].priority
        /\ \A a, b \in DOMAIN r : r[a] = s[x].handler /\ r[b] = s[y].handler => a < b
    BY <2>1, <2>2, <2>3 DEF Sorted
  <2>5. ASSUME NEW a \in DOMAIN n, NEW b \in DOMAIN n, n[a] = p[i].handler, n[b] = p[j].handler
        PROVE  a < b
    <3>1. PICK e \in DOMAIN r : e # c /\ n[a] = r[e] /\ e = IF a < c THEN a ELSE a + 1
      BY <1>2
    <3>2. PICK f \in DOMAIN r : f # c /\ n[b] = r[f] /\ f = IF b < c THEN b ELSE b + 1
      BY <1>2
    <3>3. e < f
      BY <2>1, <2>2, <2>4, <2>5, <3>1, <3>2
    <3>. QED
      BY <1>00, <1>4, <3>1, <3>2, <3>3
  <2>. QED
    BY <2>1, <2>2, <2>4, <2>5
<1>. QED
  BY <1>5, <1>6, <1>7, <1>8, <1>9 DEF Each, p, n

LEMMA AppendFacts ==
    ASSUME NEW T, NEW q \in Seq(T), NEW x \in T
    PROVE  /\ Append(q, x) \in Seq(T) /\ Append(q, x) # <<>>
           /\ \A i \in DOMAIN q : i \in DOMAIN Append(q, x) /\ Append(q, x)[i] = q[i]
           /\ \E i \in DOMAIN Append(q, x) : Append(q, x)[i] = x
<1>1. /\ Append(q, x) \in Seq(T) /\ Len(Append(q, x)) = Len(q) + 1 /\ Len(q) \in Nat
      /\ DOMAIN Append(q, x) = 1 .. Len(q) + 1 /\ DOMAIN q = 1 .. Len(q)
      /\ Append(q, x)[Len(q) + 1] = x
      /\ \A i \in DOMAIN q : Append(q, x)[i] = q[i]
  OBVIOUS
<1>2. Append(q, x) # <<>>
  BY <1>1
<1>. DEFINE p == Append(q, x)
<1>. HIDE DEF p
<1>3. Len(q) + 1 \in DOMAIN p /\ \A i \in DOMAIN q : i \in DOMAIN p
  BY <1>1 DEF p
<1>. QED
  BY <1>1, <1>2, <1>3 DEF p

LEMMA TailFacts ==
    ASSUME NEW T, NEW q \in Seq(T), q # <<>>
    PROVE  /\ Tail(q) \in Seq(T)
           /\ \A i \in DOMAIN q : q[i] = Head(q) \/ \E j \in DOMAIN Tail(q) : Tail(q)[j] = q[i]
<1>1. /\ Tail(q) \in Seq(T) /\ DOMAIN Tail(q) = 1 .. Len(q) - 1 /\ DOMAIN q = 1 .. Len(q)
      /\ Len(q) \in Nat /\ Head(q) = q[1]
      /\ \A j \in 1 .. Len(q) - 1 : Tail(q)[j] = q[j + 1]
  OBVIOUS
<1>2. ASSUME NEW i \in DOMAIN q, q[i] # Head(q) PROVE \E j \in DOMAIN Tail(q) : Tail(q)[j] = q[i]
  <2>1. i - 1 \in 1 .. Len(q) - 1 /\ (i - 1) + 1 = i
    BY <1>1, <1>2
  <2>2. Tail(q)[i - 1] = q[i]
    BY <1>1, <2>1
  <2>. QED
    BY <1>1, <2>1, <2>2
<1>. QED
  BY <1>1, <1>2

(* Sorting in any way gives a list of delegates.                           *)
LEMMA SortType ==
    ASSUME NEW s \in Seq(Delegate), NEW d \in Delegate, NEW q \in Sort(s, d)
    PROVE  q \in Seq(Delegate)
<1>1. CASE Len(s) < StableSize
  <2>1. PICK k \in Behind(s, d) : q = InsertAt(s, k + 1, d)
    BY <1>1 DEF Sort
  <2>2. k \in 0 .. Len(s)
    BY DEF Behind
  <2>. QED
    BY <2>1, <2>2, InsertAtFacts DEF IsInserted
<1>2. CASE ~(Len(s) < StableSize)
  <2>. DEFINE A == ToSet(s)
              B == A \union {d}
  <2>1. q \in [1 .. Cardinality(B) -> B]
    BY <1>2 DEF Sort, SetToSeqs
  <2>2. B \subseteq Delegate
    BY InSeq DEF ToSet
  <2>3. IsFiniteSet(A)
    <3>. DEFINE f == [i \in DOMAIN s |-> s[i]]
    <3>1. IsFiniteSet(DOMAIN s)
      <4>1. DOMAIN s = 1 .. Len(s) /\ Len(s) \in Nat
        OBVIOUS
      <4>. QED
        BY <4>1, FS_Interval
    <3>2. f \in Surjection(DOMAIN s, A)
      BY DEF ToSet, Surjection
    <3>. HIDE DEF f, A
    <3>. QED
      BY <3>1, <3>2, FS_Surjection
  <2>. HIDE DEF A
  <2>4. IsFiniteSet(B)
    BY <2>3, FS_AddElement
  <2>. HIDE DEF B
  <2>5. Cardinality(B) \in Nat
    BY <2>4, FS_CardinalityType
  <2>6. PICK n \in Nat : n = Cardinality(B)
    BY <2>5
  <2>7. q \in [1 .. n -> Delegate]
    BY <2>1, <2>2, <2>6
  <2>. QED
    BY <2>7
<1>. QED
  BY <1>1, <1>2

-----------------------------------------------------------------------------
(* The inductive invariant, for one action after the other.                *)

LEMMA BusInit == Init => Inv
<1>. SUFFICES ASSUME Init PROVE Inv
  OBVIOUS
<1>1. delegates \in [EventTypes -> Seq(Delegate)] /\ queue \in [EventTypes -> Seq(1 .. MaxEvents)]
  BY DEF Init
<1>2. TypeOK
  <2>1. 1 \in EventTypes /\ 0 \in 0 .. MaxEvents
    BY BusAssumption DEF EventTypes
  <2>2. entry \in [EventTypes -> Entry] /\ \A ty \in EventTypes : delegates[ty] = <<>> /\ queue[ty] = <<>>
    BY DEF Init, Entry
  <2>. QED
    BY <1>1, <2>1, <2>2 DEF Init, TypeOK, Delegate, PC
<1>. QED
  BY <1>2 DEF Inv, Init, Walk, OwedQueued

LEMMA TypeFacts ==
    ASSUME Inv
    PROVE  /\ entry \in [EventTypes -> Entry]
           /\ delegates \in [EventTypes -> Seq(Delegate)]
           /\ queue \in [EventTypes -> Seq(1 .. MaxEvents)]
           /\ at \in EventTypes
           /\ at \in Nat
<1>1. at \in EventTypes /\ entry \in [EventTypes -> Entry] /\ queue \in [EventTypes -> Seq(1 .. MaxEvents)]
  BY DEF Inv, TypeOK
<1>2. delegates \in [EventTypes -> Seq(Delegate)]
  BY DEF Inv, TypeOK, Delegate
<1>3. at \in Nat
  BY <1>1, BusAssumption DEF EventTypes
<1>. QED
  BY <1>1, <1>2, <1>3

LEMMA SubscribeInv ==
    ASSUME Inv, NEW ty \in EventTypes, NEW h \in Handlers, NEW p \in Priorities, Subscribe(ty, h, p)
    PROVE  Inv'
<1>. DEFINE d == [handler |-> h, priority |-> p]
<1>1. /\ entry' = [entry EXCEPT ![ty] = "queue"]
      /\ UNCHANGED <<queue, callVars, events, owed>>
      /\ pc \in {"deliver", "handler"} => delegates'[at] = delegates[at]
      /\ pc # "deliver"
  BY TypeFacts DEF Subscribe, Free, callVars
<1>2. delegates' \in [EventTypes -> Seq(Delegate)]
  <2>1. CASE h \in HandlersOf(ty)
    BY <2>1, TypeFacts DEF Subscribe
  <2>2. CASE h \notin HandlersOf(ty)
    <3>1. PICK s \in Sort(delegates[ty], d) : delegates' = [delegates EXCEPT ![ty] = s]
      BY <2>2 DEF Subscribe
    <3>2. d \in Delegate /\ delegates[ty] \in Seq(Delegate)
      BY TypeFacts DEF Delegate
    <3>. HIDE DEF d
    <3>3. s \in Seq(Delegate)
      BY <3>2, SortType
    <3>. QED
      BY <3>1, <3>3, TypeFacts
  <2>. QED
    BY <2>1, <2>2
<1>3. \A u \in EventTypes : u # ty => delegates'[u] = delegates[u]
  BY TypeFacts DEF Subscribe
<1>4. TypeOK'
  <2>1. entry' \in [EventTypes -> Entry] /\ entry'[ty] = "queue"
        /\ \A u \in EventTypes : u # ty => entry'[u] = entry[u]
    BY <1>1, TypeFacts DEF Entry
  <2>2. \A u \in EventTypes : entry'[u] # "queue" => delegates'[u] = <<>> /\ queue'[u] = <<>>
    BY <1>1, <1>3, <2>1 DEF Inv, TypeOK
  <2>3. pc = "handler" => it \in DOMAIN delegates'[at]
    BY <1>1 DEF Inv, TypeOK
  <2>. QED
    BY <1>1, <1>2, <2>1, <2>2, <2>3 DEF Inv, TypeOK, callVars, Delegate
<1>. QED
  BY <1>1, <1>4 DEF Inv, Walk, OwedQueued, callVars

LEMMA UnsubscribeInv ==
    ASSUME Inv, NEW ty \in EventTypes, NEW h \in Handlers, Unsubscribe(ty, h)
    PROVE  Inv'
<1>1. /\ entry' = [entry EXCEPT ![ty] = "queue"]
      /\ UNCHANGED <<queue, callVars, events, owed>>
      /\ pc \in {"deliver", "handler"} => delegates'[at] = delegates[at]
      /\ pc # "deliver"
  BY TypeFacts DEF Unsubscribe, Free, callVars
<1>2. delegates' \in [EventTypes -> Seq(Delegate)]
  <2>1. CASE h \in HandlersOf(ty)
    <3>1. PICK i \in DOMAIN delegates[ty] : delegates' = [delegates EXCEPT ![ty] = RemoveAt(@, i)]
      BY <2>1 DEF Unsubscribe
    <3>2. RemoveAt(delegates[ty], i) \in Seq(Delegate)
      BY TypeFacts, RemoveAtFacts
    <3>. QED
      BY <3>1, <3>2, TypeFacts
  <2>2. CASE h \notin HandlersOf(ty)
    BY <2>2, TypeFacts DEF Unsubscribe
  <2>. QED
    BY <2>1, <2>2
<1>3. \A u \in EventTypes : u # ty => delegates'[u] = delegates[u]
  BY TypeFacts DEF Unsubscribe
<1>4. TypeOK'
  <2>1. entry' \in [EventTypes -> Entry] /\ entry'[ty] = "queue"
        /\ \A u \in EventTypes : u # ty => entry'[u] = entry[u]
    BY <1>1, TypeFacts DEF Entry
  <2>2. \A u \in EventTypes : entry'[u] # "queue" => delegates'[u] = <<>> /\ queue'[u] = <<>>
    BY <1>1, <1>3, <2>1 DEF Inv, TypeOK
  <2>3. pc = "handler" => it \in DOMAIN delegates'[at]
    BY <1>1 DEF Inv, TypeOK
  <2>. QED
    BY <1>1, <1>2, <2>1, <2>2, <2>3 DEF Inv, TypeOK, callVars, Delegate
<1>. QED
  BY <1>1, <1>4 DEF Inv, Walk, OwedQueued, callVars

LEMMA CrashInv == ASSUME Inv, Crash PROVE Inv'
BY DEF Inv, Crash, TypeOK, Walk, OwedQueued, busVars, PC

LEMMA EnqueueInv ==
    ASSUME Inv, NEW ty \in EventTypes, Enqueue(ty)
    PROVE  Inv'
<1>1. CASE entry[ty] = "null"
  BY <1>1, CrashInv DEF Enqueue
<1>2. CASE entry[ty] # "null"
  <2>1. /\ events' = events + 1 /\ queue' = [queue EXCEPT ![ty] = Append(@, events')]
        /\ owed' = owed \union {events'} /\ UNCHANGED <<entry, delegates, regs, callVars>>
        /\ pc \in {"client", "handler"} /\ entry[ty] = "queue"
    BY <1>2, TypeFacts DEF Enqueue, Reentrant, Entry
  <2>2. events' \in 1 .. MaxEvents /\ events \in Nat /\ owed' \subseteq 1 .. events'
    BY <2>1, BusAssumption DEF Inv, TypeOK, Enqueue
  <2>3. queue[ty] \in Seq(1 .. MaxEvents)
    BY TypeFacts
  <2>4. /\ Append(queue[ty], events') \in Seq(1 .. MaxEvents) /\ Append(queue[ty], events') # <<>>
        /\ \A i \in DOMAIN queue[ty] :
              i \in DOMAIN Append(queue[ty], events') /\ Append(queue[ty], events')[i] = queue[ty][i]
        /\ \E i \in DOMAIN Append(queue[ty], events') : Append(queue[ty], events')[i] = events'
    <3>1. PICK e \in 1 .. MaxEvents : e = events'
      BY <2>2
    <3>2. /\ Append(queue[ty], e) \in Seq(1 .. MaxEvents) /\ Append(queue[ty], e) # <<>>
          /\ \A i \in DOMAIN queue[ty] :
                i \in DOMAIN Append(queue[ty], e) /\ Append(queue[ty], e)[i] = queue[ty][i]
          /\ \E i \in DOMAIN Append(queue[ty], e) : Append(queue[ty], e)[i] = e
      <4>. DEFINE T == 1 .. MaxEvents
                  q == queue[ty]
      <4>1. q \in Seq(T) /\ e \in T
        BY <2>3
      <4>. HIDE DEF T, q
      <4>2. /\ Append(q, e) \in Seq(T) /\ Append(q, e) # <<>>
            /\ \A i \in DOMAIN q : i \in DOMAIN Append(q, e) /\ Append(q, e)[i] = q[i]
            /\ \E i \in DOMAIN Append(q, e) : Append(q, e)[i] = e
        BY <4>1, AppendFacts
      <4>. QED
        BY <4>2 DEF T, q
    <3>. QED
      BY <3>1, <3>2
  <2>5. queue'[ty] = Append(queue[ty], events') /\ queue' \in [EventTypes -> Seq(1 .. MaxEvents)]
        /\ \A u \in EventTypes : u # ty => queue'[u] = queue[u]
    BY <2>1, <2>4, TypeFacts
  <2>6. TypeOK'
    <3>1. \A u \in EventTypes : entry[u] # "queue" => delegates[u] = <<>> /\ queue'[u] = <<>>
      BY <2>1, <2>5 DEF Inv, TypeOK
    <3>2. events' \in 0 .. MaxEvents
      BY <2>2
    <3>. QED
      BY <2>1, <2>2, <2>5, <3>1, <3>2 DEF Inv, TypeOK, callVars
  <2>7. Walk'
    BY <2>1 DEF Inv, Walk, callVars
  <2>8. ASSUME NEW e \in owed'
        PROVE  \E u \in EventTypes : \E i \in DOMAIN queue'[u] : queue'[u][i] = e
    <3>1. CASE e = events'
      BY <2>4, <2>5, <3>1
    <3>2. CASE e \in owed
      <4>1. PICK u \in EventTypes : \E i \in DOMAIN queue[u] : queue[u][i] = e
        BY <3>2 DEF Inv, OwedQueued
      <4>. QED
        BY <2>4, <2>5, <4>1
    <3>. QED
      BY <2>1, <2>8, <3>1, <3>2
  <2>9. pc' \in {"deliver", "handler"} /\ ~firing' => queue'[at'] # <<>>
    BY <2>1, <2>4, <2>5 DEF Inv, OwedQueued, callVars, TypeOK
  <2>. QED
    BY <2>1, <2>6, <2>7, <2>8, <2>9 DEF Inv, OwedQueued, callVars
<1>. QED
  BY <1>1, <1>2

LEMMA DropInv ==
    ASSUME Inv, NEW ty \in EventTypes, Drop(ty)
    PROVE  Inv'
<1>1. CASE entry[ty] = "null"
  BY <1>1, CrashInv DEF Drop
<1>2. CASE entry[ty] # "null"
  <2>1. /\ queue' = [queue EXCEPT ![ty] = <<>>] /\ owed' = owed \ ToSet(queue[ty])
        /\ UNCHANGED <<entry, delegates, regs, callVars, events>>
        /\ pc = "client" \/ (pc = "handler" /\ ty # at)
    BY <1>2 DEF Drop, Free
  <2>2. queue' \in [EventTypes -> Seq(1 .. MaxEvents)] /\ queue'[ty] = <<>>
        /\ \A u \in EventTypes : u # ty => queue'[u] = queue[u]
    BY <2>1, TypeFacts
  <2>3. TypeOK'
    BY <2>1, <2>2 DEF Inv, TypeOK, callVars
  <2>4. Walk'
    BY <2>1 DEF Inv, Walk, callVars
  <2>5. ASSUME NEW e \in owed'
        PROVE  \E u \in EventTypes : \E i \in DOMAIN queue'[u] : queue'[u][i] = e
    <3>1. PICK u \in EventTypes : \E i \in DOMAIN queue[u] : queue[u][i] = e
      BY <2>1 DEF Inv, OwedQueued
    <3>2. u # ty
      BY <2>1, <3>1 DEF ToSet
    <3>. QED
      BY <2>2, <3>1, <3>2
  <2>. QED
    BY <2>1, <2>2, <2>3, <2>4, <2>5, TypeFacts DEF Inv, OwedQueued, callVars
<1>. QED
  BY <1>1, <1>2

LEMMA DropAllInv ==
    ASSUME Inv, DropAll
    PROVE  Inv'
<1>1. CASE \E ty \in EventTypes : entry[ty] = "null"
  BY <1>1, CrashInv DEF DropAll
<1>2. CASE ~ \E ty \in EventTypes : entry[ty] = "null"
  <2>1. /\ queue' = [ty \in EventTypes |-> <<>>] /\ owed' = {} /\ pc = "client"
        /\ UNCHANGED <<entry, delegates, regs, callVars, events>>
    BY <1>2 DEF DropAll
  <2>2. queue' \in [EventTypes -> Seq(1 .. MaxEvents)] /\ \A u \in EventTypes : queue'[u] = <<>>
    BY <2>1
  <2>3. TypeOK'
    BY <2>1, <2>2 DEF Inv, TypeOK, callVars
  <2>. QED
    BY <2>1, <2>3 DEF Inv, Walk, OwedQueued, callVars
<1>. QED
  BY <1>1, <1>2

LEMMA HasQueueInv ==
    ASSUME Inv, NEW ty \in EventTypes, HasQueue(ty)
    PROVE  Inv'
<1>1. /\ entry' = [entry EXCEPT ![ty] = IF @ = "absent" THEN "null" ELSE @]
      /\ UNCHANGED <<delegates, queue, regs, callVars, events, owed>>
  BY DEF HasQueue
<1>2. /\ entry' \in [EventTypes -> Entry]
      /\ \A u \in EventTypes : entry[u] = "queue" => entry'[u] = "queue"
  BY <1>1, TypeFacts DEF Entry
<1>3. TypeOK'
  BY <1>1, <1>2 DEF Inv, TypeOK, callVars
<1>. QED
  BY <1>1, <1>3 DEF Inv, Walk, OwedQueued, callVars

(* The iterator starts at the last delegate, with nobody called.           *)
LEMMA FireInv ==
    ASSUME Inv, NEW ty \in EventTypes, Fire(ty)
    PROVE  Inv'
<1>1. CASE entry[ty] = "null"
  BY <1>1, CrashInv DEF Fire
<1>2. CASE entry[ty] # "null"
  <2>1. /\ events' = events + 1 /\ at' = ty /\ it' = Len(delegates[ty]) /\ firing' = TRUE
        /\ called' = {} /\ pc' = "deliver" /\ UNCHANGED <<busVars, owed>>
        /\ events < MaxEvents /\ pc = "client"
    BY <1>2 DEF Fire
  <2>2. Len(delegates[ty]) \in Nat
    BY TypeFacts
  <2>3. TypeOK'
    <3>1. events' \in 0 .. MaxEvents /\ owed' \subseteq 1 .. events'
      BY <2>1, BusAssumption DEF Inv, TypeOK, busVars
    <3>2. it' \in Nat /\ it' \in 0 .. Len(delegates'[at'])
      BY <2>1, <2>2 DEF busVars
    <3>. QED
      BY <2>1, <3>1, <3>2 DEF Inv, TypeOK, busVars, PC
  <2>4. Walk'
    <3>1. it' + 1 .. Len(delegates'[at']) = {}
      BY <2>1, <2>2 DEF busVars
    <3>. QED
      BY <2>1, <3>1 DEF Walk
  <2>. QED
    BY <2>1, <2>3, <2>4 DEF Inv, OwedQueued, busVars
<1>. QED
  BY <1>1, <1>2

LEMMA BeginDispatchInv ==
    ASSUME Inv, BeginDispatch
    PROVE  Inv'
<1>1. 1 \in EventTypes
  BY BusAssumption DEF EventTypes
<1>. QED
  BY <1>1 DEF Inv, BeginDispatch, TypeOK, Walk, OwedQueued, busVars, PC

LEMMA DispatchLoopInv ==
    ASSUME Inv, DispatchLoop
    PROVE  Inv'
<1>1. 1 \in EventTypes
  BY BusAssumption DEF EventTypes
<1>2. CASE NullInFront
  BY <1>2, CrashInv DEF DispatchLoop
<1>3. CASE ~NullInFront
  <2>1. /\ pc' \in {"client", "process"} /\ at' \in {1, at} /\ pc = "empty"
        /\ UNCHANGED <<busVars, it, firing, called, events, owed>>
    BY <1>3 DEF DispatchLoop
  <2>2. TypeOK'
    BY <1>1, <2>1 DEF Inv, TypeOK, busVars, PC
  <2>. QED
    BY <2>1, <2>2 DEF Inv, Walk, OwedQueued, busVars
<1>. QED
  BY <1>2, <1>3

LEMMA ProcessInv ==
    ASSUME Inv, Process
    PROVE  Inv'
<1>1. CASE entry[at] = "null"
  <2>1. queue[at] = <<>> /\ pc = "process"
    BY <1>1, TypeFacts DEF Inv, TypeOK, Process
  <2>2. Crash
    BY <1>1, <2>1 DEF Process
  <2>. QED
    BY <2>2, CrashInv
<1>2. CASE entry[at] # "null" /\ queue[at] # <<>>
  <2>1. /\ it' = Len(delegates[at]) /\ called' = {} /\ pc' = "deliver"
        /\ UNCHANGED <<busVars, at, firing, events, owed>>
    BY <1>2 DEF Process
  <2>2. Len(delegates[at]) \in Nat
    BY TypeFacts
  <2>3. it' \in Nat /\ it' \in 0 .. Len(delegates'[at'])
    BY <2>1, <2>2 DEF busVars
  <2>4. TypeOK'
    BY <2>1, <2>3 DEF Inv, TypeOK, busVars, PC
  <2>5. Walk'
    <3>1. it' + 1 .. Len(delegates'[at']) = {}
      BY <2>1, <2>2 DEF busVars
    <3>. QED
      BY <2>1, <3>1 DEF Walk
  <2>. QED
    BY <1>2, <2>1, <2>4, <2>5 DEF Inv, OwedQueued, busVars
<1>3. CASE entry[at] # "null" /\ queue[at] = <<>>
  <2>1. /\ \/ pc' = "empty" /\ at' = at
           \/ at # TypeCount /\ at' = at + 1 /\ pc' = pc /\ pc = "process"
        /\ UNCHANGED <<busVars, it, firing, called, events, owed>>
    BY <1>3 DEF Process
  <2>2. at' \in EventTypes
    BY <2>1, TypeFacts, BusAssumption DEF EventTypes
  <2>. QED
    BY <2>1, <2>2 DEF Inv, TypeOK, Walk, OwedQueued, busVars, PC
<1>. QED
  BY <1>1, <1>2, <1>3

(* Whatever ends the walk over the delegates.                              *)
LEMMA DeliveredInv ==
    ASSUME Inv, Delivered, pc \in {"deliver", "handler"}, UNCHANGED <<busVars, at, it, events, called>>
    PROVE  Inv'
<1>1. /\ pc' = IF firing THEN "client" ELSE "pop"
      /\ firing' = FALSE /\ owed' = IF firing THEN owed ELSE owed \ {Head(queue[at])}
  BY DEF Delivered
<1>2. TypeOK'
  BY <1>1 DEF Inv, TypeOK, busVars, PC
<1>3. Walk'
  BY <1>1 DEF Walk
<1>4. OwedQueued'
  BY <1>1 DEF Inv, OwedQueued, busVars
<1>. QED
  BY <1>2, <1>3, <1>4 DEF Inv

LEMMA DeliverInv ==
    ASSUME Inv, Deliver
    PROVE  Inv'
<1>1. CASE AtEnd
  BY <1>1, DeliveredInv DEF Deliver
<1>2. CASE ~AtEnd
  <2>1. /\ pc' = "handler" /\ called' = called \union {delegates[at][it].handler}
        /\ UNCHANGED <<firing, owed, busVars, at, it, events>> /\ pc = "deliver"
    BY <1>2 DEF Deliver
  <2>2. it \in 1 .. Len(delegates[at]) /\ DOMAIN delegates[at] = 1 .. Len(delegates[at])
        /\ Len(delegates[at]) \in Nat
    BY <1>2, <2>1, TypeFacts DEF Inv, TypeOK, AtEnd
  <2>3. delegates[at][it] \in Delegate
    BY <2>2, TypeFacts, InSeq
  <2>4. TypeOK'
    BY <2>1, <2>2, <2>3 DEF Inv, TypeOK, busVars, PC, Delegate
  <2>5. Walk'
    <3>1. it .. Len(delegates[at]) = {it} \union (it + 1 .. Len(delegates[at]))
      BY <2>2
    <3>2. called = {delegates[at][i].handler : i \in it + 1 .. Len(delegates[at])}
      BY <2>1 DEF Inv, Walk
    <3>3. called' = {delegates[at][i].handler : i \in it .. Len(delegates[at])}
      BY <2>1, <3>1, <3>2
    <3>. QED
      BY <2>1, <3>3 DEF Walk, busVars
  <2>. QED
    BY <2>1, <2>4, <2>5 DEF Inv, OwedQueued, busVars
<1>. QED
  BY <1>1, <1>2

LEMMA HandlerReturnsInv ==
    ASSUME Inv, NEW c \in BOOLEAN, HandlerReturns(c)
    PROVE  Inv'
<1>1. CASE c
  BY <1>1, DeliveredInv DEF HandlerReturns
<1>2. CASE ~c
  <2>1. /\ pc' = "deliver" /\ it' = it - 1 /\ pc = "handler"
        /\ UNCHANGED <<firing, owed, busVars, at, called, events>>
    BY <1>2 DEF HandlerReturns
  <2>2. it \in 1 .. Len(delegates[at]) /\ Len(delegates[at]) \in Nat
    BY <2>1, TypeFacts DEF Inv, TypeOK
  <2>3. it' \in Nat /\ it' \in 0 .. Len(delegates[at]) /\ it' + 1 = it
    BY <2>1, <2>2
  <2>4. TypeOK'
    BY <2>1, <2>3 DEF Inv, TypeOK, busVars, PC
  <2>. QED
    BY <2>1, <2>3, <2>4 DEF Inv, OwedQueued, Walk, busVars
<1>. QED
  BY <1>1, <1>2

LEMMA PopInv ==
    ASSUME Inv, Pop
    PROVE  Inv'
<1>1. /\ pc = "pop" /\ queue' = [queue EXCEPT ![at] = Tail(@)] /\ pc' \in {"process", "client"}
      /\ UNCHANGED <<entry, delegates, regs, at, it, firing, called, events, owed>>
  BY DEF Pop
<1>2. queue[at] # <<>> /\ Head(queue[at]) \notin owed /\ queue[at] \in Seq(1 .. MaxEvents)
  BY <1>1, TypeFacts DEF Inv, OwedQueued
<1>3. /\ Tail(queue[at]) \in Seq(1 .. MaxEvents)
      /\ \A i \in DOMAIN queue[at] :
            queue[at][i] = Head(queue[at]) \/ \E j \in DOMAIN Tail(queue[at]) : Tail(queue[at])[j] = queue[at][i]
  BY <1>2, TailFacts
<1>4. queue'[at] = Tail(queue[at]) /\ queue' \in [EventTypes -> Seq(1 .. MaxEvents)]
      /\ \A u \in EventTypes : u # at => queue'[u] = queue[u]
  BY <1>1, <1>3, TypeFacts
<1>5. entry[at] = "queue"
  BY <1>2, TypeFacts DEF Inv, TypeOK
<1>6. TypeOK'
  BY <1>1, <1>4, <1>5 DEF Inv, TypeOK, PC
<1>7. ASSUME NEW e \in owed PROVE \E u \in EventTypes : \E i \in DOMAIN queue'[u] : queue'[u][i] = e
  <2>1. PICK u \in EventTypes : \E i \in DOMAIN queue[u] : queue[u][i] = e
    BY DEF Inv, OwedQueued
  <2>2. CASE u = at
    BY <1>2, <1>3, <1>4, <2>1, <2>2
  <2>3. CASE u # at
    BY <1>4, <2>1, <2>3
  <2>. QED
    BY <2>2, <2>3
<1>. QED
  BY <1>1, <1>6, <1>7 DEF Inv, Walk, OwedQueued

LEMMA BusStep == Inv /\ [Next]_vars => Inv'
<1>. SUFFICES ASSUME Inv, [Next]_vars PROVE Inv'
  OBVIOUS
<1>1. CASE UNCHANGED vars
  <2>1. UNCHANGED <<entry, delegates, queue, regs, pc, at, it, firing, called, events, owed>>
    BY <1>1 DEF vars, busVars, callVars
  <2>2. TypeOK'
    BY <2>1 DEF Inv, TypeOK
  <2>. QED
    BY <2>1, <2>2 DEF Inv, Walk, OwedQueued
<1>2. ASSUME NEW ty \in EventTypes, Enqueue(ty) \/ Drop(ty) \/ HasQueue(ty) \/ Fire(ty) PROVE Inv'
  BY <1>2, EnqueueInv, DropInv, HasQueueInv, FireInv
<1>3. ASSUME NEW ty \in EventTypes, NEW h \in Handlers,
             Unsubscribe(ty, h) \/ \E p \in Priorities : Subscribe(ty, h, p)
      PROVE  Inv'
  BY <1>3, UnsubscribeInv, SubscribeInv
<1>4. CASE DropAll \/ BeginDispatch
  BY <1>4, DropAllInv, BeginDispatchInv
<1>5. CASE Step
  BY <1>5, DispatchLoopInv, ProcessInv, DeliverInv, HandlerReturnsInv, PopInv DEF Step
<1>. QED
  BY <1>1, <1>2, <1>3, <1>4, <1>5 DEF Next

(* For any number of event types, handlers and events and whatever the     *)
(* handlers do: the variables keep their types, the iterator stays inside  *)
(* the list of delegates, and only types with a queue have delegates.      *)
THEOREM BusTypeCorrect == Spec => []TypeOK
<1>1. Inv => TypeOK
  BY DEF Inv
<1>. QED
  BY <1>1, BusInit, BusStep, PTL DEF Spec

(* For any number of event types, handlers and events: when dispatch()     *)
(* says that all events were processed, every event has been shown to its  *)
(* handlers, also those that handlers enqueued meanwhile.                  *)
THEOREM DispatchesAllHolds == Spec => DispatchesAll
<1>1. Inv /\ [Next]_vars => [(pc = "empty" /\ pc' = "client") => owed = {}]_vars
  <2>. SUFFICES ASSUME Inv, Next, pc = "empty", pc' = "client" PROVE owed = {}
    OBVIOUS
  <2>1. DispatchLoop
    BY DEF Next, Step, Enqueue, Drop, HasQueue, Fire, Unsubscribe, Subscribe, DropAll, BeginDispatch,
           Process, Deliver, HandlerReturns, Pop, Free, Reentrant
  <2>2. AllEmpty
    BY <2>1 DEF DispatchLoop, Crash
  <2>3. \A e \in owed : \E ty \in EventTypes : \E i \in DOMAIN queue[ty] : queue[ty][i] = e
    BY DEF Inv, OwedQueued
  <2>4. \A ty \in EventTypes : DOMAIN queue[ty] = {}
    BY <2>2 DEF AllEmpty
  <2>. QED
    BY <2>3, <2>4
<1>. QED
  BY <1>1, BusInit, BusStep, PTL DEF Spec, DispatchesAll

-----------------------------------------------------------------------------
(* The order of the handlers.                                              *)

(* A list without h is short enough to be sorted stably.                   *)
LEMMA ShortList ==
    ASSUME FewHandlers, NEW s \in Seq(Delegate), NEW r, Each(s, r),
           NEW h \in Handlers, \A i \in DOMAIN s : s[i].handler # h
    PROVE  Len(s) < StableSize
<1>. DEFINE D == DOMAIN s
            H == Handlers \ {h}
            f == [i \in D |-> s[i].handler]
<1>1. D = 1 .. Len(s) /\ Len(s) \in Nat
  OBVIOUS
<1>2. IsFiniteSet(D) /\ Cardinality(D) = Len(s)
  <2>1. PICK n \in Nat : n = Len(s)
    BY <1>1
  <2>2. IsFiniteSet(1 .. n) /\ Cardinality(1 .. n) = n
    BY FS_Interval
  <2>. HIDE DEF D
  <2>. QED
    BY <1>1, <2>1, <2>2
<1>3. IsFiniteSet(H) /\ Cardinality(H) = Cardinality(Handlers) - 1
  BY FS_RemoveElement DEF FewHandlers
<1>4. Cardinality(Handlers) \in Nat /\ Cardinality(Handlers) <= StableSize /\ StableSize \in Nat
  BY FS_CardinalityType, BusAssumption DEF FewHandlers
<1>5. f \in [D -> H]
  <2>1. ASSUME NEW i \in D PROVE s[i].handler \in H
    <3>1. s[i] \in Delegate
      BY InSeq
    <3>. QED
      BY <3>1 DEF Delegate
  <2>. QED
    BY <2>1
<1>6. \A i, j \in D : f[i] = f[j] => i = j
  BY DEF Each
<1>. HIDE DEF D, H, f
<1>7. ~(Cardinality(H) < Cardinality(D))
  BY <1>2, <1>3, <1>5, <1>6, FS_PigeonHole
<1>. QED
  BY <1>1, <1>2, <1>3, <1>4, <1>7

RegsOK == regs \in [EventTypes -> Seq(Handlers)]

LEMMA ListsInit == Init => Lists /\ RegsOK
BY DEF Init, Lists, RegsOK, Each, Sorted

LEMMA SubscribeLists ==
    ASSUME FewHandlers, Inv, Lists, RegsOK,
           NEW ty \in EventTypes, NEW h \in Handlers, NEW p \in Priorities, Subscribe(ty, h, p)
    PROVE  (Lists /\ RegsOK)'
<1>. DEFINE d == [handler |-> h, priority |-> p]
<1>1. CASE h \in HandlersOf(ty)
  BY <1>1 DEF Subscribe, Lists, RegsOK
<1>2. CASE h \notin HandlersOf(ty)
  <2>0. \A i \in DOMAIN delegates[ty] : delegates[ty][i].handler # h
    BY <1>2 DEF HandlersOf
  <2>1. /\ delegates[ty] \in Seq(Delegate) /\ regs[ty] \in Seq(Handlers) /\ d \in Delegate
        /\ Each(delegates[ty], regs[ty]) /\ Sorted(delegates[ty], regs[ty])
    BY TypeFacts DEF Delegate, Lists, RegsOK
  <2>2. Len(delegates[ty]) < StableSize
    BY <2>0, <2>1, ShortList
  <2>3. PICK k \in Behind(delegates[ty], d) : delegates' = [delegates EXCEPT ![ty] = InsertAt(delegates[ty], k + 1, d)]
    BY <1>2, <2>2 DEF Subscribe, Sort
  <2>4. regs' = [regs EXCEPT ![ty] = Append(regs[ty], h)]
    BY <1>2 DEF Subscribe
  <2>5. /\ Each(InsertAt(delegates[ty], k + 1, d), Append(regs[ty], h))
        /\ Sorted(InsertAt(delegates[ty], k + 1, d), Append(regs[ty], h))
    <3>1. d.handler = h /\ Priorities \subseteq Nat
      BY BusAssumption
    <3>. HIDE DEF d
    <3>2. \A i \in DOMAIN delegates[ty] : delegates[ty][i].handler # d.handler
      BY <2>0, <3>1
    <3>3. /\ Each(InsertAt(delegates[ty], k + 1, d), Append(regs[ty], d.handler))
          /\ Sorted(InsertAt(delegates[ty], k + 1, d), Append(regs[ty], d.handler))
      BY <2>1, <3>1, <3>2, InsertSorted
    <3>. QED
      BY <3>1, <3>3
  <2>6. Append(regs[ty], h) \in Seq(Handlers)
    BY <2>1, AppendIn
  <2>. HIDE DEF d
  <2>7. RegsOK'
    BY <2>4, <2>6 DEF RegsOK
  <2>8. ASSUME NEW u \in EventTypes PROVE Each(delegates'[u], regs'[u]) /\ Sorted(delegates'[u], regs'[u])
    <3>1. CASE u = ty
      <4>1. delegates'[u] = InsertAt(delegates[ty], k + 1, d) /\ regs'[u] = Append(regs[ty], h)
        BY <2>3, <2>4, <3>1, TypeFacts DEF RegsOK
      <4>. QED
        BY <2>5, <4>1
    <3>2. CASE u # ty
      <4>1. delegates'[u] = delegates[u] /\ regs'[u] = regs[u]
        BY <2>3, <2>4, <3>2, TypeFacts DEF RegsOK
      <4>. QED
        BY <4>1 DEF Lists
    <3>. QED
      BY <3>1, <3>2
  <2>. QED
    BY <2>7, <2>8 DEF Lists
<1>. QED
  BY <1>1, <1>2

LEMMA UnsubscribeLists ==
    ASSUME Inv, Lists, RegsOK, NEW ty \in EventTypes, NEW h \in Handlers, Unsubscribe(ty, h)
    PROVE  (Lists /\ RegsOK)'
<1>1. CASE h \notin HandlersOf(ty)
  BY <1>1 DEF Unsubscribe, Lists, RegsOK
<1>2. CASE h \in HandlersOf(ty)
  <2>1. /\ delegates[ty] \in Seq(Delegate) /\ regs[ty] \in Seq(Handlers)
        /\ Each(delegates[ty], regs[ty]) /\ Sorted(delegates[ty], regs[ty])
    BY TypeFacts DEF Lists, RegsOK
  <2>2. PICK m \in DOMAIN delegates[ty] :
           delegates[ty][m].handler = h /\ delegates' = [delegates EXCEPT ![ty] = RemoveAt(delegates[ty], m)]
    BY <1>2 DEF Unsubscribe
  <2>3. PICK c \in DOMAIN regs[ty] :
           regs[ty][c] = h /\ regs' = [regs EXCEPT ![ty] = RemoveAt(regs[ty], c)]
    BY <1>2 DEF Unsubscribe
  <2>4. /\ Each(RemoveAt(delegates[ty], m), RemoveAt(regs[ty], c))
        /\ Sorted(RemoveAt(delegates[ty], m), RemoveAt(regs[ty], c))
    BY <2>1, <2>2, <2>3, RemoveSorted
  <2>5. RemoveAt(regs[ty], c) \in Seq(Handlers)
    BY <2>1, RemoveAtFacts
  <2>6. RegsOK'
    BY <2>3, <2>5 DEF RegsOK
  <2>7. ASSUME NEW u \in EventTypes PROVE Each(delegates'[u], regs'[u]) /\ Sorted(delegates'[u], regs'[u])
    <3>1. CASE u = ty
      <4>1. delegates'[u] = RemoveAt(delegates[ty], m) /\ regs'[u] = RemoveAt(regs[ty], c)
        BY <2>2, <2>3, <3>1, TypeFacts DEF RegsOK
      <4>. QED
        BY <2>4, <4>1
    <3>2. CASE u # ty
      <4>1. delegates'[u] = delegates[u] /\ regs'[u] = regs[u]
        BY <2>2, <2>3, <3>2, TypeFacts DEF RegsOK
      <4>. QED
        BY <4>1 DEF Lists
    <3>. QED
      BY <3>1, <3>2
  <2>. QED
    BY <2>6, <2>7 DEF Lists
<1>. QED
  BY <1>1, <1>2

LEMMA ListsStep ==
    ASSUME FewHandlers
    PROVE  Inv /\ Lists /\ RegsOK /\ [Next]_vars => (Lists /\ RegsOK)'
<1>. SUFFICES ASSUME Inv, Lists, RegsOK, [Next]_vars PROVE (Lists /\ RegsOK)'
  OBVIOUS
<1>0. ASSUME UNCHANGED <<delegates, regs>> PROVE (Lists /\ RegsOK)'
  BY <1>0 DEF Lists, RegsOK
<1>1. CASE UNCHANGED vars
  BY <1>0, <1>1 DEF vars, busVars
<1>2. ASSUME NEW ty \in EventTypes, Enqueue(ty) \/ Drop(ty) \/ HasQueue(ty) \/ Fire(ty) PROVE UNCHANGED <<delegates, regs>>
  BY <1>2 DEF Enqueue, Drop, HasQueue, Fire, Crash, busVars
<1>3. ASSUME NEW ty \in EventTypes, NEW h \in Handlers,
             Unsubscribe(ty, h) \/ \E p \in Priorities : Subscribe(ty, h, p)
      PROVE  (Lists /\ RegsOK)'
  BY <1>3, UnsubscribeLists, SubscribeLists
<1>4. CASE DropAll \/ BeginDispatch
  BY <1>0, <1>4 DEF DropAll, BeginDispatch, Crash, busVars
<1>5. CASE Step
  <2>1. DispatchLoop \/ Pop => UNCHANGED <<delegates, regs>>
    BY DEF DispatchLoop, Pop, Crash, busVars
  <2>2. Deliver => UNCHANGED <<delegates, regs>>
    BY DEF Deliver, busVars
  <2>3. \A c \in BOOLEAN : HandlerReturns(c) => UNCHANGED <<delegates, regs>>
    BY DEF HandlerReturns, busVars
  <2>4. Process => UNCHANGED <<delegates, regs>>
    <3>1. ASSUME Process, entry[at] = "null" PROVE queue[at] = <<>>
      BY <3>1, TypeFacts DEF Inv, TypeOK
    <3>. QED
      BY <3>1 DEF Process, Crash, busVars
  <2>. QED
    BY <1>0, <1>5, <2>1, <2>2, <2>3, <2>4 DEF Step
<1>. QED
  BY <1>0, <1>1, <1>2, <1>3, <1>4, <1>5 DEF Next

(* The list is sorted as subscribe() promises.                             *)
LEMMA ListsOrdered == Lists => HandlerOrder
<1>. SUFFICES ASSUME Lists,
                     NEW ty \in EventTypes, NEW i \in DOMAIN delegates[ty], NEW j \in DOMAIN delegates[ty], i < j,
                     ~(delegates[ty][i].priority < delegates[ty][j].priority)
              PROVE  /\ delegates[ty][i].priority = delegates[ty][j].priority
                     /\ Registered(ty, delegates[ty][i].handler) < Registered(ty, delegates[ty][j].handler)
  BY DEF HandlerOrder
<1>1. Each(delegates[ty], regs[ty]) /\ Sorted(delegates[ty], regs[ty])
  BY DEF Lists
<1>2. ASSUME NEW m \in DOMAIN delegates[ty]
      PROVE  /\ Registered(ty, delegates[ty][m].handler) \in DOMAIN regs[ty]
             /\ regs[ty][Registered(ty, delegates[ty][m].handler)] = delegates[ty][m].handler
  <2>1. \E a \in DOMAIN regs[ty] : regs[ty][a] = delegates[ty][m].handler
    BY <1>1 DEF Each
  <2>. QED
    BY <2>1 DEF Registered
<1>. QED
  BY <1>1, <1>2 DEF Sorted

(* For any handlers, up to the number that std::sort sorts stably, and any *)
(* events and priorities: the list is in order after any subscriptions and *)
(* removals, and an event nobody consumes reaches every handler of its     *)
(* type, whatever the handlers do to the bus meanwhile.                    *)
THEOREM ReachesEveryHandlerHolds ==
    ASSUME FewHandlers
    PROVE  Spec => ReachesEveryHandler
<1>1. Inv /\ [Next]_vars => [(pc = "deliver" /\ pc' \in {"pop", "client"}) => called = HandlersOf(at)]_vars
  <2>. SUFFICES ASSUME Inv, Next, pc = "deliver", pc' \in {"pop", "client"} PROVE called = HandlersOf(at)
    OBVIOUS
  <2>1. Deliver
    BY DEF Next, Step, Enqueue, Drop, HasQueue, Fire, Unsubscribe, Subscribe, DropAll, BeginDispatch,
           DispatchLoop, Process, HandlerReturns, Pop, Free, Reentrant
  <2>2. it = 0
    BY <2>1 DEF Deliver, AtEnd
  <2>3. called = {delegates[at][i].handler : i \in 0 + 1 .. Len(delegates[at])}
    BY <2>2 DEF Inv, Walk
  <2>4. DOMAIN delegates[at] = 0 + 1 .. Len(delegates[at])
    BY TypeFacts
  <2>. QED
    BY <2>3, <2>4 DEF HandlersOf
<1>2. Inv /\ Lists /\ RegsOK /\ [Next]_vars => (Lists /\ RegsOK)'
  BY ListsStep
<1>. QED
  BY <1>1, <1>2, BusInit, BusStep, ListsInit, ListsOrdered, PTL DEF Spec, ReachesEveryHandler
=============================================================================
