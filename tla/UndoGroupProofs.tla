--------------------------- MODULE UndoGroupProofs ---------------------------
(***************************************************************************)
(* Proofs about UndoGroup, for any keys, values, names and limits and      *)
(* histories of any length.                                                *)
(***************************************************************************)
EXTENDS UndoGroup, NaturalsInduction, WellFoundedInduction, TLAPS

(* A set of natural numbers has a least element.                           *)
LEMMA LeastNat ==
    ASSUME NEW S \in SUBSET Nat, S # {}
    PROVE  \E m \in S : \A k \in S : m <= k
<1>. DEFINE R == {p \in Nat \X Nat : p[1] < p[2]}
<1>1. IsWellFoundedOn(R, Nat)
  BY NatLessThanWellFounded DEF OpToRel
<1>2. PICK m \in S : \A k \in S : ~(<<k, m>> \in R)
  <2>. HIDE DEF R
  <2>. QED
    BY <1>1, WFMin
<1>3. \A k \in S : ~(k < m)
  BY <1>2
<1>. QED
  BY <1>3

-----------------------------------------------------------------------------
(* What the folds of redo and undo compute for a command of one step, and  *)
(* for a macro-command of two.                                             *)
To(d, w)   == [d EXCEPT ![w.key] = w.to]
From(d, w) == [d EXCEPT ![w.key] = w.from]

LEMMA SmallSets ==
    ASSUME NEW n \in {1, 2}, NEW s \in SUBSET (1 .. n), s # {}
    PROVE  \/ s = {1} /\ Max(s) = 1 /\ s \ {Max(s)} = {}
           \/ s = {2} /\ Max(s) = 2 /\ s \ {Max(s)} = {}
           \/ s = {1, 2} /\ Max(s) = 2 /\ s \ {Max(s)} = {1}
<1>1. \A y \in s : y = 1 \/ y = 2
  OBVIOUS
<1>2. CASE 1 \in s /\ 2 \notin s
  <2>1. s = {1}
    BY <1>1, <1>2
  <2>2. Max(s) \in s
    BY <2>1 DEF Max
  <2>. QED
    BY <2>1, <2>2
<1>3. CASE 2 \in s /\ 1 \notin s
  <2>1. s = {2}
    BY <1>1, <1>3
  <2>2. Max(s) \in s
    BY <2>1 DEF Max
  <2>. QED
    BY <2>1, <2>2
<1>4. CASE 1 \in s /\ 2 \in s
  <2>1. s = {1, 2}
    BY <1>1, <1>4
  <2>2. Max(s) \in s /\ \A y \in s : Max(s) >= y
    BY <2>1 DEF Max
  <2>3. Max(s) = 2
    BY <2>1, <2>2
  <2>. QED
    BY <2>1, <2>3
<1>. QED
  BY <1>1, <1>2, <1>3, <1>4

FoldsTo(d, q, n, G) ==
    G = [s \in SUBSET (1 .. n) |-> IF s = {} THEN d ELSE LET x == Max(s) IN To(G[s \ {x}], q[x])]

LEMMA FoldsToIs ==
    ASSUME NEW d, NEW q, NEW n \in {1, 2}
    PROVE  /\ \E G : FoldsTo(d, q, n, G)
           /\ \A G : FoldsTo(d, q, n, G) =>
                G[1 .. n] = IF n = 1 THEN To(d, q[1]) ELSE To(To(d, q[1]), q[2])
<1>. DEFINE W == [s \in SUBSET (1 .. n) |->
                    IF s = {} THEN d
                    ELSE IF s = {1} THEN To(d, q[1])
                    ELSE IF s = {2} THEN To(d, q[2]) ELSE To(To(d, q[1]), q[2])]
<1>1. ASSUME NEW s \in SUBSET (1 .. n)
      PROVE  W[s] = IF s = {} THEN d ELSE To(W[s \ {Max(s)}], q[Max(s)])
  <2>1. CASE s = {}
    BY <2>1
  <2>2. CASE s # {}
    <3>1. {} \in SUBSET (1 .. n) /\ {1} \in SUBSET (1 .. n) /\ {1} # {} /\ {2} # {} /\ {1} # {2}
          /\ {1, 2} # {1} /\ {1, 2} # {2}
      OBVIOUS
    <3>2. W[{}] = d /\ W[{1}] = To(d, q[1])
      BY <3>1
    <3>. QED
      BY <2>2, <3>1, <3>2, SmallSets
  <2>. QED
    BY <2>1, <2>2
<1>2. FoldsTo(d, q, n, W)
  <2>1. W = [s \in SUBSET (1 .. n) |-> W[s]]
    OBVIOUS
  <2>. HIDE DEF W
  <2>. QED
    BY <1>1, <2>1 DEF FoldsTo
<1>3. ASSUME NEW G, FoldsTo(d, q, n, G)
      PROVE  G[1 .. n] = IF n = 1 THEN To(d, q[1]) ELSE To(To(d, q[1]), q[2])
  <2>1. \A s \in SUBSET (1 .. n) : G[s] = IF s = {} THEN d ELSE To(G[s \ {Max(s)}], q[Max(s)])
    BY <1>3 DEF FoldsTo
  <2>2. G[{}] = d
    BY <2>1
  <2>3. {1} \in SUBSET (1 .. n) /\ {1} # {} /\ {1} # {2} /\ {1} # {1, 2}
    OBVIOUS
  <2>4. Max({1}) = 1 /\ {1} \ {Max({1})} = {}
    BY <2>3, SmallSets
  <2>5. G[{1}] = To(d, q[1])
    BY <2>1, <2>2, <2>3, <2>4
  <2>6. CASE n = 1
    <3>1. 1 .. n = {1}
      BY <2>6
    <3>. QED
      BY <2>5, <2>6, <3>1
  <2>7. CASE n = 2
    <3>1. 1 .. n = {1, 2} /\ {1, 2} # {} /\ {1, 2} # {1} /\ {1, 2} # {2} /\ {1, 2} \in SUBSET (1 .. n)
      BY <2>7
    <3>2. Max({1, 2}) = 2 /\ {1, 2} \ {Max({1, 2})} = {1}
      BY <3>1, SmallSets
    <3>3. G[{1, 2}] = To(G[{1}], q[2])
      BY <2>1, <3>1, <3>2
    <3>. QED
      BY <2>5, <2>7, <3>1, <3>3
  <2>. QED
    BY <2>6, <2>7
<1>. QED
  BY <1>2, <1>3

LEMMA RedoIs ==
    ASSUME NEW d, NEW c, NEW n \in {1, 2}, DOMAIN c.steps = 1 .. n
    PROVE  RedoCommand(d, c) = IF n = 1 THEN To(d, c.steps[1]) ELSE To(To(d, c.steps[1]), c.steps[2])
<1>. DEFINE C == CHOOSE G : FoldsTo(d, c.steps, n, G)
<1>1. FoldsTo(d, c.steps, n, C)
  BY FoldsToIs
<1>2. RedoCommand(d, c) = C[1 .. n]
  BY DEF RedoCommand, FoldLeft, MapThenFoldSet, FoldsTo, To
<1>3. \A G : FoldsTo(d, c.steps, n, G) =>
         G[1 .. n] = IF n = 1 THEN To(d, c.steps[1]) ELSE To(To(d, c.steps[1]), c.steps[2])
  BY FoldsToIs
<1>. HIDE DEF C
<1>. QED
  BY <1>1, <1>2, <1>3
FoldsFrom(d, q, n, G) ==
    G = [s \in SUBSET (1 .. n) |-> IF s = {} THEN d ELSE LET x == Max(s) IN From(G[s \ {x}], q[x])]

LEMMA FoldsFromIs ==
    ASSUME NEW d, NEW q, NEW n \in {1, 2}
    PROVE  /\ \E G : FoldsFrom(d, q, n, G)
           /\ \A G : FoldsFrom(d, q, n, G) =>
                G[1 .. n] = IF n = 1 THEN From(d, q[1]) ELSE From(From(d, q[1]), q[2])
<1>. DEFINE W == [s \in SUBSET (1 .. n) |->
                    IF s = {} THEN d
                    ELSE IF s = {1} THEN From(d, q[1])
                    ELSE IF s = {2} THEN From(d, q[2]) ELSE From(From(d, q[1]), q[2])]
<1>1. ASSUME NEW s \in SUBSET (1 .. n)
      PROVE  W[s] = IF s = {} THEN d ELSE From(W[s \ {Max(s)}], q[Max(s)])
  <2>1. CASE s = {}
    BY <2>1
  <2>2. CASE s # {}
    <3>1. {} \in SUBSET (1 .. n) /\ {1} \in SUBSET (1 .. n) /\ {1} # {} /\ {2} # {} /\ {1} # {2}
          /\ {1, 2} # {1} /\ {1, 2} # {2}
      OBVIOUS
    <3>2. W[{}] = d /\ W[{1}] = From(d, q[1])
      BY <3>1
    <3>. QED
      BY <2>2, <3>1, <3>2, SmallSets
  <2>. QED
    BY <2>1, <2>2
<1>2. FoldsFrom(d, q, n, W)
  <2>1. W = [s \in SUBSET (1 .. n) |-> W[s]]
    OBVIOUS
  <2>. HIDE DEF W
  <2>. QED
    BY <1>1, <2>1 DEF FoldsFrom
<1>3. ASSUME NEW G, FoldsFrom(d, q, n, G)
      PROVE  G[1 .. n] = IF n = 1 THEN From(d, q[1]) ELSE From(From(d, q[1]), q[2])
  <2>1. \A s \in SUBSET (1 .. n) : G[s] = IF s = {} THEN d ELSE From(G[s \ {Max(s)}], q[Max(s)])
    BY <1>3 DEF FoldsFrom
  <2>2. G[{}] = d
    BY <2>1
  <2>3. {1} \in SUBSET (1 .. n) /\ {1} # {} /\ {1} # {2} /\ {1} # {1, 2}
    OBVIOUS
  <2>4. Max({1}) = 1 /\ {1} \ {Max({1})} = {}
    BY <2>3, SmallSets
  <2>5. G[{1}] = From(d, q[1])
    BY <2>1, <2>2, <2>3, <2>4
  <2>6. CASE n = 1
    <3>1. 1 .. n = {1}
      BY <2>6
    <3>. QED
      BY <2>5, <2>6, <3>1
  <2>7. CASE n = 2
    <3>1. 1 .. n = {1, 2} /\ {1, 2} # {} /\ {1, 2} # {1} /\ {1, 2} # {2} /\ {1, 2} \in SUBSET (1 .. n)
      BY <2>7
    <3>2. Max({1, 2}) = 2 /\ {1, 2} \ {Max({1, 2})} = {1}
      BY <3>1, SmallSets
    <3>3. G[{1, 2}] = From(G[{1}], q[2])
      BY <2>1, <3>1, <3>2
    <3>. QED
      BY <2>5, <2>7, <3>1, <3>3
  <2>. QED
    BY <2>6, <2>7
<1>. QED
  BY <1>2, <1>3

LEMMA UndoIs ==
    ASSUME NEW d, NEW S, NEW c, c.steps \in Seq(S), NEW n \in {1, 2}, Len(c.steps) = n
    PROVE  UndoCommand(d, c) =
               IF n = 1 THEN From(d, c.steps[1]) ELSE From(From(d, c.steps[2]), c.steps[1])
<1>. DEFINE q == Reverse(c.steps)
            C == CHOOSE G : FoldsFrom(d, q, n, G)
<1>1. FoldsFrom(d, q, n, C)
  BY FoldsFromIs
<1>2. DOMAIN q = 1 .. n /\ q[1] = c.steps[n] /\ (n = 2 => q[2] = c.steps[1])
  BY DEF Reverse
<1>3. UndoCommand(d, c) = C[1 .. n]
  BY <1>2 DEF UndoCommand, FoldLeft, MapThenFoldSet, FoldsFrom, From
<1>4. \A G : FoldsFrom(d, q, n, G) =>
         G[1 .. n] = IF n = 1 THEN From(d, q[1]) ELSE From(From(d, q[1]), q[2])
  BY FoldsFromIs
<1>. HIDE DEF C, q
<1>. QED
  BY <1>1, <1>2, <1>3, <1>4

-----------------------------------------------------------------------------
(* The commands a history holds, and what makes one right.                 *)
Docs    == [Keys -> Values]
Step    == [key : Keys, from : Values, to : Values]
Command == {c \in [id : Int, steps : Seq(Step), obsolete : BOOLEAN] :
              Len(c.steps) \in {1, 2} /\ c.obsolete = FALSE}

(* The command leads from one document to another, and back.               *)
Leads(c, d, e) == RedoCommand(d, c) = e /\ UndoCommand(e, c) = d

LEMMA SimpleLeads ==
    ASSUME NEW d \in Docs, NEW w \in Step, w.from = d[w.key], NEW c, c.steps = <<w>>
    PROVE  /\ Leads(c, d, To(d, w)) /\ To(d, w) \in Docs
           /\ RedoCommand(d, c) = To(d, w)
<1>1. DOMAIN c.steps = 1 .. 1 /\ c.steps \in Seq(Step) /\ Len(c.steps) = 1 /\ c.steps[1] = w
  OBVIOUS
<1>2. RedoCommand(d, c) = To(d, w)
  BY <1>1, RedoIs
<1>3. \A e : UndoCommand(e, c) = From(e, w)
  BY <1>1, UndoIs
<1>4. To(d, w) \in Docs /\ From(To(d, w), w) = d
  BY DEF To, From, Docs, Step
<1>. QED
  BY <1>2, <1>3, <1>4 DEF Leads

LEMMA MacroLeads ==
    ASSUME NEW d \in Docs, NEW w \in Step, w.from = d[w.key],
           NEW v \in Step, v.from = To(d, w)[v.key], NEW c,
           c.steps \in Seq(Step), Len(c.steps) = 2, c.steps[1] = w, c.steps[2] = v
    PROVE  Leads(c, d, RedoCommand(d, c)) /\ RedoCommand(d, c) \in Docs
<1>1. /\ DOMAIN c.steps = 1 .. 2 /\ c.steps \in Seq(Step) /\ Len(c.steps) = 2
      /\ c.steps[1] = w /\ c.steps[2] = v
  OBVIOUS
<1>2. RedoCommand(d, c) = To(To(d, w), v)
  BY <1>1, RedoIs
<1>3. ASSUME NEW e PROVE UndoCommand(e, c) = From(From(e, v), w)
  <2>1. \A n \in {1, 2} : Len(c.steps) = n =>
           UndoCommand(e, c) =
             IF n = 1 THEN From(e, c.steps[1]) ELSE From(From(e, c.steps[2]), c.steps[1])
    BY <1>1, UndoIs
  <2>. QED
    BY <1>1, <2>1
<1>4. To(d, w) \in Docs /\ From(To(d, w), w) = d
  BY DEF To, From, Docs, Step
<1>5. To(To(d, w), v) \in Docs /\ From(To(To(d, w), v), v) = To(d, w)
  <2>. DEFINE e == To(d, w)
  <2>1. e \in Docs
    BY <1>4
  <2>. HIDE DEF e
  <2>. QED
    BY <2>1 DEF To, From, Docs, Step
<1>. QED
  BY <1>2, <1>3, <1>4, <1>5 DEF Leads

(* Whatever the client makes of the document it sees leads to the document *)
(* it makes, and back.                                                     *)
LEMMA CommandsLead ==
    ASSUME NEW d \in Docs, NEW c \in Commands(d)
    PROVE  c \in Command /\ Leads(c, d, RedoCommand(d, c)) /\ RedoCommand(d, c) \in Docs
<1>1. ASSUME NEW e \in Docs, NEW a \in Simple(e)
      PROVE  \E w \in Step : /\ w.from = e[w.key] /\ a.steps = <<w>> /\ a.obsolete = FALSE
                             /\ a \in [id : Int, steps : Seq(Step), obsolete : BOOLEAN]
  <2>1. PICK i \in MergeIds \union {NoId}, w \in UNION {Writes(e, k) : k \in Keys} :
            a = [id |-> i, steps |-> <<w>>, obsolete |-> FALSE]
    BY DEF Simple
  <2>2. PICK k \in Keys : w \in Writes(e, k)
    BY <2>1
  <2>3. PICK m \in Moves : m[1] = e[k] /\ w = [key |-> k, from |-> m[1], to |-> m[2]]
    BY <2>2 DEF Writes
  <2>4. w \in Step /\ w.from = e[w.key]
    BY <2>3, UndoAssumption DEF Step
  <2>5. i \in Int
    BY <2>1, UndoAssumption DEF NoId
  <2>6. <<w>> \in Seq(Step)
    BY <2>4
  <2>. QED
    BY <2>1, <2>4, <2>5, <2>6
<1>2. CASE c \in Simple(d)
  <2>1. PICK w \in Step : /\ w.from = d[w.key] /\ c.steps = <<w>> /\ c.obsolete = FALSE
                          /\ c \in [id : Int, steps : Seq(Step), obsolete : BOOLEAN]
    BY <1>1, <1>2
  <2>2. Len(c.steps) = 1
    BY <2>1
  <2>. QED
    BY <2>1, <2>2, SimpleLeads DEF Command
<1>3. CASE c \in MacrosOf(d)
  <2>1. PICK a \in Simple(d) : \E b \in Simple(RedoCommand(d, a)) :
            c = [id |-> NoId, steps |-> a.steps \o b.steps, obsolete |-> FALSE]
    BY <1>3 DEF MacrosOf
  <2>2. PICK w \in Step : w.from = d[w.key] /\ a.steps = <<w>>
    BY <1>1, <2>1
  <2>3. RedoCommand(d, a) = To(d, w) /\ To(d, w) \in Docs
    BY <2>2, SimpleLeads
  <2>4. PICK b \in Simple(To(d, w)) :
            c = [id |-> NoId, steps |-> a.steps \o b.steps, obsolete |-> FALSE]
    BY <2>1, <2>3
  <2>5. PICK v \in Step : v.from = To(d, w)[v.key] /\ b.steps = <<v>>
    BY <1>1, <2>3, <2>4
  <2>. DEFINE q == a.steps \o b.steps
  <2>6. q \in Seq(Step) /\ Len(q) = 2 /\ q[1] = w /\ q[2] = v
    BY <2>2, <2>5
  <2>7. c.steps = q /\ c.obsolete = FALSE
    BY <2>4
  <2>8. c \in [id : Int, steps : Seq(Step), obsolete : BOOLEAN]
    BY <2>4, <2>6 DEF NoId
  <2>. HIDE DEF q
  <2>. QED
    BY <2>2, <2>5, <2>6, <2>7, <2>8, MacroLeads DEF Command
<1>. QED
  BY <1>2, <1>3 DEF Commands

LEMMA UndoType ==
    ASSUME NEW c \in Command, NEW d \in Docs
    PROVE  UndoCommand(d, c) \in Docs /\ RedoCommand(d, c) \in Docs
<1>1. PICK n \in {1, 2} : Len(c.steps) = n /\ c.steps \in Seq(Step) /\ DOMAIN c.steps = 1 .. n
  BY DEF Command
<1>2. c.steps[1] \in Step /\ (n = 2 => c.steps[2] \in Step)
  BY <1>1
<1>3. \A e \in Docs, w \in Step : To(e, w) \in Docs /\ From(e, w) \in Docs
  BY DEF To, From, Docs, Step
<1>4. RedoCommand(d, c) = IF n = 1 THEN To(d, c.steps[1]) ELSE To(To(d, c.steps[1]), c.steps[2])
  BY <1>1, RedoIs
<1>5. UndoCommand(d, c) = IF n = 1 THEN From(d, c.steps[1]) ELSE From(From(d, c.steps[2]), c.steps[1])
  BY <1>1, UndoIs
<1>. QED
  BY <1>2, <1>3, <1>4, <1>5

(* A merged command leads from where the first began to where the second   *)
(* ended; it is obsolete when that is the same.                            *)
LEMMA MergedLeads ==
    ASSUME NEW a \in Command, NEW c \in Command, CanMergeWith(a, c),
           NEW d \in Docs, NEW e \in Docs, Leads(a, d, e), Leads(c, e, RedoCommand(e, c))
    PROVE  /\ Leads(MergeWith(a, c), d, RedoCommand(e, c))
           /\ MergeWith(a, c).obsolete => RedoCommand(e, c) = d
           /\ ~MergeWith(a, c).obsolete => MergeWith(a, c) \in Command
<1>. DEFINE w == a.steps[1]
            v == c.steps[1]
            m == MergeWith(a, c)
            x == [w EXCEPT !.to = v.to]
<1>1. /\ Len(a.steps) = 1 /\ Len(c.steps) = 1 /\ w.key = v.key /\ w \in Step /\ v \in Step
      /\ a.steps \in Seq(Step) /\ c.steps \in Seq(Step) /\ a.obsolete = FALSE
      /\ DOMAIN a.steps = 1 .. 1 /\ DOMAIN c.steps = 1 .. 1
      /\ a \in [id : Int, steps : Seq(Step), obsolete : BOOLEAN]
  BY DEF CanMergeWith, Command
<1>2. x \in Step /\ x.key = w.key /\ x.from = w.from /\ x.to = v.to
  BY <1>1 DEF Step
<1>3. m = [a EXCEPT !.steps = <<x>>, !.obsolete = (a.obsolete \/ w.from = v.to)]
  BY DEF MergeWith
<1>4. m.steps = <<x>> /\ m.id = a.id
  BY <1>1, <1>3
<1>5. m.obsolete <=> w.from = v.to
  BY <1>1, <1>3
<1>6. RedoCommand(d, a) = To(d, w) /\ RedoCommand(e, c) = To(e, v) /\ UndoCommand(e, a) = From(e, w)
  BY <1>1, RedoIs, UndoIs
<1>7. e = To(d, w) /\ d = From(e, w)
  BY <1>6 DEF Leads
<1>8. d[w.key] = w.from /\ To(e, v) = To(d, x) /\ (w.from = v.to => To(e, v) = d)
  BY <1>1, <1>2, <1>7 DEF To, From, Docs, Step
<1>9. Leads(m, d, To(d, x))
  <2>. HIDE DEF m, x
  <2>. QED
    BY <1>2, <1>4, <1>8, SimpleLeads
<1>10. ~m.obsolete => m \in Command
  <2>1. m \in [id : Int, steps : Seq(Step), obsolete : BOOLEAN]
    <3>. DEFINE o == a.obsolete \/ w.from = v.to
                y == <<x>>
    <3>1. o \in BOOLEAN /\ y \in Seq(Step)
      BY <1>2
    <3>2. m = [a EXCEPT !.steps = y, !.obsolete = o]
      BY <1>3
    <3>. HIDE DEF o, m, y
    <3>. QED
      BY <1>1, <3>1, <3>2
  <2>2. Len(m.steps) = 1
    BY <1>4
  <2>. HIDE DEF m
  <2>. QED
    BY <2>1, <2>2 DEF Command
<1>. HIDE DEF m
<1>. QED
  BY <1>5, <1>6, <1>8, <1>9, <1>10 DEF m

-----------------------------------------------------------------------------
(* A stack is sound when its indices are valid and there is a document for *)
(* every position of the head: each command leads from one to the next and *)
(* back, the current one is that of the head, and that of the clean index  *)
(* is the saved one.                                                       *)
Stack ==
    [history : Seq(Command), limit : Nat, head : Nat, clean : Int, doc : Docs, saved : Docs,
     spoiled : BOOLEAN]

InRange(s) ==
    /\ s \in Stack /\ s.head <= Count(s)
    /\ -1 <= s.clean /\ s.clean <= Count(s)
    /\ s.limit > 0 => Count(s) <= s.limit

Path(h, D) == D \in [0 .. Len(h) -> Docs] /\ \A i \in 1 .. Len(h) : Leads(h[i], D[i - 1], D[i])

Saved(s, D) == s.clean # NoClean /\ ~s.spoiled => D[s.clean] = s.saved

Tracks(s, D) == Path(s.history, D) /\ Saved(s, D)

Sound(s) == InRange(s) /\ \E D : Tracks(s, D) /\ D[s.head] = s.doc

(* The path up to a position.                                              *)
LEMMA PathPrefix ==
    ASSUME NEW h \in Seq(Command), NEW D, Path(h, D), NEW n \in 0 .. Len(h)
    PROVE  Path(SubSeq(h, 1, n), [i \in 0 .. n |-> D[i]])
<1>. DEFINE g == SubSeq(h, 1, n)
            E == [i \in 0 .. n |-> D[i]]
<1>1. Len(g) = n /\ \A i \in 1 .. n : g[i] = h[i]
  OBVIOUS
<1>2. D \in [0 .. Len(h) -> Docs]
  BY DEF Path
<1>3. E \in [0 .. n -> Docs]
  BY <1>2
<1>4. ASSUME NEW i \in 1 .. n PROVE Leads(g[i], E[i - 1], E[i])
  <2>1. i \in 1 .. Len(h) /\ i - 1 \in 0 .. n /\ i \in 0 .. n
    OBVIOUS
  <2>2. E[i - 1] = D[i - 1] /\ E[i] = D[i] /\ g[i] = h[i]
    BY <1>1, <2>1
  <2>. QED
    BY <2>1, <2>2 DEF Path
<1>. HIDE DEF g, E
<1>. QED
  BY <1>1, <1>3, <1>4 DEF Path, g, E

(* push: the commands after the head go.                                   *)
LEMMA TruncateSound ==
    ASSUME NEW s, InRange(s), NEW D, Tracks(s, D), D[s.head] = s.doc, NEW e \in Docs,
           NEW k, k = Truncate([s EXCEPT !.doc = e])
    PROVE  /\ InRange(k) /\ Count(k) = k.head /\ k.doc = e
           /\ \E E : Tracks(k, E) /\ E[k.head] = s.doc
<1>. DEFINE t == [s EXCEPT !.doc = e]
            h == SubSeq(s.history, 1, s.head)
            n == s.head
            c == IF CanRedo(t) /\ t.head < t.clean THEN NoClean ELSE t.clean
            E == [i \in 0 .. n |-> D[i]]
<1>1. /\ t \in Stack /\ t.history = s.history /\ t.limit = s.limit /\ t.head = n
      /\ t.clean = s.clean /\ t.doc = e /\ t.saved = s.saved /\ t.spoiled = s.spoiled
  BY DEF InRange, Stack
<1>2. n \in 0 .. Len(s.history) /\ s.history \in Seq(Command) /\ s.clean \in Int
  BY DEF InRange, Stack, Count
<1>3. h \in Seq(Command) /\ Len(h) = n
  BY <1>2
<1>4. c \in Int /\ -1 <= c /\ c <= n /\ (c = -1 \/ c = s.clean)
  <2>1. CanRedo(t) <=> n < Len(s.history)
    BY <1>1 DEF CanRedo, Count
  <2>. QED
    BY <1>1, <1>2, <2>1 DEF InRange, Count, NoClean
<1>5. k = [t EXCEPT !.history = SubSeq(t.history, 1, t.head), !.clean = c]
  BY DEF Truncate
<1>6. k = [t EXCEPT !.history = h, !.clean = c]
  BY <1>1, <1>5
<1>. HIDE DEF t, h, c
<1>7. /\ k \in Stack /\ k.history = h /\ k.clean = c /\ k.limit = s.limit /\ k.head = n
      /\ k.doc = e /\ k.saved = s.saved /\ k.spoiled = s.spoiled
  BY <1>1, <1>3, <1>4, <1>6 DEF Stack
<1>8. InRange(k) /\ Count(k) = k.head
  BY <1>2, <1>3, <1>4, <1>7 DEF InRange, Count, Stack
<1>9. Path(h, E) /\ E[n] = s.doc
  BY <1>2, PathPrefix DEF Tracks, h
<1>10. Saved(k, E)
  <2>1. c # -1 => c = s.clean /\ c \in 0 .. n
    BY <1>2, <1>4
  <2>2. \A i \in 0 .. n : E[i] = D[i]
    OBVIOUS
  <2>. HIDE DEF E
  <2>. QED
    BY <1>7, <2>1, <2>2 DEF Saved, Tracks, NoClean
<1>. QED
  BY <1>7, <1>8, <1>9, <1>10 DEF Tracks

(* push: the command is appended; at the limit the oldest one goes.        *)
LEMMA AppendSound ==
    ASSUME NEW k, InRange(k), Count(k) = k.head, NEW E, Tracks(k, E),
           NEW c \in Command, Leads(c, E[k.head], k.doc),
           NEW p, p = [k EXCEPT !.history = Append(IF AtLimit(k) THEN Tail(@) ELSE @, c),
                                !.spoiled = @ \/ AtLimit(k)]
    PROVE  Sound([p EXCEPT !.head = Count(p)]) /\ Last(p.history) = c
<1>. DEFINE n == Len(k.history)
            g == IF AtLimit(k) THEN Tail(k.history) ELSE k.history
            h == Append(g, c)
            sp == k.spoiled \/ AtLimit(k)
            q == [p EXCEPT !.head = Count(p)]
            off == IF AtLimit(k) THEN 1 ELSE 0
            F == [i \in 0 .. Len(h) |-> IF i < Len(h) THEN E[i + off] ELSE k.doc]
<1>1. /\ k \in Stack /\ k.history \in Seq(Command) /\ n \in Nat /\ k.head = n /\ k.doc \in Docs
      /\ k.clean \in Int /\ k.limit \in Nat /\ k.clean <= n /\ -1 <= k.clean
  BY DEF InRange, Stack, Count
<1>2. AtLimit(k) => n > 0
  BY <1>1 DEF AtLimit, Count
<1>3. g \in Seq(Command) /\ Len(g) = n - off /\ \A i \in 1 .. Len(g) : g[i] = k.history[i + off]
  BY <1>1, <1>2
<1>4. /\ h \in Seq(Command) /\ Len(h) = n - off + 1 /\ h[Len(h)] = c
      /\ \A i \in 1 .. Len(g) : h[i] = g[i]
  BY <1>3
<1>5. sp \in BOOLEAN
  OBVIOUS
<1>6. p = [k EXCEPT !.history = h, !.spoiled = sp]
  OBVIOUS
<1>a. off \in {0, 1} /\ (off = 1 => AtLimit(k)) /\ (off = 0 => ~AtLimit(k)) /\ Len(h) \in Nat
  BY <1>4
<1>b. off = 1 => sp
  BY <1>a
<1>c. sp = FALSE => ~k.spoiled
  OBVIOUS
<1>. HIDE DEF g, h, sp, off
<1>7. /\ p \in Stack /\ p.history = h /\ p.head = n /\ p.clean = k.clean /\ p.limit = k.limit
      /\ p.doc = k.doc /\ p.saved = k.saved /\ p.spoiled = sp
  BY <1>1, <1>4, <1>5, <1>6 DEF Stack
<1>8. q = [p EXCEPT !.head = Len(h)]
  BY <1>7 DEF Count
<1>9. /\ q \in Stack /\ q.history = h /\ q.head = Len(h) /\ q.clean = k.clean /\ q.limit = k.limit
      /\ q.doc = k.doc /\ q.saved = k.saved /\ q.spoiled = sp
  BY <1>7, <1>8, <1>a DEF Stack
<1>10. InRange(q)
  <2>1. q.limit > 0 => Len(h) <= q.limit
    BY <1>1, <1>4, <1>9, <1>a DEF InRange, AtLimit, Count
  <2>2. q.clean <= Len(h)
    BY <1>1, <1>2, <1>4, <1>9, <1>a
  <2>. QED
    BY <1>1, <1>9, <1>a, <2>1, <2>2 DEF InRange, Count
<1>11. Path(h, F)
  <2>0. E \in [0 .. n -> Docs] /\ \A i \in 1 .. n : Leads(k.history[i], E[i - 1], E[i])
    BY DEF Tracks, Path
  <2>1. ASSUME NEW i \in 0 .. Len(h) PROVE F[i] \in Docs
    <3>1. CASE i < Len(h)
      <4>1. i + off \in 0 .. n
        BY <1>1, <1>4, <1>a, <3>1
      <4>. QED
        BY <2>0, <3>1, <4>1
    <3>2. CASE ~(i < Len(h))
      BY <1>1, <3>2
    <3>. QED
      BY <3>1, <3>2
  <2>2. ASSUME NEW i \in 1 .. Len(h) PROVE Leads(h[i], F[i - 1], F[i])
    <3>0. i - 1 \in 0 .. Len(h) /\ i - 1 < Len(h) /\ F[i - 1] = E[i - 1 + off] /\ i \in 0 .. Len(h)
      BY <1>a
    <3>1. CASE i < Len(h)
      <4>1. i \in 1 .. Len(g) /\ i + off \in 1 .. n /\ (i + off) - 1 = i - 1 + off
        BY <1>1, <1>3, <1>4, <1>a, <3>1
      <4>2. F[i] = E[i + off] /\ h[i] = k.history[i + off]
        BY <1>3, <1>4, <3>0, <3>1, <4>1
      <4>3. Leads(k.history[i + off], E[(i + off) - 1], E[i + off])
        BY <2>0, <4>1
      <4>. QED
        BY <3>0, <4>1, <4>2, <4>3
    <3>2. CASE ~(i < Len(h))
      <4>1. i = Len(h) /\ i - 1 + off = n
        BY <1>1, <1>4, <1>a, <3>2
      <4>2. F[i] = k.doc /\ h[i] = c /\ F[i - 1] = E[n]
        BY <1>4, <3>0, <3>2, <4>1
      <4>. QED
        BY <1>1, <4>2
    <3>. QED
      BY <3>1, <3>2
  <2>3. F = [i \in 0 .. Len(h) |-> F[i]]
    OBVIOUS
  <2>. HIDE DEF F
  <2>. QED
    BY <2>1, <2>2, <2>3 DEF Path
<1>12. F[q.head] = q.doc
  BY <1>9, <1>a
<1>13. Saved(q, F)
  <2>. SUFFICES ASSUME k.clean # -1, sp = FALSE PROVE F[k.clean] = k.saved
    BY <1>5, <1>9 DEF Saved, NoClean
  <2>1. off = 0 /\ ~k.spoiled
    BY <1>a, <1>b, <1>c
  <2>2. k.clean \in 0 .. Len(h) /\ k.clean < Len(h) /\ k.clean + off = k.clean
    BY <1>1, <1>4, <2>1
  <2>3. E[k.clean] = k.saved
    BY <2>1 DEF Tracks, Saved, NoClean
  <2>. QED
    BY <2>2, <2>3
<1>14. Last(p.history) = c
  BY <1>4, <1>7 DEF Last
<1>. HIDE DEF F, q
<1>15. Sound(q)
  BY <1>9, <1>10, <1>11, <1>12, <1>13 DEF Sound, Tracks
<1>. QED
  BY <1>14, <1>15 DEF q

(* push: the command is merged into the last one; when nothing is left of  *)
(* both, it goes.                                                          *)
LEMMA MergeSound ==
    ASSUME NEW k, InRange(k), Count(k) = k.head, NEW E, Tracks(k, E),
           NEW c \in Command, Leads(c, E[k.head], k.doc), Merges(k, c),
           NEW p, p = [k EXCEPT !.history[k.head] = MergeWith(@, c), !.spoiled = @ \/ IsClean(k)]
    PROVE  /\ ~Last(p.history).obsolete => Sound([p EXCEPT !.head = Count(p)])
           /\ Last(p.history).obsolete =>
                  Sound([DropObsolete(p) EXCEPT !.head = Count(DropObsolete(p))])
<1>. DEFINE n == Len(k.history)
            a == k.history[n]
            m == MergeWith(a, c)
            h == [k.history EXCEPT ![n] = m]
            sp == k.spoiled \/ IsClean(k)
<1>1. /\ k \in Stack /\ k.history \in Seq(Command) /\ n \in Nat /\ k.head = n /\ k.doc \in Docs
      /\ k.clean \in Int /\ k.limit \in Nat /\ k.clean <= n /\ -1 <= k.clean /\ n > 0
      /\ (k.limit > 0 => n <= k.limit)
  BY DEF InRange, Stack, Count, Merges, CanUndo
<1>2. a \in Command /\ CanMergeWith(a, c)
  BY <1>1 DEF Merges
<1>3. /\ E \in [0 .. n -> Docs] /\ \A i \in 1 .. n : Leads(k.history[i], E[i - 1], E[i])
      /\ E[n - 1] \in Docs /\ E[n] \in Docs /\ Leads(a, E[n - 1], E[n])
  BY <1>1 DEF Tracks, Path
<1>4. RedoCommand(E[n], c) = k.doc /\ Leads(c, E[n], RedoCommand(E[n], c))
  BY <1>1 DEF Leads
<1>5. /\ Leads(m, E[n - 1], k.doc) /\ (m.obsolete => k.doc = E[n - 1])
      /\ (~m.obsolete => m \in Command)
  BY <1>2, <1>3, <1>4, MergedLeads
<1>6. /\ Len(h) = n /\ h[n] = m /\ \A i \in 1 .. n : i # n => h[i] = k.history[i]
      /\ DOMAIN h = 1 .. n
  BY <1>1
<1>7. sp \in BOOLEAN /\ (sp = FALSE => ~k.spoiled /\ k.clean # n)
  BY <1>1 DEF IsClean
<1>8. p = [k EXCEPT !.history = h, !.spoiled = sp]
  BY <1>1
<1>. HIDE DEF m, sp
<1>9. /\ p.history = h /\ p.head = n /\ p.clean = k.clean /\ p.limit = k.limit
      /\ p.doc = k.doc /\ p.saved = k.saved /\ p.spoiled = sp
  BY <1>1, <1>8 DEF Stack
<1>10. Last(p.history) = m
  BY <1>6, <1>9 DEF Last
<1>11. ASSUME ~m.obsolete PROVE Sound([p EXCEPT !.head = Count(p)])
  <2>. DEFINE q == [p EXCEPT !.head = Count(p)]
              F == [E EXCEPT ![n] = k.doc]
  <2>1. h \in Seq(Command)
    BY <1>1, <1>5, <1>11
  <2>2. p \in Stack
    BY <1>1, <1>7, <1>8, <2>1 DEF Stack
  <2>3. q = [p EXCEPT !.head = n]
    BY <1>6, <1>9 DEF Count
  <2>. HIDE DEF h
  <2>4. /\ q \in Stack /\ q.history = h /\ q.head = n /\ q.clean = k.clean /\ q.limit = k.limit
        /\ q.doc = k.doc /\ q.saved = k.saved /\ q.spoiled = sp
    BY <1>1, <1>9, <2>2, <2>3 DEF Stack
  <2>5. InRange(q)
    BY <1>1, <1>6, <2>4 DEF InRange, Count
  <2>6. F \in [0 .. n -> Docs] /\ F[n] = k.doc /\ \A i \in 0 .. n : i # n => F[i] = E[i]
    BY <1>1, <1>3
  <2>. HIDE DEF F
  <2>7. ASSUME NEW i \in 1 .. n PROVE Leads(h[i], F[i - 1], F[i])
    <3>0. i - 1 \in 0 .. n /\ i - 1 # n /\ i \in 0 .. n
      BY <1>1
    <3>1. F[i - 1] = E[i - 1]
      BY <2>6, <3>0
    <3>2. CASE i = n
      BY <1>5, <1>6, <2>6, <3>1, <3>2
    <3>3. CASE i # n
      <4>1. F[i] = E[i] /\ h[i] = k.history[i]
        BY <1>6, <2>6, <3>0, <3>3
      <4>. QED
        BY <1>3, <3>1, <4>1
    <3>. QED
      BY <3>2, <3>3
  <2>8. Path(h, F)
    BY <1>6, <2>6, <2>7 DEF Path
  <2>9. Saved(q, F)
    <3>. SUFFICES ASSUME k.clean # -1, sp = FALSE PROVE F[k.clean] = k.saved
      BY <1>7, <2>4 DEF Saved, NoClean
    <3>1. k.clean \in 0 .. n /\ k.clean # n /\ ~k.spoiled
      BY <1>1, <1>7
    <3>2. E[k.clean] = k.saved
      BY <3>1 DEF Tracks, Saved, NoClean
    <3>. QED
      BY <2>6, <3>1, <3>2
  <2>. HIDE DEF q
  <2>10. Sound(q)
    BY <2>4, <2>5, <2>6, <2>8, <2>9 DEF Sound, Tracks
  <2>. QED
    BY <2>10 DEF q
<1>12. ASSUME m.obsolete PROVE Sound([DropObsolete(p) EXCEPT !.head = Count(DropObsolete(p))])
  <2>. DEFINE g == SubSeq(k.history, 1, n - 1)
              cl == IF k.clean >= n THEN NoClean ELSE k.clean
              r == DropObsolete(p)
              q == [r EXCEPT !.head = Count(r)]
              F == [i \in 0 .. n - 1 |-> E[i]]
  <2>1. Front(h) = g /\ g \in Seq(Command) /\ Len(g) = n - 1 /\ n - 1 \in Nat
    <3>1. Front(h) = [i \in 1 .. (n - 1) |-> h[i]]
      BY <1>1, <1>6 DEF Front
    <3>2. g = [i \in 1 .. (n - 1) |-> k.history[i]]
      BY <1>1
    <3>3. \A i \in 1 .. (n - 1) : h[i] = k.history[i]
      BY <1>1, <1>6
    <3>4. Front(h) = g
      BY <3>1, <3>2, <3>3
    <3>5. g \in Seq(Command) /\ Len(g) = n - 1 /\ n - 1 \in Nat
      BY <1>1
    <3>. QED
      BY <3>4, <3>5
  <2>2. cl \in Int /\ -1 <= cl /\ cl <= n - 1 /\ (cl # -1 => cl = k.clean)
    BY <1>1 DEF NoClean
  <2>3. r = [p EXCEPT !.history = g, !.clean = cl]
    BY <1>6, <1>9, <2>1 DEF DropObsolete, Count
  <2>. HIDE DEF g, cl, r
  <2>a. r = [[k EXCEPT !.history = h, !.spoiled = sp] EXCEPT !.history = g, !.clean = cl]
    BY <1>8, <2>3
  <2>4. /\ r \in Stack /\ r.history = g /\ r.head = n /\ r.clean = cl /\ r.limit = k.limit
        /\ r.doc = k.doc /\ r.saved = k.saved /\ r.spoiled = sp
    BY <1>1, <1>7, <2>1, <2>2, <2>a DEF Stack
  <2>5. q = [r EXCEPT !.head = n - 1]
    BY <2>1, <2>4 DEF Count
  <2>6. /\ q \in Stack /\ q.history = g /\ q.head = n - 1 /\ q.clean = cl /\ q.limit = k.limit
        /\ q.doc = k.doc /\ q.saved = k.saved /\ q.spoiled = sp
    BY <2>1, <2>4, <2>5 DEF Stack
  <2>7. InRange(q)
    BY <1>1, <2>1, <2>2, <2>6 DEF InRange, Count
  <2>8. Path(g, F)
    <3>1. n - 1 \in 0 .. Len(k.history)
      BY <1>1
    <3>. QED
      BY <1>1, <3>1, PathPrefix DEF g, Tracks
  <2>9. F[q.head] = q.doc
    BY <1>1, <1>5, <1>12, <2>6
  <2>10. Saved(q, F)
    <3>. SUFFICES ASSUME cl # -1, sp = FALSE PROVE F[cl] = k.saved
      BY <1>7, <2>6 DEF Saved, NoClean
    <3>1. cl = k.clean /\ k.clean # -1 /\ ~k.spoiled /\ cl \in 0 .. n - 1
      BY <1>1, <1>7, <2>2
    <3>2. E[k.clean] = k.saved
      BY <3>1 DEF Tracks, Saved, NoClean
    <3>. QED
      BY <3>1, <3>2
  <2>. HIDE DEF q, F
  <2>11. Sound(q)
    BY <2>6, <2>7, <2>8, <2>9, <2>10 DEF Sound, Tracks
  <2>. QED
    BY <2>11 DEF q, r
<1>. QED
  BY <1>10, <1>11, <1>12

LEMMA PushSound ==
    ASSUME NEW s, Sound(s), NEW c \in Commands(s.doc), NEW merges \in BOOLEAN
    PROVE  Sound(Push(s, c, merges))
<1>1. s.doc \in Docs /\ InRange(s)
  BY DEF Sound, InRange, Stack
<1>2. PICK D : Tracks(s, D) /\ D[s.head] = s.doc
  BY DEF Sound
<1>. DEFINE e == RedoCommand(s.doc, c)
            done == [s EXCEPT !.doc = e]
            kept == Truncate(done)
<1>3. c \in Command /\ Leads(c, s.doc, e) /\ e \in Docs
  BY <1>1, CommandsLead
<1>. HIDE DEF e
<1>4. InRange(kept) /\ Count(kept) = kept.head /\ kept.doc = e
  BY <1>1, <1>2, <1>3, TruncateSound
<1>5. PICK E : Tracks(kept, E) /\ E[kept.head] = s.doc
  BY <1>1, <1>2, <1>3, TruncateSound
<1>. HIDE DEF kept
<1>6. Leads(c, E[kept.head], kept.doc)
  BY <1>3, <1>4, <1>5
<1>. DEFINE merged == [kept EXCEPT !.history[kept.head] = MergeWith(@, c),
                                   !.spoiled = @ \/ IsClean(kept)]
            grown  == [kept EXCEPT !.history = Append(IF AtLimit(kept) THEN Tail(@) ELSE @, c),
                                   !.spoiled = @ \/ AtLimit(kept)]
            last(p) == IF Last(p.history).obsolete THEN DropObsolete(p) ELSE p
            end(p)  == [p EXCEPT !.head = Count(p)]
<1>7. Push(s, c, merges) = IF merges /\ Merges(kept, c) THEN end(last(merged)) ELSE end(last(grown))
  BY DEF Push, kept, e
<1>8. CASE merges /\ Merges(kept, c)
  <2>1. /\ ~Last(merged.history).obsolete => Sound(end(merged))
        /\ Last(merged.history).obsolete => Sound(end(DropObsolete(merged)))
    BY <1>3, <1>4, <1>5, <1>6, <1>8, MergeSound
  <2>. HIDE DEF merged, end
  <2>. QED
    BY <1>7, <1>8, <2>1
<1>9. CASE ~(merges /\ Merges(kept, c))
  <2>0. PICK p : p = grown
    OBVIOUS
  <2>a. Sound(end(p)) /\ Last(p.history) = c
    BY <1>3, <1>4, <1>5, <1>6, <2>0, AppendSound
  <2>1. Sound(end(grown)) /\ Last(grown.history) = c
    <3>. HIDE DEF grown
    <3>. QED
      BY <2>0, <2>a
  <2>2. c.obsolete = FALSE
    BY <1>3 DEF Command
  <2>. HIDE DEF grown, end
  <2>. QED
    BY <1>7, <1>9, <2>1, <2>2
<1>. QED
  BY <1>8, <1>9

-----------------------------------------------------------------------------
(* Moving the head.                                                        *)

(* The stack with its head at j of the path, and the position set_head     *)
(* makes of an index.                                                      *)
Moved(s, D, j) == [s EXCEPT !.head = j, !.doc = D[j]]
Clip(s, j) == IF j > Count(s) THEN Count(s) ELSE j

(* set_head arrives at the document of the position it is given.           *)
LEMMA SetHeadDoc ==
    ASSUME NEW s, InRange(s), NEW D, Path(s.history, D), D[s.head] = s.doc, NEW j \in Nat
    PROVE  Clip(s, j) \in 0 .. Count(s) /\ SetHead(s, j) = Moved(s, D, Clip(s, j))
<1>. DEFINE n == Count(s)
            t == IF j > n THEN n ELSE j
            BackEq(f) == f = [i \in 0 .. n |->
                IF i >= s.head THEN s.doc ELSE UndoCommand(f[i + 1], s.history[i + 1])]
            ForthEq(f) == f = [i \in 0 .. n |->
                IF i <= s.head THEN s.doc ELSE RedoCommand(f[i - 1], s.history[i])]
            B == [i \in 0 .. n |-> IF i >= s.head THEN s.doc ELSE D[i]]
            F == [i \in 0 .. n |-> IF i <= s.head THEN s.doc ELSE D[i]]
            back == CHOOSE f : BackEq(f)
            forth == CHOOSE f : ForthEq(f)
<1>1. n \in Nat /\ s.head \in 0 .. n /\ n = Len(s.history) /\ t \in 0 .. n
  BY DEF InRange, Stack, Count
<1>2. \A i \in 1 .. n : Leads(s.history[i], D[i - 1], D[i])
  BY <1>1 DEF Path
<1>3. SetHead(s, j) = [s EXCEPT !.head = t, !.doc = IF t < s.head THEN back[t] ELSE forth[t]]
  BY DEF SetHead
<1>. HIDE DEF n
<1>4. BackEq(B)
  <2>1. ASSUME NEW i \in 0 .. n, ~(i >= s.head)
        PROVE  D[i] = UndoCommand(B[i + 1], s.history[i + 1])
    <3>1. i + 1 \in 1 .. n /\ i + 1 \in 0 .. n /\ (i + 1) - 1 = i
          /\ (i + 1 >= s.head => i + 1 = s.head)
      BY <1>1, <2>1
    <3>2. B[i + 1] = D[i + 1]
      BY <3>1
    <3>3. UndoCommand(D[i + 1], s.history[i + 1]) = D[(i + 1) - 1]
      BY <1>2, <3>1 DEF Leads
    <3>. QED
      BY <3>1, <3>2, <3>3
  <2>2. ASSUME NEW i \in 0 .. n
        PROVE  B[i] = IF i >= s.head THEN s.doc ELSE UndoCommand(B[i + 1], s.history[i + 1])
    BY <2>1
  <2>3. B = [i \in 0 .. n |-> B[i]]
    OBVIOUS
  <2>. HIDE DEF B
  <2>. QED
    BY <2>2, <2>3
<1>5. ForthEq(F)
  <2>1. ASSUME NEW i \in 0 .. n, ~(i <= s.head)
        PROVE  D[i] = RedoCommand(F[i - 1], s.history[i])
    <3>1. i \in 1 .. n /\ i - 1 \in 0 .. n /\ (i - 1 <= s.head => i - 1 = s.head)
      BY <1>1, <2>1
    <3>2. F[i - 1] = D[i - 1]
      BY <3>1
    <3>3. RedoCommand(D[i - 1], s.history[i]) = D[i]
      BY <1>2, <3>1 DEF Leads
    <3>. QED
      BY <3>2, <3>3
  <2>2. ASSUME NEW i \in 0 .. n
        PROVE  F[i] = IF i <= s.head THEN s.doc ELSE RedoCommand(F[i - 1], s.history[i])
    BY <2>1
  <2>3. F = [i \in 0 .. n |-> F[i]]
    OBVIOUS
  <2>. HIDE DEF F
  <2>. QED
    BY <2>2, <2>3
<1>6. BackEq(back) /\ ForthEq(forth)
  <2>. HIDE DEF B, F, BackEq, ForthEq
  <2>. QED
    BY <1>4, <1>5
<1>. HIDE DEF back, forth
<1>7. \A i \in 0 .. n : back[i] = B[i]
  <2>. DEFINE Bad == {x \in Nat : x <= n /\ back[n - x] # B[n - x]}
  <2>. SUFFICES ASSUME Bad # {} PROVE FALSE
    <3>1. ASSUME NEW i \in 0 .. n, Bad = {} PROVE back[i] = B[i]
      <4>1. n - i \in Nat /\ n - i <= n /\ n - (n - i) = i
        BY <1>1
      <4>. HIDE DEF B
      <4>. QED
        BY <3>1, <4>1
    <3>. QED
      BY <3>1
  <2>1. PICK x \in Bad : \A y \in Bad : x <= y
    BY LeastNat
  <2>. DEFINE i == n - x
  <2>2. x \in Nat /\ x <= n /\ back[i] # B[i] /\ i \in 0 .. n
    BY <1>1
  <2>3. back[i] = IF i >= s.head THEN s.doc ELSE UndoCommand(back[i + 1], s.history[i + 1])
    BY <1>6, <2>2
  <2>4. B[i] = IF i >= s.head THEN s.doc ELSE UndoCommand(B[i + 1], s.history[i + 1])
    BY <1>4, <2>2
  <2>5. ~(i >= s.head)
    <3>. HIDE DEF B
    <3>. QED
      BY <2>2, <2>3, <2>4
  <2>6. x - 1 \in Nat /\ x - 1 <= n /\ n - (x - 1) = i + 1 /\ ~(x <= x - 1)
    BY <1>1, <2>2, <2>5
  <2>7. back[i + 1] = B[i + 1]
    <3>. HIDE DEF B
    <3>. QED
      BY <2>1, <2>6
  <2>. HIDE DEF B
  <2>. QED
    BY <2>2, <2>3, <2>4, <2>5, <2>7
<1>8. \A i \in 0 .. n : forth[i] = F[i]
  <2>. DEFINE Bad == {i \in Nat : i <= n /\ forth[i] # F[i]}
  <2>. SUFFICES ASSUME Bad # {} PROVE FALSE
    <3>1. ASSUME NEW i \in 0 .. n, Bad = {} PROVE forth[i] = F[i]
      <4>1. i \in Nat /\ i <= n
        BY <1>1
      <4>. HIDE DEF F
      <4>. QED
        BY <3>1, <4>1
    <3>. QED
      BY <3>1
  <2>1. PICK i \in Bad : \A y \in Bad : i <= y
    BY LeastNat
  <2>2. i \in Nat /\ i <= n /\ forth[i] # F[i] /\ i \in 0 .. n
    BY <1>1
  <2>3. forth[i] = IF i <= s.head THEN s.doc ELSE RedoCommand(forth[i - 1], s.history[i])
    BY <1>6, <2>2
  <2>4. F[i] = IF i <= s.head THEN s.doc ELSE RedoCommand(F[i - 1], s.history[i])
    BY <1>5, <2>2
  <2>5. ~(i <= s.head)
    <3>. HIDE DEF F
    <3>. QED
      BY <2>2, <2>3, <2>4
  <2>6. i - 1 \in Nat /\ i - 1 <= n /\ ~(i <= i - 1)
    BY <1>1, <2>2, <2>5
  <2>7. forth[i - 1] = F[i - 1]
    <3>. HIDE DEF F
    <3>. QED
      BY <2>1, <2>6
  <2>. HIDE DEF F
  <2>. QED
    BY <2>2, <2>3, <2>4, <2>5, <2>7
<1>9. (IF t < s.head THEN back[t] ELSE forth[t]) = D[t]
  <2>1. CASE t < s.head
    <3>1. B[t] = D[t]
      BY <1>1, <2>1
    <3>. HIDE DEF B, t
    <3>. QED
      BY <1>1, <1>7, <2>1, <3>1
  <2>2. CASE ~(t < s.head)
    <3>1. F[t] = D[t]
      BY <1>1, <2>2
    <3>. HIDE DEF F, t
    <3>. QED
      BY <1>1, <1>8, <2>2, <3>1
  <2>. QED
    BY <2>1, <2>2
<1>. HIDE DEF t
<1>10. t \in 0 .. n /\ SetHead(s, j) = [s EXCEPT !.head = t, !.doc = D[t]]
  BY <1>1, <1>3, <1>9
<1>. QED
  BY <1>10 DEF t, n, Clip, Moved

(* A stack whose head moved along its path.                                *)
LEMMA MovedSound ==
    ASSUME NEW s, InRange(s), NEW D, Tracks(s, D), NEW j \in 0 .. Count(s)
    PROVE  /\ InRange(Moved(s, D, j)) /\ Tracks(Moved(s, D, j), D)
           /\ Moved(s, D, j).doc = D[j] /\ Moved(s, D, j).head = j
           /\ Moved(s, D, j).history = s.history
<1>. DEFINE r == Moved(s, D, j)
<1>1. /\ s \in Stack /\ j \in Nat /\ D[j] \in Docs /\ j <= Count(s)
  BY DEF InRange, Stack, Count, Tracks, Path
<1>2. /\ r \in Stack /\ r.history = s.history /\ r.head = j /\ r.doc = D[j] /\ r.clean = s.clean
      /\ r.limit = s.limit /\ r.saved = s.saved /\ r.spoiled = s.spoiled
  BY <1>1 DEF Stack, Moved
<1>. HIDE DEF r
<1>3. InRange(r)
  BY <1>1, <1>2 DEF InRange, Count
<1>4. Saved(r, D)
  <2>1. Saved(s, D)
    BY DEF Tracks
  <2>. QED
    BY <1>2, <2>1 DEF Saved
<1>. QED
  BY <1>2, <1>3, <1>4 DEF Tracks, r

LEMMA UndoMoves ==
    ASSUME NEW s, InRange(s), NEW D, Path(s.history, D), D[s.head] = s.doc, s.head > 0
    PROVE  Undo(s) = Moved(s, D, s.head - 1) /\ s.head - 1 \in 0 .. Count(s)
<1>1. s.head \in 1 .. Len(s.history) /\ s.head - 1 \in 0 .. Count(s)
  BY DEF InRange, Stack, Count
<1>2. UndoCommand(s.doc, s.history[s.head]) = D[s.head - 1]
  BY <1>1 DEF Path, Leads
<1>. QED
  BY <1>1, <1>2 DEF Undo, CanUndo, Moved

LEMMA RedoMoves ==
    ASSUME NEW s, InRange(s), NEW D, Path(s.history, D), D[s.head] = s.doc, s.head < Count(s)
    PROVE  Redo(s) = Moved(s, D, s.head + 1) /\ s.head + 1 \in 0 .. Count(s)
<1>1. s.head + 1 \in 1 .. Len(s.history) /\ s.head + 1 \in 0 .. Count(s) /\ (s.head + 1) - 1 = s.head
  BY DEF InRange, Stack, Count
<1>2. RedoCommand(s.doc, s.history[s.head + 1]) = D[s.head + 1]
  BY <1>1 DEF Path, Leads
<1>. QED
  BY <1>1, <1>2 DEF Redo, CanRedo, Moved

(* The operations of a stack keep it sound.                                *)
LEMMA MovesSound ==
    ASSUME NEW s, Sound(s), NEW j \in Nat
    PROVE  Sound(Undo(s)) /\ Sound(Redo(s)) /\ Sound(SetHead(s, j))
<1>1. InRange(s)
  BY DEF Sound
<1>2. PICK D : Tracks(s, D) /\ D[s.head] = s.doc
  BY DEF Sound
<1>3. Path(s.history, D) /\ s.head \in Nat /\ Count(s) \in Nat /\ s.head <= Count(s)
  BY <1>1, <1>2 DEF Tracks, InRange, Stack, Count
<1>4. ASSUME NEW i \in 0 .. Count(s)
      PROVE  Sound(Moved(s, D, i))
  <2>1. /\ InRange(Moved(s, D, i)) /\ Tracks(Moved(s, D, i), D)
        /\ D[Moved(s, D, i).head] = Moved(s, D, i).doc
    BY <1>1, <1>2, MovedSound
  <2>. QED
    BY <2>1 DEF Sound
<1>5. Sound(Undo(s))
  <2>1. CASE s.head > 0
    <3>1. PICK i : i = s.head - 1
      OBVIOUS
    <3>2. Undo(s) = Moved(s, D, i) /\ i \in 0 .. Count(s)
      BY <1>1, <1>2, <1>3, <2>1, <3>1, UndoMoves
    <3>. QED
      BY <1>4, <3>2
  <2>2. CASE ~(s.head > 0)
    BY <2>2 DEF Undo, CanUndo
  <2>. QED
    BY <2>1, <2>2
<1>6. Sound(Redo(s))
  <2>1. CASE s.head < Count(s)
    <3>1. PICK i : i = s.head + 1
      OBVIOUS
    <3>2. Redo(s) = Moved(s, D, i) /\ i \in 0 .. Count(s)
      BY <1>1, <1>2, <1>3, <2>1, <3>1, RedoMoves
    <3>. QED
      BY <1>4, <3>2
  <2>2. CASE ~(s.head < Count(s))
    BY <2>2 DEF Redo, CanRedo
  <2>. QED
    BY <2>1, <2>2
<1>7. Sound(SetHead(s, j))
  <2>1. PICK i : i = Clip(s, j)
    OBVIOUS
  <2>2. i \in 0 .. Count(s) /\ SetHead(s, j) = Moved(s, D, i)
    BY <1>1, <1>2, <1>3, <2>1, SetHeadDoc
  <2>. QED
    BY <1>4, <2>2
<1>. QED
  BY <1>5, <1>6, <1>7

(* A stack without commands.                                               *)
LEMMA EmptySound ==
    ASSUME NEW s, s \in Stack, s.history = <<>>, s.head = 0,
           s.clean = NoClean \/ (s.clean = 0 /\ (s.spoiled \/ s.doc = s.saved))
    PROVE  Sound(s)
<1>. DEFINE D == [i \in 0 .. 0 |-> s.doc]
<1>1. Count(s) = 0 /\ s.doc \in Docs /\ s.limit \in Nat
  BY DEF Count, Stack
<1>2. InRange(s)
  BY <1>1 DEF InRange, NoClean
<1>3. Path(s.history, D) /\ D[0] = s.doc
  BY <1>1 DEF Path
<1>4. Saved(s, D)
  BY <1>3 DEF Saved
<1>. QED
  BY <1>2, <1>3, <1>4 DEF Sound, Tracks

LEMMA OthersSound ==
    ASSUME NEW s, Sound(s), NEW l \in Nat
    PROVE  /\ Sound(Clear(s)) /\ Sound(SetClean(s)) /\ Sound(ResetClean(s))
           /\ Sound(SetUndoLimit(s, l))
<1>1. s \in Stack /\ InRange(s) /\ s.doc \in Docs /\ s.head \in Nat /\ s.head <= Count(s)
  BY DEF Sound, InRange, Stack
<1>2. PICK D : Tracks(s, D) /\ D[s.head] = s.doc
  BY DEF Sound
<1>3. Sound(Clear(s))
  <2>1. PICK r : r = Clear(s)
    OBVIOUS
  <2>2. r \in Stack /\ r.history = <<>> /\ r.head = 0 /\ r.clean = NoClean
    <3>1. PICK x : x = [s EXCEPT !.history = <<>>]
      OBVIOUS
    <3>2. <<>> \in Seq(Command)
      OBVIOUS
    <3>3. x \in Stack /\ x.history = <<>>
      BY <1>1, <3>1, <3>2 DEF Stack
    <3>4. PICK y : y = [x EXCEPT !.head = 0]
      OBVIOUS
    <3>5. y \in Stack /\ y.history = <<>> /\ y.head = 0
      BY <3>3, <3>4 DEF Stack
    <3>6. r = [y EXCEPT !.clean = NoClean] /\ NoClean \in Int
      BY <2>1, <3>1, <3>4 DEF Clear, NoClean
    <3>. QED
      BY <3>5, <3>6 DEF Stack
  <2>. QED
    BY <2>1, <2>2, EmptySound
<1>4. Sound(SetClean(s))
  <2>1. PICK r : r = SetClean(s)
    OBVIOUS
  <2>2. /\ r \in Stack /\ r.history = s.history /\ r.head = s.head /\ r.doc = s.doc
        /\ r.limit = s.limit /\ r.clean = s.head /\ r.saved = s.doc
    <3>1. PICK x : x = [s EXCEPT !.clean = s.head]
      OBVIOUS
    <3>2. /\ x \in Stack /\ x.history = s.history /\ x.head = s.head /\ x.doc = s.doc
          /\ x.limit = s.limit /\ x.clean = s.head
      BY <1>1, <3>1 DEF Stack
    <3>3. PICK y : y = [x EXCEPT !.saved = s.doc]
      OBVIOUS
    <3>4. /\ y \in Stack /\ y.history = s.history /\ y.head = s.head /\ y.doc = s.doc
          /\ y.limit = s.limit /\ y.clean = s.head /\ y.saved = s.doc
      BY <1>1, <3>2, <3>3 DEF Stack
    <3>5. r = [y EXCEPT !.spoiled = FALSE]
      BY <2>1, <3>1, <3>3 DEF SetClean
    <3>. QED
      BY <3>4, <3>5 DEF Stack
  <2>3. InRange(r)
    BY <1>1, <2>2 DEF InRange, Count
  <2>4. Tracks(r, D) /\ D[r.head] = r.doc
    BY <1>2, <2>2 DEF Tracks, Saved
  <2>. QED
    BY <2>1, <2>3, <2>4 DEF Sound
<1>5. Sound(ResetClean(s))
  <2>1. PICK r : r = ResetClean(s)
    OBVIOUS
  <2>2. /\ r \in Stack /\ r.history = s.history /\ r.head = s.head /\ r.doc = s.doc
        /\ r.limit = s.limit /\ r.clean = NoClean
    BY <1>1, <2>1 DEF ResetClean, Stack, NoClean
  <2>3. InRange(r)
    BY <1>1, <2>2 DEF InRange, Count, NoClean
  <2>4. Tracks(r, D) /\ D[r.head] = r.doc
    BY <1>2, <2>2 DEF Tracks, Saved
  <2>. QED
    BY <2>1, <2>3, <2>4 DEF Sound
<1>6. Sound(SetUndoLimit(s, l))
  <2>1. CASE s.history = <<>>
    <3>1. PICK r : r = [s EXCEPT !.limit = l]
      OBVIOUS
    <3>2. /\ r \in Stack /\ r.history = s.history /\ r.head = s.head /\ r.doc = s.doc
          /\ r.clean = s.clean /\ r.saved = s.saved /\ r.spoiled = s.spoiled
      BY <1>1, <3>1 DEF Stack
    <3>3. InRange(r)
      <4>1. Count(s) = 0 /\ Count(r) = 0 /\ r.limit \in Nat
        BY <2>1, <3>2 DEF Count, Stack
      <4>. QED
        BY <1>1, <3>2, <4>1 DEF InRange
    <3>4. Tracks(r, D) /\ D[r.head] = r.doc
      <4>1. Path(s.history, D) /\ Saved(s, D)
        BY <1>2 DEF Tracks
      <4>2. Saved(r, D)
        BY <3>2, <4>1 DEF Saved
      <4>. QED
        BY <1>2, <3>2, <4>1, <4>2 DEF Tracks
    <3>. QED
      BY <2>1, <3>1, <3>3, <3>4 DEF Sound, SetUndoLimit
  <2>2. CASE s.history # <<>>
    BY <2>2 DEF SetUndoLimit
  <2>. QED
    BY <2>1, <2>2
<1>. QED
  BY <1>3, <1>4, <1>5, <1>6

LEMMA NewSound == Sound(NewStack(Blank))
<1>1. Blank \in Docs
  BY UndoAssumption DEF Blank, Docs
<1>2. PICK s : s = NewStack(Blank)
  OBVIOUS
<1>3. s \in Stack /\ s.history = <<>> /\ s.head = 0 /\ s.clean = NoClean
  BY <1>1, <1>2 DEF NewStack, Stack, NoClean
<1>. QED
  BY <1>2, <1>3, EmptySound

-----------------------------------------------------------------------------
(* What soundness says of a stack.                                         *)
LEMMA SoundWalk ==
    ASSUME NEW s, Sound(s), NEW i \in 0 .. Count(s)
    PROVE  LET t == SetHead(s, i)
           IN  /\ i > 0        => Redo(Undo(t)).doc = t.doc
               /\ i < Count(s) => Undo(Redo(t)).doc = t.doc
               /\ SetHead(t, s.head).doc = s.doc
<1>1. InRange(s) /\ Count(s) \in Nat /\ i \in Nat /\ s.head \in Nat
  BY DEF Sound, InRange, Stack, Count
<1>2. PICK D : Tracks(s, D) /\ D[s.head] = s.doc
  BY DEF Sound
<1>3. Path(s.history, D)
  BY <1>2 DEF Tracks
<1>4. PICK t : t = SetHead(s, i)
  OBVIOUS
<1>5. t = Moved(s, D, i)
  <2>1. Clip(s, i) = i
    BY <1>1 DEF Clip
  <2>. QED
    BY <1>1, <1>2, <1>3, <1>4, <2>1, SetHeadDoc
<1>6. InRange(t) /\ Tracks(t, D) /\ D[t.head] = t.doc /\ t.head = i /\ t.history = s.history
  BY <1>1, <1>2, <1>5, MovedSound
<1>7. Path(t.history, D) /\ Count(t) = Count(s)
  BY <1>3, <1>6 DEF Count
<1>8. ASSUME i > 0 PROVE Redo(Undo(t)).doc = t.doc
  <2>1. PICK j : j = i - 1
    OBVIOUS
  <2>2. PICK u : u = Undo(t)
    OBVIOUS
  <2>3. u = Moved(t, D, j) /\ j \in 0 .. Count(t)
    BY <1>6, <1>7, <1>8, <2>1, <2>2, UndoMoves
  <2>4. InRange(u) /\ D[u.head] = u.doc /\ u.head = j /\ Path(u.history, D) /\ Count(u) = Count(s)
    BY <1>6, <1>7, <2>3, MovedSound DEF Count
  <2>5. u.head < Count(u) /\ u.head + 1 = i
    BY <1>1, <2>1, <2>4
  <2>6. Redo(u) = Moved(u, D, i)
    BY <2>4, <2>5, RedoMoves
  <2>7. u \in Stack
    BY <2>4 DEF InRange
  <2>8. Redo(u).doc = D[i]
    BY <2>6, <2>7 DEF Stack, Moved
  <2>. QED
    BY <1>6, <2>2, <2>8
<1>9. ASSUME i < Count(s) PROVE Undo(Redo(t)).doc = t.doc
  <2>1. PICK j : j = i + 1
    OBVIOUS
  <2>2. PICK u : u = Redo(t)
    OBVIOUS
  <2>3. u = Moved(t, D, j) /\ j \in 0 .. Count(t)
    BY <1>6, <1>7, <1>9, <2>1, <2>2, RedoMoves
  <2>4. InRange(u) /\ D[u.head] = u.doc /\ u.head = j /\ Path(u.history, D)
    BY <1>6, <1>7, <2>3, MovedSound
  <2>5. u.head > 0 /\ u.head - 1 = i
    BY <1>1, <2>1, <2>4
  <2>6. Undo(u) = Moved(u, D, i)
    BY <2>4, <2>5, UndoMoves
  <2>7. u \in Stack
    BY <2>4 DEF InRange
  <2>8. Undo(u).doc = D[i]
    BY <2>6, <2>7 DEF Stack, Moved
  <2>. QED
    BY <1>6, <2>2, <2>8
<1>10. SetHead(t, s.head).doc = s.doc
  <2>1. Clip(t, s.head) = s.head
    BY <1>1, <1>7 DEF InRange, Clip
  <2>2. SetHead(t, s.head) = Moved(t, D, s.head)
    BY <1>1, <1>6, <1>7, <2>1, SetHeadDoc
  <2>3. t \in Stack
    BY <1>6 DEF InRange
  <2>4. SetHead(t, s.head).doc = D[s.head]
    BY <2>2, <2>3 DEF Stack, Moved
  <2>. QED
    BY <1>2, <2>4
<1>. QED
  BY <1>4, <1>8, <1>9, <1>10

LEMMA SoundClean ==
    ASSUME NEW s, Sound(s), s.clean # NoClean, ~s.spoiled
    PROVE  SetHead(s, s.clean).doc = s.saved
<1>1. InRange(s) /\ s \in Stack /\ s.clean \in Nat /\ s.clean <= Count(s) /\ Count(s) \in Nat
  BY DEF Sound, InRange, Stack, Count, NoClean
<1>2. PICK D : Tracks(s, D) /\ D[s.head] = s.doc
  BY DEF Sound
<1>3. Clip(s, s.clean) = s.clean
  BY <1>1 DEF Clip
<1>4. SetHead(s, s.clean) = Moved(s, D, s.clean)
  BY <1>1, <1>2, <1>3, SetHeadDoc DEF Tracks
<1>5. D[s.clean] = s.saved
  BY <1>2 DEF Tracks, Saved
<1>6. SetHead(s, s.clean).doc = D[s.clean]
  BY <1>1, <1>4 DEF Stack, Moved
<1>. QED
  BY <1>5, <1>6

-----------------------------------------------------------------------------
(* The group.                                                              *)
StacksSound == \A n \in DOMAIN stacks : Sound(stacks[n])

LEMMA OnActiveSound ==
    ASSUME StacksSound, ActiveExists, active # NoName, NEW r, Sound(r),
           stacks' = [stacks EXCEPT ![active] = r]
    PROVE  StacksSound'
BY DEF StacksSound, ActiveExists

LEMMA StacksStep == StacksSound /\ ActiveExists /\ [Next]_vars => StacksSound'
<1>. SUFFICES ASSUME StacksSound, ActiveExists, [Next]_vars PROVE StacksSound'
  OBVIOUS
<1>0. active # NoName => Sound(stacks[active])
  BY DEF StacksSound, ActiveExists
<1>1. CASE GroupPush
  <2>1. PICK c \in Commands(stacks[active].doc), merges \in BOOLEAN :
            OnActive(LAMBDA s : Push(s, c, merges))
    BY <1>1 DEF GroupPush
  <2>2. active # NoName /\ stacks' = [stacks EXCEPT ![active] = Push(stacks[active], c, merges)]
    BY <2>1 DEF OnActive
  <2>3. Sound(Push(stacks[active], c, merges))
    BY <1>0, <2>2, PushSound
  <2>. QED
    BY <2>2, <2>3, OnActiveSound
<1>2. CASE GroupUndo
  <2>1. active # NoName /\ stacks' = [stacks EXCEPT ![active] = Undo(stacks[active])]
    BY <1>2 DEF GroupUndo, OnActive
  <2>2. Sound(Undo(stacks[active]))
    BY <1>0, <2>1, MovesSound
  <2>. QED
    BY <2>1, <2>2, OnActiveSound
<1>3. CASE GroupRedo
  <2>1. active # NoName /\ stacks' = [stacks EXCEPT ![active] = Redo(stacks[active])]
    BY <1>3 DEF GroupRedo, OnActive
  <2>2. Sound(Redo(stacks[active]))
    BY <1>0, <2>1, MovesSound
  <2>. QED
    BY <2>1, <2>2, OnActiveSound
<1>4. CASE GroupClear
  <2>1. active # NoName /\ stacks' = [stacks EXCEPT ![active] = Clear(stacks[active])]
    BY <1>4 DEF GroupClear, OnActive
  <2>2. Sound(Clear(stacks[active]))
    BY <1>0, <2>1, OthersSound
  <2>. QED
    BY <2>1, <2>2, OnActiveSound
<1>5. CASE GroupSetHead
  <2>1. PICK i \in 0 .. MaxCount + 1 : OnActive(LAMBDA s : SetHead(s, i))
    BY <1>5 DEF GroupSetHead
  <2>2. active # NoName /\ stacks' = [stacks EXCEPT ![active] = SetHead(stacks[active], i)]
    BY <2>1 DEF OnActive
  <2>3. Sound(SetHead(stacks[active], i))
    BY <1>0, <2>2, MovesSound, UndoAssumption
  <2>. QED
    BY <2>2, <2>3, OnActiveSound
<1>6. CASE GroupSetClean
  <2>1. active # NoName /\ stacks' = [stacks EXCEPT ![active] = SetClean(stacks[active])]
    BY <1>6 DEF GroupSetClean, OnActive
  <2>2. Sound(SetClean(stacks[active]))
    BY <1>0, <2>1, OthersSound
  <2>. QED
    BY <2>1, <2>2, OnActiveSound
<1>7. CASE GroupResetClean
  <2>1. active # NoName /\ stacks' = [stacks EXCEPT ![active] = ResetClean(stacks[active])]
    BY <1>7 DEF GroupResetClean, OnActive
  <2>2. Sound(ResetClean(stacks[active]))
    BY <1>0, <2>1, OthersSound
  <2>. QED
    BY <2>1, <2>2, OnActiveSound
<1>8. CASE GroupSetUndoLimit
  <2>1. PICK n \in Limits : OnActive(LAMBDA s : SetUndoLimit(s, n))
    BY <1>8 DEF GroupSetUndoLimit
  <2>2. active # NoName /\ stacks' = [stacks EXCEPT ![active] = SetUndoLimit(stacks[active], n)]
    BY <2>1 DEF OnActive
  <2>3. n \in Nat
    BY UndoAssumption
  <2>4. Sound(SetUndoLimit(stacks[active], n))
    BY <1>0, <2>2, <2>3, OthersSound
  <2>. QED
    BY <2>2, <2>4, OnActiveSound
<1>9. ASSUME NEW n \in Names, AddStack(n) PROVE StacksSound'
  BY <1>9, NewSound DEF AddStack, StacksSound
<1>10. ASSUME NEW n \in Names, RemoveStack(n) PROVE StacksSound'
  BY <1>10 DEF RemoveStack, StacksSound
<1>11. ASSUME NEW n \in Names, SetActive(n) PROVE StacksSound'
  BY <1>11 DEF SetActive, StacksSound
<1>12. ASSUME NEW n \in Names, NEW m \in Names \union {NoName}, RelabelStack(n, m) PROVE StacksSound'
  BY <1>12 DEF RelabelStack, StacksSound
<1>13. CASE UNCHANGED vars
  BY <1>13 DEF vars, StacksSound
<1>. QED
  BY <1>1, <1>2, <1>3, <1>4, <1>5, <1>6, <1>7, <1>8, <1>9, <1>10, <1>11, <1>12, <1>13 DEF Next

(* What the functors report: the observer who knew the old state of the    *)
(* active stack knows the new one.                                         *)
LEMMA SeenFields ==
    ASSUME NEW s
    PROVE  /\ DOMAIN Seen(s) = {"head", "clean", "canUndo", "canRedo"}
           /\ Seen(s) = [f \in {"head", "clean", "canUndo", "canRedo"} |-> Seen(s)[f]]
BY DEF Seen

LEMMA OnActiveView ==
    ASSUME ViewFresh, active # NoName, NEW r, UNCHANGED active,
           stacks' = [stacks EXCEPT ![active] = r],
           CheckStateTransitions(stacks[active], stacks'[active])
    PROVE  ViewFresh'
<1>1. active \in DOMAIN stacks /\ active' = active /\ DOMAIN stacks' = DOMAIN stacks
  BY DEF ViewFresh, ActiveExists
<1>2. PICK old : old = stacks[active]
  OBVIOUS
<1>3. PICK new : new = stacks'[active]
  OBVIOUS
<1>4. view = Seen(old)
  BY <1>2 DEF ViewFresh
<1>5. view' = [f \in DOMAIN view |-> IF Seen(new)[f] # Seen(old)[f] THEN Seen(new)[f] ELSE view[f]]
  BY <1>2, <1>3 DEF CheckStateTransitions
<1>6. view' = [f \in DOMAIN Seen(old) |-> Seen(new)[f]]
  BY <1>4, <1>5
<1>7. view' = Seen(new)
  BY <1>6, SeenFields
<1>8. Seen(stacks[active])' = Seen(new)
  BY <1>1, <1>3 DEF Seen, IsClean, CanUndo, CanRedo, Count
<1>. QED
  BY <1>1, <1>7, <1>8 DEF ViewFresh, ActiveExists

LEMMA ViewStep == CarefulRelabel /\ ViewFresh /\ [Next]_vars => ViewFresh'
<1>. SUFFICES ASSUME CarefulRelabel, ViewFresh, [Next]_vars PROVE ViewFresh'
  OBVIOUS
<1>1. CASE GroupPush
  BY <1>1, OnActiveView DEF GroupPush, OnActive
<1>2. CASE GroupUndo \/ GroupRedo \/ GroupClear \/ GroupSetClean \/ GroupResetClean
  BY <1>2, OnActiveView DEF GroupUndo, GroupRedo, GroupClear, GroupSetClean, GroupResetClean, OnActive
<1>3. CASE GroupSetHead \/ GroupSetUndoLimit
  BY <1>3, OnActiveView DEF GroupSetHead, GroupSetUndoLimit, OnActive
<1>. USE DEF ViewFresh, ActiveExists, Seen, IsClean, CanUndo, CanRedo, Count
<1>4. ASSUME NEW n \in Names, AddStack(n) PROVE ViewFresh'
  BY <1>4 DEF AddStack
<1>5. ASSUME NEW n \in Names, RemoveStack(n) PROVE ViewFresh'
  BY <1>5 DEF RemoveStack, ChangeActiveStack
<1>6. ASSUME NEW n \in Names, SetActive(n) PROVE ViewFresh'
  BY <1>6, UndoAssumption DEF SetActive, ChangeActiveStack
<1>7. ASSUME NEW n \in Names, NEW m \in Names \union {NoName}, RelabelStack(n, m) PROVE ViewFresh'
  <2>1. m \notin DOMAIN stacks /\ m # NoName /\ n \in DOMAIN stacks /\ view' = view
    BY <1>7 DEF RelabelStack
  <2>2. active # NoName => active' \in DOMAIN stacks' /\ stacks'[active'] = stacks[active]
    BY <1>7, <2>1 DEF RelabelStack
  <2>3. active' = NoName <=> active = NoName
    BY <1>7, <2>1, UndoAssumption DEF RelabelStack
  <2>. QED
    BY <2>1, <2>2, <2>3
<1>8. CASE UNCHANGED vars
  BY <1>8 DEF vars
<1>. QED
  BY <1>1, <1>2, <1>3, <1>4, <1>5, <1>6, <1>7, <1>8 DEF Next

LEMMA GroupInit == Init => StacksSound /\ ViewFresh
BY DEF Init, StacksSound, ViewFresh, ActiveExists

(* For any number of stacks and any sequence of operations: the observer   *)
(* always knows the state of the active stack, and the active stack        *)
(* exists, as long as the client relabels to unused names only.            *)
THEOREM ViewFreshHolds ==
    ASSUME CarefulRelabel
    PROVE  Spec => []ViewFresh
<1>1. ViewFresh /\ [Next]_vars => ViewFresh'
  BY ViewStep
<1>. QED
  BY <1>1, GroupInit, PTL DEF Spec

LEMMA GroupSound ==
    ASSUME CarefulRelabel
    PROVE  Spec => []StacksSound
<1>1. ViewFresh /\ StacksSound /\ [Next]_vars => StacksSound'
  BY StacksStep DEF ViewFresh
<1>2. ViewFresh /\ [Next]_vars => ViewFresh'
  BY ViewStep
<1>. QED
  BY <1>1, <1>2, GroupInit, PTL DEF Spec

(* For histories of any length, any limit, merges, macro-commands and      *)
(* obsolete commands: the indices of every stack stay valid, and undo and  *)
(* redo are inverse all along its history, as long as the client relabels  *)
(* to unused names only (relabel_stack() does not check it).               *)
THEOREM HistorySoundHolds ==
    ASSUME CarefulRelabel
    PROVE  Spec => []HistorySound
<1>1. StacksSound => HistorySound
  <2>. SUFFICES ASSUME StacksSound PROVE HistorySound
    OBVIOUS
  <2>1. IndicesValid
    <3>. SUFFICES ASSUME NEW n \in DOMAIN stacks, NEW s, s = stacks[n], InRange(s)
                  PROVE  /\ s.head \in 0 .. Count(s)
                         /\ s.clean \in {NoClean} \union 0 .. Count(s)
                         /\ s.limit > 0 => Count(s) <= s.limit
      BY DEF IndicesValid, StacksSound, Sound
    <3>. QED
      BY DEF InRange, Stack, Count, NoClean
  <2>2. UndoRedoInverse
    BY SoundWalk DEF UndoRedoInverse, StacksSound
  <2>. QED
    BY <2>1, <2>2 DEF HistorySound
<1>. QED
  BY <1>1, GroupSound, PTL

(* While the clean index is set, and neither the limit nor a merge into    *)
(* the clean state has spoiled it, the head can be moved back to the saved *)
(* document, after any sequence of operations in which stacks are          *)
(* relabelled to unused names only.                                        *)
THEOREM CleanReachableHolds ==
    ASSUME CarefulRelabel
    PROVE  Spec => []CleanReachable
<1>1. StacksSound => CleanReachable
  BY SoundClean DEF CleanReachable, StacksSound
<1>. QED
  BY <1>1, GroupSound, PTL
=============================================================================
