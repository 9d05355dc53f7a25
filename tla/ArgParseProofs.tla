--------------------------- MODULE ArgParseProofs ---------------------------
(***************************************************************************)
(* Proofs about ArgParse, for any declaration, any tokens and any length   *)
(* of argv: parse() returns true exactly for the legal command lines, says *)
(* why it refuses one, and its synopsis shows every option.                *)
(***************************************************************************)
EXTENDS MCArgParse, FiniteSetTheorems, NaturalsInduction, WellFoundedInduction, TLAPS

-----------------------------------------------------------------------------
(* Arithmetic, and the recursive definition of the reference.              *)

(* A set of natural numbers has a least element.                           *)
LEMMA LeastNat ==
    ASSUME NEW Q \in SUBSET Nat, Q # {}
    PROVE  \E m \in Q : \A k \in Q : m <= k
<1>. DEFINE R == {p \in Nat \X Nat : p[1] < p[2]}
<1>1. IsWellFoundedOn(R, Nat)
  BY NatLessThanWellFounded DEF OpToRel
<1>2. PICK m \in Q : \A k \in Q : ~(<<k, m>> \in R)
  <2>. HIDE DEF R
  <2>. QED
    BY <1>1, WFMin
<1>3. \A k \in Q : ~(k < m)
  BY <1>2
<1>. QED
  BY <1>3

(* A function that is defined from number to number exists.                *)
Iterated(f, n, X, x, step) ==
    f \in [0 .. n -> X] /\ f[0] = x /\ \A i \in 1 .. n : f[i] = step[i][f[i - 1]]

LEMMA Iterates ==
    ASSUME NEW X, NEW x \in X, NEW step \in [Nat -> [X -> X]], NEW n \in Nat
    PROVE  \E f : Iterated(f, n, X, x, step)
<1>. DEFINE Good(k) == \E f \in [0 .. k -> X] : f[0] = x /\ \A i \in 1 .. k : f[i] = step[i][f[i - 1]]
            Bad == {k \in Nat : ~Good(k)}
<1>. SUFFICES ASSUME Bad # {} PROVE FALSE
  BY DEF Iterated
<1>1. PICK k \in Bad : \A j \in Bad : k <= j
  <2>. HIDE DEF Good
  <2>. QED
    BY LeastNat
<1>2. k # 0
  <2>. DEFINE g == [i \in 0 .. 0 |-> x]
  <2>1. g \in [0 .. 0 -> X] /\ g[0] = x /\ \A i \in 1 .. 0 : g[i] = step[i][g[i - 1]]
    OBVIOUS
  <2>2. Good(0)
    <3>. HIDE DEF g
    <3>. QED
      BY <2>1
  <2>. HIDE DEF Good
  <2>. QED
    BY <1>1, <2>2
<1>3. k - 1 \in Nat /\ Good(k - 1)
  <2>. HIDE DEF Good
  <2>. QED
    BY <1>1, <1>2
<1>4. PICK f \in [0 .. k - 1 -> X] : f[0] = x /\ \A i \in 1 .. k - 1 : f[i] = step[i][f[i - 1]]
  BY <1>3
<1>. DEFINE g == [i \in 0 .. k |-> IF i = k THEN step[k][f[k - 1]] ELSE f[i]]
<1>5. k - 1 \in 0 .. k - 1 /\ k \in Nat /\ f[k - 1] \in X
  BY <1>3, <1>4
<1>6. step[k][f[k - 1]] \in X
  BY <1>5
<1>7. g \in [0 .. k -> X] /\ g[0] = x
  BY <1>2, <1>4, <1>5, <1>6
<1>8. ASSUME NEW i \in 1 .. k PROVE g[i] = step[i][g[i - 1]]
  <2>1. i - 1 \in 0 .. k /\ i - 1 # k /\ i \in 0 .. k /\ (i # k => i \in 1 .. k - 1)
    BY <1>5
  <2>2. g[i - 1] = f[i - 1]
    BY <2>1
  <2>. QED
    BY <1>4, <2>1, <2>2
<1>9. Good(k)
  <2>. HIDE DEF g
  <2>. QED
    BY <1>7, <1>8
<1>. QED
  BY <1>1, <1>9

(* A property that goes from each number to the next holds up to the last. *)
LEMMA Upwards ==
    ASSUME NEW a \in Nat, NEW b \in Nat, NEW good, good \subseteq a .. b, a \in good,
           \A i \in a .. b - 1 : i \in good => i + 1 \in good
    PROVE  \A i \in a .. b : i \in good
<1>. DEFINE Bad == {i \in a .. b : i \notin good}
<1>. SUFFICES ASSUME Bad # {} PROVE FALSE
  OBVIOUS
<1>1. PICK k \in Bad : \A j \in Bad : k <= j
  <2>1. Bad \in SUBSET Nat
    OBVIOUS
  <2>. HIDE DEF Bad
  <2>. QED
    BY <2>1, LeastNat
<1>2. k - 1 \in a .. b - 1 /\ k - 1 \notin Bad
  BY <1>1
<1>. QED
  BY <1>1, <1>2

(* The operands among the first n tokens, when names tells the variables.  *)
Marks(f, n, names) ==
    f \in [0 .. n -> BOOLEAN] /\ \A i \in 0 .. n : f[i] = (i > 1 /\ ~f[i - 1] /\ names[i - 1])

LEMMA MarksExist ==
    ASSUME NEW n \in Nat, NEW names \in [Nat -> BOOLEAN]
    PROVE  \E f : Marks(f, n, names)
<1>. DEFINE step == [i \in Nat |-> [b \in BOOLEAN |-> i > 1 /\ ~b /\ names[i - 1]]]
<1>1. step \in [Nat -> [BOOLEAN -> BOOLEAN]]
  OBVIOUS
<1>2. \E f : Iterated(f, n, BOOLEAN, FALSE, step)
  <2>. HIDE DEF step
  <2>. QED
    BY ONLY <1>1, Iterates, n \in Nat, FALSE \in BOOLEAN
<1>3. PICK f : Iterated(f, n, BOOLEAN, FALSE, step)
  BY <1>2
<1>4. f \in [0 .. n -> BOOLEAN] /\ f[0] = FALSE
  BY <1>3 DEF Iterated
<1>5. ASSUME NEW i \in 0 .. n PROVE f[i] = (i > 1 /\ ~f[i - 1] /\ names[i - 1])
  <2>1. CASE i = 0
    BY <1>4, <2>1
  <2>2. CASE i # 0
    <3>1. i \in 1 .. n /\ i - 1 \in 0 .. n /\ i \in Nat
      BY <2>2
    <3>2. f[i] = step[i][f[i - 1]] /\ f[i - 1] \in BOOLEAN
      BY <1>3, <1>4, <3>1 DEF Iterated
    <3>. QED
      BY <3>1, <3>2
  <2>. QED
    BY <2>1, <2>2
<1>. QED
  BY <1>4, <1>5 DEF Marks

(* What a token is does not depend on the tokens behind it.                *)
LEMMA MarksAgree ==
    ASSUME NEW n \in Nat, NEW m \in Nat, n <= m, NEW f, NEW g, NEW names, NEW more,
           Marks(f, n, names), Marks(g, m, more), \A j \in 1 .. n - 1 : names[j] = more[j]
    PROVE  \A i \in 0 .. n : f[i] = g[i]
<1>. DEFINE same == {i \in 0 .. n : f[i] = g[i]}
<1>1. 0 \in same
  BY DEF Marks
<1>2. ASSUME NEW i \in 0 .. n - 1, i \in same PROVE i + 1 \in same
  <2>1. i + 1 \in 0 .. n /\ i + 1 \in 0 .. m /\ (i + 1) - 1 = i
    OBVIOUS
  <2>2. f[i + 1] = (i + 1 > 1 /\ ~f[i] /\ names[i]) /\ g[i + 1] = (i + 1 > 1 /\ ~g[i] /\ more[i])
    BY <2>1 DEF Marks
  <2>3. i + 1 > 1 => i \in 1 .. n - 1
    OBVIOUS
  <2>. QED
    BY <1>2, <2>1, <2>2, <2>3
<1>3. same \subseteq 0 .. n /\ 0 \in Nat /\ \A i \in 0 .. n - 1 : i \in same => i + 1 \in same
  BY <1>2
<1>4. \A i \in 0 .. n : i \in same
  <2>. HIDE DEF same
  <2>. QED
    BY ONLY <1>1, <1>3, Upwards, n \in Nat
<1>. QED
  BY <1>4

(* The tokens that name a variable, by their places.                       *)
Variables == [i \in Nat |-> NamesVariable(argv[i])]

LEMMA OperandsMarked ==
    ASSUME argv \in Seq(Tokens)
    PROVE  Len(argv) \in Nat /\ Marks(IsOperand, Len(argv), Variables)
<1>1. Len(argv) \in Nat /\ Variables \in [Nat -> BOOLEAN]
  BY DEF Variables, NamesVariable
<1>2. PICK f : Marks(f, Len(argv), Variables)
  BY <1>1, MarksExist
<1>3. f = [i \in 0 .. Len(argv) |-> i > 1 /\ ~f[i - 1] /\ NamesVariable(argv[i - 1])]
  <2>1. f \in [0 .. Len(argv) -> BOOLEAN]
    BY <1>2 DEF Marks
  <2>2. ASSUME NEW i \in 0 .. Len(argv)
        PROVE  f[i] = (i > 1 /\ ~f[i - 1] /\ NamesVariable(argv[i - 1]))
    <3>1. f[i] = (i > 1 /\ ~f[i - 1] /\ Variables[i - 1])
      BY <1>2 DEF Marks
    <3>2. i > 1 => (Variables[i - 1] <=> NamesVariable(argv[i - 1]))
      BY <1>1 DEF Variables
    <3>. QED
      BY <3>1, <3>2
  <2>. QED
    BY <2>1, <2>2
<1>4. IsOperand = [i \in 0 .. Len(argv) |-> i > 1 /\ ~IsOperand[i - 1] /\ NamesVariable(argv[i - 1])]
  BY <1>3 DEF IsOperand
<1>5. IsOperand \in [0 .. Len(argv) -> BOOLEAN]
  BY <1>4
<1>6. ASSUME NEW i \in 0 .. Len(argv)
      PROVE  IsOperand[i] = (i > 1 /\ ~IsOperand[i - 1] /\ Variables[i - 1])
  <2>1. IsOperand[i] = (i > 1 /\ ~IsOperand[i - 1] /\ NamesVariable(argv[i - 1]))
    BY <1>4
  <2>2. i > 1 => (Variables[i - 1] <=> NamesVariable(argv[i - 1]))
    BY <1>1 DEF Variables
  <2>. QED
    BY <2>1, <2>2
<1>. QED
  BY <1>1, <1>5, <1>6 DEF Marks

LEMMA OperandsMarkedNext ==
    ASSUME (argv \in Seq(Tokens))'
    PROVE  (Len(argv) \in Nat /\ Marks(IsOperand, Len(argv), Variables))'
<1>1. (Len(argv) \in Nat /\ Variables \in [Nat -> BOOLEAN])'
  BY DEF Variables, NamesVariable
<1>2. PICK f : Marks(f, Len(argv'), Variables')
  BY <1>1, MarksExist
<1>3. f = [i \in 0 .. Len(argv') |-> i > 1 /\ ~f[i - 1] /\ NamesVariable(argv[i - 1])']
  <2>1. f \in [0 .. Len(argv') -> BOOLEAN]
    BY <1>2 DEF Marks
  <2>2. ASSUME NEW i \in 0 .. Len(argv')
        PROVE  f[i] = (i > 1 /\ ~f[i - 1] /\ NamesVariable(argv[i - 1])')
    <3>1. f[i] = (i > 1 /\ ~f[i - 1] /\ Variables'[i - 1])
      BY <1>2 DEF Marks
    <3>2. i > 1 => (Variables'[i - 1] <=> NamesVariable(argv[i - 1])')
      BY <1>1 DEF Variables
    <3>. QED
      BY <3>1, <3>2
  <2>. QED
    BY <2>1, <2>2
<1>4. IsOperand' = [i \in 0 .. Len(argv') |-> i > 1 /\ ~IsOperand'[i - 1] /\ NamesVariable(argv[i - 1])']
  BY <1>3 DEF IsOperand
<1>5. IsOperand' \in [0 .. Len(argv') -> BOOLEAN]
  BY <1>4
<1>6. ASSUME NEW i \in 0 .. Len(argv')
      PROVE  IsOperand'[i] = (i > 1 /\ ~IsOperand'[i - 1] /\ Variables'[i - 1])
  <2>1. IsOperand'[i] = (i > 1 /\ ~IsOperand'[i - 1] /\ NamesVariable(argv[i - 1])')
    BY <1>4
  <2>2. i > 1 => (Variables'[i - 1] <=> NamesVariable(argv[i - 1])')
    BY <1>1 DEF Variables
  <2>. QED
    BY <2>1, <2>2
<1>. QED
  BY <1>1, <1>5, <1>6 DEF Marks

-----------------------------------------------------------------------------
(* One more token.                                                         *)

(* parse() changes the values of the options, not what they are.           *)
SameKinds ==
    /\ DOMAIN arguments' = DOMAIN arguments
    /\ \A k \in DOMAIN arguments : arguments'[k].type = arguments[k].type

Awaited == Len(argv) \in Proper /\ NamesVariable(argv[Len(argv)])

LEMMA KindsKept ==
    ASSUME SameKinds, NEW tok
    PROVE  NamesVariable(tok)' <=> NamesVariable(tok)
BY DEF SameKinds, NamesVariable, Known, is_flag

LEMMA Appended ==
    ASSUME argv \in Seq(Tokens), NEW tok \in Tokens, argv' = Append(argv, tok)
    PROVE  /\ argv' \in Seq(Tokens) /\ Len(argv) \in Nat /\ Len(argv') = Len(argv) + 1
           /\ argv'[Len(argv) + 1] = tok
           /\ \A i \in 1 .. Len(argv) : argv'[i] = argv[i] /\ argv[i] \in Tokens
OBVIOUS

LEMMA ProperNext ==
    ASSUME argv \in Seq(Tokens), NEW tok \in Tokens, argv' = Append(argv, tok), SameKinds
    PROVE  Proper' = Proper \union (IF Awaited THEN {} ELSE {Len(argv) + 1})
<1>. DEFINE n == Len(argv)
<1>1. n \in Nat /\ argv' \in Seq(Tokens) /\ Len(argv') = n + 1
      /\ \A i \in 1 .. n : argv'[i] = argv[i]
  BY Appended
<1>2. Marks(IsOperand, n, Variables)
  BY OperandsMarked
<1>3. Marks(IsOperand', n + 1, Variables')
  BY <1>1, OperandsMarkedNext
<1>4. \A i \in 1 .. n : Variables'[i] = Variables[i]
  BY <1>1, KindsKept DEF Variables, NamesVariable
<1>5. \A i \in 0 .. n : IsOperand[i] = IsOperand'[i]
  <2>1. \A j \in 1 .. n - 1 : Variables[j] = Variables'[j]
    BY <1>1, <1>4
  <2>2. PICK k, m, f, g, names, more :
          /\ k = n /\ m = n + 1 /\ f = IsOperand /\ g = IsOperand'
          /\ names = Variables /\ more = Variables'
    OBVIOUS
  <2>3. k \in Nat /\ m \in Nat /\ k <= m
    BY <1>1, <2>2
  <2>4. Marks(f, k, names) /\ Marks(g, m, more)
    BY <1>2, <1>3, <2>2
  <2>5. \A j \in 1 .. k - 1 : names[j] = more[j]
    BY <2>1, <2>2
  <2>6. \A i \in 0 .. k : f[i] = g[i]
    BY ONLY <2>3, <2>4, <2>5, MarksAgree
  <2>. QED
    BY <2>2, <2>6
<1>6. IsOperand'[n + 1] <=> n \in Proper /\ NamesVariable(argv[n])
  <2>1. IsOperand'[n + 1] = (n + 1 > 1 /\ ~IsOperand'[n] /\ Variables'[n])
    <3>1. n + 1 \in 0 .. n + 1 /\ (n + 1) - 1 = n
      BY <1>1
    <3>. QED
      BY <1>3, <3>1 DEF Marks
  <2>2. n + 1 > 1 => n \in 1 .. n /\ n \in 0 .. n
    BY <1>1
  <2>3. n \in Proper <=> n + 1 > 1 /\ ~IsOperand[n]
    BY <1>1 DEF Proper
  <2>4. n + 1 > 1 => (Variables'[n] <=> NamesVariable(argv[n]))
    BY <1>1, <1>4, <2>2 DEF Variables
  <2>5. n + 1 > 1 => (IsOperand'[n] <=> IsOperand[n])
    BY <1>5, <2>2
  <2>. QED
    BY <2>1, <2>3, <2>4, <2>5
<1>7. Awaited <=> IsOperand'[n + 1]
  BY <1>6 DEF Awaited
<1>8. \A i \in 1 .. n + 1 : i # n + 1 => i \in 1 .. n /\ i \in 0 .. n
  BY <1>1
<1>9. Proper' = {i \in 1 .. n + 1 : ~IsOperand'[i]} /\ Proper = {i \in 1 .. n : ~IsOperand[i]}
  BY <1>1 DEF Proper
<1>10. n + 1 \in 1 .. n + 1 /\ 1 .. n \subseteq 1 .. n + 1 /\ n + 1 \notin 1 .. n
  BY <1>1
<1>. HIDE DEF n
<1>11. Proper' = Proper \union (IF Awaited THEN {} ELSE {n + 1})
  BY <1>5, <1>7, <1>8, <1>9, <1>10
<1>. QED
  BY <1>11 DEF n

(* Nor does it depend on what the options hold.                            *)
LEMMA TokensUnchanged ==
    ASSUME argv \in Seq(Tokens), UNCHANGED argv, SameKinds
    PROVE  /\ Proper' = Proper /\ Words' = Words /\ Named' = Named
           /\ \A i \in Proper : NamedBy(i)' = NamedBy(i) /\ Rank(i)' = Rank(i)
                               /\ (NamesVariable(argv[i])' <=> NamesVariable(argv[i]))
<1>1. Len(argv) \in Nat /\ (argv \in Seq(Tokens))'
  OBVIOUS
<1>2. Marks(IsOperand, Len(argv), Variables)
  BY OperandsMarked
<1>3. Marks(IsOperand', Len(argv), Variables')
  BY <1>1, OperandsMarkedNext
<1>4. \A i \in 1 .. Len(argv) - 1 : Variables[i] = Variables'[i]
  BY <1>1 DEF Variables, NamesVariable, Known, is_flag, SameKinds
<1>5. \A i \in 0 .. Len(argv) : IsOperand[i] = IsOperand'[i]
  <2>. DEFINE len == Len(argv)
  <2>1. PICK n \in Nat : n = len
    BY <1>1
  <2>2. \A i \in 0 .. n : IsOperand[i] = IsOperand'[i]
    BY <1>2, <1>3, <1>4, <2>1, MarksAgree
  <2>. QED
    BY <2>1, <2>2
<1>6. Proper' = Proper
  <2>1. Proper' = {i \in 1 .. Len(argv) : ~IsOperand'[i]} /\ Proper = {i \in 1 .. Len(argv) : ~IsOperand[i]}
    BY DEF Proper
  <2>2. \A i \in 1 .. Len(argv) : i \in 0 .. Len(argv)
    BY <1>1
  <2>. QED
    BY <1>5, <2>1, <2>2
<1>7. Words' = Words
  BY <1>6 DEF Words
<1>8. \A i : NamedBy(i)' = NamedBy(i) /\ Rank(i)' = Rank(i)
             /\ (NamesVariable(argv[i])' <=> NamesVariable(argv[i]))
  BY <1>7 DEF NamedBy, Rank, NamesVariable, Known, is_flag, SameKinds
<1>9. Named' = Named
  <2>1. Named' = UNION {NamedBy(i)' : i \in Proper'}
    BY DEF Named
  <2>. QED
    BY <1>6, <1>8, <2>1 DEF Named
<1>. QED
  BY <1>6, <1>7, <1>8, <1>9

(* What the new token adds to the words and the names.                     *)
NamedOf(tok) == IF tok.kind = "group" THEN Range(tok.keys)
                ELSE IF tok.kind = "word" THEN {} ELSE {tok.key}

LEMMA NamesNext ==
    ASSUME argv \in Seq(Tokens), NEW tok \in Tokens, argv' = Append(argv, tok), SameKinds,
           NEW n, n = Len(argv)
    PROVE  /\ \A i \in Proper : i \in 1 .. n /\ NamedBy(i)' = NamedBy(i)
           /\ Named' = Named \union (IF Awaited THEN {} ELSE NamedOf(tok))
           /\ Words' = Words \union (IF ~Awaited /\ tok.kind = "word" THEN {n + 1} ELSE {})
<1>1. n \in Nat /\ argv'[n + 1] = tok /\ \A i \in 1 .. n : argv'[i] = argv[i]
  BY Appended
<1>2. Proper' = Proper \union (IF Awaited THEN {} ELSE {n + 1})
  BY ProperNext
<1>3. Proper \subseteq 1 .. n /\ n + 1 \notin Proper
  BY <1>1 DEF Proper
<1>4. \A i \in Proper : NamedBy(i)' = NamedBy(i)
  BY <1>1, <1>3 DEF NamedBy
<1>5. NamedBy(n + 1)' = NamedOf(tok)
  BY <1>1 DEF NamedBy, NamedOf
<1>6. Named' = Named \union (IF Awaited THEN {} ELSE NamedOf(tok))
  <2>1. Named' = UNION {NamedBy(i)' : i \in Proper'}
    BY DEF Named
  <2>. QED
    BY <1>2, <1>4, <1>5, <2>1 DEF Named
<1>7. Words' = Words \union (IF ~Awaited /\ tok.kind = "word" THEN {n + 1} ELSE {})
  <2>1. Words' = {i \in Proper' : argv'[i].kind = "word"}
    BY DEF Words
  <2>2. \A i \in Proper : argv'[i] = argv[i]
    BY <1>1, <1>3
  <2>. QED
    BY <1>1, <1>2, <2>1, <2>2 DEF Words
<1>. QED
  BY <1>3, <1>4, <1>6, <1>7

(* Words keep their rank, and a new one comes last.                        *)
LEMMA RanksNext ==
    ASSUME argv \in Seq(Tokens), NEW tok \in Tokens, argv' = Append(argv, tok), SameKinds,
           NEW n, n = Len(argv)
    PROVE  /\ IsFiniteSet(Words) /\ Cardinality(Words) \in Nat
           /\ \A i \in Words : Rank(i)' = Rank(i) /\ Rank(i) \in Nat \ {0}
           /\ Words' # Words => /\ n + 1 \in Words'
                               /\ Rank(n + 1)' = Cardinality(Words) + 1
                               /\ Cardinality(Words') = Cardinality(Words) + 1
<1>1. n \in Nat
  BY Appended
<1>2. Words' = Words \/ Words' = Words \union {n + 1}
  BY NamesNext
<1>3. Words \in SUBSET (1 .. n)
  BY DEF Words, Proper
<1>4. IsFiniteSet(1 .. n)
  BY <1>1, FS_Interval
<1>5. IsFiniteSet(Words) /\ Cardinality(Words) \in Nat
  BY <1>3, <1>4, FS_Subset, FS_CardinalityType
<1>6. ASSUME NEW i \in Words PROVE Rank(i)' = Rank(i) /\ Rank(i) \in Nat \ {0}
  <2>1. i \in 1 .. n /\ ~(n + 1 <= i)
    BY <1>1, <1>3
  <2>2. {j \in Words' : j <= i} = {j \in Words : j <= i}
    BY <1>2, <2>1
  <2>3. IsFiniteSet({j \in Words : j <= i}) /\ i \in {j \in Words : j <= i}
    BY <1>5, <2>1, FS_Subset
  <2>4. Cardinality({j \in Words : j <= i}) \in Nat \ {0}
    BY <2>3, FS_CardinalityType, FS_EmptySet
  <2>5. Rank(i)' = Cardinality({j \in Words' : j <= i})
    BY DEF Rank
  <2>. QED
    BY <2>2, <2>4, <2>5 DEF Rank
<1>7. ASSUME Words' # Words
      PROVE  n + 1 \in Words' /\ Rank(n + 1)' = Cardinality(Words) + 1
             /\ Cardinality(Words') = Cardinality(Words) + 1
  <2>1. Words' = Words \union {n + 1} /\ n + 1 \notin Words
    BY <1>1, <1>2, <1>3, <1>7
  <2>2. Cardinality(Words') = Cardinality(Words) + 1
    BY <1>5, <2>1, FS_AddElement
  <2>3. \A j \in Words' : j <= n + 1
    BY <1>1, <1>3, <2>1
  <2>4. {j \in Words' : j <= n + 1} = Words'
    BY <2>3
  <2>5. Rank(n + 1)' = Cardinality({j \in Words' : j <= n + 1})
    BY DEF Rank
  <2>. QED
    BY <2>1, <2>2, <2>4, <2>5
<1>. QED
  BY <1>5, <1>6, <1>7

-----------------------------------------------------------------------------
(* The options while parse() runs.                                         *)

Recast(option, is_set, value) ==
    [type |-> option.type, is_set |-> is_set, value |-> value,
     dependency |-> option.dependency, exclusive_sets |-> option.exclusive_sets]

(* Only is_set and value change.                                           *)
ValuesMove ==
    /\ arguments' = [k \in DOMAIN arguments |-> arguments'[k]]
    /\ \A k \in DOMAIN arguments :
          /\ arguments'[k].is_set \in BOOLEAN
          /\ arguments'[k] = Recast(arguments[k], arguments'[k].is_set, arguments'[k].value)
    /\ UNCHANGED <<exclusive_flags, exclusive_variables>>

LEMMA RecastFacts ==
    ASSUME DeclaredOK, NEW k \in DOMAIN arguments, NEW b \in BOOLEAN, NEW v
    PROVE  /\ [arguments[k] EXCEPT !.is_set = b] = Recast(arguments[k], b, arguments[k].value)
           /\ [arguments[k] EXCEPT !.value = v] = Recast(arguments[k], arguments[k].is_set, v)
           /\ arguments[k] = Recast(arguments[k], arguments[k].is_set, arguments[k].value)
           /\ arguments[k].is_set \in BOOLEAN
<1>. DEFINE option == arguments[k]
<1>1. option = Recast(option, option.is_set, option.value) /\ option.is_set \in BOOLEAN
  BY DEF DeclaredOK, DeclaredOption, Recast
<1>. HIDE DEF option
<1>2. [option EXCEPT !.is_set = b] = Recast(option, b, option.value)
  BY <1>1 DEF Recast
<1>3. [option EXCEPT !.value = v] = Recast(option, option.is_set, v)
  BY <1>1 DEF Recast
<1>. QED
  BY <1>1, <1>2, <1>3 DEF option

LEMMA SameOptions ==
    ASSUME DeclaredOK, UNCHANGED <<arguments, exclusive_flags, exclusive_variables>>
    PROVE  ValuesMove
<1>1. \A k \in DOMAIN arguments :
        arguments[k] = Recast(arguments[k], arguments[k].is_set, arguments[k].value)
        /\ arguments[k].is_set \in BOOLEAN
  BY RecastFacts
<1>2. arguments = [k \in DOMAIN arguments |-> arguments[k]]
  BY DEF DeclaredOK
<1>. QED
  BY <1>1, <1>2 DEF ValuesMove

(* A set of options that is now marked as set.                             *)
LEMMA MarkedSet ==
    ASSUME DeclaredOK, UNCHANGED <<exclusive_flags, exclusive_variables>>,
           NEW ks \in SUBSET DOMAIN arguments, NEW b \in BOOLEAN,
           arguments' = [k \in DOMAIN arguments |->
              IF k \in ks THEN [arguments[k] EXCEPT !.is_set = b] ELSE arguments[k]]
    PROVE  /\ ValuesMove
           /\ \A k \in DOMAIN arguments : arguments'[k].value = arguments[k].value
           /\ b => get_active' = get_active \union ks
<1>1. \A k \in DOMAIN arguments :
        /\ arguments'[k] = Recast(arguments[k], IF k \in ks THEN b ELSE arguments[k].is_set, arguments[k].value)
        /\ arguments[k].is_set \in BOOLEAN
  BY RecastFacts
<1>2. \A k \in DOMAIN arguments :
        /\ arguments'[k].is_set = (IF k \in ks THEN b ELSE arguments[k].is_set)
        /\ arguments'[k].value = arguments[k].value
        /\ arguments'[k].is_set \in BOOLEAN
  BY <1>1 DEF Recast
<1>3. ValuesMove
  BY <1>1, <1>2 DEF ValuesMove
<1>4. DOMAIN arguments' = DOMAIN arguments
  OBVIOUS
<1>5. b => get_active' = get_active \union ks
  BY <1>2, <1>4 DEF get_active
<1>. QED
  BY <1>2, <1>3, <1>5

LEMMA MovedOK ==
    ASSUME DeclaredOK, ValuesMove
    PROVE  /\ SameKinds
           /\ \A k \in DOMAIN arguments : arguments'[k].dependency = arguments[k].dependency
           /\ (positionals \in Seq([type : ArgType, is_set : BOOLEAN, value : Texts \union {none},
                                    dependency : {none}, exclusive_sets : {{}}]))' => DeclaredOK'
<1>1. /\ DOMAIN arguments' = DOMAIN arguments
      /\ arguments' = [k \in DOMAIN arguments' |-> arguments'[k]]
  BY DEF ValuesMove
<1>2. ASSUME NEW k \in DOMAIN arguments
      PROVE  /\ arguments'[k].type = arguments[k].type
             /\ arguments'[k].dependency = arguments[k].dependency
             /\ arguments'[k].exclusive_sets = arguments[k].exclusive_sets
             /\ arguments'[k].is_set \in BOOLEAN
             /\ arguments'[k] = Recast(arguments'[k], arguments'[k].is_set, arguments'[k].value)
  BY DEF ValuesMove, Recast
<1>3. SameKinds
  BY <1>1, <1>2 DEF SameKinds
<1>4. ASSUME NEW k \in DOMAIN arguments PROVE DeclaredOption(k)'
  BY <1>2 DEF DeclaredOption, DeclaredOK, Recast, ValuesMove
<1>5. \A k \in DOMAIN arguments : is_flag(k)' <=> is_flag(k)
  BY <1>2 DEF is_flag
<1>6. \A set \in SUBSET DOMAIN arguments : \A k \in set : k \in DOMAIN arguments
  OBVIOUS
<1>7. {set \in SUBSET DOMAIN arguments' : \A k \in set : is_flag(k)'} =
        {set \in SUBSET DOMAIN arguments : \A k \in set : is_flag(k)}
      /\ {set \in SUBSET DOMAIN arguments' : \A k \in set : ~is_flag(k)'} =
        {set \in SUBSET DOMAIN arguments : \A k \in set : ~is_flag(k)}
  BY <1>1, <1>5, <1>6
<1>8. UNCHANGED <<exclusive_flags, exclusive_variables>>
  BY DEF ValuesMove
<1>. QED
  BY <1>1, <1>2, <1>3, <1>4, <1>7, <1>8 DEF DeclaredOK

-----------------------------------------------------------------------------
(* Reading a token.                                                        *)

(* A token waits for its operand exactly in the phase of that name.        *)
LEMMA AwaitedIsPending ==
    ASSUME Clean, argv \in Seq(Tokens)
    PROVE  /\ Awaited <=> Pending
           /\ Pending => current.key = argv[Len(argv)].key /\ Len(argv) \in 1 .. Len(argv)
           /\ Proper \subseteq 1 .. Len(argv)
<1>1. Len(argv) \in Nat /\ Proper \subseteq 1 .. Len(argv)
  BY DEF Proper
<1>2. Awaited => Pending
  BY <1>1 DEF Awaited, Clean, PendingHere
<1>3. Pending => Awaited /\ current.key = argv[Len(argv)].key /\ Len(argv) \in 1 .. Len(argv)
  BY <1>1 DEF Awaited, Clean, PendingHere
<1>. QED
  BY <1>1, <1>2, <1>3

TypesKept ==
    /\ Len(positionals') = Len(positionals)
    /\ \A m \in 1 .. Len(positionals) : positionals'[m].type = positionals[m].type

(* What is true of the tokens read before stays true of them.              *)
LEMMA TokensKept ==
    ASSUME argv \in Seq(Tokens), NEW tok \in Tokens, argv' = Append(argv, tok), SameKinds,
           NEW n, n = Len(argv), Clean, TypesKept, NEW R, positionals \in Seq(R)
    PROVE  /\ \A k \in Named : Known(k)'
           /\ \A i \in Proper : argv'[i].kind = "group" => \A k \in NamedBy(i)' : is_flag(k)'
           /\ \A i \in Proper : NamesVariable(argv[i])' /\ i < n =>
                 i < Len(argv') /\ Castable(arguments[argv[i].key].type, i + 1)'
           /\ \A i \in Words : Rank(i)' <= Len(positionals') /\ Castable(positionals[Rank(i)].type, i)'
<1>1. n \in Nat /\ Len(argv') = n + 1 /\ \A i \in 1 .. n : argv'[i] = argv[i]
  BY Appended
<1>2. Proper \subseteq 1 .. n
  BY <1>1 DEF Proper
<1>3. \A k : (Known(k)' <=> Known(k)) /\ (Known(k) => (is_flag(k)' <=> is_flag(k)))
  BY DEF Known, SameKinds, is_flag
<1>4. \A k \in Named : Known(k)
  BY DEF Clean
<1>5. ASSUME NEW i \in Proper, argv'[i].kind = "group", NEW k \in NamedBy(i)' PROVE is_flag(k)'
  <2>1. NamedBy(i)' = NamedBy(i) /\ argv'[i] = argv[i]
    BY <1>1, <1>2, NamesNext
  <2>2. k \in Named /\ is_flag(k)
    BY <1>5, <2>1 DEF Clean, Named
  <2>. QED
    BY <1>3, <1>4, <2>2
<1>6. ASSUME NEW i \in Proper, NamesVariable(argv[i])', i < n
      PROVE  i < Len(argv') /\ Castable(arguments[argv[i].key].type, i + 1)'
  <2>1. i \in 1 .. n /\ i + 1 \in 1 .. n /\ argv'[i] = argv[i] /\ argv'[i + 1] = argv[i + 1]
    BY <1>1, <1>2, <1>6
  <2>2. NamesVariable(argv[i])
    BY <1>6, <2>1, KindsKept DEF NamesVariable
  <2>3. i < Len(argv) /\ Castable(arguments[argv[i].key].type, i + 1)
    BY <1>1, <1>6, <2>2 DEF Clean, PendingHere
  <2>4. arguments'[argv'[i].key].type = arguments[argv[i].key].type
    BY <2>1, <2>2 DEF SameKinds, NamesVariable, Known
  <2>5. Castable(arguments[argv[i].key].type, i + 1)'
    BY <2>1, <2>3, <2>4 DEF Castable
  <2>. QED
    BY <1>1, <1>6, <2>1, <2>5
<1>7. ASSUME NEW i \in Words
      PROVE  Rank(i)' <= Len(positionals') /\ Castable(positionals[Rank(i)].type, i)'
  <2>1. i \in 1 .. n /\ argv'[i] = argv[i]
    BY <1>1, <1>2 DEF Words
  <2>2. Rank(i)' = Rank(i) /\ Rank(i) \in Nat \ {0}
    BY RanksNext
  <2>3. Rank(i) <= Len(positionals) /\ Castable(positionals[Rank(i)].type, i)
    BY DEF Clean
  <2>4. Rank(i) \in 1 .. Len(positionals) /\ Len(positionals) \in Nat
    BY <2>2, <2>3
  <2>5. positionals'[Rank(i)'].type = positionals[Rank(i)].type
    BY <2>2, <2>4 DEF TypesKept
  <2>6. Castable(positionals[Rank(i)].type, i)'
    BY <2>1, <2>3, <2>5 DEF Castable
  <2>. QED
    BY <2>2, <2>3, <2>6 DEF TypesKept
<1>. QED
  BY <1>3, <1>4, <1>5, <1>6, <1>7

(* A value that was the operand of a mention still is.                     *)
LEMMA ValueKept ==
    ASSUME argv \in Seq(Tokens), NEW tok \in Tokens, argv' = Append(argv, tok), SameKinds,
           NEW n, n = Len(argv), NEW k, arguments'[k].value = arguments[k].value,
           \E i \in Proper : /\ i < Len(argv) /\ NamesVariable(argv[i]) /\ argv[i].key = k
                             /\ arguments[k].value = StringCast(Options[k], argv[i + 1].text)
    PROVE  \E i \in Proper' : /\ i < Len(argv') /\ NamesVariable(argv[i])' /\ argv'[i].key = k
                              /\ arguments'[k].value = StringCast(Options[k], argv'[i + 1].text)
<1>1. n \in Nat /\ \A i \in 1 .. n : argv'[i] = argv[i]
  BY Appended
<1>2. Proper \subseteq 1 .. n /\ Proper \subseteq Proper'
  BY <1>1, ProperNext DEF Proper
<1>3. PICK i \in Proper : /\ i < n /\ NamesVariable(argv[i]) /\ argv[i].key = k
                          /\ arguments[k].value = StringCast(Options[k], argv[i + 1].text)
  OBVIOUS
<1>4. i \in 1 .. n /\ i + 1 \in 1 .. n /\ i < n + 1 /\ i \in Proper'
  BY <1>1, <1>2, <1>3
<1>5. argv'[i] = argv[i] /\ argv'[i + 1] = argv[i + 1]
  BY <1>1, <1>4
<1>6. NamesVariable(argv[i])'
  BY <1>3, <1>5 DEF NamesVariable, SameKinds, Known, is_flag
<1>7. Len(argv') = n + 1
  BY Appended
<1>. QED
  BY <1>7, <1>3, <1>4, <1>5, <1>6

(* A token that stands for itself and breaks no rule.                      *)
LEMMA ProperRead ==
    ASSUME Inv, Clean, ~Pending, NEW tok \in Tokens, argv' = Append(argv, tok), ValuesMove,
           UNCHANGED <<valid_state, error_log>>, TypesKept, NEW R, positionals \in Seq(R),
           NamedOf(tok) \subseteq DOMAIN arguments,
           tok.kind = "group" => \A k \in NamedOf(tok) : is_flag(k),
           phase' = "operand" <=> NamesVariable(tok),
           NamesVariable(tok) => current'.key = tok.key,
           current'.positional = current.positional + (IF tok.kind = "word" THEN 1 ELSE 0),
           tok.kind = "word" => /\ current'.positional <= Len(positionals)
                                /\ StringCast(positionals[current'.positional].type, tok.text) \notin Thrown,
           DOMAIN positionals' = DOMAIN positionals,
           \A m \in DOMAIN positionals : positionals'[m].is_set <=> m <= current'.positional,
           get_active' = get_active \union NamedOf(tok),
           \A k \in DOMAIN arguments : arguments'[k].value = arguments[k].value
    PROVE  Clean'
<1>. DEFINE len == Len(argv)
<1>0. PICK n : n = len
  OBVIOUS
<1>1. argv \in Seq(Tokens) /\ DeclaredOK /\ SameKinds
  BY MovedOK DEF Inv
<1>2. /\ n \in Nat /\ Len(argv') = n + 1 /\ argv'[n + 1] = tok
      /\ \A i \in 1 .. n : argv'[i] = argv[i]
  BY <1>0, <1>1, Appended
<1>3. ~Awaited /\ Proper \subseteq 1 .. n
  BY <1>0, <1>1, AwaitedIsPending
<1>4. Proper' = Proper \union {n + 1}
  BY <1>0, <1>1, <1>3, ProperNext
<1>5. /\ Named' = Named \union NamedOf(tok)
      /\ Words' = Words \union (IF tok.kind = "word" THEN {n + 1} ELSE {})
      /\ NamedBy(n + 1)' = NamedOf(tok)
  <2>1. NamedBy(n + 1)' = NamedOf(tok)
    BY <1>2 DEF NamedBy, NamedOf
  <2>. QED
    BY <1>0, <1>1, <1>3, <2>1, NamesNext
<1>6. /\ \A k \in Named : Known(k)'
      /\ \A i \in Proper : argv'[i].kind = "group" => \A k \in NamedBy(i)' : is_flag(k)'
      /\ \A i \in Proper : NamesVariable(argv[i])' /\ i < n =>
            i < Len(argv') /\ Castable(arguments[argv[i].key].type, i + 1)'
      /\ \A i \in Words : Rank(i)' <= Len(positionals') /\ Castable(positionals[Rank(i)].type, i)'
  BY <1>0, <1>1, TokensKept
<1>7. \A k \in DOMAIN arguments : Known(k)' /\ (is_flag(k)' <=> is_flag(k))
  BY <1>1 DEF SameKinds, Known, is_flag
<1>8. /\ IsFiniteSet(Words) /\ Cardinality(Words) \in Nat
      /\ Words' # Words => /\ n + 1 \in Words' /\ Rank(n + 1)' = Cardinality(Words) + 1
                          /\ Cardinality(Words') = Cardinality(Words) + 1
  BY <1>0, <1>1, RanksNext
<1>9. Words \subseteq 1 .. n /\ n + 1 \notin 1 .. n
  <2>1. Words \subseteq Proper
    BY DEF Words
  <2>. QED
    BY <1>2, <1>3, <2>1
<1>10. current.positional = Cardinality(Words) /\ current.positional <= Len(positionals)
  BY DEF Clean
<1>11. tok.kind = "word" => Words' # Words
  BY <1>5, <1>9
<1>12. current'.positional = Cardinality(Words')
  <2>1. CASE tok.kind = "word"
    BY <1>8, <1>10, <1>11, <2>1
  <2>2. CASE tok.kind # "word"
    <3>1. Words' = Words /\ current'.positional = current.positional
      BY <1>5, <1>8, <1>10, <2>2
    <3>. QED
      BY <1>10, <3>1
  <2>. QED
    BY <2>1, <2>2
<1>13. current'.positional <= Len(positionals')
  <2>1. tok.kind # "word" => current'.positional = current.positional
    BY <1>8, <1>10
  <2>. QED
    BY <1>10, <2>1 DEF TypesKept
<1>14. \A k \in Named' : Known(k)'
  BY <1>5, <1>6, <1>7
<1>15. \A i \in Proper' : argv'[i].kind = "group" => \A k \in NamedBy(i)' : is_flag(k)'
  <2>1. argv'[n + 1].kind = "group" => \A k \in NamedBy(n + 1)' : is_flag(k)'
    BY <1>2, <1>5, <1>7
  <2>. QED
    BY <1>4, <1>6, <2>1
<1>16. NamesVariable(tok)' <=> NamesVariable(tok)
  BY <1>1, KindsKept
<1>17. \A i \in Proper' : NamesVariable(argv[i])' =>
         PendingHere(i)' \/ (i < Len(argv') /\ Castable(arguments[argv[i].key].type, i + 1)')
  <2>. SUFFICES ASSUME NEW i \in Proper', NamesVariable(argv[i])'
                PROVE  PendingHere(i)' \/ (i < Len(argv') /\ Castable(arguments[argv[i].key].type, i + 1)')
    OBVIOUS
  <2>1. CASE i = n + 1
    <3>1. argv'[i] = tok
      BY <1>2, <2>1
    <3>2. NamesVariable(tok)
      BY <1>16, <3>1 DEF NamesVariable
    <3>. QED
      BY <1>2, <2>1, <3>1, <3>2 DEF PendingHere, Pending
  <2>2. CASE i \in Proper
    <3>1. NamesVariable(argv[i])
      <4>1. argv'[i] = argv[i]
        BY <1>2, <1>3, <2>2
      <4>2. NamesVariable(argv[i])' <=> NamesVariable(argv[i])
        BY <1>1, <4>1, KindsKept DEF NamesVariable
      <4>. QED
        BY <4>2
    <3>2. i < n
      BY <1>0, <2>2, <3>1 DEF Clean, PendingHere
    <3>. QED
      BY <1>6, <2>2, <3>2
  <2>. QED
    BY <1>4, <2>1, <2>2
<1>18. Pending' => \E i \in Proper' : NamesVariable(argv[i])' /\ PendingHere(i)'
  <2>1. SUFFICES ASSUME Pending' PROVE NamesVariable(argv[n + 1])' /\ PendingHere(n + 1)'
    BY <1>2, <1>4
  <2>2. NamesVariable(tok)
    BY <2>1 DEF Pending
  <2>3. NamesVariable(argv[n + 1])'
    BY <1>2, <1>7, <2>2 DEF NamesVariable, Known
  <2>. QED
    BY <1>2, <2>1, <2>2, <2>3 DEF PendingHere
<1>19. \A i \in Words' : Rank(i)' <= Len(positionals') /\ Castable(positionals[Rank(i)].type, i)'
  <2>. SUFFICES ASSUME NEW i \in Words'
                PROVE  Rank(i)' <= Len(positionals') /\ Castable(positionals[Rank(i)].type, i)'
    OBVIOUS
  <2>1. CASE i \in Words
    BY <1>6, <2>1
  <2>2. CASE i = n + 1 /\ tok.kind = "word"
    <3>1. Rank(i)' = current'.positional /\ current'.positional \in Nat \ {0}
      BY <1>8, <1>10, <1>11, <2>2
    <3>2. current'.positional \in 1 .. Len(positionals)
      BY <2>2, <3>1
    <3>3. positionals'[Rank(i)'].type = positionals[current'.positional].type
      BY <3>1, <3>2 DEF TypesKept
    <3>4. argv'[i] = tok
      BY <1>2, <2>2
    <3>5. Castable(positionals[Rank(i)].type, i)'
      BY <2>2, <3>3, <3>4 DEF Castable
    <3>. QED
      BY <2>2, <3>1, <3>5 DEF TypesKept
  <2>. QED
    BY <1>5, <2>1, <2>2
<1>20. \A m \in DOMAIN positionals' : positionals'[m].is_set <=> m <= current'.positional
  OBVIOUS
<1>21. get_active' = Named'
  BY <1>5 DEF Clean
<1>22. \A k \in Named' : ~is_flag(k)' =>
         \/ Pending' /\ k = current'.key
         \/ \E i \in Proper' : /\ i < Len(argv') /\ NamesVariable(argv[i])' /\ argv'[i].key = k
                               /\ arguments'[k].value = StringCast(Options[k], argv'[i + 1].text)
  <2>. SUFFICES ASSUME NEW k \in Named', ~is_flag(k)'
                PROVE  \/ Pending' /\ k = current'.key
                       \/ \E i \in Proper' : /\ i < Len(argv') /\ NamesVariable(argv[i])' /\ argv'[i].key = k
                                             /\ arguments'[k].value = StringCast(Options[k], argv'[i + 1].text)
    OBVIOUS
  <2>1. CASE k \in Named
    <3>1. k \in DOMAIN arguments /\ ~is_flag(k)
      BY <1>7, <2>1 DEF Clean, Known
    <3>2. \E i \in Proper : /\ i < Len(argv) /\ NamesVariable(argv[i]) /\ argv[i].key = k
                            /\ arguments[k].value = StringCast(Options[k], argv[i + 1].text)
      BY <2>1, <3>1 DEF Clean
    <3>3. arguments'[k].value = arguments[k].value
      BY <3>1
    <3>4. \E i \in Proper' : /\ i < Len(argv') /\ NamesVariable(argv[i])' /\ argv'[i].key = k
                             /\ arguments'[k].value = StringCast(Options[k], argv'[i + 1].text)
      BY <1>0, <1>1, <3>2, <3>3, ValueKept
    <3>. QED
      BY <3>4, Zenon
  <2>2. CASE k \in NamedOf(tok)
    <3>1. k \in DOMAIN arguments /\ ~is_flag(k)
      BY <1>7, <2>2
    <3>2. tok.kind \in {"short", "full"} /\ tok.key = k
      BY <2>2, <3>1, TokensAssumption DEF NamedOf
    <3>. QED
      BY <3>1, <3>2 DEF NamesVariable, Known, Pending
  <2>. QED
    BY <1>5, <2>1, <2>2
<1>23. valid_state' /\ error_log' = <<>>
  BY DEF Clean
<1>. QED
  BY <1>12, <1>13, <1>14, <1>15, <1>17, <1>18, <1>19, <1>20, <1>21, <1>22, <1>23 DEF Clean

(* The variable that waits for an operand.                                 *)
LEMMA WaitingVariable ==
    ASSUME DeclaredOK, Clean, Pending, argv \in Seq(Tokens), NEW n, n = Len(argv)
    PROVE  /\ n \in Proper /\ n \in 1 .. n /\ NamesVariable(argv[n]) /\ argv[n].key = current.key
           /\ current.key \in DOMAIN arguments /\ ~is_flag(current.key)
           /\ arguments[current.key].type = Options[current.key]
<1>1. n \in Proper /\ n \in 1 .. n /\ NamesVariable(argv[n]) /\ argv[n].key = current.key
  BY AwaitedIsPending DEF Awaited
<1>2. current.key \in DOMAIN arguments /\ ~is_flag(current.key)
  BY <1>1 DEF NamesVariable, Known
<1>3. current.key \in DOMAIN Options
  BY <1>2 DEF DeclaredOK, DeclaredOption, is_flag
<1>4. arguments[current.key].type = Options[current.key]
  BY <1>2, <1>3 DEF DeclaredOK, DeclaredOption
<1>. QED
  BY <1>1, <1>2, <1>4

(* The operand of a variable.                                              *)
LEMMA OperandRead ==
    ASSUME Inv, Clean, Pending, NEW tok \in Tokens, argv' = Append(argv, tok),
           NEW c, c = current.key, NEW result,
           result = StringCast(arguments[c].type, tok.text), result \notin Thrown,
           arguments' = [arguments EXCEPT ![c].value = result],
           UNCHANGED <<exclusive_flags, exclusive_variables, positionals, valid_state, error_log>>,
           phase' = "tokens", current' = [current EXCEPT !.key = none]
    PROVE  ValuesMove /\ Clean'
<1>. DEFINE len == Len(argv)
<1>0. PICK n : n = len
  OBVIOUS
<1>. HIDE DEF len
<1>1. argv \in Seq(Tokens) /\ DeclaredOK /\ n = Len(argv)
  BY <1>0 DEF Inv, len
<1>2. /\ n \in Proper /\ n \in 1 .. n /\ NamesVariable(argv[n]) /\ argv[n].key = c
      /\ c \in DOMAIN arguments /\ ~is_flag(c) /\ arguments[c].type = Options[c]
  BY <1>1, WaitingVariable
<1>3. \A k \in DOMAIN arguments :
        /\ arguments'[k] = Recast(arguments[k], arguments[k].is_set, IF k = c THEN result ELSE arguments[k].value)
        /\ arguments[k].is_set \in BOOLEAN
  <2>1. \A k \in DOMAIN arguments :
          arguments'[k] = IF k = c THEN [arguments[k] EXCEPT !.value = result] ELSE arguments[k]
    OBVIOUS
  <2>. QED
    BY ONLY <1>1, <2>1, RecastFacts, TRUE \in BOOLEAN
<1>4. \A k \in DOMAIN arguments :
        /\ arguments'[k].is_set = arguments[k].is_set /\ arguments'[k].is_set \in BOOLEAN
        /\ arguments'[k].value = (IF k = c THEN result ELSE arguments[k].value)
  <2>. SUFFICES ASSUME NEW k \in DOMAIN arguments
                PROVE  /\ arguments'[k].is_set = arguments[k].is_set /\ arguments'[k].is_set \in BOOLEAN
                       /\ arguments'[k].value = (IF k = c THEN result ELSE arguments[k].value)
    OBVIOUS
  <2>1. /\ arguments'[k] = Recast(arguments[k], arguments[k].is_set, IF k = c THEN result ELSE arguments[k].value)
        /\ arguments[k].is_set \in BOOLEAN
    BY <1>3
  <2>. QED
    BY ONLY <2>1 DEF Recast
<1>5. ValuesMove
  <2>1. arguments' = [k \in DOMAIN arguments |-> arguments'[k]]
    BY <1>1 DEF DeclaredOK
  <2>. QED
    BY <1>3, <1>4, <2>1 DEF ValuesMove
<1>6. SameKinds
  BY <1>1, <1>5, MovedOK
<1>7. get_active' = get_active
  <2>1. DOMAIN arguments' = DOMAIN arguments
    BY <1>6 DEF SameKinds
  <2>. QED
    BY <1>4, <2>1 DEF get_active
<1>8. /\ n \in Nat /\ Len(argv') = n + 1 /\ argv'[n + 1] = tok
      /\ \A i \in 1 .. n : argv'[i] = argv[i]
  BY <1>1, Appended
<1>9. Awaited /\ Proper \subseteq 1 .. n
  BY <1>1, AwaitedIsPending
<1>10. Proper' = Proper
  BY <1>1, <1>6, <1>9, ProperNext
<1>11. Named' = Named /\ Words' = Words
  BY <1>1, <1>6, <1>9, NamesNext
<1>12. TypesKept /\ \E R : positionals \in Seq(R)
  BY <1>1 DEF TypesKept, DeclaredOK
<1>13. /\ \A k \in Named : Known(k)'
       /\ \A i \in Proper : argv'[i].kind = "group" => \A k \in NamedBy(i)' : is_flag(k)'
       /\ \A i \in Proper : NamesVariable(argv[i])' /\ i < n =>
             i < Len(argv') /\ Castable(arguments[argv[i].key].type, i + 1)'
       /\ \A i \in Words : Rank(i)' <= Len(positionals') /\ Castable(positionals[Rank(i)].type, i)'
  BY <1>1, <1>6, <1>12, TokensKept
<1>14. arguments'[argv'[n].key].type = arguments[c].type /\ argv'[n] = argv[n]
  BY <1>2, <1>6, <1>8 DEF SameKinds
<1>15. Castable(arguments[argv[n].key].type, n + 1)'
  BY <1>8, <1>14 DEF Castable
<1>16. ASSUME NEW i \in Proper', NamesVariable(argv[i])'
       PROVE  i < Len(argv') /\ Castable(arguments[argv[i].key].type, i + 1)'
  <2>1. i \in 1 .. n
    BY <1>9, <1>10
  <2>2. CASE i = n
    <3>1. argv'[i].key = argv'[n].key /\ argv'[i + 1] = argv'[n + 1] /\ i < Len(argv')
      BY <1>8, <2>2
    <3>. QED
      BY ONLY <1>15, <3>1 DEF Castable
  <2>3. CASE i < n
    BY <1>10, <1>13, <1>16, <2>3
  <2>. QED
    BY <1>8, <2>1, <2>2, <2>3
<1>17. \A k \in DOMAIN arguments : Known(k)' /\ (is_flag(k)' <=> is_flag(k))
  BY <1>6 DEF SameKinds, Known, is_flag
<1>18. ASSUME NEW k \in Named', ~is_flag(k)'
       PROVE  \E i \in Proper' : /\ i < Len(argv') /\ NamesVariable(argv[i])' /\ argv'[i].key = k
                                /\ arguments'[k].value = StringCast(Options[k], argv'[i + 1].text)
  <2>1. k \in Named /\ k \in DOMAIN arguments /\ ~is_flag(k)
    BY <1>11, <1>17, <1>18 DEF Clean, Known
  <2>2. CASE k = c
    <3>1. n \in Proper' /\ n < Len(argv') /\ argv'[n].key = c
      BY <1>2, <1>8, <1>10, <1>14
    <3>2. NamesVariable(argv[n])'
      BY <1>2, <1>6, <1>14 DEF NamesVariable, Known, is_flag, SameKinds
    <3>3. arguments'[c].value = StringCast(Options[c], argv'[n + 1].text)
      BY <1>2, <1>4, <1>8
    <3>. QED
      BY <2>2, <3>1, <3>2, <3>3
  <2>3. CASE k # c
    <3>1. \E i \in Proper : /\ i < Len(argv) /\ NamesVariable(argv[i]) /\ argv[i].key = k
                            /\ arguments[k].value = StringCast(Options[k], argv[i + 1].text)
      BY <2>1, <2>3 DEF Clean
    <3>2. arguments'[k].value = arguments[k].value
      BY <1>4, <2>1, <2>3
    <3>. QED
      BY <1>1, <1>6, <3>1, <3>2, ValueKept
  <2>. QED
    BY <2>2, <2>3
<1>19. /\ current'.positional = Cardinality(Words') /\ current'.positional <= Len(positionals')
       /\ \A m \in DOMAIN positionals' : positionals'[m].is_set <=> m <= current'.positional
  <2>1. current'.positional = current.positional
    BY DEF Inv
  <2>. QED
    BY <1>11, <2>1 DEF Clean
<1>20. valid_state' /\ error_log' = <<>> /\ ~Pending' /\ get_active' = Named'
  BY <1>7, <1>11 DEF Clean, Pending
<1>21. Clean'
  BY <1>10, <1>11, <1>13, <1>16, <1>18, <1>19, <1>20 DEF Clean
<1>. QED
  BY <1>5, <1>21

(* An operand that cannot be cast.                                         *)
LEMMA OperandWrong ==
    ASSUME Inv, Clean, Pending, UNCHANGED declared, NEW tok \in Tokens, argv' = Append(argv, tok),
           StringCast(arguments[current.key].type, tok.text) \in Thrown
    PROVE  ~WellFormed'
<1>. DEFINE len == Len(argv)
<1>0. PICK n : n = len
  OBVIOUS
<1>. HIDE DEF len
<1>1. argv \in Seq(Tokens) /\ DeclaredOK /\ n = Len(argv)
  BY <1>0 DEF Inv, len
<1>2. n \in Proper /\ n \in 1 .. n /\ NamesVariable(argv[n]) /\ argv[n].key = current.key
  BY <1>1, WaitingVariable
<1>3. SameKinds
  BY DEF SameKinds, declared
<1>4. argv'[n] = argv[n] /\ argv'[n + 1] = tok
  BY <1>1, <1>2, Appended
<1>5. n \in Proper'
  BY <1>1, <1>2, <1>3, ProperNext
<1>6. NamesVariable(argv[n])'
  BY <1>2, <1>3, <1>4 DEF NamesVariable, Known, is_flag, SameKinds
<1>7. ~Castable(arguments[argv[n].key].type, n + 1)'
  BY <1>2, <1>4 DEF Castable, declared
<1>. QED
  BY <1>5, <1>6, <1>7 DEF WellFormed

-----------------------------------------------------------------------------
(* The actions.                                                            *)

(* The synopsis shows each option: free, in an exclusive set, or with the  *)
(* option that depends on it.                                              *)
LEMMA CachedUsage ==
    ASSUME DeclaredOK, UsageComplete
    PROVE  cached_usage.known \ Special \subseteq cached_usage.shown
<1>1. ASSUME NEW k \in DOMAIN arguments, k \notin Special PROVE k \in make_usage_string.shown
  <2>. DEFINE dependent == {l \in DOMAIN arguments : arguments[l].dependency # none}
              needed == {arguments[l].dependency : l \in dependent}
              free == {l \in DOMAIN arguments \ dependent : arguments[l].exclusive_sets = {}} \ (Special \union needed)
              sets == UNION Range(exclusive_flags \o exclusive_variables)
              pairs == UNION {{l, arguments[l].dependency} : l \in dependent}
  <2>1. make_usage_string.shown = free \union sets \union pairs
    BY DEF make_usage_string
  <2>2. k \in dependent \union needed => k \in pairs
    OBVIOUS
  <2>3. arguments[k].exclusive_sets # {} => k \in sets
    <3>. SUFFICES ASSUME arguments[k].exclusive_sets # {} PROVE k \in sets
      OBVIOUS
    <3>. DEFINE SX == {set \in SUBSET DOMAIN arguments : TRUE}
    <3>1. exclusive_flags \in Seq(SX) /\ exclusive_variables \in Seq(SX)
      BY DEF DeclaredOK
    <3>2. PICK set \in Range(exclusive_flags) \union Range(exclusive_variables) : k \in set
      BY DEF DeclaredOK, DeclaredOption
    <3>3. set \in Range(exclusive_flags \o exclusive_variables)
      <4>. HIDE DEF SX
      <4>1. CASE set \in Range(exclusive_flags)
        <5>1. PICK i \in DOMAIN exclusive_flags : exclusive_flags[i] = set
          BY <4>1 DEF Range
        <5>2. /\ i \in DOMAIN (exclusive_flags \o exclusive_variables)
              /\ (exclusive_flags \o exclusive_variables)[i] = set
          BY <3>1, <5>1
        <5>. QED
          BY <5>2 DEF Range
      <4>2. CASE set \in Range(exclusive_variables)
        <5>1. PICK i \in DOMAIN exclusive_variables : exclusive_variables[i] = set
          BY <4>2 DEF Range
        <5>2. PICK j : j = Len(exclusive_flags) + i
          OBVIOUS
        <5>3. /\ j \in DOMAIN (exclusive_flags \o exclusive_variables)
              /\ (exclusive_flags \o exclusive_variables)[j] = set
          BY <3>1, <5>1, <5>2
        <5>. QED
          BY <5>3 DEF Range
      <4>. QED
        BY <3>2, <4>1, <4>2
    <3>. QED
      BY <3>2, <3>3
  <2>. QED
    BY <1>1, <2>1, <2>2, <2>3
<1>2. make_usage_string.known = DOMAIN arguments
  BY DEF make_usage_string
<1>. QED
  BY <1>1, <1>2 DEF cached_usage, UsageComplete

(* The tokens broke a rule, and the log says so.                           *)
Refused == ~valid_state /\ error_log \in Seq(Errors) \ {<<>>} /\ ~WellFormed

LEMMA Closing ==
    ASSUME Inv, DeclaredOK', UsageComplete', (argv \in Seq(Tokens))',
           (current = [positional |-> current.positional, key |-> current.key])',
           phase' \in {"tokens", "operand", "checks", "exited"},
           \/ phase' = "exited"
           \/ Clean'
           \/ phase' = "checks" /\ Refused'
    PROVE  Inv'
<1>1. phase' # "parsed" /\ phase' # "declare"
  OBVIOUS
<1>2. (ParsesLegalLines /\ RefusalExplained)'
  BY <1>1 DEF ParsesLegalLines, RefusalExplained
<1>. QED
  BY <1>1, <1>2 DEF Inv, Refused

LEMMA ThrowRefuses ==
    ASSUME Clean, NEW e \in Errors, throw(e), ~WellFormed'
    PROVE  phase' = "checks" /\ Refused' /\ current' = current
BY DEF Clean, throw, Refused

LEMMA CurrentShape ==
    ASSUME Inv, NEW k, NEW m
    PROVE  /\ [current EXCEPT !.key = k] = [positional |-> current.positional, key |-> k]
           /\ [current EXCEPT !.positional = m] = [positional |-> m, key |-> current.key]
BY DEF Inv

LEMMA ReadFacts ==
    ASSUME Inv, phase = "tokens", NEW tok \in Tokens, read(tok)
    PROVE  /\ Clean /\ ~Pending /\ DeclaredOK /\ argv' = Append(argv, tok)
           /\ argv \in Seq(Tokens) /\ (argv \in Seq(Tokens))'
BY DEF Inv, read, Pending

(* A name that is not declared breaks a rule.                              *)
LEMMA UnknownName ==
    ASSUME Inv, phase = "tokens", NEW tok \in Tokens, read(tok), SameKinds,
           NEW k \in NamedOf(tok), k \notin DOMAIN arguments \/ (tok.kind = "group" /\ ~is_flag(k))
    PROVE  ~WellFormed'
<1>. DEFINE len == Len(argv)
<1>0. PICK n : n = len
  OBVIOUS
<1>1. /\ Clean /\ ~Pending /\ DeclaredOK /\ argv' = Append(argv, tok)
      /\ argv \in Seq(Tokens)
  BY ReadFacts
<1>2. ~Awaited
  BY <1>1, AwaitedIsPending
<1>3. n + 1 \in Proper' /\ argv'[n + 1] = tok /\ k \in Named'
  BY <1>0, <1>1, <1>2, ProperNext, NamesNext, Appended
<1>4. NamedBy(n + 1)' = NamedOf(tok)
  BY <1>3 DEF NamedBy, NamedOf
<1>5. Known(k)' <=> k \in DOMAIN arguments
  BY DEF Known, SameKinds
<1>6. k \in DOMAIN arguments => (is_flag(k)' <=> is_flag(k))
  BY DEF is_flag, SameKinds
<1>. QED
  BY <1>3, <1>4, <1>5, <1>6 DEF WellFormed

LEMMA SingleInv ==
    ASSUME Inv, NEW tok \in Tokens, single_argument(tok)
    PROVE  Inv'
<1>0. phase = "tokens" /\ tok.kind \in {"short", "full"} /\ read(tok)
      /\ UNCHANGED <<positionals, exclusive_flags, exclusive_variables, exit_on_special>>
  BY DEF single_argument
<1>1. /\ Clean /\ ~Pending /\ DeclaredOK /\ argv' = Append(argv, tok)
      /\ argv \in Seq(Tokens) /\ (argv \in Seq(Tokens))'
  BY <1>0, ReadFacts
<1>2. NamedOf(tok) = {tok.key} /\ tok.kind # "word" /\ tok.kind # "group"
  BY <1>0 DEF NamedOf
<1>3. UsageComplete /\ TypesKept /\ current.positional \in Nat /\ \E R : positionals \in Seq(R)
  <2>1. current.positional \in Nat
    <3>1. IsFiniteSet(Words)
      <4>1. IsFiniteSet(1 .. Len(argv)) /\ Words \subseteq 1 .. Len(argv)
        BY <1>1, FS_Interval DEF Words, Proper
      <4>. QED
        BY <4>1, FS_Subset
    <3>. QED
      BY <1>1, <3>1, FS_CardinalityType DEF Clean
  <2>. QED
    BY <1>0, <1>1, <2>1 DEF Inv, TypesKept, DeclaredOK
<1>4. CASE tok.key \notin DOMAIN arguments
  <2>1. throw("UnknownArgument") /\ UNCHANGED <<arguments, usage>>
    BY <1>4 DEF single_argument
  <2>2. ValuesMove /\ SameKinds /\ DeclaredOK'
    BY <1>0, <1>1, <2>1, SameOptions, MovedOK DEF DeclaredOK
  <2>3. ~WellFormed'
    BY <1>0, <1>2, <1>4, <2>2, UnknownName
  <2>4. phase' = "checks" /\ Refused' /\ current' = current
    <3>1. "UnknownArgument" \in Errors
      BY DEF Errors
    <3>. QED
      BY ONLY <1>1, <2>1, <2>3, <3>1, ThrowRefuses
  <2>. QED
    BY <1>1, <1>3, <2>1, <2>2, <2>4, Closing DEF UsageComplete, Inv
<1>5. CASE tok.key \in DOMAIN arguments /\ tok.key \in Special
  <2>. DEFINE b == ~exit_on_special
  <2>1. /\ UNCHANGED <<error_log, valid_state, current>> /\ trigger(tok.key)
        /\ arguments' = [arguments EXCEPT ![tok.key].is_set = b]
    BY <1>5 DEF single_argument
  <2>2. b \in BOOLEAN
    OBVIOUS
  <2>3. arguments' = [k \in DOMAIN arguments |->
           IF k \in {tok.key} THEN [arguments[k] EXCEPT !.is_set = b] ELSE arguments[k]]
    BY <1>1, <1>5, <2>1 DEF DeclaredOK
  <2>. HIDE DEF b
  <2>4. /\ ValuesMove /\ \A k \in DOMAIN arguments : arguments'[k].value = arguments[k].value
        /\ b => get_active' = get_active \union {tok.key}
    BY ONLY <1>0, <1>1, <1>5, <2>2, <2>3, MarkedSet
  <2>5. DeclaredOK' /\ SameKinds
    BY <1>0, <1>1, <2>4, MovedOK DEF DeclaredOK
  <2>6. UsageComplete'
    BY <1>1, <1>3, <2>1, CachedUsage DEF trigger, UsageComplete
  <2>7. CASE exit_on_special
    BY <1>1, <2>1, <2>5, <2>6, <2>7, Closing DEF trigger, Inv
  <2>8. CASE ~exit_on_special
    <3>1. phase' = "tokens" /\ b
      BY <2>1, <2>8 DEF trigger, b
    <3>2. ~NamesVariable(tok)
      BY <1>1, <1>5 DEF NamesVariable, is_flag, DeclaredOK, DeclaredOption
    <3>3. current'.positional = current.positional
      BY <2>1
    <3>4. /\ phase' = "operand" <=> NamesVariable(tok)
          /\ NamedOf(tok) \subseteq DOMAIN arguments
          /\ get_active' = get_active \union NamedOf(tok)
          /\ DOMAIN positionals' = DOMAIN positionals
          /\ \A m \in DOMAIN positionals : positionals'[m].is_set <=> m <= current'.positional
      BY <1>0, <1>1, <1>2, <1>5, <2>4, <3>1, <3>2, <3>3 DEF Clean
    <3>5. current'.positional = current.positional + (IF tok.kind = "word" THEN 1 ELSE 0)
      BY <1>2, <1>3, <3>3
    <3>6. Clean'
      BY <1>0, <1>1, <1>2, <1>3, <2>1, <2>4, <3>2, <3>4, <3>5, ProperRead
    <3>. QED
      BY <1>1, <2>1, <2>5, <2>6, <3>1, <3>6, Closing DEF Inv
  <2>. QED
    BY <2>7, <2>8
<1>6. CASE tok.key \in DOMAIN arguments /\ tok.key \notin Special
  <2>1. /\ UNCHANGED <<error_log, valid_state, usage>>
        /\ arguments' = [arguments EXCEPT ![tok.key].is_set = TRUE]
        /\ phase' = IF is_flag(tok.key) THEN "tokens" ELSE "operand"
        /\ current' = IF is_flag(tok.key) THEN current ELSE [current EXCEPT !.key = tok.key]
    BY <1>6 DEF single_argument
  <2>2. arguments' = [k \in DOMAIN arguments |->
           IF k \in {tok.key} THEN [arguments[k] EXCEPT !.is_set = TRUE] ELSE arguments[k]]
    BY <1>1, <1>6, <2>1 DEF DeclaredOK
  <2>3. /\ ValuesMove /\ \A k \in DOMAIN arguments : arguments'[k].value = arguments[k].value
        /\ get_active' = get_active \union {tok.key}
    BY ONLY <1>0, <1>1, <1>6, <2>2, MarkedSet, TRUE \in BOOLEAN
  <2>4. DeclaredOK' /\ SameKinds
    BY <1>0, <1>1, <2>3, MovedOK DEF DeclaredOK
  <2>5. /\ current' = [positional |-> current'.positional, key |-> current'.key]
        /\ current'.positional = current.positional
        /\ ~is_flag(tok.key) => current'.key = tok.key
    BY <2>1, CurrentShape DEF Inv
  <2>6. NamesVariable(tok) <=> ~is_flag(tok.key)
    BY <1>0, <1>6 DEF NamesVariable, Known
  <2>7. /\ phase' = "operand" <=> NamesVariable(tok)
        /\ NamesVariable(tok) => current'.key = tok.key
        /\ phase' \in {"tokens", "operand"}
    BY <2>1, <2>5, <2>6
  <2>8. /\ NamedOf(tok) \subseteq DOMAIN arguments
        /\ get_active' = get_active \union NamedOf(tok)
        /\ DOMAIN positionals' = DOMAIN positionals
        /\ \A m \in DOMAIN positionals : positionals'[m].is_set <=> m <= current'.positional
    BY <1>0, <1>1, <1>2, <1>6, <2>3, <2>5 DEF Clean
  <2>9. current'.positional = current.positional + (IF tok.kind = "word" THEN 1 ELSE 0)
    BY <1>2, <1>3, <2>5
  <2>10. Clean'
    BY <1>0, <1>1, <1>2, <1>3, <2>1, <2>3, <2>7, <2>8, <2>9, ProperRead
  <2>. QED
    BY <1>1, <1>3, <2>1, <2>4, <2>5, <2>7, <2>10, Closing DEF UsageComplete
<1>. QED
  BY <1>4, <1>5, <1>6

LEMMA OperandInv ==
    ASSUME Inv, NEW tok \in Tokens, operand(tok)
    PROVE  Inv'
<1>0. /\ phase = "operand" /\ argv' = Append(argv, tok)
      /\ UNCHANGED <<positionals, exclusive_flags, exclusive_variables, exit_on_special, usage>>
  BY DEF operand, read
<1>1. Clean /\ Pending /\ DeclaredOK /\ argv \in Seq(Tokens) /\ (argv \in Seq(Tokens))' /\ UsageComplete'
  BY <1>0 DEF Inv, Pending, UsageComplete
<1>2. PICK c : c = current.key
  OBVIOUS
<1>3. PICK result : result = StringCast(arguments[c].type, tok.text)
  OBVIOUS
<1>4. CASE result \in Thrown
  <2>1. throw(cast_error(result)) /\ UNCHANGED arguments
    BY <1>2, <1>3, <1>4 DEF operand
  <2>2. UNCHANGED declared
    BY <1>0, <2>1 DEF declared
  <2>3. ~WellFormed'
    BY <1>0, <1>1, <1>2, <1>3, <1>4, <2>2, OperandWrong
  <2>4. cast_error(result) \in Errors
    BY <1>4 DEF cast_error, Thrown, Errors
  <2>5. PICK e \in Errors : throw(e)
    BY <2>1, <2>4
  <2>6. phase' = "checks" /\ Refused' /\ current' = current
    BY ONLY <1>1, <2>3, <2>5, ThrowRefuses
  <2>7. DeclaredOK'
    BY <1>0, <1>1, <2>1, SameOptions, MovedOK DEF DeclaredOK
  <2>. QED
    BY <1>1, <2>6, <2>7, Closing DEF Inv
<1>5. CASE result \notin Thrown
  <2>1. /\ arguments' = [arguments EXCEPT ![c].value = result]
        /\ phase' = "tokens" /\ current' = [current EXCEPT !.key = none]
        /\ UNCHANGED <<error_log, valid_state>>
    BY <1>2, <1>3, <1>5 DEF operand
  <2>2. ValuesMove /\ Clean'
    BY <1>0, <1>1, <1>2, <1>3, <1>5, <2>1, OperandRead
  <2>3. DeclaredOK'
    BY <1>0, <1>1, <2>2, MovedOK DEF DeclaredOK
  <2>4. current' = [positional |-> current'.positional, key |-> current'.key]
    BY <2>1, CurrentShape DEF Inv
  <2>. QED
    BY <1>1, <2>1, <2>2, <2>3, <2>4, Closing
<1>. QED
  BY <1>4, <1>5

LEMMA MissingInv ==
    ASSUME Inv, missing_operand
    PROVE  Inv'
<1>0. phase = "operand" /\ throw("MissingOperand") /\ UNCHANGED <<declared, exit_on_special, usage, argv>>
  BY DEF missing_operand
<1>1. Clean /\ Pending /\ DeclaredOK /\ argv \in Seq(Tokens) /\ (argv \in Seq(Tokens))' /\ UsageComplete'
  BY <1>0 DEF Inv, Pending, UsageComplete
<1>. DEFINE len == Len(argv)
<1>2. PICK n : n = len
  OBVIOUS
<1>. HIDE DEF len
<1>3. n = Len(argv)
  BY <1>2 DEF len
<1>4. n \in Proper /\ n \in 1 .. n /\ NamesVariable(argv[n])
  BY <1>1, <1>3, WaitingVariable
<1>5. ~WellFormed
  BY <1>3, <1>4 DEF WellFormed
<1>6. ~WellFormed'
  <2>1. SameKinds
    BY <1>0 DEF SameKinds, declared
  <2>2. n \in Proper' /\ NamesVariable(argv[n])' /\ n = Len(argv')
    BY <1>0, <1>1, <1>3, <1>4, <2>1, TokensUnchanged
  <2>. QED
    BY <1>3, <1>4, <2>2 DEF WellFormed
<1>7. PICK e \in Errors : throw(e)
  BY <1>0 DEF Errors
<1>8. phase' = "checks" /\ Refused' /\ current' = current
  BY ONLY <1>1, <1>6, <1>7, ThrowRefuses
<1>9. DeclaredOK'
  BY <1>0, <1>1, SameOptions, MovedOK DEF DeclaredOK, declared
<1>. QED
  BY <1>1, <1>8, <1>9, Closing DEF Inv

(* A group: all its keys are flags, or one is none.                        *)
LEMMA GroupFacts ==
    ASSUME NEW keys \in Seq(STRING \ {none})
    PROVE  /\ try_set_flag_group(keys).set \subseteq DOMAIN arguments
           /\ try_set_flag_group(keys).key = none =>
                 /\ try_set_flag_group(keys).set = Range(keys)
                 /\ \A k \in Range(keys) : k \in DOMAIN arguments /\ is_flag(k)
           /\ try_set_flag_group(keys).key # none =>
                 \E k \in Range(keys) : k \notin DOMAIN arguments \/ ~is_flag(k)
<1>. DEFINE bad == {i \in DOMAIN keys : keys[i] \notin DOMAIN arguments \/ ~is_flag(keys[i])}
            first == CHOOSE i \in bad : \A j \in bad : i <= j
            stop == IF bad = {} THEN Len(keys) + 1 ELSE first
            u == [key |-> IF bad = {} THEN none ELSE keys[stop], set |-> {keys[j] : j \in 1 .. stop - 1}]
<1>1. try_set_flag_group(keys) = u
  BY DEF try_set_flag_group
<1>2. DOMAIN keys = 1 .. Len(keys) /\ Len(keys) \in Nat
  OBVIOUS
<1>3. bad # {} => first \in bad /\ \A j \in bad : first <= j
  <2>1. bad \in SUBSET Nat
    BY <1>2
  <2>. HIDE DEF bad
  <2>. QED
    BY <2>1, LeastNat
<1>4. \A i \in DOMAIN keys : i \notin bad => keys[i] \in DOMAIN arguments /\ is_flag(keys[i])
  OBVIOUS
<1>5. \A i \in bad : i \in DOMAIN keys /\ keys[i] # none
                    /\ (keys[i] \notin DOMAIN arguments \/ ~is_flag(keys[i]))
  OBVIOUS
<1>6. \A k : k \in Range(keys) <=> \E i \in DOMAIN keys : keys[i] = k
  BY DEF Range
<1>. HIDE DEF bad, first
<1>7. CASE bad = {}
  <2>1. u.key = none /\ u.set = {keys[j] : j \in 1 .. Len(keys)}
    BY <1>2, <1>7
  <2>2. u.set = Range(keys)
    BY <1>2, <2>1 DEF Range
  <2>3. \A k \in Range(keys) : k \in DOMAIN arguments /\ is_flag(k)
    BY <1>4, <1>6, <1>7
  <2>. QED
    BY <1>1, <2>1, <2>2, <2>3
<1>8. CASE bad # {}
  <2>1. u.key = keys[first] /\ u.set = {keys[j] : j \in 1 .. first - 1}
    BY <1>8
  <2>2. first \in DOMAIN keys /\ \A j \in 1 .. first - 1 : j \in DOMAIN keys /\ j \notin bad
    BY <1>2, <1>3, <1>5, <1>8
  <2>3. u.set \subseteq DOMAIN arguments
    BY <1>4, <2>1, <2>2
  <2>4. u.key # none /\ u.key \in Range(keys) /\ (u.key \notin DOMAIN arguments \/ ~is_flag(u.key))
    BY <1>3, <1>5, <1>6, <1>8, <2>1
  <2>. QED
    BY <1>1, <2>3, <2>4
<1>. QED
  BY <1>7, <1>8

LEMMA PositionalCount ==
    ASSUME Clean, argv \in Seq(Tokens)
    PROVE  current.positional \in Nat
<1>1. IsFiniteSet(1 .. Len(argv)) /\ Words \subseteq 1 .. Len(argv)
  BY FS_Interval DEF Words, Proper
<1>. QED
  BY <1>1, FS_Subset, FS_CardinalityType DEF Clean

LEMMA GroupInv ==
    ASSUME Inv, NEW tok \in Tokens, flag_group(tok)
    PROVE  Inv'
<1>. DEFINE u == try_set_flag_group(tok.keys)
<1>0. /\ phase = "tokens" /\ tok.kind = "group" /\ read(tok)
      /\ UNCHANGED <<positionals, exclusive_flags, exclusive_variables, exit_on_special, usage>>
      /\ arguments' = [k \in DOMAIN arguments |->
                          IF k \in u.set THEN [arguments[k] EXCEPT !.is_set = TRUE] ELSE arguments[k]]
      /\ \/ u.key # none /\ throw("UnknownArgument")
         \/ u.key = none /\ UNCHANGED <<error_log, valid_state, phase, current>>
  BY DEF flag_group
<1>1. /\ Clean /\ ~Pending /\ DeclaredOK /\ argv' = Append(argv, tok)
      /\ argv \in Seq(Tokens) /\ (argv \in Seq(Tokens))' /\ UsageComplete'
  BY <1>0, ReadFacts DEF Inv, UsageComplete
<1>2. tok.keys \in Seq(STRING \ {none}) /\ NamedOf(tok) = Range(tok.keys)
  BY <1>0, TokensAssumption DEF NamedOf
<1>3. /\ u.set \subseteq DOMAIN arguments
      /\ u.key = none => u.set = NamedOf(tok) /\ \A k \in NamedOf(tok) : k \in DOMAIN arguments /\ is_flag(k)
      /\ u.key # none => \E k \in NamedOf(tok) : k \notin DOMAIN arguments \/ ~is_flag(k)
  BY <1>2, GroupFacts
<1>. HIDE DEF u
<1>4. /\ ValuesMove /\ \A k \in DOMAIN arguments : arguments'[k].value = arguments[k].value
      /\ get_active' = get_active \union u.set
  BY ONLY <1>0, <1>1, <1>3, MarkedSet, TRUE \in BOOLEAN
<1>5. DeclaredOK' /\ SameKinds
  BY <1>0, <1>1, <1>4, MovedOK DEF DeclaredOK
<1>6. CASE u.key # none
  <2>1. PICK e \in Errors : throw(e)
    BY <1>0, <1>6 DEF Errors
  <2>2. ~WellFormed'
    BY <1>0, <1>3, <1>5, <1>6, UnknownName
  <2>3. phase' = "checks" /\ Refused' /\ current' = current
    BY ONLY <1>1, <2>1, <2>2, ThrowRefuses
  <2>. QED
    BY <1>1, <1>5, <2>3, Closing DEF Inv
<1>7. CASE u.key = none
  <2>1. UNCHANGED <<error_log, valid_state, phase, current>>
    BY <1>0, <1>7
  <2>2. ~NamesVariable(tok) /\ phase' = "tokens" /\ TypesKept /\ \E R : positionals \in Seq(R)
    BY <1>0, <1>1, <2>1 DEF NamesVariable, TypesKept, DeclaredOK
  <2>3. current'.positional = current.positional + (IF tok.kind = "word" THEN 1 ELSE 0)
    BY <1>0, <1>1, <2>1, PositionalCount
  <2>4. /\ phase' = "operand" <=> NamesVariable(tok)
        /\ NamedOf(tok) \subseteq DOMAIN arguments
        /\ get_active' = get_active \union NamedOf(tok)
        /\ DOMAIN positionals' = DOMAIN positionals
        /\ \A m \in DOMAIN positionals : positionals'[m].is_set <=> m <= current'.positional
    BY <1>0, <1>1, <1>3, <1>4, <1>7, <2>1, <2>2 DEF Clean
  <2>5. Clean'
    BY <1>0, <1>1, <1>3, <1>4, <1>7, <2>1, <2>2, <2>3, <2>4, ProperRead
  <2>. QED
    BY <1>1, <1>5, <2>1, <2>2, <2>5, Closing DEF Inv
<1>. QED
  BY <1>6, <1>7

(* A positional too many, or one that cannot be cast.                      *)
LEMMA PositionalWrong ==
    ASSUME Inv, phase = "tokens", NEW tok \in Tokens, read(tok), tok.kind = "word", UNCHANGED declared,
           \/ current.positional >= Len(positionals)
           \/ StringCast(positionals[current.positional + 1].type, tok.text) \in Thrown
    PROVE  ~WellFormed'
<1>. DEFINE len == Len(argv)
            count == current.positional
<1>0. PICK n, c : n = len /\ c = count
  OBVIOUS
<1>. HIDE DEF len, count
<1>1. /\ Clean /\ ~Pending /\ DeclaredOK /\ argv' = Append(argv, tok)
      /\ argv \in Seq(Tokens) /\ n = Len(argv) /\ c = current.positional
  BY <1>0, ReadFacts DEF len, count
<1>2. SameKinds /\ ~Awaited
  BY <1>1, AwaitedIsPending DEF SameKinds, declared
<1>3. n \in Nat /\ argv'[n + 1] = tok /\ c \in Nat
  BY <1>1, Appended, PositionalCount
<1>4. Words' = Words \union {n + 1}
  BY <1>1, <1>2, NamesNext
<1>5. n + 1 \notin Words
  BY <1>1, <1>3 DEF Words, Proper
<1>6. n + 1 \in Words' /\ Rank(n + 1)' = Cardinality(Words) + 1
  BY <1>1, <1>2, <1>4, <1>5, RanksNext
<1>7. Rank(n + 1)' = c + 1
  BY <1>1, <1>6 DEF Clean
<1>8. Rank(n + 1)' <= Len(positionals') => ~Castable(positionals[Rank(n + 1)].type, n + 1)'
  <2>. SUFFICES ASSUME Rank(n + 1)' <= Len(positionals')
                PROVE  ~Castable(positionals[Rank(n + 1)].type, n + 1)'
    OBVIOUS
  <2>1. Len(positionals) \in Nat /\ positionals' = positionals
    BY <1>1 DEF DeclaredOK, declared
  <2>2. StringCast(positionals[c + 1].type, tok.text) \in Thrown
    BY <1>1, <1>3, <1>7, <2>1
  <2>. QED
    BY <1>3, <1>7, <2>1, <2>2 DEF Castable
<1>. QED
  BY <1>6, <1>8 DEF WellFormed

LEMMA PositionalInv ==
    ASSUME Inv, NEW tok \in Tokens, positional(tok)
    PROVE  Inv'
<1>. DEFINE count == current.positional
<1>0. PICK c : c = count
  OBVIOUS
<1>1. /\ phase = "tokens" /\ tok.kind = "word" /\ read(tok) /\ c = current.positional
      /\ UNCHANGED <<arguments, exclusive_flags, exclusive_variables, exit_on_special, usage>>
  BY <1>0 DEF positional
<1>2. /\ Clean /\ ~Pending /\ DeclaredOK /\ argv' = Append(argv, tok)
      /\ argv \in Seq(Tokens) /\ (argv \in Seq(Tokens))' /\ UsageComplete'
  BY <1>1, ReadFacts DEF Inv, UsageComplete
<1>3. c \in Nat /\ Len(positionals) \in Nat
  BY <1>1, <1>2, PositionalCount DEF DeclaredOK
<1>4. ValuesMove
  BY <1>1, <1>2, SameOptions
<1>5. PICK result : result = StringCast(positionals[c + 1].type, tok.text)
  OBVIOUS
<1>6. ASSUME NEW e \in Errors, throw(e), UNCHANGED positionals,
             c >= Len(positionals) \/ result \in Thrown
      PROVE  Inv'
  <2>1. UNCHANGED declared
    BY <1>1, <1>6 DEF declared
  <2>2. ~WellFormed'
    BY <1>1, <1>5, <1>6, <2>1, PositionalWrong
  <2>3. phase' = "checks" /\ Refused' /\ current' = current
    BY <1>2, <1>6, <2>2, ThrowRefuses
  <2>4. DeclaredOK'
    BY <1>2, <1>4, <1>6, MovedOK DEF DeclaredOK
  <2>. QED
    BY <1>2, <2>3, <2>4, Closing DEF Inv
<1>7. ASSUME c < Len(positionals), result \notin Thrown,
             positionals' = [positionals EXCEPT ![c + 1].value = result, ![c + 1].is_set = TRUE],
             current' = [current EXCEPT !.positional = c + 1],
             UNCHANGED <<error_log, valid_state, phase>>
      PROVE  Inv'
  <2>. DEFINE Record == [type : ArgType, is_set : BOOLEAN, value : Texts \union {none},
                         dependency : {none}, exclusive_sets : {{}}]
  <2>1. positionals \in Seq(Record) /\ c + 1 \in 1 .. Len(positionals)
    BY <1>2, <1>3, <1>7 DEF DeclaredOK
  <2>2. result \in Texts
    BY <1>1, <1>5, <1>7, TokensAssumption DEF StringCast, StringCastInt, StringCastVec, Texts, Thrown
  <2>3. PICK option : option = positionals[c + 1]
    OBVIOUS
  <2>4. /\ option \in Record
        /\ option.type \in ArgType
        /\ option = [type |-> option.type, is_set |-> option.is_set, value |-> option.value,
                     dependency |-> none, exclusive_sets |-> {}]
    <3>1. option \in Record
      <4>. HIDE DEF Record
      <4>. QED
        BY <2>1, <2>3
    <3>. QED
      BY ONLY <3>1
  <2>5. PICK given : given = [type |-> option.type, is_set |-> TRUE, value |-> result,
                              dependency |-> none, exclusive_sets |-> {}]
    OBVIOUS
  <2>6. [[option EXCEPT !.value = result] EXCEPT !.is_set = TRUE] = given
    <3>1. PICK cast : cast = [option EXCEPT !.value = result]
      OBVIOUS
    <3>2. cast = [type |-> option.type, is_set |-> option.is_set, value |-> result,
                  dependency |-> none, exclusive_sets |-> {}]
      BY ONLY <2>4, <3>1
    <3>3. PICK yes : yes = TRUE
      OBVIOUS
    <3>4. given = [type |-> option.type, is_set |-> yes, value |-> result,
                   dependency |-> none, exclusive_sets |-> {}]
      BY <2>5, <3>3
    <3>5. [cast EXCEPT !.is_set = yes] = given
      BY ONLY <3>2, <3>4
    <3>. QED
      BY <3>1, <3>3, <3>5
  <2>7. positionals' = [positionals EXCEPT ![c + 1] = given]
    BY <1>7, <2>1, <2>3, <2>6
  <2>8. given \in Record /\ given.type = option.type /\ given.is_set = TRUE
    BY <2>2, <2>4, <2>5
  <2>. HIDE DEF Record
  <2>9. positionals' \in Seq(Record) /\ Len(positionals') = Len(positionals)
        /\ \A m \in 1 .. Len(positionals) : positionals'[m] = IF m = c + 1 THEN given ELSE positionals[m]
    BY <2>1, <2>7, <2>8
  <2>10. TypesKept
    BY <2>3, <2>8, <2>9 DEF TypesKept
  <2>11. DeclaredOK' /\ SameKinds
    BY <1>2, <1>4, <2>9, MovedOK DEF Record
  <2>12. current' = [positional |-> c + 1, key |-> current.key]
    BY <1>7, CurrentShape
  <2>13. /\ DOMAIN positionals' = DOMAIN positionals /\ DOMAIN positionals = 1 .. Len(positionals)
         /\ current'.positional = c + 1
    BY <2>1, <2>9, <2>12
  <2>14. ASSUME NEW m \in DOMAIN positionals
         PROVE  positionals'[m].is_set <=> m <= c + 1
    <3>1. positionals[m].is_set <=> m <= c
      BY <1>1, <1>2 DEF Clean
    <3>2. m \in 1 .. Len(positionals)
      BY <2>13
    <3>3. CASE m = c + 1
      BY <1>3, <2>8, <2>9, <3>2, <3>3
    <3>4. CASE m # c + 1
      BY <1>3, <2>9, <3>1, <3>2, <3>4
    <3>. QED
      BY <3>3, <3>4
  <2>15. NamedOf(tok) = {} /\ ~NamesVariable(tok) /\ tok.kind # "group"
    BY <1>1 DEF NamedOf, NamesVariable
  <2>16. phase' = "tokens" /\ get_active' = get_active
    BY <1>1, <1>7 DEF get_active
  <2>17. /\ phase' = "operand" <=> NamesVariable(tok)
         /\ NamedOf(tok) \subseteq DOMAIN arguments
         /\ get_active' = get_active \union NamedOf(tok)
         /\ \A k \in DOMAIN arguments : arguments'[k].value = arguments[k].value
         /\ \A m \in DOMAIN positionals : positionals'[m].is_set <=> m <= current'.positional
    BY <1>1, <2>13, <2>14, <2>15, <2>16
  <2>18. /\ current'.positional = current.positional + (IF tok.kind = "word" THEN 1 ELSE 0)
         /\ tok.kind = "word" => /\ current'.positional <= Len(positionals)
                                /\ StringCast(positionals[current'.positional].type, tok.text) \notin Thrown
    BY <1>1, <1>3, <1>5, <1>7, <2>13
  <2>19. Clean'
    BY <1>2, <1>4, <1>7, <2>1, <2>10, <2>13, <2>15, <2>17, <2>18, ProperRead
  <2>20. current' = [positional |-> current'.positional, key |-> current'.key]
    BY <2>12
  <2>. QED
    BY <1>2, <2>11, <2>16, <2>19, <2>20, Closing
<1>8. \/ \E e \in Errors : throw(e) /\ UNCHANGED positionals /\ (c >= Len(positionals) \/ result \in Thrown)
      \/ /\ c < Len(positionals) /\ result \notin Thrown
         /\ positionals' = [positionals EXCEPT ![c + 1].value = result, ![c + 1].is_set = TRUE]
         /\ current' = [current EXCEPT !.positional = c + 1]
         /\ UNCHANGED <<error_log, valid_state, phase>>
  BY <1>1, <1>5 DEF positional, cast_error, Errors, Thrown
<1>. QED
  BY <1>6, <1>7, <1>8

-----------------------------------------------------------------------------
(* Declarations, the ends of parse() and its checks.                       *)

LEMMA InitInv == Init => Inv
<1>. SUFFICES ASSUME Init PROVE Inv
  OBVIOUS
<1>1. /\ arguments = [k \in Special |-> Option("BOOL")] /\ positionals = <<>>
      /\ exclusive_flags = <<>> /\ exclusive_variables = <<>> /\ error_log = <<>> /\ valid_state = FALSE
      /\ usage = [known |-> {}, shown |-> {}] /\ phase = "declare"
      /\ current = [positional |-> 0, key |-> none] /\ argv = <<>>
  BY DEF Init
<1>2. \A k \in Special : arguments[k] = Option("BOOL")
  BY <1>1
<1>3. \A k \in DOMAIN arguments : DeclaredOption(k)
  <2>1. \A k \in Special : k \notin DOMAIN Options
    BY OptionsAssumption
  <2>. QED
    BY <1>1, <1>2, <2>1 DEF DeclaredOption, Option
<1>4. DeclaredOK
  BY <1>1, <1>3 DEF DeclaredOK
<1>5. UsageComplete
  BY <1>1 DEF UsageComplete
<1>6. get_active = {}
  BY <1>1, <1>2 DEF get_active, Option
<1>. QED
  BY <1>1, <1>4, <1>5, <1>6 DEF Inv, ParsesLegalLines, RefusalExplained

(* A declaration.                                                          *)
LEMMA Declaring ==
    ASSUME Inv, phase = "declare", DeclaredOK', get_active' = {},
           \A m \in DOMAIN positionals' : ~positionals'[m].is_set,
           UNCHANGED <<error_log, valid_state, exit_on_special, usage, phase, current, argv>>
    PROVE  Inv'
BY DEF Inv, UsageComplete, ParsesLegalLines, RefusalExplained

LEMMA AddVariableInv == ASSUME Inv, add_variable PROVE Inv'
<1>1. /\ phase = "declare" /\ DOMAIN arguments = Special
      /\ arguments' = [k \in Special \union DOMAIN Options |->
                          IF k \in Special THEN arguments[k] ELSE Option(Options[k])]
      /\ UNCHANGED <<positionals, exclusive_flags, exclusive_variables, error_log, valid_state,
                     exit_on_special, usage, phase, current, argv>>
  BY DEF add_variable
<1>2. DeclaredOK /\ get_active = {} /\ \A m \in DOMAIN positionals : ~positionals[m].is_set
  BY <1>1 DEF Inv
<1>3. /\ DOMAIN arguments' = Special \union DOMAIN Options
      /\ \A k \in Special : arguments'[k] = arguments[k] /\ k \notin DOMAIN Options
      /\ \A k \in DOMAIN Options : k \notin Special /\ arguments'[k] = Option(Options[k])
  BY <1>1, OptionsAssumption
<1>4. \A k \in DOMAIN arguments' : DeclaredOption(k)'
  <2>1. ASSUME NEW k \in Special PROVE DeclaredOption(k)'
    BY <1>1, <1>2, <1>3 DEF DeclaredOK, DeclaredOption
  <2>2. ASSUME NEW k \in DOMAIN Options PROVE DeclaredOption(k)'
    <3>1. PICK type : type = Options[k]
      OBVIOUS
    <3>2. arguments'[k] = [type |-> type, is_set |-> FALSE, value |-> none, dependency |-> none, exclusive_sets |-> {}]
      BY <1>3, <3>1 DEF Option
    <3>3. /\ arguments'[k].type = type /\ arguments'[k].is_set = FALSE /\ arguments'[k].value = none
          /\ arguments'[k].dependency = none /\ arguments'[k].exclusive_sets = {}
      BY ONLY <3>2
    <3>4. arguments'[k].is_set \in BOOLEAN /\ k \notin Special
      BY <1>3, <3>3
    <3>. QED
      BY <3>1, <3>2, <3>3, <3>4 DEF DeclaredOption
  <2>. QED
    BY <1>3, <2>1, <2>2
<1>5. /\ (exclusive_flags \in Seq({set \in SUBSET DOMAIN arguments : \A k \in set : is_flag(k)}))'
      /\ (exclusive_variables \in Seq({set \in SUBSET DOMAIN arguments : \A k \in set : ~is_flag(k)}))'
  <2>. DEFINE Flags == {set \in SUBSET DOMAIN arguments : \A k \in set : is_flag(k)}
              Rest == {set \in SUBSET DOMAIN arguments : \A k \in set : ~is_flag(k)}
              MoreFlags == {set \in SUBSET DOMAIN arguments' : \A k \in set : is_flag(k)'}
              MoreRest == {set \in SUBSET DOMAIN arguments' : \A k \in set : ~is_flag(k)'}
  <2>1. \A k \in Special : is_flag(k)' <=> is_flag(k)
    BY <1>3 DEF is_flag
  <2>2. Flags \subseteq MoreFlags /\ Rest \subseteq MoreRest
    BY <1>1, <1>3, <2>1
  <2>3. exclusive_flags \in Seq(Flags) /\ exclusive_variables \in Seq(Rest)
    BY <1>2 DEF DeclaredOK
  <2>. HIDE DEF Flags, Rest, MoreFlags, MoreRest
  <2>4. exclusive_flags' \in Seq(MoreFlags) /\ exclusive_variables' \in Seq(MoreRest)
    BY <1>1, <2>2, <2>3
  <2>. QED
    BY <2>4 DEF MoreFlags, MoreRest
<1>6. DeclaredOK'
  BY <1>1, <1>2, <1>3, <1>4, <1>5 DEF DeclaredOK
<1>7. get_active' = {}
  <2>1. \A k \in DOMAIN arguments' : ~arguments'[k].is_set
    BY <1>1, <1>2, <1>3 DEF get_active, Option
  <2>. QED
    BY <2>1 DEF get_active
<1>. QED
  BY <1>1, <1>2, <1>6, <1>7, Declaring

LEMMA AddPositionalInv == ASSUME Inv, add_positional PROVE Inv'
<1>1. /\ phase = "declare"
      /\ UNCHANGED <<arguments, exclusive_flags, exclusive_variables, error_log, valid_state,
                     exit_on_special, usage, phase, current, argv>>
  BY DEF add_positional
<1>2. PICK types \in Positionals : positionals' = [i \in DOMAIN types |-> Option(types[i])]
  BY DEF add_positional
<1>3. types \in Seq(ArgType)
  BY OptionsAssumption
<1>4. DeclaredOK /\ get_active = {}
  BY <1>1 DEF Inv
<1>5. \A type \in ArgType : Option(type) \in [type : ArgType, is_set : BOOLEAN, value : Texts \union {none},
                                             dependency : {none}, exclusive_sets : {{}}]
                          /\ Option(type).is_set = FALSE
  BY DEF Option
<1>6. positionals' \in Seq([type : ArgType, is_set : BOOLEAN, value : Texts \union {none},
                            dependency : {none}, exclusive_sets : {{}}])
      /\ \A m \in DOMAIN positionals' : ~positionals'[m].is_set
  <2>. DEFINE Record == [type : ArgType, is_set : BOOLEAN, value : Texts \union {none},
                         dependency : {none}, exclusive_sets : {{}}]
  <2>1. \A i \in DOMAIN types : Option(types[i]) \in Record /\ ~Option(types[i]).is_set
    BY <1>3, <1>5
  <2>. HIDE DEF Record
  <2>2. positionals' \in Seq(Record)
    BY <1>2, <1>3, <2>1
  <2>3. \A m \in DOMAIN positionals' : ~positionals'[m].is_set
    BY <1>2, <2>1
  <2>. QED
    BY <2>2, <2>3 DEF Record
<1>7. DeclaredOK'
  BY <1>1, <1>4, <1>6, SameOptions, MovedOK
<1>8. get_active' = {}
  BY <1>1, <1>4 DEF get_active
<1>. QED
  BY <1>1, <1>6, <1>7, <1>8, Declaring

(* The options of an exclusive set remember it.                            *)
LEMMA ExclusiveInv ==
    ASSUME Inv, NEW set, set_flags_exclusive(set) \/ set_variables_exclusive(set)
    PROVE  Inv'
<1>1. PICK index :
      /\ phase = "declare" /\ set \subseteq DOMAIN arguments
      /\ arguments' = mark_exclusive(set, index)
      /\ UNCHANGED <<positionals, error_log, valid_state, exit_on_special, usage, phase, current, argv>>
      /\ \/ /\ \A k \in set : is_flag(k)
            /\ exclusive_flags' = Append(exclusive_flags, set) /\ UNCHANGED exclusive_variables
         \/ /\ \A k \in set : ~is_flag(k)
            /\ exclusive_variables' = Append(exclusive_variables, set) /\ UNCHANGED exclusive_flags
  BY DEF set_flags_exclusive, set_variables_exclusive
<1>2. DeclaredOK /\ get_active = {} /\ \A m \in DOMAIN positionals : ~positionals[m].is_set
  BY <1>1 DEF Inv
<1>3. DOMAIN arguments' = DOMAIN arguments
      /\ arguments' = [k \in DOMAIN arguments' |-> arguments'[k]]
  BY <1>1 DEF mark_exclusive
<1>4. ASSUME NEW k \in DOMAIN arguments
      PROVE  arguments'[k] = [type |-> arguments[k].type, is_set |-> arguments[k].is_set,
                              value |-> arguments[k].value, dependency |-> arguments[k].dependency,
                              exclusive_sets |-> IF k \in set THEN arguments[k].exclusive_sets \union {index}
                                                 ELSE arguments[k].exclusive_sets]
  <2>1. PICK option : option = arguments[k]
    OBVIOUS
  <2>2. option = [type |-> option.type, is_set |-> option.is_set, value |-> option.value,
                  dependency |-> option.dependency, exclusive_sets |-> option.exclusive_sets]
    BY <1>2, <2>1 DEF DeclaredOK, DeclaredOption
  <2>3. arguments'[k] = IF k \in set THEN [option EXCEPT !.exclusive_sets = @ \union {index}] ELSE option
    BY <1>1, <2>1 DEF mark_exclusive
  <2>4. arguments'[k] = [type |-> option.type, is_set |-> option.is_set,
                         value |-> option.value, dependency |-> option.dependency,
                         exclusive_sets |-> IF k \in set THEN option.exclusive_sets \union {index}
                                            ELSE option.exclusive_sets]
    BY ONLY <2>2, <2>3
  <2>. QED
    BY <2>1, <2>4
<1>4a. ASSUME NEW k \in DOMAIN arguments
       PROVE  /\ arguments'[k].type = arguments[k].type /\ arguments'[k].is_set = arguments[k].is_set
              /\ arguments'[k] = [type |-> arguments'[k].type, is_set |-> arguments'[k].is_set,
                                  value |-> arguments'[k].value, dependency |-> arguments'[k].dependency,
                                  exclusive_sets |-> arguments'[k].exclusive_sets]
              /\ k \in set \/ arguments'[k].exclusive_sets = arguments[k].exclusive_sets
  <2>1. PICK option, sets : /\ option = arguments[k]
                            /\ sets = IF k \in set THEN arguments[k].exclusive_sets \union {index}
                                      ELSE arguments[k].exclusive_sets
    OBVIOUS
  <2>2. arguments'[k] = [type |-> option.type, is_set |-> option.is_set, value |-> option.value,
                         dependency |-> option.dependency, exclusive_sets |-> sets]
    BY <1>4, <2>1, Zenon
  <2>3. PICK new : new = arguments'[k]
    OBVIOUS
  <2>4. /\ new.type = option.type /\ new.is_set = option.is_set /\ new.exclusive_sets = sets
        /\ new = [type |-> new.type, is_set |-> new.is_set, value |-> new.value,
                  dependency |-> new.dependency, exclusive_sets |-> new.exclusive_sets]
    BY ONLY <2>2, <2>3
  <2>5. k \in set \/ sets = option.exclusive_sets
    BY <2>1
  <2>. QED
    BY ONLY <2>1, <2>3, <2>4, <2>5
<1>5. /\ \A s \in Range(exclusive_flags) \union Range(exclusive_variables) :
            s \in Range(exclusive_flags') \union Range(exclusive_variables')
      /\ set \in Range(exclusive_flags') \union Range(exclusive_variables')
  <2>. DEFINE SX == SUBSET DOMAIN arguments
  <2>1. exclusive_flags \in Seq(SX) /\ exclusive_variables \in Seq(SX)
    BY <1>2 DEF DeclaredOK
  <2>. HIDE DEF SX
  <2>2. ASSUME NEW s \in Seq(SX), NEW e
        PROVE  e \in Range(Append(s, e)) /\ Range(s) \subseteq Range(Append(s, e))
    <3>1. PICK l \in Nat : l = Len(s)
      BY <2>2
    <3>2. /\ DOMAIN s = 1 .. l /\ DOMAIN Append(s, e) = 1 .. l + 1 /\ Append(s, e)[l + 1] = e
          /\ \A i \in 1 .. l : Append(s, e)[i] = s[i] /\ i \in 1 .. l + 1
      BY <2>2, <3>1
    <3>3. l + 1 \in 1 .. l + 1
      OBVIOUS
    <3>. QED
      BY <3>2, <3>3 DEF Range
  <2>. QED
    BY <1>1, <2>1, <2>2
<1>6. \A k \in DOMAIN arguments' : DeclaredOption(k)'
  <2>. SUFFICES ASSUME NEW k \in DOMAIN arguments PROVE DeclaredOption(k)'
    BY <1>3
  <2>1. /\ arguments'[k].type = arguments[k].type /\ arguments'[k].is_set = arguments[k].is_set
        /\ arguments'[k].exclusive_sets # {} => k \in set \/ arguments[k].exclusive_sets # {}
    BY <1>4a
  <2>2. arguments'[k] = [type |-> arguments'[k].type, is_set |-> arguments'[k].is_set,
                         value |-> arguments'[k].value, dependency |-> arguments'[k].dependency,
                         exclusive_sets |-> arguments'[k].exclusive_sets]
    BY <1>4a
  <2>3. /\ arguments[k].is_set \in BOOLEAN
        /\ k \in DOMAIN Options => arguments[k].type = Options[k]
        /\ k \in Special => arguments[k].type = "BOOL"
        /\ arguments[k].exclusive_sets # {} =>
               \E s \in Range(exclusive_flags) \union Range(exclusive_variables) : k \in s
    BY <1>2 DEF DeclaredOK, DeclaredOption
  <2>4. arguments'[k].exclusive_sets # {} =>
           \E s \in Range(exclusive_flags') \union Range(exclusive_variables') : k \in s
    BY <1>5, <2>1, <2>3
  <2>. QED
    BY <2>1, <2>2, <2>3, <2>4 DEF DeclaredOption
<1>7. /\ (exclusive_flags \in Seq({s \in SUBSET DOMAIN arguments : \A k \in s : is_flag(k)}))'
      /\ (exclusive_variables \in Seq({s \in SUBSET DOMAIN arguments : \A k \in s : ~is_flag(k)}))'
  <2>. DEFINE Flags == {s \in SUBSET DOMAIN arguments : \A k \in s : is_flag(k)}
              Rest == {s \in SUBSET DOMAIN arguments : \A k \in s : ~is_flag(k)}
              NewFlags == {s \in SUBSET DOMAIN arguments' : \A k \in s : is_flag(k)'}
              NewRest == {s \in SUBSET DOMAIN arguments' : \A k \in s : ~is_flag(k)'}
  <2>1. \A k \in DOMAIN arguments : is_flag(k)' <=> is_flag(k)
    BY <1>4a DEF is_flag
  <2>2. Flags = NewFlags /\ Rest = NewRest
    <3>1. \A s \in SUBSET DOMAIN arguments : \A k \in s : is_flag(k)' <=> is_flag(k)
      BY <2>1
    <3>. QED
      BY <1>3, <3>1
  <2>3. exclusive_flags \in Seq(Flags) /\ exclusive_variables \in Seq(Rest)
    BY <1>2 DEF DeclaredOK
  <2>4. \/ set \in Flags /\ exclusive_flags' = Append(exclusive_flags, set) /\ UNCHANGED exclusive_variables
        \/ set \in Rest /\ exclusive_variables' = Append(exclusive_variables, set) /\ UNCHANGED exclusive_flags
    BY <1>1
  <2>. HIDE DEF Flags, Rest, NewFlags, NewRest
  <2>5. exclusive_flags' \in Seq(NewFlags) /\ exclusive_variables' \in Seq(NewRest)
    <3>1. CASE set \in Flags /\ exclusive_flags' = Append(exclusive_flags, set) /\ UNCHANGED exclusive_variables
      BY <2>2, <2>3, <3>1
    <3>2. CASE set \in Rest /\ exclusive_variables' = Append(exclusive_variables, set) /\ UNCHANGED exclusive_flags
      BY <2>2, <2>3, <3>2
    <3>. QED
      BY <2>4, <3>1, <3>2
  <2>. QED
    BY <2>5 DEF NewFlags, NewRest
<1>8. DeclaredOK'
  BY <1>1, <1>2, <1>3, <1>6, <1>7 DEF DeclaredOK
<1>9. get_active' = {}
  <2>1. \A k \in DOMAIN arguments : arguments'[k].is_set = arguments[k].is_set
    BY <1>4a
  <2>. QED
    BY <1>2, <1>3, <2>1 DEF get_active
<1>. QED
  BY <1>1, <1>2, <1>8, <1>9, Declaring

LEMMA DependencyInv ==
    ASSUME Inv, NEW key, NEW req, set_dependency(key, req)
    PROVE  Inv'
<1>1. /\ phase = "declare" /\ key \in DOMAIN arguments
      /\ arguments' = [arguments EXCEPT ![key].dependency = req]
      /\ UNCHANGED <<positionals, exclusive_flags, exclusive_variables, error_log, valid_state,
                     exit_on_special, usage, phase, current, argv>>
  BY DEF set_dependency
<1>2. DeclaredOK /\ get_active = {} /\ \A m \in DOMAIN positionals : ~positionals[m].is_set
  BY <1>1 DEF Inv
<1>3. DOMAIN arguments' = DOMAIN arguments
      /\ arguments' = [k \in DOMAIN arguments' |-> arguments'[k]]
  BY <1>1, <1>2 DEF DeclaredOK
<1>4. ASSUME NEW k \in DOMAIN arguments
      PROVE  /\ arguments'[k].type = arguments[k].type /\ arguments'[k].is_set = arguments[k].is_set
             /\ arguments'[k].exclusive_sets = arguments[k].exclusive_sets
             /\ arguments'[k] = [type |-> arguments'[k].type, is_set |-> arguments'[k].is_set,
                                 value |-> arguments'[k].value, dependency |-> arguments'[k].dependency,
                                 exclusive_sets |-> arguments'[k].exclusive_sets]
  <2>1. PICK option, new : option = arguments[k] /\ new = arguments'[k]
    OBVIOUS
  <2>2. option = [type |-> option.type, is_set |-> option.is_set, value |-> option.value,
                  dependency |-> option.dependency, exclusive_sets |-> option.exclusive_sets]
    BY <1>2, <2>1 DEF DeclaredOK, DeclaredOption
  <2>3. new = IF k = key THEN [option EXCEPT !.dependency = req] ELSE option
    BY <1>1, <2>1
  <2>4. /\ new.type = option.type /\ new.is_set = option.is_set
        /\ new.exclusive_sets = option.exclusive_sets
        /\ new = [type |-> new.type, is_set |-> new.is_set, value |-> new.value,
                  dependency |-> new.dependency, exclusive_sets |-> new.exclusive_sets]
    <3>1. CASE k = key
      BY ONLY <2>2, <2>3, <3>1
    <3>2. CASE k # key
      BY ONLY <2>2, <2>3, <3>2
    <3>. QED
      BY <3>1, <3>2
  <2>. QED
    BY ONLY <2>1, <2>4
<1>5. \A k \in DOMAIN arguments : DeclaredOption(k)'
  BY <1>1, <1>2, <1>4 DEF DeclaredOK, DeclaredOption
<1>6. {s \in SUBSET DOMAIN arguments' : \A k \in s : is_flag(k)'} =
         {s \in SUBSET DOMAIN arguments : \A k \in s : is_flag(k)}
      /\ {s \in SUBSET DOMAIN arguments' : \A k \in s : ~is_flag(k)'} =
         {s \in SUBSET DOMAIN arguments : \A k \in s : ~is_flag(k)}
  <2>1. \A s \in SUBSET DOMAIN arguments : \A k \in s : is_flag(k)' <=> is_flag(k)
    BY <1>4 DEF is_flag
  <2>. QED
    BY <1>3, <2>1
<1>7. DeclaredOK'
  BY <1>1, <1>2, <1>3, <1>5, <1>6 DEF DeclaredOK
<1>8. get_active' = {}
  BY <1>2, <1>3, <1>4 DEF get_active
<1>. QED
  BY <1>1, <1>2, <1>7, <1>8, Declaring

LEMMA BeginInv == ASSUME Inv, begin_parse PROVE Inv'
<1>1. /\ phase = "declare" /\ phase' = "tokens" /\ valid_state'
      /\ UNCHANGED <<declared, error_log, exit_on_special, usage, current, argv>>
  BY DEF begin_parse
<1>2. /\ argv = <<>> /\ error_log = <<>> /\ current.positional = 0 /\ get_active = {}
      /\ \A m \in DOMAIN positionals : ~positionals[m].is_set
      /\ DeclaredOK /\ UsageComplete
  BY <1>1 DEF Inv
<1>3. DeclaredOK'
  BY <1>1, <1>2, SameOptions, MovedOK DEF DeclaredOK, declared
<1>4. Proper' = {} /\ argv' = <<>>
  BY <1>1, <1>2 DEF Proper
<1>5. Named' = {} /\ Words' = {}
  BY <1>4 DEF Named, Words
<1>6. Cardinality(Words') = 0
  BY <1>5, FS_EmptySet
<1>7. get_active' = {}
  BY <1>1, <1>2 DEF get_active, declared
<1>8. /\ Len(positionals') \in Nat
      /\ \A m \in DOMAIN positionals' : m \in 1 .. Len(positionals') /\ ~positionals'[m].is_set
  BY <1>1, <1>2 DEF declared, DeclaredOK
<1>9. /\ current'.positional = 0 /\ current'.positional <= Len(positionals')
      /\ \A m \in DOMAIN positionals' : positionals'[m].is_set <=> m <= current'.positional
  BY <1>1, <1>2, <1>8
<1>10. Clean'
  BY <1>1, <1>2, <1>4, <1>5, <1>6, <1>7, <1>9 DEF Clean, Pending
<1>. QED
  BY <1>1, <1>2, <1>3, <1>10, Closing DEF Inv, UsageComplete

(* The tokens stay clean when the loop leaves them.                        *)
LEMMA EndInv == ASSUME Inv, end_of_argv PROVE Inv'
<1>1. /\ phase = "tokens" /\ phase' = "checks"
      /\ UNCHANGED <<declared, error_log, valid_state, exit_on_special, usage, current, argv>>
  BY DEF end_of_argv
<1>2. Clean /\ DeclaredOK /\ UsageComplete /\ argv \in Seq(Tokens) /\ ~Pending /\ ~Pending'
  BY <1>1 DEF Inv, Pending
<1>3. DeclaredOK'
  BY <1>1, <1>2, SameOptions, MovedOK DEF DeclaredOK, declared
<1>4. SameKinds /\ UNCHANGED <<arguments, positionals>>
  BY <1>1 DEF SameKinds, declared
<1>5. /\ Proper' = Proper /\ Words' = Words /\ Named' = Named
      /\ \A i \in Proper : NamedBy(i)' = NamedBy(i) /\ Rank(i)' = Rank(i)
                          /\ (NamesVariable(argv[i])' <=> NamesVariable(argv[i]))
      /\ Words \subseteq Proper
  BY <1>1, <1>2, <1>4, TokensUnchanged DEF Words
<1>6. /\ \A k : (Known(k)' <=> Known(k)) /\ (is_flag(k)' <=> is_flag(k))
      /\ get_active' = get_active
      /\ \A type, i : Castable(type, i)' <=> Castable(type, i)
  BY <1>1, <1>4 DEF Known, is_flag, get_active, Castable
<1>7. \A i \in Proper : NamesVariable(argv[i])' =>
          i < Len(argv') /\ Castable(arguments[argv[i].key].type, i + 1)'
  BY <1>1, <1>2, <1>4, <1>5 DEF Clean, PendingHere, Castable
<1>8. \A i \in Words : Rank(i)' <= Len(positionals') /\ Castable(positionals[Rank(i)].type, i)'
  BY <1>1, <1>2, <1>4, <1>5 DEF Clean, Castable
<1>9. \A i \in Proper : argv'[i].kind = "group" => \A k \in NamedBy(i)' : is_flag(k)'
  BY <1>1, <1>2, <1>5, <1>6 DEF Clean
<1>10. \A k \in Named : ~is_flag(k)' =>
         \E i \in Proper : /\ i < Len(argv') /\ NamesVariable(argv[i])' /\ argv'[i].key = k
                           /\ arguments'[k].value = StringCast(Options[k], argv'[i + 1].text)
  BY <1>1, <1>2, <1>4, <1>5, <1>6 DEF Clean
<1>11. Clean'
  BY <1>1, <1>2, <1>4, <1>5, <1>6, <1>7, <1>8, <1>9, <1>10 DEF Clean
<1>. QED
  BY <1>1, <1>2, <1>3, <1>11, Closing DEF Inv, UsageComplete

-----------------------------------------------------------------------------
(* The checks.                                                             *)

(* What lies in one of two sequences.                                      *)
LEMMA RangeConcat ==
    ASSUME NEW R, NEW s \in Seq(R), NEW t \in Seq(R)
    PROVE  Range(s \o t) = Range(s) \union Range(t)
<1>1. PICK m, n \in Nat : m = Len(s) /\ n = Len(t)
  OBVIOUS
<1>2. PICK u : u = s \o t
  OBVIOUS
<1>3. /\ DOMAIN s = 1 .. m /\ DOMAIN t = 1 .. n /\ DOMAIN u = 1 .. m + n
      /\ \A i \in 1 .. m + n : u[i] = IF i <= m THEN s[i] ELSE t[i - m]
  BY <1>1, <1>2
<1>4. ASSUME NEW x \in Range(u) PROVE x \in Range(s) \union Range(t)
  <2>1. PICK i \in 1 .. m + n : u[i] = x
    BY <1>3, <1>4 DEF Range
  <2>2. i <= m => i \in 1 .. m
    BY <1>1
  <2>3. ~(i <= m) => i - m \in 1 .. n
    BY <1>1
  <2>. QED
    BY <1>3, <2>1, <2>2, <2>3 DEF Range
<1>5. ASSUME NEW x \in Range(s) PROVE x \in Range(u)
  <2>1. PICK i \in 1 .. m : s[i] = x
    BY <1>3, <1>5 DEF Range
  <2>2. i \in 1 .. m + n /\ i <= m
    BY <1>1
  <2>. QED
    BY <1>3, <2>1, <2>2 DEF Range
<1>6. ASSUME NEW x \in Range(t) PROVE x \in Range(u)
  <2>1. PICK i \in 1 .. n : t[i] = x
    BY <1>3, <1>6 DEF Range
  <2>2. PICK j \in 1 .. m + n : j = i + m /\ ~(j <= m) /\ j - m = i
    BY <1>1
  <2>. QED
    BY <1>3, <2>1, <2>2 DEF Range
<1>. QED
  BY <1>2, <1>4, <1>5, <1>6

(* A set without two members.                                              *)
LEMMA AtMostOne ==
    ASSUME NEW A, IsFiniteSet(A)
    PROVE  Cardinality(A) <= 1 <=> \A k, l \in A : k = l
<1>1. ASSUME NEW k \in A, NEW l \in A, k # l PROVE Cardinality(A) > 1
  <2>1. Cardinality({k, l}) = 2 /\ {k, l} \subseteq A
    <3>1. IsFiniteSet({k}) /\ Cardinality({k}) = 1 /\ l \notin {k} /\ {k, l} = {k} \union {l}
      BY <1>1, FS_Singleton
    <3>. QED
      BY <3>1, FS_AddElement
  <2>2. Cardinality({k, l}) <= Cardinality(A) /\ Cardinality(A) \in Nat
    BY <2>1, FS_Subset, FS_CardinalityType
  <2>. QED
    BY <2>1, <2>2
<1>2. ASSUME \A k, l \in A : k = l PROVE Cardinality(A) <= 1
  <2>1. CASE A = {}
    BY <2>1, FS_EmptySet
  <2>2. CASE A # {}
    <3>1. PICK k \in A : TRUE
      BY <2>2
    <3>2. A = {k}
      BY <1>2, <3>1
    <3>. QED
      BY <3>2, FS_Singleton
  <2>. QED
    BY <2>1, <2>2
<1>3. Cardinality(A) \in Nat
  BY FS_CardinalityType
<1>. QED
  BY <1>1, <1>2, <1>3

(* Each check finds what the reference forbids.                            *)
LEMMA ChecksExact ==
    ASSUME DeclaredOK, Clean, ~Pending, argv \in Seq(Tokens)
    PROVE  /\ WellFormed
           /\ check_positional_requirements = <<>> <=> Cardinality(Words) = Len(positionals)
           /\ check_exclusivity_constraints = <<>> <=> \A k, l \in Named : k # l => ~Exclusive(k, l)
           /\ check_dependencies = <<>> <=> \A k \in Named : arguments[k].dependency \in Named \union {none}
<1>1. WellFormed
  BY DEF WellFormed, Clean, PendingHere
<1>2. check_positional_requirements = <<>> <=> Cardinality(Words) = Len(positionals)
  <2>. DEFINE c == current.positional
  <2>1. /\ Len(positionals) \in Nat /\ DOMAIN positionals = 1 .. Len(positionals)
        /\ c = Cardinality(Words) /\ c <= Len(positionals)
        /\ \A m \in 1 .. Len(positionals) : positionals[m].is_set <=> m <= c
    BY DEF DeclaredOK, Clean
  <2>2. check_positional_requirements = <<>> <=> \A i \in DOMAIN positionals : positionals[i].is_set
    BY DEF check_positional_requirements
  <2>3. c \in Nat
    BY PositionalCount
  <2>4. c # Len(positionals) => Len(positionals) \in 1 .. Len(positionals) /\ ~(Len(positionals) <= c)
    BY <2>1, <2>3
  <2>. QED
    BY <2>1, <2>2, <2>3, <2>4
<1>3. /\ Named = get_active /\ Named \subseteq DOMAIN arguments /\ IsFiniteSet(Named)
  <2>1. Named = get_active /\ Named \subseteq DOMAIN arguments
    BY DEF Clean, Known
  <2>2. IsFiniteSet({"v"}) /\ IsFiniteSet({"h"}) /\ Special = {"v"} \union {"h"}
    BY FS_Singleton DEF Special
  <2>3. IsFiniteSet(Special)
    BY <2>2, FS_Union
  <2>4. IsFiniteSet(Special \union DOMAIN Options)
    BY <2>3, OptionsAssumption, FS_Union
  <2>5. IsFiniteSet(DOMAIN arguments)
    BY <2>3, <2>4 DEF DeclaredOK
  <2>. QED
    BY <2>1, <2>5, FS_Subset
<1>4. check_exclusivity_constraints = <<>> <=> \A k, l \in Named : k # l => ~Exclusive(k, l)
  <2>. DEFINE flags == {k \in get_active : is_flag(k)}
              rest == {k \in get_active : ~is_flag(k)}
              both == exclusive_flags \o exclusive_variables
  <2>1. check_exclusivity_constraints = <<>> <=>
          check_intersection(flags, exclusive_flags) /\ check_intersection(rest, exclusive_variables)
    BY DEF check_exclusivity_constraints
  <2>2. Range(both) = Range(exclusive_flags) \union Range(exclusive_variables)
    <3>1. exclusive_flags \in Seq(SUBSET DOMAIN arguments) /\ exclusive_variables \in Seq(SUBSET DOMAIN arguments)
      <4>. DEFINE Flags == {set \in SUBSET DOMAIN arguments : \A k \in set : is_flag(k)}
                  Rest == {set \in SUBSET DOMAIN arguments : \A k \in set : ~is_flag(k)}
      <4>1. exclusive_flags \in Seq(Flags) /\ exclusive_variables \in Seq(Rest)
        BY DEF DeclaredOK
      <4>2. Flags \subseteq SUBSET DOMAIN arguments /\ Rest \subseteq SUBSET DOMAIN arguments
        OBVIOUS
      <4>. HIDE DEF Flags, Rest
      <4>. QED
        BY <4>1, <4>2
    <3>. QED
      BY <3>1, RangeConcat
  <2>3. /\ \A i \in DOMAIN exclusive_flags : \A k \in exclusive_flags[i] : is_flag(k)
        /\ \A i \in DOMAIN exclusive_variables : \A k \in exclusive_variables[i] : ~is_flag(k)
    <3>. DEFINE Flags == {set \in SUBSET DOMAIN arguments : \A k \in set : is_flag(k)}
                Rest == {set \in SUBSET DOMAIN arguments : \A k \in set : ~is_flag(k)}
    <3>1. exclusive_flags \in Seq(Flags) /\ exclusive_variables \in Seq(Rest)
      BY DEF DeclaredOK
    <3>2. /\ \A set \in Flags : \A k \in set : is_flag(k)
          /\ \A set \in Rest : \A k \in set : ~is_flag(k)
      OBVIOUS
    <3>. HIDE DEF Flags, Rest
    <3>3. /\ \A i \in DOMAIN exclusive_flags : exclusive_flags[i] \in Flags
          /\ \A i \in DOMAIN exclusive_variables : exclusive_variables[i] \in Rest
      BY <3>1
    <3>. QED
      BY <3>2, <3>3
  <2>4. \A set : IsFiniteSet(flags \cap set) /\ IsFiniteSet(rest \cap set)
    <3>1. \A set : flags \cap set \subseteq Named /\ rest \cap set \subseteq Named
      BY <1>3
    <3>. QED
      BY <1>3, <3>1, FS_Subset
  <2>5. /\ check_intersection(flags, exclusive_flags) <=>
              \A i \in DOMAIN exclusive_flags : \A k, l \in flags \cap exclusive_flags[i] : k = l
        /\ check_intersection(rest, exclusive_variables) <=>
              \A i \in DOMAIN exclusive_variables : \A k, l \in rest \cap exclusive_variables[i] : k = l
    <3>. HIDE DEF flags, rest
    <3>1. \A set : /\ Cardinality(flags \cap set) <= 1 <=> \A k, l \in flags \cap set : k = l
                   /\ Cardinality(rest \cap set) <= 1 <=> \A k, l \in rest \cap set : k = l
      BY <2>4, AtMostOne
    <3>. QED
      BY <3>1 DEF check_intersection
  <2>6. \A k : (k \in flags <=> k \in Named /\ is_flag(k)) /\ (k \in rest <=> k \in Named /\ ~is_flag(k))
    BY <1>3
  <2>. HIDE DEF flags, rest
  <2>7. ASSUME NEW k \in Named, NEW l \in Named, k # l, Exclusive(k, l),
               check_intersection(flags, exclusive_flags), check_intersection(rest, exclusive_variables)
        PROVE  FALSE
    <3>1. PICK set \in Range(exclusive_flags) \union Range(exclusive_variables) : k \in set /\ l \in set
      BY <2>2, <2>7 DEF Exclusive
    <3>2. \/ \E i \in DOMAIN exclusive_flags : exclusive_flags[i] = set
          \/ \E i \in DOMAIN exclusive_variables : exclusive_variables[i] = set
      BY <3>1 DEF Range
    <3>. QED
      BY <2>3, <2>5, <2>6, <2>7, <3>1, <3>2
  <2>8. ASSUME \A k, l \in Named : k # l => ~Exclusive(k, l)
        PROVE  check_intersection(flags, exclusive_flags) /\ check_intersection(rest, exclusive_variables)
    <3>1. \A i \in DOMAIN exclusive_flags : exclusive_flags[i] \in Range(both)
      BY <2>2 DEF Range
    <3>2. \A i \in DOMAIN exclusive_variables : exclusive_variables[i] \in Range(both)
      BY <2>2 DEF Range
    <3>3. \A set \in Range(both) : \A k, l \in Named \cap set : k = l
      BY <2>8 DEF Exclusive
    <3>. HIDE DEF both
    <3>. QED
      BY <2>5, <2>6, <3>1, <3>2, <3>3
  <2>. QED
    BY <2>1, <2>7, <2>8
<1>5. check_dependencies = <<>> <=> \A k \in Named : arguments[k].dependency \in Named \union {none}
  BY <1>3 DEF check_dependencies
<1>. QED
  BY <1>1, <1>2, <1>4, <1>5

(* Each variable that is named holds the operand behind a mention of it.   *)
ValuesHeld ==
    \A k \in Named : ~is_flag(k) =>
        \E i \in Proper : /\ NamesVariable(argv[i]) /\ argv[i].key = k
                         /\ arguments[k].value = StringCast(Options[k], argv[i + 1].text)

(* What parse() no longer touches means the same.                          *)
LEMMA FrozenLine ==
    ASSUME argv \in Seq(Tokens), UNCHANGED <<declared, argv>>
    PROVE  /\ WellFormed' <=> WellFormed
           /\ Legal' <=> Legal
           /\ (get_active = Named)' <=> get_active = Named
           /\ ValuesHeld' <=> ValuesHeld
<1>1. /\ UNCHANGED <<arguments, positionals, exclusive_flags, exclusive_variables, argv>>
      /\ SameKinds
  BY DEF declared, SameKinds
<1>2. /\ Proper' = Proper /\ Words' = Words /\ Named' = Named
      /\ \A i \in Proper : NamedBy(i)' = NamedBy(i) /\ Rank(i)' = Rank(i)
                          /\ (NamesVariable(argv[i])' <=> NamesVariable(argv[i]))
      /\ Words \subseteq Proper
  BY <1>1, TokensUnchanged DEF Words
<1>3. /\ \A k : (Known(k)' <=> Known(k)) /\ (is_flag(k)' <=> is_flag(k))
      /\ get_active' = get_active
      /\ \A type, i : Castable(type, i)' <=> Castable(type, i)
      /\ \A k, l : Exclusive(k, l)' <=> Exclusive(k, l)
  BY <1>1 DEF Known, is_flag, get_active, Castable, Exclusive
<1>4. (\A k \in Named : Known(k))' <=> \A k \in Named : Known(k)
  BY <1>2, <1>3
<1>5. (\A i \in Proper : argv[i].kind = "group" => \A k \in NamedBy(i) : is_flag(k))'
        <=> \A i \in Proper : argv[i].kind = "group" => \A k \in NamedBy(i) : is_flag(k)
  BY <1>1, <1>2, <1>3
<1>6. (\A i \in Proper : NamesVariable(argv[i]) =>
          i < Len(argv) /\ Castable(arguments[argv[i].key].type, i + 1))'
        <=> \A i \in Proper : NamesVariable(argv[i]) =>
              i < Len(argv) /\ Castable(arguments[argv[i].key].type, i + 1)
  BY <1>1, <1>2 DEF Castable
<1>7. (\A i \in Words : Rank(i) <= Len(positionals) /\ Castable(positionals[Rank(i)].type, i))'
        <=> \A i \in Words : Rank(i) <= Len(positionals) /\ Castable(positionals[Rank(i)].type, i)
  BY <1>1, <1>2 DEF Castable
<1>8. WellFormed' <=> WellFormed
  BY <1>4, <1>5, <1>6, <1>7 DEF WellFormed
<1>9. Legal' <=> Legal
  <2>1. (Cardinality(Words) = Len(positionals))' <=> Cardinality(Words) = Len(positionals)
    BY <1>1, <1>2
  <2>2. (\A k, l \in Named : k # l => ~Exclusive(k, l))' <=> \A k, l \in Named : k # l => ~Exclusive(k, l)
    BY <1>2, <1>3
  <2>3. (\A k \in Named : arguments[k].dependency \in Named \union {none})'
          <=> \A k \in Named : arguments[k].dependency \in Named \union {none}
    BY <1>1, <1>2
  <2>. QED
    BY <1>8, <2>1, <2>2, <2>3 DEF Legal
<1>10. ValuesHeld' <=> ValuesHeld
  BY <1>1, <1>2, <1>3 DEF ValuesHeld
<1>. QED
  BY <1>2, <1>3, <1>8, <1>9, <1>10

(* The checks end parse() with a verdict that is the reference's, whether  *)
(* the tokens were refused already or not.                                 *)
LEMMA ChecksInv == ASSUME Inv, check_constraints PROVE Inv'
<1>1. /\ phase = "checks" /\ phase' = "parsed"
      /\ UNCHANGED <<declared, exit_on_special, usage, current, argv>>
      /\ UNCHANGED <<declared, argv>>
  BY DEF check_constraints
<1>2. PICK errors :
      /\ errors = check_positional_requirements \o check_exclusivity_constraints \o check_dependencies
      /\ valid_state' = (valid_state /\ errors = <<>>)
      /\ error_log' = error_log \o errors
  BY DEF check_constraints
<1>3. /\ DeclaredOK /\ UsageComplete /\ argv \in Seq(Tokens) /\ ~Pending
      /\ current = [positional |-> current.positional, key |-> current.key]
      /\ Clean \/ Refused
  BY <1>1 DEF Inv, Pending, Refused
<1>4. /\ DeclaredOK' /\ UsageComplete' /\ (argv \in Seq(Tokens))'
      /\ (current = [positional |-> current.positional, key |-> current.key])'
  BY <1>1, <1>3, SameOptions, MovedOK DEF DeclaredOK, declared, UsageComplete
<1>5. /\ WellFormed' <=> WellFormed
      /\ Legal' <=> Legal
      /\ (get_active = Named)' <=> get_active = Named
      /\ ValuesHeld' <=> ValuesHeld
  BY <1>1, <1>3, FrozenLine
<1>6. /\ check_positional_requirements \in {<<>>, <<"MissingPositional">>}
      /\ check_exclusivity_constraints \in {<<>>, <<"Incompatible">>}
      /\ check_dependencies \in {<<>>, <<"Required">>}
  BY DEF check_positional_requirements, check_exclusivity_constraints, check_dependencies
<1>7. /\ errors \in Seq(Errors)
      /\ errors = <<>> <=> /\ check_positional_requirements = <<>>
                           /\ check_exclusivity_constraints = <<>>
                           /\ check_dependencies = <<>>
  <2>1. <<>> \in Seq(Errors) /\ <<"MissingPositional">> \in Seq(Errors)
        /\ <<"Incompatible">> \in Seq(Errors) /\ <<"Required">> \in Seq(Errors)
    BY DEF Errors
  <2>2. \A s, t, u \in Seq(Errors) :
          /\ s \o t \o u \in Seq(Errors)
          /\ s \o t \o u = <<>> <=> s = <<>> /\ t = <<>> /\ u = <<>>
    <3>1. \A s, t \in Seq(Errors) : s \o t \in Seq(Errors) /\ (s \o t = <<>> <=> s = <<>> /\ t = <<>>)
      OBVIOUS
    <3>. QED
      BY <3>1
  <2>3. PICK s, t, u :
          /\ s = check_positional_requirements /\ t = check_exclusivity_constraints
          /\ u = check_dependencies
    OBVIOUS
  <2>4. s \in Seq(Errors) /\ t \in Seq(Errors) /\ u \in Seq(Errors)
    BY <1>6, <2>1, <2>3
  <2>5. errors = s \o t \o u
    BY <1>2, <2>3
  <2>. QED
    BY <2>2, <2>3, <2>4, <2>5
<1>8. ParsesLegalLines' /\ RefusalExplained'
  <2>1. CASE Refused
    <3>1. ~valid_state /\ error_log \in Seq(Errors) /\ error_log # <<>> /\ ~WellFormed
      BY <2>1 DEF Refused
    <3>2. ~valid_state'
      BY <1>2, <3>1
    <3>3. error_log' # <<>>
      BY <1>2, <1>7, <3>1
    <3>4. ~Legal'
      BY <1>5, <3>1 DEF Legal
    <3>. QED
      BY <3>2, <3>3, <3>4 DEF ParsesLegalLines, RefusalExplained
  <2>2. CASE Clean
    <3>1. /\ WellFormed
          /\ errors = <<>> <=> /\ Cardinality(Words) = Len(positionals)
                               /\ \A k, l \in Named : k # l => ~Exclusive(k, l)
                               /\ \A k \in Named : arguments[k].dependency \in Named \union {none}
      BY <1>3, <1>7, <2>2, ChecksExact
    <3>2. errors = <<>> <=> Legal
      BY <3>1 DEF Legal
    <3>3. valid_state /\ error_log = <<>> /\ get_active = Named
      BY <2>2 DEF Clean
    <3>4. valid_state' <=> errors = <<>>
      BY <1>2, <3>3
    <3>5. error_log' = <<>> <=> errors = <<>>
      BY <1>2, <1>7, <3>3
    <3>6. ValuesHeld
      BY <1>3, <2>2 DEF Clean, ValuesHeld
    <3>7. (get_active = Named)' /\ ValuesHeld'
      BY <1>5, <3>3, <3>6
    <3>. QED
      BY <1>5, <3>2, <3>4, <3>5, <3>7 DEF ParsesLegalLines, RefusalExplained, ValuesHeld
  <2>. QED
    BY <1>3, <2>1, <2>2
<1>. QED
  BY <1>1, <1>4, <1>8 DEF Inv

(* What main() shows after an error changes the usage string only.         *)
LEMMA UsageInv == ASSUME Inv, show_usage PROVE Inv'
<1>1. /\ phase = "parsed" /\ usage' = cached_usage
      /\ UNCHANGED <<declared, error_log, valid_state, exit_on_special, phase, current, argv>>
      /\ UNCHANGED <<declared, argv>>
  BY DEF show_usage
<1>2. /\ DeclaredOK /\ UsageComplete /\ argv \in Seq(Tokens)
      /\ current = [positional |-> current.positional, key |-> current.key]
      /\ ParsesLegalLines /\ RefusalExplained
  BY DEF Inv
<1>3. /\ DeclaredOK' /\ (argv \in Seq(Tokens))'
      /\ (current = [positional |-> current.positional, key |-> current.key])'
  BY <1>1, <1>2, SameOptions, MovedOK DEF DeclaredOK, declared
<1>4. UsageComplete'
  BY <1>1, <1>2, CachedUsage DEF UsageComplete
<1>5. /\ Legal' <=> Legal
      /\ (get_active = Named)' <=> get_active = Named
      /\ ValuesHeld' <=> ValuesHeld
  BY <1>1, <1>2, FrozenLine
<1>6. ParsesLegalLines' /\ RefusalExplained'
  BY <1>1, <1>2, <1>5 DEF ParsesLegalLines, RefusalExplained, ValuesHeld
<1>. QED
  BY <1>1, <1>3, <1>4, <1>6 DEF Inv

LEMMA StutterInv == ASSUME Inv, UNCHANGED vars PROVE Inv'
<1>1. /\ UNCHANGED <<declared, error_log, valid_state, usage, phase, current, argv>>
      /\ UNCHANGED <<arguments, positionals, exclusive_flags, exclusive_variables, argv>>
      /\ UNCHANGED <<declared, argv>>
  BY DEF vars, declared
<1>2. /\ DeclaredOK /\ UsageComplete /\ argv \in Seq(Tokens)
      /\ current = [positional |-> current.positional, key |-> current.key]
      /\ ParsesLegalLines /\ RefusalExplained
  BY DEF Inv
<1>3. /\ DeclaredOK' /\ UsageComplete' /\ (argv \in Seq(Tokens))'
      /\ (current = [positional |-> current.positional, key |-> current.key])'
  BY <1>1, <1>2, SameOptions, MovedOK DEF DeclaredOK, UsageComplete
<1>4. /\ WellFormed' <=> WellFormed
      /\ Legal' <=> Legal
      /\ (get_active = Named)' <=> get_active = Named
      /\ ValuesHeld' <=> ValuesHeld
  BY <1>1, <1>2, FrozenLine
<1>5. ParsesLegalLines' /\ RefusalExplained'
  BY <1>1, <1>2, <1>4 DEF ParsesLegalLines, RefusalExplained, ValuesHeld
<1>6. SameKinds
  BY <1>1 DEF SameKinds
<1>7. Clean => Clean'
  <2>. SUFFICES ASSUME Clean PROVE Clean'
    OBVIOUS
  <2>1. /\ Proper' = Proper /\ Words' = Words /\ Named' = Named
        /\ \A i \in Proper : NamedBy(i)' = NamedBy(i) /\ Rank(i)' = Rank(i)
                            /\ (NamesVariable(argv[i])' <=> NamesVariable(argv[i]))
        /\ Words \subseteq Proper
    BY <1>1, <1>2, <1>6, TokensUnchanged DEF Words
  <2>2. /\ \A k : (Known(k)' <=> Known(k)) /\ (is_flag(k)' <=> is_flag(k))
        /\ get_active' = get_active
        /\ Pending' <=> Pending
        /\ \A i : PendingHere(i)' <=> PendingHere(i)
    BY <1>1 DEF Known, is_flag, get_active, Pending, PendingHere
  <2>3. \A i \in Proper : NamesVariable(argv[i])' =>
            \/ PendingHere(i)'
            \/ i < Len(argv') /\ Castable(arguments[argv[i].key].type, i + 1)'
    BY <1>1, <2>1, <2>2 DEF Clean, Castable
  <2>4. \A i \in Words : Rank(i)' <= Len(positionals') /\ Castable(positionals[Rank(i)].type, i)'
    BY <1>1, <2>1 DEF Clean, Castable
  <2>5. \A i \in Proper : argv'[i].kind = "group" => \A k \in NamedBy(i)' : is_flag(k)'
    BY <1>1, <2>1, <2>2 DEF Clean
  <2>6. \A k \in Named : ~is_flag(k)' =>
          \/ Pending' /\ k = current'.key
          \/ \E i \in Proper : /\ i < Len(argv') /\ NamesVariable(argv[i])' /\ argv'[i].key = k
                               /\ arguments'[k].value = StringCast(Options[k], argv'[i + 1].text)
    BY <1>1, <2>1, <2>2 DEF Clean
  <2>7. Pending' => \E i \in Proper : NamesVariable(argv[i])' /\ PendingHere(i)'
    BY <2>1, <2>2 DEF Clean
  <2>. QED
    BY <1>1, <2>1, <2>2, <2>3, <2>4, <2>5, <2>6, <2>7 DEF Clean
<1>8. phase' = "declare" => get_active' = {} /\ \A m \in DOMAIN positionals' : ~positionals'[m].is_set
  BY <1>1 DEF Inv, get_active
<1>9. phase' \in {"tokens", "operand"} => Clean'
  BY <1>1, <1>7 DEF Inv
<1>10. phase' = "checks" =>
          Clean' \/ (~valid_state' /\ error_log' \in Seq(Errors) \ {<<>>} /\ ~WellFormed')
  BY <1>1, <1>4, <1>7 DEF Inv
<1>11. /\ phase' \in {"declare", "tokens", "operand", "checks", "parsed", "exited"}
       /\ phase' = "declare" => argv' = <<>> /\ error_log' = <<>> /\ current'.positional = 0
  BY <1>1 DEF Inv
<1>. QED
  BY <1>3, <1>5, <1>8, <1>9, <1>10, <1>11 DEF Inv

(* Every step of a parse.                                                  *)
LEMMA NextInv == ASSUME Inv, [Next]_vars PROVE Inv'
<1>1. CASE UNCHANGED vars
  BY <1>1, StutterInv
<1>2. ASSUME NEW set \in Exclusives, set_flags_exclusive(set) \/ set_variables_exclusive(set) PROVE Inv'
  BY <1>2, ExclusiveInv
<1>3. ASSUME NEW d \in Dependencies, set_dependency(d[1], d[2]) PROVE Inv'
  BY <1>3, DependencyInv
<1>4. ASSUME NEW tok \in Tokens, single_argument(tok) \/ operand(tok) \/ flag_group(tok) \/ positional(tok)
      PROVE  Inv'
  BY <1>4, SingleInv, OperandInv, GroupInv, PositionalInv
<1>5. CASE add_variable
  BY <1>5, AddVariableInv
<1>6. CASE add_positional
  BY <1>6, AddPositionalInv
<1>7. CASE begin_parse
  BY <1>7, BeginInv
<1>8. CASE missing_operand
  BY <1>8, MissingInv
<1>9. CASE end_of_argv
  BY <1>9, EndInv
<1>10. CASE check_constraints
  BY <1>10, ChecksInv
<1>11. CASE show_usage
  BY <1>11, UsageInv
<1>. QED
  BY <1>1, <1>2, <1>3, <1>4, <1>5, <1>6, <1>7, <1>8, <1>9, <1>10, <1>11 DEF Next

-----------------------------------------------------------------------------
(* The theorems.                                                           *)

(* The invariant holds of the parser for every program and command line.   *)
THEOREM ParserInvariance == Spec => []Inv
<1>1. Init => Inv
  BY InitInv
<1>2. Inv /\ [Next]_vars => Inv'
  BY NextInv
<1>. QED
  BY <1>1, <1>2, PTL DEF Spec

(* parse() returns true exactly for the legal command lines, whatever the  *)
(* options, their constraints, the positionals and the tokens; it has then *)
(* set what the line names; a refusal is explained; the synopsis shows     *)
(* every option.                                                           *)
THEOREM ParserSoundHolds == Spec => []ParserSound
<1>1. Inv => ParserSound
  BY DEF Inv, ParserSound
<1>. QED
  BY <1>1, ParserInvariance, PTL

(* The same of the run's specification, where a parse is one of three      *)
(* subjects: the steps of the others leave the parser alone.               *)
THEOREM ParserSoundRun == MCSpec => []ParserSound
<1>1. MCInit => Inv
  BY InitInv DEF MCInit
<1>2. Inv /\ [MCNext]_all_vars => Inv'
  <2>. SUFFICES ASSUME Inv, [MCNext]_all_vars PROVE Inv'
    OBVIOUS
  <2>1. [Next]_vars
    BY DEF MCNext, all_vars
  <2>. QED
    BY <2>1, NextInv
<1>3. Inv => ParserSound
  BY DEF Inv, ParserSound
<1>. QED
  BY <1>1, <1>2, <1>3, PTL DEF MCSpec
=============================================================================
