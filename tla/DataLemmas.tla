------------------------------- MODULE DataLemmas -------------------------------
(***************************************************************************)
(* Facts about naturals and sequences that the proofs of several modules   *)
(* need.                                                                   *)
(***************************************************************************)
EXTENDS Integers, Sequences, SequenceTheorems, FiniteSetTheorems, WellFoundedInduction, TLAPS

(* The order of the naturals, as a relation the induction library takes. *)
LEMMA LessThanRelation ==
  \E R : IsWellFoundedOn(R, Nat) /\ \A x, y \in Nat : <<y, x>> \in R <=> y < x
<1>1. IsWellFoundedOn(OpToRel(<, Nat), Nat)
  BY NatLessThanWellFounded
<1>2. \A x, y \in Nat : <<y, x>> \in OpToRel(<, Nat) <=> y < x
  BY DEF OpToRel
<1> QED BY <1>1, <1>2, Zenon

(* A set of naturals that is not empty has a least member. *)
LEMMA LeastOf ==
  ASSUME NEW T, T \subseteq Nat, T # {}
  PROVE  \E x \in T : \A y \in T : x <= y
<1>1. PICK R : IsWellFoundedOn(R, Nat) /\ \A x, y \in Nat : <<y, x>> \in R <=> y < x
  BY LessThanRelation
<1>3. \E x \in T : \A y \in T : ~ (<<y, x>> \in R)
  BY <1>1, WFMin
<1>4. PICK x \in T : \A y \in T : ~ (<<y, x>> \in R)
  BY <1>3
<1>5. ASSUME NEW y \in T PROVE x <= y
  <2>1. x \in Nat /\ y \in Nat
    OBVIOUS
  <2>2. ~ (y < x)
    BY <1>1, <1>4, <2>1, Zenon
  <2> QED BY <2>1, <2>2
<1> QED BY <1>5

(* A bounded one has a largest. *)
LEMMA LargestOf ==
  ASSUME NEW T, T \subseteq Nat, T # {}, NEW b \in Nat, \A x \in T : x <= b
  PROVE  \E x \in T : \A y \in T : x >= y
<1> DEFINE U == {b - x : x \in T}
<1>1. U \subseteq Nat /\ U # {}
  <2>1. \A x \in T : b - x \in Nat
    OBVIOUS
  <2> QED BY <2>1
<1> HIDE DEF U
<1>2. PICK u \in U : \A v \in U : u <= v
  BY <1>1, LeastOf
<1>3. PICK x \in T : u = b - x
  BY <1>2 DEF U
<1>4. ASSUME NEW y \in T PROVE x >= y
  <2>1. b - y \in U
    BY DEF U
  <2>2. b - x <= b - y
    BY <1>2, <1>3, <2>1
  <2>3. x \in Nat /\ y \in Nat
    OBVIOUS
  <2> QED BY <2>2, <2>3
<1> QED BY <1>4

------------------------------------------------------------------------------
(* A row of n values is a sequence of that length. *)
LEMMA RowLemma ==
  ASSUME NEW B, NEW n \in Nat, NEW d \in [1 .. n -> B]
  PROVE  d \in Seq(B) /\ Len(d) = n
<1>1. d \in Seq(B)
  BY SeqDef
<1>2. DOMAIN d = 1 .. n /\ DOMAIN d = 1 .. Len(d) /\ Len(d) \in Nat
  BY <1>1, LenProperties
<1> QED BY <1>2

(* The first n values of a sequence. *)
LEMMA FrontLemma ==
  ASSUME NEW B, NEW s \in Seq(B), NEW n \in 0 .. Len(s)
  PROVE  /\ SubSeq(s, 1, n) \in Seq(B) /\ Len(SubSeq(s, 1, n)) = n
         /\ \A i \in 1 .. n : SubSeq(s, 1, n)[i] = s[i]
<1>1. Len(s) \in Nat /\ n \in Nat /\ n <= Len(s)
  BY LenProperties
<1> QED BY <1>1, ElementOfSeq, SubSeqProperties

(* The m values of a sequence from k + 1 on. *)
LEMMA PieceLemma ==
  ASSUME NEW B, NEW s \in Seq(B), NEW k \in Nat, NEW m \in Nat, k + m <= Len(s)
  PROVE  /\ SubSeq(s, k + 1, k + m) \in Seq(B) /\ Len(SubSeq(s, k + 1, k + m)) = m
         /\ \A i \in 1 .. m : SubSeq(s, k + 1, k + m)[i] = s[k + i]
<1>1. Len(s) \in Nat
  BY LenProperties
<1>2. PICK j \in Int, l \in Int : j = k + 1 /\ l = k + m /\ 1 <= j /\ l <= Len(s)
  OBVIOUS
<1>3. \A i \in j .. l : s[i] \in B
  BY <1>1, <1>2, ElementOfSeq
<1>4. PICK t : t = SubSeq(s, j, l)
  OBVIOUS
<1>5. /\ t \in Seq(B) /\ Len(t) = IF j <= l THEN l - j + 1 ELSE 0
      /\ \A i \in 1 .. l - j + 1 : t[i] = s[j + i - 1]
  BY <1>3, <1>4, SubSeqProperties
<1>6. l - j + 1 = m /\ (IF j <= l THEN l - j + 1 ELSE 0) = m
  BY <1>2
<1>7. \A i \in 1 .. m : t[i] = s[k + i]
  <2>1. \A i \in 1 .. m : j + i - 1 = k + i
    BY <1>2
  <2> QED BY <1>5, <1>6, <2>1
<1> QED BY <1>2, <1>4, <1>5, <1>6, <1>7

(* What is left of a sequence after the first n values. *)
LEMMA BackLemma ==
  ASSUME NEW B, NEW s \in Seq(B), NEW n \in 0 .. Len(s)
  PROVE  /\ SubSeq(s, n + 1, Len(s)) \in Seq(B) /\ Len(SubSeq(s, n + 1, Len(s))) = Len(s) - n
         /\ \A i \in 1 .. Len(s) - n : SubSeq(s, n + 1, Len(s))[i] = s[n + i]
<1>1. PICK m \in Nat : n \in Nat /\ m = Len(s) - n /\ n + m = Len(s)
  BY LenProperties
<1> QED BY <1>1, PieceLemma

------------------------------------------------------------------------------
(* Take one by one, the members of a finite set run out. *)
LEMMA SmallestSet ==
  ASSUME NEW S, IsFiniteSet(S), NEW T, T \subseteq SUBSET S, T # {}
  PROVE  \E s \in T : \A x \in s : s \ {x} \notin T
<1> DEFINE C == {Cardinality(s) : s \in T}
<1>1. \A s \in T : IsFiniteSet(s) /\ Cardinality(s) \in Nat
  BY FS_Subset, FS_CardinalityType
<1>2. C \subseteq Nat /\ C # {}
  BY <1>1
<1> HIDE DEF C
<1>3. PICK c \in C : \A d \in C : c <= d
  BY <1>2, LeastOf
<1>4. PICK s \in T : c = Cardinality(s)
  BY <1>3 DEF C
<1>5. ASSUME NEW x \in s PROVE s \ {x} \notin T
  <2>1. Cardinality(s \ {x}) = Cardinality(s) - 1 /\ Cardinality(s) \in Nat
    BY <1>1, FS_RemoveElement
  <2>2. SUFFICES ASSUME s \ {x} \in T PROVE FALSE
    OBVIOUS
  <2>3. Cardinality(s \ {x}) \in C
    BY <2>2 DEF C
  <2> QED BY <1>3, <1>4, <2>1, <2>3
<1> QED BY <1>5

(* A step that is taken for each member of a finite set, in an order that  *)
(* a choice of the next one gives, has a result for each subset.           *)
Folding(g, S, X, base, step, next) ==
  /\ g \in [SUBSET S -> X]
  /\ g = [s \in SUBSET S |-> IF s = {} THEN base ELSE step[<<next[s], g[s \ {next[s]}]>>]]

LEMMA FoldExists ==
  ASSUME NEW S, IsFiniteSet(S), NEW X, NEW base \in X, NEW step \in [S \X X -> X],
         NEW next, \A s \in SUBSET S : s # {} => next[s] \in s
  PROVE  \E g : Folding(g, S, X, base, step, next)
<1> DEFINE D(n) == {s \in SUBSET S : Cardinality(s) <= n}
           Rec(h, n) == [s \in D(n) |-> IF s = {} THEN base ELSE step[<<next[s], h[s \ {next[s]}]>>]]
           Good(n) == \E g \in [D(n) -> X] : g = Rec(g, n)
           Bad == {n \in Nat : ~Good(n)}
<1>1. \A s \in SUBSET S : IsFiniteSet(s) /\ Cardinality(s) \in Nat /\ (Cardinality(s) = 0 <=> s = {})
  BY FS_Subset, FS_CardinalityType, FS_EmptySet
<1>2. \A s \in SUBSET S : s # {} =>
        /\ next[s] \in s /\ s \ {next[s]} \in SUBSET S
        /\ Cardinality(s \ {next[s]}) = Cardinality(s) - 1
  <2> SUFFICES ASSUME NEW s \in SUBSET S, s # {}
               PROVE  /\ next[s] \in s /\ s \ {next[s]} \in SUBSET S
                      /\ Cardinality(s \ {next[s]}) = Cardinality(s) - 1
    OBVIOUS
  <2>1. next[s] \in s
    OBVIOUS
  <2> QED BY <1>1, <2>1, FS_RemoveElement
<1>3. ASSUME NEW n \in Nat, NEW h \in [D(n) -> X]
      PROVE  Rec(h, n + 1) \in [D(n + 1) -> X]
  <2>1. ASSUME NEW s \in D(n + 1), s # {} PROVE step[<<next[s], h[s \ {next[s]}]>>] \in X
    <3>1. s \ {next[s]} \in D(n)
      BY <1>1, <1>2, <2>1
    <3>2. next[s] \in S
      BY <1>2, <2>1
    <3> QED BY <3>1, <3>2
  <2> QED BY <2>1
<1>4. Good(0)
  <2>1. D(0) = {{}}
    BY <1>1
  <2>2. [s \in {{}} |-> base] = Rec([s \in {{}} |-> base], 0)
    BY <2>1
  <2> QED BY <2>1, <2>2
<1>5. ASSUME NEW n \in Nat, Good(n) PROVE Good(n + 1)
  <2>1. PICK h \in [D(n) -> X] : h = Rec(h, n)
    BY <1>5
  <2> DEFINE g == Rec(h, n + 1)
  <2>2. g \in [D(n + 1) -> X]
    BY <1>3
  <2>3. D(n) \subseteq D(n + 1)
    BY <1>1
  <2>4. \A s \in D(n) : g[s] = h[s]
    BY <2>1, <2>3
  <2>5. \A s \in D(n + 1) : s # {} => s \ {next[s]} \in D(n)
    BY <1>1, <1>2
  <2>6. g = Rec(g, n + 1)
    BY <2>4, <2>5
  <2> QED BY <2>2, <2>6
<1> HIDE DEF Good
<1>6. Bad = {}
  <2>1. SUFFICES ASSUME Bad # {} PROVE FALSE
    OBVIOUS
  <2>2. PICK b \in Bad : \A c \in Bad : b <= c
    BY <2>1, LeastOf
  <2>3. b \in Nat /\ b # 0
    BY <1>4
  <2>4. b - 1 \in Nat /\ b - 1 \notin Bad /\ (b - 1) + 1 = b
    BY <2>2, <2>3
  <2> QED BY <1>5, <2>2, <2>4
<1>7. PICK n \in Nat : n = Cardinality(S)
  BY FS_CardinalityType
<1>8. D(n) = SUBSET S
  BY <1>1, <1>7, FS_Subset
<1>9. PICK g \in [D(n) -> X] : g = Rec(g, n)
  BY <1>6 DEF Good
<1>10. g \in [SUBSET S -> X]
  BY <1>8, <1>9
<1>11. g = [s \in SUBSET S |-> IF s = {} THEN base ELSE step[<<next[s], g[s \ {next[s]}]>>]]
  BY <1>8, <1>9
<1> QED BY <1>10, <1>11, Zenon DEF Folding

------------------------------------------------------------------------------
(* A step that is taken for each place of a row, from the first to the     *)
(* last: the folds of the library take the largest of a set of places.     *)
LastIn(s) == CHOOSE x \in s : \A y \in s : x >= y

LEMMA LastInLemma ==
  ASSUME NEW n \in Nat, NEW s \in SUBSET (1 .. n), s # {}
  PROVE  LastIn(s) \in s /\ \A y \in s : LastIn(s) >= y
<1>1. s \subseteq Nat /\ \A x \in s : x <= n
  OBVIOUS
<1>2. \E x \in s : \A y \in s : x >= y
  BY <1>1, LargestOf
<1> QED BY <1>2 DEF LastIn

LEMMA LastInRow ==
  ASSUME NEW k \in Nat \ {0}
  PROVE  LastIn(1 .. k) = k /\ (1 .. k) \ {k} = 1 .. (k - 1)
<1>1. LastIn(1 .. k) \in 1 .. k /\ \A y \in 1 .. k : LastIn(1 .. k) >= y
  <2>1. PICK s : s = 1 .. k
    OBVIOUS
  <2>2. k \in Nat /\ s \in SUBSET (1 .. k) /\ s # {}
    BY <2>1
  <2>3. LastIn(s) \in s /\ \A y \in s : LastIn(s) >= y
    BY <2>2, LastInLemma
  <2> QED BY <2>1, <2>3
<1>2. k \in 1 .. k
  OBVIOUS
<1>3. LastIn(1 .. k) = k
  BY <1>1, <1>2
<1> QED BY <1>3

RowFold(g, n, X, base, step) ==
  /\ g \in [SUBSET (1 .. n) -> X]
  /\ g = [s \in SUBSET (1 .. n) |-> IF s = {} THEN base ELSE step[<<LastIn(s), g[s \ {LastIn(s)}]>>]]

LEMMA RowFoldExists ==
  ASSUME NEW n \in Nat, NEW X, NEW base \in X, NEW step \in [(1 .. n) \X X -> X]
  PROVE  \E g : RowFold(g, n, X, base, step)
<1> DEFINE next == [s \in SUBSET (1 .. n) |-> LastIn(s)]
<1>1. \A s \in SUBSET (1 .. n) : s # {} => next[s] \in s
  BY LastInLemma
<1>2. IsFiniteSet(1 .. n)
  BY FS_Interval
<1> HIDE DEF next
<1>3. PICK g : Folding(g, 1 .. n, X, base, step, next)
  BY <1>1, <1>2, FoldExists
<1>4. g = [s \in SUBSET (1 .. n) |-> IF s = {} THEN base ELSE step[<<next[s], g[s \ {next[s]}]>>]]
  BY <1>3, Zenon DEF Folding
<1>5. \A s \in SUBSET (1 .. n) : next[s] = LastIn(s)
  BY DEF next
<1>6. g = [s \in SUBSET (1 .. n) |-> IF s = {} THEN base ELSE step[<<LastIn(s), g[s \ {LastIn(s)}]>>]]
  BY <1>4, <1>5
<1>7. g \in [SUBSET (1 .. n) -> X]
  BY <1>3, Zenon DEF Folding
<1> QED BY <1>6, <1>7, Zenon DEF RowFold

(* The results for the first places of the row, one after the other. *)
RowUnfolds(g, n, X, base, step) ==
  /\ g[{}] = base
  /\ \A s \in SUBSET (1 .. n) : s # {} /\ g[s \ {LastIn(s)}] \in X =>
       g[s] = step[<<LastIn(s), g[s \ {LastIn(s)}]>>]

RowRun(T, n, X, base, step, result) ==
  /\ T \in [0 .. n -> X] /\ T[0] = base /\ T[n] = result
  /\ \A k \in 1 .. n : T[k] = step[<<k, T[k - 1]>>]

LEMMA RowRunLemma ==
  ASSUME NEW n \in Nat, NEW X, NEW base \in X, NEW step \in [(1 .. n) \X X -> X],
         NEW g, RowUnfolds(g, n, X, base, step)
  PROVE  \E T : RowRun(T, n, X, base, step, g[1 .. n])
<1>u. /\ g[{}] = base
      /\ \A s \in SUBSET (1 .. n) : s # {} /\ g[s \ {LastIn(s)}] \in X =>
           g[s] = step[<<LastIn(s), g[s \ {LastIn(s)}]>>]
  BY Zenon DEF RowUnfolds
<1> DEFINE T == [k \in 0 .. n |-> g[1 .. k]]
           Bad == {k \in 0 .. n : g[1 .. k] \notin X}
<1>1. g[1 .. 0] = base
  <2>1. 1 .. 0 = {}
    OBVIOUS
  <2> QED BY <1>u, <2>1
<1>2. ASSUME NEW k \in 1 .. n, g[1 .. (k - 1)] \in X
      PROVE  g[1 .. k] = step[<<k, g[1 .. (k - 1)]>>] /\ g[1 .. k] \in X
  <2>1. LastIn(1 .. k) = k /\ (1 .. k) \ {k} = 1 .. (k - 1)
    BY LastInRow
  <2>2. 1 .. k \in SUBSET (1 .. n) /\ 1 .. k # {}
    OBVIOUS
  <2>3. g[1 .. k] = step[<<k, g[1 .. (k - 1)]>>]
    BY <1>u, <1>2, <2>1, <2>2
  <2> QED BY <1>2, <2>3
<1>3. Bad = {}
  <2>1. SUFFICES ASSUME Bad # {} PROVE FALSE
    OBVIOUS
  <2>2. PICK b \in Bad : \A c \in Bad : b <= c
    <3>1. Bad \subseteq Nat
      OBVIOUS
    <3> HIDE DEF Bad
    <3> QED BY <2>1, <3>1, LeastOf
  <2>3. b # 0
    BY <1>1
  <2>4. b \in 1 .. n /\ b - 1 \in 0 .. n /\ b - 1 \notin Bad
    BY <2>2, <2>3
  <2> QED BY <1>2, <2>2, <2>4
<1>4. T \in [0 .. n -> X] /\ T[0] = base /\ T[n] = g[1 .. n]
  BY <1>1, <1>3
<1>5. \A k \in 1 .. n : T[k] = step[<<k, T[k - 1]>>]
  BY <1>2, <1>3
<1> HIDE DEF T
<1> QED BY <1>4, <1>5 DEF RowRun
==============================================================================
