----------------------------- MODULE SequenceLemmas -----------------------------
(***************************************************************************)
(* What the proofs about walks and packets need of numbers and of          *)
(* FlattenSeq, by which their modules put sequences together, and the one  *)
(* about settings of FoldLeft.                                             *)
(*                                                                         *)
(* No lemma with an operator for a parameter can be instantiated, but this *)
(* module can: what it proves of folds it proves for every Step.           *)
(*                                                                         *)
(* Induction is stated for a set of numbers, not for a predicate: a proof  *)
(* by induction shows that the numbers for which its claim holds are all.  *)
(***************************************************************************)
EXTENDS SequencesExt, SequenceTheorems, WellFoundedInduction, TLAPS

CONSTANT
    Step(_, _, _)  \* what a fold makes, for some p, of a value and an element

LEMMA LeastNumber ==
  ASSUME NEW T, T \subseteq Nat, T # {}
  PROVE  \E m \in T : \A k \in T : m <= k
<1>1. PICK m \in T : \A k \in T : <<k, m>> \notin OpToRel(<, Nat)
  BY WFMin, NatLessThanWellFounded, Zenon
<1>2. \A k \in T : ~(k < m)
  BY <1>1, Zenon DEF OpToRel
<1>. QED
  BY <1>2

\* A set with zero and the successor of each of its numbers has all numbers: it
\* lacks none, since it would lack a least one.
LEMMA Induction ==
  ASSUME NEW good, 0 \in good, \A n \in Nat : n \in good => n + 1 \in good
  PROVE  \A n \in Nat : n \in good
<1>. SUFFICES ASSUME Nat \ good # {}
              PROVE  FALSE
  OBVIOUS
<1>1. PICK m \in Nat \ good : \A k \in Nat \ good : m <= k
  BY LeastNumber
<1>2. m - 1 \in Nat
  OBVIOUS
<1>3. m - 1 \in good
  BY <1>1, <1>2
<1>. QED
  BY <1>2, <1>3

\* A set with the empty sequence and, with each sequence, all that are longer by
\* one has all sequences.
LEMMA SequencesInduct ==
  ASSUME NEW E, NEW good, << >> \in good,
         \A s \in Seq(E), e \in E : s \in good => Append(s, e) \in good
  PROVE  \A s \in Seq(E) : s \in good
<1>. DEFINE short == {n \in Nat : \A s \in Seq(E) : Len(s) = n => s \in good}
<1>1. 0 \in short
  BY EmptySeq
<1>2. ASSUME NEW n \in Nat, n \in short
      PROVE  n + 1 \in short
  <2>. SUFFICES ASSUME NEW t \in Seq(E), Len(t) = n + 1
                PROVE  t \in good
    OBVIOUS
  <2>1. PICK s \in Seq(E), e \in E : t = Append(s, e)
    <3>1. t # << >>
      OBVIOUS
    <3>. QED
      BY <3>1, SequenceEmptyOrAppend, Zenon
  <2>2. Len(s) = n
    BY <2>1, AppendProperties, LenProperties
  <2>. QED
    BY <1>2, <2>1, <2>2
<1>. HIDE DEF short
<1>3. \A n \in Nat : n \in short
  BY <1>1, <1>2, Induction
<1>. QED
  BY <1>3, LenProperties DEF short

-----------------------------------------------------------------------------
(* The recursive function within FlattenSeq.                               *)

\* f[i] is what the first i sequences of s put together are.
Joins(f, s, n) == f = [i \in 1..n |-> IF i = 1 THEN s[i] ELSE f[i-1] \o s[i]]

LEMMA JoinsValue ==
  ASSUME NEW f, NEW s, NEW n \in Nat, Joins(f, s, n)
  PROVE  \A i \in 1..n : f[i] = IF i = 1 THEN s[i] ELSE f[i-1] \o s[i]
BY DEF Joins

LEMMA JoinsNext ==
  ASSUME NEW f, NEW s, NEW n \in Nat, Joins(f, s, n), NEW i \in Nat \ {0}, i + 1 <= n
  PROVE  f[i+1] = f[i] \o s[i+1]
<1>1. \A k \in 1..n : k # 1 => f[k] = f[k-1] \o s[k]
  BY DEF Joins
<1>2. PICK k \in 1..n : k = i + 1
  OBVIOUS
<1>3. k # 1 /\ k - 1 = i
  BY <1>2
<1>4. f[k] = f[k-1] \o s[k]
  BY <1>1, <1>3, Zenon
<1>. QED
  BY <1>2, <1>3, <1>4, Zenon

\* Such a function exists for every length.
LEMMA JoinsExist ==
  ASSUME NEW s
  PROVE  \A n \in Nat : \E f : Joins(f, s, n)
<1>. DEFINE good == {n \in Nat : \E f : Joins(f, s, n)}
<1>1. 0 \in good
  <2>1. Joins([i \in 1..0 |-> << >>], s, 0)
    BY DEF Joins
  <2>. QED
    BY <2>1
<1>2. ASSUME NEW n \in Nat, n \in good
      PROVE  n + 1 \in good
  <2>1. PICK f : Joins(f, s, n)
    BY <1>2
  <2>. DEFINE g == [i \in 1..n + 1 |-> IF i = 1 THEN s[i] ELSE f[i-1] \o s[i]]
  <2>2. \A i \in 1..n : g[i] = f[i]
    BY <2>1, JoinsValue
  <2>3. \A i \in 1..n + 1 : i # 1 => g[i-1] = f[i-1]
    <3>1. \A i \in 1..n + 1 : i # 1 => i - 1 \in 1..n
      OBVIOUS
    <3>. HIDE DEF g
    <3>. QED
      BY <2>2, <3>1
  <2>4. \A i \in 1..n + 1 : g[i] = IF i = 1 THEN s[i] ELSE g[i-1] \o s[i]
    BY <2>3
  <2>. HIDE DEF g
  <2>5. g = [i \in 1..n + 1 |-> g[i]]
    BY DEF g
  <2>6. Joins(g, s, n + 1)
    BY <2>4, <2>5 DEF Joins
  <2>. QED
    BY <2>6
<1>. HIDE DEF good
<1>3. \A n \in Nat : n \in good
  BY <1>1, <1>2, Induction
<1>. QED
  BY <1>3 DEF good

\* FlattenSeq takes the last value of one.
LEMMA FlattenJoins ==
  ASSUME NEW s, Len(s) \in Nat \ {0}
  PROVE  \E f : Joins(f, s, Len(s)) /\ FlattenSeq(s) = f[Len(s)]
<1>. DEFINE f == CHOOSE f : f = [i \in 1..Len(s) |-> IF i = 1 THEN s[i] ELSE f[i-1] \o s[i]]
<1>1. Joins(f, s, Len(s))
  BY JoinsExist DEF Joins
<1>2. FlattenSeq(s) = f[Len(s)]
  BY DEF FlattenSeq
<1>. QED
  BY <1>1, <1>2

\* The values are sequences, and depend on the sequences before them alone.
LEMMA JoinsAgree ==
  ASSUME NEW S, NEW s \in Seq(Seq(S)), NEW t \in Seq(Seq(S)), NEW f, NEW g,
         NEW k \in Nat \ {0}, k <= Len(s), k <= Len(t), \A i \in 1..k : s[i] = t[i],
         Joins(f, s, Len(s)), Joins(g, t, Len(t))
  PROVE  f[k] = g[k] /\ f[k] \in Seq(S)
<1>. DEFINE good == {n \in Nat : n + 1 <= k => f[n+1] = g[n+1] /\ f[n+1] \in Seq(S)}
<1>1. 0 \in good
  <2>1. s[1] = t[1] /\ s[1] \in Seq(S)
    BY ElementOfSeq
  <2>2. f[1] = s[1] /\ g[1] = t[1]
    BY JoinsValue
  <2>. QED
    BY <2>1, <2>2
<1>2. ASSUME NEW n \in Nat, n \in good
      PROVE  n + 1 \in good
  <2>. SUFFICES ASSUME n + 2 <= k
                PROVE  f[n+2] = g[n+2] /\ f[n+2] \in Seq(S)
    BY DEF good
  <2>1. f[n+1] = g[n+1] /\ f[n+1] \in Seq(S)
    BY <1>2
  <2>2. /\ n + 1 \in Nat \ {0} /\ n + 1 + 1 = n + 2
        /\ n + 1 + 1 <= Len(s) /\ n + 1 + 1 <= Len(t) /\ Len(s) \in Nat /\ Len(t) \in Nat
        /\ n + 2 \in 1..Len(s) /\ n + 2 \in 1..k
    OBVIOUS
  <2>3. f[n+1+1] = f[n+1] \o s[n+1+1]
    BY <2>2, JoinsNext, Zenon
  <2>4. g[n+1+1] = g[n+1] \o t[n+1+1]
    BY <2>2, JoinsNext, Zenon
  <2>5. s[n+2] = t[n+2] /\ s[n+2] \in Seq(S)
    BY <2>2, ElementOfSeq
  <2>6. f[n+1] \o s[n+2] \in Seq(S)
    BY <2>1, <2>5, ConcatProperties, Zenon
  <2>. QED
    BY <2>1, <2>2, <2>3, <2>4, <2>5, <2>6
<1>. HIDE DEF good
<1>3. \A n \in Nat : n \in good
  BY <1>1, <1>2, Induction
<1>4. k - 1 \in Nat /\ k - 1 + 1 = k
  OBVIOUS
<1>5. k - 1 \in good
  BY <1>3, <1>4
<1>. QED
  BY <1>4, <1>5 DEF good

-----------------------------------------------------------------------------
(* FlattenSeq.                                                             *)

LEMMA FlattenEmpty == FlattenSeq(<< >>) = << >>
BY DEF FlattenSeq

LEMMA FlattenType ==
  ASSUME NEW S, NEW s \in Seq(Seq(S))
  PROVE  FlattenSeq(s) \in Seq(S)
<1>1. CASE s = << >>
  BY <1>1, FlattenEmpty, EmptySeq
<1>2. CASE s # << >>
  <2>1. Len(s) \in Nat \ {0}
    BY <1>2, EmptySeq
  <2>2. PICK f : Joins(f, s, Len(s)) /\ FlattenSeq(s) = f[Len(s)]
    BY <2>1, FlattenJoins
  <2>. QED
    BY <2>1, <2>2, JoinsAgree
<1>. QED
  BY <1>1, <1>2

\* A sequence more at the end.
LEMMA FlattenAppend ==
  ASSUME NEW S, NEW s \in Seq(Seq(S)), NEW e \in Seq(S)
  PROVE  FlattenSeq(Append(s, e)) = FlattenSeq(s) \o e
<1>. DEFINE t == Append(s, e)
<1>0. PICK n \in Nat : n = Len(s)
  BY LenProperties
<1>1. t \in Seq(Seq(S)) /\ Len(t) = n + 1 /\ t[n+1] = e /\ \A i \in 1..n : t[i] = s[i]
  BY <1>0, AppendProperties
<1>2. n \in Nat
  OBVIOUS
<1>. HIDE DEF t
<1>3. PICK g : Joins(g, t, Len(t)) /\ FlattenSeq(t) = g[Len(t)]
  BY <1>1, <1>2, FlattenJoins
<1>4. CASE n = 0
  <2>1. s = << >>
    BY <1>0, <1>4, EmptySeq
  <2>2. g[1] = e
    BY <1>1, <1>3, <1>4 DEF Joins
  <2>. QED
    BY <1>1, <1>3, <1>4, <2>1, <2>2, FlattenEmpty, ConcatEmptySeq DEF t
<1>5. CASE n # 0
  <2>1. PICK f : Joins(f, s, Len(s)) /\ FlattenSeq(s) = f[Len(s)]
    BY <1>0, <1>2, <1>5, FlattenJoins
  <2>2. g[n] = f[n]
    <3>1. n \in Nat \ {0} /\ n <= Len(s) /\ n <= Len(t)
      BY <1>0, <1>1, <1>2, <1>5
    <3>2. \A i \in 1..n : t[i] = s[i]
      BY <1>1
    <3>3. s \in Seq(Seq(S)) /\ t \in Seq(Seq(S))
      BY <1>1
    <3>4. Joins(g, t, Len(t)) /\ Joins(f, s, Len(s)) /\ \A i \in 1..n : s[i] = t[i]
      BY <1>3, <2>1, <3>2
    <3>. HIDE DEF t
    <3>. QED
      BY <3>1, <3>3, <3>4, JoinsAgree
  <2>3. g[n+1] = g[n] \o t[n+1]
    <3>1. n \in Nat \ {0} /\ n + 1 <= Len(t) /\ Len(t) \in Nat
      BY <1>1, <1>2, <1>5
    <3>. QED
      BY <1>3, <3>1, JoinsNext, Zenon
  <2>. QED
    BY <1>0, <1>1, <1>3, <2>1, <2>2, <2>3 DEF t
<1>. QED
  BY <1>4, <1>5

\* One sequence.
LEMMA FlattenOne ==
  ASSUME NEW S, NEW t \in Seq(Seq(S)), Len(t) = 1
  PROVE  FlattenSeq(t) = Head(t) \o FlattenSeq(Tail(t))
<1>1. t # << >>
  OBVIOUS
<1>2. Tail(t) = << >>
  <2>1. Tail(t) \in Seq(Seq(S)) /\ Len(Tail(t)) = 0
    BY <1>1, HeadTailProperties
  <2>. QED
    BY <2>1, EmptySeq, Zenon
<1>3. Head(t) = t[1] /\ Head(t) \in Seq(S)
  BY <1>1
<1>4. PICK f : Joins(f, t, Len(t)) /\ FlattenSeq(t) = f[Len(t)]
  <2>1. Len(t) \in Nat \ {0}
    OBVIOUS
  <2>. QED
    BY <2>1, FlattenJoins, Zenon
<1>5. f[1] = t[1]
  BY <1>4, JoinsValue
<1>. QED
  BY <1>2, <1>3, <1>4, <1>5, FlattenEmpty, ConcatEmptySeq

\* If the first sequence comes first, it does with one more at the end.
LEMMA FlattenMore ==
  ASSUME NEW S, NEW u \in Seq(Seq(S)), NEW e \in Seq(S), u # << >>,
         FlattenSeq(u) = Head(u) \o FlattenSeq(Tail(u))
  PROVE  FlattenSeq(Append(u, e)) = Head(Append(u, e)) \o FlattenSeq(Tail(Append(u, e)))
<1>1. Head(Append(u, e)) = Head(u) /\ Tail(Append(u, e)) = Append(Tail(u), e)
  BY HeadTailAppend
<1>2. Head(u) \in Seq(S) /\ Tail(u) \in Seq(Seq(S))
  BY HeadTailProperties
<1>3. FlattenSeq(Append(u, e)) = (Head(u) \o FlattenSeq(Tail(u))) \o e
  BY FlattenAppend
<1>4. FlattenSeq(Append(Tail(u), e)) = FlattenSeq(Tail(u)) \o e
  BY <1>2, FlattenAppend
<1>5. FlattenSeq(Tail(u)) \in Seq(S)
  BY <1>2, FlattenType
<1>6. (Head(u) \o FlattenSeq(Tail(u))) \o e = Head(u) \o (FlattenSeq(Tail(u)) \o e)
  <2>1. \A x, y, z \in Seq(S) : (x \o y) \o z = x \o (y \o z)
    BY ConcatAssociative
  <2>. QED
    BY <1>2, <1>5, <2>1, Zenon
<1>. QED
  BY <1>1, <1>3, <1>4, <1>6

\* The first sequence comes first.
LEMMA FlattenFirst ==
  ASSUME NEW S, NEW s \in Seq(Seq(S)), s # << >>
  PROVE  FlattenSeq(s) = Head(s) \o FlattenSeq(Tail(s))
<1>. DEFINE good == {n \in Nat : \A t \in Seq(Seq(S)) : Len(t) = n + 1 =>
                       FlattenSeq(t) = Head(t) \o FlattenSeq(Tail(t))}
<1>1. 0 \in good
  BY FlattenOne
<1>2. ASSUME NEW n \in Nat, n \in good
      PROVE  n + 1 \in good
  <2>. SUFFICES ASSUME NEW t \in Seq(Seq(S)), Len(t) = n + 2
                PROVE  FlattenSeq(t) = Head(t) \o FlattenSeq(Tail(t))
    OBVIOUS
  <2>1. PICK u \in Seq(Seq(S)), e \in Seq(S) : t = Append(u, e)
    <3>1. t # << >>
      OBVIOUS
    <3>. QED
      BY <3>1, SequenceEmptyOrAppend, Zenon
  <2>2. Len(u) = n + 1 /\ u # << >>
    BY <2>1, AppendProperties, LenProperties, EmptySeq
  <2>3. FlattenSeq(u) = Head(u) \o FlattenSeq(Tail(u))
    BY <1>2, <2>2
  <2>. QED
    BY <2>1, <2>2, <2>3, FlattenMore, Zenon
<1>. HIDE DEF good
<1>3. \A n \in Nat : n \in good
  BY <1>1, <1>2, Induction
<1>4. Len(s) - 1 \in Nat /\ Len(s) - 1 + 1 = Len(s)
  BY EmptySeq, LenProperties
<1>5. Len(s) - 1 \in good
  BY <1>3, <1>4
<1>. QED
  BY <1>4, <1>5 DEF good

-----------------------------------------------------------------------------
(* Prefixes and functions that are sequences.                              *)

LEMMA PrefixOfConcat ==
  ASSUME NEW S, NEW s \in Seq(S), NEW t \in Seq(S)
  PROVE  IsPrefix(s, s \o t)
<1>1. s \o t \in Seq(S) /\ Len(s) <= Len(s \o t)
      /\ \A i \in 1..Len(s) : (s \o t)[i] = s[i]
  BY ConcatProperties, LenProperties
<1>2. Len(s) \in Nat /\ Len(s \o t) \in Nat
  BY <1>1, LenProperties
<1>3. SubSeq(s, 1, Len(s)) = SubSeq(s \o t, 1, Len(s))
  <2>1. \A i \in 1..Len(s) : s[i] \in S /\ (s \o t)[i] \in S
    BY <1>1, ElementOfSeq
  <2>2. /\ SubSeq(s, 1, Len(s)) \in Seq(S)
        /\ Len(SubSeq(s, 1, Len(s))) = Len(s)
        /\ \A i \in 1..Len(s) : SubSeq(s, 1, Len(s))[i] = s[i]
    BY <1>2, SubSeqFull
  <2>3. /\ SubSeq(s \o t, 1, Len(s)) \in Seq(S)
        /\ Len(SubSeq(s \o t, 1, Len(s))) = Len(s)
        /\ \A i \in 1..Len(s) : SubSeq(s \o t, 1, Len(s))[i] = (s \o t)[i]
    BY <1>2, <2>1, SubSeqProperties
  <2>. QED
    BY <1>1, <2>2, <2>3, SeqEqual
<1>. QED
  BY <1>1, <1>3 DEF IsPrefix

\* A function of the numbers up to n.
LEMMA FunctionIsSeq ==
  ASSUME NEW S, NEW n \in Nat, NEW f \in [1..n -> S]
  PROVE  f \in Seq(S) /\ Len(f) = n
<1>1. f \in Seq(S)
  BY SeqDef
<1>2. DOMAIN f = 1..Len(f) /\ Len(f) \in Nat
  BY <1>1, LenProperties
<1>. QED
  BY <1>1, <1>2

\* Sequences by their places, and those after the first.
LEMMA FlattenShift ==
  ASSUME NEW S, NEW n \in Nat \ {0}, NEW f \in [1..n -> Seq(S)], NEW g \in [1..n - 1 -> Seq(S)],
         \A i \in 1..n - 1 : g[i] = f[i+1]
  PROVE  FlattenSeq(f) = f[1] \o FlattenSeq(g)
<1>1. f \in Seq(Seq(S)) /\ Len(f) = n /\ g \in Seq(Seq(S)) /\ Len(g) = n - 1
  <2>1. n - 1 \in Nat
    OBVIOUS
  <2>. QED
    BY <2>1, FunctionIsSeq
<1>2. f # << >>
  BY <1>1
<1>3. /\ Head(f) = f[1] /\ Tail(f) \in Seq(Seq(S)) /\ Len(Tail(f)) = n - 1
      /\ \A i \in 1..n - 1 : Tail(f)[i] = f[i+1]
  BY <1>1, <1>2, HeadTailProperties
<1>4. Tail(f) = g
  <2>1. \A i \in 1..Len(g) : Tail(f)[i] = g[i]
    BY <1>1, <1>3
  <2>. QED
    BY <1>1, <1>3, <2>1, SeqEqual
<1>. QED
  BY <1>1, <1>2, <1>3, <1>4, FlattenFirst

-----------------------------------------------------------------------------
(* Folds, of any step.                                                     *)

Folded(p, base, s) == FoldLeft(LAMBDA x, y : Step(p, x, y), base, s)

LEMMA MaxOfNumbers ==
  ASSUME NEW n \in Nat, NEW T, T \subseteq 1..n, T # {}
  PROVE  Max(T) \in T /\ \A k \in T : k <= Max(T)
<1>. DEFINE U == {k \in Nat : n - k \in T}
<1>1. U # {}
  <2>1. PICK k \in T : TRUE
    OBVIOUS
  <2>2. k \in 1..n /\ n - k \in Nat /\ n - (n - k) = k
    BY <2>1
  <2>3. n - k \in U
    BY <2>1, <2>2
  <2>. QED
    BY <2>3
<1>2. PICK m \in U : \A k \in U : m <= k
  BY <1>1, LeastNumber
<1>3. n - m \in T /\ \A k \in T : k <= n - m
  <2>1. n - m \in T /\ m \in Nat
    BY <1>2
  <2>2. ASSUME NEW k \in T PROVE k <= n - m
    <3>1. k \in 1..n /\ n - k \in Nat /\ n - (n - k) = k
      OBVIOUS
    <3>2. m <= n - k
      BY <1>2, <3>1
    <3>. QED
      BY <2>1, <3>1, <3>2
  <2>. QED
    BY <2>1, <2>2
<1>. QED
  BY <1>3 DEF Max

LEMMA MaxOfInterval ==
  ASSUME NEW n \in Nat
  PROVE  Max(1..n+1) = n + 1
<1>1. n + 1 \in Nat /\ 1..n+1 # {} /\ n + 1 \in 1..n+1
  OBVIOUS
<1>2. Max(1..n+1) \in 1..n+1 /\ n + 1 <= Max(1..n+1)
  BY <1>1, MaxOfNumbers
<1>. QED
  BY <1>2

\* f[T] is what the fold over the places T of s gives.
Folds(f, p, base, s, n) ==
  f = [T \in SUBSET (1..n) |->
        IF T = {} THEN base ELSE Step(p, f[T \ {Max(T)}], s[Max(T)])]

LEMMA FoldsValue ==
  ASSUME NEW f, NEW p, NEW base, NEW s, NEW n \in Nat, Folds(f, p, base, s, n)
  PROVE  /\ f[{}] = base
         /\ \A T \in SUBSET (1..n) : T # {} => f[T] = Step(p, f[T \ {Max(T)}], s[Max(T)])
<1>. DEFINE v(T) == IF T = {} THEN base ELSE Step(p, f[T \ {Max(T)}], s[Max(T)])
<1>1. f = [T \in SUBSET (1..n) |-> v(T)]
  BY Zenon DEF Folds
<1>. HIDE DEF v
<1>2. \A T \in SUBSET (1..n) : f[T] = v(T)
  BY <1>1, Zenon
<1>3. f[{}] = base
  BY <1>2 DEF v
<1>4. ASSUME NEW T \in SUBSET (1..n), T # {}
      PROVE  f[T] = Step(p, f[T \ {Max(T)}], s[Max(T)])
  BY <1>2, <1>4, Zenon DEF v
<1>. QED
  BY <1>3, <1>4

LEMMA FoldsExist ==
  ASSUME NEW p, NEW base, NEW s
  PROVE  \A n \in Nat : \E f : Folds(f, p, base, s, n)
<1>. DEFINE good == {n \in Nat : \E f : Folds(f, p, base, s, n)}
<1>1. 0 \in good
  <2>. DEFINE f == [T \in SUBSET (1..0) |-> base]
  <2>1. \A T \in SUBSET (1..0) : T = {}
    OBVIOUS
  <2>2. Folds(f, p, base, s, 0)
    BY <2>1, Zenon DEF Folds
  <2>. QED
    BY <2>2, Zenon
<1>2. ASSUME NEW n \in Nat, n \in good
      PROVE  n + 1 \in good
  <2>1. PICK f : Folds(f, p, base, s, n)
    BY <1>2
  <2>. DEFINE v(h, T) == IF T = {} THEN base ELSE Step(p, h[T \ {Max(T)}], s[Max(T)])
              g == [T \in SUBSET (1..n+1) |-> v(f, T)]
  <2>2. \A T \in SUBSET (1..n) : f[T] = v(f, T)
    <3>1. f[{}] = base
      BY <2>1, FoldsValue, Zenon
    <3>2. \A T \in SUBSET (1..n) : T # {} => f[T] = Step(p, f[T \ {Max(T)}], s[Max(T)])
      BY <2>1, FoldsValue, Z3
    <3>3. ASSUME NEW T \in SUBSET (1..n) PROVE f[T] = v(f, T)
      <4>1. CASE T = {}
        BY <3>1, <4>1
      <4>2. CASE T # {}
        BY <3>2, <4>2
      <4>. QED
        BY <4>1, <4>2
    <3>. QED
      BY <3>3
  <2>3. ASSUME NEW T \in SUBSET (1..n+1), T # {}
        PROVE  T \ {Max(T)} \in SUBSET (1..n)
    <3>1. n + 1 \in Nat
      OBVIOUS
    <3>2. Max(T) \in T /\ \A k \in T : k <= Max(T)
      BY <3>1, <2>3, MaxOfNumbers
    <3>3. ASSUME NEW k \in T, k # Max(T) PROVE k \in 1..n
      <4>1. k \in 1..n+1 /\ Max(T) \in 1..n+1 /\ k <= Max(T)
        BY <3>2
      <4>. QED
        BY <4>1, <3>3
    <3>. QED
      BY <3>3
  <2>4. \A T \in SUBSET (1..n) : T \in SUBSET (1..n+1)
    <3>1. \A k \in 1..n : k \in 1..n+1
      OBVIOUS
    <3>. QED
      BY <3>1
  <2>5. \A T \in SUBSET (1..n) : g[T] = f[T]
    <3>. HIDE DEF v
    <3>. QED
      BY <2>2, <2>4, Zenon
  <2>6. \A T \in SUBSET (1..n+1) : v(f, T) = v(g, T)
    <3>. HIDE DEF g
    <3>. TAKE T \in SUBSET (1..n+1)
    <3>1. CASE T = {}
      BY <3>1
    <3>2. CASE T # {}
      <4>1. f[T \ {Max(T)}] = g[T \ {Max(T)}]
        BY <2>3, <2>5, <3>2
      <4>. QED
        BY <4>1, <3>2
    <3>. QED
      BY <3>1, <3>2
  <2>7. g = [T \in SUBSET (1..n+1) |-> v(g, T)]
    <3>. HIDE DEF v
    <3>. QED
      BY <2>6
  <2>8. Folds(g, p, base, s, n + 1)
    <3>. HIDE DEF g
    <3>. QED
      BY <2>7, Zenon DEF Folds
  <2>. QED
    BY <2>8
<1>. HIDE DEF good
<1>3. \A n \in Nat : n \in good
  BY <1>1, <1>2, Induction
<1>. QED
  BY <1>3 DEF good

LEMMA FoldsNext ==
  ASSUME NEW f, NEW p, NEW base, NEW s, NEW n \in Nat, Folds(f, p, base, s, n)
  PROVE  /\ f[1..0] = base
         /\ \A k \in Nat : k + 1 <= n => f[1..k+1] = Step(p, f[1..k], s[k+1])
<1>1. f[1..0] = base
  <2>1. 1..0 = {}
    OBVIOUS
  <2>2. f[{}] = base
    BY FoldsValue, Zenon
  <2>. QED
    BY <2>1, <2>2
<1>2. ASSUME NEW k \in Nat, k + 1 <= n
      PROVE  f[1..k+1] = Step(p, f[1..k], s[k+1])
  <2>1. 1..k+1 \in SUBSET (1..n) /\ 1..k+1 # {}
    BY <1>2
  <2>2. Max(1..k+1) = k + 1
    BY MaxOfInterval
  <2>3. (1..k+1) \ {k+1} = 1..k
    OBVIOUS
  <2>4. f[1..k+1] = Step(p, f[(1..k+1) \ {Max(1..k+1)}], s[Max(1..k+1)])
    <3>. DEFINE T == 1..k+1
    <3>1. T \in SUBSET (1..n) /\ T # {}
      BY <2>1
    <3>. HIDE DEF T
    <3>2. f[T] = Step(p, f[T \ {Max(T)}], s[Max(T)])
      BY <3>1, FoldsValue, Z3
    <3>. QED
      BY <3>2 DEF T
  <2>. QED
    BY <2>2, <2>3, <2>4, Zenon
<1>. QED
  BY <1>1, <1>2

\* The fold over all but the last depends on them alone.
LEMMA FoldsAgree ==
  ASSUME NEW p, NEW base, NEW f, NEW g, NEW s, NEW t, NEW n \in Nat,
         Folds(f, p, base, s, n), Folds(g, p, base, t, n + 1),
         \A i \in 1..n : s[i] = t[i]
  PROVE  f[1..n] = g[1..n]
<1>. DEFINE good == {k \in Nat : k <= n => f[1..k] = g[1..k]}
<1>1. 0 \in good
  <2>1. f[1..0] = base /\ g[1..0] = base
    BY FoldsNext
  <2>. QED
    BY <2>1
<1>2. ASSUME NEW k \in Nat, k \in good
      PROVE  k + 1 \in good
  <2>. SUFFICES ASSUME k + 1 <= n
                PROVE  f[1..k+1] = g[1..k+1]
    OBVIOUS
  <2>1. k + 1 <= n + 1 /\ n + 1 \in Nat /\ k <= n /\ k + 1 \in 1..n
    OBVIOUS
  <2>2. f[1..k] = g[1..k] /\ s[k+1] = t[k+1]
    BY <1>2, <2>1
  <2>3. f[1..k+1] = Step(p, f[1..k], s[k+1])
    BY FoldsNext
  <2>4. g[1..k+1] = Step(p, g[1..k], t[k+1])
    BY <2>1, FoldsNext
  <2>. QED
    BY <2>2, <2>3, <2>4, Zenon
<1>. HIDE DEF good
<1>3. \A k \in Nat : k \in good
  BY <1>1, <1>2, Induction
<1>. QED
  BY <1>3 DEF good

LEMMA FoldedValue ==
  ASSUME NEW E, NEW p, NEW base, NEW s \in Seq(E)
  PROVE  \E f : Folds(f, p, base, s, Len(s)) /\ Folded(p, base, s) = f[1..Len(s)]
<1>. DEFINE f == CHOOSE f : Folds(f, p, base, s, Len(s))
<1>1. Len(s) \in Nat /\ DOMAIN s = 1..Len(s)
  OBVIOUS
<1>2. Folds(f, p, base, s, Len(s))
  BY <1>1, FoldsExist, Zenon
<1>3. Folded(p, base, s) = f[1..Len(s)]
  BY <1>1, Zenon DEF Folded, FoldLeft, MapThenFoldSet, Folds
<1>. QED
  BY <1>2, <1>3, Zenon

LEMMA FoldEmpty ==
  ASSUME NEW p, NEW base
  PROVE  Folded(p, base, << >>) = base
<1>. DEFINE s == << >>
<1>1. s \in Seq({base}) /\ Len(s) = 0
  OBVIOUS
<1>. HIDE DEF s
<1>2. PICK f : Folds(f, p, base, s, Len(s)) /\ Folded(p, base, s) = f[1..Len(s)]
  <2>1. \A E, r : r \in Seq(E) =>
          \E f : Folds(f, p, base, r, Len(r)) /\ Folded(p, base, r) = f[1..Len(r)]
    BY FoldedValue, Z3
  <2>. QED
    BY <1>1, <2>1, Zenon
<1>3. f[1..0] = base
  BY <1>1, <1>2, FoldsNext
<1>4. Folded(p, base, s) = base
  BY <1>1, <1>2, <1>3
<1>. QED
  BY <1>4 DEF s

\* A fold over one element more takes one step more.
LEMMA FoldAppend ==
  ASSUME NEW E, NEW p, NEW base, NEW s \in Seq(E), NEW e \in E
  PROVE  Folded(p, base, Append(s, e)) = Step(p, Folded(p, base, s), e)
<1>. DEFINE t == Append(s, e)
<1>0. PICK n \in Nat : n = Len(s)
  BY LenProperties
<1>1. t \in Seq(E) /\ Len(t) = n + 1 /\ t[n+1] = e /\ \A i \in 1..n : s[i] = t[i]
  BY <1>0, AppendProperties
<1>. HIDE DEF t
<1>2. PICK f : Folds(f, p, base, s, n) /\ Folded(p, base, s) = f[1..n]
  <2>1. \E f : Folds(f, p, base, s, Len(s)) /\ Folded(p, base, s) = f[1..Len(s)]
    BY FoldedValue
  <2>. QED
    BY <1>0, <2>1
<1>3. PICK g : Folds(g, p, base, t, n + 1) /\ Folded(p, base, t) = g[1..n+1]
  <2>1. \E g : Folds(g, p, base, t, Len(t)) /\ Folded(p, base, t) = g[1..Len(t)]
    BY <1>1, FoldedValue
  <2>. QED
    BY <1>1, <2>1
<1>4. n + 1 \in Nat /\ n <= n + 1 /\ n + 1 <= n + 1
  OBVIOUS
<1>5. f[1..n] = g[1..n]
  <2>1. Folds(f, p, base, s, n) /\ Folds(g, p, base, t, n + 1) /\ \A i \in 1..n : s[i] = t[i]
    BY <1>1, <1>2, <1>3
  <2>. QED
    BY <2>1, FoldsAgree
<1>6. g[1..n+1] = Step(p, g[1..n], t[n+1])
  BY <1>3, <1>4, FoldsNext
<1>. QED
  BY <1>1, <1>2, <1>3, <1>5, <1>6, Zenon DEF t
=============================================================================
