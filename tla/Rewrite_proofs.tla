----------------------------- MODULE Rewrite_proofs -----------------------------
(***************************************************************************)
(* What leaves the interface, for any packets with whole headers, any two  *)
(* interfaces and any link: its checksums are right, and but for what the  *)
(* replay fixes it is what was captured.                                   *)
(***************************************************************************)
EXTENDS Rewrite, SequenceLemmas

-----------------------------------------------------------------------------
(* Bytes in order.                                                         *)

LEMMA ReverseAt ==
  ASSUME NEW S, NEW s \in Seq(S)
  PROVE  /\ Reverse(s) \in Seq(S) /\ Len(Reverse(s)) = Len(s)
         /\ \A i \in 1..Len(s) : Reverse(s)[i] = s[Len(s) + 1 - i]
<1>1. PICK n \in Nat : n = Len(s)
  BY LenProperties
<1>2. \A i \in 1..n : n - i + 1 \in 1..n /\ n + 1 - i = n - i + 1
  OBVIOUS
<1>3. \A i \in 1..n : s[n - i + 1] \in S
  BY <1>1, <1>2, ElementOfSeq
<1>4. Reverse(s) = [i \in 1..n |-> s[n - i + 1]]
  BY <1>1 DEF Reverse
<1>5. Reverse(s) \in [1..n -> S]
  BY <1>3, <1>4
<1>6. Reverse(s) \in Seq(S) /\ Len(Reverse(s)) = n
  BY <1>5, FunctionIsSeq
<1>. QED
  BY <1>1, <1>2, <1>4, <1>6

LEMMA ReverseTwice ==
  ASSUME NEW S, NEW s \in Seq(S)
  PROVE  Reverse(Reverse(s)) = s
<1>1. PICK n \in Nat : n = Len(s)
  BY LenProperties
<1>2. /\ Reverse(s) \in Seq(S) /\ Len(Reverse(s)) = n
      /\ \A i \in 1..n : Reverse(s)[i] = s[n + 1 - i]
  BY <1>1, ReverseAt
<1>3. /\ Reverse(Reverse(s)) \in Seq(S) /\ Len(Reverse(Reverse(s))) = n
      /\ \A i \in 1..n : Reverse(Reverse(s))[i] = Reverse(s)[n + 1 - i]
  BY <1>2, ReverseAt
<1>4. \A i \in 1..n : n + 1 - i \in 1..n /\ n + 1 - (n + 1 - i) = i
  OBVIOUS
<1>5. \A i \in 1..n : Reverse(Reverse(s))[i] = s[i]
  BY <1>2, <1>3, <1>4
<1>. QED
  BY <1>1, <1>3, <1>5, SeqEqual

\* The fields keep the order of the network: their bytes are those of the
\* integer, the most significant first.
LEMMA EndianFields ==
  ASSUME NEW S, NEW s \in Seq(S)
  PROVE  save_endian(s) = s /\ load_endian(s) = s
<1>1. PICK n \in Nat : n = Len(s) /\ DOMAIN s = 1..n
  BY LenProperties
<1>2. /\ Reverse(s) \in Seq(S) /\ Len(Reverse(s)) = n
      /\ \A i \in 1..n : Reverse(s)[i] = s[n + 1 - i]
  BY <1>1, ReverseAt
<1>3. \A i \in 1..n : n + 1 - i \in 1..n /\ n + 1 - (n + 1 - i) = i
  OBVIOUS
<1>4. s = [i \in 1..n |-> s[i]]
  BY <1>1
<1>5. save_endian(s) = s
  <2>1. \A i \in 1..n : Reverse(s)[n + 1 - i] = s[i]
    BY <1>2, <1>3
  <2>2. save_endian(s) = [i \in 1..n |-> Reverse(s)[n + 1 - i]]
    BY <1>1 DEF save_endian, Memory
  <2>. QED
    BY <1>4, <2>1, <2>2
<1>6. load_endian(s) = s
  <2>1. [i \in DOMAIN s |-> s[Len(s) + 1 - i]] = Reverse(s)
    <3>1. \A i \in 1..n : n - i + 1 = n + 1 - i
      OBVIOUS
    <3>. QED
      BY <1>1, <3>1 DEF Reverse
  <2>. QED
    BY <2>1, ReverseTwice DEF load_endian, FromMemory
<1>. QED
  BY <1>5, <1>6

\* An address given as an integer of the host comes out as it is.
LEMMA AddressField ==
  ASSUME NEW S, NEW s \in Seq(S)
  PROVE  save_endian(to_rev(FromMemory(s))) = s
<1>1. to_rev(FromMemory(s)) = s
  BY ReverseTwice DEF to_rev, FromMemory, Memory
<1>. QED
  BY <1>1, EndianFields

LEMMA PutAt ==
  ASSUME NEW S, NEW f \in Seq(S), NEW at \in Nat \ {0}, NEW b \in Seq(S)
  PROVE  /\ Put(f, at, b) \in Seq(S) /\ Len(Put(f, at, b)) = Len(f)
         /\ \A i \in 1..Len(f) : Put(f, at, b)[i]
              = IF i \in at..(at + Len(b) - 1) THEN b[i - at + 1] ELSE f[i]
<1>1. PICK n \in Nat, m \in Nat : n = Len(f) /\ DOMAIN f = 1..n /\ m = Len(b)
  BY LenProperties
<1>2. Put(f, at, b) = [i \in 1..n |-> IF i \in at..(at + m - 1) THEN b[i - at + 1] ELSE f[i]]
  BY <1>1 DEF Put
<1>3. \A i \in 1..n : f[i] \in S
  BY <1>1, ElementOfSeq
<1>4. \A i \in at..(at + m - 1) : b[i - at + 1] \in S
  <2>1. \A i \in at..(at + m - 1) : i - at + 1 \in 1..m
    OBVIOUS
  <2>. QED
    BY <1>1, <2>1, ElementOfSeq
<1>5. Put(f, at, b) \in [1..n -> S]
  BY <1>2, <1>3, <1>4
<1>6. Put(f, at, b) \in Seq(S) /\ Len(Put(f, at, b)) = n
  BY <1>5, FunctionIsSeq
<1>. QED
  BY <1>1, <1>2, <1>6

LEMMA FieldAt ==
  ASSUME NEW S, NEW f \in Seq(S), NEW at \in Nat \ {0}, NEW n \in Nat, at + n - 1 <= Len(f)
  PROVE  /\ Field(f, at, n) \in Seq(S) /\ Len(Field(f, at, n)) = n
         /\ \A i \in 1..n : Field(f, at, n)[i] = f[at + i - 1]
<1>1. Len(f) \in Nat
  BY LenProperties
<1>2. \A i \in at..(at + n - 1) : f[i] \in S
  <2>1. \A i \in at..(at + n - 1) : i \in 1..Len(f)
    BY <1>1
  <2>. QED
    BY <2>1, ElementOfSeq
<1>3. /\ Field(f, at, n) \in Seq(S)
      /\ Len(Field(f, at, n)) = IF at <= at + n - 1 THEN at + n - 1 - at + 1 ELSE 0
      /\ \A i \in 1..at + n - 1 - at + 1 : Field(f, at, n)[i] = f[at + i - 1]
  BY <1>2, SubSeqProperties DEF Field
<1>. QED
  BY <1>3

-----------------------------------------------------------------------------
(* Sums.                                                                   *)

\* f[i] is the sum of the first i pairs.
Sums(f, bytes, high, low, n) ==
    f = [i \in 0..n |-> IF i = 0 THEN 0 ELSE f[i - 1] + Pair(bytes, high, low, i)]

\* Sums that differ by carries.
Carried(s, t) == \E k \in Nat : s = t + 65535 * k

LEMMA SumsExist ==
  ASSUME NEW bytes, NEW high, NEW low
  PROVE  \A n \in Nat : \E f : Sums(f, bytes, high, low, n)
<1>. DEFINE good == {n \in Nat : \E f : Sums(f, bytes, high, low, n)}
<1>1. 0 \in good
  <2>1. Sums([i \in 0..0 |-> 0], bytes, high, low, 0)
    BY DEF Sums
  <2>. QED
    BY <2>1
<1>2. ASSUME NEW n \in Nat, n \in good
      PROVE  n + 1 \in good
  <2>1. PICK f : Sums(f, bytes, high, low, n)
    BY <1>2
  <2>. DEFINE g == [i \in 0..n + 1 |-> IF i = 0 THEN 0 ELSE f[i - 1] + Pair(bytes, high, low, i)]
  <2>2. \A i \in 0..n : g[i] = f[i]
    BY <2>1 DEF Sums
  <2>3. \A i \in 0..n + 1 : i # 0 => g[i - 1] = f[i - 1]
    <3>1. \A i \in 0..n + 1 : i # 0 => i - 1 \in 0..n
      OBVIOUS
    <3>. HIDE DEF g
    <3>. QED
      BY <2>2, <3>1
  <2>4. \A i \in 0..n + 1 : g[i] = IF i = 0 THEN 0 ELSE g[i - 1] + Pair(bytes, high, low, i)
    BY <2>3
  <2>. HIDE DEF g
  <2>5. g = [i \in 0..n + 1 |-> g[i]]
    BY DEF g
  <2>6. Sums(g, bytes, high, low, n + 1)
    BY <2>4, <2>5 DEF Sums
  <2>. QED
    BY <2>6
<1>. HIDE DEF good
<1>3. \A n \in Nat : n \in good
  BY <1>1, <1>2, Induction
<1>. QED
  BY <1>3 DEF good

\* Words of the network and words of the host.
Weights == {<<256, 1>>, <<1, 256>>}

Pairs(bytes) == (Len(bytes) + 1) \div 2

LEMMA ByteRange == \A x : x \in Byte <=> x \in Nat /\ x <= 255
<1>1. ASSUME NEW x \in Byte PROVE x \in Nat /\ x <= 255
  BY SMT DEF Byte
<1>2. ASSUME NEW x \in Nat, x <= 255 PROVE x \in Byte
  BY <1>2, SMT DEF Byte
<1>. QED
  BY <1>1, <1>2

LEMMA ByteNumbers ==
  ASSUME NEW bytes \in Seq(Byte)
  PROVE  \A k \in 1..Len(bytes) : bytes[k] \in Byte /\ bytes[k] \in Nat
<1>1. \A k \in 1..Len(bytes) : bytes[k] \in Byte
  BY ElementOfSeq
<1>2. \A b \in Byte : b \in Nat
  BY ByteRange
<1>. QED
  BY <1>1, <1>2

LEMMA PairType ==
  ASSUME NEW bytes \in Seq(Byte), NEW w \in Weights, NEW i \in 1..Pairs(bytes)
  PROVE  Pair(bytes, w[1], w[2], i) \in Nat
<1>1. Len(bytes) \in Nat
  BY LenProperties
<1>2. 2 * i - 1 \in 1..Len(bytes) /\ (2 * i <= Len(bytes) => 2 * i \in 1..Len(bytes))
  BY <1>1 DEF Pairs
<1>3. bytes[2 * i - 1] \in Nat /\ (2 * i <= Len(bytes) => bytes[2 * i] \in Nat)
  <2>1. \A k \in 1..Len(bytes) : bytes[k] \in Nat
    BY ByteNumbers
  <2>. QED
    BY <1>2, <2>1
<1>4. CASE w = <<256, 1>>
  BY <1>3, <1>4 DEF Pair
<1>5. CASE w = <<1, 256>>
  BY <1>3, <1>5 DEF Pair
<1>. QED
  BY <1>4, <1>5 DEF Weights

\* A sum is the last of the sums of the first pairs.
LEMMA SumChosen ==
  ASSUME NEW bytes \in Seq(Byte), NEW high, NEW low
  PROVE  \E f : Sums(f, bytes, high, low, Pairs(bytes)) /\ Sum(bytes, high, low) = f[Pairs(bytes)]
<1>1. Pairs(bytes) \in Nat
  BY LenProperties DEF Pairs
<1>. DEFINE f == CHOOSE f : f = [i \in 0..Pairs(bytes) |-> IF i = 0 THEN 0
                                   ELSE f[i - 1] + Pair(bytes, high, low, i)]
<1>2. Sums(f, bytes, high, low, Pairs(bytes))
  <2>1. \E g : Sums(g, bytes, high, low, Pairs(bytes))
    BY <1>1, SumsExist
  <2>. QED
    BY <2>1, Zenon DEF Sums
<1>3. Sum(bytes, high, low) = f[Pairs(bytes)]
  BY DEF Sum, Pairs
<1>. QED
  BY <1>2, <1>3

LEMMA SumSteps ==
  ASSUME NEW bytes \in Seq(Byte), NEW w \in Weights
  PROVE  \E f : /\ f \in [0..Pairs(bytes) -> Nat]
                /\ f[0] = 0
                /\ \A i \in 1..Pairs(bytes) : f[i] = f[i - 1] + Pair(bytes, w[1], w[2], i)
                /\ Sum(bytes, w[1], w[2]) = f[Pairs(bytes)]
<1>1. PICK p \in Nat : p = Pairs(bytes)
  BY LenProperties DEF Pairs
<1>2. PICK f : Sums(f, bytes, w[1], w[2], p) /\ Sum(bytes, w[1], w[2]) = f[p]
  BY <1>1, SumChosen
<1>4. f = [i \in 0..p |-> IF i = 0 THEN 0 ELSE f[i - 1] + Pair(bytes, w[1], w[2], i)]
  BY <1>2 DEF Sums
<1>5. f[0] = 0 /\ \A i \in 1..p : f[i] = f[i - 1] + Pair(bytes, w[1], w[2], i)
  <2>1. \A i \in 1..p : i \in 0..p /\ i # 0
    OBVIOUS
  <2>2. 0 \in 0..p
    OBVIOUS
  <2>. QED
    BY <1>4, <2>1, <2>2
<1>6. \A i \in 1..p : Pair(bytes, w[1], w[2], i) \in Nat
  BY <1>1, PairType
<1>7. \A i \in Nat : i <= p => f[i] \in Nat
  <2>. DEFINE good == {i \in Nat : i <= p => f[i] \in Nat}
  <2>1. 0 \in good
    BY <1>5
  <2>2. ASSUME NEW i \in Nat, i \in good
        PROVE  i + 1 \in good
    <3>. SUFFICES ASSUME i + 1 <= p
                  PROVE  f[i + 1] \in Nat
      OBVIOUS
    <3>1. i + 1 \in 1..p /\ i + 1 - 1 = i /\ f[i] \in Nat
      BY <2>2
    <3>2. f[i + 1] = f[i] + Pair(bytes, w[1], w[2], i + 1)
      BY <1>5, <3>1
    <3>. QED
      BY <1>6, <3>1, <3>2
  <2>. HIDE DEF good
  <2>3. \A i \in Nat : i \in good
    BY <2>1, <2>2, Induction
  <2>. QED
    BY <2>3 DEF good
<1>8. f \in [0..p -> Nat]
  BY <1>4, <1>7
<1>. QED
  BY <1>1, <1>2, <1>5, <1>8

LEMMA SumType ==
  ASSUME NEW bytes \in Seq(Byte), NEW w \in Weights
  PROVE  Sum(bytes, w[1], w[2]) \in Nat
<1>1. Pairs(bytes) \in Nat
  BY LenProperties DEF Pairs
<1>. QED
  BY <1>1, SumSteps

\* Turning the bytes of every word multiplies a sum by 256, but for carries.
LEMMA SumSwapped ==
  ASSUME NEW bytes \in Seq(Byte)
  PROVE  Carried(256 * Sum(bytes, 1, 256), Sum(bytes, 256, 1))
<1>1. PICK p \in Nat : p = Pairs(bytes)
  BY LenProperties DEF Pairs
<1>2. PICK f : /\ f \in [0..p -> Nat] /\ f[0] = 0 /\ Sum(bytes, 256, 1) = f[p]
               /\ \A i \in 1..p : f[i] = f[i - 1] + Pair(bytes, 256, 1, i)
  <2>1. <<256, 1>> \in Weights /\ <<256, 1>>[1] = 256 /\ <<256, 1>>[2] = 1
    BY DEF Weights
  <2>. QED
    BY <1>1, <2>1, SumSteps
<1>3. PICK g : /\ g \in [0..p -> Nat] /\ g[0] = 0 /\ Sum(bytes, 1, 256) = g[p]
               /\ \A i \in 1..p : g[i] = g[i - 1] + Pair(bytes, 1, 256, i)
  <2>1. <<1, 256>> \in Weights /\ <<1, 256>>[1] = 1 /\ <<1, 256>>[2] = 256
    BY DEF Weights
  <2>. QED
    BY <1>1, <2>1, SumSteps
<1>4. \A i \in 1..p : \E k \in Nat :
        256 * Pair(bytes, 1, 256, i) = Pair(bytes, 256, 1, i) + 65535 * k
  <2>1. TAKE i \in 1..p
  <2>2. Len(bytes) \in Nat
    BY LenProperties
  <2>3. 2 * i - 1 \in 1..Len(bytes) /\ (2 * i <= Len(bytes) => 2 * i \in 1..Len(bytes))
    BY <1>1, <2>2 DEF Pairs
  <2>4. bytes[2 * i - 1] \in Nat /\ (2 * i <= Len(bytes) => bytes[2 * i] \in Nat)
    <3>1. \A k \in 1..Len(bytes) : bytes[k] \in Nat
      BY ByteNumbers
    <3>. QED
      BY <2>3, <3>1
  <2>5. CASE 2 * i <= Len(bytes)
    <3>1. 256 * Pair(bytes, 1, 256, i) = Pair(bytes, 256, 1, i) + 65535 * bytes[2 * i]
      BY <2>4, <2>5 DEF Pair
    <3>. QED
      BY <2>4, <2>5, <3>1
  <2>6. CASE ~(2 * i <= Len(bytes))
    <3>1. 256 * Pair(bytes, 1, 256, i) = Pair(bytes, 256, 1, i) + 65535 * 0
      BY <2>4, <2>6 DEF Pair
    <3>. QED
      BY <3>1
  <2>. QED
    BY <2>5, <2>6
<1>5. \A i \in 1..p : Pair(bytes, 1, 256, i) \in Nat /\ Pair(bytes, 256, 1, i) \in Nat
  <2>1. /\ <<256, 1>> \in Weights /\ <<256, 1>>[1] = 256 /\ <<256, 1>>[2] = 1
        /\ <<1, 256>> \in Weights /\ <<1, 256>>[1] = 1 /\ <<1, 256>>[2] = 256
    BY DEF Weights
  <2>. QED
    BY <1>1, <2>1, PairType
<1>. DEFINE good == {i \in Nat : i <= p => \E k \in Nat : 256 * g[i] = f[i] + 65535 * k}
<1>6. 0 \in good
  BY <1>2, <1>3, SMTT(60)
<1>7. ASSUME NEW i \in Nat, i \in good
      PROVE  i + 1 \in good
  <2>. SUFFICES ASSUME i + 1 <= p
                PROVE  \E k \in Nat : 256 * g[i + 1] = f[i + 1] + 65535 * k
    OBVIOUS
  <2>1. i + 1 \in 1..p /\ i \in 0..p /\ i + 1 - 1 = i
    OBVIOUS
  <2>2. PICK k \in Nat : 256 * g[i] = f[i] + 65535 * k
    BY <1>7, <2>1
  <2>3. PICK m \in Nat : 256 * Pair(bytes, 1, 256, i + 1) = Pair(bytes, 256, 1, i + 1) + 65535 * m
    BY <1>4, <2>1
  <2>4. f[i] \in Nat /\ g[i] \in Nat
    BY <1>2, <1>3, <2>1
  <2>5. /\ f[i + 1] = f[i] + Pair(bytes, 256, 1, i + 1)
        /\ g[i + 1] = g[i] + Pair(bytes, 1, 256, i + 1)
    BY <1>2, <1>3, <2>1
  <2>6. PICK fi \in Nat, gi \in Nat, hi \in Nat, lo \in Nat :
          /\ fi = f[i] /\ gi = g[i]
          /\ hi = Pair(bytes, 256, 1, i + 1) /\ lo = Pair(bytes, 1, 256, i + 1)
    BY <1>5, <2>1, <2>4
  <2>7. 256 * (gi + lo) = (fi + hi) + 65535 * (k + m)
    <3>1. 256 * gi = fi + 65535 * k /\ 256 * lo = hi + 65535 * m
      BY <2>2, <2>3, <2>6
    <3>. QED
      BY <3>1
  <2>8. f[i + 1] = fi + hi /\ g[i + 1] = gi + lo
    BY <2>5, <2>6
  <2>9. k + m \in Nat
    OBVIOUS
  <2>. QED
    BY <2>7, <2>8, <2>9
<1>. HIDE DEF good
<1>8. \A i \in Nat : i \in good
  BY <1>6, <1>7, Induction
<1>9. \E k \in Nat : 256 * g[p] = f[p] + 65535 * k
  BY <1>8 DEF good
<1>. QED
  BY <1>2, <1>3, <1>9 DEF Carried

\* A sum changes with one pair by as much as the pair.
LEMMA SumChanged ==
  ASSUME NEW a \in Seq(Byte), NEW b \in Seq(Byte), NEW w \in Weights, Len(a) = Len(b),
         NEW n \in 1..Pairs(a),
         \A i \in 1..Len(a) : i \notin {2 * n - 1, 2 * n} => a[i] = b[i]
  PROVE  Sum(b, w[1], w[2]) - Pair(b, w[1], w[2], n) = Sum(a, w[1], w[2]) - Pair(a, w[1], w[2], n)
<1>1. PICK p \in Nat : p = Pairs(a) /\ p = Pairs(b) /\ n \in 1..p
  BY LenProperties DEF Pairs
<1>. DEFINE A(i) == Pair(a, w[1], w[2], i)
            B(i) == Pair(b, w[1], w[2], i)
<1>2. PICK f : /\ f \in [0..p -> Nat] /\ f[0] = 0 /\ Sum(a, w[1], w[2]) = f[p]
               /\ \A i \in 1..p : f[i] = f[i - 1] + Pair(a, w[1], w[2], i)
  <2>1. \E f : /\ f \in [0..Pairs(a) -> Nat] /\ f[0] = 0
               /\ \A i \in 1..Pairs(a) : f[i] = f[i - 1] + Pair(a, w[1], w[2], i)
               /\ Sum(a, w[1], w[2]) = f[Pairs(a)]
    BY SumSteps
  <2>. QED
    BY <1>1, <2>1
<1>3. PICK g : /\ g \in [0..p -> Nat] /\ g[0] = 0 /\ Sum(b, w[1], w[2]) = g[p]
               /\ \A i \in 1..p : g[i] = g[i - 1] + Pair(b, w[1], w[2], i)
  BY <1>1, SumSteps
<1>4. \A i \in 1..p : A(i) \in Nat /\ B(i) \in Nat
  BY <1>1, PairType
<1>5. \A i \in 1..p : i # n => A(i) = B(i)
  <2>1. SUFFICES ASSUME NEW i \in 1..p, i # n
                 PROVE  A(i) = B(i)
    OBVIOUS
  <2>2. PICK l \in Nat : l = Len(a) /\ l = Len(b)
    BY LenProperties
  <2>3. /\ 2 * i - 1 \in 1..l /\ 2 * i - 1 \notin {2 * n - 1, 2 * n}
        /\ 2 * i \notin {2 * n - 1, 2 * n} /\ (2 * i <= l => 2 * i \in 1..l)
    BY <1>1, <2>1, <2>2 DEF Pairs
  <2>4. a[2 * i - 1] = b[2 * i - 1] /\ (2 * i <= l => a[2 * i] = b[2 * i])
    BY <2>2, <2>3
  <2>. QED
    BY <2>2, <2>4 DEF Pair
<1>0. \A i \in 1..p : f[i] = f[i - 1] + A(i) /\ g[i] = g[i - 1] + B(i)
  BY <1>2, <1>3
<1>. HIDE DEF A, B
<1>. DEFINE good == {i \in Nat : i <= p => IF i < n THEN f[i] = g[i]
                                           ELSE g[i] - B(n) = f[i] - A(n)}
<1>6. 0 \in good
  BY <1>2, <1>3
<1>7. ASSUME NEW i \in Nat, i \in good
      PROVE  i + 1 \in good
  <2>. SUFFICES ASSUME i + 1 <= p
                PROVE  IF i + 1 < n THEN f[i + 1] = g[i + 1] ELSE g[i + 1] - B(n) = f[i + 1] - A(n)
    OBVIOUS
  <2>1. i + 1 \in 1..p /\ i \in 0..p /\ i + 1 - 1 = i
    OBVIOUS
  <2>2. f[i] \in Nat /\ g[i] \in Nat /\ A(i + 1) \in Nat /\ B(i + 1) \in Nat
        /\ A(n) \in Nat /\ B(n) \in Nat
    BY <1>1, <1>2, <1>3, <1>4, <2>1
  <2>3. f[i + 1] = f[i] + A(i + 1) /\ g[i + 1] = g[i] + B(i + 1)
    BY <1>0, <2>1
  <2>4. IF i < n THEN f[i] = g[i] ELSE g[i] - B(n) = f[i] - A(n)
    BY <1>7, <2>1
  <2>5. CASE i + 1 = n
    BY <2>2, <2>3, <2>4, <2>5
  <2>6. CASE i + 1 # n
    <3>1. A(i + 1) = B(i + 1)
      BY <1>5, <2>1, <2>6
    <3>2. PICK fi \in Nat, gi \in Nat, x \in Nat :
            fi = f[i] /\ gi = g[i] /\ x = A(i + 1) /\ x = B(i + 1)
      BY <2>2, <3>1
    <3>3. f[i + 1] = fi + x /\ g[i + 1] = gi + x
      BY <2>3, <3>2
    <3>4. CASE i + 1 < n
      <4>1. fi = gi
        BY <2>4, <3>2, <3>4
      <4>. QED
        BY <3>3, <3>4, <4>1
    <3>5. CASE ~(i + 1 < n)
      <4>1. ~(i < n)
        BY <2>6, <3>5
      <4>2. PICK y \in Nat, z \in Nat : y = A(n) /\ z = B(n)
        BY <2>2
      <4>3. gi - z = fi - y
        BY <2>4, <3>2, <4>1, <4>2
      <4>4. gi + x - z = fi + x - y
        BY <4>3
      <4>. QED
        BY <3>3, <3>5, <4>2, <4>4
    <3>. QED
      BY <3>4, <3>5
  <2>. QED
    BY <2>5, <2>6
<1>. HIDE DEF good
<1>8. \A i \in Nat : i \in good
  BY <1>6, <1>7, Induction
<1>9. g[p] - B(n) = f[p] - A(n)
  BY <1>1, <1>8 DEF good
<1>. QED
  BY <1>2, <1>3, <1>9 DEF A, B

-----------------------------------------------------------------------------
(* The bytes a step leaves alone.                                          *)

SameBut(f, g, places) ==
    /\ f \in Seq(Byte) /\ g \in Seq(Byte) /\ Len(g) = Len(f)
    /\ \A i \in 1..Len(f) : i \notin places => g[i] = f[i]

LEMMA SameSelf ==
  ASSUME NEW f \in Seq(Byte), NEW P
  PROVE  SameBut(f, f, P)
BY DEF SameBut

LEMMA SameMore ==
  ASSUME NEW f, NEW g, NEW P, NEW Q, SameBut(f, g, P), P \subseteq Q
  PROVE  SameBut(f, g, Q)
BY DEF SameBut

LEMMA SameTwice ==
  ASSUME NEW f, NEW g, NEW h, NEW P, NEW Q, SameBut(f, g, P), SameBut(g, h, Q)
  PROVE  SameBut(f, h, P \cup Q)
BY DEF SameBut

LEMMA PutSame ==
  ASSUME NEW f \in Seq(Byte), NEW at \in Nat \ {0}, NEW b \in Seq(Byte), NEW n \in Nat, n = Len(b)
  PROVE  /\ SameBut(f, Put(f, at, b), at..(at + n - 1))
         /\ at + n - 1 <= Len(f) => Field(Put(f, at, b), at, n) = b
<1>1. PICK l \in Nat : l = Len(f)
  BY LenProperties
<1>2. /\ Put(f, at, b) \in Seq(Byte) /\ Len(Put(f, at, b)) = l
      /\ \A i \in 1..l : Put(f, at, b)[i]
              = IF i \in at..(at + n - 1) THEN b[i - at + 1] ELSE f[i]
  BY <1>1, PutAt
<1>3. SameBut(f, Put(f, at, b), at..(at + n - 1))
  BY <1>1, <1>2 DEF SameBut
<1>4. ASSUME at + n - 1 <= l
      PROVE  Field(Put(f, at, b), at, n) = b
  <2>1. /\ Field(Put(f, at, b), at, n) \in Seq(Byte) /\ Len(Field(Put(f, at, b), at, n)) = n
        /\ \A i \in 1..n : Field(Put(f, at, b), at, n)[i] = Put(f, at, b)[at + i - 1]
    BY <1>2, <1>4, FieldAt
  <2>2. \A i \in 1..n : at + i - 1 \in 1..l /\ at + i - 1 \in at..(at + n - 1)
                         /\ at + i - 1 - at + 1 = i
    BY <1>4
  <2>3. \A i \in 1..n : Put(f, at, b)[at + i - 1] = b[i]
    BY <1>2, <2>2
  <2>. QED
    BY <2>1, <2>3, SeqEqual
<1>. QED
  BY <1>1, <1>3, <1>4

LEMMA FieldSame ==
  ASSUME NEW f, NEW g, NEW P, SameBut(f, g, P), NEW at \in Nat \ {0}, NEW n \in Nat,
         at + n - 1 <= Len(f), \A i \in at..(at + n - 1) : i \notin P
  PROVE  Field(g, at, n) = Field(f, at, n)
<1>1. f \in Seq(Byte) /\ g \in Seq(Byte)
  BY DEF SameBut
<1>2. PICK l \in Nat : l = Len(f) /\ l = Len(g)
  BY <1>1, LenProperties DEF SameBut
<1>3. /\ Field(f, at, n) \in Seq(Byte) /\ Len(Field(f, at, n)) = n
      /\ \A i \in 1..n : Field(f, at, n)[i] = f[at + i - 1]
  BY <1>1, FieldAt
<1>4. /\ Field(g, at, n) \in Seq(Byte) /\ Len(Field(g, at, n)) = n
      /\ \A i \in 1..n : Field(g, at, n)[i] = g[at + i - 1]
  BY <1>1, <1>2, FieldAt
<1>5. \A i \in 1..n : g[at + i - 1] = f[at + i - 1]
  <2>1. \A i \in 1..n : at + i - 1 \in 1..l /\ at + i - 1 \in at..(at + n - 1)
    BY <1>2
  <2>. QED
    BY <1>2, <2>1 DEF SameBut
<1>. QED
  BY <1>3, <1>4, <1>5, SeqEqual

-----------------------------------------------------------------------------
(* Numbers in two bytes.                                                   *)

LEMMA Halves ==
  ASSUME NEW n \in Nat
  PROVE  /\ (n % 65536) \div 256 \in Nat /\ (n % 65536) \div 256 <= 255
         /\ n % 256 \in Nat /\ n % 256 <= 255
         /\ 256 * ((n % 65536) \div 256) + (n % 256) = n % 65536
BY SMT

LEMMA Uint16 ==
  ASSUME NEW n \in Nat
  PROVE  uint16(n) \in Seq(Byte) /\ Len(uint16(n)) = 2
<1>1. PICK h \in Byte, l \in Byte : h = (n % 65536) \div 256 /\ l = n % 256
  BY Halves, ByteRange, SMT
<1>2. uint16(n) = <<h, l>>
  BY <1>1, SMT DEF uint16
<1>. QED
  BY <1>2

LEMMA Uint16Bytes ==
  ASSUME NEW n \in Nat
  PROVE  uint16(n)[1] = (n % 65536) \div 256 /\ uint16(n)[2] = n % 256
BY SMT DEF uint16

LEMMA Uint16Word ==
  ASSUME NEW n \in Nat
  PROVE  Word(uint16(n)) = n % 65536
<1>1. 256 * ((n % 65536) \div 256) + (n % 256) = n % 65536
  BY Halves, SMT
<1>. QED
  BY <1>1, SMT DEF uint16, Word

LEMMA WordAt ==
  ASSUME NEW f \in Seq(Byte), NEW at \in Nat \ {0}, at + 1 <= Len(f)
  PROVE  /\ Word(load_endian(Field(f, at, 2))) = 256 * f[at] + f[at + 1]
         /\ f[at] \in Byte /\ f[at + 1] \in Byte
         /\ Word(load_endian(Field(f, at, 2))) \in Nat
         /\ Word(load_endian(Field(f, at, 2))) <= 65535
<1>1. PICK l \in Nat : l = Len(f)
  BY LenProperties
<1>2. /\ Field(f, at, 2) \in Seq(Byte) /\ Len(Field(f, at, 2)) = 2
      /\ \A i \in 1..2 : Field(f, at, 2)[i] = f[at + i - 1]
  <2>1. PICK n \in Nat : n = 2 /\ at + n - 1 <= Len(f)
    BY <1>1
  <2>2. /\ Field(f, at, n) \in Seq(Byte) /\ Len(Field(f, at, n)) = n
        /\ \A i \in 1..n : Field(f, at, n)[i] = f[at + i - 1]
    BY <2>1, FieldAt
  <2>. QED
    BY <2>1, <2>2
<1>3. Field(f, at, 2)[1] = f[at] /\ Field(f, at, 2)[2] = f[at + 1]
  <2>1. at + 1 - 1 = at /\ at + 2 - 1 = at + 1
    OBVIOUS
  <2>. QED
    BY <1>2, <2>1
<1>4. f[at] \in Byte /\ f[at + 1] \in Byte
  <2>1. at \in 1..l /\ at + 1 \in 1..l
    BY <1>1
  <2>. QED
    BY <1>1, <2>1, ByteNumbers
<1>5. Word(load_endian(Field(f, at, 2))) = 256 * f[at] + f[at + 1]
  BY <1>2, <1>3, EndianFields DEF Word
<1>6. 256 * f[at] + f[at + 1] \in Nat /\ 256 * f[at] + f[at + 1] <= 65535
  <2>1. PICK x \in Nat, y \in Nat : x = f[at] /\ y = f[at + 1] /\ x <= 255 /\ y <= 255
    BY <1>4, ByteRange
  <2>2. 256 * x + y \in Nat /\ 256 * x + y <= 65535
    BY <2>1, SMTT(60)
  <2>. QED
    BY <2>1, <2>2, SMT
<1>. QED
  BY <1>4, <1>5, <1>6, SMT

LEMMA PutWord ==
  ASSUME NEW f \in Seq(Byte), NEW at \in Nat \ {0}, at + 1 <= Len(f), NEW n \in Nat
  PROVE  /\ SameBut(f, Put(f, at, save_endian(uint16(n))), at..at + 1)
         /\ Word(load_endian(Field(Put(f, at, save_endian(uint16(n))), at, 2))) = Word(uint16(n))
         /\ Field(Put(f, at, save_endian(uint16(n))), at, 2) = uint16(n)
<1>1. PICK b \in Seq(Byte) : b = uint16(n) /\ Len(b) = 2
  BY Uint16
<1>2. save_endian(b) = b /\ load_endian(b) = b
  BY EndianFields
<1>3. SameBut(f, Put(f, at, b), at..at + 1) /\ Field(Put(f, at, b), at, 2) = b
  <2>1. PICK m \in Nat : m = 2 /\ m = Len(b) /\ at + m - 1 = at + 1 /\ at + m - 1 <= Len(f)
    BY <1>1, LenProperties
  <2>2. SameBut(f, Put(f, at, b), at..(at + m - 1)) /\ Field(Put(f, at, b), at, m) = b
    BY <2>1, PutSame
  <2>. QED
    BY <2>1, <2>2
<1>. QED
  BY <1>1, <1>2, <1>3

-----------------------------------------------------------------------------
(* The sum of one's complement.                                            *)

\* The loop of the carries ends with at most 16 bits, and takes away 65535 at
\* a time.
LEMMA Carry ==
  ASSUME NEW n \in Nat
  PROVE  \E q \in Nat, r \in Nat : /\ r <= 65535 /\ n = 65536 * q + r
                                   /\ n \div 65536 = q /\ n % 65536 = r
BY SMT

LEMMA FoldValue ==
  ASSUME NEW s \in Nat
  PROVE  /\ Fold(s) \in Nat /\ Fold(s) <= 65535
         /\ Carried(s, Fold(s))
<1>. DEFINE next(n) == (n % 65536) + (n \div 65536)
            Carries(g) == g = [n \in Nat |-> IF n < 65536 THEN n ELSE g[next(n)]]
            f == CHOOSE g : Carries(g)
<1>1. \A n \in Nat : next(n) \in Nat
  BY Carry, SMT
<1>2. ASSUME NEW n \in Nat, ~(n < 65536)
      PROVE  \E q \in Nat : q >= 1 /\ n = next(n) + 65535 * q /\ next(n) < n /\ next(n) >= 1
  <2>1. PICK q \in Nat, r \in Nat : /\ r <= 65535 /\ n = 65536 * q + r
                                    /\ n \div 65536 = q /\ n % 65536 = r
    BY Carry
  <2>2. next(n) = r + q
    BY <2>1, SMT
  <2>. HIDE DEF next
  <2>3. q >= 1
    BY <1>2, <2>1, SMT
  <2>4. n = (r + q) + 65535 * q /\ r + q < n /\ r + q >= 1
    BY <2>1, <2>3, SMT
  <2>. QED
    BY <2>2, <2>3, <2>4, SMT
<1>. HIDE DEF next
<1>3. \E g : Carries(g)
  <2>. DEFINE value(n) == IF n = 0 THEN 0 ELSE ((n - 1) % 65535) + 1
              g == [n \in Nat |-> value(n)]
  <2>1. \A n \in Nat : n < 65536 => value(n) = n
    BY SMT
  <2>2. \A n \in Nat : ~(n < 65536) => value(next(n)) = value(n)
    <3>1. SUFFICES ASSUME NEW n \in Nat, ~(n < 65536)
                   PROVE  value(next(n)) = value(n)
      OBVIOUS
    <3>2. PICK q \in Nat, t \in Nat : t = next(n) /\ n = t + 65535 * q /\ t # 0
      BY <1>1, <1>2, <3>1, SMTT(60)
    <3>3. n # 0
      BY <3>1, SMT
    <3>4. (n - 1) % 65535 = (t - 1) % 65535
      BY <3>2, SMT
    <3>. QED
      BY <3>2, <3>3, <3>4, SMT
  <2>. HIDE DEF value
  <2>3. \A n \in Nat : g[n] = IF n < 65536 THEN n ELSE g[next(n)]
    BY <1>1, <2>1, <2>2, SMT
  <2>4. g = [n \in Nat |-> g[n]]
    OBVIOUS
  <2>. HIDE DEF g
  <2>5. Carries(g)
    BY <2>3, <2>4, SMT
  <2>. QED
    BY <2>5, SMT
<1>4. Fold(s) = f[s]
  BY SMT DEF Fold, next
<1>5. Carries(f)
  <2>. HIDE DEF Carries
  <2>. QED
    BY <1>3, Zenon
<1>. HIDE DEF f
<1>6. \A n \in Nat : f[n] = IF n < 65536 THEN n ELSE f[next(n)]
  BY <1>5, SMT
<1>. HIDE DEF Carries
<1>. DEFINE right(n) == f[n] \in Nat /\ f[n] <= 65535 /\ \E k \in Nat : n = f[n] + 65535 * k
            good == {m \in Nat : \A n \in 0..m : right(n)}
<1>7. 0 \in good
  <2>1. f[0] = 0 /\ 0 = 0 + 65535 * 0
    BY <1>6, SMT
  <2>2. right(0)
    BY <2>1, SMT
  <2>. HIDE DEF right
  <2>. QED
    BY <2>2, SMT
<1>8. ASSUME NEW m \in Nat, m \in good
      PROVE  m + 1 \in good
  <2>1. right(m + 1)
    <3>1. CASE m + 1 < 65536
      <4>1. f[m + 1] = m + 1 /\ m + 1 = m + 1 + 65535 * 0
        BY <1>6, <3>1, SMT
      <4>. QED
        BY <3>1, <4>1, SMT
    <3>2. CASE ~(m + 1 < 65536)
      <4>1. PICK q \in Nat : m + 1 = next(m + 1) + 65535 * q /\ next(m + 1) < m + 1
        BY <1>2, <3>2
      <4>2. PICK t \in Nat : t = next(m + 1) /\ t \in 0..m
        BY <1>1, <4>1, SMT
      <4>3. f[m + 1] = f[t]
        BY <1>6, <3>2, <4>2, SMT
      <4>4. right(t)
        <5>. HIDE DEF right
        <5>. QED
          BY <1>8, <4>2
      <4>5. PICK v \in Nat, k \in Nat : v = f[t] /\ v <= 65535 /\ t = v + 65535 * k
        BY <4>4, SMT
      <4>6. m + 1 = v + 65535 * (k + q) /\ k + q \in Nat
        BY <4>1, <4>2, <4>5, SMT
      <4>. QED
        BY <4>3, <4>5, <4>6, SMT
    <3>. QED
      BY <3>1, <3>2
  <2>. HIDE DEF right
  <2>2. \A n \in 0..m + 1 : n \in 0..m \/ n = m + 1
    OBVIOUS
  <2>. QED
    BY <1>8, <2>1, <2>2
<1>. HIDE DEF good, right
<1>9. \A m \in Nat : m \in good
  BY <1>7, <1>8, Induction
<1>10. right(s)
  <2>1. s \in good /\ s \in 0..s
    BY <1>9
  <2>. QED
    BY <2>1 DEF good
<1>. QED
  BY <1>4, <1>10, SMT DEF right, Carried

\* What a sum lacks to be balanced.
LEMMA Complement ==
  ASSUME NEW s \in Nat
  PROVE  /\ 65535 - Fold(s) \in Nat /\ 65535 - Fold(s) <= 65535
         /\ Balanced(s + (65535 - Fold(s)))
<1>0. PICK v \in Nat : v = Fold(s) /\ v <= 65535
  <2>1. Fold(s) \in Nat /\ Fold(s) <= 65535
    BY FoldValue, SMT
  <2>. QED
    BY <2>1, SMT
<1>1. PICK k \in Nat : s = v + 65535 * k
  <2>1. Carried(s, v)
    BY <1>0, FoldValue
  <2>. QED
    BY <2>1, SMT DEF Carried
<1>2. s + (65535 - v) = 65535 * (k + 1)
  BY <1>0, <1>1, SMT
<1>3. (65535 * (k + 1)) % 65535 = 0
  BY SMT
<1>4. 65535 - v \in Nat /\ 65535 - v <= 65535
  BY <1>0, SMT
<1>. QED
  BY <1>0, <1>2, <1>3, <1>4, SMT DEF Balanced

LEMMA Multiple ==
  ASSUME NEW t \in Nat, NEW k \in Int, t = 65535 * k
  PROVE  Balanced(t)
BY SMT DEF Balanced

LEMMA BalancedIs ==
  ASSUME NEW t \in Nat, Balanced(t)
  PROVE  \E k \in Nat : t = 65535 * k
<1>1. t % 65535 = 0
  BY SMT DEF Balanced
<1>2. t = 65535 * (t \div 65535) /\ t \div 65535 \in Nat
  BY <1>1, SMT
<1>. QED
  BY <1>2, SMT

\* A receiver may read the words in either order.
LEMMA BalancedSwapped ==
  ASSUME NEW bytes \in Seq(Byte), Balanced(Sum(bytes, 1, 256))
  PROVE  Balanced(Sum(bytes, 256, 1))
<1>1. PICK s \in Nat, t \in Nat : s = Sum(bytes, 1, 256) /\ t = Sum(bytes, 256, 1)
  <2>1. /\ <<256, 1>> \in Weights /\ <<256, 1>>[1] = 256 /\ <<256, 1>>[2] = 1
        /\ <<1, 256>> \in Weights /\ <<1, 256>>[1] = 1 /\ <<1, 256>>[2] = 256
    BY DEF Weights
  <2>. QED
    BY <2>1, SumType
<1>2. PICK j \in Nat : s = 65535 * j
  <2>1. Balanced(s)
    BY <1>1
  <2>. QED
    BY <2>1, BalancedIs
<1>3. PICK k \in Nat : 256 * s = t + 65535 * k
  <2>1. Carried(256 * s, t)
    BY <1>1, SumSwapped
  <2>. QED
    BY <2>1, SMTT(60) DEF Carried
<1>4. t = 65535 * (256 * j - k)
  BY <1>2, <1>3, SMT
<1>5. Balanced(t)
  BY <1>4, SMT DEF Balanced
<1>. QED
  BY <1>1, <1>5

\* A word where there was zero is added to a sum.
LEMMA SumFilled ==
  ASSUME NEW a, NEW b, NEW w \in Weights, NEW n \in Nat \ {0}, SameBut(a, b, {2 * n - 1, 2 * n}),
         2 * n <= Len(a), a[2 * n - 1] = 0, a[2 * n] = 0
  PROVE  Sum(b, w[1], w[2]) = Sum(a, w[1], w[2]) + (w[1] * b[2 * n - 1] + w[2] * b[2 * n])
<1>1. /\ a \in Seq(Byte) /\ b \in Seq(Byte) /\ Len(a) = Len(b)
      /\ \A i \in 1..Len(a) : i \notin {2 * n - 1, 2 * n} => a[i] = b[i]
  BY DEF SameBut
<1>2. n \in 1..Pairs(a) /\ n \in 1..Pairs(b)
  BY <1>1, LenProperties DEF Pairs
<1>3. Sum(b, w[1], w[2]) - Pair(b, w[1], w[2], n) = Sum(a, w[1], w[2]) - Pair(a, w[1], w[2], n)
  BY <1>1, <1>2, SumChanged
<1>4. Pair(b, w[1], w[2], n) = w[1] * b[2 * n - 1] + w[2] * b[2 * n]
  BY <1>1 DEF Pair
<1>5. Pair(a, w[1], w[2], n) = 0
  <2>1. w[1] \in Nat /\ w[2] \in Nat
    BY DEF Weights
  <2>. QED
    BY <2>1 DEF Pair
<1>6. PICK s \in Nat, t \in Nat, u \in Nat :
        s = Sum(b, w[1], w[2]) /\ t = Sum(a, w[1], w[2]) /\ u = Pair(b, w[1], w[2], n)
  BY <1>1, <1>2, SumType, PairType
<1>7. s - u = t - 0
  BY <1>3, <1>5, <1>6
<1>8. s = t + u
  BY <1>7
<1>. QED
  BY <1>4, <1>6, <1>8

-----------------------------------------------------------------------------
(* The checksum of a header.                                               *)

HeaderRight(frame) ==
    IF get_length(frame) = sizeof_ipv4_header_t
      THEN Balanced(sum16_bits(IpHeader(frame)))
      ELSE Field(frame, HeaderChecksum, 2) = <<0, 0>>

LEMMA Turned ==
  ASSUME NEW n \in Nat, n <= 65535
  PROVE  /\ save_endian(to_rev(uint16(n))) \in Seq(Byte)
         /\ Len(save_endian(to_rev(uint16(n)))) = 2
         /\ 1 * save_endian(to_rev(uint16(n)))[1] + 256 * save_endian(to_rev(uint16(n)))[2] = n
<1>1. PICK b \in Seq(Byte) : b = uint16(n) /\ Len(b) = 2
  BY Uint16
<1>2. /\ Reverse(b) \in Seq(Byte) /\ Len(Reverse(b)) = 2
      /\ Reverse(b)[1] = b[2] /\ Reverse(b)[2] = b[1]
  <2>1. /\ Reverse(b) \in Seq(Byte) /\ Len(Reverse(b)) = 2
        /\ \A i \in 1..2 : Reverse(b)[i] = b[2 + 1 - i]
    BY <1>1, ReverseAt
  <2>. QED
    BY <2>1
<1>3. save_endian(to_rev(b)) = Reverse(b)
  BY <1>2, EndianFields DEF to_rev, Memory
<1>4. 1 * b[2] + 256 * b[1] = n
  <2>1. n % 65536 = n
    BY SMT
  <2>2. 256 * ((n % 65536) \div 256) + (n % 256) = n
    BY <2>1, Halves, SMT
  <2>. QED
    BY <1>1, <2>2, Halves, SMT DEF uint16
<1>. QED
  BY <1>1, <1>2, <1>3, <1>4

LEMMA FieldEqual ==
  ASSUME NEW f \in Seq(Byte), NEW g \in Seq(Byte), NEW at \in Nat \ {0}, NEW n \in Nat,
         at + n - 1 <= Len(f), at + n - 1 <= Len(g), \A i \in at..(at + n - 1) : g[i] = f[i]
  PROVE  Field(g, at, n) = Field(f, at, n)
<1>1. /\ Field(f, at, n) \in Seq(Byte) /\ Len(Field(f, at, n)) = n
      /\ \A i \in 1..n : Field(f, at, n)[i] = f[at + i - 1]
  BY FieldAt
<1>2. /\ Field(g, at, n) \in Seq(Byte) /\ Len(Field(g, at, n)) = n
      /\ \A i \in 1..n : Field(g, at, n)[i] = g[at + i - 1]
  BY FieldAt
<1>3. \A i \in 1..n : at + i - 1 \in at..(at + n - 1)
  OBVIOUS
<1>. QED
  BY <1>1, <1>2, <1>3, SeqEqual

\* What frames with the same bytes in their headers have in common.
LEMMA HeaderEqual ==
  ASSUME NEW f \in Seq(Byte), NEW g \in Seq(Byte), Len(f) >= 34, Len(g) >= 34,
         \A i \in Nat : 15 <= i /\ i <= 34 => g[i] = f[i]
  PROVE  /\ IpHeader(g) = IpHeader(f) /\ get_length(g) = get_length(f)
         /\ packet_length(g) = packet_length(f) /\ payload_length(g) = payload_length(f)
         /\ upper_protocol(g) = upper_protocol(f) /\ Addresses(g) = Addresses(f)
         /\ HeaderRight(f) => HeaderRight(g)
<1>1. PICK l \in Nat, k \in Nat : l = Len(f) /\ l >= 34 /\ k = Len(g) /\ k >= 34
  BY LenProperties
<1>2. \A at \in Nat \ {0}, n \in Nat : 15 <= at /\ at + n - 1 <= 34 => Field(g, at, n) = Field(f, at, n)
  <2>1. TAKE at \in Nat \ {0}, n \in Nat
  <2>2. HAVE 15 <= at /\ at + n - 1 <= 34
  <2>3. at + n - 1 <= Len(f) /\ at + n - 1 <= Len(g) /\ \A i \in at..(at + n - 1) : g[i] = f[i]
    BY <1>1, <2>2
  <2>. QED
    BY <2>3, FieldEqual
<1>3. g[15] = f[15] /\ g[24] = f[24]
  OBVIOUS
<1>4. get_length(g) = get_length(f) /\ upper_protocol(g) = upper_protocol(f)
  BY <1>3 DEF get_length, upper_protocol, VersionIhl, UpperProtocol, eth_length
<1>5. /\ IpHeader(g) = IpHeader(f) /\ Field(g, 17, 2) = Field(f, 17, 2)
      /\ Field(g, 25, 2) = Field(f, 25, 2) /\ Field(g, 27, 8) = Field(f, 27, 8)
  <2>1. /\ Field(g, 15, 20) = Field(f, 15, 20) /\ Field(g, 17, 2) = Field(f, 17, 2)
        /\ Field(g, 25, 2) = Field(f, 25, 2) /\ Field(g, 27, 8) = Field(f, 27, 8)
    BY <1>2
  <2>. QED
    BY <2>1 DEF IpHeader, VersionIhl, eth_length, sizeof_ipv4_header_t
<1>6. packet_length(g) = packet_length(f)
  BY <1>5 DEF packet_length, PacketLength, eth_length
<1>7. payload_length(g) = payload_length(f)
  BY <1>4, <1>6, SMT DEF payload_length
<1>8. Addresses(g) = Addresses(f) /\ Field(g, HeaderChecksum, 2) = Field(f, HeaderChecksum, 2)
  BY <1>5 DEF Addresses, SourceAddress, HeaderChecksum, eth_length
<1>9. HeaderRight(f) => HeaderRight(g)
  BY <1>4, <1>5, <1>8, Zenon DEF HeaderRight
<1>. QED
  BY <1>4, <1>5, <1>6, <1>7, <1>8, <1>9, Zenon

LEMMA HeaderSame ==
  ASSUME NEW f, NEW g, NEW P, SameBut(f, g, P), Len(f) >= 34,
         \A i \in Nat : 15 <= i /\ i <= 34 => i \notin P
  PROVE  /\ IpHeader(g) = IpHeader(f) /\ get_length(g) = get_length(f)
         /\ packet_length(g) = packet_length(f) /\ payload_length(g) = payload_length(f)
         /\ upper_protocol(g) = upper_protocol(f) /\ Addresses(g) = Addresses(f)
         /\ HeaderRight(f) => HeaderRight(g)
<1>1. PICK l \in Nat : l = Len(f) /\ l >= 34
  BY LenProperties DEF SameBut
<1>2. f \in Seq(Byte) /\ g \in Seq(Byte) /\ Len(g) >= 34
  BY DEF SameBut
<1>3. \A i \in Nat : 15 <= i /\ i <= 34 => g[i] = f[i]
  BY <1>1 DEF SameBut
<1>. QED
  BY <1>2, <1>3, HeaderEqual

LEMMA HeaderFixed ==
  ASSUME NEW f \in Seq(Byte), Len(f) >= 34
  PROVE  SameBut(f, fix_header_checksum(f), 25..26) /\ HeaderRight(fix_header_checksum(f))
<1>. DEFINE cleared == Put(f, HeaderChecksum, <<0, 0>>)
            sum == Sum(IpHeader(cleared), 1, 256)
            written == save_endian(to_rev(uint16(calc(IpHeader(cleared)))))
            filled == Put(f, HeaderChecksum, written)
<1>0. PICK l \in Nat : l = Len(f) /\ l >= 34
  BY LenProperties
<1>1. HeaderChecksum = 25
  BY DEF HeaderChecksum, eth_length
<1>2. ASSUME NEW b \in Seq(Byte), Len(b) = 2
      PROVE  /\ SameBut(f, Put(f, 25, b), 25..26)
             /\ Field(Put(f, 25, b), 25, 2) = b
             /\ Len(Put(f, 25, b)) = l
             /\ Put(f, 25, b)[25] = b[1] /\ Put(f, 25, b)[26] = b[2]
             /\ get_length(Put(f, 25, b)) = get_length(f)
  <2>1. PICK at \in Nat \ {0}, n \in Nat : at = 25 /\ n = 2 /\ at + n - 1 = 26 /\ at + n - 1 <= l
    BY <1>0
  <2>2. /\ SameBut(f, Put(f, at, b), at..(at + n - 1))
        /\ at + n - 1 <= Len(f) => Field(Put(f, at, b), at, n) = b
    BY <1>2, <2>1, PutSame
  <2>3. SameBut(f, Put(f, 25, b), 25..26) /\ Field(Put(f, 25, b), 25, 2) = b
    BY <1>0, <2>1, <2>2
  <2>4. Put(f, 25, b)[15] = f[15]
    BY <1>0, <2>3 DEF SameBut
  <2>5. get_length(Put(f, 25, b)) = get_length(f)
    BY <2>4 DEF get_length, VersionIhl, eth_length
  <2>6. \A i \in 1..l : Put(f, at, b)[i] = IF i \in at..(at + n - 1) THEN b[i - at + 1] ELSE f[i]
    <3>1. \A i \in 1..Len(f) : Put(f, at, b)[i]
              = IF i \in at..(at + Len(b) - 1) THEN b[i - at + 1] ELSE f[i]
      BY PutAt
    <3>. QED
      BY <1>0, <1>2, <2>1, <3>1
  <2>7. Put(f, 25, b)[25] = b[1] /\ Put(f, 25, b)[26] = b[2]
    BY <1>0, <2>1, <2>6
  <2>. QED
    BY <1>0, <2>3, <2>5, <2>7 DEF SameBut
<1>3. <<0, 0>> \in Seq(Byte) /\ Len(<<0, 0>>) = 2 /\ <<0, 0>>[1] = 0 /\ <<0, 0>>[2] = 0
  BY ByteRange
<1>4. /\ SameBut(f, cleared, 25..26) /\ Field(cleared, 25, 2) = <<0, 0>>
      /\ Len(cleared) = l /\ cleared[25] = 0 /\ cleared[26] = 0
      /\ get_length(cleared) = get_length(f)
  BY <1>1, <1>2, <1>3
<1>5. CASE get_length(f) # sizeof_ipv4_header_t
  BY <1>1, <1>4, <1>5 DEF fix_header_checksum, HeaderRight
<1>6. CASE get_length(f) = sizeof_ipv4_header_t
  <2>1. \A g : SameBut(f, g, 25..26) =>
          /\ IpHeader(g) \in Seq(Byte) /\ Len(IpHeader(g)) = 20
          /\ \A i \in Nat : 1 <= i /\ i <= 20 => IpHeader(g)[i] = g[14 + i]
    <3>1. TAKE g
    <3>2. HAVE SameBut(f, g, 25..26)
    <3>3. PICK at \in Nat \ {0}, n \in Nat : at = 15 /\ n = 20
      OBVIOUS
    <3>6. g \in Seq(Byte) /\ at + n - 1 <= Len(g)
      BY <1>0, <3>2, <3>3 DEF SameBut
    <3>4. /\ Field(g, at, n) \in Seq(Byte) /\ Len(Field(g, at, n)) = n
          /\ \A i \in 1..n : Field(g, at, n)[i] = g[at + i - 1]
      BY <3>6, FieldAt
    <3>5. IpHeader(g) = Field(g, at, n)
      BY <3>3 DEF IpHeader, VersionIhl, eth_length, sizeof_ipv4_header_t
    <3>7. \A i \in Nat : 1 <= i /\ i <= 20 => i \in 1..n /\ at + i - 1 = 14 + i
      BY <3>3
    <3>8. \A i \in Nat : 1 <= i /\ i <= 20 => Field(g, at, n)[i] = g[14 + i]
      BY <3>4, <3>7
    <3>. QED
      BY <3>3, <3>4, <3>5, <3>8
  <2>2. sum \in Nat
    <3>1. /\ <<1, 256>> \in Weights /\ <<1, 256>>[1] = 1 /\ <<1, 256>>[2] = 256
      BY DEF Weights
    <3>2. IpHeader(cleared) \in Seq(Byte)
      BY <1>4, <2>1
    <3>. QED
      BY <3>1, <3>2, SumType
  <2>3. PICK c \in Nat : c = calc(IpHeader(cleared)) /\ c <= 65535 /\ Balanced(sum + c)
    <3>. HIDE DEF cleared
    <3>1. calc(IpHeader(cleared)) = 65535 - Fold(sum)
      BY SMT DEF calc
    <3>. HIDE DEF sum
    <3>. QED
      BY <2>2, <3>1, Complement, SMT
  <2>. HIDE DEF cleared
  <2>4. /\ written \in Seq(Byte) /\ Len(written) = 2
        /\ 1 * written[1] + 256 * written[2] = c
    BY <2>3, Turned, SMT
  <2>. HIDE DEF written
  <2>5. /\ SameBut(f, filled, 25..26) /\ filled[25] = written[1] /\ filled[26] = written[2]
        /\ get_length(filled) = get_length(f)
    BY <1>1, <1>2, <2>4
  <2>6. Sum(IpHeader(filled), 1, 256) = sum + c
    <3>1. PICK a \in Seq(Byte), b \in Seq(Byte), n \in Nat \ {0} :
            a = IpHeader(cleared) /\ b = IpHeader(filled) /\ n = 6
      <4>1. IpHeader(cleared) \in Seq(Byte) /\ IpHeader(filled) \in Seq(Byte)
        BY <1>4, <2>1, <2>5
      <4>. HIDE DEF filled
      <4>. QED
        BY <4>1
    <3>2. /\ a \in Seq(Byte) /\ Len(a) = 20 /\ \A i \in Nat : 1 <= i /\ i <= 20 => a[i] = cleared[14 + i]
          /\ b \in Seq(Byte) /\ Len(b) = 20 /\ \A i \in Nat : 1 <= i /\ i <= 20 => b[i] = filled[14 + i]
      BY <1>4, <2>1, <2>5, <3>1
    <3>. HIDE DEF filled, sum
    <3>3. \A i \in Nat : 1 <= i /\ i <= 20 /\ i # 11 /\ i # 12 => b[i] = a[i]
      <4>1. \A i \in Nat : 1 <= i /\ i <= 20 /\ i # 11 /\ i # 12 =>
              14 + i \in 1..Len(f) /\ 14 + i \notin 25..26
        BY <1>0
      <4>2. \A k \in 1..Len(f) : k \notin 25..26 => cleared[k] = f[k] /\ filled[k] = f[k]
        BY <1>4, <2>5 DEF SameBut
      <4>3. TAKE i \in Nat
      <4>4. HAVE 1 <= i /\ i <= 20 /\ i # 11 /\ i # 12
      <4>5. cleared[14 + i] = filled[14 + i]
        BY <4>1, <4>2, <4>4
      <4>. QED
        BY <3>2, <4>4, <4>5
    <3>4. SameBut(a, b, {2 * n - 1, 2 * n})
      <4>1. {2 * n - 1, 2 * n} = {11, 12}
        BY <3>1
      <4>2. \A i \in 1..Len(a) : i \notin {11, 12} => b[i] = a[i]
        BY <3>2, <3>3
      <4>. QED
        BY <3>2, <4>1, <4>2 DEF SameBut
    <3>5. a[2 * n - 1] = 0 /\ a[2 * n] = 0 /\ b[2 * n - 1] = written[1] /\ b[2 * n] = written[2]
      <4>1. a[11] = cleared[14 + 11] /\ a[12] = cleared[14 + 12]
            /\ b[11] = filled[14 + 11] /\ b[12] = filled[14 + 12]
        BY <3>2
      <4>2. 2 * n - 1 = 11 /\ 2 * n = 12 /\ 14 + 11 = 25 /\ 14 + 12 = 26
        BY <3>1
      <4>. QED
        BY <1>4, <2>5, <4>1, <4>2
    <3>6. PICK w \in Weights : w[1] = 1 /\ w[2] = 256
      BY DEF Weights
    <3>7. Sum(b, w[1], w[2]) = Sum(a, w[1], w[2]) + (w[1] * b[2 * n - 1] + w[2] * b[2 * n])
      <4>1. 2 * n <= Len(a)
        BY <3>1, <3>2
      <4>. QED
        BY <3>4, <3>5, <4>1, SumFilled
    <3>8. Sum(b, 1, 256) = Sum(a, 1, 256) + (1 * written[1] + 256 * written[2])
      BY <3>5, <3>6, <3>7
    <3>9. Sum(a, 1, 256) = sum
      BY <3>1 DEF sum
    <3>. QED
      BY <2>4, <3>1, <3>8, <3>9, Zenon
  <2>7. Balanced(sum16_bits(IpHeader(filled)))
    <3>1. IpHeader(filled) \in Seq(Byte)
      BY <2>1, <2>5
    <3>2. Balanced(Sum(IpHeader(filled), 1, 256))
      <4>. HIDE DEF filled, sum
      <4>. QED
        BY <2>3, <2>6
    <3>. HIDE DEF filled
    <3>. QED
      BY <3>1, <3>2, BalancedSwapped, Zenon DEF sum16_bits
  <2>8. fix_header_checksum(f) = filled
    BY <1>6, Zenon DEF fix_header_checksum, filled, written, cleared
  <2>. QED
    BY <1>6, <2>5, <2>7, <2>8, Zenon DEF HeaderRight
<1>. QED
  BY <1>5, <1>6

-----------------------------------------------------------------------------
(* The checksum of TCP and UDP.                                            *)

LEMMA HeaderTypes ==
  ASSUME NEW f \in Seq(Byte), Len(f) >= 34
  PROVE  /\ get_length(f) \in Nat
         /\ packet_length(f) \in Nat /\ packet_length(f) <= 65535
         /\ upper_protocol(f) \in Nat
         /\ packet_length(f) >= get_length(f) =>
              payload_length(f) = packet_length(f) - get_length(f)
<1>1. PICK l \in Nat : l = Len(f) /\ l >= 34
  BY LenProperties
<1>2. f[15] \in Nat /\ f[24] \in Nat
  <2>1. 15 \in 1..Len(f) /\ 24 \in 1..Len(f)
    BY <1>1
  <2>. QED
    BY <2>1, ByteNumbers
<1>3. get_length(f) \in Nat /\ upper_protocol(f) \in Nat
  BY <1>2 DEF get_length, upper_protocol, VersionIhl, UpperProtocol, eth_length
<1>4. packet_length(f) \in Nat /\ packet_length(f) <= 65535
  <2>1. PICK at \in Nat \ {0} : at = 17
    OBVIOUS
  <2>2. at + 1 <= Len(f)
    BY <1>1, <2>1
  <2>3. packet_length(f) = Word(load_endian(Field(f, at, 2)))
    BY <2>1 DEF packet_length, PacketLength, eth_length
  <2>4. PICK v \in Nat : v = Word(load_endian(Field(f, at, 2))) /\ v <= 65535
    BY <2>2, WordAt
  <2>. QED
    BY <2>3, <2>4, SMT
<1>5. packet_length(f) >= get_length(f) =>
        payload_length(f) = packet_length(f) - get_length(f)
  <2>1. PICK p \in Nat, h \in Nat : p = packet_length(f) /\ h = get_length(f) /\ p <= 65535
    BY <1>3, <1>4, SMT
  <2>2. p >= h => (p - h) % 65536 = p - h
    BY <2>1, SMTT(60)
  <2>. QED
    BY <2>1, <2>2, SMT DEF payload_length
<1>. QED
  BY <1>3, <1>4, <1>5, SMT

\* A packet that holds what its length says, and its headers.
Sound(frame) ==
    /\ frame \in Seq(Byte) /\ Len(frame) >= 34
    /\ get_length(frame) >= 20
    /\ eth_length + packet_length(frame) <= Len(frame)
    /\ packet_length(frame) >= get_length(frame) + upper_header_length(frame)

UpperRight(frame) ==
    Balanced(sum16_bits(Addresses(frame)) + upper_protocol(frame) + payload_length(frame)
               + sum16_bits(IpPayload(frame)))

LEMMA SoundLengths ==
  ASSUME NEW f, Sound(f)
  PROVE  \E h \in Nat, p \in Nat, l \in Nat :
           /\ h = get_abs_upper_offset(f) /\ h >= 34 /\ h = 14 + get_length(f)
           /\ p = payload_length(f) /\ p <= 65535 /\ packet_length(f) = get_length(f) + p
           /\ l = Len(f) /\ h + p <= l
           /\ p >= upper_header_length(f)
<1>1. PICK g \in Nat, q \in Nat, l \in Nat :
        g = get_length(f) /\ q = packet_length(f) /\ l = Len(f) /\ q <= 65535
  BY HeaderTypes, LenProperties, SMT DEF Sound
<1>2. upper_header_length(f) \in Nat
  BY DEF upper_header_length, sizeof_tcp_header, sizeof_udp_header
<1>3. g >= 20 /\ 14 + q <= l /\ q >= g + upper_header_length(f)
  BY <1>1 DEF Sound, eth_length
<1>4. payload_length(f) = q - g
  BY <1>1, <1>2, <1>3, HeaderTypes, SMT DEF Sound
<1>5. get_abs_upper_offset(f) = 14 + g
  BY <1>1 DEF get_abs_upper_offset, eth_length
<1>. QED
  BY <1>1, <1>2, <1>3, <1>4, <1>5, SMTT(60)

LEMMA PayloadAt ==
  ASSUME NEW g \in Seq(Byte), NEW h \in Nat, NEW p \in Nat, h = get_abs_upper_offset(g),
         p = payload_length(g), h + p <= Len(g)
  PROVE  /\ IpPayload(g) \in Seq(Byte) /\ Len(IpPayload(g)) = p
         /\ \A i \in 1..p : IpPayload(g)[i] = g[h + i]
<1>1. PICK at \in Nat \ {0} : at = h + 1
  OBVIOUS
<1>2. at + p - 1 <= Len(g)
  BY <1>1, LenProperties
<1>3. /\ Field(g, at, p) \in Seq(Byte) /\ Len(Field(g, at, p)) = p
      /\ \A i \in 1..p : Field(g, at, p)[i] = g[at + i - 1]
  BY <1>2, FieldAt
<1>4. IpPayload(g) = Field(g, at, p)
  BY <1>1 DEF IpPayload
<1>5. \A i \in 1..p : at + i - 1 = h + i
  BY <1>1
<1>. QED
  BY <1>3, <1>4, <1>5

LEMMA SumWord ==
  ASSUME NEW c \in Nat, c <= 65535
  PROVE  256 * uint16(c)[1] + 1 * uint16(c)[2] = c
<1>1. c % 65536 = c
  BY SMT
<1>2. 256 * ((c % 65536) \div 256) + (c % 256) = c
  BY <1>1, Halves, SMT
<1>. QED
  BY <1>2, Halves, SMT DEF uint16

LEMMA NetworkSum ==
  ASSUME NEW bytes \in Seq(Byte)
  PROVE  sum16_bits(bytes) \in Nat
<1>1. /\ <<256, 1>> \in Weights /\ <<256, 1>>[1] = 256 /\ <<256, 1>>[2] = 1
  BY DEF Weights
<1>. QED
  BY <1>1, SumType DEF sum16_bits

\* The n-th word of the payload of a packet, where the checksum is.
LEMMA UpperFixed ==
  ASSUME NEW f, Sound(f), NEW n \in Nat \ {0}, 2 * n <= payload_length(f),
         CheckSum(f) = get_abs_upper_offset(f) + (2 * n - 1),
         NEW b, b = uint16(sum16bits_to_checksum(pseudo_sum(f)))
  PROVE  /\ SameBut(f, Put(unsummed(f), CheckSum(f), b), CheckSum(f)..CheckSum(f) + 1)
         /\ UpperRight(Put(unsummed(f), CheckSum(f), b))
         /\ b \in Seq(Byte)
<1>. DEFINE u == unsummed(f)
            g == Put(unsummed(f), CheckSum(f), b)
<1>1. PICK h \in Nat, p \in Nat, l \in Nat :
        /\ h = get_abs_upper_offset(f) /\ h >= 34
        /\ p = payload_length(f) /\ l = Len(f) /\ h + p <= l
  BY SoundLengths
<1>2. PICK at \in Nat \ {0} : /\ at = CheckSum(f) /\ at = h + (2 * n - 1) /\ at > 34
                              /\ at + 1 = h + 2 * n /\ 2 * n <= p
  BY <1>1
<1>3. f \in Seq(Byte) /\ Len(f) >= 34
  BY DEF Sound
<1>4. ASSUME NEW e \in Seq(Byte), NEW v \in Seq(Byte), Len(e) = l, Len(v) = 2
      PROVE  /\ SameBut(e, Put(e, at, v), at..at + 1)
             /\ Put(e, at, v)[at] = v[1] /\ Put(e, at, v)[at + 1] = v[2]
  <2>1. PICK m \in Nat : m = Len(v) /\ m = 2 /\ at + m - 1 = at + 1
    BY <1>4
  <2>2. SameBut(e, Put(e, at, v), at..(at + m - 1))
    BY <2>1, PutSame
  <2>3. \A i \in 1..Len(e) : Put(e, at, v)[i]
              = IF i \in at..(at + Len(v) - 1) THEN v[i - at + 1] ELSE e[i]
    BY PutAt
  <2>4. at \in 1..Len(e) /\ at + 1 \in 1..Len(e)
    BY <1>1, <1>2, <1>4
  <2>5. Put(e, at, v)[at] = v[1] /\ Put(e, at, v)[at + 1] = v[2]
    BY <1>4, <2>3, <2>4
  <2>. QED
    BY <2>1, <2>2, <2>5
<1>5. /\ SameBut(f, u, at..at + 1) /\ u[at] = 0 /\ u[at + 1] = 0
  <2>1. <<0, 0>> \in Seq(Byte) /\ Len(<<0, 0>>) = 2 /\ <<0, 0>>[1] = 0 /\ <<0, 0>>[2] = 0
    BY ByteRange
  <2>2. u = Put(f, at, <<0, 0>>)
    BY <1>2 DEF unsummed
  <2>. QED
    BY <1>1, <1>3, <1>4, <2>1, <2>2
<1>. HIDE DEF u
<1>6. u \in Seq(Byte) /\ Len(u) = l
  BY <1>1, <1>5 DEF SameBut
<1>7. ASSUME NEW e, SameBut(f, e, at..at + 1)
      PROVE  /\ Addresses(e) = Addresses(f) /\ upper_protocol(e) = upper_protocol(f)
             /\ payload_length(e) = p /\ get_abs_upper_offset(e) = h
             /\ IpPayload(e) \in Seq(Byte) /\ Len(IpPayload(e)) = p
             /\ \A i \in 1..p : IpPayload(e)[i] = e[h + i]
  <2>1. \A i \in Nat : 15 <= i /\ i <= 34 => i \notin at..at + 1
    BY <1>2
  <2>2. /\ Addresses(e) = Addresses(f) /\ upper_protocol(e) = upper_protocol(f)
        /\ payload_length(e) = payload_length(f) /\ get_length(e) = get_length(f)
    BY <1>3, <1>7, <2>1, HeaderSame
  <2>3. get_abs_upper_offset(e) = h /\ payload_length(e) = p
    BY <1>1, <2>2 DEF get_abs_upper_offset
  <2>4. e \in Seq(Byte) /\ h + p <= Len(e)
    BY <1>1, <1>7 DEF SameBut
  <2>. QED
    BY <2>2, <2>3, <2>4, PayloadAt
<1>8. PICK s \in Nat : s = pseudo_sum(f)
  <2>1. IpPayload(u) \in Seq(Byte)
    BY <1>5, <1>7
  <2>2. Addresses(f) \in Seq(Byte)
    <3>1. PICK from \in Nat \ {0}, m \in Nat : from = 27 /\ m = 8
      OBVIOUS
    <3>2. from + m - 1 <= Len(f)
      BY <1>3, <3>1, LenProperties
    <3>3. Field(f, from, m) \in Seq(Byte)
      BY <1>3, <3>2, FieldAt
    <3>. QED
      BY <3>1, <3>3 DEF Addresses, SourceAddress, eth_length
  <2>3. sum16_bits(Addresses(f)) \in Nat /\ sum16_bits(IpPayload(u)) \in Nat
    BY <2>1, <2>2, NetworkSum
  <2>4. upper_protocol(f) \in Nat
    BY <1>3, HeaderTypes
  <2>. QED
    BY <1>1, <2>3, <2>4 DEF pseudo_sum, u
<1>9. sum16bits_to_checksum(s) \in Nat /\ sum16bits_to_checksum(s) <= 65535
      /\ Balanced(s + sum16bits_to_checksum(s))
  BY Complement, SMT DEF sum16bits_to_checksum
<1>15. PICK c \in Nat : c = sum16bits_to_checksum(s)
  BY <1>9
<1>10. b = uint16(c) /\ b \in Seq(Byte) /\ Len(b) = 2 /\ 256 * b[1] + 1 * b[2] = c
  <2>1. b = uint16(c)
    BY <1>8, <1>15, Zenon
  <2>2. b \in Seq(Byte) /\ Len(b) = 2
    BY <2>1, Uint16
  <2>3. 256 * b[1] + 1 * b[2] = c
    BY <1>9, <1>15, <2>1, SumWord, SMT
  <2>. QED
    BY <2>1, <2>2, <2>3
<1>11. SameBut(u, g, at..at + 1) /\ g[at] = b[1] /\ g[at + 1] = b[2]
  BY <1>2, <1>4, <1>6, <1>10 DEF u
<1>. HIDE DEF g
<1>12. SameBut(f, g, at..at + 1)
  BY <1>5, <1>11 DEF SameBut
<1>13. sum16_bits(IpPayload(g)) = sum16_bits(IpPayload(u)) + c
  <2>1. PICK x \in Seq(Byte), y \in Seq(Byte) : x = IpPayload(u) /\ y = IpPayload(g)
    BY <1>5, <1>7, <1>12
  <2>2. /\ Len(x) = p /\ \A i \in 1..p : x[i] = u[h + i]
        /\ Len(y) = p /\ \A i \in 1..p : y[i] = g[h + i]
    BY <1>5, <1>7, <1>12, <2>1
  <2>3. \A i \in 1..p : i \notin {2 * n - 1, 2 * n} => y[i] = x[i]
    <3>1. \A i \in 1..p : i \notin {2 * n - 1, 2 * n} =>
            h + i \in 1..Len(u) /\ h + i \notin at..at + 1
      BY <1>1, <1>2, <1>6, SMTT(60)
    <3>2. \A k \in 1..Len(u) : k \notin at..at + 1 => g[k] = u[k]
      BY <1>11 DEF SameBut
    <3>. QED
      BY <2>2, <3>1, <3>2
  <2>4. SameBut(x, y, {2 * n - 1, 2 * n})
    BY <2>2, <2>3 DEF SameBut
  <2>5. x[2 * n - 1] = 0 /\ x[2 * n] = 0 /\ y[2 * n - 1] = b[1] /\ y[2 * n] = b[2]
    <3>1. 2 * n - 1 \in 1..p /\ 2 * n \in 1..p /\ h + (2 * n - 1) = at /\ h + 2 * n = at + 1
      BY <1>2
    <3>. QED
      BY <1>5, <1>11, <2>2, <3>1
  <2>6. PICK w \in Weights : w[1] = 256 /\ w[2] = 1
    BY DEF Weights
  <2>7. Sum(y, w[1], w[2]) = Sum(x, w[1], w[2]) + (w[1] * y[2 * n - 1] + w[2] * y[2 * n])
    <3>1. 2 * n <= Len(x)
      BY <1>2, <2>2
    <3>. QED
      BY <2>4, <2>5, <3>1, SumFilled
  <2>8. Sum(y, 256, 1) = Sum(x, 256, 1) + (256 * b[1] + 1 * b[2])
    BY <2>5, <2>6, <2>7
  <2>. QED
    BY <1>10, <2>1, <2>8, Zenon DEF sum16_bits
<1>14. UpperRight(g)
  <2>1. /\ Addresses(g) = Addresses(f) /\ upper_protocol(g) = upper_protocol(f)
        /\ payload_length(g) = payload_length(f)
    BY <1>1, <1>7, <1>12
  <2>2. PICK a \in Nat, q \in Nat, d \in Nat, t \in Nat :
          /\ a = sum16_bits(Addresses(f)) /\ q = upper_protocol(f)
          /\ d = payload_length(f) /\ t = sum16_bits(IpPayload(u))
    <3>1. IpPayload(u) \in Seq(Byte)
      BY <1>5, <1>7
    <3>2. Addresses(f) \in Seq(Byte)
      <4>1. PICK from \in Nat \ {0}, m \in Nat : from = 27 /\ m = 8
        OBVIOUS
      <4>2. from + m - 1 <= Len(f)
        BY <1>3, <4>1, LenProperties
      <4>3. Field(f, from, m) \in Seq(Byte)
        BY <1>3, <4>2, FieldAt
      <4>. QED
        BY <4>1, <4>3 DEF Addresses, SourceAddress, eth_length
    <3>3. upper_protocol(f) \in Nat /\ payload_length(f) \in Nat
      BY <1>1, <1>3, HeaderTypes
    <3>. QED
      BY <3>1, <3>2, <3>3, NetworkSum
  <2>3. s = a + q + d + t
    BY <1>8, <2>2 DEF pseudo_sum, u
  <2>4. a + q + d + (t + c) = s + c
    BY <2>3
  <2>5. Balanced(a + q + d + (t + c))
    <3>1. Balanced(s + c)
      BY <1>9, <1>15
    <3>. QED
      BY <2>4, <3>1, Zenon
  <2>. QED
    BY <1>13, <2>1, <2>2, <2>5, Zenon DEF UpperRight
<1>. QED
  BY <1>2, <1>10, <1>12, <1>14 DEF g

\* The part of the header the lengths are in.
LEMMA LengthsSame ==
  ASSUME NEW f, NEW g, NEW P, SameBut(f, g, P), Len(f) >= 34,
         \A i \in Nat : 15 <= i /\ i <= 24 => i \notin P
  PROVE  /\ get_length(g) = get_length(f) /\ get_abs_upper_offset(g) = get_abs_upper_offset(f)
         /\ packet_length(g) = packet_length(f) /\ payload_length(g) = payload_length(f)
         /\ upper_protocol(g) = upper_protocol(f)
         /\ upper_header_length(g) = upper_header_length(f)
         /\ SumPlaces(g) = SumPlaces(f)
         /\ Sound(f) => Sound(g)
<1>1. PICK l \in Nat : l = Len(f) /\ l >= 34
  BY LenProperties DEF SameBut
<1>2. g[15] = f[15] /\ g[24] = f[24]
  <2>1. \A i \in Nat : 15 <= i /\ i <= 24 => g[i] = f[i]
    BY <1>1 DEF SameBut
  <2>. QED
    BY <2>1
<1>3. get_length(g) = get_length(f) /\ upper_protocol(g) = upper_protocol(f)
  BY <1>2 DEF get_length, upper_protocol, VersionIhl, UpperProtocol, eth_length
<1>4. Field(g, 17, 2) = Field(f, 17, 2)
  <2>1. PICK at \in Nat \ {0}, n \in Nat : at = 17 /\ n = 2
    OBVIOUS
  <2>2. at + n - 1 <= Len(f) /\ \A i \in at..(at + n - 1) : i \notin P
    BY <1>1, <2>1
  <2>3. Field(g, at, n) = Field(f, at, n)
    BY <2>2, FieldSame
  <2>. QED
    BY <2>1, <2>3
<1>5. packet_length(g) = packet_length(f)
  BY <1>4 DEF packet_length, PacketLength, eth_length
<1>6. payload_length(g) = payload_length(f)
  BY <1>3, <1>5, SMT DEF payload_length
<1>7. /\ get_abs_upper_offset(g) = get_abs_upper_offset(f)
      /\ upper_header_length(g) = upper_header_length(f)
      /\ SumPlaces(g) = SumPlaces(f)
  BY <1>3, Zenon DEF get_abs_upper_offset, upper_header_length, SumPlaces, Ahead
<1>8. Sound(f) => Sound(g)
  BY <1>3, <1>5, <1>7 DEF Sound, SameBut
<1>. QED
  BY <1>3, <1>5, <1>6, <1>7, <1>8, Zenon

LEMMA ChecksumFixed ==
  ASSUME NEW f, Sound(f)
  PROVE  /\ SameBut(f, fix_checksum(f), SumPlaces(f))
         /\ upper_protocol(f) \in {tcp, udp} => UpperRight(fix_checksum(f))
<1>. DEFINE b == uint16(sum16bits_to_checksum(pseudo_sum(f)))
<1>1. PICK h \in Nat, p \in Nat : /\ h = get_abs_upper_offset(f) /\ h = Ahead(f)
                                  /\ p = payload_length(f) /\ p >= upper_header_length(f)
  <2>1. get_abs_upper_offset(f) = Ahead(f)
    <3>1. get_length(f) \in Nat
      BY HeaderTypes DEF Sound
    <3>. QED
      BY <3>1 DEF get_abs_upper_offset, Ahead, eth_length
  <2>. QED
    BY <2>1, SoundLengths
<1>. HIDE DEF b
<1>3. b \in Seq(Byte) => save_endian(b) = b /\ Memory(to_rev(b)) = b
  BY EndianFields, ReverseTwice DEF Memory, to_rev
<1>4. CASE upper_protocol(f) = tcp
  <2>0. upper_protocol(f) # udp
    BY <1>4 DEF tcp, udp
  <2>1. PICK n \in Nat \ {0} : n = 9
    OBVIOUS
  <2>2. CheckSum(f) = h + 17 /\ h + 17 = h + (2 * n - 1) /\ 2 * n <= p
    <3>1. upper_header_length(f) = 20
      BY <1>4, <2>0 DEF upper_header_length, sizeof_tcp_header
    <3>. QED
      BY <1>1, <1>4, <2>1, <3>1 DEF CheckSum
  <2>4. /\ SameBut(f, Put(unsummed(f), CheckSum(f), b), CheckSum(f)..CheckSum(f) + 1)
        /\ UpperRight(Put(unsummed(f), CheckSum(f), b)) /\ b \in Seq(Byte)
    BY <1>1, <2>2, UpperFixed DEF b
  <2>3. fix_checksum(f) = Put(unsummed(f), CheckSum(f), b)
    BY <1>3, <1>4, <2>0, <2>4, Zenon DEF fix_checksum, fix_tcp_checksum, b
  <2>5. CheckSum(f)..CheckSum(f) + 1 \subseteq SumPlaces(f)
    <3>1. SumPlaces(f) = {h + byte : byte \in 17..18}
      BY <1>1, <1>4, <2>0 DEF SumPlaces
    <3>2. \A i \in h + 17..h + 17 + 1 : i = h + 17 \/ i = h + 18
      OBVIOUS
    <3>. QED
      BY <2>2, <3>1, <3>2
  <2>. QED
    BY <2>3, <2>4, <2>5, SameMore, Zenon
<1>5. CASE upper_protocol(f) = udp
  <2>0. upper_protocol(f) # tcp
    BY <1>5 DEF tcp, udp
  <2>1. PICK n \in Nat \ {0} : n = 4
    OBVIOUS
  <2>2. CheckSum(f) = h + 7 /\ h + 7 = h + (2 * n - 1) /\ 2 * n <= p
    <3>1. upper_header_length(f) = 8
      BY <1>5, <2>0 DEF upper_header_length, sizeof_udp_header
    <3>. QED
      BY <1>1, <2>0, <2>1, <3>1 DEF CheckSum
  <2>4. /\ SameBut(f, Put(unsummed(f), CheckSum(f), b), CheckSum(f)..CheckSum(f) + 1)
        /\ UpperRight(Put(unsummed(f), CheckSum(f), b)) /\ b \in Seq(Byte)
    BY <1>1, <2>2, UpperFixed DEF b
  <2>3. fix_checksum(f) = Put(unsummed(f), CheckSum(f), b)
    BY <1>3, <1>5, <2>0, <2>4, Zenon DEF fix_checksum, fix_udp_checksum, b
  <2>5. CheckSum(f)..CheckSum(f) + 1 \subseteq SumPlaces(f)
    <3>1. SumPlaces(f) = {h + byte : byte \in 7..8}
      BY <1>1, <1>5, <2>0 DEF SumPlaces
    <3>2. \A i \in h + 7..h + 7 + 1 : i = h + 7 \/ i = h + 8
      OBVIOUS
    <3>. QED
      BY <2>2, <3>1, <3>2
  <2>. QED
    BY <2>3, <2>4, <2>5, SameMore, Zenon
<1>6. CASE upper_protocol(f) \notin {tcp, udp}
  <2>1. fix_checksum(f) = f
    BY <1>6 DEF fix_checksum
  <2>2. f \in Seq(Byte)
    BY DEF Sound
  <2>. QED
    BY <1>6, <2>1, <2>2, SameSelf
<1>. QED
  BY <1>4, <1>5, <1>6

-----------------------------------------------------------------------------
(* Addresses.                                                              *)

\* There is room for a and b, of n bytes each, in f at a place and the next.
Fits(f, at, mid, n, k, a, b) ==
    /\ f \in Seq(Byte) /\ a \in Seq(Byte) /\ b \in Seq(Byte) /\ Len(a) = n /\ Len(b) = n
    /\ at \in Nat \ {0} /\ mid \in Nat \ {0} /\ n \in Nat /\ k \in Nat
    /\ mid = at + n /\ k = n + n /\ at + k - 1 <= Len(f)

Joined(f, at, k, a, b) == Field(f, at, k) = a \o b

LEMMA FieldsJoin ==
  ASSUME NEW g, NEW at \in Nat \ {0}, NEW mid \in Nat \ {0}, NEW n \in Nat, NEW k \in Nat,
         NEW a, NEW b, Fits(g, at, mid, n, k, a, b),
         Field(g, at, n) = a, Field(g, mid, n) = b
  PROVE  Joined(g, at, k, a, b)
<1>0. /\ g \in Seq(Byte) /\ at \in Nat \ {0} /\ mid \in Nat \ {0} /\ n \in Nat /\ k \in Nat
      /\ mid = at + n /\ k = n + n /\ at + k - 1 <= Len(g)
      /\ a \in Seq(Byte) /\ b \in Seq(Byte) /\ Len(a) = n /\ Len(b) = n
  BY DEF Fits
<1>1. PICK l \in Nat : l = Len(g)
  BY <1>0, LenProperties
<1>2. \A i \in 1..n : a[i] = g[at + i - 1]
  <2>1. at + n - 1 <= Len(g)
    BY <1>0, <1>1
  <2>. QED
    BY <1>0, <2>1, FieldAt, SMTT(60)
<1>3. \A i \in 1..n : b[i] = g[at + n + i - 1]
  <2>1. mid + n - 1 <= Len(g)
    BY <1>0, <1>1
  <2>2. \A i \in 1..n : Field(g, mid, n)[i] = g[mid + i - 1]
    BY <1>0, <2>1, FieldAt, SMTT(60)
  <2>. QED
    BY <1>0, <2>2
<1>4. k = n + n
  BY <1>0
<1>5. /\ Field(g, at, k) \in Seq(Byte) /\ Len(Field(g, at, k)) = k
      /\ \A i \in 1..k : Field(g, at, k)[i] = g[at + i - 1]
  BY <1>0, <1>4, FieldAt
<1>6. /\ a \o b \in Seq(Byte) /\ Len(a \o b) = k
      /\ \A i \in 1..k : (a \o b)[i] = IF i <= n THEN a[i] ELSE b[i - n]
  <2>1. /\ a \o b \in Seq(Byte) /\ Len(a \o b) = Len(a) + Len(b)
        /\ \A i \in 1..Len(a) + Len(b) :
             (a \o b)[i] = IF i <= Len(a) THEN a[i] ELSE b[i - Len(a)]
    BY <1>0, ConcatProperties
  <2>. QED
    BY <1>0, <1>4, <2>1
<1>7. \A i \in 1..k : (a \o b)[i] = g[at + i - 1]
  <2>1. TAKE i \in 1..k
  <2>2. CASE i <= n
    <3>1. i \in 1..n
      BY <1>0, <2>2
    <3>. QED
      BY <1>0, <1>2, <1>6, <2>2, <3>1
  <2>3. CASE ~(i <= n)
    <3>1. i - n \in 1..n /\ at + n + (i - n) - 1 = at + i - 1
      BY <1>0, <1>4, <2>3
    <3>2. b[i - n] = g[at + i - 1]
      BY <1>0, <1>3, <3>1
    <3>. QED
      BY <1>0, <1>6, <2>3, <3>2
  <2>. QED
    BY <1>0, <2>2, <2>3
<1>. QED
  <2>1. PICK c \in Seq(Byte) : c = a \o b
    BY <1>6
  <2>2. Len(c) = k /\ \A i \in 1..k : c[i] = g[at + i - 1]
    BY <1>6, <1>7, <2>1
  <2>3. Field(g, at, k) = c
    BY <1>5, <2>2, SeqEqual
  <2>. QED
    BY <2>1, <2>3, Zenon DEF Joined

\* v and w, of n bytes each, go to places of f that do not meet.
Apart(f, n, x, y, v, w) ==
    /\ f \in Seq(Byte) /\ v \in Seq(Byte) /\ w \in Seq(Byte)
    /\ x \in Nat \ {0} /\ y \in Nat \ {0} /\ n \in Nat
    /\ x + n - 1 <= Len(f) /\ y + n - 1 <= Len(f) /\ Len(v) = n /\ Len(w) = n
    /\ \A i \in x..(x + n - 1) : i \notin y..(y + n - 1)

LEMMA PutTwo ==
  ASSUME NEW f, NEW n \in Nat, NEW x \in Nat \ {0}, NEW y \in Nat \ {0}, NEW v, NEW w, Apart(f, n, x, y, v, w),
         NEW d, d = Put(Put(f, x, v), y, w)
  PROVE  /\ SameBut(f, d, (x..(x + n - 1)) \cup (y..(y + n - 1)))
         /\ Field(d, x, n) = v /\ Field(d, y, n) = w
<1>0. /\ f \in Seq(Byte) /\ v \in Seq(Byte) /\ w \in Seq(Byte)
      /\ x \in Nat \ {0} /\ y \in Nat \ {0} /\ n \in Nat
      /\ x + n - 1 <= Len(f) /\ y + n - 1 <= Len(f) /\ Len(v) = n /\ Len(w) = n
      /\ \A i \in x..(x + n - 1) : i \notin y..(y + n - 1)
  BY DEF Apart
<1>1. PICK e \in Seq(Byte) : e = Put(f, x, v) /\ Len(e) = Len(f)
  BY <1>0, PutAt
<1>2. SameBut(f, e, x..(x + n - 1)) /\ Field(e, x, n) = v
  BY <1>0, <1>1, PutSame
<1>3. y + n - 1 <= Len(e) /\ x + n - 1 <= Len(e) /\ d = Put(e, y, w)
  BY <1>0, <1>1
<1>4. SameBut(e, d, y..(y + n - 1)) /\ Field(d, y, n) = w
  <2>1. /\ SameBut(e, Put(e, y, w), y..(y + n - 1))
        /\ y + n - 1 <= Len(e) => Field(Put(e, y, w), y, n) = w
    BY <1>0, PutSame
  <2>. QED
    BY <1>0, <1>3, <2>1
<1>5. Field(d, x, n) = Field(e, x, n)
  <2>. DEFINE P == y..(y + n - 1)
  <2>1. SameBut(e, d, P) /\ \A i \in x..(x + n - 1) : i \notin P
    BY <1>0, <1>4
  <2>. HIDE DEF P
  <2>. QED
    BY <1>0, <1>3, <2>1, FieldSame
<1>6. SameBut(f, d, (x..(x + n - 1)) \cup (y..(y + n - 1)))
  BY <1>0, <1>2, <1>4, SameTwice, Zenon
<1>. QED
  BY <1>0, <1>2, <1>4, <1>5, <1>6, Zenon

\* Two neighbours of the same length are written, in either order.
LEMMA PutBoth ==
  ASSUME NEW f, NEW at \in Nat \ {0}, NEW m \in Nat \ {0}, NEW n \in Nat, NEW k \in Nat, NEW a, NEW b,
         Fits(f, at, m, n, k, a, b),
         NEW g, g = Put(Put(f, at, a), m, b) \/ g = Put(Put(f, m, b), at, a)
  PROVE  SameBut(f, g, at..(at + k - 1)) /\ Joined(g, at, k, a, b)
<1>0. /\ f \in Seq(Byte) /\ at \in Nat \ {0} /\ m \in Nat \ {0} /\ n \in Nat
      /\ m = at + n /\ k = n + n /\ at + k - 1 <= Len(f)
      /\ a \in Seq(Byte) /\ b \in Seq(Byte) /\ Len(a) = n /\ Len(b) = n
  BY DEF Fits
<1>1. PICK l \in Nat : l = Len(f)
  BY <1>0, LenProperties
<1>4. at + n - 1 <= Len(f) /\ m + n - 1 <= Len(f)
      /\ (\A i \in at..(at + n - 1) : i \notin m..(m + n - 1))
      /\ (\A i \in m..(m + n - 1) : i \notin at..(at + n - 1))
  BY <1>0, <1>1
<1>3. Apart(f, n, at, m, a, b) /\ Apart(f, n, m, at, b, a)
  BY <1>0, <1>4 DEF Apart
<1>5. /\ SameBut(f, g, (at..(at + n - 1)) \cup (m..(m + n - 1)))
      /\ Field(g, at, n) = a /\ Field(g, m, n) = b
  <2>1. CASE g = Put(Put(f, at, a), m, b)
    BY <1>3, <2>1, PutTwo
  <2>2. CASE g = Put(Put(f, m, b), at, a)
    <3>1. (m..(m + n - 1)) \cup (at..(at + n - 1)) = (at..(at + n - 1)) \cup (m..(m + n - 1))
      OBVIOUS
    <3>2. /\ SameBut(f, g, (m..(m + n - 1)) \cup (at..(at + n - 1)))
          /\ Field(g, m, n) = b /\ Field(g, at, n) = a
      BY <1>3, <2>2, PutTwo
    <3>. QED
      BY <3>1, <3>2, Zenon
  <2>. QED
    BY <2>1, <2>2
<1>6. (at..(at + n - 1)) \cup (m..(m + n - 1)) \subseteq at..(at + k - 1)
  BY <1>0
<1>7. SameBut(f, g, at..(at + k - 1))
  <2>. DEFINE P == (at..(at + n - 1)) \cup (m..(m + n - 1))
              Q == at..(at + k - 1)
  <2>1. SameBut(f, g, P) /\ P \subseteq Q
    BY <1>5, <1>6
  <2>. HIDE DEF P, Q
  <2>2. SameBut(f, g, Q)
    BY <2>1, SameMore
  <2>. QED
    BY <2>2 DEF Q
<1>8. Fits(g, at, m, n, k, a, b)
  BY <1>0, <1>7 DEF SameBut, Fits
<1>9. Joined(g, at, k, a, b)
  BY <1>5, <1>8, FieldsJoin
<1>. QED
  BY <1>7, <1>9

LEMMA AddressesChanged ==
  ASSUME NEW f \in Seq(Byte), Len(f) >= 34, NEW src \in [1..4 -> Byte], NEW dst \in [1..4 -> Byte],
         NEW g, g = change_ips(f, FromMemory(src), FromMemory(dst))
  PROVE  SameBut(f, g, 25..34) /\ Addresses(g) = src \o dst /\ HeaderRight(g)
<1>. DEFINE moved == Put(Put(f, 27, src), 31, dst)
<1>1. PICK n \in Nat, k \in Nat, at \in Nat \ {0}, m \in Nat \ {0} :
        n = 4 /\ k = 8 /\ at = 27 /\ m = 31
  OBVIOUS
<1>2. src \in Seq(Byte) /\ Len(src) = n /\ dst \in Seq(Byte) /\ Len(dst) = n
  <2>1. src \in [1..n -> Byte] /\ dst \in [1..n -> Byte]
    BY <1>1
  <2>. QED
    BY <2>1, FunctionIsSeq
<1>3. g = fix_header_checksum(moved)
  <2>1. save_endian(to_rev(FromMemory(src))) = src /\ save_endian(to_rev(FromMemory(dst))) = dst
    BY <1>2, AddressField
  <2>2. SourceAddress = 27 /\ DestinationAddress = 31
    BY DEF SourceAddress, DestinationAddress, eth_length
  <2>. QED
    BY <2>1, <2>2, Zenon DEF change_ips
<1>4. SameBut(f, moved, 27..34) /\ Field(moved, 27, 8) = src \o dst
  <2>1. moved = Put(Put(f, at, src), m, dst)
    BY <1>1
  <2>2. at + k - 1 = 34 /\ k = 8 /\ at = 27
    BY <1>1
  <2>3. Fits(f, at, m, n, k, src, dst)
    BY <1>1, <1>2, LenProperties DEF Fits
  <2>. HIDE DEF moved
  <2>4. SameBut(f, moved, at..(at + k - 1)) /\ Joined(moved, at, k, src, dst)
    BY <2>1, <2>3, PutBoth
  <2>. QED
    BY <2>2, <2>4 DEF Joined
<1>. HIDE DEF moved
<1>5. moved \in Seq(Byte) /\ Len(moved) >= 34
  BY <1>4 DEF SameBut
<1>6. SameBut(moved, g, 25..26) /\ HeaderRight(g)
  BY <1>3, <1>5, HeaderFixed
<1>7. SameBut(f, g, 25..34)
  <2>1. SameBut(f, g, (27..34) \cup (25..26))
    BY <1>4, <1>6, SameTwice
  <2>2. (27..34) \cup (25..26) \subseteq 25..34
    OBVIOUS
  <2>. QED
    BY <2>1, <2>2, SameMore
<1>8. Addresses(g) = src \o dst
  <2>2. at + k - 1 <= Len(moved) /\ \A i \in at..(at + k - 1) : i \notin 25..26
    BY <1>1, <1>5, LenProperties
  <2>3. Field(g, at, k) = Field(moved, at, k)
    <3>. DEFINE P == 25..26
    <3>1. SameBut(moved, g, P) /\ \A i \in at..(at + k - 1) : i \notin P
      BY <1>6, <2>2
    <3>. HIDE DEF P
    <3>. QED
      BY <2>2, <3>1, FieldSame
  <2>. QED
    BY <1>1, <1>4, <2>3 DEF Addresses, SourceAddress, eth_length
<1>. QED
  BY <1>6, <1>7, <1>8

LEMMA MacBytes ==
  ASSUME NEW m \in [1..6 -> Byte]
  PROVE  [i \in 1..6 |-> Memory(to_uint64_t(m))[7 - i]] = m
<1>1. m \in Seq(Byte) /\ Len(m) = 6
  <2>1. PICK n \in Nat : n = 6
    OBVIOUS
  <2>2. m \in [1..n -> Byte]
    BY <2>1
  <2>3. m \in Seq(Byte) /\ Len(m) = n
    BY <2>2, FunctionIsSeq
  <2>. QED
    BY <2>1, <2>3
<1>2. <<0, 0>> \in Seq(Byte) /\ Len(<<0, 0>>) = 2
  BY ByteRange
<1>3. PICK v \in Seq(Byte) : v = to_uint64_t(m) /\ Len(v) = 8 /\ \A i \in 1..6 : v[2 + i] = m[i]
  <2>. DEFINE z == <<0, 0>>
  <2>1. z \in Seq(Byte) /\ Len(z) = 2
    BY <1>2
  <2>. HIDE DEF z
  <2>3. /\ z \o m \in Seq(Byte) /\ Len(z \o m) = Len(z) + Len(m)
        /\ \A i \in 1..Len(z) + Len(m) :
             (z \o m)[i] = IF i <= Len(z) THEN z[i] ELSE m[i - Len(z)]
    BY <1>1, <2>1, ConcatProperties
  <2>4. \A i \in 1..6 : 2 + i \in 1..8 /\ ~(2 + i <= 2) /\ 2 + i - 2 = i
    OBVIOUS
  <2>2. z \o m \in Seq(Byte) /\ Len(z \o m) = 8 /\ \A i \in 1..6 : (z \o m)[2 + i] = m[i]
    BY <1>1, <2>1, <2>3, <2>4
  <2>. QED
    BY <2>2 DEF to_uint64_t, z
<1>4. \A i \in 1..Len(v) : Reverse(v)[i] = v[Len(v) + 1 - i]
  BY ReverseAt
<1>5. \A i \in 1..6 : Memory(to_uint64_t(m))[7 - i] = m[i]
  <2>1. \A i \in 1..6 : 7 - i \in 1..8 /\ 8 + 1 - (7 - i) = 2 + i
    OBVIOUS
  <2>2. \A i \in 1..6 : Reverse(v)[7 - i] = v[2 + i]
    BY <1>3, <1>4, <2>1
  <2>. QED
    BY <1>3, <2>2 DEF Memory
<1>. QED
  BY <1>5

LEMMA MacsChanged ==
  ASSUME NEW f \in Seq(Byte), Len(f) >= 34, NEW a \in [1..6 -> Byte], NEW b \in [1..6 -> Byte],
         NEW g, g = update_mac(update_mac(f, SrcMac, to_uint64_t(a)), DstMac, to_uint64_t(b))
  PROVE  SameBut(f, g, 1..12) /\ Field(g, DstMac, 12) = b \o a
<1>1. PICK n \in Nat, k \in Nat, at \in Nat \ {0}, m \in Nat \ {0} :
        n = 6 /\ k = 12 /\ at = 1 /\ m = 7
  OBVIOUS
<1>2. a \in Seq(Byte) /\ Len(a) = n /\ b \in Seq(Byte) /\ Len(b) = n
  <2>1. a \in [1..n -> Byte] /\ b \in [1..n -> Byte]
    BY <1>1
  <2>. QED
    BY <2>1, FunctionIsSeq
<1>3. g = Put(Put(f, m, a), at, b)
  <2>1. DstMac = at /\ SrcMac = m
    BY <1>1 DEF DstMac, SrcMac
  <2>. QED
    BY <2>1, MacBytes, Zenon DEF update_mac
<1>4. Fits(f, at, m, n, k, b, a)
  BY <1>1, <1>2, LenProperties DEF Fits
<1>5. SameBut(f, g, at..(at + k - 1)) /\ Joined(g, at, k, b, a)
  BY <1>3, <1>4, PutBoth
<1>6. at + k - 1 = 12 /\ k = 12 /\ at = DstMac /\ at = 1
  BY <1>1 DEF DstMac
<1>. QED
  BY <1>5, <1>6 DEF Joined

-----------------------------------------------------------------------------
(* Lengths and fragments.                                                  *)

LEMMA LengthPlace ==
  \A f, n : /\ set_packet_length(f, n) = Put(f, PacketLength, save_endian(uint16(n)))
            /\ packet_length(f) = Word(load_endian(Field(f, PacketLength, 2)))
BY Zenon DEF set_packet_length, packet_length

LEMMA LengthSet ==
  ASSUME NEW f \in Seq(Byte), Len(f) >= 34, NEW n \in Nat, n <= 65535
  PROVE  /\ SameBut(f, set_packet_length(f, n), 17..18)
         /\ packet_length(set_packet_length(f, n)) = n
<1>1. PICK at \in Nat \ {0} : at = 17
  OBVIOUS
<1>2. at + 1 <= Len(f)
  BY <1>1, LenProperties
<1>3. /\ SameBut(f, Put(f, at, save_endian(uint16(n))), at..at + 1)
      /\ Word(load_endian(Field(Put(f, at, save_endian(uint16(n))), at, 2))) = Word(uint16(n))
  BY <1>2, PutWord
<1>4. Word(uint16(n)) = n
  BY Uint16Word, SMT
<1>5. at = PacketLength /\ at + 1 = 18
  BY <1>1 DEF PacketLength, eth_length
<1>6. set_packet_length(f, n) = Put(f, at, save_endian(uint16(n)))
  BY <1>5, LengthPlace
<1>7. \A x : packet_length(x) = Word(load_endian(Field(x, at, 2)))
  BY <1>5, LengthPlace
<1>8. packet_length(set_packet_length(f, n)) = n
  BY <1>3, <1>4, <1>6, <1>7
<1>. QED
  BY <1>1, <1>3, <1>5, <1>6, <1>8

\* Changes of the length leave the rest of the header.
LEMMA LengthKeeps ==
  ASSUME NEW f, NEW g, SameBut(f, g, 17..18), Len(f) >= 34
  PROVE  /\ get_length(g) = get_length(f) /\ upper_protocol(g) = upper_protocol(f)
         /\ get_abs_upper_offset(g) = get_abs_upper_offset(f)
         /\ upper_header_length(g) = upper_header_length(f)
         /\ SumPlaces(g) = SumPlaces(f)
<1>1. 15 \in 1..Len(f) /\ 24 \in 1..Len(f) /\ 15 \notin 17..18 /\ 24 \notin 17..18
  BY LenProperties DEF SameBut
<1>2. g[15] = f[15] /\ g[24] = f[24]
  BY <1>1 DEF SameBut
<1>3. get_length(g) = get_length(f) /\ upper_protocol(g) = upper_protocol(f)
  BY <1>2 DEF get_length, upper_protocol, VersionIhl, UpperProtocol, eth_length
<1>. QED
  BY <1>3, Zenon DEF get_abs_upper_offset, upper_header_length, SumPlaces, Ahead

LEMMA Repaired ==
  ASSUME NEW f \in Seq(Byte), WholeHeaders(f),
         NEW g, g = IF packet_length(f) = 0 \/ packet_length(f) > Len(f) - eth_length
                      THEN set_packet_length(f, Len(f) - eth_length) ELSE f
  PROVE  Len(f) >= 34 /\ SameBut(f, g, 17..18) /\ Sound(g)
<1>1. PICK l \in Nat, c \in Int : l = Len(f) /\ c = l - 14 /\ c = Len(f) - eth_length
  BY LenProperties DEF eth_length
<1>2. c >= 20 /\ c < 65536 /\ get_length(f) >= 20
  BY <1>1, SMT DEF WholeHeaders, sizeof_ipv4_header_t
<1>3. l >= 34 /\ c \in Nat /\ c <= 65535
  BY <1>1, <1>2, SMT
<1>4. PICK p \in Nat : p = packet_length(f) /\ p <= 65535
  BY <1>1, <1>3, HeaderTypes, SMT
<1>5. CASE p \in 1..c
  <2>1. g = f
    BY <1>1, <1>4, <1>5
  <2>2. p >= get_length(f) + upper_header_length(f)
    BY <1>1, <1>4, <1>5 DEF WholeHeaders
  <2>3. Sound(g)
    BY <1>1, <1>2, <1>3, <1>4, <1>5, <2>1, <2>2 DEF Sound, eth_length
  <2>. QED
    BY <1>1, <1>3, <2>1, <2>3, SameSelf
<1>6. CASE ~(p \in 1..c)
  <2>1. g = set_packet_length(f, c)
    BY <1>1, <1>4, <1>6
  <2>2. c >= get_length(f) + upper_header_length(f)
    BY <1>1, <1>4, <1>6 DEF WholeHeaders
  <2>3. SameBut(f, g, 17..18) /\ packet_length(g) = c
    BY <1>1, <1>3, <2>1, LengthSet, SMT
  <2>4. get_length(g) = get_length(f) /\ upper_header_length(g) = upper_header_length(f)
    BY <1>1, <1>3, <2>3, LengthKeeps
  <2>5. g \in Seq(Byte) /\ Len(g) = l
    BY <1>1, <2>3 DEF SameBut
  <2>6. Sound(g)
    BY <1>1, <1>2, <1>3, <2>2, <2>3, <2>4, <2>5 DEF Sound, eth_length
  <2>. QED
    BY <1>1, <1>3, <2>3, <2>6
<1>. QED
  BY <1>5, <1>6

LEMMA FragmentWord ==
  ASSUME NEW f \in Seq(Byte), Len(f) >= 34, NEW offset \in Nat
  PROVE  /\ SameBut(f, clear_more_fragments(f), 21..22)
         /\ SameBut(f, set_fragment_offset(f, offset), 21..22)
<1>1. PICK at \in Nat \ {0} : at = 21
  OBVIOUS
<1>2. at + 1 <= Len(f)
  BY <1>1, LenProperties
<1>3. \A n \in Nat : SameBut(f, Put(f, at, save_endian(uint16(n))), at..at + 1)
  BY <1>2, PutWord
<1>4. Word(load_endian(Field(f, at, 2))) % 8192 \in Nat
  BY <1>2, WordAt, SMT
<1>5. ((offset % 65536) \div 8) + 8192 \in Nat
  BY SMT
<1>6. FragmentOffset = at /\ at..at + 1 = 21..22
  BY <1>1 DEF FragmentOffset, eth_length
<1>7. SameBut(f, clear_more_fragments(f), 21..22)
  <2>1. PICK n \in Nat : n = Word(load_endian(Field(f, at, 2))) % 8192
    BY <1>4
  <2>2. clear_more_fragments(f) = Put(f, at, save_endian(uint16(n)))
    BY <1>6, <2>1 DEF clear_more_fragments
  <2>. QED
    BY <1>3, <1>6, <2>2
<1>8. SameBut(f, set_fragment_offset(f, offset), 21..22)
  <2>1. PICK n \in Nat : n = ((offset % 65536) \div 8) + 8192
    BY <1>5
  <2>2. set_fragment_offset(f, offset) = Put(f, at, save_endian(uint16(n)))
    BY <1>6, <2>1, SMT DEF set_fragment_offset
  <2>. QED
    BY <1>3, <1>6, <2>2
<1>. QED
  BY <1>7, <1>8

-----------------------------------------------------------------------------
(* Frames.                                                                 *)

\* What the writer of a fragment changes in the header of the packet.
Words == (17..18) \cup (21..22) \cup (25..26)

\* f begins with the header of d, but for those.
Heads(f, d) ==
    /\ f \in Seq(Byte) /\ Len(f) >= get_abs_upper_offset(d)
    /\ \A i \in 1..get_abs_upper_offset(d) : i \notin Words => f[i] = d[i]

\* The bytes of f after its headers, and those of all frames.
Rest(f) == SubSeq(f, Ahead(f) + 1, Len(f))
PayloadOf(w) == FlattenSeq([i \in DOMAIN w |-> Rest(w[i])])

\* q is what d has from its h-th byte on.
Rides(q, d, h) ==
    /\ q \in Seq(Byte) /\ d \in Seq(Byte) /\ h + Len(q) <= Len(d)
    /\ \A i \in 1..Len(q) : q[i] = d[h + i]

\* Frames with headers that agree but for those words.
LEMMA HeadsSame ==
  ASSUME NEW f, NEW d, Sound(d), Heads(f, d)
  PROVE  /\ get_length(f) = get_length(d) /\ Ahead(f) = Ahead(d)
         /\ upper_protocol(f) = upper_protocol(d)
         /\ Addresses(f) = Addresses(d)
         /\ Field(f, DstMac, 12) = Field(d, DstMac, 12)
         /\ Len(f) >= 34
<1>1. PICK h \in Nat, l \in Nat, k \in Nat :
        h = get_abs_upper_offset(d) /\ h >= 34 /\ l = Len(d) /\ h <= l /\ k = Len(f) /\ h <= k
  <2>1. PICK h \in Nat, l \in Nat : h = get_abs_upper_offset(d) /\ h >= 34 /\ l = Len(d) /\ h <= l
    BY SoundLengths
  <2>. QED
    BY <2>1, LenProperties DEF Heads
<1>2. f \in Seq(Byte) /\ d \in Seq(Byte)
  BY DEF Heads, Sound
<1>3. \A i \in 1..h : i \notin Words => f[i] = d[i]
  BY <1>1 DEF Heads
<1>4. f[15] = d[15] /\ f[24] = d[24]
  <2>1. 15 \in 1..h /\ 24 \in 1..h /\ 15 \notin Words /\ 24 \notin Words
    BY <1>1 DEF Words
  <2>. QED
    BY <1>3, <2>1
<1>5. get_length(f) = get_length(d) /\ upper_protocol(f) = upper_protocol(d)
  BY <1>4 DEF get_length, upper_protocol, VersionIhl, UpperProtocol, eth_length
<1>6. \A at \in Nat \ {0}, n \in Nat :
        at + n - 1 <= 34 /\ (\A i \in at..(at + n - 1) : i \notin Words) => Field(f, at, n) = Field(d, at, n)
  <2>1. TAKE at \in Nat \ {0}, n \in Nat
  <2>2. HAVE at + n - 1 <= 34 /\ \A i \in at..(at + n - 1) : i \notin Words
  <2>3. at + n - 1 <= k /\ at + n - 1 <= l /\ \A i \in at..(at + n - 1) : i \in 1..h
    BY <1>1, <2>2
  <2>4. \A i \in at..(at + n - 1) : f[i] = d[i]
    BY <1>3, <2>2, <2>3
  <2>. QED
    BY <1>1, <1>2, <2>3, <2>4, FieldEqual
<1>7. Field(f, 27, 8) = Field(d, 27, 8) /\ Field(f, 1, 12) = Field(d, 1, 12)
  <2>1. \A i \in 27..34 : i \notin Words
    BY DEF Words
  <2>2. \A i \in 1..12 : i \notin Words
    BY DEF Words
  <2>3. PICK s \in Nat \ {0}, m \in Nat, t \in Nat \ {0}, n \in Nat :
          s = 27 /\ m = 8 /\ t = 1 /\ n = 12
    OBVIOUS
  <2>4. /\ s + m - 1 <= 34 /\ \A i \in s..(s + m - 1) : i \notin Words
        /\ t + n - 1 <= 34 /\ \A i \in t..(t + n - 1) : i \notin Words
    BY <2>1, <2>2, <2>3
  <2>5. Field(f, s, m) = Field(d, s, m) /\ Field(f, t, n) = Field(d, t, n)
    BY <1>6, <2>4
  <2>. QED
    BY <2>3, <2>5
<1>. QED
  BY <1>1, <1>5, <1>7 DEF Ahead, Addresses, SourceAddress, eth_length, DstMac

LEMMA AheadIs ==
  ASSUME NEW f, Sound(f)
  PROVE  Ahead(f) = get_abs_upper_offset(f)
<1>1. get_length(f) \in Nat
  BY HeaderTypes DEF Sound
<1>. QED
  BY <1>1 DEF get_abs_upper_offset, Ahead, eth_length

\* The header of a fragment: that of the packet, with a length and a word of its
\* own and a checksum that is right.
LEMMA FragmentHeader ==
  ASSUME NEW d, Sound(d), NEW n \in Nat, n <= 65535, NEW h \in Nat, h = get_abs_upper_offset(d),
         NEW placed, SameBut(set_packet_length(SubSeq(d, 1, h), n), placed, 21..22),
         NEW e, e = fix_header_checksum(placed)
  PROVE  /\ e \in Seq(Byte) /\ Len(e) = h
         /\ HeaderRight(e) /\ packet_length(e) = n
         /\ Heads(e, d)
<1>. DEFINE top == SubSeq(d, 1, h)
            long == set_packet_length(top, n)
<1>1. h >= 34 /\ h <= Len(d) /\ d \in Seq(Byte)
  BY SoundLengths DEF Sound
<1>2. top \in Seq(Byte) /\ Len(top) = h /\ \A i \in 1..h : top[i] = d[i]
  <2>1. PICK at \in Nat \ {0} : at = 1
    OBVIOUS
  <2>2. Len(d) \in Nat
    BY <1>1, LenProperties
  <2>3. at + h - 1 <= Len(d)
    BY <1>1, <2>1, <2>2
  <2>4. /\ Field(d, at, h) \in Seq(Byte) /\ Len(Field(d, at, h)) = h
        /\ \A i \in 1..h : Field(d, at, h)[i] = d[at + i - 1]
    BY <1>1, <2>3, FieldAt
  <2>5. Field(d, at, h) = top
    BY <2>1 DEF Field
  <2>6. \A i \in 1..h : at + i - 1 = i
    BY <2>1
  <2>. QED
    BY <2>4, <2>5, <2>6
<1>. HIDE DEF top
<1>3. SameBut(top, long, 17..18) /\ packet_length(long) = n
  BY <1>1, <1>2, LengthSet
<1>4. SameBut(long, placed, 21..22)
  BY DEF top
<1>. HIDE DEF long
<1>5. long \in Seq(Byte) /\ Len(long) = h /\ placed \in Seq(Byte) /\ Len(placed) = h
  BY <1>2, <1>3, <1>4 DEF SameBut
<1>6. SameBut(placed, e, 25..26) /\ HeaderRight(e)
  BY <1>1, <1>5, HeaderFixed
<1>7. SameBut(long, e, (21..22) \cup (25..26))
  BY <1>4, <1>6, SameTwice
<1>8. packet_length(e) = n
  <2>. DEFINE P == (21..22) \cup (25..26)
  <2>1. PICK at \in Nat \ {0}, m \in Nat : at = 17 /\ m = 2
    OBVIOUS
  <2>2. at + m - 1 <= Len(long) /\ \A i \in at..(at + m - 1) : i \notin P
    BY <1>1, <1>5, <2>1
  <2>3. SameBut(long, e, P)
    BY <1>7
  <2>. HIDE DEF P
  <2>4. Field(e, at, m) = Field(long, at, m)
    BY <2>2, <2>3, FieldSame
  <2>5. Field(e, 17, 2) = Field(long, 17, 2)
    BY <2>1, <2>4
  <2>6. packet_length(e) = packet_length(long)
    BY <2>5 DEF packet_length, PacketLength, eth_length
  <2>. QED
    BY <1>3, <2>6
<1>9. SameBut(top, e, (17..18) \cup ((21..22) \cup (25..26)))
  BY <1>3, <1>7, SameTwice
<1>10. SameBut(top, e, Words)
  BY <1>9, SameMore DEF Words
<1>11. Heads(e, d)
  <2>1. \A i \in 1..h : i \notin Words => e[i] = d[i]
    BY <1>2, <1>10 DEF SameBut
  <2>2. e \in Seq(Byte) /\ Len(e) = h
    BY <1>2, <1>10 DEF SameBut
  <2>. QED
    BY <2>1, <2>2 DEF Heads
<1>. QED
  BY <1>2, <1>6, <1>8, <1>10, <1>11 DEF SameBut

\* Bytes after a header.
Follows(f, e, r) == f = e \o r
Laid(f, r, d, h) ==
    /\ f \in Seq(Byte) /\ Len(f) = h + Len(r)
    /\ Heads(f, d) /\ HeaderRight(f)
    /\ Rest(f) = r
    /\ \A i \in 1..Len(r) : f[h + i] = r[i]

LEMMA HeaderAndRest ==
  ASSUME NEW d, Sound(d), NEW h \in Nat, h = get_abs_upper_offset(d),
         NEW e \in Seq(Byte), Len(e) = h, Heads(e, d), HeaderRight(e),
         NEW r \in Seq(Byte), NEW f, Follows(f, e, r)
  PROVE  Laid(f, r, d, h) /\ packet_length(f) = packet_length(e)
<1>1. h >= 34
  BY SoundLengths
<1>2. PICK k \in Nat : k = Len(r)
  BY LenProperties
<1>3. /\ f \in Seq(Byte) /\ Len(f) = h + k
      /\ \A i \in 1..h + k : f[i] = IF i <= h THEN e[i] ELSE r[i - h]
  <2>1. /\ e \o r \in Seq(Byte) /\ Len(e \o r) = Len(e) + Len(r)
        /\ \A i \in 1..Len(e) + Len(r) :
             (e \o r)[i] = IF i <= Len(e) THEN e[i] ELSE r[i - Len(e)]
    BY ConcatProperties
  <2>. QED
    BY <1>2, <2>1 DEF Follows
<1>4. \A i \in 1..h : f[i] = e[i]
  BY <1>3
<1>5. \A i \in 1..k : f[h + i] = r[i]
  <2>1. \A i \in 1..k : h + i \in 1..h + k /\ ~(h + i <= h) /\ h + i - h = i
    OBVIOUS
  <2>2. \A j \in 1..h + k : ~(j <= h) => f[j] = r[j - h]
    BY <1>3
  <2>3. TAKE i \in 1..k
  <2>4. PICK j \in 1..h + k : j = h + i /\ ~(j <= h) /\ j - h = i
    BY <2>1
  <2>. QED
    BY <2>2, <2>4
<1>6. Heads(f, d)
  <2>1. \A i \in 1..h : i \notin Words => f[i] = d[i]
    BY <1>4 DEF Heads
  <2>. QED
    BY <1>2, <1>3, <2>1 DEF Heads
<1>7. HeaderRight(f) /\ packet_length(f) = packet_length(e)
  <2>1. \A i \in Nat : 15 <= i /\ i <= 34 => f[i] = e[i]
    BY <1>1, <1>4
  <2>2. Len(f) >= 34 /\ Len(e) >= 34
    BY <1>1, <1>2, <1>3
  <2>. QED
    BY <1>3, <2>1, <2>2, HeaderEqual
<1>8. Rest(f) = r
  <2>1. Ahead(f) = h
    BY <1>6, HeadsSame, AheadIs
  <2>2. PICK at \in Nat \ {0} : at = h + 1
    OBVIOUS
  <2>8. at + k - 1 = h + k
    BY <2>2
  <2>3. at + k - 1 <= Len(f) /\ at + k - 1 = h + k
    BY <1>3, <2>8
  <2>4. /\ Field(f, at, k) \in Seq(Byte) /\ Len(Field(f, at, k)) = k
        /\ \A i \in 1..k : Field(f, at, k)[i] = f[at + i - 1]
    BY <1>3, <2>3, FieldAt
  <2>5. Field(f, at, k) = Rest(f)
    BY <1>3, <2>1, <2>2, <2>3 DEF Field, Rest
  <2>6. \A i \in 1..k : at + i - 1 = h + i
    BY <2>2
  <2>7. \A i \in 1..k : Rest(f)[i] = r[i]
    BY <1>5, <2>4, <2>5, <2>6
  <2>. QED
    BY <1>2, <2>4, <2>5, <2>7, SeqEqual
<1>. QED
  BY <1>2, <1>3, <1>5, <1>6, <1>7, <1>8 DEF Laid

LEMMA RestType ==
  ASSUME NEW f \in Seq(Byte), Len(f) >= 34
  PROVE  Rest(f) \in Seq(Byte)
<1>1. PICK h \in Nat : h = Ahead(f)
  <2>1. get_length(f) \in Nat
    BY HeaderTypes
  <2>. QED
    BY <2>1 DEF Ahead, eth_length
<1>2. PICK k \in Nat : k = Len(f)
  BY LenProperties
<1>3. \A i \in h + 1..k : f[i] \in Byte
  <2>1. \A i \in h + 1..k : i \in 1..k
    OBVIOUS
  <2>. QED
    BY <1>2, <2>1, ElementOfSeq
<1>4. h + 1 \in Int /\ k \in Int
  OBVIOUS
<1>5. SubSeq(f, h + 1, k) \in Seq(Byte)
  BY <1>3, <1>4, SubSeqProperties
<1>. QED
  BY <1>1, <1>2, <1>5 DEF Rest

LEMMA PayloadNone == PayloadOf(<< >>) = << >>
<1>1. [i \in DOMAIN << >> |-> Rest(<< >>[i])] = << >>
  OBVIOUS
<1>. QED
  BY <1>1, FlattenEmpty DEF PayloadOf

\* A frame adds its bytes to the payload.
LEMMA PayloadAppend ==
  ASSUME NEW w \in Seq(Seq(Byte)), \A i \in 1..Len(w) : Len(w[i]) >= 34,
         NEW f \in Seq(Byte), Len(f) >= 34
  PROVE  /\ PayloadOf(w) \in Seq(Byte)
         /\ PayloadOf(Append(w, f)) = PayloadOf(w) \o Rest(f)
<1>. DEFINE rests(v) == [i \in DOMAIN v |-> Rest(v[i])]
            x == Append(w, f)
<1>1. PICK n \in Nat : n = Len(w) /\ DOMAIN w = 1..n
  BY LenProperties
<1>2. \A i \in 1..n : Rest(w[i]) \in Seq(Byte)
  BY <1>1, ElementOfSeq, RestType
<1>3. rests(w) \in Seq(Seq(Byte)) /\ Len(rests(w)) = n /\ \A i \in 1..n : rests(w)[i] = Rest(w[i])
  <2>1. rests(w) \in [1..n -> Seq(Byte)]
    BY <1>1, <1>2
  <2>2. \A i \in 1..n : rests(w)[i] = Rest(w[i])
    BY <1>1
  <2>. HIDE DEF rests
  <2>. QED
    BY <2>1, <2>2, FunctionIsSeq
<1>4. /\ x \in Seq(Seq(Byte)) /\ Len(x) = n + 1 /\ DOMAIN x = 1..n + 1
      /\ x[n + 1] = f /\ \A i \in 1..n : x[i] = w[i]
  <2>1. x \in Seq(Seq(Byte)) /\ Len(x) = n + 1 /\ x[n + 1] = f /\ \A i \in 1..n : x[i] = w[i]
    BY <1>1, AppendProperties
  <2>. HIDE DEF x
  <2>. QED
    BY <2>1, LenProperties
<1>. HIDE DEF x
<1>5. rests(x) = [i \in 1..n + 1 |-> Rest(x[i])]
  BY <1>4
<1>6. Rest(f) \in Seq(Byte)
  BY RestType
<1>7. rests(x) \in Seq(Seq(Byte)) /\ Len(rests(x)) = n + 1
  <2>1. \A i \in 1..n + 1 : Rest(x[i]) \in Seq(Byte)
    BY <1>2, <1>4, <1>6
  <2>2. rests(x) \in [1..n + 1 -> Seq(Byte)]
    BY <1>5, <2>1
  <2>3. n + 1 \in Nat
    OBVIOUS
  <2>. HIDE DEF rests
  <2>. QED
    BY <2>2, <2>3, FunctionIsSeq
<1>8. \A i \in 1..n + 1 : rests(x)[i] = IF i = n + 1 THEN Rest(f) ELSE Rest(w[i])
  BY <1>4, <1>5
<1>. HIDE DEF rests
<1>9. rests(x) = Append(rests(w), Rest(f))
  <2>. DEFINE y == Append(rests(w), Rest(f))
  <2>1. y \in Seq(Seq(Byte)) /\ Len(y) = n + 1 /\ y[n + 1] = Rest(f)
        /\ \A i \in 1..n : y[i] = rests(w)[i]
    <3>. DEFINE u == rests(w)
                e == Rest(f)
    <3>1. u \in Seq(Seq(Byte)) /\ Len(u) = n /\ e \in Seq(Byte)
      BY <1>3, <1>6
    <3>. HIDE DEF u, e
    <3>2. /\ Append(u, e) \in Seq(Seq(Byte)) /\ Len(Append(u, e)) = n + 1
          /\ Append(u, e)[n + 1] = e /\ \A i \in 1..n : Append(u, e)[i] = u[i]
      BY <3>1, AppendProperties
    <3>. QED
      BY <3>2 DEF u, e
  <2>. HIDE DEF y
  <2>2. \A i \in 1..n + 1 : y[i] = rests(x)[i]
    BY <1>3, <1>8, <2>1
  <2>3. y = rests(x)
    BY <1>7, <2>1, <2>2, SeqEqual
  <2>. QED
    BY <2>3 DEF y
<1>10. PayloadOf(w) = FlattenSeq(rests(w)) /\ PayloadOf(x) = FlattenSeq(rests(x))
  BY DEF PayloadOf, rests
<1>11. FlattenSeq(rests(w)) \in Seq(Byte)
  BY <1>3, FlattenType
<1>12. FlattenSeq(rests(x)) = FlattenSeq(rests(w)) \o Rest(f)
  BY <1>3, <1>6, <1>9, FlattenAppend
<1>. QED
  BY <1>10, <1>11, <1>12 DEF x

LEMMA PayloadOne ==
  ASSUME NEW f \in Seq(Byte), Len(f) >= 34
  PROVE  PayloadOf(Append(<< >>, f)) = Rest(f)
<1>1. << >> \in Seq(Seq(Byte)) /\ Len(<< >>) = 0
  BY EmptySeq
<1>2. \A i \in 1..Len(<< >>) : Len(<< >>[i]) >= 34
  BY <1>1
<1>3. PayloadOf(Append(<< >>, f)) = PayloadOf(<< >>) \o Rest(f)
  BY <1>1, <1>2, PayloadAppend
<1>4. << >> \o Rest(f) = Rest(f)
  BY RestType, ConcatEmptySeq
<1>. QED
  BY <1>3, <1>4, PayloadNone

\* The pieces follow each other.
LEMMA RidesOn ==
  ASSUME NEW d, NEW h \in Nat, NEW q, Rides(q, d, h), NEW c \in Nat, c = Len(q),
         NEW r, NEW a \in Nat, a = h + c, Rides(r, d, a)
  PROVE  Rides(q \o r, d, h) /\ Len(q \o r) = c + Len(r)
<1>1. q \in Seq(Byte) /\ r \in Seq(Byte) /\ d \in Seq(Byte)
  BY DEF Rides
<1>2. PICK m \in Nat, l \in Nat : m = Len(r) /\ l = Len(d) /\ h + c + m <= l
  <2>1. PICK m \in Nat, l \in Nat : m = Len(r) /\ l = Len(d)
    BY <1>1, LenProperties
  <2>. QED
    BY <2>1 DEF Rides
<1>3. /\ q \o r \in Seq(Byte) /\ Len(q \o r) = c + m
      /\ \A i \in 1..c + m : (q \o r)[i] = IF i <= c THEN q[i] ELSE r[i - c]
  BY <1>1, <1>2, ConcatProperties
<1>4. \A i \in 1..c : q[i] = d[h + i]
  BY DEF Rides
<1>5. \A i \in 1..m : r[i] = d[h + c + i]
  BY <1>2 DEF Rides
<1>6. \A i \in 1..c + m : (q \o r)[i] = d[h + i]
  <2>1. TAKE i \in 1..c + m
  <2>2. CASE i <= c
    BY <1>3, <1>4, <2>2
  <2>3. CASE ~(i <= c)
    <3>1. i - c \in 1..m /\ h + c + (i - c) = h + i
      BY <2>3
    <3>2. r[i - c] = d[h + i]
      BY <1>5, <3>1
    <3>. QED
      BY <1>3, <2>3, <3>2
  <2>. QED
    BY <2>2, <2>3
<1>7. h + Len(q \o r) <= Len(d)
  BY <1>2, <1>3
<1>. HIDE DEF Rides
<1>8. Rides(q \o r, d, h)
  BY <1>1, <1>3, <1>6, <1>7, Zenon DEF Rides
<1>. QED
  BY <1>2, <1>3, <1>8

\* A piece of the packet.
LEMMA PieceRides ==
  ASSUME NEW d \in Seq(Byte), NEW h \in Nat, NEW n \in Nat, h + n <= Len(d)
  PROVE  Rides(Field(d, h + 1, n), d, h) /\ Len(Field(d, h + 1, n)) = n
<1>1. PICK at \in Nat \ {0}, l \in Nat : at = h + 1 /\ l = Len(d)
  BY LenProperties
<1>2. at + n - 1 <= l
  BY <1>1
<1>3. /\ Field(d, at, n) \in Seq(Byte) /\ Len(Field(d, at, n)) = n
      /\ \A i \in 1..n : Field(d, at, n)[i] = d[at + i - 1]
  BY <1>1, <1>2, FieldAt
<1>4. \A i \in 1..n : at + i - 1 = h + i
  BY <1>1
<1>. QED
  BY <1>1, <1>3, <1>4 DEF Rides

\* All of them are the payload.
LEMMA RidesAll ==
  ASSUME NEW d, Sound(d), NEW q, Rides(q, d, get_abs_upper_offset(d)), Len(q) = payload_length(d)
  PROVE  q = IpPayload(d)
<1>1. PICK h \in Nat, p \in Nat : h = get_abs_upper_offset(d) /\ p = payload_length(d) /\ h + p <= Len(d)
  BY SoundLengths
<1>2. d \in Seq(Byte)
  BY DEF Sound
<1>3. /\ IpPayload(d) \in Seq(Byte) /\ Len(IpPayload(d)) = p
      /\ \A i \in 1..p : IpPayload(d)[i] = d[h + i]
  BY <1>1, <1>2, PayloadAt
<1>4. q \in Seq(Byte) /\ Len(q) = p /\ \A i \in 1..p : q[i] = d[h + i]
  BY <1>1 DEF Rides
<1>. QED
  BY <1>3, <1>4, SeqEqual

-----------------------------------------------------------------------------
(* The invariant.                                                          *)

\* The bytes of a packet that the steps before the first frame change.
Places(frame) ==
    (17..18) \cup (25..34)
      \cup (IF upper_protocol(frame) = tcp THEN 1..12 ELSE {}) \cup SumPlaces(frame)

Types ==
    /\ stage \in {"received", "repaired", "addressed", "fixed", "cutting", "done"}
    /\ given \in Frames /\ given \in Seq(Byte)
    /\ ends \in [1..2 -> Interfaces]
    /\ first_packet_only \in BOOLEAN
    /\ cut \in Nat
    /\ wire \in Seq(Seq(Byte))

\* The packet in the buffer is the one captured, but for those bytes.
Traced ==
    /\ get_payload_type(given) = ipv4
    /\ Sound(data)
    /\ SameBut(given, data, Places(given))

Addressed ==
    /\ HeaderRight(data)
    /\ Addresses(data) = ends[1].ip \o ends[2].ip
    /\ upper_protocol(given) = tcp => Field(data, DstMac, 12) = ends[2].mac \o ends[1].mac

Summed(addresses, protocol, payload) ==
    Balanced(sum16_bits(addresses) + protocol + Len(payload) + sum16_bits(payload))

\* The payload that left is the captured one, but for the checksum.
Kept(payload, frame) ==
    /\ payload \in Seq(Byte) /\ Ahead(frame) + Len(payload) <= Len(frame)
    /\ \A i \in 1..Len(payload) :
         Ahead(frame) + i \in SumPlaces(frame) \/ payload[i] = frame[Ahead(frame) + i]

\* The frames of w carry the first n bytes of the payload of d.
Carries(w, d, n) ==
    /\ \A i \in 1..Len(w) : Heads(w[i], d) /\ HeaderRight(w[i])
    /\ Rides(PayloadOf(w), d, Ahead(d)) /\ Len(PayloadOf(w)) = n

Framed ==
    /\ \A i \in 1..Len(wire) : Heads(wire[i], data) /\ HeaderRight(wire[i])
    /\ Kept(PayloadOf(wire), given)
    /\ Complete /\ upper_protocol(given) \in {tcp, udp} =>
         Summed(Addresses(data), upper_protocol(given), PayloadOf(wire))

Cutting ==
    /\ packet_length(data) > mtu_default
    /\ cut < payload_length(data)
    /\ first_packet_only => wire = << >> /\ cut = 0
    /\ Carries(wire, data, cut)

RewriteInv ==
    /\ Types
    /\ stage = "received" => data = given
    /\ stage \in {"received", "repaired", "addressed", "fixed"} => wire = << >> /\ cut = 0
    /\ stage \in {"repaired", "addressed", "fixed", "cutting"} => Traced
    /\ stage \in {"addressed", "fixed", "cutting"} => Addressed
    /\ stage \in {"fixed", "cutting"} /\ upper_protocol(given) \in {tcp, udp} => UpperRight(data)
    /\ stage = "cutting" => Cutting
    /\ wire # << >> => Traced /\ Addressed /\ Framed

-----------------------------------------------------------------------------
(* The packet in the buffer.                                               *)

\* The checksum of TCP or UDP comes after the headers.
LEMMA SumsAhead ==
  ASSUME NEW f, NEW h \in Nat, h = Ahead(f)
  PROVE  \A i \in SumPlaces(f) : i \in Nat /\ i > h
<1>1. TAKE i \in SumPlaces(f)
<1>2. PICK byte \in 7..18 : i = h + byte
  <2>1. CASE upper_protocol(f) = tcp
    BY <1>1, <2>1 DEF SumPlaces
  <2>2. CASE upper_protocol(f) # tcp /\ upper_protocol(f) = udp
    BY <1>1, <2>2 DEF SumPlaces
  <2>3. CASE upper_protocol(f) # tcp /\ upper_protocol(f) # udp
    BY <1>1, <2>3 DEF SumPlaces
  <2>. QED
    BY <2>1, <2>2, <2>3
<1>. QED
  BY <1>2

\* The steps keep what the later ones rely on.
LEMMA KeptHeader ==
  ASSUME NEW f, NEW g, SameBut(f, g, Places(f)), Len(f) >= 34, get_length(f) >= 20
  PROVE  /\ get_length(g) = get_length(f) /\ Ahead(g) = Ahead(f)
         /\ upper_protocol(g) = upper_protocol(f) /\ SumPlaces(g) = SumPlaces(f)
<1>1. PICK h \in Nat : h = Ahead(f) /\ h >= 34
  <2>1. PICK k \in Nat : k = get_length(f) /\ k >= 20
    BY HeaderTypes DEF SameBut
  <2>. QED
    BY <2>1 DEF Ahead, eth_length
<1>2. \A i \in SumPlaces(f) : i > 34
  <2>1. \A i \in SumPlaces(f) : i \in Nat /\ i > h
    BY <1>1, SumsAhead
  <2>. QED
    BY <1>1, <2>1
<1>3. 15 \notin Places(f) /\ 24 \notin Places(f)
  <2>1. 15 \notin SumPlaces(f) /\ 24 \notin SumPlaces(f)
    BY <1>2
  <2>. QED
    BY <2>1 DEF Places
<1>4. 15 \in 1..Len(f) /\ 24 \in 1..Len(f)
  BY LenProperties DEF SameBut
<1>5. g[15] = f[15] /\ g[24] = f[24]
  BY <1>3, <1>4 DEF SameBut
<1>6. get_length(g) = get_length(f) /\ upper_protocol(g) = upper_protocol(f)
  BY <1>5 DEF get_length, upper_protocol, VersionIhl, UpperProtocol, eth_length
<1>. QED
  BY <1>6, Zenon DEF Ahead, SumPlaces

LEMMA StillTraced ==
  ASSUME NEW f, NEW g, NEW e, NEW P, SameBut(f, g, Places(f)), SameBut(g, e, P), P \subseteq Places(f)
  PROVE  SameBut(f, e, Places(f))
<1>. DEFINE Q == Places(f)
<1>1. SameBut(f, g, Q) /\ P \subseteq Q
  OBVIOUS
<1>. HIDE DEF Q
<1>2. SameBut(f, e, Q \cup P)
  BY <1>1, SameTwice
<1>3. Q \cup P = Q
  BY <1>1
<1>. QED
  BY <1>2, <1>3 DEF Q

\* The addresses of the ends, in the order of the network.
LEMMA Ends ==
  ASSUME Types
  PROVE  /\ ends[1].mac \in [1..6 -> Byte] /\ ends[2].mac \in [1..6 -> Byte]
         /\ ends[1].ip \in [1..4 -> Byte] /\ ends[2].ip \in [1..4 -> Byte]
<1>1. ends[1] \in Interfaces /\ ends[2] \in Interfaces
  BY DEF Types
<1>2. ends[1] \in [mac : [1..6 -> Byte], ip : [1..4 -> Byte]]
  BY <1>1, InterfacesAssumption
<1>3. ends[2] \in [mac : [1..6 -> Byte], ip : [1..4 -> Byte]]
  BY <1>1, InterfacesAssumption
<1>. QED
  BY <1>2, <1>3

\* What the packet is known to have.
LEMMA GivenWhole ==
  ASSUME Types, get_payload_type(given) = ipv4
  PROVE  /\ given \in Seq(Byte) /\ Len(given) >= 34 /\ WholeHeaders(given)
         /\ get_length(given) \in Nat /\ get_length(given) >= 20
         /\ mtu_default \in Nat /\ mtu_default >= get_length(given) + 20
<1>1. given \in Seq(Byte) /\ WholeHeaders(given) /\ mtu_default >= get_length(given) + sizeof_tcp_header
  BY FramesAssumption DEF Types
<1>2. Len(given) >= 34
  BY <1>1, Repaired, Zenon
<1>3. get_length(given) >= 20
  BY <1>1, SMT DEF WholeHeaders, sizeof_ipv4_header_t
<1>4. get_length(given) \in Nat
  BY <1>1, <1>2, HeaderTypes
<1>. QED
  BY <1>1, <1>2, <1>3, <1>4, MtuAssumption DEF sizeof_tcp_header

LEMMA TracedHeader ==
  ASSUME Types, Traced
  PROVE  /\ get_length(data) = get_length(given) /\ Ahead(data) = Ahead(given)
         /\ upper_protocol(data) = upper_protocol(given) /\ SumPlaces(data) = SumPlaces(given)
<1>1. Len(given) >= 34 /\ get_length(given) >= 20
  BY GivenWhole DEF Traced
<1>2. SameBut(given, data, Places(given))
  BY DEF Traced
<1>. QED
  BY <1>1, <1>2, KeptHeader

\* received -> repaired
LEMMA RepairedStep ==
  ASSUME Types, get_payload_type(given) = ipv4, data = given, given' = given,
         data' = IF packet_length(data) = 0 \/ packet_length(data) > Len(data) - eth_length
                   THEN set_packet_length(data, Len(data) - eth_length) ELSE data
  PROVE  Traced'
<1>1. Len(given) >= 34 /\ SameBut(given, data', 17..18) /\ Sound(data')
  BY GivenWhole, Repaired, Zenon
<1>2. 17..18 \subseteq Places(given)
  BY DEF Places
<1>3. SameBut(given, data', Places(given))
  BY <1>1, <1>2, SameMore
<1>. QED
  BY <1>1, <1>3 DEF Traced

\* repaired -> addressed
LEMMA AddressedStep ==
  ASSUME Types, Traced,
         data' = change_ips(IF upper_protocol(data) = tcp
                              THEN update_mac(update_mac(data, SrcMac, mac(ends[1])),
                                              DstMac, mac(ends[2]))
                              ELSE data, ip(ends[1]), ip(ends[2])),
         given' = given, ends' = ends
  PROVE  Traced' /\ Addressed'
<1>. DEFINE there == IF upper_protocol(data) = tcp
                       THEN update_mac(update_mac(data, SrcMac, mac(ends[1])), DstMac, mac(ends[2]))
                       ELSE data
            P == IF upper_protocol(given) = tcp THEN 1..12 ELSE {}
            Q == 25..34
            there2 == ends[2].mac \o ends[1].mac
<1>1. /\ data \in Seq(Byte) /\ Len(data) >= 34 /\ SameBut(given, data, Places(given)) /\ Sound(data)
      /\ upper_protocol(data) = upper_protocol(given)
  BY TracedHeader DEF Traced, Sound
<1>2. SameBut(data, there, P) /\ (upper_protocol(given) = tcp => Field(there, DstMac, 12) = there2)
  <2>1. CASE upper_protocol(given) = tcp
    <3>1. there = update_mac(update_mac(data, SrcMac, to_uint64_t(ends[1].mac)),
                             DstMac, to_uint64_t(ends[2].mac))
      BY <1>1, <2>1 DEF mac
    <3>2. SameBut(data, there, 1..12) /\ Field(there, DstMac, 12) = there2
      <4>. HIDE DEF there
      <4>. QED
        BY <1>1, <3>1, Ends, MacsChanged
    <3>3. P = 1..12
      BY <2>1
    <3>. HIDE DEF there, P, there2
    <3>. QED
      BY <3>2, <3>3
  <2>2. CASE upper_protocol(given) # tcp
    <3>1. there = data
      BY <1>1, <2>2
    <3>. HIDE DEF there, P, there2
    <3>. QED
      BY <1>1, <2>2, <3>1, SameSelf
  <2>. QED
    BY <2>1, <2>2
<1>3. data' = change_ips(there, FromMemory(ends[1].ip), FromMemory(ends[2].ip))
  BY DEF ip
<1>4. \A i \in 1..12 : i \notin Q
  OBVIOUS
<1>5. \A i \in Nat : 15 <= i /\ i <= 24 => i \notin P \cup Q
  OBVIOUS
<1>6. P \cup Q \subseteq Places(given)
  BY DEF Places
<1>. HIDE DEF there, P, there2
<1>7. there \in Seq(Byte) /\ Len(there) = Len(data)
  BY <1>2 DEF SameBut
<1>8. SameBut(there, data', Q) /\ Addresses(data') = ends[1].ip \o ends[2].ip /\ HeaderRight(data')
  BY <1>1, <1>3, <1>7, Ends, AddressesChanged
<1>. HIDE DEF Q
<1>9. SameBut(data, data', P \cup Q)
  BY <1>2, <1>8, SameTwice
<1>10. Sound(data')
  <2>. DEFINE R == P \cup Q
  <2>1. SameBut(data, data', R) /\ \A i \in Nat : 15 <= i /\ i <= 24 => i \notin R
    BY <1>5, <1>9
  <2>. HIDE DEF R
  <2>. QED
    BY <1>1, <2>1, LengthsSame
<1>11. SameBut(given, data', Places(given))
  BY <1>1, <1>6, <1>9, StillTraced
<1>12. ASSUME upper_protocol(given) = tcp
       PROVE  Field(data', DstMac, 12) = there2
  <2>1. PICK at \in Nat \ {0}, n \in Nat : at = DstMac /\ n = 12 /\ at = 1
    BY DEF DstMac
  <2>2. at + n - 1 <= Len(there) /\ \A i \in at..(at + n - 1) : i \notin Q
    BY <1>1, <1>4, <1>7, <2>1, LenProperties
  <2>3. Field(data', at, n) = Field(there, at, n)
    BY <1>8, <2>2, FieldSame
  <2>4. Field(data', DstMac, 12) = Field(there, DstMac, 12)
    BY <2>1, <2>3
  <2>. QED
    BY <1>2, <1>12, <2>4
<1>13. Traced'
  BY <1>10, <1>11 DEF Traced
<1>. QED
  BY <1>8, <1>12, <1>13 DEF Addressed, there2

\* addressed -> fixed, cutting
LEMMA FixedStep ==
  ASSUME Types, Traced, Addressed, data' = fix_checksum(data), given' = given, ends' = ends
  PROVE  /\ Traced' /\ Addressed'
         /\ packet_length(data') = packet_length(data)
         /\ upper_protocol(given) \in {tcp, udp} => UpperRight(data')
<1>. DEFINE P == SumPlaces(data)
<1>1. /\ data \in Seq(Byte) /\ Len(data) >= 34 /\ SameBut(given, data, Places(given)) /\ Sound(data)
      /\ upper_protocol(data) = upper_protocol(given) /\ P = SumPlaces(given)
  BY TracedHeader DEF Traced, Sound
<1>2. SameBut(data, data', P) /\ (upper_protocol(data) \in {tcp, udp} => UpperRight(data'))
  BY <1>1, ChecksumFixed
<1>3. \A i \in P : i > 34
  <2>1. PICK h \in Nat : h = Ahead(data) /\ h >= 34
    BY <1>1, AheadIs, SoundLengths
  <2>2. \A i \in P : i \in Nat /\ i > h
    BY <2>1, SumsAhead
  <2>. QED
    BY <2>1, <2>2
<1>4. P \subseteq Places(given)
  BY <1>1 DEF Places
<1>5. /\ \A i \in Nat : 15 <= i /\ i <= 34 => i \notin P
      /\ \A i \in Nat : 15 <= i /\ i <= 24 => i \notin P
      /\ \A i \in 1..12 : i \notin P
  BY <1>3
<1>. HIDE DEF P
<1>6. Sound(data') /\ packet_length(data') = packet_length(data)
  BY <1>1, <1>2, <1>5, LengthsSame
<1>7. HeaderRight(data') /\ Addresses(data') = Addresses(data)
  BY <1>1, <1>2, <1>5, HeaderSame DEF Addressed
<1>8. Field(data', DstMac, 12) = Field(data, DstMac, 12)
  <2>1. PICK at \in Nat \ {0}, n \in Nat : at = DstMac /\ n = 12 /\ at = 1
    BY DEF DstMac
  <2>2. at + n - 1 <= Len(data) /\ \A i \in at..(at + n - 1) : i \notin P
    BY <1>1, <1>5, <2>1, LenProperties
  <2>3. Field(data', at, n) = Field(data, at, n)
    BY <1>2, <2>2, FieldSame
  <2>. QED
    BY <2>1, <2>3
<1>9. SameBut(given, data', Places(given))
  BY <1>1, <1>2, <1>4, StillTraced
<1>10. Traced'
  BY <1>6, <1>9 DEF Traced
<1>11. Addressed'
  BY <1>7, <1>8 DEF Addressed
<1>. QED
  BY <1>1, <1>2, <1>6, <1>10, <1>11

-----------------------------------------------------------------------------
(* The frames.                                                             *)

LEMMA UpperSummed ==
  ASSUME NEW d, Sound(d), UpperRight(d)
  PROVE  Summed(Addresses(d), upper_protocol(d), IpPayload(d))
<1>1. PICK h \in Nat, p \in Nat : h = get_abs_upper_offset(d) /\ p = payload_length(d) /\ h + p <= Len(d)
  BY SoundLengths
<1>2. Len(IpPayload(d)) = payload_length(d)
  BY <1>1, PayloadAt DEF Sound
<1>. QED
  BY <1>2, Zenon DEF UpperRight, Summed

\* What follows the headers was captured, but for the checksum.
LEMMA RidesKept ==
  ASSUME Types, Traced, NEW q, Rides(q, data, Ahead(data))
  PROVE  Kept(q, given)
<1>1. PICK h \in Nat, l \in Nat, m \in Nat :
        /\ h = Ahead(given) /\ h = Ahead(data) /\ h >= 34
        /\ l = Len(given) /\ l = Len(data) /\ m = Len(q) /\ h + m <= l
  <2>1. PICK h \in Nat : h = Ahead(data) /\ h >= 34
    BY AheadIs, SoundLengths DEF Traced
  <2>2. Len(given) = Len(data) /\ Len(given) \in Nat
    BY LenProperties DEF Traced, SameBut
  <2>3. q \in Seq(Byte) /\ h + Len(q) <= Len(data)
    BY <2>1 DEF Rides
  <2>. QED
    BY <2>1, <2>2, <2>3, TracedHeader, LenProperties
<1>2. q \in Seq(Byte) /\ \A i \in 1..m : q[i] = data[h + i]
  BY <1>1 DEF Rides
<1>3. \A i \in 1..m : h + i \in SumPlaces(given) \/ data[h + i] = given[h + i]
  <2>1. TAKE i \in 1..m
  <2>2. SUFFICES ASSUME h + i \notin SumPlaces(given)
                 PROVE  data[h + i] = given[h + i]
    OBVIOUS
  <2>3. h + i \in 1..l /\ h + i > 34
    BY <1>1
  <2>4. h + i \notin Places(given)
    BY <2>2, <2>3 DEF Places
  <2>. QED
    BY <1>1, <2>3, <2>4 DEF Traced, SameBut
<1>. QED
  BY <1>1, <1>2, <1>3 DEF Kept

LEMMA CarriesNone ==
  ASSUME NEW d, Sound(d)
  PROVE  Carries(<< >>, d, 0)
<1>1. PICK h \in Nat, l \in Nat : h = Ahead(d) /\ l = Len(d) /\ h <= l
  BY SoundLengths, AheadIs
<1>2. << >> \in Seq(Byte) /\ Len(<< >>) = 0 /\ d \in Seq(Byte)
  BY EmptySeq DEF Sound
<1>3. Rides(<< >>, d, h)
  BY <1>1, <1>2 DEF Rides
<1>. QED
  BY <1>1, <1>2, <1>3, PayloadNone DEF Carries

LEMMA CarriesMore ==
  ASSUME NEW w \in Seq(Seq(Byte)), NEW d, Sound(d), NEW c \in Nat, Carries(w, d, c),
         NEW f, Heads(f, d), HeaderRight(f), NEW n \in Nat, Len(Rest(f)) = n,
         Rides(Rest(f), d, Ahead(d) + c)
  PROVE  Carries(Append(w, f), d, c + n)
<1>. DEFINE x == Append(w, f)
<1>1. PICK h \in Nat : h = Ahead(d)
  BY AheadIs, SoundLengths
<1>2. f \in Seq(Byte) /\ Len(f) >= 34
  BY HeadsSame DEF Heads
<1>3. \A i \in 1..Len(w) : Len(w[i]) >= 34
  BY HeadsSame DEF Carries
<1>4. PayloadOf(x) = PayloadOf(w) \o Rest(f)
  BY <1>2, <1>3, PayloadAppend
<1>5. PICK k \in Nat : k = Len(w)
  BY LenProperties
<1>6. Len(x) = k + 1 /\ x[k + 1] = f /\ \A i \in 1..k : x[i] = w[i]
  BY <1>2, <1>5, AppendProperties
<1>. HIDE DEF x
<1>7. \A i \in 1..Len(x) : Heads(x[i], d) /\ HeaderRight(x[i])
  <2>1. \A i \in 1..k : Heads(w[i], d) /\ HeaderRight(w[i])
    BY <1>5 DEF Carries
  <2>2. \A i \in 1..k + 1 : i \in 1..k \/ i = k + 1
    OBVIOUS
  <2>. QED
    BY <1>6, <2>1, <2>2
<1>8. Rides(PayloadOf(w), d, h) /\ c = Len(PayloadOf(w)) /\ Rides(Rest(f), d, h + c)
  BY <1>1 DEF Carries
<1>9. Rides(PayloadOf(x), d, h) /\ Len(PayloadOf(x)) = c + n
  <2>. DEFINE q == PayloadOf(w)
              t == Rest(f)
  <2>1. PICK a \in Nat : Rides(q, d, h) /\ c = Len(q) /\ Rides(t, d, a) /\ a = h + c
    <3>1. PICK a \in Nat : a = h + c
      OBVIOUS
    <3>. QED
      BY <1>8, <3>1
  <2>2. PayloadOf(x) = q \o t /\ Len(t) = n
    BY <1>4
  <2>. HIDE DEF q, t
  <2>3. Rides(q \o t, d, h) /\ Len(q \o t) = c + Len(t)
    BY <2>1, RidesOn
  <2>. QED
    BY <2>2, <2>3
<1>10. Carries(x, d, c + n)
  BY <1>1, <1>7, <1>9 DEF Carries
<1>. QED
  BY <1>10 DEF x

\* do_fragment: a header and a piece.
LEMMA FragmentMade ==
  ASSUME Types, Traced, NEW n \in Nat, cut + n <= payload_length(data),
         NEW placed, SameBut(set_packet_length(Header, get_length(data) + n), placed, 21..22),
         NEW f, Follows(f, fix_header_checksum(placed), Piece(n))
  PROVE  /\ f \in Seq(Byte) /\ Heads(f, data) /\ HeaderRight(f)
         /\ Len(f) = Ahead(data) + n
         /\ packet_length(f) = get_length(data) + n
         /\ Len(Rest(f)) = n /\ Rides(Rest(f), data, Ahead(data) + cut)
         /\ \A i \in 1..n : f[Ahead(data) + i] = Rest(f)[i]
<1>. DEFINE e == fix_header_checksum(placed)
<1>1. Sound(data) /\ data \in Seq(Byte)
  BY DEF Traced, Sound
<1>2. PICK h \in Nat, p \in Nat, g \in Nat :
        /\ h = get_abs_upper_offset(data) /\ h = Ahead(data) /\ h >= 34
        /\ p = payload_length(data) /\ h + p <= Len(data)
        /\ g = get_length(data) /\ packet_length(data) = g + p
  <2>1. PICK h \in Nat, p \in Nat :
          /\ h = get_abs_upper_offset(data) /\ h >= 34
          /\ p = payload_length(data) /\ h + p <= Len(data)
          /\ packet_length(data) = get_length(data) + p
    BY <1>1, SoundLengths
  <2>2. get_length(data) \in Nat
    BY <1>1, HeaderTypes DEF Sound
  <2>. QED
    BY <1>1, <2>1, <2>2, AheadIs
<1>3. PICK m \in Nat : m = g + n /\ m <= 65535
  <2>1. PICK v \in Nat : v = packet_length(data) /\ v <= 65535
    BY <1>1, HeaderTypes, SMT DEF Sound
  <2>2. cut \in Nat
    BY DEF Types
  <2>. QED
    BY <1>2, <2>1, <2>2, SMTT(60)
<1>4. SameBut(set_packet_length(SubSeq(data, 1, h), m), placed, 21..22)
  <2>1. h = get_abs_upper_offset(data) /\ m = get_length(data) + n
    BY <1>2, <1>3
  <2>. QED
    BY <2>1, Zenon DEF Header
<1>. HIDE DEF e
<1>10. e = fix_header_checksum(placed)
  BY DEF e
<1>5. /\ e \in Seq(Byte) /\ Len(e) = h
      /\ HeaderRight(e) /\ packet_length(e) = m /\ Heads(e, data)
  <2>1. h = get_abs_upper_offset(data)
    BY <1>2
  <2>. QED
    BY <1>1, <1>3, <1>4, <1>10, <2>1, FragmentHeader
<1>6. PICK c \in Nat, a \in Nat : c = cut /\ a = h + c /\ a + n <= Len(data)
  <2>1. PICK c \in Nat, l \in Nat : c = cut /\ l = Len(data)
    BY <1>1, LenProperties DEF Types
  <2>2. c + n <= p /\ h + p <= l
    BY <1>2, <2>1
  <2>3. h + c \in Nat /\ h + c + n <= l
    BY <2>2
  <2>. QED
    BY <2>1, <2>3
<1>7. Rides(Piece(n), data, a) /\ Len(Piece(n)) = n /\ Piece(n) \in Seq(Byte)
  <2>1. Rides(Field(data, a + 1, n), data, a) /\ Len(Field(data, a + 1, n)) = n
    BY <1>1, <1>6, PieceRides
  <2>2. Piece(n) = Field(data, a + 1, n)
    BY <1>2, <1>6 DEF Piece
  <2>. QED
    BY <2>1, <2>2 DEF Rides
<1>8. Follows(f, e, Piece(n))
  BY <1>10
<1>9. /\ f \in Seq(Byte) /\ Len(f) = h + Len(Piece(n))
      /\ Heads(f, data) /\ HeaderRight(f) /\ packet_length(f) = packet_length(e)
      /\ Rest(f) = Piece(n)
      /\ \A i \in 1..Len(Piece(n)) : f[h + i] = Piece(n)[i]
  <2>. DEFINE t == Piece(n)
  <2>1. h = get_abs_upper_offset(data)
    BY <1>2
  <2>2. t \in Seq(Byte) /\ Follows(f, e, t)
    BY <1>7, <1>8
  <2>. HIDE DEF t
  <2>3. Laid(f, t, data, h) /\ packet_length(f) = packet_length(e)
    BY <1>1, <1>5, <2>1, <2>2, HeaderAndRest
  <2>. QED
    BY <2>3 DEF t, Laid
<1>11. h = Ahead(data) /\ m = get_length(data) + n /\ a = Ahead(data) + cut
  BY <1>2, <1>3, <1>6
<1>. QED
  BY <1>5, <1>7, <1>9, <1>11

\* The packet as a whole is a frame.
LEMMA WholeFrame ==
  ASSUME Types, Traced, Addressed,
         NEW f, f = SubSeq(data, 1, eth_length + packet_length(data))
  PROVE  /\ f \in Seq(Byte) /\ Heads(f, data) /\ HeaderRight(f)
         /\ Rides(Rest(f), data, Ahead(data)) /\ Len(Rest(f)) = payload_length(data)
<1>1. Sound(data) /\ data \in Seq(Byte) /\ Len(data) >= 34
  BY DEF Traced, Sound
<1>2. PICK h \in Nat, p \in Nat, l \in Nat :
        /\ h = get_abs_upper_offset(data) /\ h >= 34 /\ p = payload_length(data)
        /\ l = Len(data) /\ h + p <= l
        /\ packet_length(data) = get_length(data) + p /\ h = 14 + get_length(data)
  BY <1>1, SoundLengths
<1>3. get_length(data) \in Nat
  BY <1>1, HeaderTypes
<1>4. PICK t \in Nat : t = eth_length + packet_length(data) /\ t = h + p
  BY <1>2, <1>3 DEF eth_length
<1>5. f \in Seq(Byte) /\ Len(f) = t /\ \A i \in 1..t : f[i] = data[i]
  <2>1. PICK at \in Nat \ {0} : at = 1
    OBVIOUS
  <2>2. at + t - 1 <= Len(data)
    BY <1>2, <1>4, <2>1
  <2>3. /\ Field(data, at, t) \in Seq(Byte) /\ Len(Field(data, at, t)) = t
        /\ \A i \in 1..t : Field(data, at, t)[i] = data[at + i - 1]
    BY <1>1, <2>2, FieldAt
  <2>4. Field(data, at, t) = f
    BY <1>4, <2>1 DEF Field
  <2>5. \A i \in 1..t : at + i - 1 = i
    BY <2>1
  <2>. QED
    BY <2>3, <2>4, <2>5
<1>6. Heads(f, data)
  BY <1>2, <1>4, <1>5, SMTT(60) DEF Heads
<1>7. HeaderRight(f)
  <2>1. \A i \in Nat : 15 <= i /\ i <= 34 => f[i] = data[i]
    BY <1>2, <1>4, <1>5, SMTT(60)
  <2>2. Len(f) >= 34
    BY <1>2, <1>4, <1>5
  <2>. QED
    BY <1>1, <1>5, <2>1, <2>2, HeaderEqual DEF Addressed
<1>8. h = Ahead(data) /\ h = Ahead(f)
  BY <1>1, <1>2, <1>6, AheadIs, HeadsSame
<1>9. Rides(Rest(f), data, h) /\ Len(Rest(f)) = p
  <2>1. PICK at \in Nat \ {0} : at = h + 1
    OBVIOUS
  <2>2. at + p - 1 = t
    BY <1>4, <2>1
  <2>3. at + p - 1 <= Len(f)
    BY <1>5, <2>2
  <2>4. /\ Field(f, at, p) \in Seq(Byte) /\ Len(Field(f, at, p)) = p
        /\ \A i \in 1..p : Field(f, at, p)[i] = f[at + i - 1]
    <3>1. PICK e \in Seq(Byte) : e = f
      BY <1>5
    <3>2. at + p - 1 <= Len(e)
      BY <2>3, <3>1
    <3>3. /\ Field(e, at, p) \in Seq(Byte) /\ Len(Field(e, at, p)) = p
          /\ \A i \in 1..p : Field(e, at, p)[i] = e[at + i - 1]
      BY <3>2, FieldAt
    <3>. QED
      BY <3>1, <3>3
  <2>5. Field(f, at, p) = Rest(f)
    BY <1>5, <1>8, <2>1, <2>2 DEF Field, Rest
  <2>6. \A i \in 1..p : at + i - 1 \in 1..t /\ at + i - 1 = h + i
    BY <1>4, <2>1
  <2>7. \A i \in 1..p : Rest(f)[i] = data[h + i]
    BY <1>5, <2>4, <2>5, <2>6
  <2>. QED
    BY <1>1, <1>2, <2>4, <2>5, <2>7 DEF Rides
<1>. QED
  BY <1>2, <1>5, <1>6, <1>7, <1>8, <1>9

\* What left is all there is to sum.
LEMMA CarriesFramed ==
  ASSUME Types, Traced, Addressed, NEW n \in Nat, wire' \in Seq(Seq(Byte)),
         Carries(wire', data, n),
         Complete' /\ upper_protocol(given) \in {tcp, udp} =>
           n = payload_length(data) /\ UpperRight(data),
         data' = data, given' = given, first_packet_only' = first_packet_only
  PROVE  Framed'
<1>1. Sound(data)
  BY DEF Traced
<1>2. \A i \in 1..Len(wire') : Heads(wire'[i], data) /\ HeaderRight(wire'[i])
  BY DEF Carries
<1>3. Rides(PayloadOf(wire'), data, Ahead(data)) /\ Len(PayloadOf(wire')) = n
  BY DEF Carries
<1>4. Kept(PayloadOf(wire'), given)
  BY <1>3, RidesKept
<1>5. ASSUME Complete', upper_protocol(given) \in {tcp, udp}
      PROVE  Summed(Addresses(data), upper_protocol(given), PayloadOf(wire'))
  <2>1. UpperRight(data) /\ n = payload_length(data)
    BY <1>5
  <2>2. PayloadOf(wire') = IpPayload(data)
    BY <1>1, <1>3, <2>1, AheadIs, RidesAll
  <2>3. upper_protocol(data) = upper_protocol(given)
    BY TracedHeader
  <2>4. Summed(Addresses(data), upper_protocol(data), IpPayload(data))
    BY <1>1, <2>1, UpperSummed
  <2>. QED
    BY <2>2, <2>3, <2>4
<1>. QED
  BY <1>2, <1>4, <1>5 DEF Framed

\* The first fragment alone is a packet.
LEMMA FirstFramed ==
  ASSUME Types, Traced, Addressed, wire = << >>,
         NEW n \in Nat, n >= 20, n <= payload_length(data),
         NEW d, d \in Seq(Byte), Heads(d, data), HeaderRight(d),
         Len(d) = Ahead(data) + n, packet_length(d) = get_length(data) + n,
         Rides(Rest(d), data, Ahead(data)), Len(Rest(d)) = n,
         \A i \in 1..n : d[Ahead(data) + i] = Rest(d)[i],
         wire' = Append(wire, fix_checksum(d)),
         data' = data, given' = given, first_packet_only' = first_packet_only
  PROVE  Framed' /\ fix_checksum(d) \in Seq(Byte)
<1>. DEFINE f == fix_checksum(d)
            P == SumPlaces(d)
<1>1. Sound(data) /\ data \in Seq(Byte)
  BY DEF Traced, Sound
<1>2. /\ get_length(d) = get_length(data) /\ Ahead(d) = Ahead(data)
      /\ upper_protocol(d) = upper_protocol(data) /\ Addresses(d) = Addresses(data)
      /\ Len(d) >= 34
  BY <1>1, HeadsSame
<1>3. PICK h \in Nat, g \in Nat : h = Ahead(data) /\ h >= 34 /\ g = get_length(data) /\ g >= 20 /\ h = 14 + g
  <2>1. get_length(data) \in Nat /\ get_length(data) >= 20
    BY <1>1, HeaderTypes DEF Sound
  <2>. QED
    BY <2>1 DEF Ahead, eth_length
<1>4. upper_header_length(d) \in Nat /\ upper_header_length(d) <= 20
  BY DEF upper_header_length, sizeof_tcp_header, sizeof_udp_header
<1>5. Sound(d)
  <2>1. packet_length(d) = g + n /\ Len(d) = h + n /\ get_length(d) = g
    BY <1>2, <1>3
  <2>2. eth_length + packet_length(d) <= Len(d)
    BY <1>3, <2>1 DEF eth_length
  <2>3. packet_length(d) >= get_length(d) + upper_header_length(d)
    BY <1>3, <1>4, <2>1
  <2>. QED
    BY <1>2, <1>3, <2>1, <2>2, <2>3 DEF Sound
<1>6. SameBut(d, f, P) /\ (upper_protocol(d) \in {tcp, udp} => UpperRight(f))
  BY <1>5, ChecksumFixed
<1>7. \A i \in P : i > h
  <2>1. h = Ahead(d)
    BY <1>2, <1>3
  <2>. QED
    BY <2>1, SumsAhead
<1>8. P = SumPlaces(given)
  <2>1. SumPlaces(d) = SumPlaces(data)
    BY <1>2, Zenon DEF SumPlaces
  <2>. QED
    BY <2>1, TracedHeader
<1>. HIDE DEF f, P
<1>9. f \in Seq(Byte) /\ Len(f) = h + n /\ \A i \in 1..h + n : i \notin P => f[i] = d[i]
  <2>1. Len(d) = h + n
    BY <1>3
  <2>. QED
    BY <1>6, <2>1 DEF SameBut
<1>10. Heads(f, data)
  <2>1. h = get_abs_upper_offset(data)
    BY <1>1, <1>3, AheadIs
  <2>2. \A i \in 1..h : i \in 1..h + n /\ i \notin P
    BY <1>7
  <2>3. \A i \in 1..h : i \notin Words => d[i] = data[i]
    BY <2>1 DEF Heads
  <2>4. \A i \in 1..h : i \notin Words => f[i] = data[i]
    BY <1>9, <2>2, <2>3
  <2>. QED
    BY <1>9, <2>1, <2>4 DEF Heads
<1>11. /\ \A i \in Nat : 15 <= i /\ i <= 34 => i \notin P
       /\ \A i \in Nat : 15 <= i /\ i <= 24 => i \notin P
  BY <1>3, <1>7
<1>12. HeaderRight(f) /\ Sound(f) /\ packet_length(f) = packet_length(d)
  BY <1>2, <1>5, <1>6, <1>11, HeaderSame, LengthsSame
<1>13. /\ Ahead(f) = h /\ upper_protocol(f) = upper_protocol(data)
       /\ Addresses(f) = Addresses(data) /\ get_length(f) = g
  BY <1>1, <1>3, <1>10, HeadsSame
<1>14. payload_length(f) = n /\ get_abs_upper_offset(f) = h
  <2>1. packet_length(f) = g + n /\ get_length(f) = g
    BY <1>3, <1>12, <1>13
  <2>2. PICK p \in Nat : p = payload_length(f) /\ packet_length(f) = get_length(f) + p
    BY <1>12, SoundLengths
  <2>. QED
    BY <1>12, <1>13, <2>1, <2>2, AheadIs
<1>15. /\ IpPayload(f) \in Seq(Byte) /\ Len(IpPayload(f)) = n
       /\ \A i \in 1..n : IpPayload(f)[i] = f[h + i]
  <2>1. h + n <= Len(f)
    BY <1>9
  <2>2. h = get_abs_upper_offset(f) /\ n = payload_length(f)
    BY <1>14
  <2>. QED
    BY <1>9, <2>1, <2>2, PayloadAt
<1>16. Rest(f) = IpPayload(f)
  <2>1. h + 1 + n - 1 = h + n
    OBVIOUS
  <2>. QED
    BY <1>9, <1>13, <1>14, <2>1 DEF Rest, IpPayload, Field
<1>17. Kept(Rest(f), given)
  <2>1. Ahead(given) = h
    BY <1>3, TracedHeader
  <2>2. Kept(Rest(d), given)
    BY RidesKept
  <2>3. /\ h + n <= Len(given)
        /\ \A i \in 1..n : h + i \in P \/ Rest(d)[i] = given[h + i]
    BY <1>8, <2>1, <2>2 DEF Kept
  <2>4. \A i \in 1..n : h + i \in P \/ f[h + i] = Rest(d)[i]
    <3>1. \A i \in 1..n : h + i \in 1..h + n
      OBVIOUS
    <3>2. \A i \in 1..n : d[h + i] = Rest(d)[i]
      BY <1>3
    <3>. QED
      BY <1>9, <3>1, <3>2
  <2>5. \A i \in 1..n : h + i \in P \/ Rest(f)[i] = given[h + i]
    BY <1>15, <1>16, <2>3, <2>4
  <2>. QED
    BY <1>8, <1>15, <1>16, <2>1, <2>3, <2>5 DEF Kept
<1>18. wire' = Append(<< >>, f) /\ PayloadOf(wire') = Rest(f)
  <2>1. wire' = Append(<< >>, f)
    BY DEF f
  <2>2. Len(f) >= 34
    BY <1>3, <1>9
  <2>. QED
    BY <1>9, <2>1, <2>2, PayloadOne
<1>19. \A i \in 1..Len(wire') : Heads(wire'[i], data) /\ HeaderRight(wire'[i])
  <2>1. Len(wire') = 1 /\ wire'[1] = f
    BY <1>18
  <2>. QED
    BY <1>10, <1>12, <2>1
<1>20. ASSUME upper_protocol(given) \in {tcp, udp}
       PROVE  Summed(Addresses(data), upper_protocol(given), PayloadOf(wire'))
  <2>1. upper_protocol(data) = upper_protocol(given)
    BY TracedHeader
  <2>2. UpperRight(f)
    BY <1>2, <1>6, <1>20, <2>1
  <2>3. Summed(Addresses(f), upper_protocol(f), IpPayload(f))
    BY <1>12, <2>2, UpperSummed
  <2>. QED
    BY <1>13, <1>16, <1>18, <2>1, <2>3
<1>. QED
  BY <1>9, <1>17, <1>18, <1>19, <1>20 DEF Framed, f

-----------------------------------------------------------------------------
(* The steps.                                                              *)

LEMMA InitInv == Init => RewriteInv
<1>. SUFFICES ASSUME Init
              PROVE  RewriteInv
  OBVIOUS
<1>1. Types
  BY FramesAssumption, EmptySeq DEF Init, Types
<1>. QED
  BY <1>1 DEF Init, RewriteInv

LEMMA RepairInv ==
  ASSUME RewriteInv, Repair
  PROVE  RewriteInv'
<1>. USE DEF Repair
<1>1. Types'
  BY DEF RewriteInv, Types
<1>2. data = given /\ wire = << >> /\ cut = 0
  BY DEF RewriteInv
<1>3. CASE get_payload_type(data) # ipv4
  BY <1>1, <1>2, <1>3 DEF RewriteInv
<1>4. CASE get_payload_type(data) = ipv4
  <2>1. Traced'
    BY <1>2, <1>4, RepairedStep DEF RewriteInv
  <2>. QED
    BY <1>1, <1>2, <1>4, <2>1 DEF RewriteInv
<1>. QED
  BY <1>3, <1>4

LEMMA AddressInv ==
  ASSUME RewriteInv, Address
  PROVE  RewriteInv'
<1>1. Types /\ Traced /\ wire = << >> /\ cut = 0
  BY DEF Address, RewriteInv
<1>2. Types'
  BY <1>1 DEF Address, Types
<1>3. Traced' /\ Addressed'
  BY <1>1, AddressedStep DEF Address
<1>. QED
  BY <1>1, <1>2, <1>3 DEF Address, RewriteInv

LEMMA FixChecksumInv ==
  ASSUME RewriteInv, FixChecksum
  PROVE  RewriteInv'
<1>1. Types /\ Traced /\ Addressed /\ wire = << >> /\ cut = 0
  BY DEF FixChecksum, RewriteInv
<1>2. Types'
  BY <1>1 DEF FixChecksum, Types
<1>3. /\ Traced' /\ Addressed' /\ packet_length(data') = packet_length(data)
      /\ upper_protocol(given) \in {tcp, udp} => UpperRight(data')
  BY <1>1, FixedStep DEF FixChecksum
<1>4. ASSUME stage' = "cutting"
      PROVE  Cutting'
  <2>1. packet_length(data') > mtu_default
    BY <1>3, <1>4 DEF FixChecksum
  <2>2. Sound(data')
    BY <1>3 DEF Traced
  <2>3. PICK p \in Nat : p = payload_length(data') /\ packet_length(data') = get_length(data') + p
    BY <2>2, SoundLengths
  <2>4. PICK g \in Nat, m \in Nat : g = get_length(data') /\ m = mtu_default /\ m >= g + 20
    <3>1. get_length(data') = get_length(given)
      <4>1. Len(given) >= 34 /\ get_length(given) >= 20
        BY <1>1, GivenWhole DEF Traced
      <4>2. SameBut(given, data', Places(given))
        BY <1>3 DEF Traced, FixChecksum
      <4>. QED
        BY <4>1, <4>2, KeptHeader
    <3>. QED
      BY <1>1, <3>1, GivenWhole DEF Traced
  <2>5. p > 0
    BY <2>1, <2>3, <2>4
  <2>6. Carries(<< >>, data', 0)
    BY <2>2, CarriesNone
  <2>. QED
    BY <1>1, <2>1, <2>3, <2>5, <2>6 DEF Cutting, FixChecksum
<1>. QED
  BY <1>1, <1>2, <1>3, <1>4 DEF FixChecksum, RewriteInv

LEMMA SendInv ==
  ASSUME RewriteInv, Send
  PROVE  RewriteInv'
<1>. DEFINE f == SubSeq(data, 1, eth_length + packet_length(data))
<1>1. /\ Types /\ Traced /\ Addressed /\ wire = << >> /\ cut = 0
      /\ upper_protocol(given) \in {tcp, udp} => UpperRight(data)
  BY DEF Send, RewriteInv
<1>2. /\ f \in Seq(Byte) /\ Heads(f, data) /\ HeaderRight(f)
      /\ Rides(Rest(f), data, Ahead(data)) /\ Len(Rest(f)) = payload_length(data)
  BY <1>1, WholeFrame
<1>. HIDE DEF f
<1>3. CASE Refused
  <2>1. Types'
    BY <1>1, <1>3 DEF Send, Refused, Types
  <2>. QED
    BY <1>1, <1>3, <2>1 DEF Send, Refused, RewriteInv
<1>4. CASE wire' = Append(wire, f)
  <2>1. wire' \in Seq(Seq(Byte))
    BY <1>1, <1>2, <1>4, AppendProperties DEF Types
  <2>2. Types'
    BY <1>1, <2>1 DEF Send, Types
  <2>3. PICK p \in Nat : p = payload_length(data)
    BY <1>1, SoundLengths DEF Traced
  <2>4. Carries(wire', data, p)
    <3>1. Carries(wire, data, 0) /\ wire \in Seq(Seq(Byte)) /\ Sound(data)
      BY <1>1, CarriesNone DEF Traced, Types
    <3>2. Ahead(data) + 0 = Ahead(data)
      BY <3>1, AheadIs, SoundLengths
    <3>3. PICK z \in Nat : z = 0
      OBVIOUS
    <3>4. Carries(wire, data, z) /\ Rides(Rest(f), data, Ahead(data) + z) /\ z + p = p
      BY <1>2, <3>1, <3>2, <3>3
    <3>5. Carries(Append(wire, f), data, z + p)
      BY <1>2, <2>3, <3>1, <3>4, CarriesMore
    <3>. QED
      BY <1>4, <3>4, <3>5
  <2>5. Framed'
    BY <1>1, <2>1, <2>3, <2>4, CarriesFramed DEF Send
  <2>6. Traced' /\ Addressed'
    BY <1>1 DEF Send, Traced, Addressed
  <2>. QED
    BY <2>2, <2>5, <2>6 DEF Send, RewriteInv
<1>. QED
  BY <1>3, <1>4 DEF Send, Sent, f

\* The length of a fragment has 16 bits, and its header room for it.
LEMMA LongHeader ==
  ASSUME Types, Traced, NEW n \in Nat, cut + n <= payload_length(data),
         NEW long, long = set_packet_length(Header, get_length(data) + n)
  PROVE  /\ SameBut(long, clear_more_fragments(long), 21..22)
         /\ SameBut(long, set_fragment_offset(long, cut), 21..22)
         /\ SameBut(long, clear_more_fragments(set_fragment_offset(long, cut)), 21..22)
<1>1. Sound(data) /\ data \in Seq(Byte) /\ cut \in Nat
  BY DEF Traced, Sound, Types
<1>2. PICK h \in Nat, l \in Nat, p \in Nat :
        /\ h = get_abs_upper_offset(data) /\ h >= 34 /\ l = Len(data) /\ h + p <= l
        /\ p = payload_length(data) /\ packet_length(data) = get_length(data) + p
  BY <1>1, SoundLengths
<1>3. PICK m \in Nat : m = get_length(data) + n /\ m <= 65535
  <2>1. PICK v \in Nat, g \in Nat : v = packet_length(data) /\ v <= 65535 /\ g = get_length(data)
    BY <1>1, HeaderTypes, SMT DEF Sound
  <2>2. g + n <= v
    BY <1>1, <1>2, <2>1
  <2>. QED
    BY <2>1, <2>2
<1>4. Header \in Seq(Byte) /\ Len(Header) = h
  <2>1. PICK at \in Nat \ {0} : at = 1
    OBVIOUS
  <2>2. at + h - 1 <= Len(data) /\ at + h - 1 = h
    BY <1>2, <2>1
  <2>3. Field(data, at, h) \in Seq(Byte) /\ Len(Field(data, at, h)) = h
    BY <1>1, <2>2, FieldAt
  <2>4. Field(data, at, h) = Header
    BY <1>2, <2>1, <2>2 DEF Field, Header
  <2>. QED
    BY <2>3, <2>4
<1>5. SameBut(Header, long, 17..18)
  <2>. DEFINE top == Header
  <2>1. top \in Seq(Byte) /\ Len(top) >= 34
    BY <1>2, <1>4
  <2>2. long = set_packet_length(top, m)
    BY <1>3
  <2>. HIDE DEF top
  <2>3. SameBut(top, long, 17..18)
    BY <1>3, <2>1, <2>2, LengthSet
  <2>. QED
    BY <2>3 DEF top
<1>6. long \in Seq(Byte) /\ Len(long) >= 34
  BY <1>2, <1>4, <1>5 DEF SameBut
<1>7. SameBut(long, clear_more_fragments(long), 21..22)
  BY <1>6, FragmentWord
<1>. DEFINE there == set_fragment_offset(long, cut)
<1>8. SameBut(long, there, 21..22)
  BY <1>1, <1>6, FragmentWord
<1>9. SameBut(long, clear_more_fragments(there), 21..22)
  <2>. HIDE DEF there
  <2>. DEFINE P == 21..22
  <2>1. there \in Seq(Byte) /\ Len(there) >= 34
    BY <1>6, <1>8 DEF SameBut
  <2>2. SameBut(long, there, P) /\ SameBut(there, clear_more_fragments(there), P)
    BY <1>8, <2>1, FragmentWord
  <2>. HIDE DEF P
  <2>3. SameBut(long, clear_more_fragments(there), P \cup P)
    BY <2>2, SameTwice
  <2>4. P \cup P = P
    OBVIOUS
  <2>. QED
    BY <2>3, <2>4 DEF P
<1>. QED
  BY <1>7, <1>8, <1>9

LEMMA Incomplete ==
  ASSUME NEW n \in Nat, Carries(wire', data, n), payload_length(data) \in Nat,
         n < payload_length(data),
         first_packet_only' => wire' = << >>, data' = data
  PROVE  ~Complete'
<1>1. Len(PayloadOf(wire')) = n
  BY DEF Carries
<1>2. Payload' = PayloadOf(wire')
  BY DEF Payload, PayloadOf, Rest
<1>. QED
  BY <1>1, <1>2 DEF Complete

\* A refused fragment ends the packet: what left is not all.
LEMMA RefusedFramed ==
  ASSUME Types, Traced, Addressed, Cutting, wire' = wire, data' = data, given' = given,
         first_packet_only' = first_packet_only
  PROVE  Framed'
<1>1. PICK p \in Nat : p = payload_length(data)
  BY SoundLengths DEF Traced
<1>2. PICK c \in Nat : c = cut /\ Carries(wire', data, c) /\ c < p
  BY <1>1 DEF Types, Cutting
<1>3. first_packet_only' => wire' = << >>
  BY DEF Cutting
<1>4. ~Complete'
  BY <1>1, <1>2, <1>3, Incomplete
<1>5. wire' \in Seq(Seq(Byte))
  BY DEF Types
<1>. QED
  BY <1>2, <1>4, <1>5, CarriesFramed

LEMMA LastFragmentInv ==
  ASSUME RewriteInv, LastFragment
  PROVE  RewriteInv'
<1>1. /\ Types /\ Traced /\ Addressed /\ Cutting
      /\ upper_protocol(given) \in {tcp, udp} => UpperRight(data)
  BY DEF LastFragment, RewriteInv
<1>2. PICK p \in Nat, c \in Nat, n \in Nat :
        p = payload_length(data) /\ c = cut /\ c < p /\ n = ip_payload_length /\ c + n = p
  <2>1. PICK p \in Nat, c \in Nat : p = payload_length(data) /\ c = cut /\ c < p
    BY <1>1, SoundLengths DEF Traced, Types, Cutting
  <2>. QED
    BY <2>1 DEF ip_payload_length
<1>. DEFINE long == set_packet_length(Header, get_length(data) + n)
            placed == clear_more_fragments(set_fragment_offset(long, cut))
            f == fix_header_checksum(placed) \o Piece(n)
<1>3. SameBut(long, placed, 21..22)
  BY <1>1, <1>2, LongHeader
<1>4. /\ f \in Seq(Byte) /\ Heads(f, data) /\ HeaderRight(f)
      /\ Len(Rest(f)) = n /\ Rides(Rest(f), data, Ahead(data) + cut)
  <2>1. Follows(f, fix_header_checksum(placed), Piece(n)) /\ cut + n <= payload_length(data)
    BY <1>2 DEF Follows
  <2>. HIDE DEF placed, f
  <2>. QED
    BY <1>1, <1>3, <2>1, FragmentMade
<1>5. wire' = Append(wire, f) \/ Refused
  BY <1>2 DEF LastFragment, Sent
<1>. HIDE DEF f
<1>6. /\ stage' = "done" /\ cut' = c + n
      /\ UNCHANGED <<given, data, ends, first_packet_only>>
  BY <1>2 DEF LastFragment
<1>7. Traced' /\ Addressed'
  BY <1>1, <1>6 DEF Traced, Addressed
<1>8. CASE wire' = Append(wire, f)
  <2>1. wire \in Seq(Seq(Byte)) /\ Sound(data) /\ Carries(wire, data, c)
    BY <1>1, <1>2 DEF Types, Traced, Cutting
  <2>2. wire' \in Seq(Seq(Byte))
    BY <1>4, <1>8, <2>1, AppendProperties
  <2>3. Carries(wire', data, p)
    <3>1. Rides(Rest(f), data, Ahead(data) + c)
      BY <1>2, <1>4
    <3>2. Carries(Append(wire, f), data, c + n)
      BY <1>4, <2>1, <3>1, CarriesMore
    <3>. QED
      BY <1>2, <1>8, <3>2
  <2>4. Framed'
    BY <1>1, <1>2, <1>6, <2>2, <2>3, CarriesFramed
  <2>5. Types'
    BY <1>1, <1>6, <2>2 DEF Types
  <2>. QED
    BY <1>6, <1>7, <2>4, <2>5 DEF RewriteInv
<1>9. CASE Refused
  <2>1. Framed'
    BY <1>1, <1>6, <1>9, RefusedFramed DEF Refused
  <2>2. Types'
    BY <1>1, <1>6, <1>9 DEF Types, Refused
  <2>. QED
    BY <1>6, <1>7, <2>1, <2>2 DEF RewriteInv
<1>. QED
  BY <1>5, <1>8, <1>9

LEMMA FullFragmentInv ==
  ASSUME RewriteInv, FullFragment
  PROVE  RewriteInv'
<1>1. /\ Types /\ Traced /\ Addressed /\ Cutting
      /\ upper_protocol(given) \in {tcp, udp} => UpperRight(data)
  BY DEF FullFragment, RewriteInv
<1>2. PICK p \in Nat, c \in Nat, n \in Nat :
        /\ p = payload_length(data) /\ c = cut
        /\ n = ip_payload_max /\ n >= 20 /\ c + n < p
  <2>1. PICK p \in Nat, c \in Nat : p = payload_length(data) /\ c = cut /\ c < p
    BY <1>1, SoundLengths DEF Traced, Types, Cutting
  <2>2. PICK g \in Nat, m \in Nat : g = get_length(data) /\ m = mtu_default /\ m >= g + 20
    BY <1>1, TracedHeader, GivenWhole DEF Traced
  <2>3. ip_payload_max = m - g /\ ip_payload_length = p - c /\ ip_payload_length > ip_payload_max
    BY <2>1, <2>2 DEF FullFragment, ip_payload_max, ip_payload_length
  <2>4. m - g \in Nat /\ m - g >= 20 /\ c + (m - g) < p
    BY <2>1, <2>2, <2>3
  <2>. QED
    BY <2>1, <2>3, <2>4
<1>. DEFINE long == set_packet_length(Header, get_length(data) + n)
            placed == IF first_packet_only THEN clear_more_fragments(long)
                      ELSE set_fragment_offset(long, cut)
            f == fix_header_checksum(placed) \o Piece(n)
<1>3. SameBut(long, placed, 21..22)
  BY <1>1, <1>2, LongHeader
<1>4. /\ f \in Seq(Byte) /\ Heads(f, data) /\ HeaderRight(f)
      /\ Len(f) = Ahead(data) + n /\ packet_length(f) = get_length(data) + n
      /\ Len(Rest(f)) = n /\ Rides(Rest(f), data, Ahead(data) + cut)
      /\ \A i \in 1..n : f[Ahead(data) + i] = Rest(f)[i]
  <2>1. Follows(f, fix_header_checksum(placed), Piece(n)) /\ cut + n <= payload_length(data)
    BY <1>2 DEF Follows
  <2>. HIDE DEF placed, f
  <2>. QED
    BY <1>1, <1>3, <2>1, FragmentMade
<1>5. \/ /\ wire' = Append(wire, IF first_packet_only THEN fix_checksum(f) ELSE f)
         /\ stage' = IF first_packet_only THEN "done" ELSE "cutting"
      \/ Refused /\ stage' = "done"
  BY <1>2 DEF FullFragment, Sent
<1>. HIDE DEF f
<1>6. cut' = c + n /\ UNCHANGED <<given, data, ends, first_packet_only>>
  BY <1>2 DEF FullFragment
<1>7. Traced' /\ Addressed'
  BY <1>1, <1>6 DEF Traced, Addressed
<1>8. CASE Refused /\ stage' = "done"
  <2>1. Framed'
    BY <1>1, <1>6, <1>8, RefusedFramed DEF Refused
  <2>2. Types'
    BY <1>1, <1>6, <1>8 DEF Types, Refused
  <2>. QED
    BY <1>7, <1>8, <2>1, <2>2 DEF RewriteInv
<1>9. CASE first_packet_only /\ wire' = Append(wire, fix_checksum(f)) /\ stage' = "done"
  <2>1. wire = << >> /\ cut = 0
    BY <1>1, <1>9 DEF Cutting
  <2>2. Rides(Rest(f), data, Ahead(data))
    <3>1. Ahead(data) + 0 = Ahead(data)
      BY <1>1, AheadIs, SoundLengths DEF Traced
    <3>. QED
      BY <1>4, <2>1, <3>1
  <2>3. Framed' /\ fix_checksum(f) \in Seq(Byte)
    <3>1. n <= payload_length(data)
      BY <1>2
    <3>. QED
      BY <1>1, <1>2, <1>4, <1>6, <1>9, <2>1, <2>2, <3>1, FirstFramed
  <2>4. wire' \in Seq(Seq(Byte))
    <3>1. wire \in Seq(Seq(Byte))
      BY <1>1 DEF Types
    <3>. QED
      BY <1>9, <2>3, <3>1, AppendProperties
  <2>5. Types'
    BY <1>1, <1>6, <1>9, <2>4 DEF Types
  <2>. QED
    BY <1>7, <1>9, <2>3, <2>5 DEF RewriteInv
<1>10. CASE ~first_packet_only /\ wire' = Append(wire, f) /\ stage' = "cutting"
  <2>1. wire \in Seq(Seq(Byte)) /\ Sound(data) /\ Carries(wire, data, c)
    BY <1>1, <1>2 DEF Types, Traced, Cutting
  <2>2. wire' \in Seq(Seq(Byte))
    BY <1>4, <1>10, <2>1, AppendProperties
  <2>3. PICK m \in Nat : m = c + n /\ Carries(wire', data, m) /\ m < p
    <3>1. Rides(Rest(f), data, Ahead(data) + c)
      BY <1>2, <1>4
    <3>2. Carries(Append(wire, f), data, c + n)
      BY <1>4, <2>1, <3>1, CarriesMore
    <3>. QED
      BY <1>2, <1>10, <3>2
  <2>4. ~first_packet_only'
    BY <1>6, <1>10
  <2>5. Framed'
    <3>1. ~Complete'
      BY <1>2, <1>6, <2>3, <2>4, Incomplete
    <3>. QED
      BY <1>1, <1>6, <2>2, <2>3, <3>1, CarriesFramed
  <2>6. Types'
    BY <1>1, <1>6, <1>10, <2>2 DEF Types
  <2>7. Cutting'
    BY <1>1, <1>2, <1>6, <2>3, <2>4 DEF Cutting
  <2>8. upper_protocol(given') \in {tcp, udp} => UpperRight(data')
    BY <1>1, <1>6
  <2>. QED
    BY <1>7, <1>10, <2>5, <2>6, <2>7, <2>8 DEF RewriteInv
<1>. QED
  BY <1>5, <1>8, <1>9, <1>10 DEF Types

LEMMA NextInv == RewriteInv /\ [Next]_vars => RewriteInv'
<1>. SUFFICES ASSUME RewriteInv, [Next]_vars
              PROVE  RewriteInv'
  OBVIOUS
<1>1. CASE Repair
  BY <1>1, RepairInv
<1>2. CASE Address
  BY <1>2, AddressInv
<1>3. CASE FixChecksum
  BY <1>3, FixChecksumInv
<1>4. CASE Send
  BY <1>4, SendInv
<1>5. CASE FullFragment
  BY <1>5, FullFragmentInv
<1>6. CASE LastFragment
  BY <1>6, LastFragmentInv
<1>7. CASE UNCHANGED vars
  <2>1. Complete' = Complete
    BY <1>7 DEF vars, Complete, Payload
  <2>. QED
    BY <1>7, <2>1 DEF vars, RewriteInv, Types, Traced, Addressed, Framed, Cutting
<1>. QED
  BY <1>1, <1>2, <1>3, <1>4, <1>5, <1>6, <1>7 DEF Next

\* The invariant holds throughout.
LEMMA Invariance == Spec => []RewriteInv
BY InitInv, NextInv, PTL DEF Spec

\* The frames a receiver gets, whatever the packet, the addresses of the two
\* interfaces and the length of the link, and whichever frames are refused: the
\* sum over each header without options is right, and of a packet that was whole
\* in the capture the one over what TCP or UDP adds up once all of it, or the
\* first fragment that stands for it, has left (ipv4.hpp:76-104, tcp.hpp,
\* udp.hpp, ethernet_ipv4_fragmenter.hpp:118-127).
THEOREM ChecksumsValidHolds == Spec => []ChecksumsValid
<1>1. RewriteInv => ChecksumsValid
  <2>. SUFFICES ASSUME RewriteInv
                PROVE  ChecksumsValid
    OBVIOUS
  <2>1. wire \in Seq(Seq(Byte)) /\ DOMAIN wire = 1..Len(wire)
    BY LenProperties DEF RewriteInv, Types
  <2>2. CASE wire = << >>
    <3>1. DOMAIN wire = {}
      BY <2>2
    <3>. QED
      BY <2>2, <3>1 DEF ChecksumsValid, Complete
  <2>3. CASE wire # << >>
    <3>1. Types /\ Traced /\ Addressed /\ Framed
      BY <2>3 DEF RewriteInv
    <3>2. \A i \in DOMAIN wire : HeaderRight(wire[i])
      BY <2>1, <3>1 DEF Framed
    <3>3. ASSUME Complete, upper_protocol(given) \in {tcp, udp}
          PROVE  Balanced(sum16_bits(Addresses(wire[1])) + upper_protocol(wire[1])
                            + Len(Payload) + sum16_bits(Payload))
      <4>1. Payload = PayloadOf(wire)
        BY Zenon DEF Payload, PayloadOf, Rest
      <4>2. Heads(wire[1], data)
        <5>1. Len(wire) \in Nat /\ Len(wire) # 0
          BY <2>1, <2>3, EmptySeq, LenProperties
        <5>2. 1 \in 1..Len(wire)
          BY <5>1
        <5>. QED
          BY <3>1, <5>2 DEF Framed
      <4>3. upper_protocol(wire[1]) = upper_protocol(given) /\ Addresses(wire[1]) = Addresses(data)
        BY <3>1, <4>2, HeadsSame, TracedHeader DEF Traced
      <4>4. Summed(Addresses(data), upper_protocol(given), PayloadOf(wire))
        BY <3>1, <3>3 DEF Framed
      <4>. QED
        BY <4>1, <4>3, <4>4, Zenon DEF Summed
    <3>. QED
      BY <3>2, <3>3, Zenon DEF ChecksumsValid, HeaderRight
  <2>. QED
    BY <2>2, <2>3
<1>. QED
  BY <1>1, Invariance, PTL

\* The packet that arrives, whatever it is: every byte of its headers and of the
\* payload is the byte captured, but for lengths, fragment words, MAC and IP
\* addresses and the two bytes where TCP or UDP has its checksum; its frames have
\* the IP addresses of the two ends, and for TCP their MAC addresses, the source
\* first for IP and the destination first for Ethernet (traffic_replay.hpp:511-690).
THEOREM OnlyFixesMadeHolds == Spec => []OnlyFixesMade
<1>1. RewriteInv => OnlyFixesMade
  <2>. SUFFICES ASSUME RewriteInv, NEW i \in DOMAIN wire
                PROVE  /\ Addresses(wire[i]) = ends[1].ip \o ends[2].ip
                       /\ upper_protocol(given) = tcp =>
                            Field(wire[i], DstMac, 12) = ends[2].mac \o ends[1].mac
                       /\ LET header == SubSeq(wire[i], 1, Ahead(wire[i]))
                              frame == header \o Payload
                          IN  \A at \in DOMAIN frame : at \in Fixes \/ frame[at] = given[at]
    BY Zenon DEF OnlyFixesMade
  <2>. DEFINE header == SubSeq(wire[i], 1, Ahead(wire[i]))
              frame == header \o Payload
  <2>1. wire \in Seq(Seq(Byte)) /\ i \in 1..Len(wire) /\ wire # << >>
    BY LenProperties DEF RewriteInv, Types
  <2>2. Types /\ Traced /\ Addressed /\ Framed
    BY <2>1 DEF RewriteInv
  <2>3. Heads(wire[i], data) /\ Sound(data)
    BY <2>1, <2>2 DEF Framed, Traced
  <2>4. /\ Ahead(wire[i]) = Ahead(data) /\ Addresses(wire[i]) = Addresses(data)
        /\ Field(wire[i], DstMac, 12) = Field(data, DstMac, 12)
    BY <2>3, HeadsSame
  <2>5. PICK h \in Nat : h = get_abs_upper_offset(data) /\ h = Ahead(data) /\ h = Ahead(given) /\ h >= 34
    BY <2>2, <2>3, SoundLengths, AheadIs, TracedHeader
  <2>6. Words \cup Places(given) \subseteq Fixes
    BY DEF Words, Places, Fixes, PacketLength, FragmentOffset, HeaderChecksum, DestinationAddress,
           DstMac, SrcMac, eth_length
  <2>7. header \in Seq(Byte) /\ Len(header) = h /\ \A at \in 1..h : at \in Fixes \/ header[at] = given[at]
    <3>1. PICK first \in Nat \ {0} : first = 1
      OBVIOUS
    <3>2. wire[i] \in Seq(Byte) /\ h <= Len(wire[i]) /\ \A at \in 1..h : at \notin Words => wire[i][at] = data[at]
      BY <2>3, <2>5 DEF Heads
    <3>3. first + h - 1 <= Len(wire[i]) /\ first + h - 1 = h
      BY <3>1, <3>2
    <3>4. /\ Field(wire[i], first, h) \in Seq(Byte) /\ Len(Field(wire[i], first, h)) = h
          /\ \A at \in 1..h : Field(wire[i], first, h)[at] = wire[i][first + at - 1]
      BY <3>2, <3>3, FieldAt
    <3>5. Field(wire[i], first, h) = header
      BY <2>4, <2>5, <3>1, <3>3 DEF Field
    <3>. HIDE DEF header
    <3>6. \A at \in 1..h : header[at] = wire[i][at]
      <4>1. \A at \in 1..h : first + at - 1 = at
        BY <3>1
      <4>. QED
        BY <3>4, <3>5, <4>1
    <3>7. \A at \in 1..h : at \notin Places(given) => data[at] = given[at]
      <4>1. PICK l \in Nat : l = Len(given) /\ h <= l
        <5>1. Len(given) = Len(data) /\ given \in Seq(Byte)
          BY <2>2 DEF Traced, SameBut
        <5>3. PICK o \in Nat, n \in Nat, l \in Nat :
                o = get_abs_upper_offset(data) /\ n = payload_length(data) /\ l = Len(data) /\ o + n <= l
          BY <2>3, SoundLengths
        <5>4. h = o
          BY <2>5, <5>3
        <5>5. o <= l
          BY <5>3
        <5>2. h <= Len(data)
          BY <5>3, <5>4, <5>5
        <5>. QED
          BY <5>1, <5>2, LenProperties
      <4>2. \A at \in 1..h : at \in 1..l
        BY <4>1
      <4>. QED
        BY <2>2, <4>1, <4>2 DEF Traced, SameBut
    <3>. QED
      BY <2>6, <3>2, <3>4, <3>5, <3>6, <3>7
  <2>8. PICK k \in Nat : /\ Payload \in Seq(Byte) /\ Len(Payload) = k
                         /\ \A j \in 1..k : h + j \in Fixes \/ Payload[j] = given[h + j]
    <3>1. Payload = PayloadOf(wire)
      BY Zenon DEF Payload, PayloadOf, Rest
    <3>2. Kept(Payload, given)
      BY <2>2, <3>1, Zenon DEF Framed
    <3>3. Payload \in Seq(Byte) /\ Len(Payload) \in Nat
      BY <3>2, LenProperties DEF Kept
    <3>4. \A j \in 1..Len(Payload) : h + j \in SumPlaces(given) \/ Payload[j] = given[h + j]
      BY <2>5, <3>2 DEF Kept
    <3>5. SumPlaces(given) \subseteq Fixes
      BY <2>6 DEF Places
    <3>. QED
      BY <3>3, <3>4, <3>5
  <2>. HIDE DEF header
  <2>9. frame \in Seq(Byte) /\ DOMAIN frame = 1..h + k
        /\ \A at \in 1..h + k : frame[at] = IF at <= h THEN header[at] ELSE Payload[at - h]
    <3>1. /\ header \o Payload \in Seq(Byte)
          /\ Len(header \o Payload) = Len(header) + Len(Payload)
          /\ \A at \in 1..Len(header) + Len(Payload) :
               (header \o Payload)[at] = IF at <= Len(header) THEN header[at] ELSE Payload[at - Len(header)]
      BY <2>7, <2>8, ConcatProperties
    <3>2. DOMAIN (header \o Payload) = 1..Len(header \o Payload)
      BY <3>1, LenProperties
    <3>. QED
      BY <2>7, <2>8, <3>1, <3>2
  <2>. HIDE DEF frame
  <2>10. \A at \in DOMAIN frame : at \in Fixes \/ frame[at] = given[at]
    <3>1. TAKE at \in DOMAIN frame
    <3>2. CASE at <= h
      <4>1. at \in 1..h
        BY <2>9, <3>2
      <4>. QED
        BY <2>7, <2>9, <3>2, <4>1
    <3>3. CASE ~(at <= h)
      <4>1. PICK j \in 1..k : j = at - h /\ h + j = at
        BY <2>9, <3>3
      <4>. QED
        BY <2>8, <2>9, <3>3, <4>1
    <3>. QED
      BY <3>2, <3>3
  <2>. QED
    BY <2>2, <2>4, <2>10 DEF Addressed, frame, header
<1>. QED
  BY <1>1, Invariance, PTL
=============================================================================
