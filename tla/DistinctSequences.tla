-------------------------- MODULE DistinctSequences --------------------------
(***************************************************************************)
(* Lemmas about sequences in which nothing occurs twice: the lists of      *)
(* clients of both shops.                                                  *)
(***************************************************************************)
EXTENDS Integers, SequencesExt, SequenceTheorems, FiniteSetTheorems, TLAPS

\* The set of what an empty sequence holds, and of what any does.
LEMMA ToSetOfSeq ==
  ASSUME NEW S, NEW s \in Seq(S)
  PROVE  /\ ToSet(s) \subseteq S
         /\ ToSet(s) = {s[i] : i \in 1..Len(s)}
         /\ s = <<>> <=> ToSet(s) = {}
<1>1. DOMAIN s = 1..Len(s) /\ Len(s) \in Nat
  BY LenProperties
<1>2. ToSet(s) = {s[i] : i \in 1..Len(s)}
  BY <1>1 DEF ToSet
<1>3. ToSet(s) \subseteq S
  BY <1>2, ElementOfSeq
<1>4. s # <<>> => s[1] \in ToSet(s)
  BY <1>1, <1>2, EmptySeq
<1>5. s = <<>> => ToSet(s) = {}
  BY <1>1, <1>2, EmptySeq
<1> QED
  BY <1>2, <1>3, <1>4, <1>5

\* The empty sequence.
LEMMA EmptyDistinct ==
  ASSUME NEW S
  PROVE  <<>> \in Seq(S) /\ IsInjective(<<>>) /\ ToSet(<<>>) = {}
<1>1. <<>> \in Seq(S) /\ Len(<<>>) = 0
  BY EmptySeq
<1>2. DOMAIN <<>> = 1..0
  BY <1>1, LenProperties
<1>3. 1..0 = {}
  OBVIOUS
<1> QED
  BY <1>1, <1>2, <1>3 DEF IsInjective, ToSet

\* A sequence of one element.
LEMMA SingletonDistinct ==
  ASSUME NEW S, NEW e \in S
  PROVE  <<e>> \in Seq(S) /\ IsInjective(<<e>>) /\ ToSet(<<e>>) = {e}
<1> DEFINE s == <<e>>
<1>1. s \in Seq(S) /\ Len(s) = 1 /\ s[1] = e
  OBVIOUS
<1> HIDE DEF s
<1>2. DOMAIN s = {1}
  BY <1>1, LenProperties
<1>3. IsInjective(s) /\ ToSet(s) = {e}
  BY <1>1, <1>2 DEF IsInjective, ToSet
<1> QED
  BY <1>1, <1>3 DEF s

\* A new element at the end of a sequence without repetitions.
LEMMA AppendDistinct ==
  ASSUME NEW S, NEW s \in Seq(S), IsInjective(s), NEW e \in S, e \notin ToSet(s)
  PROVE  /\ Append(s, e) \in Seq(S)
         /\ IsInjective(Append(s, e))
         /\ ToSet(Append(s, e)) = ToSet(s) \cup {e}
<1> DEFINE t == Append(s, e)
<1>1. /\ t \in Seq(S) /\ Len(t) = Len(s) + 1
      /\ \A i \in 1..Len(s) : t[i] = s[i]
      /\ t[Len(s) + 1] = e
  BY AppendProperties
<1>2. Len(s) \in Nat /\ DOMAIN s = 1..Len(s) /\ DOMAIN t = 1..(Len(s) + 1)
  BY <1>1, LenProperties
<1> HIDE DEF t
<1>3. \A i \in 1..(Len(s) + 1) : i \in 1..Len(s) \/ i = Len(s) + 1
  BY <1>2
<1>4. \A i \in 1..Len(s) : i \in 1..(Len(s) + 1)
  BY <1>2
<1>5. Len(s) + 1 \in 1..(Len(s) + 1)
  BY <1>2
<1>6. ToSet(t) = ToSet(s) \cup {e}
  BY <1>1, <1>2, <1>3, <1>4, <1>5 DEF ToSet
<1>7. \A i \in 1..Len(s) : s[i] # e
  BY <1>2 DEF ToSet
<1>8. IsInjective(t)
  BY <1>1, <1>2, <1>3, <1>7 DEF IsInjective
<1> QED
  BY <1>1, <1>6, <1>8 DEF t

\* What is left of such a sequence without its first element.
LEMMA TailDistinct ==
  ASSUME NEW S, NEW s \in Seq(S), IsInjective(s), s # <<>>
  PROVE  /\ Head(s) \in ToSet(s)
         /\ Tail(s) \in Seq(S)
         /\ IsInjective(Tail(s))
         /\ ToSet(Tail(s)) = ToSet(s) \ {Head(s)}
<1> DEFINE t == Tail(s)
<1>1. /\ t \in Seq(S) /\ Len(t) = Len(s) - 1
      /\ \A i \in 1..Len(t) : t[i] = s[i + 1]
      /\ Head(s) = s[1]
  BY HeadTailProperties
<1>2. Len(s) \in Nat \ {0} /\ DOMAIN s = 1..Len(s) /\ DOMAIN t = 1..(Len(s) - 1)
  BY <1>1, LenProperties, EmptySeq
<1> HIDE DEF t
<1>3. \A i \in 1..(Len(s) - 1) : i \in Nat /\ i + 1 \in 1..Len(s) /\ i + 1 # 1
  BY <1>2
<1>4. 1 \in 1..Len(s)
  BY <1>2
<1>5. ASSUME NEW i \in 1..Len(s), i # 1 PROVE \E j \in 1..(Len(s) - 1) : j + 1 = i
  <2>1. i - 1 \in 1..(Len(s) - 1) /\ (i - 1) + 1 = i
    BY <1>2, <1>5
  <2> QED
    BY <2>1
<1>6. \A i \in 1..(Len(s) - 1) : t[i] = s[i + 1]
  BY <1>1
<1>7. \A i, j \in 1..Len(s) : s[i] = s[j] => i = j
  BY <1>2 DEF IsInjective
<1>8. ToSet(t) \subseteq ToSet(s) \ {Head(s)}
  BY <1>1, <1>2, <1>3, <1>4, <1>6, <1>7 DEF ToSet
<1>9. ToSet(s) \ {Head(s)} \subseteq ToSet(t)
  <2>1. ASSUME NEW x \in ToSet(s), x # Head(s) PROVE x \in ToSet(t)
    <3>1. PICK i \in 1..Len(s) : x = s[i]
      BY <1>2 DEF ToSet
    <3>2. PICK j \in 1..(Len(s) - 1) : j + 1 = i
      BY <1>1, <1>5, <2>1, <3>1
    <3> QED
      BY <1>2, <1>6, <3>1, <3>2 DEF ToSet
  <2> QED
    BY <2>1
<1>10. ASSUME NEW i \in 1..(Len(s) - 1), NEW j \in 1..(Len(s) - 1), t[i] = t[j]
       PROVE  i = j
  <2>1. i + 1 = j + 1
    BY <1>3, <1>6, <1>7, <1>10
  <2> QED
    BY <1>3, <2>1
<1>11. IsInjective(t)
  BY <1>2, <1>10 DEF IsInjective
<1>12. Head(s) \in ToSet(s)
  BY <1>1, <1>2, <1>4 DEF ToSet
<1> QED
  BY <1>1, <1>8, <1>9, <1>11, <1>12 DEF t

\* What is left of such a sequence without one of its elements.
LEMMA RemoveDistinct ==
  ASSUME NEW S, NEW s \in Seq(S), IsInjective(s), NEW i \in DOMAIN s
  PROVE  /\ RemoveAt(s, i) \in Seq(S)
         /\ IsInjective(RemoveAt(s, i))
         /\ ToSet(RemoveAt(s, i)) = ToSet(s) \ {s[i]}
<1> DEFINE n == Len(s)
           t == RemoveAt(s, i)
           u == SubSeq(s, 1, i - 1)
           v == SubSeq(s, i + 1, n)
<1>1. n \in Nat /\ DOMAIN s = 1..n /\ i \in 1..n
  BY LenProperties
<1>2. \A j \in 1..n : s[j] \in S
  BY ElementOfSeq
<1>3. /\ u \in Seq(S) /\ Len(u) = i - 1
      /\ \A j \in 1..(i - 1) : u[j] = s[j]
  <2>1. \A j \in 1..(i - 1) : s[j] \in S
    BY <1>1, <1>2
  <2>2. i - 1 \in Int /\ 1 \in Int /\ (i - 1) - 1 + 1 = i - 1
    BY <1>1
  <2>3. /\ u \in Seq(S)
        /\ Len(u) = IF 1 <= i - 1 THEN (i - 1) - 1 + 1 ELSE 0
        /\ \A j \in 1..((i - 1) - 1 + 1) : u[j] = s[1 + j - 1]
    BY <2>1, <2>2, SubSeqProperties
  <2> HIDE DEF u
  <2>4. \A j \in 1..(i - 1) : 1 + j - 1 = j
    BY <1>1
  <2> QED
    BY <1>1, <2>2, <2>3, <2>4
<1>4. /\ v \in Seq(S) /\ Len(v) = n - i
      /\ \A j \in 1..(n - i) : v[j] = s[i + j]
  <2>1. \A j \in (i + 1)..n : s[j] \in S
    BY <1>1, <1>2
  <2>2. i + 1 \in Int /\ n \in Int /\ n - (i + 1) + 1 = n - i
    BY <1>1
  <2>3. /\ v \in Seq(S)
        /\ Len(v) = IF i + 1 <= n THEN n - (i + 1) + 1 ELSE 0
        /\ \A j \in 1..(n - (i + 1) + 1) : v[j] = s[(i + 1) + j - 1]
    BY <2>1, <2>2, SubSeqProperties
  <2> HIDE DEF v
  <2>4. \A j \in 1..(n - i) : (i + 1) + j - 1 = i + j
    BY <1>1
  <2> QED
    BY <1>1, <2>2, <2>3, <2>4
<1>5. t = u \o v
  BY DEF RemoveAt
<1> HIDE DEF n, t, u, v
<1>6. /\ t \in Seq(S) /\ Len(t) = n - 1
      /\ \A j \in 1..(n - 1) : t[j] = IF j < i THEN s[j] ELSE s[j + 1]
  <2>1. /\ t \in Seq(S) /\ Len(t) = (i - 1) + (n - i)
        /\ \A j \in 1..((i - 1) + (n - i)) :
             t[j] = IF j <= i - 1 THEN u[j] ELSE v[j - (i - 1)]
    BY <1>3, <1>4, <1>5, ConcatProperties
  <2>2. (i - 1) + (n - i) = n - 1
    BY <1>1
  <2>3. ASSUME NEW j \in 1..(n - 1) PROVE t[j] = IF j < i THEN s[j] ELSE s[j + 1]
    <3>1. CASE j < i
      <4>1. j <= i - 1 /\ j \in 1..(i - 1)
        BY <1>1, <3>1
      <4> QED
        BY <1>3, <2>1, <2>2, <3>1, <4>1
    <3>2. CASE ~(j < i)
      <4>1. ~(j <= i - 1) /\ j - (i - 1) \in 1..(n - i) /\ i + (j - (i - 1)) = j + 1
        BY <1>1, <3>2
      <4> QED
        BY <1>4, <2>1, <2>2, <3>2, <4>1
    <3> QED
      BY <3>1, <3>2
  <2> QED
    BY <2>1, <2>2, <2>3
<1> DEFINE at(j) == IF j < i THEN j ELSE j + 1
<1>7. /\ \A j \in 1..(n - 1) : t[j] = s[at(j)] /\ at(j) \in 1..n /\ at(j) # i
      /\ \A j, k \in 1..(n - 1) : at(j) = at(k) => j = k
  BY <1>1, <1>6
<1>8. ASSUME NEW k \in 1..n, k # i PROVE \E j \in 1..(n - 1) : at(j) = k
  <2>1. CASE k < i
    <3>1. k \in 1..(n - 1) /\ at(k) = k
      BY <1>1, <2>1
    <3> QED
      BY <3>1
  <2>2. CASE ~(k < i)
    <3>1. k - 1 \in 1..(n - 1) /\ at(k - 1) = k
      BY <1>1, <1>8, <2>2
    <3> QED
      BY <3>1
  <2> QED
    BY <2>1, <2>2
<1> HIDE DEF at
<1>9. \A j, k \in 1..n : s[j] = s[k] => j = k
  BY <1>1 DEF IsInjective
<1>10. DOMAIN t = 1..(n - 1)
  BY <1>6, LenProperties
<1>11. IsInjective(t)
  BY <1>7, <1>9, <1>10 DEF IsInjective
<1>12. ToSet(t) \subseteq ToSet(s) \ {s[i]}
  BY <1>1, <1>7, <1>9, <1>10 DEF ToSet
<1>13. ASSUME NEW x \in ToSet(s), x # s[i] PROVE x \in ToSet(t)
  <2>1. PICK k \in 1..n : x = s[k] /\ k # i
    BY <1>1, <1>13 DEF ToSet
  <2>2. PICK j \in 1..(n - 1) : at(j) = k
    BY <1>8, <2>1
  <2> QED
    BY <1>7, <1>10, <2>1, <2>2 DEF ToSet
<1> QED
  BY <1>6, <1>11, <1>12, <1>13 DEF t

\* What follows the first m elements of such a sequence.
LEMMA SuffixDistinct ==
  ASSUME NEW S, NEW s \in Seq(S), IsInjective(s), NEW m \in 0..Len(s)
  PROVE  /\ SubSeq(s, m + 1, Len(s)) \in Seq(S)
         /\ Len(SubSeq(s, m + 1, Len(s))) = Len(s) - m
         /\ IsInjective(SubSeq(s, m + 1, Len(s)))
         /\ ToSet(SubSeq(s, m + 1, Len(s))) = {s[i] : i \in {j \in 1..Len(s) : j > m}}
<1> DEFINE n == Len(s)
           v == SubSeq(s, m + 1, n)
<1>1. n \in Nat /\ DOMAIN s = 1..n /\ m \in 0..n
  BY LenProperties
<1>2. \A j \in (m + 1)..n : s[j] \in S
  BY <1>1, ElementOfSeq
<1>3. m + 1 \in Int /\ n \in Int /\ n - (m + 1) + 1 = n - m
  BY <1>1
<1>4. /\ v \in Seq(S)
      /\ Len(v) = IF m + 1 <= n THEN n - (m + 1) + 1 ELSE 0
      /\ \A j \in 1..(n - (m + 1) + 1) : v[j] = s[(m + 1) + j - 1]
  BY <1>2, <1>3, SubSeqProperties
<1> HIDE DEF n, v
<1>5. \A j \in 1..(n - m) : (m + 1) + j - 1 = m + j /\ m + j \in 1..n /\ m + j > m
  BY <1>1
<1>6. Len(v) = n - m /\ \A j \in 1..(n - m) : v[j] = s[m + j]
  BY <1>1, <1>3, <1>4, <1>5
<1>7. DOMAIN v = 1..(n - m)
  BY <1>4, <1>6, LenProperties
<1>8. \A j, k \in 1..n : s[j] = s[k] => j = k
  BY <1>1 DEF IsInjective
<1>9. ASSUME NEW j \in 1..(n - m), NEW k \in 1..(n - m), v[j] = v[k] PROVE j = k
  <2>1. m + j = m + k
    BY <1>5, <1>6, <1>8, <1>9
  <2> QED
    BY <1>1, <2>1
<1>10. IsInjective(v)
  BY <1>7, <1>9 DEF IsInjective
<1>11. ASSUME NEW i \in 1..n, i > m PROVE \E j \in 1..(n - m) : m + j = i
  <2>1. i - m \in 1..(n - m) /\ m + (i - m) = i
    BY <1>1, <1>11
  <2> QED
    BY <2>1
<1>12. ToSet(v) = {s[i] : i \in {j \in 1..n : j > m}}
  <2> DEFINE rest == {s[i] : i \in {j \in 1..n : j > m}}
  <2>1. \A x \in ToSet(v) : x \in rest
    BY <1>5, <1>6, <1>7 DEF ToSet
  <2>2. ASSUME NEW x \in rest PROVE x \in ToSet(v)
    <3>1. PICK i \in 1..n : i > m /\ x = s[i]
      OBVIOUS
    <3>2. PICK j \in 1..(n - m) : m + j = i
      BY <1>11, <3>1
    <3> QED
      BY <1>6, <1>7, <3>1, <3>2 DEF ToSet
  <2> QED
    BY <2>1, <2>2
<1> QED
  BY <1>4, <1>6, <1>10, <1>12 DEF n, v

\* Two such sequences that share no element, one after the other.
LEMMA ConcatDistinct ==
  ASSUME NEW S, NEW s \in Seq(S), NEW t \in Seq(S), IsInjective(s), IsInjective(t),
         ToSet(s) \cap ToSet(t) = {}
  PROVE  /\ s \o t \in Seq(S)
         /\ IsInjective(s \o t)
         /\ ToSet(s \o t) = ToSet(s) \cup ToSet(t)
<1> DEFINE n == Len(s)
           k == Len(t)
           u == s \o t
<1>1. /\ n \in Nat /\ DOMAIN s = 1..n
      /\ k \in Nat /\ DOMAIN t = 1..k
  BY LenProperties
<1>2. /\ u \in Seq(S) /\ Len(u) = n + k
      /\ \A i \in 1..(n + k) : u[i] = IF i <= n THEN s[i] ELSE t[i - n]
  BY ConcatProperties
<1> HIDE DEF n, k, u
<1>3. DOMAIN u = 1..(n + k)
  BY <1>2, LenProperties
<1>4. \A i \in 1..(n + k) : \/ i \in 1..n /\ u[i] = s[i]
                            \/ i - n \in 1..k /\ u[i] = t[i - n]
  BY <1>1, <1>2
<1>5. \A i \in 1..n : i \in 1..(n + k) /\ u[i] = s[i]
  BY <1>1, <1>2
<1>6. \A i \in 1..k : n + i \in 1..(n + k) /\ u[n + i] = t[i]
  <2> SUFFICES ASSUME NEW i \in 1..k PROVE n + i \in 1..(n + k) /\ u[n + i] = t[i]
    OBVIOUS
  <2> DEFINE j == n + i
  <2>1. j \in 1..(n + k) /\ ~(j <= n) /\ j - n = i
    BY <1>1
  <2> HIDE DEF j
  <2>2. u[j] = t[j - n]
    BY <1>2, <2>1
  <2>3. u[j] = t[i]
    BY <2>1, <2>2
  <2> QED
    BY <2>1, <2>3 DEF j
<1>7. ToSet(u) = ToSet(s) \cup ToSet(t)
  <2>1. ASSUME NEW x \in ToSet(u) PROVE x \in ToSet(s) \cup ToSet(t)
    <3>1. PICK i \in 1..(n + k) : x = u[i]
      BY <1>3 DEF ToSet
    <3> QED
      BY <1>1, <1>4, <3>1 DEF ToSet
  <2>2. \A x \in ToSet(s) : x \in ToSet(u)
    BY <1>1, <1>3, <1>5 DEF ToSet
  <2>3. \A x \in ToSet(t) : x \in ToSet(u)
    BY <1>1, <1>3, <1>6 DEF ToSet
  <2> QED
    BY <2>1, <2>2, <2>3
<1>8. \A i \in 1..n, j \in 1..k : s[i] # t[j]
  BY <1>1 DEF ToSet
<1>9. ASSUME NEW i \in 1..(n + k), NEW j \in 1..(n + k), u[i] = u[j] PROVE i = j
  <2>1. CASE i \in 1..n /\ u[i] = s[i] /\ j \in 1..n /\ u[j] = s[j]
    BY <1>1, <1>9, <2>1 DEF IsInjective
  <2>2. CASE i - n \in 1..k /\ u[i] = t[i - n] /\ j - n \in 1..k /\ u[j] = t[j - n]
    <3>1. i - n = j - n
      BY <1>1, <1>9, <2>2 DEF IsInjective
    <3> QED
      BY <1>1, <3>1
  <2> QED
    BY <1>4, <1>8, <1>9, <2>1, <2>2
<1>10. IsInjective(u)
  BY <1>3, <1>9 DEF IsInjective
<1> QED
  BY <1>2, <1>7, <1>10 DEF u

\* How many elements there are up to the m-th.
LEMMA PrefixCardinality ==
  ASSUME NEW S, NEW s \in Seq(S), IsInjective(s), NEW m \in Nat
  PROVE  LET front == {s[i] : i \in {j \in 1..Len(s) : j <= m}}
         IN  /\ IsFiniteSet(front)
             /\ Cardinality(front) = IF Len(s) <= m THEN Len(s) ELSE m
<1> DEFINE n == Len(s)
           front == {s[i] : i \in {j \in 1..n : j <= m}}
           k == IF n <= m THEN n ELSE m
           f == [i \in 1..k |-> s[i]]
<1>1. n \in Nat /\ DOMAIN s = 1..n
  BY LenProperties
<1> HIDE DEF n
<1>2. k \in Nat /\ {j \in 1..n : j <= m} = 1..k /\ \A i \in 1..k : i \in 1..n
  BY <1>1
<1> HIDE DEF k
<1>3. f \in [1..k -> front]
  BY <1>2
<1>4. IsInjective(f)
  BY <1>1, <1>2 DEF IsInjective
<1>5. \A x \in front : \E i \in 1..k : f[i] = x
  BY <1>2
<1> HIDE DEF front, f
<1>6. f \in Bijection(1..k, front)
  BY <1>3, <1>4, <1>5 DEF Bijection, Injection, Surjection
<1>7. ExistsBijection(1..k, front)
  BY <1>6 DEF ExistsBijection
<1>8. IsFiniteSet(front) /\ Cardinality(front) = k
  BY <1>2, <1>7, FS_NatBijection, FS_CountingElements
<1> QED
  BY <1>8 DEF front, k, n
=============================================================================
