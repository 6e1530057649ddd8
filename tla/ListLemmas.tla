----------------------------- MODULE ListLemmas -----------------------------
(***************************************************************************)
(* What adding, taking and removing an element makes of a list; and, for   *)
(* lists in which nothing stands twice, as Bull keeps its waiting jobs, of *)
(* the set of what stands in it.                                           *)
(***************************************************************************)
EXTENDS SequencesExt, Integers, SequenceTheorems, TLAPS

(* A list, element by element.                                              *)
LEMMA ListElements ==
    ASSUME NEW T, NEW s \in Seq(T)
    PROVE  /\ Len(s) \in Nat
           /\ \A i \in 1 .. Len(s) : s[i] \in T
           /\ \A x : x \in ToSet(s) <=> \E i \in 1 .. Len(s) : s[i] = x
           /\ IsInjective(s) <=> \A i, j \in 1 .. Len(s) : s[i] = s[j] => i = j
<1>1. DOMAIN s = 1 .. Len(s) /\ Len(s) \in Nat
  OBVIOUS
<1>2. QED BY <1>1 DEF ToSet, IsInjective

(* The list r holds the elements of s without the one at place k.           *)
Shortened(r, s, k) ==
    /\ Len(r) = Len(s) - 1
    /\ \A i \in 1 .. Len(s) - 1 : r[i] = IF i < k THEN s[i] ELSE s[i + 1]

LEMMA ShortenedType ==
    ASSUME NEW T, NEW s \in Seq(T), IsInjective(s), NEW k \in 1 .. Len(s), NEW r \in Seq(T),
           Shortened(r, s, k)
    PROVE  IsInjective(r) /\ ToSet(r) = ToSet(s) \ {s[k]}
<1> USE DEF Shortened
<1>1. /\ Len(s) \in Nat /\ Len(r) = Len(s) - 1
      /\ \A i, j \in 1 .. Len(s) : s[i] = s[j] => i = j
  BY ListElements
<1>2. ASSUME NEW i \in 1 .. Len(r), NEW j \in 1 .. Len(r), r[i] = r[j] PROVE i = j
  <2>1. /\ i \in 1 .. Len(s) - 1 /\ i + 1 \in 1 .. Len(s) /\ i \in 1 .. Len(s)
        /\ j \in 1 .. Len(s) - 1 /\ j + 1 \in 1 .. Len(s) /\ j \in 1 .. Len(s)
    BY <1>1
  <2>2. PICK a \in 1 .. Len(s) : r[i] = s[a] /\ a = IF i < k THEN i ELSE i + 1
    BY <2>1
  <2>3. PICK b \in 1 .. Len(s) : r[j] = s[b] /\ b = IF j < k THEN j ELSE j + 1
    BY <2>1
  <2>4. a = b
    BY <1>1, <1>2, <2>2, <2>3
  <2>5. k \in Int /\ i \in Int /\ j \in Int
    OBVIOUS
  <2>6. QED BY <2>2, <2>3, <2>4, <2>5
<1>3. ASSUME NEW i \in 1 .. Len(r)
      PROVE  \E j \in 1 .. Len(s) : s[j] = r[i] /\ s[j] # s[k]
  <2>1. i \in 1 .. Len(s) - 1 /\ i + 1 \in 1 .. Len(s) /\ i \in 1 .. Len(s)
    BY <1>1
  <2>2. r[i] = IF i < k THEN s[i] ELSE s[i + 1]
    BY <2>1
  <2>3. QED BY <1>1, <2>1, <2>2
<1>4. ASSUME NEW j \in 1 .. Len(s), s[j] # s[k]
      PROVE  \E i \in 1 .. Len(r) : r[i] = s[j]
  <2>1. CASE j < k
    <3>1. j \in 1 .. Len(r) /\ j \in 1 .. Len(s) - 1
      BY <1>1, <2>1
    <3>2. QED BY <2>1, <3>1
  <2>2. CASE j > k
    <3>1. j - 1 \in 1 .. Len(r) /\ j - 1 \in 1 .. Len(s) - 1 /\ ~(j - 1 < k) /\ j - 1 + 1 = j
      BY <1>1, <2>2
    <3>2. r[j - 1] = s[j]
      BY <3>1
    <3>3. QED BY <3>1, <3>2
  <2>3. j # k
    BY <1>4
  <2>4. QED BY <2>1, <2>2, <2>3
<1>5. IsInjective(r)
  BY <1>2, ListElements
<1>6. ASSUME NEW x PROVE x \in ToSet(r) <=> x \in ToSet(s) /\ x # s[k]
  <2>1. x \in ToSet(r) <=> \E i \in 1 .. Len(r) : r[i] = x
    BY ListElements
  <2>2. x \in ToSet(s) <=> \E i \in 1 .. Len(s) : s[i] = x
    BY ListElements
  <2>3. QED BY <1>3, <1>4, <2>1, <2>2
<1>7. QED BY <1>5, <1>6

LEMMA RemoveAtType ==
    ASSUME NEW T, NEW s \in Seq(T), NEW k \in 1 .. Len(s)
    PROVE  RemoveAt(s, k) \in Seq(T) /\ Shortened(RemoveAt(s, k), s, k)
<1> DEFINE p == SubSeq(s, 1, k - 1)
           q == SubSeq(s, k + 1, Len(s))
<1>1. RemoveAt(s, k) = p \o q
  BY DEF RemoveAt
<1>2. Len(s) \in Nat /\ k - 1 \in Int /\ k + 1 \in Int
  BY ListElements
<1>3. /\ p \in Seq(T) /\ Len(p) = k - 1 /\ \A i \in 1 .. k - 1 : p[i] = s[i]
  <2>1. \A i \in 1 .. k - 1 : s[i] \in T
    BY <1>2, ListElements
  <2>2. /\ p \in Seq(T) /\ Len(p) = IF 1 <= k - 1 THEN k - 1 - 1 + 1 ELSE 0
        /\ \A i \in 1 .. k - 1 - 1 + 1 : p[i] = s[1 + i - 1]
    BY <1>2, <2>1, SubSeqProperties
  <2> HIDE DEF p
  <2>3. ASSUME NEW i \in 1 .. k - 1 PROVE p[i] = s[i]
    <3>1. i \in 1 .. k - 1 - 1 + 1 /\ 1 + i - 1 = i
      OBVIOUS
    <3>2. QED BY <2>2, <3>1
  <2>4. Len(p) = k - 1
    BY <1>2, <2>2
  <2>5. QED BY <2>2, <2>3, <2>4
<1>4. /\ q \in Seq(T) /\ Len(q) = Len(s) - k /\ \A i \in 1 .. Len(s) - k : q[i] = s[i + k]
  <2>1. \A i \in k + 1 .. Len(s) : s[i] \in T
    BY <1>2, ListElements
  <2>2. /\ q \in Seq(T) /\ Len(q) = IF k + 1 <= Len(s) THEN Len(s) - (k + 1) + 1 ELSE 0
        /\ \A i \in 1 .. Len(s) - (k + 1) + 1 : q[i] = s[(k + 1) + i - 1]
    BY <1>2, <2>1, SubSeqProperties
  <2> HIDE DEF q
  <2>3. ASSUME NEW i \in 1 .. Len(s) - k PROVE q[i] = s[i + k]
    <3>1. i \in 1 .. Len(s) - (k + 1) + 1 /\ (k + 1) + i - 1 = i + k
      BY <1>2
    <3>2. QED BY <2>2, <3>1
  <2>4. QED BY <1>2, <2>2, <2>3
<1> HIDE DEF p, q
<1>5. /\ p \o q \in Seq(T) /\ Len(p \o q) = Len(s) - 1
      /\ \A i \in 1 .. Len(s) - 1 : (p \o q)[i] = IF i <= k - 1 THEN p[i] ELSE q[i - (k - 1)]
  <2>1. /\ p \o q \in Seq(T) /\ Len(p \o q) = Len(p) + Len(q)
        /\ \A i \in 1 .. Len(p) + Len(q) :
              (p \o q)[i] = IF i <= Len(p) THEN p[i] ELSE q[i - Len(p)]
    BY <1>3, <1>4, ConcatProperties
  <2>2. Len(p) + Len(q) = Len(s) - 1
    BY <1>2, <1>3, <1>4
  <2>3. QED BY <1>3, <2>1, <2>2
<1>6. ASSUME NEW i \in 1 .. Len(s) - 1
      PROVE  (p \o q)[i] = IF i < k THEN s[i] ELSE s[i + 1]
  <2>1. CASE i < k
    <3>1. i \in 1 .. k - 1 /\ i <= k - 1
      BY <1>2, <2>1
    <3>2. QED BY <1>3, <1>5, <2>1, <3>1
  <2>2. CASE ~(i < k)
    <3>1. i - (k - 1) \in 1 .. Len(s) - k /\ ~(i <= k - 1) /\ (i - (k - 1)) + k = i + 1
      BY <1>2, <2>2
    <3>2. QED BY <1>4, <1>5, <2>2, <3>1
  <2>3. QED BY <2>1, <2>2
<1>7. QED BY <1>1, <1>5, <1>6 DEF Shortened

(* What a removal leaves of such a list.                                    *)
LEMMA RemoveFirstType ==
    ASSUME NEW T, NEW s \in Seq(T), NEW u, IsInjective(s)
    PROVE  /\ RemoveFirst(s, u) \in Seq(T)
           /\ IsInjective(RemoveFirst(s, u))
           /\ ToSet(RemoveFirst(s, u)) = ToSet(s) \ {u}
<1>1. CASE \A i \in 1 .. Len(s) : s[i] # u
  <2>1. RemoveFirst(s, u) = s
    BY <1>1, Zenon DEF RemoveFirst
  <2>2. u \notin ToSet(s)
    BY <1>1, ListElements
  <2>3. QED BY <2>1, <2>2
<1>2. ASSUME NEW k \in 1 .. Len(s), s[k] = u
      PROVE  /\ RemoveFirst(s, u) \in Seq(T)
             /\ IsInjective(RemoveFirst(s, u))
             /\ ToSet(RemoveFirst(s, u)) = ToSet(s) \ {u}
  <2>1. {i \in 1 .. Len(s) : s[i] = u} = {k}
    BY <1>2, ListElements
  <2>2. RemoveFirst(s, u) = RemoveAt(s, SelectInSeq(s, LAMBDA v : v = u))
    BY <1>2 DEF RemoveFirst
  <2>3. SelectInSeq(s, LAMBDA v : v = u) = k
    BY <2>1 DEF SelectInSeq, Min
  <2>4. RemoveFirst(s, u) = RemoveAt(s, k)
    BY <2>2, <2>3
  <2>5. QED BY <1>2, <2>4, RemoveAtType, ShortenedType
<1>3. QED BY <1>1, <1>2

LEMMA TailType ==
    ASSUME NEW T, NEW s \in Seq(T), IsInjective(s), s # <<>>
    PROVE  /\ Tail(s) \in Seq(T)
           /\ IsInjective(Tail(s))
           /\ Head(s) \in T /\ Head(s) \in ToSet(s)
           /\ ToSet(Tail(s)) = ToSet(s) \ {Head(s)}
<1> DEFINE r == Tail(s)
<1>1. /\ r \in Seq(T) /\ Len(r) = Len(s) - 1
      /\ \A i \in 1 .. Len(r) : r[i] = s[i + 1]
      /\ Head(s) = s[1] /\ Len(s) \in Nat /\ Len(s) > 0
  BY HeadTailProperties
<1> HIDE DEF r
<1>2. 1 \in 1 .. Len(s)
  BY <1>1
<1>3. Shortened(r, s, 1)
  BY <1>1 DEF Shortened
<1>4. IsInjective(r) /\ ToSet(r) = ToSet(s) \ {s[1]}
  BY <1>1, <1>2, <1>3, ShortenedType
<1>5. s[1] \in T /\ s[1] \in ToSet(s)
  BY <1>2, ListElements
<1>6. QED BY <1>1, <1>4, <1>5 DEF r

(* What an element more makes of it, at its end or in front.                *)
LEMMA AppendType ==
    ASSUME NEW T, NEW s \in Seq(T), NEW u \in T, IsInjective(s), u \notin ToSet(s)
    PROVE  /\ Append(s, u) \in Seq(T)
           /\ IsInjective(Append(s, u))
           /\ ToSet(Append(s, u)) = ToSet(s) \cup {u}
<1> DEFINE r == Append(s, u)
<1>1. /\ r \in Seq(T) /\ Len(r) = Len(s) + 1
      /\ \A i \in 1 .. Len(s) : r[i] = s[i]
      /\ r[Len(s) + 1] = u
  BY AppendProperties
<1> HIDE DEF r
<1>2. /\ Len(s) \in Nat /\ \A i \in 1 .. Len(s) : s[i] # u
      /\ \A i, j \in 1 .. Len(s) : s[i] = s[j] => i = j
  BY ListElements
<1>3. \A i \in 1 .. Len(r) : i \in 1 .. Len(s) \/ i = Len(s) + 1
  BY <1>1, <1>2
<1>4. \A i \in 1 .. Len(s) : i \in 1 .. Len(r)
  BY <1>1, <1>2
<1>5. Len(s) + 1 \in 1 .. Len(r)
  BY <1>1, <1>2
<1>6. IsInjective(r)
  <2>1. \A i, j \in 1 .. Len(r) : r[i] = r[j] => i = j
    BY <1>1, <1>2, <1>3
  <2>2. QED BY <1>1, <2>1, ListElements
<1>7. ASSUME NEW x PROVE x \in ToSet(r) <=> x \in ToSet(s) \/ x = u
  BY <1>1, <1>3, <1>4, <1>5, ListElements
<1>8. QED BY <1>1, <1>6, <1>7 DEF r

LEMMA FrontType ==
    ASSUME NEW T, NEW s \in Seq(T), NEW u \in T, IsInjective(s), u \notin ToSet(s)
    PROVE  /\ <<u>> \o s \in Seq(T)
           /\ IsInjective(<<u>> \o s)
           /\ ToSet(<<u>> \o s) = ToSet(s) \cup {u}
<1> DEFINE r == <<u>> \o s
<1>1. /\ r \in Seq(T) /\ Len(r) = 1 + Len(s)
      /\ \A i \in 1 .. 1 + Len(s) : r[i] = IF i <= 1 THEN <<u>>[i] ELSE s[i - 1]
  <2>1. <<u>> \in Seq(T) /\ Len(<<u>>) = 1
    OBVIOUS
  <2>2. QED BY <2>1, ConcatProperties
<1>2. <<u>>[1] = u
  OBVIOUS
<1> HIDE DEF r
<1>3. /\ Len(s) \in Nat /\ \A i \in 1 .. Len(s) : s[i] # u
      /\ \A i, j \in 1 .. Len(s) : s[i] = s[j] => i = j
  BY ListElements
<1>4. /\ 1 \in 1 .. Len(r) /\ r[1] = u
      /\ \A i \in 1 .. Len(s) : i + 1 \in 1 .. Len(r) /\ r[i + 1] = s[i]
  <2>1. ASSUME NEW i \in 1 .. Len(s) PROVE i + 1 \in 1 .. Len(r) /\ r[i + 1] = s[i]
    <3>1. i + 1 \in 1 .. 1 + Len(s) /\ ~(i + 1 <= 1) /\ i + 1 - 1 = i
      BY <1>3
    <3>2. QED BY <1>1, <3>1
  <2>2. 1 \in 1 .. 1 + Len(s)
    BY <1>3
  <2>3. QED BY <1>1, <1>2, <2>1, <2>2
<1>5. ASSUME NEW i \in 1 .. Len(r) PROVE i = 1 \/ \E j \in 1 .. Len(s) : i = j + 1
  <2>1. i = 1 \/ i - 1 \in 1 .. Len(s)
    BY <1>1, <1>3
  <2>2. QED BY <2>1
<1>6. IsInjective(r)
  <2>1. ASSUME NEW i \in 1 .. Len(r), NEW j \in 1 .. Len(r), r[i] = r[j] PROVE i = j
    <3>1. CASE i = 1
      BY <1>3, <1>4, <1>5, <2>1, <3>1
    <3>2. CASE j = 1
      BY <1>3, <1>4, <1>5, <2>1, <3>2
    <3>3. CASE i # 1 /\ j # 1
      <4>1. PICK a \in 1 .. Len(s), b \in 1 .. Len(s) : i = a + 1 /\ j = b + 1
        BY <1>5, <3>3
      <4>2. s[a] = s[b]
        BY <1>4, <2>1, <4>1
      <4>3. QED BY <1>3, <4>1, <4>2
    <3>4. QED BY <3>1, <3>2, <3>3
  <2>2. QED BY <1>1, <2>1, ListElements
<1>7. ASSUME NEW x PROVE x \in ToSet(r) <=> x \in ToSet(s) \/ x = u
  <2>1. x \in ToSet(r) <=> \E i \in 1 .. Len(r) : r[i] = x
    BY <1>1, ListElements
  <2>2. x \in ToSet(s) <=> \E i \in 1 .. Len(s) : s[i] = x
    BY ListElements
  <2>3. QED BY <1>4, <1>5, <2>1, <2>2
<1>8. QED BY <1>1, <1>6, <1>7 DEF r
=============================================================================
