------------------------------ MODULE ListLemmas ------------------------------
(***************************************************************************)
(* Lemmas about the intrusive lists: what unlinking a node, linking one    *)
(* at the tail or in the middle and taking the first do to a sequence that *)
(* links no node twice; and about the remainders that counters wrap to.    *)
(***************************************************************************)
EXTENDS IntrusiveLists, SequenceTheorems, WellFoundedInduction, TLAPS

-----------------------------------------------------------------------------
\* Least and greatest elements

\* Min returns the least element of a set of naturals: SelectInSeq, the loop that
\* looks for a place in a list, stops at the first one.
LEMMA MinElement ==
  ASSUME NEW I \in SUBSET Nat, I # {}
  PROVE  Min(I) \in I /\ \A y \in I : Min(I) <= y
<1>1. PICK x \in I : \A y \in I : <<y, x>> \notin OpToRel(<, Nat)
  BY WFMin, NatLessThanWellFounded
<1>2. \A y \in I : ~(y < x)
  BY <1>1, Zenon DEF OpToRel
<1>3. \A y \in I : x <= y
  BY <1>2
<1> QED BY <1>3 DEF Min

-----------------------------------------------------------------------------
\* Remainders

\* A multiple of m that is not zero is no smaller than m.
LEMMA Times ==
  ASSUME NEW d \in Int, NEW m \in Nat \ {0}
  PROVE  (d >= 1 => d * m >= m) /\ (d <= -1 => d * m <= -m)
OBVIOUS

LEMMA Division ==
  ASSUME NEW a \in Int, NEW m \in Nat \ {0}
  PROVE  a % m \in 0 .. m - 1 /\ a \div m \in Int /\ a = (a \div m) * m + (a % m)
OBVIOUS

\* Quotient and remainder are unique.
LEMMA Remainder ==
  ASSUME NEW a \in Int, NEW m \in Nat \ {0}, NEW q \in Int, NEW r \in 0 .. m - 1, a = q * m + r
  PROVE  a % m = r
<1> DEFINE s == a % m
           p == a \div m
<1>1. s \in 0 .. m - 1 /\ p \in Int /\ a = p * m + s
  BY Division
<1> HIDE DEF s, p
<1>2. (p - q) * m = r - s
  BY <1>1
<1>3. p - q \in Int /\ ~(p - q >= 1) /\ ~(p - q <= -1)
  BY <1>1, <1>2, Times
<1>4. p = q
  BY <1>1, <1>3
<1> QED BY <1>1, <1>4 DEF s

\* The remainder of a number less than m away from zero: counters that wrap.
LEMMA Small ==
  ASSUME NEW m \in Nat \ {0}, NEW a \in Int
  PROVE  (a \in 0 .. m - 1 => a % m = a) /\ (a \in -m .. -1 => a % m = a + m)
<1>1. ASSUME a \in 0 .. m - 1 PROVE a % m = a
  <2>1. a = 0 * m + a
    OBVIOUS
  <2> QED BY <1>1, <2>1, Remainder
<1>2. ASSUME a \in -m .. -1 PROVE a % m = a + m
  <2>1. a = (-1) * m + (a + m) /\ a + m \in 0 .. m - 1 /\ -1 \in Int
    BY <1>2
  <2> QED BY <2>1, Remainder
<1> QED BY <1>1, <1>2

\* Numbers that differ by a multiple of m have one remainder.
LEMMA Congruent ==
  ASSUME NEW m \in Nat \ {0}, NEW a \in Int, NEW b \in Int, NEW q \in Int, a = q * m + b
  PROVE  a % m = b % m
<1> DEFINE p == b \div m
           r == b % m
<1>1. p \in Int /\ r \in 0 .. m - 1 /\ b = p * m + r
  BY Division
<1> HIDE DEF p, r
<1>2. a = (q + p) * m + r /\ q + p \in Int
  BY <1>1
<1>3. a % m = r
  BY <1>1, <1>2, Remainder
<1> QED BY <1>3 DEF r

-----------------------------------------------------------------------------
\* Lists

\* A node linked at the tail of a list that did not have it.
LEMMA AppendDistinct ==
  ASSUME NEW S, NEW s \in Seq(S), NEW t \in S
  PROVE  /\ Append(s, t) \in Seq(S) /\ Append(s, t) # <<>>
         /\ ToSet(Append(s, t)) = ToSet(s) \cup {t}
         /\ Distinct(s) /\ t \notin ToSet(s) => Distinct(Append(s, t))
<1>1. /\ Append(s, t) \in Seq(S) /\ Len(Append(s, t)) = Len(s) + 1
      /\ \A i \in 1 .. Len(s) : Append(s, t)[i] = s[i]
      /\ Append(s, t)[Len(s) + 1] = t
  BY AppendProperties
<1>2. DOMAIN s = 1 .. Len(s) /\ DOMAIN Append(s, t) = 1 .. Len(s) + 1 /\ Len(s) \in Nat
  BY <1>1, LenProperties
<1>3. Append(s, t) # <<>>
  BY <1>1, <1>2, EmptySeq
<1>4. ToSet(Append(s, t)) = ToSet(s) \cup {t}
  BY <1>1, <1>2 DEF ToSet
<1>5. Distinct(s) /\ t \notin ToSet(s) => Distinct(Append(s, t))
  BY <1>1, <1>2 DEF Distinct, IsInjective, ToSet
<1> QED BY <1>1, <1>3, <1>4, <1>5

\* The first node taken off a list.
LEMMA HeadDistinct ==
  ASSUME NEW S, NEW s \in Seq(S), s # <<>>
  PROVE  /\ Head(s) \in S /\ Head(s) \in ToSet(s) /\ Tail(s) \in Seq(S)
         /\ Distinct(s) => /\ Distinct(Tail(s))
                           /\ ToSet(Tail(s)) = ToSet(s) \ {Head(s)}
<1>1. /\ Head(s) \in S /\ Tail(s) \in Seq(S) /\ Len(Tail(s)) = Len(s) - 1
      /\ \A i \in 1 .. Len(Tail(s)) : Tail(s)[i] = s[i + 1]
  BY HeadTailProperties
<1>2. /\ DOMAIN s = 1 .. Len(s) /\ DOMAIN Tail(s) = 1 .. Len(s) - 1
      /\ Len(s) \in Nat /\ Len(s) # 0
  BY <1>1, LenProperties, EmptySeq
<1>3. Head(s) = s[1] /\ Head(s) \in ToSet(s)
  BY <1>2 DEF ToSet
<1>4. ASSUME Distinct(s) PROVE Distinct(Tail(s))
  <2>1. \A i, j \in 1 .. Len(s) : s[i] = s[j] => i = j
    BY <1>2, <1>4 DEF Distinct, IsInjective
  <2>2. \A i, j \in 1 .. Len(s) - 1 : Tail(s)[i] = Tail(s)[j] => i + 1 = j + 1
    BY <1>1, <1>2, <2>1
  <2> QED BY <1>2, <2>2 DEF Distinct, IsInjective
<1>5. ASSUME Distinct(s) PROVE ToSet(Tail(s)) = ToSet(s) \ {Head(s)}
  <2>1. \A i, j \in 1 .. Len(s) : s[i] = s[j] => i = j
    BY <1>2, <1>5 DEF Distinct, IsInjective
  <2>2. ASSUME NEW x \in ToSet(Tail(s)) PROVE x \in ToSet(s) \ {Head(s)}
    <3>1. PICK i \in 1 .. Len(s) - 1 : x = s[i + 1]
      BY <1>1, <1>2, <2>2 DEF ToSet
    <3> QED BY <1>2, <1>3, <2>1, <3>1 DEF ToSet
  <2>3. ASSUME NEW x \in ToSet(s) \ {Head(s)} PROVE x \in ToSet(Tail(s))
    <3>1. PICK i \in 1 .. Len(s) : x = s[i] /\ i # 1
      BY <1>2, <1>3, <2>3 DEF ToSet
    <3>2. i - 1 \in 1 .. Len(s) - 1 /\ Tail(s)[i - 1] = s[i]
      BY <1>1, <1>2, <3>1
    <3> QED BY <1>2, <3>1, <3>2 DEF ToSet
  <2> QED BY <2>2, <2>3
<1> QED BY <1>1, <1>3, <1>4, <1>5

\* rtos_list_remove: a list without the node is left alone ...
LEMMA UnlinkAbsent ==
  ASSUME NEW S, NEW s \in Seq(S), NEW t, t \notin ToSet(s)
  PROVE  Unlink(s, t) = s
BY LenProperties DEF Unlink, RemoveFirst, ToSet

\* ... and from one that links it the nodes behind it move up.
LEMMA UnlinkIndex ==
  ASSUME NEW S, NEW s \in Seq(S), NEW t, Distinct(s), NEW n \in 1 .. Len(s), s[n] = t
  PROVE  LET r == Unlink(s, t)
         IN  /\ r \in Seq(S) /\ Len(r) = Len(s) - 1 /\ DOMAIN r = 1 .. Len(s) - 1
             /\ \A i \in 1 .. Len(s) - 1 : r[i] = IF i < n THEN s[i] ELSE s[i + 1]
<1> DEFINE I == {i \in 1 .. Len(s) : s[i] = t}
<1>1. DOMAIN s = 1 .. Len(s) /\ Len(s) \in Nat /\ \A i \in 1 .. Len(s) : s[i] \in S
  BY LenProperties
<1>3. \A i, j \in 1 .. Len(s) : s[i] = s[j] => i = j
  BY <1>1 DEF Distinct, IsInjective
<1>4. I \in SUBSET Nat /\ I # {}
  OBVIOUS
<1>5. Min(I) = n
  BY ZenonT(60), <1>3, <1>4, MinElement
<1> DEFINE a == SubSeq(s, 1, n - 1)
           b == SubSeq(s, n + 1, Len(s))
<1>6. Unlink(s, t) = a \o b
  BY <1>4, <1>5 DEF Unlink, RemoveFirst, RemoveAt, SelectInSeq
<1>7. /\ a \in Seq(S) /\ Len(a) = n - 1 /\ \A i \in 1 .. n - 1 : a[i] = s[i]
  BY <1>1, SubSeqProperties
<1>8. /\ b \in Seq(S) /\ Len(b) = Len(s) - n
      /\ \A i \in 1 .. Len(s) - n : b[i] = s[n + i]
  <2>1. n + 1 \in Int /\ Len(s) \in Int /\ \A i \in n + 1 .. Len(s) : s[i] \in S
    BY <1>1
  <2>2. /\ b \in Seq(S) /\ Len(b) = IF n + 1 <= Len(s) THEN Len(s) - (n + 1) + 1 ELSE 0
        /\ \A i \in 1 .. Len(s) - (n + 1) + 1 : b[i] = s[n + 1 + i - 1]
    BY <2>1, SubSeqProperties DEF b
  <2> HIDE DEF b
  <2>3. \A i \in 1 .. Len(s) - n : i \in 1 .. Len(s) - (n + 1) + 1 /\ n + 1 + i - 1 = n + i
    BY <1>1
  <2>4. Len(b) = Len(s) - n
    <3>1. Len(b) = IF n + 1 <= Len(s) THEN Len(s) - (n + 1) + 1 ELSE 0
      BY <2>2
    <3>2. n \in Nat /\ Len(s) \in Nat /\ n <= Len(s)
      BY <1>1
    <3> DEFINE lb == Len(b)
               ls == Len(s)
    <3>3. lb = (IF n + 1 <= ls THEN ls - (n + 1) + 1 ELSE 0) /\ ls \in Nat /\ n <= ls
      BY <3>1, <3>2
    <3> HIDE DEF lb, ls
    <3>4. lb = ls - n
      BY <3>2, <3>3
    <3> QED BY <3>4 DEF lb, ls
  <2>5. \A i \in 1 .. Len(s) - n : b[i] = s[n + i]
    BY <2>2, <2>3
  <2> QED BY <2>2, <2>4, <2>5
<1> DEFINE r == a \o b
<1>9. /\ r \in Seq(S) /\ Len(r) = Len(s) - 1 /\ DOMAIN r = 1 .. Len(s) - 1
      /\ \A i \in 1 .. Len(s) - 1 : r[i] = IF i < n THEN s[i] ELSE s[i + 1]
  <2> HIDE DEF a, b
  <2>1. /\ r \in Seq(S) /\ Len(r) = Len(a) + Len(b)
        /\ \A i \in 1 .. Len(a) + Len(b) :
             r[i] = IF i <= Len(a) THEN a[i] ELSE b[i - Len(a)]
    BY <1>7, <1>8, ConcatProperties
  <2>2. DOMAIN r = 1 .. Len(r)
    BY <2>1, LenProperties
  <2>3. Len(a) + Len(b) = Len(s) - 1
    BY <1>1, <1>7, <1>8
  <2> HIDE DEF r
  <2>4. ASSUME NEW i \in 1 .. Len(s) - 1
        PROVE  r[i] = IF i < n THEN s[i] ELSE s[i + 1]
    <3>1. CASE i < n
      BY <1>1, <1>7, <2>1, <2>3, <3>1
    <3>2. CASE i >= n
      <4>1. i - Len(a) \in 1 .. Len(s) - n /\ n + (i - Len(a)) = i + 1
        BY <1>1, <1>7, <3>2
      <4>2. r[i] = b[i - Len(a)]
        BY <1>1, <1>7, <2>1, <2>3, <3>2
      <4> QED BY <1>8, <3>2, <4>1, <4>2
    <3> QED BY <3>1, <3>2
  <2> QED BY <2>1, <2>2, <2>3, <2>4
<1> QED BY <1>6, <1>9 DEF r

\* It loses that node and nothing else.
LEMMA UnlinkDistinct ==
  ASSUME NEW S, NEW s \in Seq(S), NEW t, Distinct(s)
  PROVE  /\ Unlink(s, t) \in Seq(S) /\ Distinct(Unlink(s, t))
         /\ ToSet(Unlink(s, t)) = ToSet(s) \ {t}
<1>1. CASE t \notin ToSet(s)
  BY <1>1, UnlinkAbsent
<1>2. CASE t \in ToSet(s)
  <2> DEFINE r == Unlink(s, t)
  <2>1. DOMAIN s = 1 .. Len(s) /\ Len(s) \in Nat /\ \A i \in 1 .. Len(s) : s[i] \in S
    BY LenProperties
  <2>2. PICK n \in 1 .. Len(s) : s[n] = t
    BY <1>2, <2>1 DEF ToSet
  <2>3. \A i, j \in 1 .. Len(s) : s[i] = s[j] => i = j
    BY <2>1 DEF Distinct, IsInjective
  <2>9. /\ r \in Seq(S) /\ Len(r) = Len(s) - 1 /\ DOMAIN r = 1 .. Len(s) - 1
        /\ \A i \in 1 .. Len(s) - 1 : r[i] = IF i < n THEN s[i] ELSE s[i + 1]
    BY <2>2, UnlinkIndex
  <2> HIDE DEF r
  <2>10. Distinct(r)
    BY <2>1, <2>3, <2>9 DEF Distinct, IsInjective
  <2>11. ASSUME NEW x \in ToSet(r) PROVE x \in ToSet(s) \ {t}
    <3>1. PICK i \in 1 .. Len(s) - 1 : x = IF i < n THEN s[i] ELSE s[i + 1]
      BY <2>9, <2>11 DEF ToSet
    <3> QED BY <2>1, <2>2, <2>3, <3>1 DEF ToSet
  <2>12. ASSUME NEW x \in ToSet(s) \ {t} PROVE x \in ToSet(r)
    <3>1. PICK i \in 1 .. Len(s) : x = s[i] /\ i # n
      BY <2>1, <2>2, <2>12 DEF ToSet
    <3>2. CASE i < n
      BY <2>1, <2>9, <3>1, <3>2 DEF ToSet
    <3>3. CASE i > n
      <4>1. i - 1 \in 1 .. Len(s) - 1 /\ r[i - 1] = s[i]
        BY <2>1, <2>9, <3>1, <3>3
      <4> QED BY <2>9, <3>1, <4>1 DEF ToSet
    <3> QED BY <3>1, <3>2, <3>3
  <2> QED BY <2>9, <2>10, <2>11, <2>12 DEF r
<1> QED BY <1>1, <1>2

\* r is s with the node t linked before its n-th.
LinkedAt(r, s, n, t) ==
  /\ Len(r) = Len(s) + 1 /\ DOMAIN r = 1 .. Len(s) + 1
  /\ \A i \in 1 .. Len(s) + 1 :
       r[i] = IF i < n THEN s[i] ELSE IF i = n THEN t ELSE s[i - 1]

\* rtos_list_insert_before a node that is on the list already.
LEMMA InsertAtIndex ==
  ASSUME NEW S, NEW s \in Seq(S), NEW t \in S, NEW n \in 1 .. Len(s)
  PROVE  InsertAt(s, n, t) \in Seq(S) /\ LinkedAt(InsertAt(s, n, t), s, n, t)
<1> DEFINE a == SubSeq(s, 1, n - 1)
           m == <<t>>
           b == SubSeq(s, n, Len(s))
           c == a \o m
           r == c \o b
<1>1. DOMAIN s = 1 .. Len(s) /\ Len(s) \in Nat /\ \A i \in 1 .. Len(s) : s[i] \in S
  BY LenProperties
<1>2. /\ a \in Seq(S) /\ Len(a) = n - 1 /\ \A i \in 1 .. n - 1 : a[i] = s[i]
  BY <1>1, SubSeqProperties
<1>3. /\ b \in Seq(S) /\ Len(b) = Len(s) - n + 1
      /\ \A i \in 1 .. Len(s) - n + 1 : b[i] = s[n + i - 1]
  BY <1>1, SubSeqProperties
<1>4. m \in Seq(S) /\ Len(m) = 1 /\ m[1] = t
  OBVIOUS
<1>5. InsertAt(s, n, t) = r
  BY DEF InsertAt
<1> HIDE DEF a, m, b
<1>6. /\ c \in Seq(S) /\ Len(c) = n
      /\ \A i \in 1 .. n : c[i] = IF i < n THEN s[i] ELSE t
  <2>1. /\ c \in Seq(S) /\ Len(c) = Len(a) + Len(m)
        /\ \A i \in 1 .. Len(a) + Len(m) :
             c[i] = IF i <= Len(a) THEN a[i] ELSE m[i - Len(a)]
    BY <1>2, <1>4, ConcatProperties
  <2>2. Len(c) = n
    BY <1>2, <1>4, <2>1
  <2> HIDE DEF c
  <2>3. ASSUME NEW i \in 1 .. n PROVE c[i] = IF i < n THEN s[i] ELSE t
    <3>1. CASE i < n
      BY <1>2, <1>4, <2>1, <3>1
    <3>2. CASE i = n
      <4>1. ~(i <= Len(a)) /\ i - Len(a) = 1 /\ i \in 1 .. Len(a) + Len(m)
        BY <1>2, <1>4, <3>2
      <4> QED BY <1>4, <2>1, <3>2, <4>1
    <3> QED BY <1>1, <3>1, <3>2
  <2> QED BY <2>1, <2>2, <2>3
<1> HIDE DEF c
<1>7. /\ r \in Seq(S) /\ Len(r) = Len(s) + 1 /\ DOMAIN r = 1 .. Len(s) + 1
      /\ \A i \in 1 .. Len(s) + 1 :
           r[i] = IF i < n THEN s[i] ELSE IF i = n THEN t ELSE s[i - 1]
  <2>1. /\ r \in Seq(S) /\ Len(r) = n + Len(b)
        /\ \A i \in 1 .. n + Len(b) :
             r[i] = IF i <= n THEN c[i] ELSE b[i - n]
    BY <1>3, <1>6, ConcatProperties
  <2>2. n + Len(b) = Len(s) + 1
    BY <1>1, <1>3
  <2>3. DOMAIN r = 1 .. Len(s) + 1
    BY <2>1, <2>2, LenProperties
  <2> HIDE DEF r
  <2>4. ASSUME NEW i \in 1 .. Len(s) + 1
        PROVE  r[i] = IF i < n THEN s[i] ELSE IF i = n THEN t ELSE s[i - 1]
    <3>1. CASE i <= n
      <4>1. i \in 1 .. n /\ i \in 1 .. n + Len(b) /\ (~(i < n) => i = n)
        BY <1>1, <2>2, <3>1
      <4>2. r[i] = c[i]
        BY <2>1, <3>1, <4>1
      <4> QED BY <1>6, <4>1, <4>2
    <3>2. CASE i > n
      <4>1. i - n \in 1 .. Len(s) - n + 1 /\ n + (i - n) - 1 = i - 1
        BY <1>1, <3>2
      <4>2. r[i] = b[i - n]
        BY <1>1, <2>1, <2>2, <3>2
      <4> QED BY <1>3, <3>2, <4>1, <4>2
    <3> QED BY <1>1, <3>1, <3>2
  <2> QED BY <2>1, <2>2, <2>3, <2>4
<1> HIDE DEF r
<1>8. LinkedAt(r, s, n, t)
  BY <1>7 DEF LinkedAt
<1> QED BY <1>5, <1>7, <1>8

\* The list links it then, and what it did.
LEMMA InsertAtDistinct ==
  ASSUME NEW S, NEW s \in Seq(S), NEW t \in S, NEW n \in 1 .. Len(s)
  PROVE  /\ InsertAt(s, n, t) \in Seq(S)
         /\ ToSet(InsertAt(s, n, t)) = ToSet(s) \cup {t}
         /\ Distinct(s) /\ t \notin ToSet(s) => Distinct(InsertAt(s, n, t))
<1> DEFINE r == InsertAt(s, n, t)
<1>1. DOMAIN s = 1 .. Len(s) /\ Len(s) \in Nat /\ \A i \in 1 .. Len(s) : s[i] \in S
  BY LenProperties
<1>6. r \in Seq(S) /\ LinkedAt(r, s, n, t)
  BY InsertAtIndex
<1> HIDE DEF r
<1>7. /\ DOMAIN r = 1 .. Len(s) + 1
      /\ \A i \in 1 .. Len(s) + 1 :
           r[i] = IF i < n THEN s[i] ELSE IF i = n THEN t ELSE s[i - 1]
  BY <1>6 DEF LinkedAt
<1>8. ASSUME NEW x \in ToSet(r) PROVE x \in ToSet(s) \cup {t}
  <2>1. PICK i \in 1 .. Len(s) + 1 :
          x = IF i < n THEN s[i] ELSE IF i = n THEN t ELSE s[i - 1]
    BY <1>7, <1>8 DEF ToSet
  <2> QED BY <1>1, <2>1 DEF ToSet
<1>9. ASSUME NEW x \in ToSet(s) \cup {t} PROVE x \in ToSet(r)
  <2>1. CASE x = t
    BY <1>1, <1>7, <2>1 DEF ToSet
  <2>2. CASE x \in ToSet(s)
    <3>1. PICK i \in 1 .. Len(s) : x = s[i]
      BY <1>1, <2>2 DEF ToSet
    <3>2. CASE i < n
      BY SMTT(40), <1>1, <1>7, <3>1, <3>2 DEF ToSet
    <3>3. CASE i >= n
      <4>1. i + 1 \in 1 .. Len(s) + 1 /\ r[i + 1] = s[i]
        BY <1>1, <1>7, <3>3
      <4> QED BY <1>7, <3>1, <4>1 DEF ToSet
    <3> QED BY <1>1, <3>2, <3>3
  <2> QED BY <1>9, <2>1, <2>2
<1>10. ASSUME Distinct(s), t \notin ToSet(s) PROVE Distinct(r)
  <2>1. \A i, j \in 1 .. Len(s) : s[i] = s[j] => i = j
    BY <1>1, <1>10 DEF Distinct, IsInjective
  <2>2. \A i \in 1 .. Len(s) : s[i] # t
    BY <1>1, <1>10 DEF ToSet
  <2>3. ASSUME NEW i \in 1 .. Len(s) + 1, NEW j \in 1 .. Len(s) + 1, r[i] = r[j]
        PROVE  i = j
    <3>1. \A k \in 1 .. Len(s) + 1 :
            /\ k < n => k \in 1 .. Len(s) /\ r[k] = s[k]
            /\ k = n => r[k] = t
            /\ k > n => k - 1 \in 1 .. Len(s) /\ r[k] = s[k - 1]
      BY <1>1, <1>7
    <3>2. i \in Int /\ j \in Int /\ n \in Int
      BY <1>1
    <3>3. CASE i < n
      BY <2>1, <2>2, <2>3, <3>1, <3>2, <3>3
    <3>4. CASE i = n
      BY <2>1, <2>2, <2>3, <3>1, <3>2, <3>4
    <3>5. CASE i > n
      BY <2>1, <2>2, <2>3, <3>1, <3>2, <3>5
    <3> QED BY <3>2, <3>3, <3>4, <3>5
  <2> QED BY <1>7, <2>3 DEF Distinct, IsInjective
<1>11. ToSet(r) = ToSet(s) \cup {t}
  BY <1>8, <1>9
<1> QED BY <1>6, <1>10, <1>11 DEF r

\* ... or wherever the loop that looks for its place stops.
LEMMA InsertBeforeDistinct ==
  ASSUME NEW S, NEW s \in Seq(S), NEW t \in S, NEW n \in 0 .. Len(s)
  PROVE  /\ InsertBefore(s, t, n) \in Seq(S)
         /\ ToSet(InsertBefore(s, t, n)) = ToSet(s) \cup {t}
         /\ Distinct(s) /\ t \notin ToSet(s) => Distinct(InsertBefore(s, t, n))
<1>1. CASE n = 0
  BY <1>1, AppendDistinct DEF InsertBefore
<1>2. CASE n # 0
  <2>1. n \in 1 .. Len(s)
    BY <1>2, LenProperties
  <2> QED BY <1>2, <2>1, InsertAtDistinct DEF InsertBefore
<1> QED BY <1>1, <1>2

\* The rest of a list behind its first n nodes.
LEMMA SuffixIndex ==
  ASSUME NEW S, NEW s \in Seq(S), NEW n \in 0 .. Len(s)
  PROVE  LET b == SubSeq(s, n + 1, Len(s))
         IN  /\ b \in Seq(S) /\ DOMAIN b = 1 .. Len(s) - n
             /\ \A i \in 1 .. Len(s) - n : b[i] = s[n + i]
<1> DEFINE b == SubSeq(s, n + 1, Len(s))
<1>0. DOMAIN s = 1 .. Len(s) /\ Len(s) \in Nat /\ \A i \in 1 .. Len(s) : s[i] \in S
  BY LenProperties
<1>1. n + 1 \in Int /\ Len(s) \in Int /\ \A i \in n + 1 .. Len(s) : s[i] \in S
  BY <1>0
<1>2. /\ b \in Seq(S) /\ Len(b) = IF n + 1 <= Len(s) THEN Len(s) - (n + 1) + 1 ELSE 0
      /\ \A i \in 1 .. Len(s) - (n + 1) + 1 : b[i] = s[n + 1 + i - 1]
  BY <1>1, SubSeqProperties
<1> HIDE DEF b
<1>3. \A i \in 1 .. Len(s) - n : i \in 1 .. Len(s) - (n + 1) + 1 /\ n + 1 + i - 1 = n + i
  BY <1>0
<1>4. ASSUME NEW m \in Nat, n <= m
      PROVE  (IF n + 1 <= m THEN m - (n + 1) + 1 ELSE 0) = m - n
  BY <1>4
<1>5. Len(b) = Len(s) - n
  <2> DEFINE ls == Len(s)
             lb == Len(b)
  <2>0. ls \in Nat /\ n <= ls
    BY <1>0
  <2>1. lb = IF n + 1 <= ls THEN ls - (n + 1) + 1 ELSE 0
    BY <1>2
  <2> HIDE DEF ls, lb
  <2>2. lb = ls - n
    BY <1>4, <2>0, <2>1
  <2> QED BY <2>2 DEF ls, lb
<1>6. DOMAIN b = 1 .. Len(b)
  BY <1>2, LenProperties
<1> QED BY <1>2, <1>3, <1>5, <1>6

\* A list cut in two: workqueue_tick_handler takes a first part off the delayed list.
LEMMA SplitDistinct ==
  ASSUME NEW S, NEW s \in Seq(S), NEW n \in 0 .. Len(s), Distinct(s)
  PROVE  LET a == SubSeq(s, 1, n)
             b == SubSeq(s, n + 1, Len(s))
         IN  /\ a \in Seq(S) /\ Len(a) = n /\ Distinct(a)
             /\ b \in Seq(S) /\ Distinct(b)
             /\ ToSet(a) \cap ToSet(b) = {}
             /\ ToSet(a) \cup ToSet(b) = ToSet(s)
<1> DEFINE a == SubSeq(s, 1, n)
           b == SubSeq(s, n + 1, Len(s))
<1>1. DOMAIN s = 1 .. Len(s) /\ Len(s) \in Nat /\ \A i \in 1 .. Len(s) : s[i] \in S
  BY LenProperties
<1>2. /\ a \in Seq(S) /\ Len(a) = n /\ DOMAIN a = 1 .. n
      /\ \A i \in 1 .. n : a[i] = s[i]
  BY <1>1, SubSeqProperties, LenProperties
<1>3. /\ b \in Seq(S) /\ DOMAIN b = 1 .. Len(s) - n
      /\ \A i \in 1 .. Len(s) - n : b[i] = s[n + i]
  BY SuffixIndex
<1> HIDE DEF a, b
<1>4. \A i, j \in 1 .. Len(s) : s[i] = s[j] => i = j
  BY <1>1 DEF Distinct, IsInjective
<1>5. Distinct(a)
  BY <1>1, <1>2, <1>4 DEF Distinct, IsInjective
<1>6. Distinct(b)
  <2>1. \A i \in 1 .. Len(s) - n : n + i \in 1 .. Len(s)
    BY <1>1
  <2>2. ASSUME NEW i \in 1 .. Len(s) - n, NEW j \in 1 .. Len(s) - n, b[i] = b[j]
        PROVE  i = j
    <3>1. n + i = n + j
      BY <1>3, <1>4, <2>1, <2>2
    <3> QED BY <3>1
  <2> QED BY <1>3, <2>2 DEF Distinct, IsInjective
<1>7. ASSUME NEW x \in ToSet(a) PROVE x \in ToSet(s) /\ x \notin ToSet(b)
  <2>1. PICK i \in 1 .. n : x = s[i]
    BY <1>2, <1>7 DEF ToSet
  <2>2. ASSUME NEW j \in 1 .. Len(s) - n, b[j] = x PROVE FALSE
    <3>1. n + j \in 1 .. Len(s) /\ i \in 1 .. Len(s) /\ i # n + j
      BY <1>1
    <3> QED BY <1>3, <1>4, <2>1, <2>2, <3>1
  <2>3. i \in 1 .. Len(s)
    BY <1>1
  <2> QED BY <1>1, <1>3, <2>1, <2>2, <2>3 DEF ToSet
<1>8. ASSUME NEW x \in ToSet(b) PROVE x \in ToSet(s)
  <2>1. PICK i \in 1 .. Len(s) - n : x = s[n + i]
    BY <1>3, <1>8 DEF ToSet
  <2>2. n + i \in 1 .. Len(s)
    BY <1>1
  <2> QED BY <1>1, <2>1, <2>2 DEF ToSet
<1>9. ASSUME NEW x \in ToSet(s) PROVE x \in ToSet(a) \cup ToSet(b)
  <2>1. PICK i \in 1 .. Len(s) : x = s[i]
    BY <1>1, <1>9 DEF ToSet
  <2>2. CASE i <= n
    <3>1. i \in 1 .. n
      BY <2>2
    <3> QED BY <1>2, <2>1, <3>1 DEF ToSet
  <2>3. CASE i > n
    <3>1. i - n \in 1 .. Len(s) - n /\ n + (i - n) = i
      BY <1>1, <2>3
    <3>2. b[i - n] = s[i]
      BY <1>3, <3>1
    <3> QED BY <1>3, <2>1, <3>1, <3>2 DEF ToSet
  <2> QED BY <1>1, <2>2, <2>3
<1> QED BY <1>2, <1>3, <1>5, <1>6, <1>7, <1>8, <1>9 DEF a, b

\* Two lists joined.
LEMMA ConcatDistinct ==
  ASSUME NEW S, NEW s \in Seq(S), NEW t \in Seq(S)
  PROVE  /\ s \o t \in Seq(S)
         /\ ToSet(s \o t) = ToSet(s) \cup ToSet(t)
         /\ Distinct(s) /\ Distinct(t) /\ ToSet(s) \cap ToSet(t) = {} => Distinct(s \o t)
<1> DEFINE r == s \o t
<1>1. /\ DOMAIN s = 1 .. Len(s) /\ Len(s) \in Nat
      /\ DOMAIN t = 1 .. Len(t) /\ Len(t) \in Nat
  BY LenProperties
<1>2. /\ r \in Seq(S) /\ DOMAIN r = 1 .. Len(s) + Len(t)
      /\ \A i \in 1 .. Len(s) + Len(t) :
           r[i] = IF i <= Len(s) THEN s[i] ELSE t[i - Len(s)]
  BY ConcatProperties, LenProperties
<1> HIDE DEF r
<1>3. /\ \A i \in 1 .. Len(s) : i \in 1 .. Len(s) + Len(t) /\ r[i] = s[i]
      /\ \A i \in 1 .. Len(t) : Len(s) + i \in 1 .. Len(s) + Len(t) /\ r[Len(s) + i] = t[i]
  <2>1. ASSUME NEW i \in 1 .. Len(s) PROVE i \in 1 .. Len(s) + Len(t) /\ i <= Len(s)
    BY <1>1
  <2>2. ASSUME NEW i \in 1 .. Len(t)
        PROVE  /\ Len(s) + i \in 1 .. Len(s) + Len(t) /\ ~(Len(s) + i <= Len(s))
               /\ (Len(s) + i) - Len(s) = i
    BY <1>1
  <2> QED BY <1>2, <2>1, <2>2
<1>4. ASSUME NEW i \in 1 .. Len(s) + Len(t)
      PROVE  \/ i \in 1 .. Len(s) /\ r[i] = s[i]
             \/ i - Len(s) \in 1 .. Len(t) /\ r[i] = t[i - Len(s)]
  <2>1. CASE i <= Len(s)
    BY <1>1, <1>2, <2>1
  <2>2. CASE ~(i <= Len(s))
    <3>1. i - Len(s) \in 1 .. Len(t)
      BY <1>1, <2>2
    <3> QED BY <1>2, <2>2, <3>1
  <2> QED BY <2>1, <2>2
<1>5. ToSet(r) = ToSet(s) \cup ToSet(t)
  <2>1. ASSUME NEW x \in ToSet(r) PROVE x \in ToSet(s) \cup ToSet(t)
    <3>1. PICK i \in 1 .. Len(s) + Len(t) : x = r[i]
      BY <1>2, <2>1 DEF ToSet
    <3> QED BY <1>1, <1>4, <3>1 DEF ToSet
  <2>2. ASSUME NEW x \in ToSet(s) PROVE x \in ToSet(r)
    BY <1>1, <1>2, <1>3, <2>2 DEF ToSet
  <2>3. ASSUME NEW x \in ToSet(t) PROVE x \in ToSet(r)
    <3>1. PICK i \in 1 .. Len(t) : x = t[i]
      BY <1>1, <2>3 DEF ToSet
    <3> QED BY <1>2, <1>3, <3>1 DEF ToSet
  <2> QED BY <2>1, <2>2, <2>3
<1>6. ASSUME Distinct(s), Distinct(t), ToSet(s) \cap ToSet(t) = {} PROVE Distinct(r)
  <2>1. /\ \A i, j \in 1 .. Len(s) : s[i] = s[j] => i = j
        /\ \A i, j \in 1 .. Len(t) : t[i] = t[j] => i = j
    BY <1>1, <1>6 DEF Distinct, IsInjective
  <2>2. \A i \in 1 .. Len(s), j \in 1 .. Len(t) : s[i] # t[j]
    BY <1>1, <1>6 DEF ToSet
  <2>3. ASSUME NEW i \in 1 .. Len(s) + Len(t), NEW j \in 1 .. Len(s) + Len(t), r[i] = r[j]
        PROVE  i = j
    <3>1. ASSUME i - Len(s) = j - Len(s) PROVE i = j
      BY <1>1, <3>1
    <3> QED BY <1>4, <2>1, <2>2, <2>3, <3>1
  <2> QED BY <1>2, <2>3 DEF Distinct, IsInjective
<1> QED BY <1>2, <1>5, <1>6 DEF r

\* Unlinking another node leaves the first where it is.
LEMMA UnlinkHead ==
  ASSUME NEW S, NEW s \in Seq(S), Distinct(s), s # <<>>, NEW t, t # Head(s)
  PROVE  Unlink(s, t) # <<>> /\ Head(Unlink(s, t)) = Head(s)
<1>1. DOMAIN s = 1 .. Len(s) /\ Len(s) \in Nat /\ Len(s) # 0 /\ Head(s) = s[1]
  BY LenProperties, EmptySeq, HeadTailProperties
<1>2. CASE t \notin ToSet(s)
  BY <1>2, UnlinkAbsent
<1>3. CASE t \in ToSet(s)
  <2> DEFINE r == Unlink(s, t)
  <2>1. PICK n \in 1 .. Len(s) : s[n] = t
    BY <1>1, <1>3 DEF ToSet
  <2>2. n # 1
    BY <1>1, <2>1
  <2>3. /\ r \in Seq(S) /\ Len(r) = Len(s) - 1
        /\ \A i \in 1 .. Len(s) - 1 : r[i] = IF i < n THEN s[i] ELSE s[i + 1]
    BY <2>1, UnlinkIndex
  <2> HIDE DEF r
  <2>4. 1 \in 1 .. Len(s) - 1 /\ 1 < n
    BY <1>1, <2>1, <2>2
  <2>5. Len(r) # 0 /\ r[1] = s[1]
    BY <1>1, <2>1, <2>3, <2>4
  <2>6. r # <<>> /\ Head(r) = r[1]
    BY SMTT(40), <2>3, <2>5, LenProperties, EmptySeq, HeadTailProperties
  <2> QED BY <1>1, <2>5, <2>6 DEF r
<1> QED BY <1>2, <1>3

\* Taking the first node off a list is unlinking it.
LEMMA UnlinkFirst ==
  ASSUME NEW S, NEW s \in Seq(S), Distinct(s), s # <<>>
  PROVE  Unlink(s, Head(s)) = Tail(s)
<1>1. /\ Len(s) \in Nat /\ Len(s) # 0 /\ Head(s) = s[1] /\ 1 \in 1 .. Len(s)
      /\ Tail(s) \in Seq(S) /\ Len(Tail(s)) = Len(s) - 1
      /\ \A i \in 1 .. Len(Tail(s)) : Tail(s)[i] = s[i + 1]
  BY SMTT(40), LenProperties, EmptySeq, HeadTailProperties
<1> DEFINE r == Unlink(s, Head(s))
<1>2. /\ r \in Seq(S) /\ Len(r) = Len(s) - 1
      /\ \A i \in 1 .. Len(s) - 1 : r[i] = IF i < 1 THEN s[i] ELSE s[i + 1]
  BY ZenonT(60), <1>1, UnlinkIndex
<1> HIDE DEF r
<1>3. \A i \in 1 .. Len(s) - 1 : r[i] = Tail(s)[i]
  BY <1>1, <1>2
<1> QED BY ZenonT(60), <1>1, <1>2, <1>3, SeqEqual DEF r

\* Linking a node at the tail leaves the first where it is.
LEMMA AppendHead ==
  ASSUME NEW S, NEW s \in Seq(S), NEW t \in S
  PROVE  /\ Append(s, t) # <<>>
         /\ Head(Append(s, t)) = IF s = <<>> THEN t ELSE Head(s)
<1>1. /\ Append(s, t) \in Seq(S) /\ Len(Append(s, t)) = Len(s) + 1
      /\ \A i \in 1 .. Len(s) : Append(s, t)[i] = s[i]
      /\ Append(s, t)[Len(s) + 1] = t
  BY AppendProperties
<1>2. Len(s) \in Nat /\ Append(s, t) # <<>> /\ Head(Append(s, t)) = Append(s, t)[1]
  BY <1>1, LenProperties, EmptySeq, HeadTailProperties
<1>3. CASE s = <<>>
  BY <1>1, <1>2, <1>3, EmptySeq
<1>4. CASE s # <<>>
  <2>1. Len(s) # 0 /\ Head(s) = s[1]
    BY <1>4, EmptySeq, HeadTailProperties
  <2> QED BY <1>1, <1>2, <1>4, <2>1
<1> QED BY <1>3, <1>4

-----------------------------------------------------------------------------
\* Sorted lists

\* Every node of s is related by R to those behind it.
Ordered(s, R) == \A i, j \in DOMAIN s : i < j => <<s[i], s[j]>> \in R

LEMMA OrderedBy ==
  ASSUME NEW s, NEW R, NEW Q, Ordered(s, R),
         \A x, y \in ToSet(s) : <<x, y>> \in R => <<x, y>> \in Q
  PROVE  Ordered(s, Q)
BY DEF Ordered, ToSet

\* What a loop that stops at the node n + 1 leaves on the list.
LEMMA SuffixOrdered ==
  ASSUME NEW S, NEW s \in Seq(S), NEW n \in 0 .. Len(s), NEW R, Ordered(s, R)
  PROVE  /\ Ordered(SubSeq(s, n + 1, Len(s)), R)
         /\ \A x \in ToSet(SubSeq(s, n + 1, Len(s))) :
              n < Len(s) /\ (x = s[n + 1] \/ <<s[n + 1], x>> \in R)
<1> DEFINE r == SubSeq(s, n + 1, Len(s))
<1>1. DOMAIN s = 1 .. Len(s) /\ Len(s) \in Nat
  BY LenProperties
<1>3. /\ r \in Seq(S) /\ DOMAIN r = 1 .. Len(s) - n
      /\ \A i \in 1 .. Len(s) - n : r[i] = s[n + i]
  BY SuffixIndex
<1> HIDE DEF r
<1>5. \A i \in DOMAIN r : r[i] = s[n + i] /\ n + i \in DOMAIN s /\ i \in Nat /\ i >= 1
  BY <1>1, <1>3
<1>6. \A i, j \in DOMAIN r : i < j => n + i < n + j
  BY <1>5
<1>7. Ordered(r, R)
  BY <1>5, <1>6 DEF Ordered
<1>8. ASSUME NEW i \in DOMAIN r PROVE n < Len(s) /\ (r[i] = s[n + 1] \/ <<s[n + 1], r[i]>> \in R)
  <2>1. n < Len(s) /\ n + 1 \in DOMAIN s
    BY <1>1, <1>3
  <2>2. CASE i = 1
    BY <1>5, <2>1, <2>2
  <2>3. CASE i # 1
    <3>1. n + 1 < n + i
      BY <1>5, <2>3
    <3> QED BY <1>5, <2>1, <3>1 DEF Ordered
  <2> QED BY <2>2, <2>3
<1> QED BY <1>7, <1>8 DEF ToSet, r

LEMMA UnlinkOrdered ==
  ASSUME NEW S, NEW s \in Seq(S), NEW t, Distinct(s), NEW R, Ordered(s, R)
  PROVE  Ordered(Unlink(s, t), R)
<1>1. DOMAIN s = 1 .. Len(s) /\ Len(s) \in Nat
  BY LenProperties
<1>2. CASE t \notin ToSet(s)
  BY <1>2, UnlinkAbsent
<1>3. CASE t \in ToSet(s)
  <2> DEFINE r == Unlink(s, t)
             at(n, i) == IF i < n THEN i ELSE i + 1
  <2>1. PICK n \in 1 .. Len(s) : s[n] = t
    BY <1>1, <1>3 DEF ToSet
  <2>2. /\ DOMAIN r = 1 .. Len(s) - 1
        /\ \A i \in 1 .. Len(s) - 1 : r[i] = IF i < n THEN s[i] ELSE s[i + 1]
    BY <2>1, UnlinkIndex
  <2> HIDE DEF r
  <2>3. \A i \in DOMAIN r : at(n, i) \in DOMAIN s /\ r[i] = s[at(n, i)]
    BY <1>1, <2>1, <2>2
  <2>4. \A i, j \in DOMAIN r : i < j => at(n, i) < at(n, j)
    BY <1>1, <2>1, <2>2
  <2> HIDE DEF at
  <2>5. Ordered(r, R)
    BY <2>3, <2>4 DEF Ordered
  <2> QED BY <2>5 DEF r
<1> QED BY <1>2, <1>3

LEMMA TailOrdered ==
  ASSUME NEW S, NEW s \in Seq(S), s # <<>>, NEW R, Ordered(s, R)
  PROVE  /\ Ordered(Tail(s), R)
         /\ \A x \in ToSet(Tail(s)) : <<Head(s), x>> \in R
<1>1. /\ DOMAIN s = 1 .. Len(s) /\ Len(s) \in Nat /\ Len(s) # 0
      /\ Tail(s) \in Seq(S) /\ Len(Tail(s)) = Len(s) - 1 /\ Head(s) = s[1]
      /\ \A i \in 1 .. Len(Tail(s)) : Tail(s)[i] = s[i + 1]
  BY LenProperties, EmptySeq, HeadTailProperties
<1>2. DOMAIN Tail(s) = 1 .. Len(s) - 1
  BY <1>1, LenProperties
<1>3. \A i \in DOMAIN Tail(s) : /\ i \in Nat /\ i + 1 \in DOMAIN s /\ 1 < i + 1
                                /\ Tail(s)[i] = s[i + 1]
  BY <1>1, <1>2
<1>4. 1 \in DOMAIN s
  BY <1>1
<1>5. \A i, j \in DOMAIN Tail(s) : i < j => i + 1 < j + 1
  BY <1>3
<1>6. Ordered(Tail(s), R)
  BY <1>3, <1>5 DEF Ordered
<1>7. \A i \in DOMAIN Tail(s) : <<s[1], Tail(s)[i]>> \in R
  BY <1>3, <1>4 DEF Ordered
<1> QED BY <1>1, <1>6, <1>7 DEF ToSet

\* A node linked behind all of those that R puts before it.
LEMMA InsertOrdered ==
  ASSUME NEW S, NEW s \in Seq(S), NEW t \in S, NEW n \in 0 .. Len(s), NEW R, Ordered(s, R),
         \A i \in 1 .. Len(s) : n = 0 \/ i < n => <<s[i], t>> \in R,
         \A i \in 1 .. Len(s) : n # 0 /\ n <= i => <<t, s[i]>> \in R
  PROVE  Ordered(InsertBefore(s, t, n), R)
<1> DEFINE r == InsertBefore(s, t, n)
           m == IF n = 0 THEN Len(s) + 1 ELSE n
           at(i) == IF i < m THEN i ELSE i - 1
<1>1. DOMAIN s = 1 .. Len(s) /\ Len(s) \in Nat /\ m \in 1 .. Len(s) + 1
  BY LenProperties
<1>2. /\ DOMAIN r = 1 .. Len(s) + 1
      /\ r[m] = t
      /\ \A i \in 1 .. Len(s) + 1 : i # m => at(i) \in 1 .. Len(s) /\ r[i] = s[at(i)]
  <2>1. CASE n = 0
    <3>1. /\ r \in Seq(S) /\ Len(r) = Len(s) + 1
          /\ \A i \in 1 .. Len(s) : r[i] = s[i]
          /\ r[Len(s) + 1] = t
      BY <2>1, AppendProperties DEF InsertBefore
    <3>2. DOMAIN r = 1 .. Len(s) + 1
      BY <3>1, LenProperties
    <3> QED BY <1>1, <2>1, <3>1, <3>2
  <2>2. CASE n # 0
    <3>1. n \in 1 .. Len(s) /\ r = InsertAt(s, n, t) /\ m = n
      BY <1>1, <2>2 DEF InsertBefore
    <3>2. LinkedAt(InsertAt(s, n, t), s, n, t)
      BY <3>1, InsertAtIndex
    <3> HIDE DEF r
    <3> QED BY <1>1, <3>1, <3>2 DEF LinkedAt
  <2> QED BY <2>1, <2>2
<1> HIDE DEF r
<1>3. \A i \in 1 .. Len(s) : /\ i < m => <<s[i], t>> \in R
                             /\ m <= i => <<t, s[i]>> \in R
  BY <1>1
<1> HIDE DEF m
<1>4. ASSUME NEW i \in 1 .. Len(s) + 1, NEW j \in 1 .. Len(s) + 1, i < j
      PROVE  <<r[i], r[j]>> \in R
  <2>1. CASE i = m
    <3>1. r[i] = t /\ j # m /\ at(j) \in 1 .. Len(s) /\ m <= at(j) /\ r[j] = s[at(j)]
      BY <1>1, <1>2, <1>4, <2>1
    <3> QED BY <1>3, <3>1
  <2>2. CASE j = m
    <3>1. r[j] = t /\ i # m /\ at(i) \in 1 .. Len(s) /\ at(i) < m /\ r[i] = s[at(i)]
      BY <1>1, <1>2, <1>4, <2>2
    <3> QED BY <1>3, <3>1
  <2>3. CASE i # m /\ j # m
    <3>1. /\ at(i) \in 1 .. Len(s) /\ r[i] = s[at(i)]
          /\ at(j) \in 1 .. Len(s) /\ r[j] = s[at(j)] /\ at(i) < at(j)
      BY <1>1, <1>2, <1>4, <2>3
    <3> HIDE DEF at
    <3> QED BY <1>1, <3>1 DEF Ordered
  <2> QED BY <2>1, <2>2, <2>3
<1> QED BY <1>2, <1>4 DEF Ordered, r

=============================================================================
