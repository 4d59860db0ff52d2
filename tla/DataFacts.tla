------------------------------- MODULE DataFacts -------------------------------
(***************************************************************************)
(* Facts about numbers and sequences that the proofs of several components *)
(* need.  Induction is had without a theorem about operators: the          *)
(* intervals 0 .. n - 1 are finite sets, and finite sets are well founded  *)
(* by inclusion, so that a set of numbers has a least element.             *)
(***************************************************************************)
EXTENDS SubSequences, SequencesExt, SequenceTheorems, FiniteSetTheorems, TLAPS

\* A set of natural numbers that is not empty has a least element.
THEOREM LeastNatural ==
  ASSUME NEW T, T \subseteq Nat, T # {}
  PROVE  \E m \in T : \A k \in T : m <= k
<1> DEFINE Below(n) == 0 .. (n - 1)
           S == FiniteSubsetsOf(Nat)
           R == StrictSubsetOrdering(Nat)
           B == {Below(n) : n \in T}
<1>1. IsWellFoundedOn(R, S)
  BY FS_StrictSubsetOrderingWellFounded
<1>2. \A n \in Nat : Below(n) \in S
  BY FS_Interval DEF FiniteSubsetsOf
<1>3. B \subseteq S /\ B # {}
  BY <1>2
<1>4. PICK b \in B : \A x \in B : <<x, b>> \notin R
  BY <1>1, <1>3, WFMin
<1>5. PICK m \in T : b = Below(m)
  BY <1>4
<1>6. ASSUME NEW k \in T, k < m PROVE FALSE
  <2>1. <<Below(k), Below(m)>> \in R
    BY <1>6 DEF StrictSubsetOrdering
  <2> QED BY <2>1, <1>4, <1>5
<1> QED BY <1>5, <1>6

\* What holds of 0 and, with a number, of the next one holds of every number.
THEOREM NaturalInduction ==
  ASSUME NEW T, 0 \in T, \A n \in Nat : n \in T => n + 1 \in T
  PROVE  \A n \in Nat : n \in T
<1> DEFINE Out == {n \in Nat : n \notin T}
<1>1. SUFFICES ASSUME Out # {} PROVE FALSE
  OBVIOUS
<1>2. PICK m \in Out : \A k \in Out : m <= k
  BY <1>1, LeastNatural
<1>3. m \in Nat /\ m # 0
  BY <1>2
<1>4. m - 1 \in Nat /\ m - 1 \notin Out
  BY <1>2, <1>3
<1> QED BY <1>2, <1>3, <1>4

\* The sequence without its i-th element: the elements before it stay where they
\* are, those after it move up by one.
LEMMA RemoveAtFacts ==
  ASSUME NEW S, NEW s \in Seq(S), NEW i \in DOMAIN s
  PROVE  /\ RemoveAt(s, i) \in Seq(S)
         /\ Len(RemoveAt(s, i)) = Len(s) - 1
         /\ \A k \in 1 .. Len(s) - 1 :
              RemoveAt(s, i)[k] = s[IF k < i THEN k ELSE k + 1]
<1> DEFINE a == SubSeq(s, 1, i - 1)
           b == SubSeq(s, i + 1, Len(s))
<1>1. i \in 1 .. Len(s) /\ Len(s) \in Nat
  BY LenProperties
<1>2. /\ a \in Seq(S) /\ Len(a) = i - 1
      /\ \A k \in 1 .. i - 1 : a[k] = s[k]
  BY <1>1, SubSeqProperties
<1>3. /\ b \in Seq(S) /\ Len(b) = Len(s) - i
      /\ \A k \in 1 .. Len(s) - i : b[k] = s[i + k]
  BY <1>1, SubSeqProperties
<1> HIDE DEF a, b
<1>4. /\ a \o b \in Seq(S) /\ Len(a \o b) = Len(s) - 1
      /\ \A k \in 1 .. Len(s) - 1 :
           (a \o b)[k] = IF k <= i - 1 THEN a[k] ELSE b[k - (i - 1)]
  BY <1>1, <1>2, <1>3, ConcatProperties, SMTT(30)
<1>5. ASSUME NEW k \in 1 .. Len(s) - 1
      PROVE  (a \o b)[k] = s[IF k < i THEN k ELSE k + 1]
  <2>1. CASE k < i
    <3>1. k \in 1 .. i - 1
      BY <1>1, <2>1
    <3> QED BY <1>1, <1>2, <1>4, <2>1, <3>1
  <2>2. CASE ~ (k < i)
    <3>1. k - (i - 1) \in 1 .. Len(s) - i /\ i + (k - (i - 1)) = k + 1
      BY <1>1, <2>2
    <3>2. (a \o b)[k] = b[k - (i - 1)]
      BY <1>1, <1>4, <2>2
    <3> QED BY <1>3, <2>2, <3>1, <3>2
  <2> QED BY <2>1, <2>2
<1>6. RemoveAt(s, i) = a \o b
  BY DEF a, b, RemoveAt
<1> QED BY <1>4, <1>5, <1>6

\* A sequence over a set holds members of the set only, and conversely.
LEMMA ToSetFacts ==
  ASSUME NEW S, NEW T, NEW q \in Seq(S)
  PROVE  ToSet(q) \subseteq T <=> q \in Seq(T)
<1>1. Len(q) \in Nat /\ q = [i \in 1 .. Len(q) |-> q[i]] /\ DOMAIN q = 1 .. Len(q)
  BY LenProperties
<1>2. ASSUME \A i \in 1 .. Len(q) : q[i] \in T PROVE q \in Seq(T)
  BY <1>1, <1>2, IsASeq
<1>3. ASSUME q \in Seq(T) PROVE \A i \in DOMAIN q : q[i] \in T
  BY <1>1, <1>3, ElementOfSeq
<1> QED BY <1>1, <1>2, <1>3 DEF ToSet

\* The recursion of KeptAt.
LEMMA KeptAtGrows ==
  ASSUME NEW T, NEW s \in Seq(T), NEW I
  PROVE  \E kept :
           /\ KeptAt(s, I) = kept[Len(s)] /\ kept[0] = <<>>
           /\ \A i \in 1 .. Len(s) :
                kept[i] = IF i \in I THEN Append(kept[i - 1], s[i]) ELSE kept[i - 1]
<1> DEFINE From(g, i) ==
             IF i = 0 THEN <<>>
             ELSE IF i \in I THEN Append(g[i - 1], s[i]) ELSE g[i - 1]
           IsKept(g, n) == g = [i \in 0 .. n |-> From(g, i)]
           Counted == {n \in Nat : \E g : IsKept(g, n)}
<1>1. Len(s) \in Nat /\ DOMAIN s = 1 .. Len(s) /\ \A i \in 1 .. Len(s) : s[i] \in T
  BY LenProperties
<1>2. 0 \in Counted
  <2> DEFINE g == [i \in 0 .. 0 |-> <<>>]
  <2>1. IsKept(g, 0)
    OBVIOUS
  <2> QED BY <2>1
<1>3. ASSUME NEW n \in Nat, n \in Counted PROVE n + 1 \in Counted
  <2>1. PICK g : IsKept(g, n)
    BY <1>3
  <2> DEFINE h == [i \in 0 .. n + 1 |-> IF i <= n THEN g[i] ELSE From(g, n + 1)]
  <2>2. \A i \in 0 .. n : g[i] = From(g, i)
    BY <2>1
  <2>3. \A i \in 0 .. n + 1 : h[i] = From(h, i)
    BY <2>2
  <2>4. IsKept(h, n + 1)
    BY <2>3
  <2> HIDE DEF h, IsKept
  <2>5. \E f : IsKept(f, n + 1)
    BY <2>4
  <2> QED BY <2>5
<1>4. Len(s) \in Counted
  <2> HIDE DEF Counted
  <2> QED BY <1>1, <1>2, <1>3, NaturalInduction
<1> DEFINE kept == CHOOSE g : IsKept(g, Len(s))
<1>5. IsKept(kept, Len(s))
  BY <1>4
<1>6. KeptAt(s, I) = kept[Len(s)]
  BY DEF KeptAt
<1> HIDE DEF kept
<1>7. \A i \in 0 .. Len(s) : kept[i] = From(kept, i)
  BY <1>1, <1>5
<1>8. /\ kept[0] = <<>>
      /\ \A i \in 1 .. Len(s) :
           kept[i] = IF i \in I THEN Append(kept[i - 1], s[i]) ELSE kept[i - 1]
  BY <1>1, <1>7
<1> QED BY <1>6, <1>8

\* The recursion of Kept.
LEMMA KeptGrows ==
  ASSUME NEW T, NEW s \in Seq(T), NEW S
  PROVE  \E kept :
           /\ Kept(s, S) = kept[Len(s)] /\ kept[0] = <<>>
           /\ \A i \in 1 .. Len(s) :
                kept[i] = IF s[i] \in S THEN Append(kept[i - 1], s[i]) ELSE kept[i - 1]
<1>1. PICK I : I = {i \in DOMAIN s : s[i] \in S}
  OBVIOUS
<1>2. Len(s) \in Nat /\ DOMAIN s = 1 .. Len(s)
  BY LenProperties
<1>3. Kept(s, S) = KeptAt(s, I) /\ \A i \in 1 .. Len(s) : i \in I <=> s[i] \in S
  BY <1>1, <1>2 DEF Kept
<1>4. PICK kept :
        /\ KeptAt(s, I) = kept[Len(s)] /\ kept[0] = <<>>
        /\ \A i \in 1 .. Len(s) :
             kept[i] = IF i \in I THEN Append(kept[i - 1], s[i]) ELSE kept[i - 1]
  BY KeptAtGrows
<1>5. \A i \in 1 .. Len(s) :
        kept[i] = IF s[i] \in S THEN Append(kept[i - 1], s[i]) ELSE kept[i - 1]
  BY <1>3, <1>4
<1> QED BY <1>3, <1>4, <1>5

\* The k-th element of r is the f[k]-th of s, and those are the ones at the places
\* I, in their order.
PlacedBy(f, r, s, I) == /\ f \in [DOMAIN r -> I]
                        /\ \A k \in DOMAIN r : r[k] = s[f[k]]
                        /\ \A k, l \in DOMAIN r : k < l => f[k] < f[l]
                        /\ \A i \in I : \E k \in DOMAIN r : f[k] = i

\* The places that the elements kept come from: all of I, in their order.
LEMMA KeptAtPlaces ==
  ASSUME NEW T, NEW s \in Seq(T), NEW I, I \subseteq DOMAIN s
  PROVE  KeptAt(s, I) \in Seq(T) /\ \E f : PlacedBy(f, KeptAt(s, I), s, I)
<1>1. Len(s) \in Nat /\ DOMAIN s = 1 .. Len(s) /\ \A i \in 1 .. Len(s) : s[i] \in T
  BY LenProperties
<1>2. PICK kept :
        /\ KeptAt(s, I) = kept[Len(s)] /\ kept[0] = <<>>
        /\ \A i \in 1 .. Len(s) :
             kept[i] = IF i \in I THEN Append(kept[i - 1], s[i]) ELSE kept[i - 1]
  BY KeptAtGrows
<1> DEFINE Places(r, n, f) == PlacedBy(f, r, s, I \cap (1 .. n))
           Good(n) == kept[n] \in Seq(T) /\ \E f : Places(kept[n], n, f)
           Goods == {n \in Nat : n <= Len(s) => Good(n)}
<1>3. 0 \in Goods
  <2>1. kept[0] \in Seq(T) /\ DOMAIN kept[0] = {} /\ I \cap (1 .. 0) = {}
    BY <1>2
  <2>2. Places(kept[0], 0, [k \in {} |-> k])
    BY <2>1 DEF PlacedBy
  <2> HIDE DEF Places
  <2>3. \E f : Places(kept[0], 0, f)
    BY <2>2
  <2> QED BY <2>1, <2>3
<1>4. ASSUME NEW n \in Nat, n \in Goods PROVE n + 1 \in Goods
  <2> HIDE DEF Good
  <2> SUFFICES ASSUME n + 1 <= Len(s) PROVE Good(n + 1)
    OBVIOUS
  <2>1. Good(n)
    BY <1>1, <1>4
  <2> USE DEF Good
  <2>2. PICK r : r = kept[n]
    OBVIOUS
  <2>3. PICK f : Places(r, n, f)
    BY <2>1, <2>2
  <2>4. /\ r \in Seq(T) /\ Len(r) \in Nat /\ DOMAIN r = 1 .. Len(r)
        /\ n + 1 \in 1 .. Len(s) /\ (n + 1) - 1 = n /\ s[n + 1] \in T
    BY <1>1, <2>1, <2>2, LenProperties
  <2>5. CASE n + 1 \notin I
    <3>1. kept[n + 1] = r /\ I \cap (1 .. n + 1) = I \cap (1 .. n)
      BY <1>2, <2>2, <2>4, <2>5
    <3>2. Places(r, n + 1, f)
      BY <2>3, <3>1
    <3> HIDE DEF Places
    <3> QED BY <2>4, <3>1, <3>2
  <2>6. CASE n + 1 \in I
    <3>1. PICK e, q : e = s[n + 1] /\ q = Append(r, e)
      OBVIOUS
    <3>2. /\ kept[n + 1] = q /\ q \in Seq(T) /\ DOMAIN q = 1 .. Len(r) + 1
          /\ \A k \in 1 .. Len(r) : q[k] = r[k]
          /\ q[Len(r) + 1] = e
      <4>1. kept[n + 1] = q
        BY <1>2, <2>2, <2>4, <2>6, <3>1
      <4>2. /\ q \in Seq(T) /\ Len(q) = Len(r) + 1 /\ q[Len(r) + 1] = e
            /\ \A k \in 1 .. Len(r) : q[k] = r[k]
        BY <2>4, <3>1, AppendProperties
      <4> QED BY <4>1, <4>2, LenProperties
    <3> DEFINE h == [k \in 1 .. Len(r) + 1 |-> IF k <= Len(r) THEN f[k] ELSE n + 1]
    <3>3. \A k \in 1 .. Len(r) : /\ h[k] = f[k] /\ f[k] \in I \cap (1 .. n)
                                 /\ r[k] = s[f[k]]
      <4> TAKE k \in 1 .. Len(r)
      <4>1. k \in 1 .. Len(r) + 1 /\ k <= Len(r)
        BY <2>4
      <4>2. h[k] = f[k]
        BY <4>1
      <4>3. f \in [1 .. Len(r) -> I \cap (1 .. n)] /\ r[k] = s[f[k]]
        BY <2>3 DEF PlacedBy
      <4> QED BY <4>2, <4>3
    <3>4. h[Len(r) + 1] = n + 1 /\ h \in [1 .. Len(r) + 1 -> I \cap (1 .. n + 1)]
      BY <2>4, <2>6, <3>3
    <3>5. \A k \in 1 .. Len(r) + 1 : q[k] = s[h[k]]
      <4>1. \A k \in 1 .. Len(r) : q[k] = s[h[k]]
        BY <3>2, <3>3
      <4>2. q[Len(r) + 1] = s[h[Len(r) + 1]]
        BY <3>1, <3>2, <3>4
      <4> HIDE DEF h
      <4> QED BY <2>4, <4>1, <4>2
    <3>6. ASSUME NEW k \in 1 .. Len(r) + 1, NEW l \in 1 .. Len(r) + 1, k < l
          PROVE  h[k] < h[l]
      <4>1. k \in 1 .. Len(r)
        BY <2>4, <3>6
      <4>2. CASE l \in 1 .. Len(r)
        <5>1. f[k] < f[l]
          BY <2>3, <2>4, <3>6, <4>1, <4>2 DEF PlacedBy
        <5> QED BY <3>3, <4>1, <4>2, <5>1
      <4>3. CASE l = Len(r) + 1
        <5>1. h[k] = f[k] /\ f[k] \in 1 .. n /\ h[l] = n + 1
          BY <3>3, <3>4, <4>1, <4>3
        <5> HIDE DEF h
        <5> QED BY <2>4, <5>1
      <4> QED BY <2>4, <4>2, <4>3
    <3>7. ASSUME NEW i \in I \cap (1 .. n + 1) PROVE \E k \in 1 .. Len(r) + 1 : h[k] = i
      <4>1. CASE i = n + 1
        BY <2>4, <3>4, <4>1
      <4>2. CASE i # n + 1
        <5>1. i \in I \cap (1 .. n)
          BY <3>7, <4>2
        <5>2. PICK k \in 1 .. Len(r) : f[k] = i
          BY <2>3, <2>4, <5>1 DEF PlacedBy
        <5> QED BY <2>4, <3>3, <5>2
      <4> QED BY <4>1, <4>2
    <3> HIDE DEF h
    <3>8. Places(q, n + 1, h)
      BY <3>2, <3>4, <3>5, <3>6, <3>7 DEF PlacedBy
    <3> HIDE DEF Places
    <3> QED BY <3>2, <3>8
  <2> QED BY <2>5, <2>6
<1>5. Len(s) \in Goods
  <2> HIDE DEF Goods
  <2> QED BY <1>1, <1>3, <1>4, NaturalInduction
<1>6. Good(Len(s)) /\ I \cap (1 .. Len(s)) = I
  <2> HIDE DEF Good
  <2> QED BY <1>1, <1>5
<1>7. PICK r : r = KeptAt(s, I)
  OBVIOUS
<1>8. r \in Seq(T) /\ \E f : Places(r, Len(s), f)
  BY <1>2, <1>6, <1>7
<1> QED BY <1>6, <1>7, <1>8

\* What is kept of a sequence: its members that are in S, none of them more often
\* than before.
LEMMA KeptFacts ==
  ASSUME NEW T, NEW s \in Seq(T), NEW S
  PROVE  /\ Kept(s, S) \in Seq(T \cap S)
         /\ ToSet(Kept(s, S)) = ToSet(s) \cap S
         /\ IsInjective(s) => IsInjective(Kept(s, S))
<1> DEFINE From(g, i) ==
             IF i = 0 THEN <<>>
             ELSE IF s[i] \in S THEN Append(g[i - 1], s[i]) ELSE g[i - 1]
<1>1. Len(s) \in Nat /\ DOMAIN s = 1 .. Len(s) /\ \A i \in 1 .. Len(s) : s[i] \in T
  BY LenProperties
<1>6. PICK kept :
        /\ Kept(s, S) = kept[Len(s)] /\ kept[0] = <<>>
        /\ \A i \in 1 .. Len(s) :
             kept[i] = IF s[i] \in S THEN Append(kept[i - 1], s[i]) ELSE kept[i - 1]
  BY KeptGrows
<1>7. \A i \in 0 .. Len(s) : kept[i] = From(kept, i)
  BY <1>1, <1>6
<1> DEFINE Members(n) == {s[i] : i \in 1 .. n}
           Good(n) == /\ kept[n] \in Seq(T \cap S)
                      /\ ToSet(kept[n]) = Members(n) \cap S
                      /\ IsInjective(s) => IsInjective(kept[n])
           Goods == {n \in Nat : n <= Len(s) => Good(n)}
<1>8. 0 \in Goods
  <2>1. kept[0] = <<>>
    BY <1>1, <1>7
  <2>2. kept[0] \in Seq(T \cap S) /\ DOMAIN kept[0] = {}
    BY <2>1, EmptySeq
  <2> QED BY <2>2 DEF ToSet, IsInjective
<1>9. ASSUME NEW n \in Nat, n \in Goods PROVE n + 1 \in Goods
  <2> SUFFICES ASSUME n + 1 <= Len(s) PROVE Good(n + 1)
    OBVIOUS
  <2> DEFINE e == s[n + 1]
             k == kept[n]
  <2>1. Good(n)
    BY <1>1, <1>9
  <2>2. kept[n + 1] = IF e \in S THEN Append(k, e) ELSE k
    BY <1>1, <1>7
  <2>3. Members(n + 1) = Members(n) \cup {e}
    OBVIOUS
  <2>4. e \in T
    BY <1>1
  <2>5. CASE e \notin S
    BY <2>1, <2>2, <2>3, <2>5
  <2>6. CASE e \in S
    <3> HIDE DEF e, k
    <3>1. /\ kept[n + 1] = Append(k, e)
          /\ k \in Seq(T \cap S) /\ Len(k) \in Nat /\ DOMAIN k = 1 .. Len(k)
      BY <2>1, <2>2, <2>6, LenProperties DEF k
    <3>2. /\ Append(k, e) \in Seq(T \cap S)
          /\ DOMAIN Append(k, e) = 1 .. Len(k) + 1
          /\ \A i \in 1 .. Len(k) : Append(k, e)[i] = k[i]
          /\ Append(k, e)[Len(k) + 1] = e
      BY <2>4, <2>6, <3>1, AppendProperties, LenProperties
    <3>3. ToSet(Append(k, e)) = ToSet(k) \cup {e}
      BY <3>1, <3>2 DEF ToSet
    <3>4. ASSUME IsInjective(s) PROVE IsInjective(Append(k, e))
      <4>1. e \notin Members(n)
        BY <1>1, <3>4 DEF IsInjective, e
      <4>2. e \notin ToSet(k) /\ IsInjective(k)
        BY <2>1, <3>4, <4>1 DEF k
      <4> QED BY <3>1, <3>2, <4>2 DEF IsInjective, ToSet
    <3>5. ToSet(k) = Members(n) \cap S
      BY <2>1 DEF k
    <3> QED BY <2>3, <2>6, <3>1, <3>2, <3>3, <3>4, <3>5 DEF e
  <2> QED BY <2>5, <2>6
<1>10. Len(s) \in Goods
  <2> HIDE DEF Goods
  <2> QED BY <1>1, <1>8, <1>9, NaturalInduction
<1>11. Good(Len(s))
  BY <1>1, <1>10
<1>12. Members(Len(s)) = ToSet(s)
  BY <1>1 DEF ToSet
<1> QED BY <1>6, <1>11, <1>12

\* One more element.
LEMMA KeptAppend ==
  ASSUME NEW T, NEW s \in Seq(T), NEW e \in T, NEW S
  PROVE  Kept(Append(s, e), S) = IF e \in S THEN Append(Kept(s, S), e) ELSE Kept(s, S)
<1> DEFINE longer == Append(s, e)
<1>1. /\ Len(s) \in Nat /\ longer \in Seq(T) /\ Len(longer) = Len(s) + 1
      /\ longer[Len(s) + 1] = e /\ \A i \in 1 .. Len(s) : longer[i] = s[i]
  BY LenProperties, AppendProperties
<1> HIDE DEF longer
<1>2. PICK f : /\ Kept(s, S) = f[Len(s)] /\ f[0] = <<>>
               /\ \A i \in 1 .. Len(s) :
                    f[i] = IF s[i] \in S THEN Append(f[i - 1], s[i]) ELSE f[i - 1]
  BY KeptGrows
<1>3. PICK g : /\ Kept(longer, S) = g[Len(longer)] /\ g[0] = <<>>
               /\ \A i \in 1 .. Len(longer) :
                    g[i] = IF longer[i] \in S THEN Append(g[i - 1], longer[i]) ELSE g[i - 1]
  BY <1>1, KeptGrows
<1> DEFINE Same == {n \in Nat : n <= Len(s) => f[n] = g[n]}
<1>4. 0 \in Same
  BY <1>2, <1>3
<1>5. ASSUME NEW n \in Nat, n \in Same PROVE n + 1 \in Same
  <2> SUFFICES ASSUME n + 1 <= Len(s) PROVE f[n + 1] = g[n + 1]
    OBVIOUS
  <2>1. n + 1 \in 1 .. Len(s) /\ n + 1 \in 1 .. Len(longer) /\ n + 1 - 1 = n /\ f[n] = g[n]
    BY <1>1, <1>5
  <2> QED BY <1>1, <1>2, <1>3, <2>1
<1>6. Len(s) \in Same
  <2> HIDE DEF Same
  <2> QED BY <1>1, <1>4, <1>5, NaturalInduction
<1>7. Len(s) + 1 \in 1 .. Len(longer) /\ Len(s) + 1 - 1 = Len(s) /\ f[Len(s)] = g[Len(s)]
  BY <1>1, <1>6
<1>8. Kept(longer, S) = IF e \in S THEN Append(Kept(s, S), e) ELSE Kept(s, S)
  BY <1>1, <1>2, <1>3, <1>7
<1> QED BY <1>8 DEF longer

\* Nothing, or nothing that is in S.
LEMMA KeptNothing ==
  ASSUME NEW T, NEW s \in Seq(T), NEW S, ToSet(s) \cap S = {}
  PROVE  Kept(s, S) = <<>>
<1>1. Kept(s, S) \in Seq(T \cap S) /\ ToSet(Kept(s, S)) = {}
  BY KeptFacts
<1>2. Len(Kept(s, S)) \in Nat /\ DOMAIN Kept(s, S) = 1 .. Len(Kept(s, S))
  BY <1>1, LenProperties
<1>3. Len(Kept(s, S)) = 0
  <2> SUFFICES ASSUME Len(Kept(s, S)) # 0 PROVE FALSE
    OBVIOUS
  <2>1. 1 \in DOMAIN Kept(s, S)
    BY <1>2
  <2> QED BY <1>1, <2>1 DEF ToSet
<1> QED BY <1>1, <1>3, EmptySeq

\* One element alone.
LEMMA KeptOne ==
  ASSUME NEW T, NEW e \in T, NEW S
  PROVE  Kept(<<e>>, S) = IF e \in S THEN <<e>> ELSE <<>>
<1>1. <<>> \in Seq(T) /\ Append(<<>>, e) = <<e>>
  OBVIOUS
<1>2. Kept(<<>>, S) = <<>>
  <2>1. DOMAIN <<>> = {}
    OBVIOUS
  <2> QED BY <1>1, <2>1, KeptNothing DEF ToSet
<1>3. Kept(Append(<<>>, e), S) = IF e \in S THEN Append(<<>>, e) ELSE <<>>
  BY <1>1, <1>2, KeptAppend
<1> QED BY <1>1, <1>3

\* One sequence after another.
LEMMA KeptConcat ==
  ASSUME NEW T, NEW s \in Seq(T), NEW t \in Seq(T), NEW S
  PROVE  Kept(s \o t, S) = Kept(s, S) \o Kept(t, S)
<1> DEFINE First(n) == SubSeq(t, 1, n)
           Good(n) == Kept(s \o First(n), S) = Kept(s, S) \o Kept(First(n), S)
           Goods == {n \in Nat : n <= Len(t) => Good(n)}
<1>1. /\ Len(s) \in Nat /\ Len(t) \in Nat /\ \A i \in 1 .. Len(t) : t[i] \in T
      /\ Kept(s, S) \in Seq(T)
  <2>1. Kept(s, S) \in Seq(T \cap S) /\ T \cap S \subseteq T
    BY KeptFacts
  <2> QED BY <2>1, LenProperties, SeqMonotonic
<1>2. 0 \in Goods
  <2>1. First(0) = <<>> /\ s \o <<>> = s /\ Kept(s, S) \o <<>> = Kept(s, S)
    BY <1>1, SubSeqEmpty, ConcatEmptySeq
  <2>2. Kept(<<>>, S) = <<>>
    <3>1. <<>> \in Seq(T) /\ DOMAIN <<>> = {}
      OBVIOUS
    <3> QED BY <3>1, KeptNothing DEF ToSet
  <2> HIDE DEF First
  <2> QED BY <2>1, <2>2
<1>3. ASSUME NEW n \in Nat, n \in Goods PROVE n + 1 \in Goods
  <2> SUFFICES ASSUME n + 1 <= Len(t) PROVE Good(n + 1)
    OBVIOUS
  <2>1. PICK e : e = t[n + 1]
    OBVIOUS
  <2>2. e \in T /\ First(n) \in Seq(T) /\ First(n + 1) = Append(First(n), e)
    <3>1. n + 1 \in 1 .. Len(t) /\ \A i \in 1 .. n : i \in 1 .. Len(t)
      BY <1>1
    <3>2. First(n) \in Seq(T)
      BY <1>1, <3>1, SubSeqProperties
    <3>3. First(n + 1) = Append(First(n), t[n + 1])
      BY <1>1, <3>1, SubSeqRecursiveSecond
    <3> QED BY <1>1, <2>1, <3>1, <3>2, <3>3
  <2>3. Good(n)
    BY <1>1, <1>3
  <2> HIDE DEF First
  <2>4. s \o First(n) \in Seq(T) /\ s \o Append(First(n), e) = Append(s \o First(n), e)
    BY <2>2, ConcatProperties, AppendIsConcat, ConcatAssociative, SMTT(30)
  <2>5. /\ Kept(Append(s \o First(n), e), S) =
             IF e \in S THEN Append(Kept(s \o First(n), S), e) ELSE Kept(s \o First(n), S)
        /\ Kept(Append(First(n), e), S) =
             IF e \in S THEN Append(Kept(First(n), S), e) ELSE Kept(First(n), S)
    BY <2>2, <2>4, KeptAppend
  <2>6. Kept(First(n), S) \in Seq(T)
    <3>1. Kept(First(n), S) \in Seq(T \cap S) /\ T \cap S \subseteq T
      BY <2>2, KeptFacts
    <3> QED BY <3>1, SeqMonotonic
  <2>7. Kept(s, S) \o Append(Kept(First(n), S), e) = Append(Kept(s, S) \o Kept(First(n), S), e)
    <3>1. PICK a, b : a = Kept(s, S) /\ b = Kept(First(n), S)
      OBVIOUS
    <3>2. a \in Seq(T) /\ b \in Seq(T)
      BY <1>1, <2>6, <3>1
    <3>3. a \o Append(b, e) = Append(a \o b, e)
      <4>1. a \o b \in Seq(T) /\ <<e>> \in Seq(T)
        BY <2>2, <3>2, ConcatProperties
      <4>2. Append(b, e) = b \o <<e>> /\ Append(a \o b, e) = (a \o b) \o <<e>>
        BY <2>2, <3>2, <4>1, AppendIsConcat
      <4>3. (a \o b) \o <<e>> = a \o (b \o <<e>>)
        BY <3>2, <4>1, ConcatAssociative, SMTT(30)
      <4> QED BY <4>2, <4>3
    <3> QED BY <3>1, <3>3
  <2> QED BY <2>2, <2>3, <2>4, <2>5, <2>7
<1>4. Len(t) \in Goods
  <2> HIDE DEF Goods
  <2> QED BY <1>1, <1>2, <1>3, NaturalInduction
<1>5. First(Len(t)) = t
  BY SubSeqFull
<1>6. Good(Len(t))
  BY <1>1, <1>4
<1> HIDE DEF First
<1> QED BY <1>5, <1>6

--------------------------------------------------------------------------------
(* Sequences that list each of their members once.                           *)

\* Another member at the end.
LEMMA AppendFacts ==
  ASSUME NEW S, NEW s \in Seq(S), NEW e \in S
  PROVE  /\ Append(s, e) \in Seq(S)
         /\ ToSet(Append(s, e)) = ToSet(s) \cup {e}
         /\ IsInjective(s) /\ e \notin ToSet(s) => IsInjective(Append(s, e))
<1>1. Len(s) \in Nat /\ DOMAIN s = 1 .. Len(s)
  BY LenProperties
<1>2. /\ Append(s, e) \in Seq(S)
      /\ DOMAIN Append(s, e) = 1 .. Len(s) + 1
      /\ \A i \in 1 .. Len(s) : Append(s, e)[i] = s[i]
      /\ Append(s, e)[Len(s) + 1] = e
  BY <1>1, AppendProperties, LenProperties
<1>3. ToSet(Append(s, e)) = ToSet(s) \cup {e}
  BY <1>1, <1>2 DEF ToSet
<1>4. ASSUME IsInjective(s), e \notin ToSet(s) PROVE IsInjective(Append(s, e))
  BY <1>1, <1>2, <1>4 DEF IsInjective, ToSet
<1> QED BY <1>2, <1>3, <1>4

\* One sequence after the other.
LEMMA ConcatFacts ==
  ASSUME NEW S, NEW s \in Seq(S), NEW t \in Seq(S)
  PROVE  /\ s \o t \in Seq(S)
         /\ ToSet(s \o t) = ToSet(s) \cup ToSet(t)
         /\ IsInjective(s) /\ IsInjective(t) /\ ToSet(s) \cap ToSet(t) = {} =>
              IsInjective(s \o t)
<1>1. /\ Len(s) \in Nat /\ DOMAIN s = 1 .. Len(s)
      /\ Len(t) \in Nat /\ DOMAIN t = 1 .. Len(t)
  BY LenProperties
<1>2. /\ s \o t \in Seq(S)
      /\ DOMAIN (s \o t) = 1 .. Len(s) + Len(t)
      /\ \A i \in 1 .. Len(s) : (s \o t)[i] = s[i]
      /\ \A i \in Len(s) + 1 .. Len(s) + Len(t) : (s \o t)[i] = t[i - Len(s)]
  BY <1>1, ConcatProperties, LenProperties
<1>3. \A i \in 1 .. Len(t) : (s \o t)[Len(s) + i] = t[i]
  <2> SUFFICES ASSUME NEW i \in 1 .. Len(t) PROVE (s \o t)[Len(s) + i] = t[i]
    OBVIOUS
  <2>1. Len(s) + i \in Len(s) + 1 .. Len(s) + Len(t) /\ Len(s) + i - Len(s) = i
    BY <1>1
  <2> QED BY <1>2, <2>1
<1>4. ToSet(s \o t) \subseteq ToSet(s) \cup ToSet(t)
  <2> SUFFICES ASSUME NEW i \in 1 .. Len(s) + Len(t)
               PROVE  (s \o t)[i] \in ToSet(s) \cup ToSet(t)
    BY <1>2 DEF ToSet
  <2>1. CASE i <= Len(s)
    <3>1. i \in DOMAIN s
      BY <1>1, <2>1
    <3> QED BY <1>1, <1>2, <3>1 DEF ToSet
  <2>2. CASE ~ (i <= Len(s))
    <3>1. i - Len(s) \in DOMAIN t /\ i \in Len(s) + 1 .. Len(s) + Len(t)
      BY <1>1, <2>2
    <3> QED BY <1>2, <3>1 DEF ToSet
  <2> QED BY <2>1, <2>2
<1>5. ToSet(s) \subseteq ToSet(s \o t)
  <2> SUFFICES ASSUME NEW i \in 1 .. Len(s) PROVE s[i] \in ToSet(s \o t)
    BY <1>1 DEF ToSet
  <2>1. i \in DOMAIN (s \o t) /\ (s \o t)[i] = s[i]
    BY <1>1, <1>2
  <2> QED BY <2>1 DEF ToSet
<1>6. ToSet(t) \subseteq ToSet(s \o t)
  <2> SUFFICES ASSUME NEW i \in 1 .. Len(t) PROVE t[i] \in ToSet(s \o t)
    BY <1>1 DEF ToSet
  <2>1. Len(s) + i \in DOMAIN (s \o t) /\ (s \o t)[Len(s) + i] = t[i]
    BY <1>1, <1>2, <1>3
  <2> QED BY <2>1 DEF ToSet
<1>7. ASSUME IsInjective(s), IsInjective(t), ToSet(s) \cap ToSet(t) = {}
      PROVE  IsInjective(s \o t)
  <2> DEFINE n == Len(s)
             m == Len(t)
             r == s \o t
  <2>1. /\ n \in Nat /\ m \in Nat /\ DOMAIN r = 1 .. n + m
        /\ \A i \in 1 .. n : r[i] = s[i] /\ s[i] \in ToSet(s)
        /\ \A i \in n + 1 .. n + m : r[i] = t[i - n] /\ t[i - n] \in ToSet(t)
    BY <1>1, <1>2 DEF ToSet
  <2>2. /\ \A i, j \in 1 .. n : s[i] = s[j] => i = j
        /\ \A i, j \in 1 .. m : t[i] = t[j] => i = j
    BY <1>1, <1>7 DEF IsInjective
  <2> HIDE DEF n, m, r
  <2> SUFFICES ASSUME NEW i \in 1 .. n + m, NEW j \in 1 .. n + m, r[i] = r[j]
               PROVE  i = j
    BY <2>1 DEF IsInjective, r
  <2>3. CASE i <= n /\ j <= n
    BY <2>1, <2>2, <2>3
  <2>4. CASE ~ (i <= n) /\ ~ (j <= n)
    <3>1. i - n \in 1 .. m /\ j - n \in 1 .. m
      BY <2>1, <2>4
    <3> QED BY <2>1, <2>2, <2>4, <3>1
  <2>5. CASE i <= n /\ ~ (j <= n)
    BY <1>7, <2>1, <2>5
  <2>6. CASE ~ (i <= n) /\ j <= n
    BY <1>7, <2>1, <2>6
  <2> QED BY <2>3, <2>4, <2>5, <2>6
<1> QED BY <1>2, <1>4, <1>5, <1>6, <1>7

\* One member less.
LEMMA RemoveAtSet ==
  ASSUME NEW S, NEW s \in Seq(S), IsInjective(s), NEW i \in DOMAIN s
  PROVE  /\ RemoveAt(s, i) \in Seq(S)
         /\ ToSet(RemoveAt(s, i)) = ToSet(s) \ {s[i]}
         /\ IsInjective(RemoveAt(s, i))
<1> DEFINE n == Len(s)
           r == RemoveAt(s, i)
           Old(k) == IF k < i THEN k ELSE k + 1
<1>1. n \in Nat /\ DOMAIN s = 1 .. n /\ i \in 1 .. n
  BY LenProperties
<1>2. /\ r \in Seq(S) /\ DOMAIN r = 1 .. n - 1
      /\ \A k \in 1 .. n - 1 : r[k] = s[Old(k)]
  BY <1>1, RemoveAtFacts, LenProperties, SMTT(30)
<1> HIDE DEF r, n
<1>3. /\ \A k \in 1 .. n - 1 : Old(k) \in 1 .. n /\ Old(k) # i
      /\ \A k, l \in 1 .. n - 1 : Old(k) = Old(l) => k = l
  BY <1>1
<1>4. ASSUME NEW k \in 1 .. n, k # i PROVE \E l \in 1 .. n - 1 : Old(l) = k
  <2>1. CASE k < i
    <3>1. k \in 1 .. n - 1 /\ Old(k) = k
      BY <1>1, <2>1
    <3> QED BY <3>1
  <2>2. CASE i < k
    <3>1. k - 1 \in 1 .. n - 1 /\ Old(k - 1) = k
      BY <1>1, <2>2
    <3> QED BY <3>1
  <2> QED BY <1>1, <1>4, <2>1, <2>2
<1> HIDE DEF Old
<1>5. \A k, l \in 1 .. n : s[k] = s[l] => k = l
  BY <1>1 DEF IsInjective
<1>6. IsInjective(r)
  BY <1>2, <1>3, <1>5 DEF IsInjective
<1>7. ASSUME NEW k \in 1 .. n - 1 PROVE r[k] \in ToSet(s) \ {s[i]}
  BY <1>1, <1>2, <1>3, <1>5 DEF ToSet
<1>8. ASSUME NEW k \in 1 .. n, s[k] # s[i] PROVE s[k] \in ToSet(r)
  <2>1. PICK l \in 1 .. n - 1 : Old(l) = k
    BY <1>4, <1>8
  <2>2. l \in DOMAIN r /\ r[l] = s[k]
    BY <1>2, <2>1
  <2> QED BY <2>2 DEF ToSet
<1>9. ToSet(r) = ToSet(s) \ {s[i]}
  BY <1>1, <1>2, <1>7, <1>8 DEF ToSet
<1> QED BY <1>2, <1>6, <1>9 DEF r

\* One member put in the place of the i-th, which with the rest moves on.
LEMMA InsertAtFacts ==
  ASSUME NEW S, NEW s \in Seq(S), IsInjective(s), NEW i \in DOMAIN s,
         NEW e \in S, e \notin ToSet(s)
  PROVE  /\ InsertAt(s, i, e) \in Seq(S)
         /\ ToSet(InsertAt(s, i, e)) = ToSet(s) \cup {e}
         /\ IsInjective(InsertAt(s, i, e))
<1> DEFINE n == Len(s)
           a == SubSeq(s, 1, i - 1)
           b == SubSeq(s, i, n)
<1>1. n \in Nat /\ DOMAIN s = 1 .. n /\ i \in 1 .. n /\ \A k \in 1 .. n : s[k] \in S
  BY LenProperties
<1>2. /\ a \in Seq(S) /\ DOMAIN a = 1 .. i - 1
      /\ \A k \in 1 .. i - 1 : a[k] = s[k]
  <2>1. /\ a \in Seq(S) /\ Len(a) = i - 1
        /\ \A k \in 1 .. i - 1 : a[k] = s[k]
    BY <1>1, SubSeqProperties
  <2> QED BY <2>1, LenProperties
<1>3. /\ b \in Seq(S) /\ DOMAIN b = 1 .. n - i + 1
      /\ \A k \in 1 .. n - i + 1 : b[k] = s[i + k - 1]
  <2>1. /\ b \in Seq(S) /\ Len(b) = n - i + 1
        /\ \A k \in 1 .. n - i + 1 : b[k] = s[i + k - 1]
    BY <1>1, SubSeqProperties
  <2> QED BY <2>1, LenProperties
<1>4. <<e>> \in Seq(S) /\ ToSet(<<e>>) = {e} /\ IsInjective(<<e>>)
  BY DEF ToSet, IsInjective
<1>5. InsertAt(s, i, e) = (a \o <<e>>) \o b
  BY DEF InsertAt
<1>6. \A k, l \in 1 .. n : s[k] = s[l] => k = l
  BY <1>1 DEF IsInjective
<1> HIDE DEF a, b, n
<1>7. /\ ToSet(a) = {s[k] : k \in 1 .. i - 1} /\ ToSet(a) \subseteq ToSet(s)
      /\ IsInjective(a)
  BY <1>1, <1>2, <1>6 DEF ToSet, IsInjective
<1>8. ToSet(b) = {s[k] : k \in i .. n} /\ ToSet(b) \subseteq ToSet(s)
  <2>1. \A k \in 1 .. n - i + 1 : i + k - 1 \in i .. n
    BY <1>1
  <2>2. \A k \in i .. n : /\ k - i + 1 \in 1 .. n - i + 1
                          /\ i + (k - i + 1) - 1 = k
    BY <1>1
  <2>3. \A k \in i .. n : b[k - i + 1] = s[k]
    BY <1>3, <2>2
  <2>4. \A k \in 1 .. n - i + 1 : b[k] \in {s[l] : l \in i .. n}
    BY <1>3, <2>1
  <2>5. ASSUME NEW k \in i .. n PROVE s[k] \in ToSet(b)
    <3>1. k - i + 1 \in DOMAIN b
      BY <1>3, <2>2
    <3> QED BY <2>3, <3>1 DEF ToSet
  <2>6. ToSet(b) = {s[k] : k \in i .. n}
    <3>1. ToSet(b) \subseteq {s[k] : k \in i .. n}
      BY <1>3, <2>4 DEF ToSet
    <3> QED BY <2>5, <3>1
  <2>7. i .. n \subseteq DOMAIN s
    BY <1>1
  <2> QED BY <2>6, <2>7 DEF ToSet
<1>9. IsInjective(b)
  <2> SUFFICES ASSUME NEW k \in 1 .. n - i + 1, NEW l \in 1 .. n - i + 1, b[k] = b[l]
               PROVE  k = l
    BY <1>3 DEF IsInjective
  <2>1. i + k - 1 \in 1 .. n /\ i + l - 1 \in 1 .. n
    BY <1>1
  <2>2. i + k - 1 = i + l - 1
    BY <1>3, <1>6, <2>1
  <2> QED BY <1>1, <2>2
<1>10. /\ a \o <<e>> \in Seq(S) /\ ToSet(a \o <<e>>) = ToSet(a) \cup {e}
       /\ IsInjective(a \o <<e>>)
  <2>1. ToSet(a) \cap ToSet(<<e>>) = {}
    BY <1>4, <1>7
  <2> HIDE DEF ToSet
  <2> DEFINE f == <<e>>
  <2>2. f \in Seq(S) /\ ToSet(f) = {e} /\ IsInjective(f) /\ ToSet(a) \cap ToSet(f) = {}
    BY <1>4, <2>1
  <2> HIDE DEF f
  <2>3. a \o f \in Seq(S) /\ ToSet(a \o f) = ToSet(a) \cup {e} /\ IsInjective(a \o f)
    BY <1>2, <1>7, <2>2, ConcatFacts
  <2> QED BY <2>3 DEF f
<1>11. ToSet(a) \cap ToSet(b) = {} /\ ToSet(a) \cup ToSet(b) = ToSet(s)
  <2>1. /\ \A k \in 1 .. i - 1 : \A l \in i .. n : s[k] # s[l]
        /\ ToSet(s) = {s[k] : k \in 1 .. n}
    BY <1>1, <1>6 DEF ToSet
  <2>2. 1 .. n = (1 .. i - 1) \cup (i .. n)
    BY <1>1
  <2>3. ToSet(a) \cap ToSet(b) = {}
    BY <1>7, <1>8, <2>1
  <2> QED BY <1>7, <1>8, <2>1, <2>2, <2>3
<1>12. ToSet(a \o <<e>>) \cap ToSet(b) = {}
  BY <1>8, <1>10, <1>11
<1>13. /\ (a \o <<e>>) \o b \in Seq(S)
       /\ ToSet((a \o <<e>>) \o b) = ToSet(a \o <<e>>) \cup ToSet(b)
       /\ IsInjective((a \o <<e>>) \o b)
  <2> DEFINE f == a \o <<e>>
  <2>1. f \in Seq(S) /\ IsInjective(f) /\ ToSet(f) \cap ToSet(b) = {}
    BY <1>10, <1>12
  <2>2. b \in Seq(S) /\ IsInjective(b)
    BY <1>3, <1>9
  <2> HIDE DEF f
  <2>3. /\ f \o b \in Seq(S) /\ ToSet(f \o b) = ToSet(f) \cup ToSet(b)
        /\ IsInjective(f \o b)
    BY <2>1, <2>2, ConcatFacts
  <2> QED BY <2>3 DEF f
<1> QED BY <1>5, <1>10, <1>11, <1>13

\* All the members of the sequences of a sequence, one sequence after the other.
LEMMA FlattenFacts ==
  ASSUME NEW S, NEW ss \in Seq(Seq(S))
  PROVE  /\ FlattenSeq(ss) \in Seq(S)
         /\ ToSet(FlattenSeq(ss)) = UNION {ToSet(ss[i]) : i \in DOMAIN ss}
<1> DEFINE n == Len(ss)
           From(g, i) == IF i = 1 THEN ss[i] ELSE g[i - 1] \o ss[i]
           IsFlat(g, m) == g = [i \in 1 .. m |-> From(g, i)]
           Counted == {m \in Nat : \E g : IsFlat(g, m)}
<1>1. n \in Nat /\ DOMAIN ss = 1 .. n /\ \A i \in 1 .. n : ss[i] \in Seq(S)
  BY LenProperties
<1>2. CASE n = 0
  <2>1. ss = <<>> /\ DOMAIN ss = {}
    BY <1>1, <1>2, EmptySeq
  <2>2. FlattenSeq(ss) = <<>>
    BY <1>2, <2>1 DEF FlattenSeq
  <2> QED BY <2>1, <2>2, EmptySeq DEF ToSet
<1>3. CASE n # 0
  <2>1. 0 \in Counted
    <3> DEFINE g == [i \in 1 .. 0 |-> ss[i]]
    <3>1. IsFlat(g, 0)
      OBVIOUS
    <3> QED BY <3>1
  <2>2. ASSUME NEW m \in Nat, m \in Counted PROVE m + 1 \in Counted
    <3>1. PICK g : IsFlat(g, m)
      BY <2>2
    <3> DEFINE h == [i \in 1 .. m + 1 |-> IF i <= m THEN g[i] ELSE From(g, m + 1)]
    <3>2. \A i \in 1 .. m : g[i] = From(g, i)
      BY <3>1
    <3>3. \A i \in 1 .. m + 1 : h[i] = From(h, i)
      BY <3>2
    <3>4. IsFlat(h, m + 1)
      BY <3>3
    <3> HIDE DEF h, IsFlat
    <3>5. \E f : IsFlat(f, m + 1)
      BY <3>4
    <3> QED BY <3>5
  <2>3. n \in Counted
    <3> HIDE DEF Counted
    <3> QED BY <1>1, <2>1, <2>2, NaturalInduction
  <2> DEFINE flat == CHOOSE g : IsFlat(g, n)
  <2>4. IsFlat(flat, n)
    BY <2>3
  <2>5. FlattenSeq(ss) = flat[n]
    BY <1>3 DEF FlattenSeq
  <2> HIDE DEF flat
  <2>6. \A i \in 1 .. n : flat[i] = From(flat, i)
    BY <1>1, <2>4
  <2> DEFINE Members(m) == UNION {ToSet(ss[i]) : i \in 1 .. m}
             Good(m) == flat[m] \in Seq(S) /\ ToSet(flat[m]) = Members(m)
             Goods == {m \in Nat : m \in 1 .. n => Good(m)}
  <2>7. 0 \in Goods
    OBVIOUS
  <2>8. ASSUME NEW m \in Nat, m \in Goods PROVE m + 1 \in Goods
    <3> SUFFICES ASSUME m + 1 \in 1 .. n PROVE Good(m + 1)
      OBVIOUS
    <3>1. CASE m = 0
      <4>1. flat[1] = ss[1] /\ ss[1] \in Seq(S)
        BY <1>1, <1>3, <2>6
      <4>2. Members(1) = ToSet(ss[1])
        OBVIOUS
      <4>3. Good(1)
        BY <4>1, <4>2
      <4> QED BY <3>1, <4>3
    <3>2. CASE m # 0
      <4>1. Good(m)
        BY <1>1, <2>8, <3>2
      <4>2. flat[m + 1] = flat[m] \o ss[m + 1] /\ ss[m + 1] \in Seq(S)
        <5>1. m + 1 \in 1 .. n /\ m + 1 # 1 /\ (m + 1) - 1 = m
          BY <3>2
        <5>2. flat[m + 1] = From(flat, m + 1)
          BY <2>6, <5>1
        <5> QED BY <1>1, <5>1, <5>2
      <4>3. Members(m + 1) = Members(m) \cup ToSet(ss[m + 1])
        <5>1. 1 .. m + 1 = (1 .. m) \cup {m + 1}
          OBVIOUS
        <5> QED BY <5>1
      <4>4. /\ flat[m] \o ss[m + 1] \in Seq(S)
            /\ ToSet(flat[m] \o ss[m + 1]) = ToSet(flat[m]) \cup ToSet(ss[m + 1])
        BY <4>1, <4>2, ConcatFacts
      <4> QED BY <4>1, <4>2, <4>3, <4>4
    <3> QED BY <3>1, <3>2
  <2>9. n \in Goods
    <3> HIDE DEF Goods
    <3> QED BY <1>1, <2>7, <2>8, NaturalInduction
  <2>10. Good(n)
    BY <1>1, <1>3, <2>9
  <2> QED BY <1>1, <2>5, <2>10
<1> QED BY <1>2, <1>3

\* A sequence in the parts before an element, the element, and after it.
LEMMA Parts ==
  ASSUME NEW S, NEW s \in Seq(S), NEW i \in DOMAIN s
  PROVE  LET a == SubSeq(s, 1, i - 1)
             b == SubSeq(s, i + 1, Len(s))
         IN  /\ a \in Seq(S) /\ b \in Seq(S) /\ s[i] \in S /\ <<s[i]>> \in Seq(S)
             /\ Len(a) = i - 1 /\ Len(b) = Len(s) - i
             /\ \A k \in 1 .. i - 1 : a[k] = s[k]
             /\ \A k \in 1 .. Len(s) - i : b[k] = s[i + k]
             /\ s = a \o <<s[i]>> \o b /\ RemoveAt(s, i) = a \o b
<1> DEFINE n == Len(s)
           a == SubSeq(s, 1, i - 1)
           b == SubSeq(s, i + 1, n)
<1>1. n \in Nat /\ DOMAIN s = 1 .. n /\ i \in 1 .. n /\ \A k \in 1 .. n : s[k] \in S
  BY LenProperties
<1>2. a \in Seq(S) /\ Len(a) = i - 1 /\ \A k \in 1 .. i - 1 : a[k] = s[k]
  <2>1. 1 \in Int /\ i - 1 \in Int /\ \A k \in 1 .. i - 1 : k \in 1 .. n /\ 1 + k - 1 = k
    BY <1>1
  <2>2. i - 1 - 1 + 1 = i - 1 /\ (IF 1 <= i - 1 THEN i - 1 - 1 + 1 ELSE 0) = i - 1
    BY <1>1
  <2>3. /\ a \in Seq(S) /\ Len(a) = IF 1 <= i - 1 THEN i - 1 - 1 + 1 ELSE 0
        /\ \A k \in 1 .. i - 1 - 1 + 1 : a[k] = s[1 + k - 1]
    BY <1>1, <2>1, SubSeqProperties
  <2> HIDE DEF a
  <2> QED BY <2>1, <2>2, <2>3
<1>3. b \in Seq(S) /\ Len(b) = n - i /\ \A k \in 1 .. n - i : b[k] = s[i + k]
  <2>1. i + 1 \in Int /\ n \in Int /\ \A k \in i + 1 .. n : s[k] \in S
    BY <1>1
  <2>2. n - (i + 1) + 1 = n - i /\ (IF i + 1 <= n THEN n - (i + 1) + 1 ELSE 0) = n - i
        /\ \A k \in 1 .. n - i : i + 1 + k - 1 = i + k
    BY <1>1
  <2>3. /\ b \in Seq(S) /\ Len(b) = IF i + 1 <= n THEN n - (i + 1) + 1 ELSE 0
        /\ \A k \in 1 .. n - (i + 1) + 1 : b[k] = s[i + 1 + k - 1]
    BY <2>1, SubSeqProperties
  <2> HIDE DEF b
  <2> QED BY <2>2, <2>3
<1>4. s = a \o <<s[i]>> \o b
  <2>1. SubSeq(s, 1, n) = s
    BY SubSeqFull
  <2>2. SubSeq(s, 1, i) = SubSeq(s, 1, i - 1) \o <<s[i]>>
    <3>1. 1 \in 1 .. n /\ i \in 1 .. n
      BY <1>1
    <3> QED BY <3>1, SubSeqRecursiveSecond
  <2>3. SubSeq(s, 1, i) \o SubSeq(s, i + 1, n) = SubSeq(s, 1, n)
    <3>1. 1 \in 1 .. n + 1 /\ i \in 1 - 1 .. n /\ n \in i .. n
      BY <1>1
    <3> QED BY <3>1, ConcatAdjacentSubSeq
  <2> QED BY <2>1, <2>2, <2>3
<1>5. RemoveAt(s, i) = a \o b
  BY DEF RemoveAt
<1>6. s[i] \in S /\ <<s[i]>> \in Seq(S)
  BY <1>1
<1> QED BY <1>2, <1>3, <1>4, <1>5, <1>6
================================================================================
