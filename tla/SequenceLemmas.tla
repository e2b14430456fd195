----------------------------- MODULE SequenceLemmas -----------------------------
(* What the operators on sequences do that the models use for their buffers, *)
(* element by element, in the form in which the proofs cite them.            *)
EXTENDS Integers, Sequences, SequencesExt, SequenceTheorems, WellFoundedInduction, TLAPS

LEMMA SeqType ==
    ASSUME NEW S, NEW s \in Seq(S)
    PROVE  /\ Len(s) \in Nat /\ DOMAIN s = 1 .. Len(s)
           /\ (s = <<>> <=> Len(s) = 0)
           /\ \A i \in 1 .. Len(s) : s[i] \in S
  OBVIOUS

LEMMA AppendElements ==
    ASSUME NEW S, NEW s \in Seq(S), NEW e \in S
    PROVE  /\ Append(s, e) \in Seq(S) /\ Len(Append(s, e)) = Len(s) + 1
           /\ Append(s, e) # <<>>
           /\ Append(s, e)[Len(s) + 1] = e
           /\ \A i \in 1 .. Len(s) : Append(s, e)[i] = s[i]
  OBVIOUS

LEMMA TailElements ==
    ASSUME NEW S, NEW s \in Seq(S), s # <<>>
    PROVE  /\ Head(s) \in S /\ Head(s) = s[1] /\ Len(s) \in Nat \ {0}
           /\ Tail(s) \in Seq(S) /\ Len(Tail(s)) = Len(s) - 1
           /\ \A i \in 1 .. Len(s) - 1 : Tail(s)[i] = s[i + 1]
<1>1. Len(s) \in Nat \ {0} /\ Head(s) = s[1] /\ Head(s) \in S  OBVIOUS
<1>2. /\ Tail(s) \in Seq(S) /\ Len(Tail(s)) = Len(s) - 1
      /\ \A i \in 1 .. Len(Tail(s)) : Tail(s)[i] = s[i + 1]
  BY HeadTailProperties
<1> QED  BY <1>1, <1>2

LEMMA ConcatElements ==
    ASSUME NEW S, NEW s \in Seq(S), NEW t \in Seq(S)
    PROVE  /\ s \o t \in Seq(S) /\ Len(s \o t) = Len(s) + Len(t)
           /\ \A i \in 1 .. Len(s) : (s \o t)[i] = s[i]
           /\ \A i \in 1 .. Len(t) : (s \o t)[Len(s) + i] = t[i]
<1>1. Len(s) \in Nat /\ Len(t) \in Nat  OBVIOUS
<1>2. /\ s \o t \in Seq(S) /\ Len(s \o t) = Len(s) + Len(t)
      /\ \A i \in 1 .. Len(s) + Len(t) : (s \o t)[i] =
             IF i <= Len(s) THEN s[i] ELSE t[i - Len(s)]
  BY ConcatProperties
<1>3. \A i \in 1 .. Len(t) : Len(s) + i \in 1 .. Len(s) + Len(t) /\ ~ (Len(s) + i <= Len(s))
                             /\ Len(s) + i - Len(s) = i
  BY <1>1
<1> QED  BY <1>1, <1>2, <1>3

LEMMA FrontElements ==
    ASSUME NEW S, NEW s \in Seq(S), s # <<>>
    PROVE  /\ Len(s) \in Nat \ {0}
           /\ Last(s) = s[Len(s)] /\ Last(s) \in S
           /\ Front(s) \in Seq(S) /\ Len(Front(s)) = Len(s) - 1
           /\ \A j \in 1 .. Len(s) - 1 : Front(s)[j] = s[j] /\ s[j] \in S
<1>1. Len(s) \in Nat \ {0} /\ Len(s) - 1 \in Nat  OBVIOUS
<1>2. \A j \in 1 .. Len(s) : s[j] \in S  OBVIOUS
<1> DEFINE m == Len(s) - 1
           t == SubSeq(s, 1, m)
<1>3. m \in Nat /\ \A j \in 1 .. m : s[j] \in S  BY <1>1, <1>2
<1> HIDE DEF m
<1>4. /\ t \in Seq(S) /\ Len(t) = IF 1 <= m THEN m - 1 + 1 ELSE 0
      /\ \A j \in 1 .. m - 1 + 1 : t[j] = s[1 + j - 1]
  BY <1>3, SubSeqProperties
<1>5. /\ Len(t) = m /\ \A j \in 1 .. m : t[j] = s[j]  BY <1>3, <1>4
<1> QED  BY <1>1, <1>2, <1>3, <1>4, <1>5 DEF Last, Front, m

\* What is left of s without its ith element: the earlier ones keep their places,
\* the later ones move up.
LEMMA RemoveAtElements ==
    ASSUME NEW S, NEW s \in Seq(S), NEW i \in 1 .. Len(s)
    PROVE  /\ RemoveAt(s, i) \in Seq(S) /\ Len(RemoveAt(s, i)) = Len(s) - 1
           /\ \A j \in 1 .. Len(s) - 1 :
                  RemoveAt(s, i)[j] = IF j < i THEN s[j] ELSE s[j + 1]
<1> DEFINE n == Len(s)
           a == SubSeq(s, 1, i - 1)
           b == SubSeq(s, i + 1, n)
<1>1. n \in Nat /\ i \in Nat /\ 1 <= i /\ i <= n /\ \A j \in 1 .. n : s[j] \in S
  OBVIOUS
<1> HIDE DEF n
<1>2. i - 1 \in Int /\ i + 1 \in Int /\ n \in Int  BY <1>1
<1>3. /\ a \in Seq(S) /\ Len(a) = IF 1 <= i - 1 THEN i - 1 - 1 + 1 ELSE 0
      /\ \A j \in 1 .. i - 1 - 1 + 1 : a[j] = s[1 + j - 1]
  <2>1. \A j \in 1 .. i - 1 : s[j] \in S  BY <1>1
  <2> QED  BY <1>2, <2>1, SubSeqProperties
<1>4. /\ b \in Seq(S) /\ Len(b) = IF i + 1 <= n THEN n - (i + 1) + 1 ELSE 0
      /\ \A j \in 1 .. n - (i + 1) + 1 : b[j] = s[i + 1 + j - 1]
  <2>1. \A j \in i + 1 .. n : s[j] \in S  BY <1>1
  <2> QED  BY <1>2, <2>1, SubSeqProperties
<1>5. Len(a) = i - 1 /\ \A j \in 1 .. i - 1 : a[j] = s[j]  BY <1>1, <1>3
<1>6. Len(b) = n - i /\ \A j \in 1 .. n - i : b[j] = s[i + j]  BY <1>1, <1>4
<1> HIDE DEF a, b
<1>7. /\ a \o b \in Seq(S) /\ Len(a \o b) = Len(a) + Len(b)
      /\ \A j \in 1 .. Len(a) + Len(b) : (a \o b)[j] =
             IF j <= Len(a) THEN a[j] ELSE b[j - Len(a)]
  BY <1>3, <1>4, ConcatProperties
<1>8. Len(a) + Len(b) = n - 1  BY <1>1, <1>5, <1>6
<1>9. ASSUME NEW j \in 1 .. n - 1
      PROVE  (a \o b)[j] = IF j < i THEN s[j] ELSE s[j + 1]
  <2>1. CASE j < i
    <3>1. j <= Len(a) /\ j \in 1 .. i - 1  BY <1>1, <1>5, <2>1
    <3> QED  BY <1>5, <1>7, <1>8, <2>1, <3>1
  <2>2. CASE ~ (j < i)
    <3>1. ~ (j <= Len(a)) /\ j - Len(a) \in 1 .. n - i /\ i + (j - Len(a)) = j + 1
      BY <1>1, <1>5, <2>2
    <3> QED  BY <1>6, <1>7, <1>8, <2>2, <3>1
  <2> QED  BY <2>1, <2>2
<1>10. RemoveAt(s, i) = a \o b  BY DEF RemoveAt, a, b, n
<1> QED  BY <1>7, <1>8, <1>9, <1>10 DEF n

\* What a buffer holds: an element that is appended is added, and the first one
\* leaves the others.
LEMMA AppendRange ==
    ASSUME NEW S, NEW s \in Seq(S), NEW e \in S
    PROVE  Range(Append(s, e)) = Range(s) \cup {e}
<1>1. /\ Len(s) \in Nat /\ DOMAIN s = 1 .. Len(s)
      /\ DOMAIN Append(s, e) = 1 .. Len(s) + 1
      /\ Append(s, e)[Len(s) + 1] = e
      /\ \A i \in 1 .. Len(s) : Append(s, e)[i] = s[i]
  BY SeqType, AppendElements
<1>2. 1 .. Len(s) + 1 = 1 .. Len(s) \cup {Len(s) + 1}  BY <1>1
<1>3. \A i \in 1 .. Len(s) : i \in DOMAIN s /\ s[i] \in Range(s)  BY <1>1, Zenon DEF Range
<1>4. \A x \in Range(Append(s, e)) : x \in Range(s) \cup {e}
  <2>1. SUFFICES ASSUME NEW i \in 1 .. Len(s) + 1 PROVE Append(s, e)[i] \in Range(s) \cup {e}
    BY <1>1, Zenon DEF Range
  <2> QED  BY <1>1, <1>2, <1>3
<1>5. \A x \in Range(s) : x \in Range(Append(s, e))
  <2>1. SUFFICES ASSUME NEW i \in 1 .. Len(s) PROVE s[i] \in Range(Append(s, e))
    BY <1>1, Zenon DEF Range
  <2>2. i \in 1 .. Len(s) + 1 /\ Append(s, e)[i] = s[i]  BY <1>1, <1>2
  <2> QED  BY <1>1, <2>2, Zenon DEF Range
<1>6. e \in Range(Append(s, e))
  <2>1. Len(s) + 1 \in 1 .. Len(s) + 1  BY <1>1
  <2> QED  BY <1>1, <2>1, Zenon DEF Range
<1> QED  BY <1>4, <1>5, <1>6, Zenon

LEMMA TailRange ==
    ASSUME NEW S, NEW s \in Seq(S), s # <<>>
    PROVE  Head(s) \in Range(s) /\ Range(s) = Range(Tail(s)) \cup {Head(s)}
<1>1. /\ Len(s) \in Nat \ {0} /\ DOMAIN s = 1 .. Len(s) /\ Head(s) = s[1]
      /\ DOMAIN Tail(s) = 1 .. Len(s) - 1
      /\ \A i \in 1 .. Len(s) - 1 : Tail(s)[i] = s[i + 1]
  BY SeqType, TailElements
<1>2. \A x \in Range(s) : x \in Range(Tail(s)) \cup {Head(s)}
  <2>1. SUFFICES ASSUME NEW i \in 1 .. Len(s), s[i] # Head(s)
                 PROVE  s[i] \in Range(Tail(s))
    <3>1. Range(s) = {s[i] : i \in 1 .. Len(s)}  BY <1>1, Zenon DEF Range
    <3> QED  BY <3>1
  <2>2. i - 1 \in 1 .. Len(s) - 1 /\ Tail(s)[i - 1] = s[i]  BY <1>1, <2>1
  <2> QED  BY <1>1, <2>2, Zenon DEF Range
<1>3. \A x \in Range(Tail(s)) : x \in Range(s)
  <2>1. SUFFICES ASSUME NEW i \in 1 .. Len(s) - 1
                 PROVE  Tail(s)[i] \in Range(s)
    BY <1>1, Zenon DEF Range
  <2>2. i + 1 \in 1 .. Len(s) /\ Tail(s)[i] = s[i + 1]  BY <1>1
  <2> QED  BY <1>1, <2>2, Zenon DEF Range
<1>4. 1 \in 1 .. Len(s) /\ Head(s) \in Range(s)
  <2>1. 1 \in 1 .. Len(s)  BY <1>1
  <2> QED  BY <1>1, <2>1, Zenon DEF Range
<1> QED  BY <1>2, <1>3, <1>4, Zenon

\* Two buffers in a row are one queue: it does not change when the first element of
\* the second moves to the end of the first.
LEMMA ConcatAppend ==
    ASSUME NEW S, NEW s \in Seq(S), NEW t \in Seq(S), NEW e \in S
    PROVE  s \o Append(t, e) = Append(s \o t, e)
<1>1. /\ s \o t \in Seq(S) /\ <<e>> \in Seq(S)
      /\ Append(t, e) = t \o <<e>> /\ Append(s \o t, e) = (s \o t) \o <<e>>
  BY ConcatProperties, AppendIsConcat
<1> QED  BY <1>1, ConcatAssociative

LEMMA HeadMoves ==
    ASSUME NEW S, NEW s \in Seq(S), NEW t \in Seq(S), t # <<>>
    PROVE  Append(s, Head(t)) \o Tail(t) = s \o t
<1>1. /\ Head(t) \in S /\ Tail(t) \in Seq(S) /\ <<Head(t)>> \in Seq(S)
      /\ Append(s, Head(t)) = s \o <<Head(t)>>
  BY TailElements, AppendIsConcat
<1>2. <<Head(t)>> \o Tail(t) = t  BY <1>1
<1> QED  BY <1>1, <1>2, ConcatAssociative

LEMMA TailConcat ==
    ASSUME NEW S, NEW s \in Seq(S), NEW t \in Seq(S), s # <<>>
    PROVE  Tail(s) \o t = Tail(s \o t) /\ s \o t # <<>>
<1>1. /\ Len(s) \in Nat \ {0} /\ Len(t) \in Nat /\ s \o t \in Seq(S)
      /\ Len(s \o t) = Len(s) + Len(t)
  BY TailElements, ConcatProperties
<1>2. s \o t # <<>>  BY <1>1
<1>3. /\ Tail(s) \in Seq(S) /\ Len(Tail(s)) = Len(s) - 1
      /\ \A i \in 1 .. Len(s) - 1 : Tail(s)[i] = s[i + 1]
      /\ Tail(s \o t) \in Seq(S) /\ Len(Tail(s \o t)) = Len(s) + Len(t) - 1
      /\ \A i \in 1 .. Len(s) + Len(t) - 1 : Tail(s \o t)[i] = (s \o t)[i + 1]
  BY <1>1, <1>2, TailElements
<1>4. /\ Tail(s) \o t \in Seq(S) /\ Len(Tail(s) \o t) = Len(s) + Len(t) - 1
      /\ \A i \in 1 .. Len(s) + Len(t) - 1 : (Tail(s) \o t)[i] =
             IF i <= Len(s) - 1 THEN Tail(s)[i] ELSE t[i - (Len(s) - 1)]
      /\ \A i \in 1 .. Len(s) + Len(t) : (s \o t)[i] =
             IF i <= Len(s) THEN s[i] ELSE t[i - Len(s)]
  <2>1. Len(Tail(s)) + Len(t) = Len(s) + Len(t) - 1  BY <1>1, <1>3
  <2> QED  BY <1>1, <1>3, <2>1, ConcatProperties
<1>5. ASSUME NEW i \in 1 .. Len(s) + Len(t) - 1
      PROVE  (Tail(s) \o t)[i] = Tail(s \o t)[i]
  <2>1. /\ i + 1 \in 1 .. Len(s) + Len(t) /\ i + 1 - Len(s) = i - (Len(s) - 1)
        /\ (i <= Len(s) - 1 => i \in 1 .. Len(s) - 1)
        /\ (i <= Len(s) - 1 <=> i + 1 <= Len(s))
    BY <1>1
  <2> QED  BY <1>3, <1>4, <2>1
<1>6. Tail(s) \o t = Tail(s \o t)  BY <1>3, <1>4, <1>5, SeqEqual
<1> QED  BY <1>2, <1>6

\* A set of natural numbers has a smallest one.
LEMMA SmallestNat ==
    ASSUME NEW S \in SUBSET Nat, S # {}
    PROVE  \E x \in S : \A y \in S : x <= y
<1> DEFINE Less == {p \in Nat \X Nat : p[1] < p[2]}
<1>1. IsWellFoundedOn(Less, Nat)  BY NatLessThanWellFounded DEF OpToRel
<1>2. PICK x \in S : \A y \in S : ~ (<<y, x>> \in Less)
  <2> HIDE DEF Less
  <2> QED  BY <1>1, WFMin
<1>3. \A y \in S : x <= y
  <2>1. SUFFICES ASSUME NEW y \in S PROVE ~ (y < x)
    BY <1>2
  <2>2. <<y, x>> \in Nat \X Nat /\ ~ (<<y, x>> \in Less)  BY <1>2
  <2> QED  BY <2>2
<1> QED  BY <1>3

LEMMA InjectiveAppend ==
    ASSUME NEW S, NEW s \in Seq(S), NEW e \in S, IsInjective(s), e \notin Range(s)
    PROVE  IsInjective(Append(s, e))
<1>1. /\ Len(s) \in Nat /\ DOMAIN s = 1 .. Len(s)
      /\ DOMAIN Append(s, e) = 1 .. Len(s) + 1
      /\ Append(s, e)[Len(s) + 1] = e
      /\ \A i \in 1 .. Len(s) : Append(s, e)[i] = s[i]
  BY SeqType, AppendElements
<1>2. 1 .. Len(s) + 1 = 1 .. Len(s) \cup {Len(s) + 1}  BY <1>1
<1>3. \A i \in 1 .. Len(s) : s[i] # e  BY <1>1, Zenon DEF Range
<1>4. \A i, j \in 1 .. Len(s) : s[i] = s[j] => i = j  BY <1>1, Zenon DEF IsInjective
<1>5. \A i, j \in 1 .. Len(s) + 1 : Append(s, e)[i] = Append(s, e)[j] => i = j
  BY <1>1, <1>2, <1>3, <1>4
<1> QED  BY <1>1, <1>5, Zenon DEF IsInjective

LEMMA InjectiveTail ==
    ASSUME NEW S, NEW s \in Seq(S), s # <<>>, IsInjective(s)
    PROVE  IsInjective(Tail(s)) /\ Range(Tail(s)) = Range(s) \ {Head(s)}
<1>1. /\ Len(s) \in Nat \ {0} /\ DOMAIN s = 1 .. Len(s) /\ Head(s) = s[1]
      /\ DOMAIN Tail(s) = 1 .. Len(s) - 1
      /\ \A i \in 1 .. Len(s) - 1 : Tail(s)[i] = s[i + 1]
  BY SeqType, TailElements
<1>2. \A i, j \in 1 .. Len(s) : s[i] = s[j] => i = j  BY <1>1, Zenon DEF IsInjective
<1>3. \A i, j \in 1 .. Len(s) - 1 : Tail(s)[i] = Tail(s)[j] => i = j  BY <1>1, <1>2
<1>4. Head(s) \notin Range(Tail(s))
  <2>1. \A i \in 1 .. Len(s) - 1 : Tail(s)[i] # Head(s)  BY <1>1, <1>2
  <2> QED  BY <1>1, <2>1, Zenon DEF Range
<1>5. Range(s) = Range(Tail(s)) \cup {Head(s)}  BY TailRange
<1>6. IsInjective(Tail(s))  BY <1>1, <1>3, Zenon DEF IsInjective
<1> QED  BY <1>4, <1>5, <1>6, Zenon

\* The rest of s without its ith element.
LEMMA RemoveAtRange ==
    ASSUME NEW S, NEW s \in Seq(S), NEW i \in 1 .. Len(s)
    PROVE  /\ Range(s) = Range(RemoveAt(s, i)) \cup {s[i]}
           /\ IsInjective(s) => /\ IsInjective(RemoveAt(s, i))
                                /\ s[i] \notin Range(RemoveAt(s, i))
<1> DEFINE r == RemoveAt(s, i)
<1>1. /\ Len(s) \in Nat /\ DOMAIN s = 1 .. Len(s)
      /\ DOMAIN r = 1 .. Len(s) - 1
      /\ \A j \in 1 .. Len(s) - 1 : r[j] = IF j < i THEN s[j] ELSE s[j + 1]
  BY SeqType, RemoveAtElements
<1> HIDE DEF r
<1>2. Range(s) = {s[j] : j \in 1 .. Len(s)} /\ Range(r) = {r[j] : j \in 1 .. Len(s) - 1}
  BY <1>1, Zenon DEF Range
<1>3. \A j \in 1 .. Len(s) : j # i => \E k \in 1 .. Len(s) - 1 : r[k] = s[j]
  <2>1. SUFFICES ASSUME NEW j \in 1 .. Len(s), j # i
                 PROVE  \E k \in 1 .. Len(s) - 1 : r[k] = s[j]
    OBVIOUS
  <2>2. CASE j < i
    <3>1. j \in 1 .. Len(s) - 1 /\ r[j] = s[j]  BY <1>1, <2>2
    <3> QED  BY <3>1
  <2>3. CASE ~ (j < i)
    <3>1. j - 1 \in 1 .. Len(s) - 1 /\ ~ (j - 1 < i) /\ j - 1 + 1 = j  BY <1>1, <2>1, <2>3
    <3>2. r[j - 1] = s[j]  BY <1>1, <3>1
    <3> QED  BY <3>1, <3>2
  <2> QED  BY <2>2, <2>3
<1>4. \A k \in 1 .. Len(s) - 1 : \E j \in 1 .. Len(s) : j # i /\ r[k] = s[j]
                                  /\ j = IF k < i THEN k ELSE k + 1
  <2>1. SUFFICES ASSUME NEW k \in 1 .. Len(s) - 1
                 PROVE  \E j \in 1 .. Len(s) : j # i /\ r[k] = s[j]
                                  /\ j = IF k < i THEN k ELSE k + 1
    OBVIOUS
  <2>2. CASE k < i
    BY <1>1, <2>2
  <2>3. CASE ~ (k < i)
    <3>1. k + 1 \in 1 .. Len(s) /\ k + 1 # i /\ r[k] = s[k + 1]  BY <1>1, <2>3
    <3> QED  BY <2>3, <3>1
  <2> QED  BY <2>2, <2>3
<1>5. Range(s) = Range(r) \cup {s[i]}
  <2>1. \A x \in Range(s) : x \in Range(r) \cup {s[i]}  BY <1>2, <1>3
  <2>2. \A x \in Range(r) : x \in Range(s)  BY <1>2, <1>4
  <2>3. s[i] \in Range(s)  BY <1>2
  <2> QED  BY <2>1, <2>2, <2>3
<1>6. ASSUME IsInjective(s)
      PROVE  IsInjective(r) /\ s[i] \notin Range(r)
  <2>1. \A j, k \in 1 .. Len(s) : s[j] = s[k] => j = k  BY <1>1, <1>6, Zenon DEF IsInjective
  <2>2. \A k \in 1 .. Len(s) - 1 : r[k] # s[i]  BY <1>4, <2>1
  <2>3. ASSUME NEW j \in 1 .. Len(s) - 1, NEW k \in 1 .. Len(s) - 1, r[j] = r[k]
        PROVE  j = k
    <3>1. PICK a \in 1 .. Len(s) : r[j] = s[a] /\ a = IF j < i THEN j ELSE j + 1  BY <1>4
    <3>2. PICK b \in 1 .. Len(s) : r[k] = s[b] /\ b = IF k < i THEN k ELSE k + 1  BY <1>4
    <3>3. a = b  BY <2>1, <2>3, <3>1, <3>2
    <3> QED  BY <3>1, <3>2, <3>3
  <2>4. IsInjective(r)  BY <1>1, <2>3, Zenon DEF IsInjective
  <2> QED  BY <1>2, <2>2, <2>4
<1> QED  BY <1>5, <1>6 DEF r

LEMMA RemoveFirstRange ==
    ASSUME NEW S, NEW s \in Seq(S), NEW e, IsInjective(s)
    PROVE  /\ RemoveFirst(s, e) \in Seq(S) /\ IsInjective(RemoveFirst(s, e))
           /\ Range(RemoveFirst(s, e)) = Range(s) \ {e}
<1>1. Len(s) \in Nat /\ DOMAIN s = 1 .. Len(s)  BY SeqType
<1>2. Range(s) = {s[j] : j \in 1 .. Len(s)}  BY <1>1, Zenon DEF Range
<1>3. CASE ~ \E i \in 1 .. Len(s) : s[i] = e
  BY <1>2, <1>3 DEF RemoveFirst
<1>4. CASE \E i \in 1 .. Len(s) : s[i] = e
  <2> DEFINE I == {i \in 1 .. Len(s) : s[i] = e}
             i == Min(I)
  <2>1. I \in SUBSET Nat /\ I # {}  BY <1>4
  <2>2. \E x \in I : \A y \in I : x <= y  BY <2>1, SmallestNat
  <2>3. i \in I  BY <2>2 DEF Min
  <2>4. RemoveFirst(s, e) = RemoveAt(s, i)  BY <1>4, <2>1 DEF RemoveFirst, SelectInSeq
  <2>5. i \in 1 .. Len(s) /\ s[i] = e  BY <2>3
  <2> HIDE DEF I, i
  <2> QED  BY <2>4, <2>5, RemoveAtRange, RemoveAtElements
<1> QED  BY <1>3, <1>4

\* What the elements of a queue q carry, T[e] being what e carries; and that no two of
\* them carry the same.
Carried(T, q) == UNION {T[q[i]] : i \in DOMAIN q}
Apart(T, q) == \A i, j \in DOMAIN q : i # j => T[q[i]] \cap T[q[j]] = {}

LEMMA InCarried ==
    ASSUME NEW T, NEW q, NEW x
    PROVE  x \in Carried(T, q) <=> \E i \in DOMAIN q : x \in T[q[i]]
  BY DEF Carried

LEMMA InApart ==
    ASSUME NEW T, NEW q
    PROVE  Apart(T, q) <=>
               \A i, j \in DOMAIN q : i # j => \A x \in T[q[i]] : x \notin T[q[j]]
  BY DEF Apart

LEMMA NothingCarried ==
    ASSUME NEW T
    PROVE  Carried(T, <<>>) = {} /\ Apart(T, <<>>)
  BY DEF Carried, Apart

LEMMA AppendCarried ==
    ASSUME NEW S, NEW T, NEW q \in Seq(S), NEW e \in S
    PROVE  /\ Carried(T, Append(q, e)) = Carried(T, q) \cup T[e]
           /\ Apart(T, q) /\ T[e] \cap Carried(T, q) = {} => Apart(T, Append(q, e))
<1> DEFINE r == Append(q, e)  n == Len(q)
<1>1. n \in Nat /\ DOMAIN q = 1 .. n /\ DOMAIN r = 1 .. n \cup {n + 1} /\ n + 1 \notin 1 .. n
      /\ r[n + 1] = e /\ \A i \in 1 .. n : r[i] = q[i]
  BY SeqType, AppendElements
<1> HIDE DEF r, n
<1>2. Carried(T, r) = Carried(T, q) \cup T[e]  BY <1>1, InCarried
<1>3. ASSUME Apart(T, q), T[e] \cap Carried(T, q) = {}
      PROVE  Apart(T, r)
  <2>1. \A i \in 1 .. n : T[e] \cap T[q[i]] = {}  BY <1>1, <1>3, InCarried
  <2>2. \A i, j \in 1 .. n : i # j => T[q[i]] \cap T[q[j]] = {}  BY <1>1, <1>3, InApart
  <2> QED  BY <1>1, <2>1, <2>2 DEF Apart
<1> QED  BY <1>2, <1>3 DEF r

\* The element at i, and what the others carry.
LEMMA WithoutCarried ==
    ASSUME NEW S, NEW T, NEW q \in Seq(S), NEW i \in 1 .. Len(q)
    PROVE  /\ Carried(T, q) = T[q[i]] \cup Carried(T, RemoveAt(q, i))
           /\ Apart(T, q) => /\ Apart(T, RemoveAt(q, i))
                             /\ T[q[i]] \cap Carried(T, RemoveAt(q, i)) = {}
<1> DEFINE r == RemoveAt(q, i)  n == Len(q)
           At(k) == IF k < i THEN k ELSE k + 1
<1>1. n \in Nat /\ DOMAIN q = 1 .. n /\ DOMAIN r = 1 .. n - 1
      /\ \A k \in 1 .. n - 1 : r[k] = IF k < i THEN q[k] ELSE q[k + 1]
  BY SeqType, RemoveAtElements
<1> HIDE DEF r
<1>2. \A k \in 1 .. n - 1 : At(k) \in 1 .. n /\ At(k) # i /\ r[k] = q[At(k)]
  BY <1>1
<1>3. \A k, m \in 1 .. n - 1 : k # m => At(k) # At(m)  BY <1>1
<1>4. \A j \in 1 .. n : j # i => \E k \in 1 .. n - 1 : r[k] = q[j]
  <2>1. SUFFICES ASSUME NEW j \in 1 .. n, j # i
                 PROVE  \E k \in 1 .. n - 1 : r[k] = q[j]
    OBVIOUS
  <2>2. CASE j < i
    <3>1. j \in 1 .. n - 1 /\ r[j] = q[j]  BY <1>1, <2>2
    <3> QED  BY <3>1
  <2>3. CASE ~ (j < i)
    <3>1. j - 1 \in 1 .. n - 1 /\ ~ (j - 1 < i) /\ j - 1 + 1 = j  BY <1>1, <2>1, <2>3
    <3>2. r[j - 1] = q[j]  BY <1>1, <3>1
    <3> QED  BY <3>1, <3>2
  <2> QED  BY <2>2, <2>3
<1> HIDE DEF n, At
<1>5. i \in DOMAIN q  BY <1>1 DEF n
<1>6. Carried(T, q) = T[q[i]] \cup Carried(T, r)
  <2>1. ASSUME NEW x \in Carried(T, q) PROVE x \in T[q[i]] \/ x \in Carried(T, r)
    <3>1. PICK j \in 1 .. n : x \in T[q[j]]  BY <1>1, InCarried
    <3>2. CASE j = i  BY <3>1, <3>2
    <3>3. CASE j # i
      <4>1. PICK k \in 1 .. n - 1 : r[k] = q[j]  BY <1>4, <3>3
      <4> QED  BY <1>1, <3>1, <4>1, InCarried
    <3> QED  BY <3>2, <3>3
  <2>2. ASSUME NEW x \in Carried(T, r) PROVE x \in Carried(T, q)
    <3>1. PICK k \in 1 .. n - 1 : x \in T[r[k]]  BY <1>1, InCarried
    <3>2. At(k) \in DOMAIN q /\ x \in T[q[At(k)]]  BY <1>1, <1>2, <3>1
    <3> QED  BY <3>2, InCarried
  <2>3. \A x \in T[q[i]] : x \in Carried(T, q)  BY <1>5, InCarried
  <2> QED  BY <2>1, <2>2, <2>3
<1>7. ASSUME Apart(T, q)
      PROVE  Apart(T, r) /\ T[q[i]] \cap Carried(T, r) = {}
  <2>1. \A j, k \in 1 .. n : j # k => T[q[j]] \cap T[q[k]] = {}  BY <1>1, <1>7, InApart
  <2>2. \A k \in 1 .. n - 1 : T[q[i]] \cap T[r[k]] = {}  BY <1>1, <1>2, <1>5, <2>1
  <2>3. T[q[i]] \cap Carried(T, r) = {}  BY <1>1, <2>2, InCarried
  <2>4. \A k, m \in 1 .. n - 1 : k # m => T[r[k]] \cap T[r[m]] = {}  BY <1>2, <1>3, <2>1
  <2> QED  BY <1>1, <2>3, <2>4, InApart
<1> QED  BY <1>6, <1>7 DEF r

LEMMA TailCarried ==
    ASSUME NEW S, NEW T, NEW q \in Seq(S), q # <<>>
    PROVE  /\ Carried(T, q) = T[Head(q)] \cup Carried(T, Tail(q))
           /\ Apart(T, q) => /\ Apart(T, Tail(q))
                             /\ T[Head(q)] \cap Carried(T, Tail(q)) = {}
<1> DEFINE r == Tail(q)  n == Len(q)
<1>1. n \in Nat \ {0} /\ DOMAIN q = 1 .. n /\ DOMAIN r = 1 .. n - 1 /\ Head(q) = q[1]
      /\ \A k \in 1 .. n - 1 : r[k] = q[k + 1]
  BY SeqType, TailElements
<1> HIDE DEF r, n
<1>2. \A k \in 1 .. n - 1 : k + 1 \in 1 .. n /\ k + 1 # 1  BY <1>1
<1>3. \A j \in 1 .. n : j # 1 => \E k \in 1 .. n - 1 : r[k] = q[j]
  <2>1. SUFFICES ASSUME NEW j \in 1 .. n, j # 1
                 PROVE  \E k \in 1 .. n - 1 : r[k] = q[j]
    OBVIOUS
  <2>2. j - 1 \in 1 .. n - 1 /\ j - 1 + 1 = j  BY <1>1, <2>1
  <2> QED  BY <1>1, <2>2
<1>4. 1 \in 1 .. n  BY <1>1
<1>5. Carried(T, q) = T[q[1]] \cup Carried(T, r)
  <2>1. ASSUME NEW x \in Carried(T, q) PROVE x \in T[q[1]] \/ x \in Carried(T, r)
    <3>1. PICK j \in 1 .. n : x \in T[q[j]]  BY <1>1, InCarried
    <3>2. CASE j = 1  BY <3>1, <3>2
    <3>3. CASE j # 1
      <4>1. PICK k \in 1 .. n - 1 : r[k] = q[j]  BY <1>3, <3>3
      <4> QED  BY <1>1, <3>1, <4>1, InCarried
    <3> QED  BY <3>2, <3>3
  <2>2. ASSUME NEW x \in Carried(T, r) PROVE x \in Carried(T, q)
    <3>1. PICK k \in 1 .. n - 1 : x \in T[r[k]]  BY <1>1, InCarried
    <3>2. k + 1 \in DOMAIN q /\ x \in T[q[k + 1]]  BY <1>1, <1>2, <3>1
    <3> QED  BY <3>2, InCarried
  <2>3. \A x \in T[q[1]] : x \in Carried(T, q)  BY <1>1, <1>4, InCarried
  <2> QED  BY <2>1, <2>2, <2>3
<1>6. ASSUME Apart(T, q)
      PROVE  Apart(T, r) /\ T[q[1]] \cap Carried(T, r) = {}
  <2>1. \A j, k \in 1 .. n : j # k => T[q[j]] \cap T[q[k]] = {}  BY <1>1, <1>6, InApart
  <2>2. \A k \in 1 .. n - 1 : T[q[1]] \cap T[r[k]] = {}  BY <1>1, <1>2, <1>4, <2>1
  <2>3. T[q[1]] \cap Carried(T, r) = {}  BY <1>1, <2>2, InCarried
  <2>4. \A k, m \in 1 .. n - 1 : k # m => T[r[k]] \cap T[r[m]] = {}  BY <1>1, <1>2, <2>1
  <2> QED  BY <1>1, <2>3, <2>4, InApart
<1> QED  BY <1>1, <1>5, <1>6 DEF r
===============================================================================
