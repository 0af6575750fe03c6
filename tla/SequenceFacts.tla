--------------------------- MODULE SequenceFacts ---------------------------
(***************************************************************************)
(* What the operators on sequences do to their elements, for the queues,   *)
(* the lists and the stacks of the other modules.                          *)
(***************************************************************************)
EXTENDS Integers, SequencesExt, SequenceTheorems, FiniteSetTheorems, WellFoundedInduction,
        TLAPS

\* A nonempty set of natural numbers has a least element: a search from the front
\* of a list ends at the first element it looks for.
LEMMA LeastExists ==
    ASSUME NEW S, S \subseteq Nat, S # {}
    PROVE  \E x \in S : \A y \in S : x <= y
  <1> DEFINE R == {ss \in Nat \X Nat : ss[1] < ss[2]}
  <1>0. IsWellFoundedOn(R, Nat)
    BY NatLessThanWellFounded DEF OpToRel
  <1>1. PICK x \in S : \A y \in S : ~ (<<y, x>> \in R)
    <2> HIDE DEF R
    <2> QED  BY <1>0, WFMin
  <1>2. \A y \in S : ~(y < x)
    BY <1>1
  <1> QED  BY <1>2

\* Min picks it.
LEMMA MinProperties ==
    ASSUME NEW S, S \subseteq Nat, S # {}
    PROVE  Min(S) \in S /\ \A y \in S : Min(S) <= y
  BY LeastExists DEF Min

\* The elements of a sequence are those of its set.
LEMMA ToSetElements ==
    ASSUME NEW S, NEW q \in Seq(S)
    PROVE  /\ ToSet(q) \subseteq S
           /\ \A x : x \in ToSet(q) <=> \E i \in 1..Len(q) : q[i] = x
           /\ DOMAIN q = 1..Len(q) /\ Len(q) \in Nat
  <1>1. DOMAIN q = 1..Len(q) /\ Len(q) \in Nat  BY LenProperties
  <1>2. \A i \in 1..Len(q) : q[i] \in S  BY ElementOfSeq
  <1> QED  BY <1>1, <1>2 DEF ToSet

\* The empty sequence.
LEMMA EmptyElements ==
    ASSUME NEW S
    PROVE  <<>> \in Seq(S) /\ ToSet(<<>>) = {} /\ IsInjective(<<>>)
  BY EmptySeq DEF ToSet, IsInjective

\* Appending an element.
LEMMA AppendElements ==
    ASSUME NEW S, NEW q \in Seq(S), NEW e \in S
    PROVE  /\ Append(q, e) \in Seq(S)
           /\ ToSet(Append(q, e)) = ToSet(q) \cup {e}
           /\ IsInjective(q) /\ e \notin ToSet(q) => IsInjective(Append(q, e))
  <1> DEFINE r == Append(q, e)
  <1>1. /\ r \in Seq(S) /\ Len(r) = Len(q) + 1
        /\ \A i \in 1..Len(q) : r[i] = q[i]
        /\ r[Len(q) + 1] = e
    BY AppendProperties
  <1>2. Len(q) \in Nat /\ DOMAIN q = 1..Len(q) /\ DOMAIN r = 1..(Len(q) + 1)
    BY <1>1, LenProperties
  <1> HIDE DEF r
  <1>3. ToSet(r) = ToSet(q) \cup {e}
    BY <1>1, <1>2 DEF ToSet
  <1>4. IsInjective(q) /\ e \notin ToSet(q) => IsInjective(r)
    BY <1>1, <1>2 DEF ToSet, IsInjective
  <1> QED  BY <1>1, <1>3, <1>4 DEF r

\* Putting an element in front.
LEMMA ConsElements ==
    ASSUME NEW S, NEW q \in Seq(S), NEW e \in S
    PROVE  /\ <<e>> \o q \in Seq(S)
           /\ ToSet(<<e>> \o q) = ToSet(q) \cup {e}
           /\ IsInjective(q) /\ e \notin ToSet(q) => IsInjective(<<e>> \o q)
  <1> DEFINE h == <<e>>
             r == h \o q
  <1>0. h \in Seq(S) /\ Len(h) = 1 /\ h[1] = e  OBVIOUS
  <1>1. /\ r \in Seq(S) /\ Len(r) = 1 + Len(q)
        /\ r[1] = e /\ \A i \in 2..(Len(q) + 1) : r[i] = q[i - 1]
    <2> HIDE DEF h
    <2>1. Len(q) \in Nat  BY LenProperties
    <2>2. /\ r \in Seq(S) /\ Len(r) = Len(h) + Len(q)
          /\ \A i \in 1..(Len(h) + Len(q)) : r[i] = IF i <= Len(h) THEN h[i] ELSE q[i - Len(h)]
      BY <1>0, ConcatProperties
    <2> HIDE DEF r
    <2> QED  BY <1>0, <2>1, <2>2
  <1>2. Len(q) \in Nat /\ DOMAIN q = 1..Len(q) /\ DOMAIN r = 1..(Len(q) + 1)
    BY <1>1, LenProperties
  <1> HIDE DEF r
  <1>3. ToSet(r) = ToSet(q) \cup {e}
    <2>1. \A i \in 1..Len(q) : q[i] = r[i + 1]  BY <1>1, <1>2
    <2>2. ToSet(q) \subseteq ToSet(r)  BY <1>2, <2>1 DEF ToSet
    <2>3. ToSet(r) \subseteq ToSet(q) \cup {e}
      <3> SUFFICES ASSUME NEW i \in 1..(Len(q) + 1) PROVE r[i] \in ToSet(q) \cup {e}
        BY <1>2 DEF ToSet
      <3>1. CASE i = 1  BY <1>1, <3>1
      <3>2. CASE i # 1
        <4>1. i - 1 \in DOMAIN q /\ r[i] = q[i - 1]  BY <1>1, <1>2, <3>2
        <4> QED  BY <4>1 DEF ToSet
      <3> QED  BY <3>1, <3>2
    <2>4. e \in ToSet(r)  BY <1>1, <1>2 DEF ToSet
    <2> QED  BY <2>2, <2>3, <2>4
  <1>4. IsInjective(q) /\ e \notin ToSet(q) => IsInjective(r)
    <2> SUFFICES ASSUME IsInjective(q), e \notin ToSet(q),
                        NEW i \in 1..(Len(q) + 1), NEW j \in 1..(Len(q) + 1), r[i] = r[j]
                 PROVE  i = j
      BY <1>2 DEF IsInjective
    <2>1. \A k \in 2..(Len(q) + 1) : r[k] # e
      <3> SUFFICES ASSUME NEW k \in 2..(Len(q) + 1) PROVE r[k] # e
        OBVIOUS
      <3>1. k - 1 \in DOMAIN q /\ r[k] = q[k - 1]  BY <1>1, <1>2
      <3> QED  BY <3>1 DEF ToSet
    <2>2. CASE i = 1 \/ j = 1  BY <1>1, <1>2, <2>1, <2>2
    <2>3. CASE i # 1 /\ j # 1
      <3>1. i - 1 \in DOMAIN q /\ j - 1 \in DOMAIN q /\ q[i - 1] = q[j - 1]  BY <1>1, <1>2, <2>3
      <3>2. i - 1 = j - 1  BY <3>1 DEF IsInjective
      <3> QED  BY <1>2, <3>2
    <2> QED  BY <2>2, <2>3
  <1> QED  BY <1>1, <1>3, <1>4 DEF r

\* A part of a sequence.
LEMMA SubSeqElements ==
    ASSUME NEW S, NEW q \in Seq(S), NEW m \in 1..(Len(q) + 1), NEW n \in (m - 1)..Len(q)
    PROVE  /\ SubSeq(q, m, n) \in Seq(S)
           /\ ToSet(SubSeq(q, m, n)) = {q[i] : i \in m..n}
           /\ IsInjective(q) => IsInjective(SubSeq(q, m, n))
  <1> DEFINE r == SubSeq(q, m, n)
  <1>1. Len(q) \in Nat /\ DOMAIN q = 1..Len(q) /\ \A i \in 1..Len(q) : q[i] \in S
    BY LenProperties, ElementOfSeq
  <1>2. m \in Int /\ n \in Int /\ \A i \in m..n : q[i] \in S
    BY <1>1
  <1>3. /\ r \in Seq(S) /\ Len(r) = n - m + 1
        /\ \A i \in 1..(n - m + 1) : r[i] = q[m + i - 1]
    BY <1>1, <1>2, SubSeqProperties
  <1>4. DOMAIN r = 1..(n - m + 1)  BY <1>3, LenProperties
  <1> HIDE DEF r
  <1>5. ToSet(r) = {q[i] : i \in m..n}
    <2>1. ASSUME NEW i \in 1..(n - m + 1) PROVE r[i] \in {q[j] : j \in m..n}
      <3>1. m + i - 1 \in m..n /\ r[i] = q[m + i - 1]  BY <1>1, <1>3
      <3> QED  BY <3>1
    <2>2. ASSUME NEW j \in m..n PROVE q[j] \in ToSet(r)
      <3>1. j - m + 1 \in 1..(n - m + 1) /\ m + (j - m + 1) - 1 = j  BY <1>1
      <3>2. r[j - m + 1] = q[j]  BY <1>3, <3>1
      <3> QED  BY <1>4, <3>1, <3>2 DEF ToSet
    <2> QED  BY <1>4, <2>1, <2>2 DEF ToSet
  <1>6. IsInjective(q) => IsInjective(r)
    <2> SUFFICES ASSUME IsInjective(q), NEW i \in 1..(n - m + 1), NEW j \in 1..(n - m + 1), r[i] = r[j]
                 PROVE  i = j
      BY <1>4 DEF IsInjective
    <2>1. m + i - 1 \in DOMAIN q /\ m + j - 1 \in DOMAIN q /\ q[m + i - 1] = q[m + j - 1]
      BY <1>1, <1>3
    <2>2. m + i - 1 = m + j - 1  BY <2>1 DEF IsInjective
    <2> QED  BY <1>1, <2>2
  <1> QED  BY <1>3, <1>5, <1>6 DEF r

\* Taking the first element off.
LEMMA TailElements ==
    ASSUME NEW S, NEW q \in Seq(S), q # <<>>
    PROVE  /\ Tail(q) \in Seq(S) /\ Head(q) \in ToSet(q)
           /\ ToSet(Tail(q)) \subseteq ToSet(q) /\ ToSet(q) \subseteq ToSet(Tail(q)) \cup {Head(q)}
           /\ IsInjective(q) => IsInjective(Tail(q)) /\ Head(q) \notin ToSet(Tail(q))
  <1> DEFINE r == Tail(q)
  <1>1. Len(q) \in Nat \ {0} /\ DOMAIN q = 1..Len(q)
    BY LenProperties, EmptySeq
  <1>2. Head(q) = q[1]  OBVIOUS
  <1>3. r \in Seq(S) /\ Len(r) = Len(q) - 1 /\ \A i \in 1..Len(r) : r[i] = q[i + 1]
    BY HeadTailProperties
  <1>4. DOMAIN r = 1..(Len(q) - 1)
    BY <1>3, LenProperties
  <1> HIDE DEF r
  <1>5. Head(q) \in ToSet(q)
    BY <1>1, <1>2 DEF ToSet
  <1>6. ToSet(r) \subseteq ToSet(q)
    BY <1>1, <1>3, <1>4 DEF ToSet
  <1>7. ToSet(q) \subseteq ToSet(r) \cup {Head(q)}
    <2> SUFFICES ASSUME NEW i \in 1..Len(q), i # 1 PROVE q[i] \in ToSet(r)
      BY <1>1, <1>2 DEF ToSet
    <2>1. i - 1 \in 1..(Len(q) - 1) /\ (i - 1) + 1 = i  BY <1>1
    <2>2. r[i - 1] = q[i]  BY <1>1, <1>3, <2>1
    <2> QED  BY <1>4, <2>1, <2>2 DEF ToSet
  <1>8. IsInjective(q) => IsInjective(r) /\ Head(q) \notin ToSet(r)
    <2> SUFFICES ASSUME IsInjective(q) PROVE IsInjective(r) /\ Head(q) \notin ToSet(r)
      OBVIOUS
    <2>1. \A i \in DOMAIN r : i + 1 \in DOMAIN q /\ r[i] = q[i + 1]  BY <1>1, <1>3, <1>4
    <2>2. IsInjective(r)
      <3> SUFFICES ASSUME NEW i \in DOMAIN r, NEW j \in DOMAIN r, r[i] = r[j] PROVE i = j
        BY DEF IsInjective
      <3>1. i + 1 = j + 1  BY <2>1 DEF IsInjective
      <3> QED  BY <1>1, <1>4, <3>1
    <2>3. Head(q) \notin ToSet(r)
      <3> SUFFICES ASSUME NEW i \in DOMAIN r, r[i] = q[1] PROVE FALSE
        BY <1>2 DEF ToSet
      <3>1. i + 1 = 1  BY <1>1, <2>1 DEF IsInjective
      <3> QED  BY <1>1, <1>4, <3>1
    <2> QED  BY <2>2, <2>3
  <1> QED  BY <1>3, <1>5, <1>6, <1>7, <1>8 DEF r

\* Taking an element out of the middle.
LEMMA RemoveAtElements ==
    ASSUME NEW S, NEW q \in Seq(S), NEW i \in 1..Len(q)
    PROVE  /\ RemoveAt(q, i) \in Seq(S)
           /\ ToSet(RemoveAt(q, i)) \subseteq ToSet(q)
           /\ ToSet(q) \subseteq ToSet(RemoveAt(q, i)) \cup {q[i]}
           /\ IsInjective(q) => IsInjective(RemoveAt(q, i)) /\ q[i] \notin ToSet(RemoveAt(q, i))
  <1> DEFINE a == SubSeq(q, 1, i - 1)
             b == SubSeq(q, i + 1, Len(q))
             r == a \o b
  <1>0. Len(q) \in Nat /\ DOMAIN q = 1..Len(q) /\ \A j \in 1..Len(q) : q[j] \in S
    BY LenProperties, ElementOfSeq
  <1>1. a \in Seq(S) /\ Len(a) = i - 1 /\ \A j \in 1..(i - 1) : a[j] = q[j]
    <2>1. 1 \in Int /\ i - 1 \in Int /\ \A j \in 1..(i - 1) : q[j] \in S  BY <1>0
    <2> QED  BY <1>0, <2>1, SubSeqProperties
  <1>2. b \in Seq(S) /\ Len(b) = Len(q) - i /\ \A j \in 1..(Len(q) - i) : b[j] = q[i + j]
    <2>1. i + 1 \in Int /\ Len(q) \in Int /\ \A j \in (i + 1)..Len(q) : q[j] \in S  BY <1>0
    <2>2. /\ b \in Seq(S) /\ Len(b) = IF i + 1 <= Len(q) THEN Len(q) - (i + 1) + 1 ELSE 0
          /\ \A j \in 1..(Len(q) - (i + 1) + 1) : b[j] = q[(i + 1) + j - 1]
      BY <2>1, SubSeqProperties
    <2> HIDE DEF b
    <2>3. Len(q) - (i + 1) + 1 = Len(q) - i /\ \A j \in Int : (i + 1) + j - 1 = i + j
      BY <1>0
    <2>4. Len(b) = Len(q) - i
      <3>1. CASE i + 1 <= Len(q)  BY <1>0, <2>2, <2>3, <3>1
      <3>2. CASE i = Len(q)
        <4>1. ~(i + 1 <= Len(q)) /\ Len(q) - i = 0  BY <1>0, <3>2
        <4>2. Len(b) = 0  BY <2>2, <4>1
        <4> QED  BY <1>0, <4>1, <4>2
      <3>3. i + 1 <= Len(q) \/ i = Len(q)
        <4>1. i \in Int /\ Len(q) \in Int /\ i <= Len(q)  BY <1>0
        <4> QED  BY <4>1
      <3> QED  BY <3>1, <3>2, <3>3
    <2>5. \A j \in 1..(Len(q) - i) : b[j] = q[i + j]
      <3> SUFFICES ASSUME NEW j \in 1..(Len(q) - i) PROVE b[j] = q[i + j]
        OBVIOUS
      <3>1. j \in 1..(Len(q) - (i + 1) + 1) /\ (i + 1) + j - 1 = i + j  BY <1>0, <2>3
      <3> QED  BY <2>2, <3>1
    <2> QED  BY <2>2, <2>4, <2>5
  <1> HIDE DEF a, b
  <1>3. /\ r \in Seq(S) /\ Len(r) = Len(q) - 1
        /\ \A j \in 1..(Len(q) - 1) : r[j] = IF j < i THEN q[j] ELSE q[j + 1]
    <2>1. r \in Seq(S) /\ Len(r) = Len(a) + Len(b)
          /\ \A j \in 1..(Len(a) + Len(b)) : r[j] = IF j <= Len(a) THEN a[j] ELSE b[j - Len(a)]
      BY <1>1, <1>2, ConcatProperties
    <2> HIDE DEF r
    <2>2. Len(a) + Len(b) = Len(q) - 1  BY <1>0, <1>1, <1>2
    <2>3. ASSUME NEW j \in 1..(Len(q) - 1)
          PROVE  r[j] = IF j < i THEN q[j] ELSE q[j + 1]
      <3>1. CASE j < i  BY <1>0, <1>1, <2>1, <2>2, <3>1
      <3>2. CASE ~(j < i)
        <4>1. ~(j <= Len(a)) /\ j - Len(a) \in 1..(Len(q) - i) /\ i + (j - Len(a)) = j + 1
          BY <1>0, <1>1, <3>2
        <4>2. r[j] = b[j - Len(a)]  BY <2>1, <2>2, <4>1
        <4> QED  BY <1>2, <3>2, <4>1, <4>2
      <3> QED  BY <3>1, <3>2
    <2> QED  BY <2>1, <2>2, <2>3
  <1>4. DOMAIN r = 1..(Len(q) - 1)  BY <1>3, LenProperties
  <1>5. RemoveAt(q, i) = r  BY DEF RemoveAt, a, b
  <1> HIDE DEF r
  <1>6. ToSet(r) \subseteq ToSet(q)
    <2> SUFFICES ASSUME NEW j \in 1..(Len(q) - 1) PROVE r[j] \in ToSet(q)
      BY <1>4 DEF ToSet
    <2> QED  BY <1>0, <1>3 DEF ToSet
  <1>7. ToSet(q) \subseteq ToSet(r) \cup {q[i]}
    <2> SUFFICES ASSUME NEW j \in 1..Len(q), j # i PROVE q[j] \in ToSet(r)
      BY <1>0 DEF ToSet
    <2>1. CASE j < i
      <3>1. j \in 1..(Len(q) - 1) /\ r[j] = q[j]  BY <1>0, <1>3, <2>1
      <3> QED  BY <1>4, <3>1 DEF ToSet
    <2>2. CASE j > i
      <3>1. j - 1 \in 1..(Len(q) - 1) /\ ~(j - 1 < i) /\ (j - 1) + 1 = j  BY <1>0, <2>2
      <3>2. r[j - 1] = q[j]  BY <1>3, <3>1
      <3> QED  BY <1>4, <3>1, <3>2 DEF ToSet
    <2> QED  BY <1>0, <2>1, <2>2
  <1>8. IsInjective(q) => IsInjective(r) /\ q[i] \notin ToSet(r)
    <2> SUFFICES ASSUME IsInjective(q) PROVE IsInjective(r) /\ q[i] \notin ToSet(r)
      OBVIOUS
    <2> DEFINE at(j) == IF j < i THEN j ELSE j + 1
    <2>1. \A j \in DOMAIN r : at(j) \in DOMAIN q /\ at(j) # i /\ r[j] = q[at(j)]
      BY <1>0, <1>3, <1>4
    <2>2. \A j, k \in DOMAIN r : at(j) = at(k) => j = k  BY <1>0, <1>4
    <2> HIDE DEF at
    <2> QED  BY <1>0, <2>1, <2>2 DEF IsInjective, ToSet
  <1> QED  BY <1>3, <1>5, <1>6, <1>7, <1>8

\* Taking an element off the list it is on, if it is on it.
LEMMA RemoveFirstElements ==
    ASSUME NEW S, NEW q \in Seq(S), NEW e
    PROVE  /\ RemoveFirst(q, e) \in Seq(S)
           /\ ToSet(RemoveFirst(q, e)) \subseteq ToSet(q)
           /\ ToSet(q) \subseteq ToSet(RemoveFirst(q, e)) \cup {e}
           /\ IsInjective(q) => IsInjective(RemoveFirst(q, e)) /\ e \notin ToSet(RemoveFirst(q, e))
  <1>0. Len(q) \in Nat /\ DOMAIN q = 1..Len(q)  BY LenProperties
  <1>1. CASE \E i \in 1..Len(q) : q[i] = e
    <2> DEFINE I == {i \in 1..Len(q) : q[i] = e}
    <2>1. I \subseteq Nat /\ I # {}  BY <1>1
    <2>2. RemoveFirst(q, e) = RemoveAt(q, Min(I))  BY <1>1, <2>1 DEF RemoveFirst, SelectInSeq
    <2>3. Min(I) \in I
      <3> HIDE DEF I
      <3> QED  BY <2>1, MinProperties
    <2>4. Min(I) \in 1..Len(q) /\ q[Min(I)] = e  BY <2>3
    <2> HIDE DEF I
    <2> QED  BY <2>2, <2>4, RemoveAtElements
  <1>2. CASE ~\E i \in 1..Len(q) : q[i] = e
    <2>1. RemoveFirst(q, e) = q  BY <1>2 DEF RemoveFirst
    <2> QED  BY <1>0, <1>2, <2>1 DEF ToSet
  <1> QED  BY <1>1, <1>2

\* Popping the last element leaves a stack that is shorter by one.
LEMMA FrontType ==
    ASSUME NEW S, NEW q \in Seq(S), Len(q) > 0
    PROVE  Front(q) \in Seq(S) /\ Len(Front(q)) = Len(q) - 1
  <1>1. \A j \in 1..Len(q) : q[j] \in S  BY ElementOfSeq
  <1>2. Len(q) \in Nat  BY LenProperties
  <1>3. \A j \in 1..(Len(q) - 1) : q[j] \in S  BY <1>1, <1>2
  <1> DEFINE f == SubSeq(q, 1, Len(q) - 1)
  <1>4. f \in Seq(S) /\ Len(f) = IF 1 <= Len(q) - 1 THEN Len(q) - 1 - 1 + 1 ELSE 0
    BY <1>2, <1>3, SubSeqProperties
  <1>5. Front(q) = f  BY DEF Front
  <1> HIDE DEF f
  <1> QED  BY <1>2, <1>4, <1>5

\* A sequence gets shorter by the one element that is taken out.
LEMMA RemoveFirstLength ==
    ASSUME NEW S, NEW q \in Seq(S), NEW e
    PROVE  Len(RemoveFirst(q, e)) = IF e \in ToSet(q) THEN Len(q) - 1 ELSE Len(q)
  <1>0. Len(q) \in Nat /\ DOMAIN q = 1..Len(q) /\ \A j \in 1..Len(q) : q[j] \in S
    BY LenProperties, ElementOfSeq
  <1>1. CASE \E i \in 1..Len(q) : q[i] = e
    <2> DEFINE I == {i \in 1..Len(q) : q[i] = e}
               k == Min(I)
               a == SubSeq(q, 1, k - 1)
               b == SubSeq(q, k + 1, Len(q))
    <2>1. I \subseteq Nat /\ I # {}  BY <1>1
    <2>2. RemoveFirst(q, e) = a \o b  BY <1>1, <2>1 DEF RemoveFirst, SelectInSeq, RemoveAt
    <2>3. k \in I
      <3> HIDE DEF I
      <3> QED  BY <2>1, MinProperties
    <2>4. k \in 1..Len(q)  BY <2>3
    <2> HIDE DEF k
    <2>5. a \in Seq(S) /\ Len(a) = k - 1
      <3>1. \A j \in 1..(k - 1) : q[j] \in S  BY <1>0, <2>4
      <3>2. a \in Seq(S) /\ Len(a) = IF 1 <= k - 1 THEN (k - 1) - 1 + 1 ELSE 0
        BY <1>0, <2>4, <3>1, SubSeqProperties
      <3> QED  BY <2>4, <3>2
    <2>6. b \in Seq(S) /\ Len(b) = Len(q) - k
      <3>1. \A j \in (k + 1)..Len(q) : q[j] \in S  BY <1>0, <2>4
      <3>2. b \in Seq(S) /\ Len(b) = IF k + 1 <= Len(q) THEN Len(q) - (k + 1) + 1 ELSE 0
        BY <1>0, <2>4, <3>1, SubSeqProperties
      <3>3. Len(q) \in Nat /\ k \in Nat /\ k <= Len(q)  BY <1>0, <2>4
      <3>4. (IF k + 1 <= Len(q) THEN Len(q) - (k + 1) + 1 ELSE 0) = Len(q) - k  BY <3>3
      <3> QED  BY <3>2, <3>4
    <2> HIDE DEF a, b, I
    <2>7. Len(a \o b) = Len(a) + Len(b)  BY <2>5, <2>6, ConcatProperties
    <2>8. e \in ToSet(q)  BY <1>0, <1>1 DEF ToSet
    <2> QED  BY <1>0, <2>2, <2>4, <2>5, <2>6, <2>7, <2>8
  <1>2. CASE ~\E i \in 1..Len(q) : q[i] = e
    <2>1. RemoveFirst(q, e) = q  BY <1>2 DEF RemoveFirst
    <2> QED  BY <1>0, <1>2, <2>1 DEF ToSet
  <1> QED  BY <1>1, <1>2

\* A list without repetitions has as many elements as it is long.
LEMMA InjectiveCount ==
    ASSUME NEW S, NEW q \in Seq(S), IsInjective(q)
    PROVE  IsFiniteSet(ToSet(q)) /\ Cardinality(ToSet(q)) = Len(q)
  <1>1. Len(q) \in Nat /\ DOMAIN q = 1..Len(q) /\ q \in [1..Len(q) -> S]
    BY LenProperties
  <1>2. q \in [1..Len(q) -> ToSet(q)] /\ \A x \in ToSet(q) : \E i \in 1..Len(q) : q[i] = x
    BY <1>1 DEF ToSet
  <1>3. \A i, j \in 1..Len(q) : q[i] = q[j] => i = j
    BY <1>1 DEF IsInjective
  <1>4. ExistsBijection(1..Len(q), ToSet(q))
    BY <1>2, <1>3 DEF ExistsBijection, Bijection, Injection, Surjection, IsInjective
  <1>5. IsFiniteSet(1..Len(q)) /\ Cardinality(1..Len(q)) = Len(q)
    BY <1>1, FS_Interval
  <1> QED  BY <1>4, <1>5, FS_Bijection
=============================================================================
