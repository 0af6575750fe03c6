--------------------------- MODULE StTableProofs ---------------------------
(***************************************************************************)
(* The hash tables, for every set of keys, hash function, sequence of      *)
(* sizes and program.  StInv is inductive: the types, that the keys of the *)
(* entries are distinct, that the path of each entry's key leads to its    *)
(* bin over no empty one, that no other bin holds an entry, how many bins  *)
(* are taken, and where a traversal is.                                    *)
(*                                                                         *)
(* The path of a search is 5 * ind + perterb + 1 modulo a power of two     *)
(* n, with perterb = 0 after six steps.  That it meets every bin is shown  *)
(* by doubling: two places K apart on it differ by an odd multiple of K,   *)
(* for K = 1, 2, 4, ..., so that if K places in a row meet every residue   *)
(* modulo K, 2K places do modulo 2K.                                       *)
(*                                                                         *)
(* Then every step of the table is one of OrderedDict.                     *)
(***************************************************************************)
EXTENDS StTable, SequenceFacts, FiniteSetTheorems, TLAPS
-----------------------------------------------------------------------------
(* The inductive invariant. *)

\* What the array of entries holds.
Entry == [key : Key, record : Value] \cup {DeletedEntry}

\* The bins of a table of that size.
BinsOf(power) == 0..(Pow2[power + 1] - 1)

\* On the path p there is the i-th entry, and no empty bin before it.
LeadsTo(p, bins, i) ==
    \E j \in DOMAIN p : bins[p[j]] = i + 1 /\ \A m \in 0..(j - 1) : bins[p[m]] # EMPTY_BIN

\* The bins hold the entries of es with the indices in L, each once.
Index(power, bins, es, L) ==
    /\ \A b \in BinsOf(power) : bins[b] >= ENTRY_BASE => bins[b] - 1 \in L
    /\ \A b, c \in BinsOf(power) : bins[b] >= ENTRY_BASE /\ bins[b] = bins[c] => b = c
    /\ \A i \in L : LeadsTo(Paths[es[i].key][power], bins, i)

\* No more bins are taken or marked deleted than n.
Taken(power, bins) == {b \in BinsOf(power) : bins[b] # EMPTY_BIN}
FewTaken(t, n) == t.bins # NoBins => Cardinality(Taken(t.entry_power, t.bins)) <= n

\* A table, field by field.
Table(power, es, start, num, bins) ==
    [entry_power |-> power, entries |-> es, entries_start |-> start, num_entries |-> num,
     bins |-> bins]

\* The types of the fields.
IsTable(t) ==
    /\ t = Table(t.entry_power, t.entries, t.entries_start, t.num_entries, t.bins)
    /\ t.entry_power \in MINIMAL_POWER2..MAX_POWER2
    /\ t.entries \in Seq(Entry) /\ Len(t.entries) <= Pow2[t.entry_power]
    /\ t.entries_start \in 0..Len(t.entries)
    /\ t.bins = NoBins \/ t.bins \in [BinsOf(t.entry_power) -> Nat]

\* The keys of the entries in L are different.
Distinct(es, L) == \A i, j \in L : es[i].key = es[j].key => i = j

\* What is true of a table between any two operations.
GoodTable(t) ==
    /\ IsTable(t) /\ Distinct(t.entries, Live(t))
    /\ t.bins # NoBins => Index(t.entry_power, t.bins, t.entries, Live(t))
    /\ t.num_entries = Cardinality(Live(t))

\* The entry of k, if there is one, is the i-th one.
CurrentAt(t, i, k) ==
    i \in DOMAIN t.entries /\ \A j \in Live(t) : t.entries[j].key = k => j = i

\* The traversal: its current entry is known by its index, unless the table was rebuilt.
IterOK ==
    /\ iter \in [i : Nat, key : Key \cup {NoKey}, rebuilt : BOOLEAN]
    /\ traversal \in {"none", "running", "complete", "error"}
    /\ ~Running => iter = NoIter
    /\ Running => iter.key \in Key
    /\ Running /\ ~iter.rebuilt => CurrentAt(tab, iter.i, iter.key)

\* The inductive invariant.  The bound on the bins that are taken or marked deleted is what
\* "Do not update entries_bound here" (update_range_for_deleted) is for: as many bins are
\* taken as entries were added since the last rebuilding.  st_shift of an empty table
\* breaks it, but no table keeps the damage through a rebuilding.
StInv ==
    /\ GoodTable(tab)
    /\ "shift_empty" \notin Calls \/ iter.rebuilt => FewTaken(tab, Len(tab.entries))
    /\ IterOK
-----------------------------------------------------------------------------
(* Powers of two, and the path of a search. *)

\* Induction up to N, with a set for the property: each use names the set of the numbers
\* that have it.
LEMMA FiniteInduction ==
    ASSUME NEW N \in Nat, NEW T, 0 \in T, \A i \in 0..(N - 1) : i \in T => i + 1 \in T
    PROVE  \A i \in 0..N : i \in T
  <1> DEFINE S == {i \in 0..N : i \notin T}
  <1> SUFFICES ASSUME S # {}  PROVE FALSE
    OBVIOUS
  <1>1. PICK x \in S : \A y \in S : x <= y
    <2>1. S \subseteq Nat  OBVIOUS
    <2> HIDE DEF S
    <2> QED  BY <2>1, LeastExists
  <1>2. x \in Nat /\ x # 0 /\ x <= N  OBVIOUS
  <1>3. x - 1 \in 0..(N - 1) /\ x - 1 \in T
    BY <1>1, <1>2
  <1> QED  BY <1>3, <1>2

\* The equation of Pow2 has a solution.
LEMMA Pow2Exists ==
    ASSUME NEW N \in Nat
    PROVE  \E f : f = [n \in 0..N |-> IF n = 0 THEN 1 ELSE 2 * f[n - 1]]
  <1> DEFINE Body(m, f) == [n \in 0..m |-> IF n = 0 THEN 1 ELSE 2 * f[n - 1]]
             T == {m \in 0..N : \E f : f = Body(m, f)}
  <1>1. 0 \in T
    <2> DEFINE f == [n \in 0..0 |-> 1]
    <2>1. f = Body(0, f)  OBVIOUS
    <2> HIDE DEF f, Body
    <2> QED  BY <2>1
  <1>2. ASSUME NEW m \in 0..(N - 1), m \in T  PROVE m + 1 \in T
    <2>1. PICK f : f = Body(m, f)  BY <1>2
    <2> DEFINE g == [n \in 0..(m + 1) |-> IF n <= m THEN f[n] ELSE 2 * f[m]]
    <2>2. g = Body(m + 1, g)
      <3>1. \A n \in 0..m : f[n] = IF n = 0 THEN 1 ELSE 2 * f[n - 1]
        BY <2>1
      <3>2. \A n \in 0..(m + 1) : g[n] = IF n = 0 THEN 1 ELSE 2 * g[n - 1]
        BY <3>1
      <3> QED  BY <3>2
    <2> HIDE DEF g, Body
    <2> QED  BY <2>2
  <1>3. N \in T
    <2> HIDE DEF T
    <2> QED  BY <1>1, <1>2, FiniteInduction
  <1> QED  BY <1>3

\* Pow2 doubles.
LEMMA Pow2Equation ==
    /\ Pow2[0] = 1
    /\ \A n \in 0..MAX_POWER2 : Pow2[n + 1] = 2 * Pow2[n]
  <1> DEFINE N == MAX_POWER2 + 1
             Body(f) == [n \in 0..N |-> IF n = 0 THEN 1 ELSE 2 * f[n - 1]]
  <1>1. Pow2 = CHOOSE f : f = Body(f)  BY DEF Pow2
  <1>2. \E f : f = Body(f)
    <2>1. N \in Nat BY StAssumption
    <2> HIDE DEF N
    <2> QED BY <2>1, Pow2Exists
  <1> HIDE DEF Body
  <1>3. Pow2 = Body(Pow2)  BY <1>1, <1>2
  <1>4. Pow2 = [n \in 0..N |-> IF n = 0 THEN 1 ELSE 2 * Pow2[n - 1]]  BY <1>3 DEF Body
  <1>5. \A n \in 0..N : Pow2[n] = IF n = 0 THEN 1 ELSE 2 * Pow2[n - 1]
    BY <1>4
  <1> QED  BY <1>5, StAssumption

\* 1 << n is a positive number.
LEMMA Pow2Positive ==
    \A n \in 0..(MAX_POWER2 + 1) : Pow2[n] \in Nat /\ Pow2[n] >= 1
  <1> DEFINE T == {n \in 0..(MAX_POWER2 + 1) : Pow2[n] \in Nat /\ Pow2[n] >= 1}
  <1>1. 0 \in T  BY Pow2Equation, StAssumption
  <1>2. ASSUME NEW n \in 0..MAX_POWER2, n \in T PROVE n + 1 \in T
    BY <1>2, Pow2Equation, StAssumption
  <1> HIDE DEF T
  <1>3. \A n \in 0..(MAX_POWER2 + 1) : n \in T
    BY <1>1, <1>2, FiniteInduction, StAssumption
  <1> QED  BY <1>3 DEF T

\* A power of two divides the larger ones.
LEMMA Pow2Divides ==
    ASSUME NEW r \in 0..(MAX_POWER2 + 1), NEW s \in 0..(MAX_POWER2 + 1), r <= s
    PROVE  \E M \in Nat : M >= 1 /\ Pow2[s] = Pow2[r] * M
  <1> DEFINE T == {d \in 0..(s - r) : \E M \in Nat : M >= 1 /\ Pow2[r + d] = Pow2[r] * M}
  <1>1. 0 \in T
    <2>1. Pow2[r + 0] = Pow2[r] * 1  BY Pow2Positive
    <2> QED BY <2>1
  <1>2. ASSUME NEW d \in 0..(s - r - 1), d \in T PROVE d + 1 \in T
    <2>1. PICK M \in Nat : M >= 1 /\ Pow2[r + d] = Pow2[r] * M  BY <1>2
    <2>2. Pow2[r + (d + 1)] = 2 * Pow2[r + d]
      <3>1. r + d \in 0..MAX_POWER2 /\ r + (d + 1) = (r + d) + 1 BY StAssumption
      <3> QED BY <3>1, Pow2Equation
    <2>3. Pow2[r + (d + 1)] = Pow2[r] * (2 * M)
      <3> DEFINE p == Pow2[r]
      <3>1. p \in Nat BY Pow2Positive
      <3> HIDE DEF p
      <3>2. 2 * (p * M) = p * (2 * M) BY <3>1
      <3> QED BY <3>2, <2>1, <2>2 DEF p
    <2>4. 2 * M \in Nat /\ 2 * M >= 1  BY <2>1
    <2>5. d + 1 \in 0..(s - r) BY StAssumption
    <2> QED  BY <2>3, <2>4, <2>5
  <1> HIDE DEF T
  <1>3. s - r \in T
    BY <1>1, <1>2, FiniteInduction, StAssumption
  <1> QED  BY <1>3 DEF T

\* x % n is between 0 and n - 1, and differs from x by a multiple of n.
LEMMA ModProperties ==
    ASSUME NEW n \in Nat, n >= 1, NEW x \in Int
    PROVE  x % n \in 0..(n - 1) /\ \E q \in Int : x % n = x + n * q
  <1>1. x = n * (x \div n) + (x % n) /\ x \div n \in Int /\ x % n \in 0..(n - 1)
    OBVIOUS
  <1> DEFINE q == x \div n  r == x % n
  <1>2. q \in Int /\ r \in Int /\ x = n * q + r  BY <1>1
  <1> HIDE DEF q, r
  <1>3. r = x + n * (-q) /\ -q \in Int  BY <1>2
  <1> QED  BY <1>1, <1>3 DEF r

\* n is a multiple of k.
Multiple(n, k) == \E M \in Nat : n = k * M

\* A path of n steps of secondary_hash with perterb = 0, modulo n.
Cycle(n, x) ==
    /\ x \in [0..n -> Int]
    /\ \A j \in 0..(n - 1) : \E q \in Int : x[j + 1] = 5 * x[j] + 1 + n * q

\* Any two places 2^r steps apart differ by 2^r, but for multiples of 2^(r+1).
Differ(n, x, K) == \A j \in 0..(n - K) : \E c \in Int : x[j + K] - x[j] = K + 2 * K * c

\* Each step changes the parity.
LEMMA DifferBase ==
    ASSUME NEW h \in Nat, NEW n \in Nat, n = 2 * h, NEW x, Cycle(n, x)
    PROVE  Differ(n, x, 1)
  <1> SUFFICES ASSUME NEW j \in 0..(n - 1)
               PROVE  \E c \in Int : x[j + 1] - x[j] = 1 + 2 * 1 * c
    BY DEF Differ
  <1>1. PICK q \in Int : x[j + 1] = 5 * x[j] + 1 + n * q  BY DEF Cycle
  <1> DEFINE a == x[j]  b == x[j + 1]  c == 2 * a + h * q
  <1>2. a \in Int /\ b \in Int  BY DEF Cycle
  <1>3. b = 5 * a + 1 + n * q  BY <1>1
  <1> HIDE DEF a, b
  <1>4. c \in Int /\ b - a = 1 + 2 * 1 * c  BY <1>2, <1>3
  <1> QED  BY <1>4 DEF a, b

\* The hypotheses of the next step: places K apart differ by an odd multiple of K.
Halfway(n, K, x) ==
    n \in Nat /\ K \in Nat /\ K >= 1 /\ Multiple(n, 4 * K) /\ Cycle(n, x) /\ Differ(n, x, K)

\* The difference of two places K apart, i steps later, modulo 4K.
Grows(x, K, j, i) == \E e \in Int : x[j + i + K] - x[j + i] = x[j + K] - x[j] + 4 * K * e

\* The difference of two places K apart grows by a multiple of 4K with each step.
LEMMA DifferenceGrows ==
    ASSUME NEW n, NEW K, NEW x, Halfway(n, K, x),
           NEW j \in 0..(n - K - 1)
    PROVE  Grows(x, K, j, 1)
  <1> USE DEF Halfway
  <1>0. /\ j \in 0..(n - 1) /\ j + K \in 0..(n - 1) /\ j \in 0..(n - K) /\ j + K + 1 = j + 1 + K
        /\ j \in 0..n /\ j + K \in 0..n /\ j + 1 \in 0..n /\ j + 1 + K \in 0..n
    OBVIOUS
  <1>1. PICK q \in Int : x[j + 1] = 5 * x[j] + 1 + n * q  BY <1>0 DEF Cycle
  <1>2. PICK s \in Int : x[j + K + 1] = 5 * x[j + K] + 1 + n * s  BY <1>0 DEF Cycle
  <1>3. PICK c \in Int : x[j + K] - x[j] = K + 2 * K * c  BY <1>0 DEF Differ
  <1>00. PICK M \in Nat : n = 4 * K * M  BY DEF Multiple
  <1> DEFINE a == x[j]  b == x[j + 1]  u == x[j + K]  v == x[j + 1 + K]
             e == 1 + 2 * c + M * (s - q)
  <1>4. a \in Int /\ b \in Int /\ u \in Int /\ v \in Int  BY <1>0 DEF Cycle
  <1>5. b = 5 * a + 1 + n * q /\ v = 5 * u + 1 + n * s /\ u - a = K + 2 * K * c
    BY <1>0, <1>1, <1>2, <1>3
  <1> HIDE DEF a, b, u, v
  <1>6. v - b = (u - a) + 4 * (u - a) + n * (s - q)  BY <1>4, <1>5
  <1>7. 4 * (u - a) = 4 * K * (1 + 2 * c)  BY <1>4, <1>5
  <1>8. n * (s - q) = 4 * K * (M * (s - q))  BY <1>00
  <1>9. e \in Int /\ v - b = u - a + 4 * K * e  BY <1>4, <1>6, <1>7, <1>8
  <1> QED  BY <1>9 DEF a, b, u, v, Grows

\* So it does with K steps.
LEMMA DifferenceAfter ==
    ASSUME NEW n, NEW K, NEW x, Halfway(n, K, x),
           NEW j \in 0..(n - 2 * K)
    PROVE  Grows(x, K, j, K)
  <1> DEFINE T == {i \in 0..K : Grows(x, K, j, i)}
  <1>00. n \in Nat /\ K \in Nat /\ K >= 1 /\ x \in [0..n -> Int]  BY DEF Halfway, Cycle
  <1>0. ASSUME NEW i \in 0..K  PROVE j + i \in 0..n /\ j + i + K \in 0..n /\ x[j + i] \in Int /\ x[j + i + K] \in Int
    BY <1>00
  <1>1. 0 \in T
    <2>1. j + 0 = j /\ 0 \in 0..K  BY <1>00
    <2> DEFINE p == x[j + K]  s == x[j]
    <2>2. p \in Int /\ s \in Int  BY <2>1, <1>0
    <2>3. x[j + 0 + K] = p /\ x[j + 0] = s  BY <2>1
    <2> HIDE DEF p, s
    <2>4. p - s = p - s + 4 * K * 0  BY <2>2, <1>00
    <2>5. Grows(x, K, j, 0)  BY <2>3, <2>4 DEF Grows, p, s
    <2> QED  BY <2>1, <2>5
  <1>2. ASSUME NEW i \in 0..(K - 1), i \in T  PROVE i + 1 \in T
    <2>1. PICK e \in Int : x[j + i + K] - x[j + i] = x[j + K] - x[j] + 4 * K * e  BY <1>2 DEF Grows
    <2>2. j + i \in 0..(n - K - 1)  BY <1>00
    <2>3. PICK f \in Int : x[(j + i) + 1 + K] - x[(j + i) + 1] = x[(j + i) + K] - x[j + i] + 4 * K * f
      <3> DEFINE g == j + i
      <3>1. g \in 0..(n - K - 1)  BY <2>2
      <3> HIDE DEF g
      <3>2. Grows(x, K, g, 1)
        BY <3>1, DifferenceGrows
      <3> QED  BY <3>2 DEF g, Grows
    <2>4. j + (i + 1) = j + i + 1 /\ i + 1 \in 0..K /\ i \in 0..K /\ 0 \in 0..K BY <1>00
    <2> DEFINE a == x[j + i]  b == x[j + i + K]  u == x[j + (i + 1)]  v == x[j + (i + 1) + K]  p == x[j + K]  s == x[j]
    <2>5. a \in Int /\ b \in Int /\ u \in Int /\ v \in Int /\ p \in Int /\ s \in Int
      <3>1. j + 0 = j  BY <1>00
      <3> QED BY <3>1, <2>4, <1>0
    <2>6. b - a = p - s + 4 * K * e /\ v - u = b - a + 4 * K * f
      BY <2>1, <2>3, <2>4
    <2> HIDE DEF a, b, u, v, p, s
    <2>7. v - u = p - s + 4 * K * (e + f) /\ e + f \in Int  BY <2>5, <2>6, <1>00
    <2> QED  BY <2>4, <2>7 DEF u, v, p, s, Grows
  <1> HIDE DEF T
  <1>3. \A i \in 0..K : i \in T  BY <1>00, <1>1, <1>2, FiniteInduction
  <1>4. K \in 0..K  BY <1>00
  <1> QED  BY <1>3, <1>4 DEF T

\* Places 2K apart differ by an odd multiple of 2K.
LEMMA DifferStep ==
    ASSUME NEW n, NEW K, NEW x, Halfway(n, K, x)
    PROVE  Differ(n, x, 2 * K)
  <1>00. n \in Nat /\ K \in Nat /\ K >= 1 /\ Cycle(n, x) /\ Differ(n, x, K)  BY DEF Halfway
  <1> SUFFICES ASSUME NEW j \in 0..(n - 2 * K)
               PROVE  \E c \in Int : x[j + 2 * K] - x[j] = 2 * K + 2 * (2 * K) * c
    BY DEF Differ
  <1>0. j \in 0..(n - K) /\ j \in 0..n /\ j + K \in 0..n /\ j + 2 * K \in 0..n /\ j + 2 * K = j + K + K
    BY <1>00
  <1>1. PICK c \in Int : x[j + K] - x[j] = K + 2 * K * c  BY <1>00, <1>0 DEF Differ
  <1>2. PICK e \in Int : x[j + K + K] - x[j + K] = x[j + K] - x[j] + 4 * K * e
    BY DifferenceAfter DEF Grows
  <1> DEFINE a == x[j]  b == x[j + K]  d == x[j + 2 * K]
  <1>3. a \in Int /\ b \in Int /\ d \in Int  BY <1>00, <1>0 DEF Cycle
  <1>4. b - a = K + 2 * K * c /\ d - b = b - a + 4 * K * e  BY <1>0, <1>1, <1>2
  <1> HIDE DEF a, b, d
  <1>5. d - a = 2 * (K + 2 * K * c) + 4 * K * e  BY <1>00, <1>3, <1>4
  <1>6. 2 * (K + 2 * K * c) + 4 * K * e = 2 * K + 2 * (2 * K) * (c + e)  BY <1>00
  <1>7. c + e \in Int BY <1>00
  <1>8. d - a = 2 * K + 2 * (2 * K) * (c + e) BY <1>00, <1>5, <1>6
  <1> QED  BY <1>7, <1>8 DEF a, d

\* The same for every power of two below the length of the path.
LEMMA DifferAll ==
    ASSUME NEW m \in 0..(MAX_POWER2 + 1), NEW x, Cycle(Pow2[m], x), NEW r \in 0..(m - 1)
    PROVE  Differ(Pow2[m], x, Pow2[r])
  <1> DEFINE n == Pow2[m]
             T == {s \in 0..(m - 1) : Differ(n, x, Pow2[s])}
  <1>0. n \in Nat  BY Pow2Positive
  <1>1. 0 \in T
    <2>1. m - 1 \in 0..MAX_POWER2 /\ m - 1 \in 0..(MAX_POWER2 + 1) /\ (m - 1) + 1 = m
      BY StAssumption
    <2>2. n = 2 * Pow2[m - 1] /\ Pow2[m - 1] \in Nat /\ Pow2[0] = 1
      BY <2>1, Pow2Equation, Pow2Positive
    <2> HIDE DEF n
    <2>3. Differ(n, x, 1)  BY <2>2, <1>0, DifferBase DEF n
    <2> QED  BY <2>2, <2>3
  <1>2. ASSUME NEW s \in 0..(m - 1 - 1), s \in T  PROVE s + 1 \in T
    <2>0. /\ s \in 0..MAX_POWER2 /\ s + 1 \in 0..MAX_POWER2 /\ s + 2 \in 0..(MAX_POWER2 + 1) /\ s + 2 <= m /\ s \in 0..(MAX_POWER2 + 1)
          /\ (s + 1) + 1 = s + 2 /\ s + 1 \in 0..(m - 1)
      BY StAssumption
    <2>1. PICK M \in Nat : n = Pow2[s + 2] * M  BY <2>0, Pow2Divides
    <2>2. Pow2[s + 2] = 2 * Pow2[s + 1] /\ Pow2[s + 1] = 2 * Pow2[s]  BY <2>0, Pow2Equation
    <2> DEFINE K == Pow2[s]
    <2>3. K \in Nat /\ K >= 1  BY <2>0, Pow2Positive
    <2>4. n = 4 * K * M
      <3>1. n = (2 * (2 * K)) * M  BY <2>1, <2>2
      <3> HIDE DEF K, n
      <3> QED  BY <3>1, <2>3
    <2>7. Multiple(n, 4 * K) BY <2>4 DEF Multiple
    <2>5. Differ(n, x, K) /\ Cycle(n, x)  BY <1>2
    <2> HIDE DEF n, K
    <2>6. Differ(n, x, 2 * K)
      <3>1. Halfway(n, K, x)  BY <1>0, <2>3, <2>5, <2>7 DEF Halfway
      <3> QED  BY <3>1, DifferStep
    <2> QED  BY <2>6, <2>2, <2>0 DEF K
  <1>3. \A s \in 0..(m - 1) : s \in T
    <2>1. m - 1 \in Nat  BY StAssumption
    <2> HIDE DEF T
    <2> QED  BY <2>1, <1>1, <1>2, FiniteInduction
  <1> QED  BY <1>3

\* Among 2^r places in a row every number occurs, modulo 2^r.
Covers(x, K) == \A y \in Int : \E j \in 0..(K - 1) : \E q \in Int : x[j] - y = K * q

\* What 2K places cover if K places cover everything modulo K.
LEMMA CoversStep ==
    ASSUME NEW n \in Nat, NEW K \in Nat, K >= 1, 2 * K <= n, NEW x, Cycle(n, x), Differ(n, x, K), Covers(x, K)
    PROVE  Covers(x, 2 * K)
  <1> SUFFICES ASSUME NEW y \in Int
               PROVE  \E j \in 0..(2 * K - 1) : \E q \in Int : x[j] - y = 2 * K * q
    BY DEF Covers
  <1>1. PICK j \in 0..(K - 1) : \E q \in Int : x[j] - y = K * q  BY DEF Covers
  <1>2. PICK q \in Int : x[j] - y = K * q  BY <1>1
  <1>3. j \in 0..(n - K) /\ j \in 0..n /\ j + K \in 0..n /\ j \in 0..(2 * K - 1) /\ j + K \in 0..(2 * K - 1)
    OBVIOUS
  <1>4. PICK c \in Int : x[j + K] - x[j] = K + 2 * K * c  BY <1>3 DEF Differ
  <1> DEFINE a == x[j]  b == x[j + K]
  <1>5. a \in Int /\ b \in Int  BY <1>3 DEF Cycle
  <1>6. a - y = K * q /\ b - a = K + 2 * K * c  BY <1>2, <1>4
  <1>7. \E h \in Int : q = 2 * h \/ q = 2 * h + 1
    <2>1. q = 2 * (q \div 2) \/ q = 2 * (q \div 2) + 1  OBVIOUS
    <2> QED  BY <2>1
  <1>8. PICK h \in Int : q = 2 * h \/ q = 2 * h + 1  BY <1>7
  <1> HIDE DEF a, b
  <1>9. CASE q = 2 * h
    <2>1. a - y = 2 * K * h  BY <1>5, <1>6, <1>9
    <2> QED  BY <2>1, <1>3 DEF a
  <1>10. CASE q = 2 * h + 1
    <2>0. a - y = K * (2 * h + 1) BY <1>6, <1>10
    <2>1. b - y = K * (2 * h + 1) + K + 2 * K * c  BY <1>5, <1>6, <2>0
    <2>2. K * (2 * h + 1) + K + 2 * K * c = 2 * K * (h + 1 + c)  OBVIOUS
    <2>3. h + 1 + c \in Int /\ b - y = 2 * K * (h + 1 + c)  BY <2>1, <2>2
    <2> QED  BY <2>3, <1>3 DEF b
  <1> QED  BY <1>8, <1>9, <1>10

\* A path over as many steps as there are bins meets every bin.
LEMMA CoversAll ==
    ASSUME NEW m \in 0..(MAX_POWER2 + 1), NEW x, Cycle(Pow2[m], x)
    PROVE  Covers(x, Pow2[m])
  <1> DEFINE n == Pow2[m]
             T == {s \in 0..m : Covers(x, Pow2[s])}
  <1>0. n \in Nat /\ n >= 1 BY Pow2Positive
  <1>1. 0 \in T
    <2>1. Pow2[0] = 1  BY Pow2Equation
    <2>2. x[0] \in Int  BY <1>0 DEF Cycle
    <2>3. Covers(x, 1)
      <3> SUFFICES ASSUME NEW y \in Int  PROVE \E j \in 0..(1 - 1) : \E q \in Int : x[j] - y = 1 * q
        BY DEF Covers
      <3>1. x[0] - y = 1 * (x[0] - y) /\ x[0] - y \in Int  BY <2>2
      <3>2. 0 \in 0..(1 - 1) OBVIOUS
      <3> QED  BY <3>1, <3>2
    <2> QED  BY <2>1, <2>3
  <1>2. ASSUME NEW s \in 0..(m - 1), s \in T  PROVE s + 1 \in T
    <2>0. /\ s \in 0..MAX_POWER2 /\ s + 1 \in 0..(MAX_POWER2 + 1) /\ s + 1 <= m
          /\ s + 1 \in 0..m /\ s \in 0..(MAX_POWER2 + 1)
      BY StAssumption
    <2>1. PICK M \in Nat : M >= 1 /\ n = Pow2[s + 1] * M  BY <2>0, Pow2Divides
    <2>2. Pow2[s + 1] = 2 * Pow2[s]  BY <2>0, Pow2Equation
    <2> DEFINE K == Pow2[s]
    <2>3. K \in Nat /\ K >= 1  BY <2>0, Pow2Positive
    <2>4. n = (2 * K) * M  BY <2>1, <2>2, <2>3
    <2>5. Differ(n, x, K) /\ Cycle(n, x) /\ Covers(x, K)  BY <1>2, DifferAll
    <2> HIDE DEF n, K
    <2>6. 2 * K <= n  BY <2>1, <2>3, <2>4
    <2>7. Covers(x, 2 * K)  BY <1>0, <2>3, <2>5, <2>6, CoversStep
    <2> QED  BY <2>7, <2>2, <2>0 DEF K
  <1>3. m \in T
    <2>1. m \in Nat  BY StAssumption
    <2> HIDE DEF T
    <2> QED  BY <2>1, <1>1, <1>2, FiniteInduction
  <1> QED  BY <1>3

\* The equation of the function in Probes has a solution.
LEMMA WalkExists ==
    ASSUME NEW k \in Key, NEW n \in Nat, NEW N \in Nat
    PROVE  \E p : p = [j \in 0..N |->
                        IF j = 0 THEN [ind |-> Hash[k] % n, perterb |-> Hash[k]]
                        ELSE [ind |-> secondary_hash(p[j - 1].ind, shift_perterb(p[j - 1].perterb), n),
                              perterb |-> shift_perterb(p[j - 1].perterb)]]
  <1> DEFINE first == [ind |-> Hash[k] % n, perterb |-> Hash[k]]
             Step(e) == [ind |-> secondary_hash(e.ind, shift_perterb(e.perterb), n),
                         perterb |-> shift_perterb(e.perterb)]
             Body(m, p) == [j \in 0..m |-> IF j = 0 THEN first ELSE Step(p[j - 1])]
             T == {m \in 0..N : \E p : p = Body(m, p)}
  <1> HIDE DEF first, Step
  <1>1. 0 \in T
    <2> DEFINE p == [j \in 0..0 |-> first]
    <2>1. p = Body(0, p)  OBVIOUS
    <2> HIDE DEF p, Body
    <2> QED  BY <2>1
  <1>2. ASSUME NEW m \in 0..(N - 1), m \in T  PROVE m + 1 \in T
    <2>1. PICK p : p = Body(m, p)  BY <1>2
    <2> DEFINE g == [j \in 0..(m + 1) |-> IF j <= m THEN p[j] ELSE Step(p[m])]
    <2>2. g = Body(m + 1, g)
      <3>1. \A j \in 0..m : p[j] = IF j = 0 THEN first ELSE Step(p[j - 1])
        BY <2>1
      <3>2. \A j \in 0..(m + 1) : g[j] = IF j = 0 THEN first ELSE Step(g[j - 1])
        BY <3>1
      <3> QED  BY <3>2
    <2> HIDE DEF g, Body
    <2> QED  BY <2>2
  <1>3. N \in T
    <2> HIDE DEF T
    <2> QED  BY <1>1, <1>2, FiniteInduction
  <1> QED  BY <1>3 DEF first, Step

\* The bins and the values of perterb on the path of a search for k in n bins.
IsWalk(k, n, p) ==
    /\ p[0].ind = Hash[k] % n /\ p[0].perterb = Hash[k]
    /\ \A j \in 0..(n + 5) :
        /\ p[j + 1].ind = secondary_hash(p[j].ind, shift_perterb(p[j].perterb), n)
        /\ p[j + 1].perterb = shift_perterb(p[j].perterb)

\* Probes is such a path.
LEMMA ProbesWalk ==
    ASSUME NEW k \in Key, NEW n \in Nat
    PROVE  \E p : IsWalk(k, n, p) /\ Probes(k, n) = [j \in 0..(n + 6) |-> p[j].ind]
  <1> DEFINE N == n + 6
             Body(p) == [j \in 0..N |->
                        IF j = 0 THEN [ind |-> Hash[k] % n, perterb |-> Hash[k]]
                        ELSE [ind |-> secondary_hash(p[j - 1].ind, shift_perterb(p[j - 1].perterb), n),
                              perterb |-> shift_perterb(p[j - 1].perterb)]]
             walk == CHOOSE p : p = Body(p)
  <1>1. Probes(k, n) = [j \in DOMAIN walk |-> walk[j].ind]  BY DEF Probes
  <1>2. \E p : p = Body(p)
    <2>1. N \in Nat  OBVIOUS
    <2> HIDE DEF N
    <2> QED  BY <2>1, WalkExists
  <1>3. walk = Body(walk)
    <2> HIDE DEF Body
    <2> QED  BY <1>2
  <1> HIDE DEF walk
  <1>4. walk = [j \in 0..N |->
                        IF j = 0 THEN [ind |-> Hash[k] % n, perterb |-> Hash[k]]
                        ELSE [ind |-> secondary_hash(walk[j - 1].ind, shift_perterb(walk[j - 1].perterb), n),
                              perterb |-> shift_perterb(walk[j - 1].perterb)]]
    BY <1>3
  <1>5. DOMAIN walk = 0..(n + 6)
    BY <1>4
  <1>6. \A j \in 0..(n + 6) : walk[j] =
                        IF j = 0 THEN [ind |-> Hash[k] % n, perterb |-> Hash[k]]
                        ELSE [ind |-> secondary_hash(walk[j - 1].ind, shift_perterb(walk[j - 1].perterb), n),
                              perterb |-> shift_perterb(walk[j - 1].perterb)]
    BY <1>4
  <1>7. IsWalk(k, n, walk)
    <2>1. walk[0].ind = Hash[k] % n /\ walk[0].perterb = Hash[k]
      <3>1. 0 \in 0..(n + 6)  OBVIOUS
      <3>2. walk[0] = [ind |-> Hash[k] % n, perterb |-> Hash[k]]  BY <3>1, <1>6, Zenon
      <3> DEFINE r == walk[0]  a == Hash[k] % n
      <3>3. r = [ind |-> a, perterb |-> Hash[k]]  BY <3>2
      <3> HIDE DEF r, a
      <3>4. r.ind = a /\ r.perterb = Hash[k]  BY <3>3
      <3> QED  BY <3>4 DEF r, a
    <2>2. ASSUME NEW j \in 0..(n + 5)
          PROVE  /\ walk[j + 1].ind = secondary_hash(walk[j].ind, shift_perterb(walk[j].perterb), n)
                 /\ walk[j + 1].perterb = shift_perterb(walk[j].perterb)
      <3>1. j + 1 \in 0..(n + 6) /\ j + 1 # 0 /\ (j + 1) - 1 = j  OBVIOUS
      <3>2. walk[j + 1] = [ind |-> secondary_hash(walk[j].ind, shift_perterb(walk[j].perterb), n),
                           perterb |-> shift_perterb(walk[j].perterb)]
        BY <3>1, <1>6
      <3> DEFINE r == walk[j + 1]
                 a == secondary_hash(walk[j].ind, shift_perterb(walk[j].perterb), n)
                 c == shift_perterb(walk[j].perterb)
      <3>3. r = [ind |-> a, perterb |-> c]  BY <3>2
      <3> HIDE DEF r, a, c
      <3>4. r.ind = a /\ r.perterb = c  BY <3>3
      <3> QED  BY <3>4 DEF r, a, c
    <2> QED  BY <2>1, <2>2 DEF IsWalk
  <1> QED  BY <1>1, <1>5, <1>7

\* The path stays among the bins.
LEMMA WalkType ==
    ASSUME NEW k \in Key, NEW n \in Nat, n >= 1, NEW p, IsWalk(k, n, p)
    PROVE  \A j \in 0..(n + 6) : p[j].ind \in 0..(n - 1) /\ p[j].perterb \in Nat
  <1> DEFINE T == {j \in 0..(n + 6) : p[j].ind \in 0..(n - 1) /\ p[j].perterb \in Nat}
  <1>1. 0 \in T
    <2>1. Hash[k] \in Nat  BY StAssumption
    <2> DEFINE h == Hash[k]
    <2>2. h % n \in 0..(n - 1)
      <3>1. h \in Int  BY <2>1
      <3> HIDE DEF h
      <3> QED  BY <3>1, ModProperties
    <2> QED  BY <2>1, <2>2 DEF IsWalk
  <1>2. ASSUME NEW j \in 0..((n + 6) - 1), j \in T  PROVE j + 1 \in T
    <2>1. p[j].ind \in Nat /\ p[j].perterb \in Nat  BY <1>2
    <2>2. shift_perterb(p[j].perterb) \in Nat
      <3> DEFINE q == p[j].perterb
      <3>1. q \in Nat BY <2>1
      <3> HIDE DEF q
      <3>2. q \div (2 ^ 11) \in Nat BY <3>1
      <3> QED BY <3>2 DEF shift_perterb, q
    <2> DEFINE x == 5 * p[j].ind + shift_perterb(p[j].perterb) + 1
    <2>3. x \in Int  BY <2>1, <2>2
    <2>4. x % n \in 0..(n - 1)
      <3> HIDE DEF x
      <3> QED  BY <2>3, ModProperties
    <2>5. j \in 0..(n + 5) /\ j + 1 \in 0..(n + 6) OBVIOUS
    <2>6. p[j + 1].ind = x % n /\ p[j + 1].perterb = shift_perterb(p[j].perterb)
      BY <2>5 DEF IsWalk, secondary_hash
    <2> QED  BY <2>2, <2>4, <2>5, <2>6
  <1>3. n + 6 \in Nat OBVIOUS
  <1> HIDE DEF T
  <1>4. \A j \in 0..(n + 6) : j \in T  BY <1>1, <1>2, <1>3, FiniteInduction
  <1> QED  BY <1>4 DEF T

\* perterb is 0 from the sixth step on.
LEMMA PerterbEnds ==
    ASSUME NEW k \in Key, NEW n \in Nat, n >= 1, NEW p, IsWalk(k, n, p)
    PROVE  \A j \in 0..n : p[j + 6].perterb = 0
  <1> DEFINE T == {j \in 0..n : p[j + 6].perterb = 0}
  <1>0. \A j \in 0..(n + 5) : p[j + 1].perterb = shift_perterb(p[j].perterb)
    BY DEF IsWalk
  <1>1. 0 \in T
    <2>1. p[0].perterb = Hash[k]  BY DEF IsWalk
    <2>2. p[0 + 1].perterb = shift_perterb(p[0].perterb) /\ 0 + 1 = 1  BY <1>0
    <2>3. p[1 + 1].perterb = shift_perterb(p[1].perterb) /\ 1 + 1 = 2  BY <1>0
    <2>4. p[2 + 1].perterb = shift_perterb(p[2].perterb) /\ 2 + 1 = 3  BY <1>0
    <2>5. p[3 + 1].perterb = shift_perterb(p[3].perterb) /\ 3 + 1 = 4  BY <1>0
    <2>6. p[4 + 1].perterb = shift_perterb(p[4].perterb) /\ 4 + 1 = 5  BY <1>0
    <2>7. p[5 + 1].perterb = shift_perterb(p[5].perterb) /\ 5 + 1 = 6 /\ 0 + 6 = 6  BY <1>0
    <2>8. p[0 + 6].perterb = 0
      BY <2>1, <2>2, <2>3, <2>4, <2>5, <2>6, <2>7, HashAssumption
    <2> QED  BY <2>8
  <1>2. ASSUME NEW j \in 0..(n - 1), j \in T  PROVE j + 1 \in T
    <2>1. j + 6 \in 0..(n + 5) /\ (j + 6) + 1 = (j + 1) + 6 /\ j + 1 \in 0..n  OBVIOUS
    <2>2. shift_perterb(0) = 0  BY DEF shift_perterb
    <2> QED  BY <1>0, <1>2, <2>1, <2>2
  <1> HIDE DEF T
  <1>3. \A j \in 0..n : j \in T  BY <1>1, <1>2, FiniteInduction
  <1> QED  BY <1>3 DEF T

\* A search meets every bin: six steps until perterb is 0, and then one full cycle.
LEMMA ProbesCover ==
    ASSUME NEW k \in Key, NEW m \in 0..(MAX_POWER2 + 1), NEW n, n = Pow2[m]
    PROVE  /\ n \in Nat /\ n >= 1
           /\ Probes(k, n) \in [0..(n + 6) -> 0..(n - 1)]
           /\ \A b \in 0..(n - 1) : \E j \in 0..(n + 6) : Probes(k, n)[j] = b
  <1>0. n \in Nat /\ n >= 1  BY Pow2Positive
  <1>1. PICK p : IsWalk(k, n, p) /\ Probes(k, n) = [j \in 0..(n + 6) |-> p[j].ind]
    BY <1>0, ProbesWalk
  <1>2. \A j \in 0..(n + 6) : p[j].ind \in 0..(n - 1) /\ p[j].perterb \in Nat
    BY <1>0, <1>1, WalkType
  <1> DEFINE x == [j \in 0..n |-> p[j + 6].ind]
  <1>3. x \in [0..n -> Int]
    <2>1. \A j \in 0..n : j + 6 \in 0..(n + 6)  BY <1>0
    <2> QED  BY <1>0, <1>2, <2>1
  <1>4. ASSUME NEW j \in 0..(n - 1)  PROVE \E q \in Int : x[j + 1] = 5 * x[j] + 1 + n * q
    <2>1. j + 6 \in 0..(n + 5) /\ (j + 6) + 1 = (j + 1) + 6 /\ j \in 0..n /\ j + 1 \in 0..n  BY <1>0
    <2>2. x[j] = p[j + 6].ind /\ x[j + 1] = p[(j + 1) + 6].ind  BY <2>1
    <2>3. p[j + 6].perterb = 0  BY <1>0, <1>1, <2>1, PerterbEnds
    <2>4. shift_perterb(0) = 0  BY DEF shift_perterb
    <2>5. p[(j + 6) + 1].ind = (5 * p[j + 6].ind + 0 + 1) % n
      BY <1>1, <2>1, <2>3, <2>4 DEF IsWalk, secondary_hash
    <2> DEFINE a == x[j]
    <2>6. a \in Int  BY <1>3, <2>1
    <2>7. x[j + 1] = (5 * a + 0 + 1) % n  BY <2>1, <2>2, <2>5
    <2> HIDE DEF a, x
    <2> DEFINE c == 5 * a + 0 + 1
    <2>10. c \in Int  BY <2>6
    <2>8. PICK q \in Int : c % n = c + n * q
      <3> HIDE DEF c
      <3> QED  BY <1>0, <2>10, ModProperties
    <2>9. x[j + 1] = 5 * a + 1 + n * q  BY <2>6, <2>7, <2>8
    <2> QED  BY <2>9 DEF a
  <1>5. Cycle(n, x)
    <2> HIDE DEF x
    <2> QED  BY <1>3, <1>4 DEF Cycle
  <1>6. Covers(x, n)
    <2> HIDE DEF x
    <2> QED  BY <1>5, CoversAll
  <1>7. ASSUME NEW b \in 0..(n - 1)  PROVE \E j \in 0..(n + 6) : Probes(k, n)[j] = b
    <2>1. b \in Int  OBVIOUS
    <2>2. PICK j \in 0..(n - 1) : \E q \in Int : x[j] - b = n * q
      <3> HIDE DEF x
      <3> QED  BY <1>6, <2>1 DEF Covers
    <2>3. PICK q \in Int : x[j] - b = n * q  BY <2>2
    <2>4. j \in 0..n /\ j + 6 \in 0..(n + 6)  BY <1>0
    <2>5. x[j] = p[j + 6].ind /\ x[j] \in 0..(n - 1)  BY <1>2, <2>4
    <2> DEFINE a == x[j]
    <2>6. a = b
      <3>1. a \in 0..(n - 1) /\ a - b = n * q  BY <2>3, <2>5
      <3> HIDE DEF a, x
      <3> QED  BY <1>0, <3>1
    <2> QED  BY <1>1, <2>4, <2>5, <2>6
  <1> QED  BY <1>0, <1>1, <1>2, <1>7

\* "it guarantees traversing all table bins in extreme case" (secondary_hash, which refers to
\* the theorem of Hull and Dobell): the path of every key meets each bin, in a table of any size.
THEOREM PathCovers ==
    ASSUME NEW power \in MINIMAL_POWER2..MAX_POWER2, NEW k \in Key
    PROVE  /\ DOMAIN Paths[k][power] = 0..(Pow2[power + 1] + 6)
           /\ \A j \in DOMAIN Paths[k][power] : Paths[k][power][j] \in BinsOf(power)
           /\ \A b \in BinsOf(power) : \E j \in DOMAIN Paths[k][power] : Paths[k][power][j] = b
  <1> DEFINE m == power + 1
             n == Pow2[m]
  <1>1. m \in 0..(MAX_POWER2 + 1)
    BY StAssumption
  <1>2. Paths[k][power] = Probes(k, n)  BY DEF Paths
  <1> HIDE DEF m
  <1>3. /\ Probes(k, n) \in [0..(n + 6) -> 0..(n - 1)]
        /\ \A b \in 0..(n - 1) : \E j \in 0..(n + 6) : Probes(k, n)[j] = b
    BY <1>1, ProbesCover
  <1> QED  BY <1>2, <1>3 DEF m, BinsOf
-----------------------------------------------------------------------------
(* The bins. *)

\* There are twice as many bins as entries.
LEMMA Sizes ==
    ASSUME NEW power \in MINIMAL_POWER2..MAX_POWER2
    PROVE  /\ Pow2[power] \in Nat /\ Pow2[power] >= 1
           /\ Pow2[power + 1] = 2 * Pow2[power]
           /\ IsFiniteSet(BinsOf(power)) /\ Cardinality(BinsOf(power)) = 2 * Pow2[power]
  <1>1. power \in 0..MAX_POWER2 /\ power \in 0..(MAX_POWER2 + 1) /\ power + 1 \in 0..(MAX_POWER2 + 1)
    BY StAssumption
  <1>2. Pow2[power] \in Nat /\ Pow2[power] >= 1 /\ Pow2[power + 1] = 2 * Pow2[power]
    BY <1>1, Pow2Positive, Pow2Equation
  <1> DEFINE n == Pow2[power + 1] - 1
  <1>3. n \in Nat /\ n + 1 = 2 * Pow2[power]  BY <1>2
  <1>4. BinsOf(power) = 0..n  BY DEF BinsOf
  <1> HIDE DEF n
  <1>5. IsFiniteSet(0..n) /\ Cardinality(0..n) = n + 1
    BY <1>3, FS_Interval
  <1> QED  BY <1>2, <1>3, <1>4, <1>5

\* The bins hold as many entries as there are.
LEMMA CountedByBins ==
    ASSUME NEW power \in MINIMAL_POWER2..MAX_POWER2, NEW bins \in [BinsOf(power) -> Nat], NEW es,
           NEW L, L \subseteq Nat \ {0}, IsFiniteSet(L), \A i \in L : es[i].key \in Key,
           Index(power, bins, es, L)
    PROVE  Cardinality({b \in BinsOf(power) : bins[b] >= ENTRY_BASE}) = Cardinality(L)
  <1> DEFINE B == {b \in BinsOf(power) : bins[b] >= ENTRY_BASE}
             f == [b \in B |-> bins[b] - 1]
  <1>1. \A b \in B : b \in BinsOf(power) /\ bins[b] \in Nat /\ bins[b] - 1 \in L
    BY DEF Index
  <1>2. f \in [B -> L]  BY <1>1
  <1>3. \A b, c \in B : f[b] = f[c] => b = c
    <2> SUFFICES ASSUME NEW b \in B, NEW c \in B, f[b] = f[c]  PROVE b = c
      OBVIOUS
    <2>1. bins[b] - 1 = bins[c] - 1  OBVIOUS
    <2>2. bins[b] = bins[c] BY <1>1, <2>1
    <2> QED  BY <2>2 DEF Index
  <1>4. \A i \in L : \E b \in B : f[b] = i
    <2> SUFFICES ASSUME NEW i \in L  PROVE \E b \in B : f[b] = i
      OBVIOUS
    <2> DEFINE p == Paths[es[i].key][power]
    <2>1. LeadsTo(p, bins, i)  BY DEF Index
    <2>2. PICK j \in DOMAIN p : bins[p[j]] = i + 1  BY <2>1 DEF LeadsTo
    <2>3. p[j] \in BinsOf(power)  BY PathCovers
    <2> DEFINE b == p[j]
    <2>4. b \in BinsOf(power) /\ bins[b] = i + 1 BY <2>2, <2>3
    <2> HIDE DEF b
    <2>5. b \in B /\ bins[b] - 1 = i  BY <2>4 DEF ENTRY_BASE
    <2>6. f[b] = i BY <2>5
    <2> QED  BY <2>5, <2>6
  <1>5. IsFiniteSet(B)
    BY Sizes, FS_Subset
  <1> HIDE DEF B, f
  <1>6. ExistsBijection(B, L)
    <2>1. f \in Injection(B, L)  BY <1>2, <1>3 DEF Injection, IsInjective
    <2>2. f \in Surjection(B, L)  BY <1>2, <1>4 DEF Surjection
    <2> QED  BY <2>1, <2>2 DEF ExistsBijection, Bijection
  <1>7. Cardinality(L) = Cardinality(B)  BY <1>5, <1>6, FS_Bijection
  <1> QED  BY <1>7 DEF B

\* An insertion finds a bin that is empty or deleted.
LEMMA PlaceExists ==
    ASSUME NEW power \in MINIMAL_POWER2..MAX_POWER2, NEW bins \in [BinsOf(power) -> Nat], NEW es,
           NEW L, L \subseteq Nat \ {0}, IsFiniteSet(L), \A i \in L : es[i].key \in Key,
           Index(power, bins, es, L), Cardinality(L) <= Pow2[power]
    PROVE  \E b \in BinsOf(power) : bins[b] \in {EMPTY_BIN, DELETED_BIN}
  <1> SUFFICES ASSUME \A b \in BinsOf(power) : bins[b] \notin {EMPTY_BIN, DELETED_BIN}
               PROVE  FALSE
    OBVIOUS
  <1>1. BinsOf(power) = {b \in BinsOf(power) : bins[b] >= ENTRY_BASE}
    BY DEF EMPTY_BIN, DELETED_BIN, ENTRY_BASE
  <1>2. Cardinality(BinsOf(power)) = Cardinality(L)
    BY <1>1, CountedByBins
  <1>3. Cardinality(BinsOf(power)) = 2 * Pow2[power] /\ Pow2[power] \in Nat /\ Pow2[power] >= 1
    BY Sizes
  <1> QED  BY <1>2, <1>3

\* There is an empty bin as long as not more bins are taken than there can be entries.
LEMMA EmptyExists ==
    ASSUME NEW power \in MINIMAL_POWER2..MAX_POWER2, NEW bins \in [BinsOf(power) -> Nat],
           NEW n \in Nat, n <= Pow2[power], Cardinality(Taken(power, bins)) <= n
    PROVE  \E b \in BinsOf(power) : bins[b] = EMPTY_BIN
  <1> SUFFICES ASSUME \A b \in BinsOf(power) : bins[b] # EMPTY_BIN
               PROVE  FALSE
    OBVIOUS
  <1>1. BinsOf(power) = Taken(power, bins)
    BY DEF Taken
  <1>3. Cardinality(BinsOf(power)) = 2 * Pow2[power] /\ Pow2[power] \in Nat /\ Pow2[power] >= 1
    BY Sizes
  <1> QED  BY <1>1, <1>3

\* The steps at which a search for k stops.
SearchSteps(power, bins, es, k) ==
    {j \in DOMAIN Paths[k][power] :
        LET b == bins[Paths[k][power][j]]
        IN  b = EMPTY_BIN \/ (b >= ENTRY_BASE /\ es[b - 1].key = k)}

\* The bin b at which it stops is empty if there is no such entry, and has it otherwise.
Outcome(power, bins, es, L, k, b) ==
    /\ b \in BinsOf(power)
    /\ \/ bins[b] = EMPTY_BIN /\ \A i \in L : es[i].key # k
       \/ \E i \in L : bins[b] = i + 1 /\ es[i].key = k

\* A search that ends finds the entry of its key if there is one.
LEMMA SearchFinds ==
    ASSUME NEW power \in MINIMAL_POWER2..MAX_POWER2, NEW bins \in [BinsOf(power) -> Nat], NEW es,
           NEW L, L \subseteq Nat \ {0}, \A i \in L : es[i].key \in Key,
           Index(power, bins, es, L), Distinct(es, L),
           NEW k \in Key, SearchSteps(power, bins, es, k) # {}
    PROVE  Outcome(power, bins, es, L, k, Paths[k][power][Min(SearchSteps(power, bins, es, k))])
  <1> DEFINE p == Paths[k][power]
             S == SearchSteps(power, bins, es, k)
  <1>0. S = {j \in DOMAIN p : bins[p[j]] = EMPTY_BIN \/ (bins[p[j]] >= ENTRY_BASE /\ es[bins[p[j]] - 1].key = k)}
    BY DEF SearchSteps
  <1>1. DOMAIN p \subseteq Nat /\ \A j \in DOMAIN p : p[j] \in BinsOf(power)
    BY PathCovers, Sizes
  <1>2. S \subseteq Nat /\ S # {}  BY <1>0, <1>1
  <1> DEFINE m == Min(S)  b == p[m]
  <1>3. m \in S /\ \A j \in S : m <= j
    <2> HIDE DEF S
    <2> QED  BY <1>2, MinProperties
  <1>4. m \in DOMAIN p /\ b \in BinsOf(power) /\ bins[b] \in Nat  BY <1>0, <1>1, <1>3
  <1> HIDE DEF m, S
  <1>5. CASE bins[b] >= ENTRY_BASE /\ es[bins[b] - 1].key = k
    <2>1. bins[b] - 1 \in L  BY <1>4, <1>5 DEF Index
    <2>2. bins[b] = (bins[b] - 1) + 1  BY <1>4
    <2> QED  BY <1>4, <1>5, <2>1, <2>2 DEF m, S, Outcome
  <1>6. CASE bins[b] = EMPTY_BIN
    <2>1. ASSUME NEW i \in L, es[i].key = k  PROVE FALSE
      <3>1. LeadsTo(p, bins, i)  BY <2>1 DEF Index
      <3>2. PICK j \in DOMAIN p : bins[p[j]] = i + 1 /\ \A h \in 0..(j - 1) : bins[p[h]] # EMPTY_BIN
        BY <3>1 DEF LeadsTo
      <3>3. j \in Nat /\ m \in Nat /\ i \in Nat /\ i # 0  BY <1>1, <1>4
      <3>4. bins[p[j]] >= ENTRY_BASE /\ bins[p[j]] - 1 = i  BY <3>2, <3>3 DEF ENTRY_BASE
      <3>5. j \in S  BY <1>0, <3>4, <2>1
      <3>6. m <= j  BY <1>3, <3>5
      <3>7. m # j  BY <1>6, <3>4, <3>3 DEF EMPTY_BIN, ENTRY_BASE
      <3>8. m \in 0..(j - 1)  BY <3>3, <3>6, <3>7
      <3> QED  BY <3>2, <3>8, <1>6
    <2> QED  BY <1>4, <1>6, <2>1 DEF m, S, Outcome
  <1> QED  BY <1>0, <1>3, <1>5, <1>6

\* b is the first bin on the path of k that is empty or deleted.
Room(power, bins, k, b) ==
    \E m \in DOMAIN Paths[k][power] :
        /\ b \in BinsOf(power) /\ Paths[k][power][m] = b
        /\ bins[b] = 0 \/ bins[b] = 1
        /\ \A h \in 0..(m - 1) : bins[Paths[k][power][h]] # EMPTY_BIN

\* The bins of the entries L, and an i-th entry that is not among them.
Enterable(power, bins, es, L, i) ==
    /\ power \in MINIMAL_POWER2..MAX_POWER2 /\ bins \in [BinsOf(power) -> Nat]
    /\ L \subseteq Nat \ {0} /\ IsFiniteSet(L) /\ Cardinality(L) <= Pow2[power]
    /\ \A l \in L \cup {i} : es[l].key \in Key
    /\ Index(power, bins, es, L)
    /\ i \in Nat /\ i # 0 /\ i \notin L

\* What there is once it is in the bin b.
Entered(power, bins, new, es, L, i, b) ==
    /\ b \in BinsOf(power)
    /\ new \in [BinsOf(power) -> Nat]
    /\ Index(power, new, es, L \cup {i})
    /\ Taken(power, new) = Taken(power, bins) \cup {b}

\* An entry in the first bin on its path that is empty or deleted is found, and so are
\* all others: no empty bin came between them and the start of their paths.
LEMMA EnterAt ==
    ASSUME NEW power, NEW bins, NEW es, NEW L, NEW i, Enterable(power, bins, es, L, i),
           NEW b, Room(power, bins, es[i].key, b)
    PROVE  Entered(power, bins, [bins EXCEPT ![b] = i + 1], es, L, i, b)
  <1> DEFINE k == es[i].key
  <1>01. /\ power \in MINIMAL_POWER2..MAX_POWER2 /\ bins \in [BinsOf(power) -> Nat]
         /\ L \subseteq Nat \ {0} /\ \A l \in L : es[l].key \in Key
         /\ Index(power, bins, es, L)
         /\ i \in Nat /\ i # 0 /\ i \notin L /\ k \in Key
    BY DEF Enterable
  <1> HIDE DEF k
  <1> DEFINE new == [bins EXCEPT ![b] = i + 1]
             p == Paths[k][power]
  <1>0. PICK m \in DOMAIN Paths[k][power] :
        /\ b \in BinsOf(power) /\ Paths[k][power][m] = b
        /\ bins[b] = 0 \/ bins[b] = 1
        /\ \A h \in 0..(m - 1) : bins[Paths[k][power][h]] # EMPTY_BIN
    BY DEF Room, k
  <1>1. /\ DOMAIN p = 0..(Pow2[power + 1] + 6) /\ Pow2[power + 1] \in Nat
        /\ \A j \in DOMAIN p : p[j] \in BinsOf(power)
    BY <1>01, PathCovers, Sizes
  <1>6. new \in [BinsOf(power) -> Nat] /\ new[b] = i + 1 /\ \A c \in BinsOf(power) : c # b => new[c] = bins[c]
    BY <1>0, <1>01
  <1> HIDE DEF new
  <1>7. new[b] # EMPTY_BIN /\ bins[b] < ENTRY_BASE /\ i + 1 >= ENTRY_BASE /\ (i + 1) - 1 = i
    BY <1>0, <1>01, <1>6 DEF EMPTY_BIN, ENTRY_BASE
  <1>8. Index(power, new, es, L \cup {i})
    <2>1. ASSUME NEW c \in BinsOf(power), new[c] >= ENTRY_BASE  PROVE new[c] - 1 \in L \cup {i}
      <3>1. CASE c = b  BY <3>1, <1>6, <1>7
      <3>2. CASE c # b
        <4>1. bins[c] >= ENTRY_BASE /\ new[c] = bins[c]  BY <1>01, <3>2, <2>1, <1>6
        <4>2. bins[c] - 1 \in L  BY <1>01, <4>1 DEF Index
        <4> QED  BY <1>01, <4>1, <4>2
      <3> QED  BY <3>1, <3>2
    <2>2. ASSUME NEW c \in BinsOf(power), NEW d \in BinsOf(power), new[c] >= ENTRY_BASE, new[c] = new[d]
          PROVE  c = d
      <3>1. ASSUME NEW x \in BinsOf(power), bins[x] = i + 1  PROVE FALSE
        <4>1. bins[x] >= ENTRY_BASE /\ bins[x] - 1 = i  BY <1>01, <3>1, <1>7
        <4>2. bins[x] - 1 \in L  BY <1>01, <4>1 DEF Index
        <4> QED  BY <1>01, <4>1, <4>2
      <3>2. CASE c # b /\ d # b
        <4>1. bins[c] >= ENTRY_BASE /\ bins[c] = bins[d]  BY <1>01, <3>2, <2>2, <1>6
        <4> QED  BY <1>01, <4>1 DEF Index
      <3>3. CASE c = b /\ d # b  BY <3>1, <3>3, <2>2, <1>6
      <3>4. CASE c # b /\ d = b  BY <3>1, <3>4, <2>2, <1>6
      <3> QED  BY <3>2, <3>3, <3>4
    <2>3. ASSUME NEW l \in L  PROVE LeadsTo(Paths[es[l].key][power], new, l)
      <3> DEFINE key == es[l].key
                 q == Paths[key][power]
      <3>1. LeadsTo(q, bins, l)  BY <1>01 DEF Index
      <3>0. key \in Key  BY <1>01
      <3> HIDE DEF key
      <3>2. DOMAIN q = 0..(Pow2[power + 1] + 6) /\ \A j \in DOMAIN q : q[j] \in BinsOf(power)
        BY <1>01, <3>0, PathCovers
      <3> HIDE DEF q
      <3>3. PICK j \in DOMAIN q : bins[q[j]] = l + 1 /\ \A h \in 0..(j - 1) : bins[q[h]] # EMPTY_BIN
        BY <3>1 DEF LeadsTo
      <3>4. q[j] # b
        <4>1. l \in Nat /\ l # 0  BY <1>01
        <4>2. l + 1 >= ENTRY_BASE  BY <4>1 DEF ENTRY_BASE
        <4>3. bins[b] # l + 1 BY <4>1, <1>0
        <4> QED  BY <4>3, <3>3
      <3>5. new[q[j]] = l + 1  BY <1>6, <3>2, <3>3, <3>4
      <3>6. ASSUME NEW h \in 0..(j - 1)  PROVE new[q[h]] # EMPTY_BIN
        <4>1. h \in DOMAIN q  BY <3>2, <1>1
        <4>2. q[h] \in BinsOf(power)  BY <4>1, <3>2
        <4>3. bins[q[h]] # EMPTY_BIN  BY <3>3
        <4> QED  BY <1>6, <1>7, <4>2, <4>3
      <3>7. LeadsTo(q, new, l)  BY <3>5, <3>6 DEF LeadsTo
      <3> QED  BY <3>7 DEF q, key
    <2>4. LeadsTo(p, new, i)
      <3>1. new[p[m]] = i + 1 /\ m \in DOMAIN p  BY <1>0, <1>6
      <3>2. ASSUME NEW h \in 0..(m - 1)  PROVE new[p[h]] # EMPTY_BIN
        <4>1. h \in DOMAIN p  BY <1>1, <3>1
        <4>2. p[h] \in BinsOf(power)  BY <1>1, <4>1
        <4>4. bins[p[h]] # EMPTY_BIN  BY <1>0
        <4> QED  BY <1>6, <1>7, <4>2, <4>4
      <3> HIDE DEF p
      <3> QED  BY <3>1, <3>2 DEF LeadsTo
    <2> QED  BY <2>1, <2>2, <2>3, <2>4 DEF Index, k
  <1>9. Taken(power, new) = Taken(power, bins) \cup {b}
    BY <1>0, <1>01, <1>6, <1>7 DEF Taken
  <1> QED  BY <1>0, <1>6, <1>8, <1>9 DEF new, Entered

\* find_table_bin_ind_direct gives such a bin.
LEMMA EnterIndex ==
    ASSUME NEW power, NEW bins, NEW es, NEW L, NEW i, Enterable(power, bins, es, L, i),
           NEW S, S = {j \in DOMAIN Paths[es[i].key][power] :
                        bins[Paths[es[i].key][power][j]] \in {EMPTY_BIN, DELETED_BIN}},
           NEW b, b = Paths[es[i].key][power][Min(S)]
    PROVE  Entered(power, bins, [bins EXCEPT ![b] = i + 1], es, L, i, b)
  <1> DEFINE k == es[i].key
             p == Paths[k][power]
             m == Min(S)
  <1>0. /\ power \in MINIMAL_POWER2..MAX_POWER2 /\ k \in Key
    BY DEF Enterable
  <1>1. /\ DOMAIN p = 0..(Pow2[power + 1] + 6) /\ Pow2[power + 1] \in Nat
        /\ \A j \in DOMAIN p : p[j] \in BinsOf(power)
        /\ \A c \in BinsOf(power) : \E j \in DOMAIN p : p[j] = c
    <2> HIDE DEF k
    <2> QED  BY <1>0, PathCovers, Sizes
  <1>2. S # {}
    <2>1. PICK c \in BinsOf(power) : bins[c] \in {EMPTY_BIN, DELETED_BIN}
      BY PlaceExists DEF Enterable
    <2>2. PICK j \in DOMAIN p : p[j] = c  BY <1>1
    <2> QED  BY <2>1, <2>2
  <1>3. m \in S /\ \A j \in S : m <= j
    <2>1. S \subseteq Nat  BY <1>1
    <2> HIDE DEF m
    <2> QED  BY <1>2, <2>1, MinProperties DEF m
  <1>4. b = p[m]  OBVIOUS
  <1>10. S = {j \in DOMAIN p : bins[p[j]] \in {EMPTY_BIN, DELETED_BIN}}  OBVIOUS
  <1> HIDE DEF m, p
  <1>5. m \in DOMAIN p /\ m \in Nat /\ b \in BinsOf(power) /\ bins[b] \in {EMPTY_BIN, DELETED_BIN}
    BY <1>1, <1>3, <1>4, <1>10
  <1>6. ASSUME NEW h \in 0..(m - 1)  PROVE bins[p[h]] # EMPTY_BIN
    <2> DEFINE N == Pow2[power + 1] + 6
    <2>4. DOMAIN p = 0..N  BY <1>1
    <2>5. N \in Nat  BY <1>1
    <2>0. DOMAIN p = 0..N /\ N \in Nat /\ m \in 0..N  BY <2>4, <2>5, <1>5, Zenon
    <2> HIDE DEF N
    <2>3. h \in 0..N /\ ~(m <= h)  BY <2>0
    <2>1. h \in DOMAIN p /\ ~(m <= h)  BY <2>0, <2>3
    <2>2. h \notin S  BY <1>3, <2>1
    <2> QED  BY <2>1, <2>2, <1>10
  <1>7. bins[b] = 0 \/ bins[b] = 1  BY <1>5 DEF EMPTY_BIN, DELETED_BIN
  <1>8. Room(power, bins, k, b)
    BY <1>4, <1>5, <1>6, <1>7 DEF p, Room
  <1> QED  BY <1>8, EnterAt

\* The bin b of the i-th entry, and entries fs with the same keys but for that one.
Removable(power, bins, es, L, i, b, fs) ==
    /\ power \in MINIMAL_POWER2..MAX_POWER2 /\ bins \in [BinsOf(power) -> Nat]
    /\ L \subseteq Nat \ {0} /\ \A l \in L : es[l].key \in Key
    /\ Index(power, bins, es, L)
    /\ i \in L /\ b \in BinsOf(power) /\ bins[b] = i + 1
    /\ \A l \in L \ {i} : fs[l].key = es[l].key

\* What there is once that bin is marked deleted.
RemovedFrom(power, bins, new, fs, L, i) ==
    /\ new \in [BinsOf(power) -> Nat]
    /\ Index(power, new, fs, L \ {i})
    /\ Taken(power, new) = Taken(power, bins)

\* Marking the bin of an entry deleted leads to all the others as before.  Were it made
\* empty, the search for an entry behind it would stop there.
LEMMA RemoveIndex ==
    ASSUME NEW power, NEW bins, NEW es, NEW L, NEW i, NEW b, NEW fs,
           Removable(power, bins, es, L, i, b, fs),
           NEW new, new = [bins EXCEPT ![b] = DELETED_BIN]
    PROVE  RemovedFrom(power, bins, new, fs, L, i)
  <1>0. /\ power \in MINIMAL_POWER2..MAX_POWER2 /\ bins \in [BinsOf(power) -> Nat]
        /\ L \subseteq Nat \ {0} /\ \A l \in L : es[l].key \in Key
        /\ Index(power, bins, es, L)
        /\ i \in L /\ b \in BinsOf(power) /\ bins[b] = i + 1
        /\ \A l \in L \ {i} : fs[l].key = es[l].key
    BY DEF Removable
  <1> USE <1>0
  <1>1. i \in Nat /\ i # 0  OBVIOUS
  <1>2. /\ new \in [BinsOf(power) -> Nat] /\ new[b] = DELETED_BIN
        /\ \A c \in BinsOf(power) : c # b => new[c] = bins[c]
    BY DEF DELETED_BIN
  <1>3. new[b] # EMPTY_BIN /\ new[b] < ENTRY_BASE /\ bins[b] >= ENTRY_BASE /\ bins[b] # EMPTY_BIN
    BY <1>1, <1>2 DEF EMPTY_BIN, DELETED_BIN, ENTRY_BASE
  <1>4. ASSUME NEW c \in BinsOf(power), new[c] >= ENTRY_BASE  PROVE c # b /\ new[c] = bins[c] /\ new[c] - 1 \in L \ {i}
    <2>1. c # b /\ new[c] = bins[c]
      <3>1. c # b
        <4>1. ASSUME c = b PROVE FALSE
          <5>1. new[b] >= ENTRY_BASE  BY <1>4, <4>1
          <5> QED BY <5>1, <1>2 DEF DELETED_BIN, ENTRY_BASE
        <4> QED BY <4>1
      <3> QED BY <3>1, <1>2
    <2>2. bins[c] - 1 \in L  BY <1>4, <2>1 DEF Index
    <2>3. bins[c] # bins[b]  BY <1>3, <2>1, <1>4 DEF Index
    <2>4. bins[c] - 1 # i  BY <2>3, <2>1, <1>1
    <2> QED  BY <2>1, <2>2, <2>4
  <1>5. ASSUME NEW l \in L \ {i}  PROVE LeadsTo(Paths[fs[l].key][power], new, l)
    <2> DEFINE q == Paths[es[l].key][power]
    <2>1. LeadsTo(q, bins, l)  BY DEF Index
    <2>2. DOMAIN q = 0..(Pow2[power + 1] + 6) /\ \A j \in DOMAIN q : q[j] \in BinsOf(power)
      BY PathCovers
    <2>0. Pow2[power + 1] \in Nat  BY Sizes
    <2> HIDE DEF q
    <2>3. PICK j \in DOMAIN q : bins[q[j]] = l + 1 /\ \A h \in 0..(j - 1) : bins[q[h]] # EMPTY_BIN
      BY <2>1 DEF LeadsTo
    <2>4. q[j] # b
      <3>1. l \in Nat /\ l # i OBVIOUS
      <3> QED BY <1>1, <2>3, <3>1
    <2>5. new[q[j]] = l + 1  BY <1>2, <2>2, <2>3, <2>4
    <2>6. ASSUME NEW h \in 0..(j - 1)  PROVE new[q[h]] # EMPTY_BIN
      <3>1. h \in DOMAIN q  BY <2>2, <2>0
      <3>2. q[h] \in BinsOf(power)  BY <3>1, <2>2
      <3> QED  BY <1>2, <1>3, <2>3, <3>2
    <2>7. LeadsTo(q, new, l)  BY <2>5, <2>6 DEF LeadsTo
    <2> QED  BY <2>7 DEF q
  <1>6. Index(power, new, fs, L \ {i})
    <2>1. ASSUME NEW c \in BinsOf(power), NEW d \in BinsOf(power), new[c] >= ENTRY_BASE, new[c] = new[d]
          PROVE  c = d
      <3>1. new[d] >= ENTRY_BASE  BY <2>1
      <3>2. new[c] = bins[c] /\ new[d] = bins[d]  BY <1>4, <2>1, <3>1
      <3> QED  BY <2>1, <3>2 DEF Index
    <2> QED  BY <1>4, <1>5, <2>1 DEF Index
  <1>7. Taken(power, new) = Taken(power, bins)
    BY <1>2, <1>3 DEF Taken
  <1> QED  BY <1>2, <1>6, <1>7 DEF RemovedFrom

\* The bins depend on the keys only.
LEMMA SameIndex ==
    ASSUME NEW power, NEW bins, NEW es, NEW L, Index(power, bins, es, L),
           NEW fs, \A l \in L : fs[l].key = es[l].key
    PROVE  Index(power, bins, fs, L)
  BY DEF Index
-----------------------------------------------------------------------------
(* Searching. *)

\* What the types of a table give.
LEMMA TableFacts ==
    ASSUME NEW t, IsTable(t)
    PROVE  /\ Len(t.entries) \in Nat /\ DOMAIN t.entries = 1..Len(t.entries)
           /\ \A i \in 1..Len(t.entries) : t.entries[i] \in Entry
           /\ Live(t) \subseteq 1..Len(t.entries) /\ Live(t) \subseteq Nat \ {0}
           /\ IsFiniteSet(Live(t)) /\ Cardinality(Live(t)) \in Nat
           /\ Cardinality(Live(t)) <= Len(t.entries) /\ Cardinality(Live(t)) <= Pow2[t.entry_power]
           /\ \A i \in Live(t) : t.entries[i] \in [key : Key, record : Value] /\ t.entries[i].key \in Key
           /\ Pow2[t.entry_power] \in Nat
  <1>1. Len(t.entries) \in Nat /\ DOMAIN t.entries = 1..Len(t.entries)
    BY LenProperties DEF IsTable
  <1>2. \A i \in 1..Len(t.entries) : t.entries[i] \in Entry
    BY ElementOfSeq DEF IsTable
  <1>3. Live(t) \subseteq 1..Len(t.entries)  BY <1>1 DEF Live
  <1>4. \A i \in Live(t) : t.entries[i] \in [key : Key, record : Value]
    BY <1>2, <1>3 DEF Live, Entry, DeletedEntry
  <1>5. /\ IsFiniteSet(Live(t)) /\ Cardinality(Live(t)) \in Nat
        /\ Cardinality(Live(t)) <= Len(t.entries)
    <2> DEFINE n == Len(t.entries)
    <2>1. n \in Nat /\ Live(t) \in SUBSET (1..n)  BY <1>1, <1>3
    <2> HIDE DEF n
    <2>2. IsFiniteSet(1..n) /\ Cardinality(1..n) = n  BY <2>1, FS_Interval
    <2>3. IsFiniteSet(Live(t)) /\ Cardinality(Live(t)) <= n  BY <2>1, <2>2, FS_Subset
    <2> QED  BY <2>3, FS_CardinalityType DEF n
  <1>6. Pow2[t.entry_power] \in Nat /\ Len(t.entries) <= Pow2[t.entry_power]
    BY Sizes DEF IsTable
  <1>7. Cardinality(Live(t)) <= Pow2[t.entry_power]
    BY <1>1, <1>5, <1>6
  <1>8. Live(t) \subseteq Nat \ {0}  BY <1>3
  <1> QED  BY <1>1, <1>2, <1>3, <1>4, <1>5, <1>6, <1>7, <1>8

\* What a search for k tells: whether there is an entry, which one, and in which bin.
Finds(t, k) ==
    \/ Found(t, k) = {} /\ \A i \in Live(t) : t.entries[i].key # k
    \/ \E i \in Live(t) :
        /\ Found(t, k) = {i} /\ t.entries[i].key = k
        /\ t.bins # NoBins =>
            \E b \in BinsOf(t.entry_power) : find_table_bin_ind(t, k) = {b} /\ t.bins[b] = i + 1

\* A linear search finds the one entry of k.
LEMMA LinearSearch ==
    ASSUME NEW t, IsTable(t), Distinct(t.entries, Live(t)), NEW k
    PROVE  /\ (\A i \in Live(t) : t.entries[i].key # k) => find_entry(t, k) = {}
           /\ \A i \in Live(t) : t.entries[i].key = k => find_entry(t, k) = {i}
  <1> DEFINE same == {i \in Live(t) : t.entries[i].key = k}
  <1>1. find_entry(t, k) = IF same = {} THEN {} ELSE {Min(same)}  BY DEF find_entry
  <1>2. ASSUME NEW i \in Live(t), t.entries[i].key = k  PROVE find_entry(t, k) = {i}
    <2>1. same = {i}  BY <1>2 DEF Distinct
    <2>2. same \subseteq Nat /\ same # {}  BY <2>1, TableFacts
    <2> HIDE DEF same
    <2>3. Min(same) \in same  BY <2>2, MinProperties
    <2> QED  BY <1>1, <2>1, <2>3
  <1>3. ASSUME \A i \in Live(t) : t.entries[i].key # k  PROVE find_entry(t, k) = {}
    BY <1>1, <1>3
  <1> QED  BY <1>2, <1>3

\* A search that ends finds what a linear search does.
LEMMA SearchLemma ==
    ASSUME NEW t, GoodTable(t), NEW k \in Key, SearchEnds(t, k)
    PROVE  Finds(t, k) /\ Found(t, k) = find_entry(t, k)
  <1>0. IsTable(t) /\ Distinct(t.entries, Live(t))  BY DEF GoodTable
  <1>1. CASE t.bins = NoBins
    <2>1. Found(t, k) = find_entry(t, k)  BY <1>1 DEF Found
    <2>2. CASE \A i \in Live(t) : t.entries[i].key # k
      BY <1>0, <2>1, <2>2, LinearSearch DEF Finds
    <2>3. CASE \E i \in Live(t) : t.entries[i].key = k
      <3>1. PICK i \in Live(t) : t.entries[i].key = k  BY <2>3
      <3>2. find_entry(t, k) = {i}  BY <1>0, <3>1, LinearSearch
      <3> QED  BY <1>1, <2>1, <3>1, <3>2 DEF Finds
    <2> QED  BY <2>2, <2>3
  <1>2. CASE t.bins # NoBins
    <2> DEFINE power == t.entry_power
               bins == t.bins
               es == t.entries
               L == Live(t)
               p == Paths[k][power]
               S == SearchSteps(power, bins, es, k)
               b == p[Min(S)]
    <2>1. /\ power \in MINIMAL_POWER2..MAX_POWER2 /\ bins \in [BinsOf(power) -> Nat]
          /\ Index(power, bins, es, L) /\ Distinct(es, L)
      BY <1>2 DEF GoodTable, IsTable
    <2>2. L \subseteq Nat \ {0} /\ \A i \in L : es[i].key \in Key  BY <1>0, TableFacts
    <2>3. \A j \in DOMAIN p : bins[p[j]] \in Nat
      BY <2>1, PathCovers
    <2>4. Stops(t, k) = S
      <3>1. \A x \in Nat : x - ENTRY_BASE + 1 = x - 1  BY DEF ENTRY_BASE
      <3> HIDE DEF bins, es
      <3>2. Stops(t, k) = {j \in DOMAIN p : bins[p[j]] = EMPTY_BIN \/ (bins[p[j]] >= ENTRY_BASE /\ es[bins[p[j]] - ENTRY_BASE + 1].key = k)}
        BY DEF Stops, Path, IsHit, bins, es
      <3> HIDE DEF p
      <3> QED  BY <3>1, <3>2, <2>3 DEF SearchSteps, p
    <2>5. S # {}  BY <1>2, <2>4 DEF SearchEnds
    <2>6. find_table_bin_ind(t, k) = IF bins[b] = EMPTY_BIN THEN {} ELSE {b}
      <3>1. find_table_bin_ind(t, k) = LET ind == p[Min(Stops(t, k))] IN IF t.bins[ind] = EMPTY_BIN THEN {} ELSE {ind}
        BY DEF find_table_bin_ind, Path
      <3> HIDE DEF S
      <3> QED  BY <3>1, <2>4
    <2>7. Outcome(power, bins, es, L, k, b)
      <3> HIDE DEF power, bins, es, L
      <3> QED  BY <2>1, <2>2, <2>5, SearchFinds
    <2> HIDE DEF b
    <2>8. CASE bins[b] = EMPTY_BIN /\ \A i \in L : es[i].key # k
      <3>1. Found(t, k) = {}  BY <1>2, <2>6, <2>8 DEF Found
      <3>2. find_entry(t, k) = {}  BY <1>0, <2>8, LinearSearch
      <3> QED  BY <2>8, <3>1, <3>2 DEF Finds
    <2>9. CASE \E i \in L : bins[b] = i + 1 /\ es[i].key = k
      <3>1. PICK i \in L : bins[b] = i + 1 /\ es[i].key = k  BY <2>9
      <3>2. i \in Nat /\ i + 1 # EMPTY_BIN /\ (i + 1) - ENTRY_BASE + 1 = i
        BY <2>2 DEF EMPTY_BIN, ENTRY_BASE
      <3>3. find_table_bin_ind(t, k) = {b}  BY <2>6, <3>1, <3>2
      <3>4. Found(t, k) = {i}
        <4>1. Found(t, k) = {t.bins[x] - ENTRY_BASE + 1 : x \in {b}}  BY <1>2, <3>3 DEF Found
        <4> QED  BY <4>1, <3>1, <3>2
      <3>5. find_entry(t, k) = {i}  BY <1>0, <3>1, LinearSearch
      <3> QED  BY <2>7, <3>1, <3>3, <3>4, <3>5 DEF Finds, Outcome
    <2> QED  BY <2>7, <2>8, <2>9 DEF Outcome
  <1> QED  BY <1>1, <1>2

\* A search ends if not more bins are taken than entries were added.
LEMMA SearchEndsLemma ==
    ASSUME NEW t, IsTable(t), FewTaken(t, Len(t.entries)), NEW k \in Key
    PROVE  SearchEnds(t, k)
  <1> SUFFICES ASSUME t.bins # NoBins  PROVE Stops(t, k) # {}
    BY DEF SearchEnds
  <1> DEFINE power == t.entry_power
             bins == t.bins
             p == Paths[k][power]
             n == Len(t.entries)
  <1>1. power \in MINIMAL_POWER2..MAX_POWER2 /\ bins \in [BinsOf(power) -> Nat]
    BY DEF IsTable
  <1>2. n \in Nat /\ n <= Pow2[power]  BY TableFacts DEF IsTable
  <1>3. Cardinality(Taken(power, bins)) <= n  BY DEF FewTaken
  <1>4. PICK b \in BinsOf(power) : bins[b] = EMPTY_BIN
    <2> HIDE DEF power, bins, n
    <2> QED  BY <1>1, <1>2, <1>3, EmptyExists
  <1>5. PICK j \in DOMAIN p : p[j] = b  BY <1>1, PathCovers
  <1> QED  BY <1>4, <1>5 DEF Stops, Path
-----------------------------------------------------------------------------
(* Adding, updating and deleting an entry. *)

\* The fields of a table.
LEMMA TableFields ==
    ASSUME NEW power, NEW es, NEW start, NEW num, NEW bins, NEW t,
           t = Table(power, es, start, num, bins)
    PROVE  /\ t.entry_power = power /\ t.entries = es /\ t.entries_start = start
           /\ t.num_entries = num /\ t.bins = bins
           /\ t = Table(t.entry_power, t.entries, t.entries_start, t.num_entries, t.bins)
  BY DEF Table

\* t has the fields of a table and no others.
IsRecord(t) == t = Table(t.entry_power, t.entries, t.entries_start, t.num_entries, t.bins)

\* Entering an entry into a bin changes nothing else.
LEMMA EnterFields ==
    ASSUME NEW t, IsRecord(t), NEW i \in Nat, NEW b
    PROVE  Enter(t, i, b) = Table(t.entry_power, t.entries, t.entries_start, t.num_entries,
                                  [t.bins EXCEPT ![b] = i + 1])
  <1> DEFINE a1 == t.entry_power  a2 == t.entries  a3 == t.entries_start
             a4 == t.num_entries  a5 == t.bins
             x == [a5 EXCEPT ![b] = i + 1]
  <1>1. i + ENTRY_BASE - 1 = i + 1  BY DEF ENTRY_BASE
  <1>2. Enter(t, i, b) = [t EXCEPT !.bins[b] = i + 1]  BY <1>1 DEF Enter
  <1>3. t = Table(a1, a2, a3, a4, a5)  BY DEF IsRecord
  <1>4. Enter(t, i, b) = [t EXCEPT !.bins = x]  BY <1>2
  <1> HIDE DEF x, a1, a2, a3, a4, a5
  <1>5. [t EXCEPT !.bins = x] = Table(a1, a2, a3, a4, x)  BY <1>3 DEF Table
  <1> QED  BY <1>4, <1>5 DEF x, a1, a2, a3, a4, a5

\* The entries of u are those of t and a new one.
Added(t, u, k, v) ==
    /\ GoodTable(u) /\ u.entries = Append(t.entries, [key |-> k, record |-> v])
    /\ u.entries_start = t.entries_start
    /\ Live(u) = Live(t) \cup {Len(t.entries) + 1}
    /\ FewTaken(t, Len(t.entries)) => FewTaken(u, Len(u.entries))

\* st_add_direct adds an entry for a key that is not in the table.
LEMMA AddLemma ==
    ASSUME NEW t, GoodTable(t), NEW k \in Key, NEW v \in Value,
           \A i \in Live(t) : t.entries[i].key # k,
           Len(t.entries) < Pow2[t.entry_power]
    PROVE  Added(t, st_add_direct(t, k, v), k, v)
  <1> DEFINE e == [key |-> k, record |-> v]
             n == Len(t.entries)
             power == t.entry_power
             es == Append(t.entries, e)
             w == [t EXCEPT !.entries = Append(@, e), !.num_entries = @ + 1]
             u == st_add_direct(t, k, v)
             L == Live(t)
  <1> SUFFICES Added(t, u, k, v)  OBVIOUS
  <1>0. IsTable(t)  BY DEF GoodTable
  <1>1. w = Table(power, es, t.entries_start, t.num_entries + 1, t.bins)
    <2>1. t = Table(t.entry_power, t.entries, t.entries_start, t.num_entries, t.bins)
      BY <1>0 DEF IsTable
    <2> DEFINE a1 == t.entry_power  a2 == t.entries  a3 == t.entries_start  a4 == t.num_entries  a5 == t.bins
    <2>2. t = Table(a1, a2, a3, a4, a5)  BY <2>1
    <2>3. w = [t EXCEPT !.entries = Append(a2, e), !.num_entries = a4 + 1]  OBVIOUS
    <2> HIDE DEF a1, a2, a3, a4, a5, e, w
    <2>4. w = Table(a1, Append(a2, e), a3, a4 + 1, a5)  BY <2>2, <2>3 DEF Table
    <2> QED  BY <2>4 DEF a1, a2, a3, a4, a5
  <1>2. /\ t.entries \in Seq(Entry) /\ e \in Entry /\ n \in Nat /\ t.entries_start \in 0..n
        /\ power \in MINIMAL_POWER2..MAX_POWER2
    BY <1>0, TableFacts DEF IsTable, Entry
  <1>3. /\ es \in Seq(Entry) /\ Len(es) = n + 1 /\ DOMAIN es = 1..(n + 1)
        /\ \A i \in 1..n : es[i] = t.entries[i]
        /\ es[n + 1] = e
    <2>1. /\ es \in Seq(Entry) /\ Len(es) = n + 1
          /\ \A i \in 1..n : es[i] = t.entries[i]
          /\ es[n + 1] = e
      BY <1>2, AppendProperties
    <2>2. DOMAIN es = 1..Len(es)  BY <2>1, LenProperties
    <2> QED  BY <2>1, <2>2
  <1>4. e.key = k /\ k # NoKey  BY StAssumption
  <1> HIDE DEF e, es, n
  <1>5. L = {i \in 1..n : i > t.entries_start /\ t.entries[i].key # NoKey}
    BY <1>0, TableFacts DEF Live, n
  <1>6. {i \in DOMAIN es : i > t.entries_start /\ es[i].key # NoKey} = L \cup {n + 1}
    <2>1. \A i \in 1..(n + 1) : i \in 1..n \/ i = n + 1  BY <1>2
    <2>2. \A i \in 1..n : i \in 1..(n + 1) /\ es[i].key = t.entries[i].key  BY <1>2, <1>3
    <2>3. n + 1 \in 1..(n + 1) /\ n + 1 > t.entries_start /\ es[n + 1].key # NoKey
      BY <1>2, <1>3, <1>4
    <2> QED  BY <1>3, <1>5, <2>1, <2>2, <2>3
  <1>7. n + 1 \notin L /\ L \subseteq 1..n /\ \A i \in L : es[i] = t.entries[i]
    BY <1>2, <1>3, <1>5
  <1>8. Distinct(es, L \cup {n + 1})
    <2>1. Distinct(t.entries, L)  BY DEF GoodTable
    <2>2. \A i \in L : es[i].key # k /\ es[i].key = t.entries[i].key  BY <1>7
    <2>3. es[n + 1].key = k  BY <1>3, <1>4
    <2> QED  BY <2>1, <2>2, <2>3 DEF Distinct
  <1>9. Cardinality(L \cup {n + 1}) = Cardinality(L) + 1 /\ Cardinality(L) = t.num_entries
    BY <1>0, <1>7, TableFacts, FS_AddElement DEF GoodTable
  <1>10. n + 1 <= Pow2[power]
    BY <1>2, Sizes DEF n
  <1> DEFINE Fits(x) ==
                /\ x = NoBins \/ x \in [BinsOf(power) -> Nat]
                /\ x # NoBins => Index(power, x, es, L \cup {n + 1})
                /\ u = Table(power, es, t.entries_start, t.num_entries + 1, x)
                /\ t.bins = NoBins <=> x = NoBins
                /\ x # NoBins =>
                    \E b \in BinsOf(power) : Taken(power, x) = Taken(power, t.bins) \cup {b}
  <1>11. ASSUME NEW bins, Fits(bins)  PROVE Added(t, u, k, v)
    <2> HIDE DEF u, L
    <2>1. /\ u.entry_power = power /\ u.entries = es /\ u.entries_start = t.entries_start
          /\ u.num_entries = t.num_entries + 1 /\ u.bins = bins
          /\ u = Table(u.entry_power, u.entries, u.entries_start, u.num_entries, u.bins)
      BY <1>11, TableFields
    <2>2. Live(u) = L \cup {n + 1}  BY <1>6, <2>1 DEF Live
    <2>3. IsTable(u)
      <3>1. t.entries_start \in 0..(n + 1)  BY <1>2
      <3> QED  BY <1>2, <1>3, <1>10, <1>11, <2>1, <3>1 DEF IsTable
    <2>4. GoodTable(u)  BY <2>1, <2>2, <2>3, <1>8, <1>9, <1>11 DEF GoodTable
    <2>5. ASSUME FewTaken(t, n)  PROVE FewTaken(u, n + 1)
      <3> SUFFICES ASSUME bins # NoBins  PROVE Cardinality(Taken(power, bins)) <= n + 1
        BY <2>1 DEF FewTaken
      <3>1. PICK b \in BinsOf(power) : Taken(power, bins) = Taken(power, t.bins) \cup {b}  BY <1>11
      <3>2. Cardinality(Taken(power, t.bins)) <= n  BY <2>5, <1>11 DEF FewTaken
      <3>3. IsFiniteSet(BinsOf(power))  BY <1>2, Sizes
      <3>4. Taken(power, t.bins) \in SUBSET BinsOf(power)  BY DEF Taken
      <3> DEFINE T == Taken(power, t.bins)
      <3> HIDE DEF T
      <3>5. IsFiniteSet(T)  BY <3>3, <3>4, FS_Subset DEF T
      <3>6. Cardinality(T) \in Nat  BY <3>5, FS_CardinalityType
      <3>7. Cardinality(T \cup {b}) <= Cardinality(T) + 1
        <4>1. Cardinality(T \cup {b}) = IF b \in T THEN Cardinality(T) ELSE Cardinality(T) + 1
          BY <3>5, FS_AddElement
        <4> QED  BY <3>6, <4>1
      <3>8. Cardinality(Taken(power, bins)) = Cardinality(T \cup {b})  BY <3>1 DEF T
      <3>9. Cardinality(T) <= n  BY <3>2 DEF T
      <3>10. \A x, c \in Nat : c <= n /\ x <= c + 1 => x <= n + 1  BY <1>2
      <3>11. Cardinality(T \cup {b}) \in Nat  BY <3>5, FS_AddElement, FS_CardinalityType
      <3> QED  BY <3>6, <3>7, <3>8, <3>9, <3>10, <3>11
    <2> QED  BY <1>3, <2>1, <2>2, <2>4, <2>5 DEF Added, es, e, n, L
  <1>12. w.entry_power = power /\ w.entries = es /\ w.bins = t.bins /\ Len(w.entries) = n + 1
    <2> DEFINE num == t.num_entries + 1
               start == t.entries_start
               bins == t.bins
    <2>1. w = Table(power, es, start, num, bins)  BY <1>1
    <2> HIDE DEF w, num, start, bins
    <2>2. w.entry_power = power /\ w.entries = es /\ w.bins = bins  BY <2>1, TableFields
    <2> QED  BY <2>2, <1>3 DEF bins
  <1>13. u = IF w.bins = NoBins THEN w ELSE Enter(w, Len(w.entries), find_table_bin_ind_direct(w, k))
    BY DEF st_add_direct, e
  <1>14. CASE t.bins = NoBins
    <2>1. u = Table(power, es, t.entries_start, t.num_entries + 1, NoBins)
      BY <1>1, <1>12, <1>13, <1>14
    <2>2. Fits(NoBins)  BY <1>14, <2>1
    <2> HIDE DEF Fits, u
    <2> QED  BY <1>11, <2>2
  <1>15. CASE t.bins # NoBins
    <2> DEFINE p == Paths[k][power]
               S == {j \in DOMAIN p : t.bins[p[j]] \in {EMPTY_BIN, DELETED_BIN}}
               b == p[Min(S)]
               new == [t.bins EXCEPT ![b] = (n + 1) + 1]
    <2>1. find_table_bin_ind_direct(w, k) = b
      <3>1. Path(w, k) = p  BY <1>12 DEF Path
      <3>2. Places(w, k) = S  BY <1>12, <3>1 DEF Places
      <3> HIDE DEF p, S
      <3> QED  BY <3>1, <3>2 DEF find_table_bin_ind_direct
    <2>2. u = Enter(w, n + 1, b)  BY <1>12, <1>13, <1>15, <2>1
    <2>3. u = Table(power, es, t.entries_start, t.num_entries + 1, new)
      <3>1. n + 1 \in Nat  BY <1>2
      <3> DEFINE num == t.num_entries + 1
      <3> DEFINE i == n + 1
                 start == t.entries_start
                 bins == t.bins
      <3>2. w = Table(power, es, start, num, bins)  BY <1>1
      <3> HIDE DEF u, w, b, num, start, bins, i
      <3>3. Enter(w, i, b) = Table(power, es, start, num, [bins EXCEPT ![b] = i + 1])
        <4>1. i \in Nat  BY <3>1 DEF i
        <4>2. /\ w.entry_power = power /\ w.entries = es /\ w.entries_start = start
              /\ w.num_entries = num /\ w.bins = bins /\ IsRecord(w)
          BY <3>2, TableFields DEF IsRecord
        <4>3. Enter(w, i, b) = Table(w.entry_power, w.entries, w.entries_start, w.num_entries,
                                     [w.bins EXCEPT ![b] = i + 1])
          BY <4>1, <4>2, EnterFields
        <4> QED  BY <4>2, <4>3
      <3> QED  BY <2>2, <3>3 DEF num, start, bins, i
    <2>4. Enterable(power, t.bins, es, L, n + 1)
      <3>1. power \in MINIMAL_POWER2..MAX_POWER2 /\ t.bins \in [BinsOf(power) -> Nat]
        BY <1>0, <1>15 DEF IsTable
      <3>2. L \subseteq Nat \ {0} /\ IsFiniteSet(L) /\ Cardinality(L) <= Pow2[power]
        BY <1>0, TableFacts
      <3>3. \A l \in L \cup {n + 1} : es[l].key \in Key
        BY <1>0, <1>3, <1>4, <1>7, TableFacts
      <3>4. Index(power, t.bins, es, L)
        <4>1. Index(power, t.bins, t.entries, L)  BY <1>15 DEF GoodTable
        <4> HIDE DEF L
        <4> QED  BY <1>7, <4>1, SameIndex
      <3>5. n + 1 \in Nat /\ n + 1 # 0 /\ n + 1 \notin L  BY <1>2, <1>7
      <3> HIDE DEF L
      <3> QED  BY <3>1, <3>2, <3>3, <3>4, <3>5 DEF Enterable
    <2>5. Entered(power, t.bins, new, es, L, n + 1, b)
      <3>1. es[n + 1].key = k  BY <1>3, <1>4
      <3>2. S = {j \in DOMAIN Paths[es[n + 1].key][power] :
                    t.bins[Paths[es[n + 1].key][power][j]] \in {EMPTY_BIN, DELETED_BIN}}
        BY <3>1
      <3>3. b = Paths[es[n + 1].key][power][Min(S)]  BY <3>1
      <3> DEFINE i == n + 1
      <3> HIDE DEF S, b, L, i
      <3> QED  BY <2>4, <3>2, <3>3, EnterIndex DEF i
    <2>6. new # NoBins
      <3>1. 0 \in BinsOf(power)  BY <1>2, Sizes DEF BinsOf
      <3>2. new \in [BinsOf(power) -> Nat]  BY <2>5 DEF Entered
      <3> HIDE DEF new
      <3> QED  BY <3>1, <3>2 DEF NoBins
    <2> HIDE DEF new, b, u, L
    <2>7. /\ new \in [BinsOf(power) -> Nat] /\ Index(power, new, es, L \cup {n + 1})
          /\ \E c \in BinsOf(power) : Taken(power, new) = Taken(power, t.bins) \cup {c}
      BY <2>5 DEF Entered
    <2>8. Fits(new)  BY <1>15, <2>3, <2>6, <2>7
    <2> HIDE DEF Fits
    <2> QED  BY <1>11, <2>8
  <1> QED  BY <1>14, <1>15

\* A change of the array of entries changes nothing else.
LEMMA WithEntries ==
    ASSUME NEW t, IsTable(t), NEW es
    PROVE  [t EXCEPT !.entries = es] =
             Table(t.entry_power, es, t.entries_start, t.num_entries, t.bins)
  <1> DEFINE a1 == t.entry_power  a2 == t.entries  a3 == t.entries_start
             a4 == t.num_entries  a5 == t.bins
  <1>1. t = Table(a1, a2, a3, a4, a5)  BY DEF IsTable
  <1> HIDE DEF a1, a2, a3, a4, a5
  <1>2. [t EXCEPT !.entries = es] = Table(a1, es, a3, a4, a5)  BY <1>1 DEF Table
  <1> QED  BY <1>2 DEF a1, a2, a3, a4, a5

\* The entries of u are those of t, but that the i-th one has the record v.
Updated(t, u, i, v) ==
    /\ GoodTable(u) /\ u.entries_start = t.entries_start
    /\ u.entries = [t.entries EXCEPT ![i] = [key |-> t.entries[i].key, record |-> v]]
    /\ Live(u) = Live(t) /\ Len(u.entries) = Len(t.entries)
    /\ FewTaken(t, Len(t.entries)) => FewTaken(u, Len(u.entries))

\* A new value for a key that is there.
LEMMA UpdateLemma ==
    ASSUME NEW t, GoodTable(t), NEW i \in Live(t), NEW v \in Value
    PROVE  Updated(t, [t EXCEPT !.entries[i].record = v], i, v)
  <1> DEFINE u == [t EXCEPT !.entries[i].record = v]
             e == [key |-> t.entries[i].key, record |-> v]
             es == [t.entries EXCEPT ![i] = e]
             n == Len(t.entries)
             bins == t.bins
             power == t.entry_power
  <1> SUFFICES Updated(t, u, i, v)  OBVIOUS
  <1>1. IsTable(t)  BY DEF GoodTable
  <1>2. /\ n \in Nat /\ DOMAIN t.entries = 1..n /\ i \in 1..n /\ t.entries \in Seq(Entry)
        /\ t.entries[i] \in [key : Key, record : Value]
    BY <1>1, TableFacts DEF IsTable
  <1>3. u = Table(t.entry_power, es, t.entries_start, t.num_entries, t.bins)
    <2>1. [t.entries[i] EXCEPT !.record = v] = e  BY <1>2
    <2>2. u = [t EXCEPT !.entries = [t.entries EXCEPT ![i] = [t.entries[i] EXCEPT !.record = v]]]
      BY <1>1 DEF IsTable, Table
    <2>3. u = [t EXCEPT !.entries = es]  BY <2>1, <2>2
    <2> HIDE DEF u, es
    <2> QED  BY <1>1, <2>3, WithEntries
  <1>4. e \in Entry /\ e.key = t.entries[i].key  BY <1>2 DEF Entry
  <1> HIDE DEF e, u
  <1>5. es \in Seq(Entry) /\ Len(es) = n /\ DOMAIN es = 1..n
    BY <1>2, <1>4, ExceptSeq, LenProperties
  <1>6. \A j \in 1..n : es[j].key = t.entries[j].key
    BY <1>2, <1>4
  <1>7. es = [t.entries EXCEPT ![i] = e]  OBVIOUS
  <1> HIDE DEF es
  <1>8. /\ u.entry_power = power /\ u.entries = es /\ u.entries_start = t.entries_start
        /\ u.num_entries = t.num_entries /\ u.bins = bins
        /\ u = Table(u.entry_power, u.entries, u.entries_start, u.num_entries, u.bins)
    <2> DEFINE start == t.entries_start  num == t.num_entries
    <2>1. u = Table(power, es, start, num, bins)  BY <1>3
    <2> HIDE DEF start, num, power, bins
    <2>2. /\ u.entry_power = power /\ u.entries = es /\ u.entries_start = start
          /\ u.num_entries = num /\ u.bins = bins
          /\ u = Table(u.entry_power, u.entries, u.entries_start, u.num_entries, u.bins)
      BY <2>1, TableFields
    <2> QED  BY <2>2 DEF start, num
  <1>9. Live(u) = Live(t)
    <2>1. Live(t) = {j \in 1..n : j > t.entries_start /\ t.entries[j].key # NoKey}
      BY <1>2 DEF Live
    <2>2. Live(u) = {j \in 1..n : j > t.entries_start /\ es[j].key # NoKey}
      BY <1>5, <1>8 DEF Live
    <2> QED  BY <2>1, <2>2, <1>6
  <1>10. \A j \in Live(t) : es[j].key = t.entries[j].key  BY <1>1, <1>6, TableFacts
  <1>11. IsTable(u)  BY <1>1, <1>2, <1>5, <1>8 DEF IsTable
  <1>12. Distinct(es, Live(t))
    <2>1. Distinct(t.entries, Live(t))  BY DEF GoodTable
    <2> QED  BY <1>10, <2>1 DEF Distinct
  <1>13. bins # NoBins => Index(power, bins, es, Live(t))
    <2> SUFFICES ASSUME bins # NoBins  PROVE Index(power, bins, es, Live(t))  OBVIOUS
    <2>1. Index(power, bins, t.entries, Live(t))  BY DEF GoodTable
    <2> DEFINE L == Live(t)  fs == t.entries
    <2> HIDE DEF L, power, bins, fs
    <2> QED  BY <1>10, <2>1, SameIndex DEF L, fs
  <1>14. GoodTable(u)  BY <1>8, <1>9, <1>11, <1>12, <1>13 DEF GoodTable
  <1>15. FewTaken(t, Len(t.entries)) => FewTaken(u, Len(u.entries))
    BY <1>5, <1>8 DEF FewTaken
  <1> QED  BY <1>5, <1>7, <1>8, <1>9, <1>14, <1>15 DEF Updated, e

\* The element of a singleton.
LEMMA MaxOne ==
    ASSUME NEW i \in Int
    PROVE  Max({i}) = i
  BY DEF Max

\* A search for the key of an entry ends, at the latest at the entry.
LEMMA SearchOfEntry ==
    ASSUME NEW t, GoodTable(t), NEW i \in Live(t)
    PROVE  SearchEnds(t, t.entries[i].key)
  <1> SUFFICES ASSUME t.bins # NoBins  PROVE Stops(t, t.entries[i].key) # {}
    BY DEF SearchEnds
  <1> DEFINE p == Path(t, t.entries[i].key)
             k == t.entries[i].key
  <1>1. IsTable(t) /\ i \in Nat /\ i # 0 /\ k \in Key  BY TableFacts DEF GoodTable
  <1>2. LeadsTo(p, t.bins, i)  BY DEF GoodTable, Index, Path
  <1>3. PICK j \in DOMAIN p : t.bins[p[j]] = i + 1  BY <1>2 DEF LeadsTo
  <1>4. i + 1 >= ENTRY_BASE /\ (i + 1) - ENTRY_BASE + 1 = i  BY <1>1 DEF ENTRY_BASE
  <1>5. IsHit(t, i + 1, k)  BY <1>4 DEF IsHit
  <1>6. j \in Stops(t, k)  BY <1>3, <1>5 DEF Stops
  <1> QED  BY <1>6

\* The entries of u are those of t without the i-th one.
Removed(t, u, i) ==
    /\ GoodTable(u) /\ u.entries = [t.entries EXCEPT ![i] = DeletedEntry]
    /\ Live(u) = Live(t) \ {i} /\ Len(u.entries) = Len(t.entries)
    /\ FewTaken(t, Len(t.entries)) => FewTaken(u, Len(u.entries))

\* The fields of a table after a deletion.
LEMMA DeletedShape ==
    ASSUME NEW t, IsTable(t), NEW i \in Int, NEW k, Found(t, k) = {i},
           NEW bins, \/ t.bins = NoBins /\ bins = NoBins
                     \/ t.bins # NoBins /\ \E b \in Int :
                            /\ find_table_bin_ind(t, k) = {b}
                            /\ bins = [t.bins EXCEPT ![b] = DELETED_BIN]
    PROVE  Deleted(t, k) = Table(t.entry_power, [t.entries EXCEPT ![i] = DeletedEntry],
                                 IF t.entries_start = i - 1 THEN i ELSE t.entries_start,
                                 t.num_entries - 1, bins)
  <1> DEFINE a1 == t.entry_power  a2 == t.entries  a3 == t.entries_start
             a4 == t.num_entries  a5 == t.bins
             es == [a2 EXCEPT ![i] = DeletedEntry]
             num == a4 - 1
             u == [t EXCEPT !.entries[i] = DeletedEntry, !.num_entries = @ - 1]
             w == IF t.bins = NoBins THEN u
                  ELSE [u EXCEPT !.bins[Max(find_table_bin_ind(t, k))] = DELETED_BIN]
  <1>1. Deleted(t, k) = update_range_for_deleted(w, i)  BY MaxOne DEF Deleted
  <1>2. t = Table(a1, a2, a3, a4, a5)  BY DEF IsTable
  <1>3. u = [t EXCEPT !.entries = es, !.num_entries = num]  BY <1>2 DEF Table
  <1>4. u = Table(a1, es, a3, num, a5)
    <2> HIDE DEF a1, a2, a3, a4, a5, es, num, u
    <2> QED  BY <1>2, <1>3 DEF Table
  <1>5. w = Table(a1, es, a3, num, bins)
    <2>1. CASE t.bins = NoBins  BY <1>4, <2>1
    <2>2. CASE t.bins # NoBins
      <3>1. PICK b \in Int : /\ find_table_bin_ind(t, k) = {b}
                             /\ bins = [t.bins EXCEPT ![b] = DELETED_BIN]
        BY <2>2
      <3>2. w = [u EXCEPT !.bins[b] = DELETED_BIN]  BY <2>2, <3>1, MaxOne
      <3> HIDE DEF a1, a2, a3, a4, a5, es, num, u, w
      <3>3. u.bins = a5  BY <1>4 DEF Table
      <3>4. w = [u EXCEPT !.bins = [a5 EXCEPT ![b] = DELETED_BIN]]  BY <3>2, <3>3
      <3>5. w = [u EXCEPT !.bins = bins]  BY <3>1, <3>4 DEF a5
      <3> QED  BY <1>4, <3>5 DEF Table
    <2> QED  BY <2>1, <2>2
  <1> HIDE DEF a1, a2, a3, a4, a5, es, num, u, w
  <1>6. w.entries_start = a3  BY <1>5 DEF Table
  <1>7. update_range_for_deleted(w, i) = Table(a1, es, IF a3 = i - 1 THEN i ELSE a3, num, bins)
    <2>1. CASE a3 = i - 1
      <3>1. update_range_for_deleted(w, i) = [w EXCEPT !.entries_start = i]
        BY <2>1, <1>6 DEF update_range_for_deleted
      <3>2. [w EXCEPT !.entries_start = i] = Table(a1, es, i, num, bins)  BY <1>5 DEF Table
      <3> QED  BY <2>1, <3>1, <3>2
    <2>2. CASE a3 # i - 1  BY <2>2, <1>5, <1>6 DEF update_range_for_deleted
    <2> QED  BY <2>1, <2>2
  <1> QED  BY <1>1, <1>7 DEF a1, a2, a3, a4, a5, es, num

\* Deleting a key marks its entry and its bin, and loses no other entry.
LEMMA DeleteLemma ==
    ASSUME NEW t, GoodTable(t), NEW k \in Key, NEW i \in Live(t),
           SearchEnds(t, k), t.entries[i].key = k
    PROVE  Found(t, k) = {i} /\ Removed(t, Deleted(t, k), i)
  <1> DEFINE u == Deleted(t, k)
             es == [t.entries EXCEPT ![i] = DeletedEntry]
             n == Len(t.entries)
             L == Live(t)
             start == IF t.entries_start = i - 1 THEN i ELSE t.entries_start
             num == t.num_entries - 1
             power == t.entry_power
  <1> SUFFICES Found(t, k) = {i} /\ Removed(t, u, i)  OBVIOUS
  <1>1. IsTable(t) /\ Distinct(t.entries, L)  BY DEF GoodTable
  <1>2. /\ n \in Nat /\ DOMAIN t.entries = 1..n /\ i \in 1..n /\ i \in Int
        /\ t.entries \in Seq(Entry) /\ t.entries_start \in 0..n
        /\ power \in MINIMAL_POWER2..MAX_POWER2
    <2>1. n \in Nat /\ DOMAIN t.entries = 1..n /\ i \in 1..n  BY <1>1, TableFacts
    <2>2. t.entries \in Seq(Entry) /\ t.entries_start \in 0..n /\ power \in MINIMAL_POWER2..MAX_POWER2
      BY <1>1 DEF IsTable
    <2>3. i \in Int  BY <2>1
    <2> QED  BY <2>1, <2>2, <2>3
  <1>3. /\ Found(t, k) = {i}
        /\ t.bins # NoBins => \E b \in BinsOf(power) : find_table_bin_ind(t, k) = {b} /\ t.bins[b] = i + 1
    <2>1. Finds(t, k)  BY SearchLemma
    <2>2. PICK l \in L : /\ Found(t, k) = {l} /\ t.entries[l].key = k
                         /\ t.bins # NoBins =>
                              \E b \in BinsOf(power) : find_table_bin_ind(t, k) = {b} /\ t.bins[b] = l + 1
      BY <2>1 DEF Finds
    <2>3. l = i  BY <1>1, <2>2 DEF Distinct
    <2> QED  BY <2>2, <2>3
  <1> DEFINE Bins(x) ==
                \/ t.bins = NoBins /\ x = NoBins
                \/ t.bins # NoBins /\ \E b \in Int :
                       /\ find_table_bin_ind(t, k) = {b}
                       /\ x = [t.bins EXCEPT ![b] = DELETED_BIN]
             Good(x) == /\ Bins(x)
                        /\ x = NoBins \/ x \in [BinsOf(power) -> Nat]
                        /\ x # NoBins => /\ t.bins # NoBins
                                         /\ Index(power, x, es, L \ {i})
                                         /\ Taken(power, x) = Taken(power, t.bins)
  <1>4. \E x : Good(x)
    <2>1. CASE t.bins = NoBins
      <3>1. Good(NoBins)  BY <2>1
      <3> HIDE DEF Good
      <3> QED  BY <3>1
    <2>2. CASE t.bins # NoBins
      <3>1. PICK b \in BinsOf(power) : find_table_bin_ind(t, k) = {b} /\ t.bins[b] = i + 1
        BY <1>3, <2>2
      <3> DEFINE new == [t.bins EXCEPT ![b] = DELETED_BIN]
                 old == t.bins
                 fs == t.entries
      <3>2. old \in [BinsOf(power) -> Nat] /\ Index(power, old, fs, L)
        BY <1>1, <2>2 DEF GoodTable, IsTable
      <3>3. L \subseteq Nat \ {0} /\ \A l \in L : fs[l].key \in Key  BY <1>1, TableFacts
      <3>4. \A l \in L \ {i} : es[l].key = fs[l].key
        <4>1. L \subseteq 1..n  BY <1>1, TableFacts
        <4> HIDE DEF L
        <4> QED  BY <1>2, <4>1
      <3>5. b \in Int  BY <1>2, Sizes DEF BinsOf
      <3>6. new \in [BinsOf(power) -> Nat] /\ Index(power, new, es, L \ {i}) /\ Taken(power, new) = Taken(power, old)
        <4>1. new = [old EXCEPT ![b] = DELETED_BIN]  OBVIOUS
        <4>2. old[b] = i + 1 /\ i \in L /\ b \in BinsOf(power)  BY <3>1
        <4> HIDE DEF new, old, fs, es, L, power
        <4>3. power \in MINIMAL_POWER2..MAX_POWER2  BY <1>2
        <4>4. Removable(power, old, fs, L, i, b, es)
          BY <3>2, <3>3, <3>4, <4>2, <4>3 DEF Removable
        <4>5. RemovedFrom(power, old, new, es, L, i)  BY <4>1, <4>4, RemoveIndex
        <4> QED  BY <4>5 DEF RemovedFrom
      <3>7. Good(new)  BY <2>2, <3>1, <3>5, <3>6
      <3> HIDE DEF Good, new
      <3> QED  BY <3>7
    <2> QED  BY <2>1, <2>2
  <1>5. PICK bins : Good(bins)  BY <1>4
  <1>6. u = Table(power, es, start, num, bins)
    <2>1. Bins(bins)  BY <1>5
    <2>2. i \in Int /\ IsTable(t) /\ Found(t, k) = {i}  BY <1>1, <1>2, <1>3
    <2> HIDE DEF Good
    <2> QED  BY <2>1, <2>2, DeletedShape
  <1>7. /\ u.entry_power = power /\ u.entries = es /\ u.entries_start = start
        /\ u.num_entries = num /\ u.bins = bins
        /\ u = Table(u.entry_power, u.entries, u.entries_start, u.num_entries, u.bins)
    <2> HIDE DEF u, es, start, num, power
    <2> QED  BY <1>6, TableFields
  <1>8. DeletedEntry \in Entry /\ DeletedEntry.key = NoKey  BY DEF Entry, DeletedEntry
  <1>9. es \in Seq(Entry) /\ Len(es) = n /\ DOMAIN es = 1..n
    BY <1>2, <1>8, ExceptSeq, LenProperties
  <1>10. es[i].key = NoKey /\ \A j \in 1..n : j # i => es[j] = t.entries[j]
    BY <1>2, <1>8
  <1>11. start \in 0..n /\ \A j \in 1..n : j # i => (j > start <=> j > t.entries_start)
    BY <1>2
  <1> HIDE DEF u, es, start
  <1>12. Live(u) = L \ {i}
    <2>1. Live(t) = {j \in 1..n : j > t.entries_start /\ t.entries[j].key # NoKey}
      BY <1>2 DEF Live
    <2>2. Live(u) = {j \in 1..n : j > start /\ es[j].key # NoKey}
      BY <1>7, <1>9 DEF Live
    <2> QED  BY <2>1, <2>2, <1>10, <1>11
  <1>13. IsTable(u)
    <2>1. bins = NoBins \/ bins \in [BinsOf(power) -> Nat]  BY <1>5
    <2>2. n <= Pow2[power]  BY <1>1 DEF IsTable
    <2> QED  BY <1>2, <1>7, <1>9, <1>11, <2>1, <2>2 DEF IsTable
  <1>14. Distinct(es, L \ {i})
    <2>1. \A j \in L \ {i} : es[j] = t.entries[j]  BY <1>1, <1>10, TableFacts
    <2> QED  BY <1>1, <2>1 DEF Distinct
  <1>15. num = Cardinality(L \ {i})
    <2>1. t.num_entries = Cardinality(L)  BY DEF GoodTable
    <2>2. IsFiniteSet(L)  BY <1>1, TableFacts
    <2> HIDE DEF L
    <2>3. Cardinality(L \ {i}) = Cardinality(L) - 1  BY <2>2, FS_RemoveElement DEF L
    <2> QED  BY <2>1, <2>3
  <1>16. GoodTable(u)
    <2>1. bins # NoBins => Index(power, bins, es, L \ {i})  BY <1>5
    <2> HIDE DEF Good, L, num
    <2> QED  BY <1>7, <1>12, <1>13, <1>14, <1>15, <2>1 DEF GoodTable
  <1>17. FewTaken(t, n) => FewTaken(u, n)
    <2>1. bins # NoBins => t.bins # NoBins /\ Taken(power, bins) = Taken(power, t.bins)  BY <1>5
    <2> HIDE DEF Good
    <2> QED  BY <1>7, <2>1 DEF FewTaken
  <1> QED  BY <1>3, <1>7, <1>9, <1>12, <1>16, <1>17 DEF Removed, es
-----------------------------------------------------------------------------
(* Making a table. *)

\* Empty bins hold no entry.
LEMMA EmptyBinsFacts ==
    ASSUME NEW power \in MINIMAL_POWER2..MAX_POWER2, EmptyBins(power) # NoBins
    PROVE  /\ EmptyBins(power) \in [BinsOf(power) -> Nat]
           /\ \A b \in BinsOf(power) : EmptyBins(power)[b] = EMPTY_BIN
           /\ \A es : Index(power, EmptyBins(power), es, {})
           /\ Cardinality(Taken(power, EmptyBins(power))) = 0
  <1> DEFINE bins == EmptyBins(power)
  <1>1. bins = [b \in BinsOf(power) |-> EMPTY_BIN]  BY DEF EmptyBins, BinsOf
  <1>2. EMPTY_BIN \in Nat /\ ~(EMPTY_BIN >= ENTRY_BASE)  BY DEF EMPTY_BIN, ENTRY_BASE
  <1>3. bins \in [BinsOf(power) -> Nat] /\ \A b \in BinsOf(power) : bins[b] = EMPTY_BIN
    BY <1>1, <1>2
  <1> HIDE DEF bins
  <1>4. \A es : Index(power, bins, es, {})  BY <1>2, <1>3 DEF Index
  <1>5. Taken(power, bins) = {}  BY <1>3 DEF Taken
  <1> QED  BY <1>3, <1>4, <1>5, FS_EmptySet DEF bins

\* A table that was just made or cleared.
LEMMA EmptyTable ==
    ASSUME NEW power \in MINIMAL_POWER2..MAX_POWER2,
           NEW t, t = Table(power, <<>>, 0, 0, EmptyBins(power))
    PROVE  GoodTable(t) /\ Live(t) = {} /\ t.entries = <<>> /\ FewTaken(t, Len(t.entries))
  <1> DEFINE bins == EmptyBins(power)  es == <<>>
  <1>1. es \in Seq(Entry) /\ Len(es) = 0 /\ DOMAIN es = {}  OBVIOUS
  <1> HIDE DEF bins, es
  <1>2. /\ t.entry_power = power /\ t.entries = es /\ t.entries_start = 0
        /\ t.num_entries = 0 /\ t.bins = bins
        /\ t = Table(t.entry_power, t.entries, t.entries_start, t.num_entries, t.bins)
    <2>1. t = Table(power, es, 0, 0, bins)  BY DEF bins, es
    <2> QED  BY <2>1, TableFields
  <1>3. Live(t) = {}  BY <1>1, <1>2 DEF Live
  <1>4. bins = NoBins \/ bins \in [BinsOf(power) -> Nat]  BY EmptyBinsFacts DEF bins
  <1>5. IsTable(t)
    <2>1. 0 <= Pow2[power]  BY Sizes
    <2>2. 0 \in 0..0  OBVIOUS
    <2> QED  BY <1>1, <1>2, <1>4, <2>1, <2>2 DEF IsTable
  <1>6. Distinct(es, {})  BY DEF Distinct
  <1>7. bins # NoBins => Index(power, bins, es, {}) /\ Cardinality(Taken(power, bins)) = 0
    BY EmptyBinsFacts DEF bins
  <1>8. GoodTable(t)  BY <1>2, <1>3, <1>5, <1>6, <1>7, FS_EmptySet DEF GoodTable
  <1>9. FewTaken(t, Len(t.entries))  BY <1>1, <1>2, <1>7 DEF FewTaken
  <1> QED  BY <1>2, <1>3, <1>8, <1>9 DEF es

\* Entering the i-th entry of es, in rebuild_table.
FillStep(es, i, t) ==
    IF t.bins = NoBins THEN t ELSE Enter(t, i, find_table_bin_ind_direct(t, es[i].key))

\* The function of Filled.
FillBody(first, es, m, f) == [i \in 0..m |-> IF i = 0 THEN first ELSE FillStep(es, i, f[i - 1])]

\* Its equation has a solution.
LEMMA FillExists ==
    ASSUME NEW first, NEW es, NEW N \in Nat
    PROVE  \E f : f = FillBody(first, es, N, f)
  <1> DEFINE T == {m \in 0..N : \E f : f = FillBody(first, es, m, f)}
  <1>1. 0 \in T
    <2> DEFINE f == [i \in 0..0 |-> first]
    <2>1. f = FillBody(first, es, 0, f)  BY DEF FillBody
    <2> HIDE DEF f
    <2> QED  BY <2>1
  <1>2. ASSUME NEW m \in 0..(N - 1), m \in T  PROVE m + 1 \in T
    <2>1. PICK f : f = FillBody(first, es, m, f)  BY <1>2
    <2> DEFINE g == [i \in 0..(m + 1) |-> IF i <= m THEN f[i] ELSE FillStep(es, m + 1, f[m])]
    <2>2. g = FillBody(first, es, m + 1, g)
      <3>1. \A i \in 0..m : f[i] = IF i = 0 THEN first ELSE FillStep(es, i, f[i - 1])
        BY <2>1 DEF FillBody
      <3>2. \A i \in 0..(m + 1) : g[i] = IF i = 0 THEN first ELSE FillStep(es, i, g[i - 1])
        BY <3>1
      <3> QED  BY <3>2 DEF FillBody
    <2> HIDE DEF g
    <2> QED  BY <2>2
  <1>3. N \in T
    <2> HIDE DEF T
    <2> QED  BY <1>1, <1>2, FiniteInduction
  <1> QED  BY <1>3

\* Filled is the last of the tables that enter the entries one by one.
LEMMA FilledSteps ==
    ASSUME NEW es, Len(es) \in Nat, NEW power
    PROVE  \E f : /\ f[0] = Table(power, es, 0, Len(es), EmptyBins(power))
                  /\ \A i \in 0..(Len(es) - 1) : f[i + 1] = FillStep(es, i + 1, f[i])
                  /\ Filled(es, power) = f[Len(es)]
  <1> DEFINE N == Len(es)
             first == Table(power, es, 0, Len(es), EmptyBins(power))
             fill == CHOOSE f : f = FillBody(first, es, N, f)
  <1>1. Filled(es, power) = fill[N]  BY DEF Filled, Table, FillBody, FillStep
  <1>2. \E f : f = FillBody(first, es, N, f)
    <2>1. N \in Nat  OBVIOUS
    <2> HIDE DEF N, first
    <2> QED  BY <2>1, FillExists
  <1>3. fill = FillBody(first, es, N, fill)  BY <1>2
  <1> HIDE DEF fill, first
  <1>4. \A i \in 0..N : fill[i] = IF i = 0 THEN first ELSE FillStep(es, i, fill[i - 1])
    BY <1>3 DEF FillBody
  <1>5. fill[0] = first  BY <1>4
  <1>6. ASSUME NEW i \in 0..(N - 1)  PROVE fill[i + 1] = FillStep(es, i + 1, fill[i])
    <2>1. i + 1 \in 0..N /\ i + 1 # 0 /\ (i + 1) - 1 = i  OBVIOUS
    <2> QED  BY <1>4, <2>1
  <1> QED  BY <1>1, <1>5, <1>6 DEF first

\* A table with the entries es, none of them deleted, and not more bins taken than those.
Made(t, es, power) ==
    /\ GoodTable(t) /\ t.entries = es /\ t.entries_start = 0 /\ t.entry_power = power
    /\ Live(t) = 1..Len(es) /\ FewTaken(t, Len(es))

\* What such a table is when its first i entries are in the bins.
HalfMade(t, es, power, i) ==
    /\ t = Table(power, es, 0, Len(es), t.bins)
    /\ t.bins = NoBins \/ t.bins \in [BinsOf(power) -> Nat]
    /\ t.bins # NoBins => Index(power, t.bins, es, 1..i)
    /\ t.bins # NoBins => Cardinality(Taken(power, t.bins)) <= i

\* Entries of which a table of that size can be made.
Makeable(es, power) ==
    /\ power \in MINIMAL_POWER2..MAX_POWER2 /\ es \in Seq([key : Key, record : Value])
    /\ Len(es) <= Pow2[power] /\ Distinct(es, 1..Len(es))

\* The step of the loop in rebuild_table.
LEMMA MakeStep ==
    ASSUME NEW es, NEW power, Makeable(es, power), NEW i \in 0..(Len(es) - 1),
           NEW t, HalfMade(t, es, power, i)
    PROVE  HalfMade(FillStep(es, i + 1, t), es, power, i + 1)
  <1> DEFINE n == Len(es)
             u == FillStep(es, i + 1, t)
             bins == t.bins
  <1> SUFFICES HalfMade(u, es, power, i + 1)  OBVIOUS
  <1>1. /\ power \in MINIMAL_POWER2..MAX_POWER2 /\ n \in Nat /\ n <= Pow2[power]
        /\ \A l \in 1..n : es[l].key \in Key
    <2>1. es \in Seq([key : Key, record : Value])  BY DEF Makeable
    <2>2. \A l \in 1..n : es[l] \in [key : Key, record : Value]  BY <2>1, ElementOfSeq
    <2> QED  BY <2>1, <2>2, LenProperties DEF Makeable
  <1>2. i \in Nat /\ i + 1 \in 1..n /\ 1..i \subseteq 1..n /\ i + 1 \notin 1..i
        /\ 1..(i + 1) = 1..i \cup {i + 1}
    BY <1>1
  <1>3. CASE bins = NoBins
    <2>1. u = t  BY <1>3 DEF FillStep
    <2> QED  BY <1>3, <2>1 DEF HalfMade
  <1>4. CASE bins # NoBins
    <2> DEFINE k == es[i + 1].key
               p == Paths[es[i + 1].key][power]
               S == {j \in DOMAIN p : bins[p[j]] \in {EMPTY_BIN, DELETED_BIN}}
               b == p[Min(S)]
               L == 1..i
               new == [bins EXCEPT ![b] = (i + 1) + 1]
    <2>1. t = Table(power, es, 0, n, bins) /\ bins \in [BinsOf(power) -> Nat]
          /\ Index(power, bins, es, L) /\ Cardinality(Taken(power, bins)) <= i
      BY <1>4 DEF HalfMade
    <2>2. t.entry_power = power
      <3> HIDE DEF bins, n
      <3> QED  BY <2>1, TableFields
    <2>3. find_table_bin_ind_direct(t, k) = b
      <3>1. Path(t, k) = p  BY <2>2 DEF Path
      <3>2. Places(t, k) = S  BY <3>1 DEF Places
      <3> HIDE DEF p, S, k
      <3> QED  BY <3>1, <3>2 DEF find_table_bin_ind_direct
    <2>4. u = Enter(t, i + 1, b)  BY <1>4, <2>3 DEF FillStep
    <2>5. u = Table(power, es, 0, n, new)
      <3> DEFINE l == i + 1
      <3>1. l \in Nat  BY <1>2
      <3>2. u = Enter(t, l, b)  BY <2>4
      <3> DEFINE zero == 0
      <3> HIDE DEF l, b, bins, n, u, zero
      <3>3. Enter(t, l, b) = Table(power, es, zero, n, [bins EXCEPT ![b] = l + 1])
        <4>1. t = Table(power, es, zero, n, bins)  BY <2>1 DEF zero
        <4>2. /\ t.entry_power = power /\ t.entries = es /\ t.entries_start = zero
              /\ t.num_entries = n /\ t.bins = bins /\ IsRecord(t)
          BY <4>1, TableFields DEF IsRecord
        <4>3. Enter(t, l, b) = Table(t.entry_power, t.entries, t.entries_start, t.num_entries,
                                     [t.bins EXCEPT ![b] = l + 1])
          BY <3>1, <4>2, EnterFields
        <4> QED  BY <4>2, <4>3
      <3> QED  BY <3>2, <3>3 DEF l, zero
    <2>6. Enterable(power, bins, es, L, i + 1)
      <3>1. IsFiniteSet(L) /\ Cardinality(L) = i  BY <1>2, FS_Interval
      <3>2. L \subseteq Nat \ {0} /\ Cardinality(L) <= Pow2[power]
        BY <1>1, <1>2, <3>1, Sizes
      <3>3. \A l \in L \cup {i + 1} : es[l].key \in Key  BY <1>1, <1>2
      <3>4. i + 1 \in Nat /\ i + 1 # 0 /\ i + 1 \notin L  BY <1>2
      <3> HIDE DEF L, bins
      <3> QED  BY <1>1, <2>1, <3>1, <3>2, <3>3, <3>4 DEF Enterable
    <2>7. Entered(power, bins, new, es, L, i + 1, b)
      <3> DEFINE l == i + 1
      <3>1. /\ S = {j \in DOMAIN Paths[es[l].key][power] :
                     bins[Paths[es[l].key][power][j]] \in {EMPTY_BIN, DELETED_BIN}}
            /\ b = Paths[es[l].key][power][Min(S)]
        OBVIOUS
      <3> HIDE DEF S, b, L, l, bins
      <3> QED  BY <2>6, <3>1, EnterIndex DEF l
    <2>8. u.bins = new
      <3> HIDE DEF new, u, n
      <3> QED  BY <2>5, TableFields
    <2>9. /\ new \in [BinsOf(power) -> Nat] /\ Index(power, new, es, L \cup {i + 1})
          /\ Taken(power, new) = Taken(power, bins) \cup {b}
      BY <2>7 DEF Entered
    <2>10. Cardinality(Taken(power, new)) <= i + 1
      <3> DEFINE T == Taken(power, bins)
      <3>1. T \in SUBSET BinsOf(power) /\ IsFiniteSet(BinsOf(power))  BY <1>1, Sizes DEF Taken
      <3>2. IsFiniteSet(T) /\ Cardinality(T) <= i  BY <2>1, <3>1, FS_Subset
      <3> HIDE DEF T, b
      <3>3. Cardinality(T) \in Nat  BY <3>2, FS_CardinalityType
      <3>4. Cardinality(T \cup {b}) = IF b \in T THEN Cardinality(T) ELSE Cardinality(T) + 1
        BY <3>2, FS_AddElement
      <3>5. Cardinality(T \cup {b}) <= i + 1  BY <1>2, <3>2, <3>3, <3>4
      <3>6. Taken(power, new) = T \cup {b}  BY <2>9 DEF T
      <3> QED  BY <3>5, <3>6
    <2>11. L \cup {i + 1} = 1..(i + 1)  BY <1>2
    <2>12. u = Table(power, es, 0, Len(es), u.bins)  BY <2>5, <2>8
    <2> HIDE DEF new, L, u, bins, b, n
    <2> QED  BY <2>8, <2>9, <2>10, <2>11, <2>12 DEF HalfMade
  <1> QED  BY <1>3, <1>4

\* Filled makes a table of them.
LEMMA FilledLemma ==
    ASSUME NEW es, NEW power, Makeable(es, power)
    PROVE  Made(Filled(es, power), es, power)
  <1> DEFINE n == Len(es)
             u == Filled(es, power)
  <1>1. /\ power \in MINIMAL_POWER2..MAX_POWER2 /\ n \in Nat /\ n <= Pow2[power]
        /\ es \in Seq([key : Key, record : Value]) /\ Distinct(es, 1..n)
    BY LenProperties DEF Makeable
  <1>2. PICK f : /\ f[0] = Table(power, es, 0, n, EmptyBins(power))
                 /\ \A i \in 0..(n - 1) : f[i + 1] = FillStep(es, i + 1, f[i])
                 /\ u = f[n]
    BY <1>1, FilledSteps
  <1> DEFINE T == {i \in 0..n : HalfMade(f[i], es, power, i)}
  <1>3. 0 \in T
    <2> DEFINE bins == EmptyBins(power)
    <2>1. f[0] = Table(power, es, 0, n, bins)  BY <1>2
    <2>2. f[0].bins = bins
      <3> HIDE DEF bins, n
      <3> QED  BY <2>1, TableFields
    <2>3. bins # NoBins => /\ bins \in [BinsOf(power) -> Nat] /\ Index(power, bins, es, {})
                           /\ Cardinality(Taken(power, bins)) = 0
      BY <1>1, EmptyBinsFacts
    <2>4. 1..0 = {}  OBVIOUS
    <2> HIDE DEF bins
    <2>5. HalfMade(f[0], es, power, 0)  BY <2>1, <2>2, <2>3, <2>4 DEF HalfMade
    <2> QED  BY <1>1, <2>5
  <1>4. ASSUME NEW i \in 0..(n - 1), i \in T  PROVE i + 1 \in T
    <2>1. HalfMade(f[i], es, power, i)  BY <1>4
    <2>2. HalfMade(FillStep(es, i + 1, f[i]), es, power, i + 1)
      <3> DEFINE t == f[i]
      <3>1. HalfMade(t, es, power, i)  BY <2>1
      <3> HIDE DEF t
      <3> QED  BY <3>1, MakeStep DEF t
    <2>3. HalfMade(f[i + 1], es, power, i + 1)  BY <1>2, <2>2
    <2> QED  BY <1>1, <2>3
  <1>5. HalfMade(u, es, power, n)
    <2>1. n \in T
      <3>1. n \in Nat  BY <1>1
      <3> HIDE DEF T, n
      <3>2. \A i \in 0..n : i \in T  BY <1>3, <1>4, <3>1, FiniteInduction
      <3> QED  BY <3>1, <3>2
    <2> QED  BY <1>2, <2>1
  <1>14. DOMAIN es = 1..n /\ n \in Nat  BY <1>1, LenProperties
  <1>15. \A i \in 1..n : es[i].key # NoKey
    <2>1. \A i \in 1..n : es[i] \in [key : Key, record : Value]  BY <1>1, ElementOfSeq
    <2> HIDE DEF n
    <2> QED  BY <2>1, StAssumption
  <1>16. es \in Seq(Entry)
    <2>1. \A i \in 1..Len(es) : es[i] \in [key : Key, record : Value]  BY <1>1, ElementOfSeq
    <2>2. \A i \in 1..Len(es) : es[i] \in Entry  BY <2>1 DEF Entry
    <2> QED  BY <1>1, <2>2
  <1> DEFINE bins == u.bins
  <1>6. /\ u = Table(power, es, 0, n, bins)
        /\ bins = NoBins \/ bins \in [BinsOf(power) -> Nat]
        /\ bins # NoBins => Index(power, bins, es, 1..n) /\ Cardinality(Taken(power, bins)) <= n
    BY <1>5 DEF HalfMade
  <1>7. /\ u.entry_power = power /\ u.entries = es /\ u.entries_start = 0 /\ u.num_entries = n
        /\ u = Table(u.entry_power, u.entries, u.entries_start, u.num_entries, u.bins)
    <2> DEFINE zero == 0
    <2>1. u = Table(power, es, zero, n, bins)  BY <1>6
    <2> HIDE DEF bins, n, u, zero
    <2>2. /\ u.entry_power = power /\ u.entries = es /\ u.entries_start = zero /\ u.num_entries = n
          /\ u = Table(u.entry_power, u.entries, u.entries_start, u.num_entries, u.bins)
      BY <2>1, TableFields
    <2> QED  BY <2>2 DEF zero
  <1> DEFINE m == Len(es)
  <1>17. Len(es) = n  OBVIOUS
  <1> HIDE DEF u, n
  <1>8. Live(u) = 1..n  BY <1>14, <1>15, <1>7 DEF Live
  <1>9. IsTable(u)
    <2>1. 0 \in 0..n  BY <1>14
    <2> QED  BY <1>1, <1>16, <1>17, <1>6, <1>7, <2>1 DEF IsTable
  <1>10. Cardinality(1..n) = n  BY <1>14, FS_Interval
  <1>11. GoodTable(u)  BY <1>1, <1>6, <1>7, <1>8, <1>9, <1>10 DEF GoodTable
  <1>12. FewTaken(u, n)  BY <1>6, <1>7 DEF FewTaken
  <1>13. Made(u, es, power)  BY <1>17, <1>7, <1>8, <1>11, <1>12 DEF Made
  <1> QED  BY <1>13 DEF u
-----------------------------------------------------------------------------
(* Ranks in a set of numbers. *)

\* How many elements of L there are up to i.
RankIn(L, i) == Cardinality({j \in L : j <= i})

\* A finite set of numbers.
FiniteOfNat(L) == L \subseteq Nat /\ IsFiniteSet(L)

\* Ranks are numbers up to the size of the set.
LEMMA RankType ==
    ASSUME NEW L, FiniteOfNat(L), NEW i
    PROVE  /\ RankIn(L, i) \in Nat /\ Cardinality(L) \in Nat
           /\ RankIn(L, i) <= Cardinality(L)
           /\ IsFiniteSet({j \in L : j <= i})
  <1> DEFINE S == {j \in L : j <= i}
  <1>1. IsFiniteSet(L) /\ S \in SUBSET L  BY DEF FiniteOfNat
  <1>2. IsFiniteSet(S) /\ Cardinality(S) <= Cardinality(L)  BY <1>1, FS_Subset
  <1>3. Cardinality(S) \in Nat /\ Cardinality(L) \in Nat  BY <1>1, <1>2, FS_CardinalityType
  <1> QED  BY <1>2, <1>3 DEF RankIn

\* The ranks of the elements of L are 1, 2, ... in their order.
LEMMA RankBounds ==
    ASSUME NEW L, FiniteOfNat(L), NEW i \in L
    PROVE  RankIn(L, i) \in 1..Cardinality(L)
  <1> DEFINE S == {j \in L : j <= i}
  <1>1. i \in S  BY DEF FiniteOfNat
  <1>2. IsFiniteSet(S) /\ Cardinality(S) \in Nat /\ Cardinality(L) \in Nat /\ Cardinality(S) <= Cardinality(L)
    BY RankType DEF RankIn
  <1>3. Cardinality(S) # 0
    <2> HIDE DEF S
    <2> QED  BY <1>1, <1>2, FS_EmptySet
  <1> HIDE DEF S
  <1>4. Cardinality(S) \in 1..Cardinality(L)  BY <1>2, <1>3
  <1> QED  BY <1>4 DEF S, RankIn

\* A larger element has a larger rank.
LEMMA RankOrder ==
    ASSUME NEW L, FiniteOfNat(L), NEW i \in Nat, NEW j \in L, i < j
    PROVE  RankIn(L, i) < RankIn(L, j)
  <1> DEFINE S == {l \in L : l <= i}
             T == {l \in L : l <= j}
  <1>0. L \subseteq Nat  BY DEF FiniteOfNat
  <1>1. S \in SUBSET T /\ j \in T /\ j \notin S
    <2>1. i \in Nat /\ j \in Nat /\ \A l \in L : l \in Nat  BY <1>0
    <2>2. \A l \in L : l <= i => l <= j  BY <2>1
    <2>3. j <= j /\ ~(j <= i)  BY <2>1
    <2> QED  BY <2>2, <2>3
  <1>2. IsFiniteSet(S) /\ IsFiniteSet(T) /\ Cardinality(S) \in Nat /\ Cardinality(T) \in Nat
    BY RankType DEF RankIn
  <1> HIDE DEF S, T
  <1>3. Cardinality(S) <= Cardinality(T) /\ Cardinality(T) # Cardinality(S)
    BY <1>1, <1>2, FS_Subset
  <1>4. Cardinality(S) < Cardinality(T)  BY <1>2, <1>3
  <1> QED  BY <1>4 DEF S, T, RankIn

\* Ranks do not decrease.
LEMMA RankMonotonic ==
    ASSUME NEW L, FiniteOfNat(L), NEW i \in Nat, NEW j \in Nat, i <= j
    PROVE  RankIn(L, i) <= RankIn(L, j)
  <1> DEFINE S == {l \in L : l <= i}
             T == {l \in L : l <= j}
  <1>1. S \in SUBSET T
    <2>1. \A l \in L : l \in Nat  BY DEF FiniteOfNat
    <2>2. \A l \in L : l <= i => l <= j  BY <2>1
    <2> QED  BY <2>2
  <1>2. IsFiniteSet(T)  BY RankType
  <1> HIDE DEF S, T
  <1>3. Cardinality(S) <= Cardinality(T)  BY <1>1, <1>2, FS_Subset
  <1> QED  BY <1>3 DEF S, T, RankIn

\* Every number up to the size of L is the rank of an element.
LEMMA RankOnto ==
    ASSUME NEW L, FiniteOfNat(L), NEW n \in 1..Cardinality(L)
    PROVE  \E i \in L : RankIn(L, i) = n
  <1> DEFINE m == Cardinality(L)
             f == [i \in L |-> RankIn(L, i)]
  <1>0. L \subseteq Nat /\ IsFiniteSet(L) /\ m \in Nat  BY FS_CardinalityType DEF FiniteOfNat
  <1>1. f \in [L -> 1..m]  BY RankBounds
  <1>2. ASSUME NEW i \in L, NEW j \in L, f[i] = f[j]  PROVE i = j
    <2>1. RankIn(L, i) = RankIn(L, j) /\ RankIn(L, i) \in Nat  BY <1>2, RankType
    <2>2. CASE i < j  BY <1>0, <2>1, <2>2, RankOrder
    <2>3. CASE j < i  BY <1>0, <2>1, <2>3, RankOrder
    <2> QED  BY <1>0, <2>2, <2>3
  <1>3. n \in 1..m  OBVIOUS
  <1>4. IsFiniteSet(1..m) /\ Cardinality(1..m) = m
    <2> HIDE DEF m
    <2> QED  BY <1>0, FS_Interval
  <1>5. \E i \in L : f[i] = n
    <2>1. Cardinality(L) = Cardinality(1..m)  BY <1>4
    <2> HIDE DEF f, m
    <2>2. f \in Injection(L, 1..m)  BY <1>1, <1>2 DEF Injection, IsInjective
    <2>3. f \in Surjection(L, 1..m)  BY <1>4, <2>1, <2>2, FS_Injection
    <2> QED  BY <1>3, <2>3 DEF Surjection
  <1> QED  BY <1>5

\* An element added at the end.
LEMMA RankAdd ==
    ASSUME NEW L, FiniteOfNat(L), NEW x \in Nat, \A j \in L : j < x
    PROVE  /\ FiniteOfNat(L \cup {x}) /\ Cardinality(L \cup {x}) = Cardinality(L) + 1
           /\ \A i \in Nat : i < x => RankIn(L \cup {x}, i) = RankIn(L, i)
           /\ RankIn(L \cup {x}, x) = Cardinality(L) + 1
  <1>0. L \subseteq Nat /\ IsFiniteSet(L)  BY DEF FiniteOfNat
  <1>1. x \notin L  BY <1>0
  <1>2. IsFiniteSet(L \cup {x}) /\ Cardinality(L \cup {x}) = Cardinality(L) + 1
    BY <1>0, <1>1, FS_AddElement
  <1>3. ASSUME NEW i \in Nat, i < x  PROVE RankIn(L \cup {x}, i) = RankIn(L, i)
    <2>1. {j \in L \cup {x} : j <= i} = {j \in L : j <= i}  BY <1>3
    <2> QED  BY <2>1 DEF RankIn
  <1>4. {j \in L \cup {x} : j <= x} = L \cup {x}
    <2>1. \A j \in L \cup {x} : j <= x  BY <1>0
    <2> QED  BY <2>1
  <1> QED  BY <1>0, <1>2, <1>3, <1>4 DEF RankIn, FiniteOfNat

\* An element removed: the ranks from it on are one less.
LEMMA RankRemove ==
    ASSUME NEW L, FiniteOfNat(L), NEW i \in L
    PROVE  /\ FiniteOfNat(L \ {i}) /\ Cardinality(L \ {i}) = Cardinality(L) - 1
           /\ \A j \in Nat : RankIn(L \ {i}, j) = IF j >= i THEN RankIn(L, j) - 1 ELSE RankIn(L, j)
  <1>0. L \subseteq Nat /\ IsFiniteSet(L)  BY DEF FiniteOfNat
  <1>1. IsFiniteSet(L \ {i}) /\ Cardinality(L \ {i}) = Cardinality(L) - 1
    BY <1>0, FS_RemoveElement
  <1>2. ASSUME NEW j \in Nat
        PROVE  RankIn(L \ {i}, j) = IF j >= i THEN RankIn(L, j) - 1 ELSE RankIn(L, j)
    <2> DEFINE S == {l \in L : l <= j}
    <2>1. {l \in L \ {i} : l <= j} = S \ {i}  OBVIOUS
    <2>2. i \in S <=> j >= i  BY <1>0
    <2>3. IsFiniteSet(S)  BY RankType
    <2>4. Cardinality(S \ {i}) = IF i \in S THEN Cardinality(S) - 1 ELSE Cardinality(S)
      <3> HIDE DEF S
      <3> QED  BY <2>3, FS_RemoveElement
    <2>5. RankIn(L \ {i}, j) = Cardinality(S \ {i}) /\ RankIn(L, j) = Cardinality(S)
      BY <2>1 DEF RankIn
    <2> HIDE DEF S
    <2> QED  BY <2>2, <2>4, <2>5
  <1> QED  BY <1>0, <1>1, <1>2 DEF FiniteOfNat

\* The ranks in 1..m are the numbers themselves.
LEMMA RankInterval ==
    ASSUME NEW m \in Nat
    PROVE  /\ FiniteOfNat(1..m) /\ Cardinality(1..m) = m
           /\ \A i \in 0..m : RankIn(1..m, i) = i
  <1>1. IsFiniteSet(1..m) /\ Cardinality(1..m) = m  BY FS_Interval
  <1>2. ASSUME NEW i \in 0..m  PROVE RankIn(1..m, i) = i
    <2>1. {j \in 1..m : j <= i} = 1..i  OBVIOUS
    <2>2. Cardinality(1..i) = i  BY FS_Interval
    <2> QED  BY <2>1, <2>2 DEF RankIn
  <1> QED  BY <1>1, <1>2 DEF FiniteOfNat

\* The next element has the next rank.
LEMMA RankNext ==
    ASSUME NEW L, FiniteOfNat(L), NEW i \in Nat, NEW rest, rest = {j \in L : j > i}
    PROVE  /\ rest = {} <=> RankIn(L, i) >= Cardinality(L)
           /\ rest # {} => /\ Min(rest) \in L /\ Min(rest) > i
                           /\ RankIn(L, Min(rest)) = RankIn(L, i) + 1
  <1>0. L \subseteq Nat /\ IsFiniteSet(L)  BY DEF FiniteOfNat
  <1> DEFINE S == {j \in L : j <= i}
  <1>1. S \in SUBSET L /\ (rest = {} <=> S = L)
    <2>1. \A j \in L : j <= i <=> ~(j > i)  BY <1>0
    <2> QED  BY <2>1
  <1>2. IsFiniteSet(S) /\ Cardinality(S) \in Nat /\ Cardinality(L) \in Nat /\ Cardinality(S) <= Cardinality(L)
    BY RankType DEF RankIn
  <1>3. S = L <=> Cardinality(S) >= Cardinality(L)
    <2> HIDE DEF S
    <2>1. Cardinality(L) = Cardinality(S) => S = L  BY <1>0, <1>1, FS_Subset
    <2> QED  BY <1>2, <2>1
  <1>4. ASSUME rest # {}
        PROVE  Min(rest) \in L /\ Min(rest) > i /\ RankIn(L, Min(rest)) = RankIn(L, i) + 1
    <2> DEFINE m == Min(rest)
    <2>1. rest \subseteq Nat  BY <1>0
    <2>2. m \in rest /\ \A y \in rest : m <= y  BY <1>4, <2>1, MinProperties
    <2> HIDE DEF m
    <2>3. m \in L /\ m > i /\ m \in Nat  BY <2>1, <2>2
    <2>4. {j \in L : j <= m} = S \cup {m} /\ m \notin S
      <3>1. \A j \in L : j <= m <=> (j <= i \/ j = m)
        <4> SUFFICES ASSUME NEW j \in L  PROVE j <= m <=> (j <= i \/ j = m)  OBVIOUS
        <4>1. j \in Nat /\ (j > i => m <= j)  BY <1>0, <2>2
        <4> QED  BY <2>3, <4>1
      <3>2. ~(m <= i)  BY <2>3
      <3> QED  BY <2>3, <3>1, <3>2
    <2>5. Cardinality(S \cup {m}) = Cardinality(S) + 1
      <3> HIDE DEF S
      <3> QED  BY <1>2, <2>4, FS_AddElement
    <2> QED  BY <2>3, <2>4, <2>5 DEF RankIn, m
  <1> QED  BY <1>1, <1>3, <1>4 DEF RankIn
-----------------------------------------------------------------------------
(* The sequence of entries. *)

\* A pair of a key and its value.
Pair == [key : Key, record : Value]

\* s is the sequence of the entries of es with the indices in L.
Lists(s, es, L) ==
    /\ s \in Seq(Pair) /\ Len(s) = Cardinality(L)
    /\ \A i \in L : s[RankIn(L, i)] = es[i]

\* There is one such sequence.
LEMMA ListsUnique ==
    ASSUME NEW L, FiniteOfNat(L), NEW es, NEW s, NEW r, Lists(s, es, L), Lists(r, es, L)
    PROVE  s = r
  <1>1. s \in Seq(Pair) /\ r \in Seq(Pair) /\ Len(s) = Len(r) /\ Len(s) = Cardinality(L)
    BY DEF Lists
  <1>2. ASSUME NEW n \in 1..Len(s)  PROVE s[n] = r[n]
    <2>1. PICK i \in L : RankIn(L, i) = n  BY <1>1, RankOnto
    <2> QED  BY <2>1 DEF Lists
  <1> QED  BY <1>1, <1>2, SeqEqual

\* It is LiveEntries.
LEMMA LiveLists ==
    ASSUME NEW t, IsTable(t)
    PROVE  FiniteOfNat(Live(t)) /\ Lists(LiveEntries(t), t.entries, Live(t))
  <1> DEFINE L == Live(t)
             m == Cardinality(L)
             s == LiveEntries(t)
             at(n) == CHOOSE i \in L : RankIn(L, i) = n
             f == [n \in 1..m |-> t.entries[at(n)]]
  <1>1. FiniteOfNat(L) /\ m \in Nat /\ \A i \in L : t.entries[i] \in Pair
    BY TableFacts DEF FiniteOfNat, Pair
  <1>2. s = f \o <<>>  BY DEF LiveEntries, Rank, RankIn
  <1> HIDE DEF L, m, s
  <1>3. ASSUME NEW n \in 1..m  PROVE at(n) \in L /\ RankIn(L, at(n)) = n
    <2>1. \E i \in L : RankIn(L, i) = n  BY <1>1, <1>3, RankOnto DEF m
    <2> QED  BY <2>1
  <1>4. ASSUME NEW i \in L  PROVE RankIn(L, i) \in 1..m /\ at(RankIn(L, i)) = i
    <2>1. RankIn(L, i) \in 1..m  BY <1>1, RankBounds DEF m
    <2> DEFINE c == at(RankIn(L, i))
    <2>2. c \in L /\ RankIn(L, c) = RankIn(L, i)  BY <1>3, <2>1
    <2> HIDE DEF c
    <2>3. c \in Nat /\ i \in Nat /\ RankIn(L, i) \in Nat  BY <1>1, <2>2, RankType DEF FiniteOfNat
    <2>4. ~(c < i)  BY <1>1, <2>2, <2>3, RankOrder
    <2>5. ~(i < c)  BY <1>1, <2>2, <2>3, RankOrder
    <2>6. c = i  BY <2>3, <2>4, <2>5
    <2> QED  BY <2>1, <2>6 DEF c
  <1>5. s = f /\ s \in [1..m -> Pair]
    <2>1. \A n \in 1..m : t.entries[at(n)] \in Pair  BY <1>1, <1>3
    <2> HIDE DEF at
    <2>2. f \in [1..m -> Pair]  BY <2>1
    <2> HIDE DEF f
    <2>3. f \in Seq(Pair)  BY <1>1, <2>2
    <2> QED  BY <1>2, <2>2, <2>3, ConcatEmptySeq
  <1>6. \A i \in L : s[RankIn(L, i)] = t.entries[i]
    <2> SUFFICES ASSUME NEW i \in L  PROVE s[RankIn(L, i)] = t.entries[i]  OBVIOUS
    <2>1. RankIn(L, i) \in 1..m /\ at(RankIn(L, i)) = i  BY <1>4
    <2> HIDE DEF at
    <2> QED  BY <1>5, <2>1
  <1>7. s \in Seq(Pair) /\ Len(s) = m  BY <1>1, <1>5
  <1> QED  BY <1>1, <1>6, <1>7 DEF Lists, L, s, m

\* The sequence after an entry was added,
LEMMA ListsAdd ==
    ASSUME NEW L, FiniteOfNat(L), NEW es, NEW s, Lists(s, es, L),
           NEW x \in Nat, \A j \in L : j < x,
           NEW fs, fs[x] \in Pair, \A j \in L : fs[j] = es[j]
    PROVE  Lists(Append(s, fs[x]), fs, L \cup {x})
  <1> DEFINE e == fs[x]
             r == Append(s, e)
             m == Cardinality(L)
             K == L \cup {x}
  <1>1. s \in Seq(Pair) /\ Len(s) = m /\ \A i \in L : s[RankIn(L, i)] = es[i]  BY DEF Lists
  <1>2. Cardinality(K) = m + 1 /\ RankIn(K, x) = m + 1
        /\ \A i \in L : RankIn(K, i) = RankIn(L, i)
    <2>1. /\ Cardinality(K) = m + 1 /\ RankIn(K, x) = m + 1
          /\ \A i \in Nat : i < x => RankIn(K, i) = RankIn(L, i)
      BY RankAdd
    <2>2. L \subseteq Nat  BY DEF FiniteOfNat
    <2> QED  BY <2>1, <2>2
  <1>3. \A i \in L : RankIn(L, i) \in 1..m  BY RankBounds
  <1> HIDE DEF e
  <1>4. r \in Seq(Pair) /\ Len(r) = m + 1 /\ r[m + 1] = e /\ \A n \in 1..m : r[n] = s[n]
    <2>1. e \in Pair  BY DEF e
    <2> QED  BY <1>1, <2>1, AppendProperties
  <1> HIDE DEF r
  <1>5. \A i \in K : r[RankIn(K, i)] = fs[i]
    <2>1. r[RankIn(K, x)] = fs[x]  BY <1>2, <1>4 DEF e
    <2>2. \A i \in L : r[RankIn(K, i)] = fs[i]  BY <1>1, <1>2, <1>3, <1>4
    <2> QED  BY <2>1, <2>2
  <1>6. Lists(r, fs, K)  BY <1>2, <1>4, <1>5 DEF Lists
  <1> QED  BY <1>6 DEF r, e

\* after one got a new value,
LEMMA ListsUpdate ==
    ASSUME NEW L, FiniteOfNat(L), NEW es, NEW s, Lists(s, es, L),
           NEW i \in L, NEW fs, fs[i] \in Pair, \A j \in L \ {i} : fs[j] = es[j]
    PROVE  Lists([s EXCEPT ![RankIn(L, i)] = fs[i]], fs, L)
  <1> DEFINE e == fs[i]
             n == RankIn(L, i)
             r == [s EXCEPT ![n] = e]
  <1>1. s \in Seq(Pair) /\ Len(s) = Cardinality(L) /\ \A j \in L : s[RankIn(L, j)] = es[j]
    BY DEF Lists
  <1>2. n \in 1..Len(s) /\ e \in Pair /\ Len(s) \in Nat  BY <1>1, RankBounds, RankType
  <1>3. ASSUME NEW j \in L, j # i  PROVE RankIn(L, j) # n /\ RankIn(L, j) \in 1..Len(s)
    <2>1. i \in Nat /\ j \in Nat  BY DEF FiniteOfNat
    <2>2. RankIn(L, i) \in Nat /\ RankIn(L, j) \in Nat  BY RankType
    <2>3. CASE i < j  BY <1>1, <2>1, <2>2, <2>3, RankOrder, RankBounds
    <2>4. CASE j < i  BY <1>1, <2>1, <2>2, <2>4, RankOrder, RankBounds
    <2> QED  BY <1>3, <2>1, <2>3, <2>4
  <1>4. n = RankIn(L, i) /\ e = fs[i]  OBVIOUS
  <1> HIDE DEF n, e
  <1>5. /\ r \in Seq(Pair) /\ Len(r) = Len(s) /\ r[n] = e
        /\ \A l \in 1..Len(s) : l # n => r[l] = s[l]
    BY <1>1, <1>2, ExceptSeq
  <1> HIDE DEF r
  <1>6. \A j \in L : r[RankIn(L, j)] = fs[j]
    <2> SUFFICES ASSUME NEW j \in L  PROVE r[RankIn(L, j)] = fs[j]  OBVIOUS
    <2>1. CASE j = i  BY <1>4, <1>5, <2>1
    <2>2. CASE j # i  BY <1>1, <1>3, <1>5, <2>2
    <2> QED  BY <2>1, <2>2
  <1>7. Lists(r, fs, L)  BY <1>1, <1>5, <1>6 DEF Lists
  <1> QED  BY <1>7 DEF r, n, e

\* The elements of RemoveAt.
LEMMA RemoveAtParts ==
    ASSUME NEW S, NEW q \in Seq(S), NEW i \in 1..Len(q)
    PROVE  /\ RemoveAt(q, i) \in Seq(S) /\ Len(RemoveAt(q, i)) = Len(q) - 1
           /\ \A m \in 1..(Len(q) - 1) : RemoveAt(q, i)[m] = IF m < i THEN q[m] ELSE q[m + 1]
  <1> DEFINE n == Len(q)
             a == SubSeq(q, 1, i - 1)
             b == SubSeq(q, i + 1, n)
             r == a \o b
  <1>0. n \in Nat /\ i \in 1..n /\ \A j \in 1..n : q[j] \in S  BY LenProperties, ElementOfSeq
  <1>1. RemoveAt(q, i) = r  BY DEF RemoveAt
  <1> HIDE DEF n
  <1>2. a \in Seq(S) /\ Len(a) = i - 1 /\ \A j \in 1..(i - 1) : a[j] = q[j]
    <2>1. \A j \in 1..(i - 1) : q[j] \in S  BY <1>0
    <2>2. i - 1 \in Int /\ 1 \in Int  BY <1>0
    <2>3. /\ a \in Seq(S) /\ Len(a) = IF 1 <= i - 1 THEN (i - 1) - 1 + 1 ELSE 0
          /\ \A j \in 1..((i - 1) - 1 + 1) : a[j] = q[1 + j - 1]
      BY <2>1, <2>2, SubSeqProperties
    <2> HIDE DEF a
    <2>4. \A j \in 1..(i - 1) : 1 + j - 1 = j /\ j \in 1..((i - 1) - 1 + 1)  BY <1>0
    <2> QED  BY <1>0, <2>3, <2>4
  <1>3. b \in Seq(S) /\ Len(b) = n - i /\ \A j \in 1..(n - i) : b[j] = q[i + j]
    <2>1. \A j \in (i + 1)..n : q[j] \in S  BY <1>0
    <2>2. i + 1 \in Int /\ n \in Int  BY <1>0
    <2>3. /\ b \in Seq(S) /\ Len(b) = IF i + 1 <= n THEN n - (i + 1) + 1 ELSE 0
          /\ \A j \in 1..(n - (i + 1) + 1) : b[j] = q[(i + 1) + j - 1]
      BY <2>1, <2>2, SubSeqProperties
    <2> HIDE DEF b
    <2>4. \A j \in 1..(n - i) : (i + 1) + j - 1 = i + j /\ j \in 1..(n - (i + 1) + 1)  BY <1>0
    <2> QED  BY <1>0, <2>3, <2>4
  <1> HIDE DEF a, b
  <1>4. /\ r \in Seq(S) /\ Len(r) = Len(a) + Len(b)
        /\ \A m \in 1..(Len(a) + Len(b)) : r[m] = IF m <= Len(a) THEN a[m] ELSE b[m - Len(a)]
    BY <1>2, <1>3, ConcatProperties
  <1> HIDE DEF r
  <1>5. Len(a) + Len(b) = n - 1  BY <1>0, <1>2, <1>3
  <1>6. ASSUME NEW m \in 1..(n - 1)  PROVE r[m] = IF m < i THEN q[m] ELSE q[m + 1]
    <2>1. CASE m < i
      <3>1. m <= Len(a) /\ m \in 1..(i - 1)  BY <1>0, <1>2, <2>1
      <3> QED  BY <1>2, <1>4, <1>5, <2>1, <3>1
    <2>2. CASE ~(m < i)
      <3>1. ~(m <= Len(a)) /\ m - Len(a) \in 1..(n - i) /\ i + (m - Len(a)) = m + 1
        BY <1>0, <1>2, <2>2
      <3>2. r[m] = b[m - Len(a)]  BY <1>4, <1>5, <3>1
      <3>3. b[m - Len(a)] = q[i + (m - Len(a))]  BY <1>3, <3>1
      <3> QED  BY <2>2, <3>1, <3>2, <3>3
    <2> QED  BY <2>1, <2>2
  <1> QED  BY <1>1, <1>4, <1>5, <1>6 DEF n

\* and after one was removed.
LEMMA ListsRemove ==
    ASSUME NEW L, FiniteOfNat(L), NEW es, NEW s, Lists(s, es, L),
           NEW i \in L, NEW fs, \A j \in L \ {i} : fs[j] = es[j]
    PROVE  Lists(RemoveAt(s, RankIn(L, i)), fs, L \ {i})
  <1> DEFINE n == RankIn(L, i)
             r == RemoveAt(s, n)
             m == Cardinality(L)
             K == L \ {i}
  <1>1. s \in Seq(Pair) /\ Len(s) = m /\ \A j \in L : s[RankIn(L, j)] = es[j]  BY DEF Lists
  <1>2. n \in 1..m /\ m \in Nat  BY RankBounds, RankType
  <1>3. /\ Cardinality(K) = m - 1
        /\ \A j \in Nat : RankIn(K, j) = IF j >= i THEN RankIn(L, j) - 1 ELSE RankIn(L, j)
    BY RankRemove
  <1> HIDE DEF m
  <1>4. /\ r \in Seq(Pair) /\ Len(r) = m - 1
        /\ \A l \in 1..(m - 1) : r[l] = IF l < n THEN s[l] ELSE s[l + 1]
    <2> HIDE DEF n
    <2> QED  BY <1>1, <1>2, RemoveAtParts
  <1>5. ASSUME NEW j \in K  PROVE r[RankIn(K, j)] = fs[j]
    <2> DEFINE p == RankIn(L, j)
    <2>1. j \in L /\ i \in Nat /\ j \in Nat /\ j # i  BY <1>5 DEF FiniteOfNat
    <2>2. p \in 1..m  BY <2>1, RankBounds DEF m
    <2>3. s[p] = fs[j]  BY <1>1, <2>1
    <2>4. CASE j < i
      <3>1. p < n  BY <2>1, <2>4, RankOrder
      <3>2. RankIn(K, j) = p  BY <1>3, <2>1, <2>4
      <3> HIDE DEF p, n, r
      <3>3. p \in 1..(m - 1)  BY <1>2, <2>2, <3>1
      <3>4. r[p] = s[p]  BY <1>4, <3>1, <3>3
      <3> QED  BY <2>3, <3>2, <3>4
    <2>5. CASE j > i
      <3>1. n < p  BY <2>1, <2>5, RankOrder
      <3>2. RankIn(K, j) = p - 1  BY <1>3, <2>1, <2>5
      <3> HIDE DEF p, n, r
      <3>3. p - 1 \in 1..(m - 1) /\ ~(p - 1 < n) /\ (p - 1) + 1 = p  BY <1>2, <2>2, <3>1
      <3>4. r[p - 1] = s[p]  BY <1>4, <3>3
      <3> QED  BY <2>3, <3>2, <3>4
    <2> QED  BY <2>1, <2>4, <2>5
  <1> HIDE DEF n, r, K
  <1>6. Lists(r, fs, K)  BY <1>3, <1>4, <1>5 DEF Lists
  <1> QED  BY <1>6 DEF r, n, K

\* A sequence lists itself.
LEMMA ListsSelf ==
    ASSUME NEW s \in Seq(Pair)
    PROVE  Lists(s, s, 1..Len(s))
  <1>1. Len(s) \in Nat  BY LenProperties
  <1> DEFINE m == Len(s)
  <1>2. Cardinality(1..m) = m /\ \A i \in 0..m : RankIn(1..m, i) = i
    <2>1. m \in Nat  BY <1>1
    <2> HIDE DEF m
    <2> QED  BY <2>1, RankInterval
  <1>3. \A i \in 1..m : s[RankIn(1..m, i)] = s[i]
    <2>1. \A i \in 1..m : i \in 0..m  BY <1>1
    <2> QED  BY <1>2, <2>1
  <1> QED  BY <1>2, <1>3 DEF Lists

\* The keys of the sequence are those of the entries, each at the rank of its entry.
LEMMA ListsKeys ==
    ASSUME NEW L, FiniteOfNat(L), NEW es, NEW s, Lists(s, es, L), Distinct(es, L)
    PROVE  /\ Distinct(s, 1..Len(s)) /\ DOMAIN s = 1..Len(s)
           /\ \A n \in 1..Len(s) : \E i \in L : RankIn(L, i) = n /\ s[n] = es[i]
           /\ \A k : (\E i \in L : es[i].key = k) <=> (\E n \in 1..Len(s) : s[n].key = k)
           /\ \A i \in L : (CHOOSE n \in DOMAIN s : s[n].key = es[i].key) = RankIn(L, i)
  <1>1. /\ s \in Seq(Pair) /\ Len(s) = Cardinality(L) /\ DOMAIN s = 1..Len(s)
        /\ \A i \in L : s[RankIn(L, i)] = es[i]
    BY LenProperties DEF Lists
  <1>2. ASSUME NEW n \in 1..Len(s)  PROVE \E i \in L : RankIn(L, i) = n /\ s[n] = es[i]
    <2>1. PICK i \in L : RankIn(L, i) = n  BY <1>1, RankOnto
    <2> QED  BY <1>1, <2>1
  <1>3. \A i \in L : RankIn(L, i) \in 1..Len(s)  BY <1>1, RankBounds
  <1>4. ASSUME NEW n \in 1..Len(s), NEW m \in 1..Len(s), s[n].key = s[m].key  PROVE n = m
    <2>1. PICK i \in L : RankIn(L, i) = n /\ s[n] = es[i]  BY <1>2
    <2>2. PICK j \in L : RankIn(L, j) = m /\ s[m] = es[j]  BY <1>2
    <2>3. i = j  BY <1>4, <2>1, <2>2 DEF Distinct
    <2> QED  BY <2>1, <2>2, <2>3
  <1>5. \A k : (\E i \in L : es[i].key = k) <=> (\E n \in 1..Len(s) : s[n].key = k)
    BY <1>1, <1>2, <1>3
  <1>6. ASSUME NEW i \in L  PROVE (CHOOSE n \in DOMAIN s : s[n].key = es[i].key) = RankIn(L, i)
    <2> DEFINE m == RankIn(L, i)
    <2>1. m \in DOMAIN s /\ s[m].key = es[i].key  BY <1>1, <1>3
    <2> HIDE DEF m
    <2>2. \A n \in DOMAIN s : s[n].key = es[i].key => n = m  BY <1>1, <1>4, <2>1
    <2>3. (CHOOSE n \in DOMAIN s : s[n].key = es[i].key) = m  BY <2>1, <2>2
    <2> QED  BY <2>3 DEF m
  <1> QED  BY <1>1, <1>2, <1>4, <1>5, <1>6 DEF Distinct
-----------------------------------------------------------------------------
(* Rebuilding. *)

\* Pow2 is monotonic.
LEMMA Pow2Order ==
    ASSUME NEW r \in MINIMAL_POWER2..MAX_POWER2, NEW s \in MINIMAL_POWER2..MAX_POWER2, r <= s
    PROVE  Pow2[r] <= Pow2[s]
  <1>1. r \in 0..(MAX_POWER2 + 1) /\ s \in 0..(MAX_POWER2 + 1)  BY StAssumption
  <1>2. PICK M \in Nat : M >= 1 /\ Pow2[s] = Pow2[r] * M  BY <1>1, Pow2Divides
  <1> DEFINE x == Pow2[r]
  <1>3. x \in Nat  BY <1>1, Pow2Positive
  <1> HIDE DEF x
  <1>4. x <= x * M  BY <1>2, <1>3
  <1> QED  BY <1>2, <1>4 DEF x

\* get_power2 gives a size that is large enough, if there is one.
LEMMA Power2 ==
    ASSUME NEW size \in Nat, size < Pow2[MAX_POWER2]
    PROVE  get_power2(size) \in MINIMAL_POWER2..MAX_POWER2 /\ size < Pow2[get_power2(size)]
  <1> DEFINE S == {n \in MINIMAL_POWER2..MAX_POWER2 : Pow2[n] > size}
  <1>1. MAX_POWER2 \in S /\ S \subseteq Nat
    <2>1. MAX_POWER2 \in MINIMAL_POWER2..MAX_POWER2 /\ S \subseteq Nat  BY StAssumption
    <2>2. Pow2[MAX_POWER2] \in Nat  BY <2>1, Sizes
    <2> QED  BY <2>1, <2>2
  <1>2. PICK x \in S : \A y \in S : x <= y
    <2> HIDE DEF S
    <2> QED  BY <1>1, LeastExists
  <1> DEFINE P(n) == Pow2[n] > size /\ \A m \in MINIMAL_POWER2..(n - 1) : Pow2[m] <= size
  <1>3. P(x)
    <2>1. x \in Nat /\ x <= MAX_POWER2 /\ MINIMAL_POWER2 \in Nat /\ MAX_POWER2 \in Nat
      BY <1>1, StAssumption
    <2>2. ASSUME NEW m \in MINIMAL_POWER2..(x - 1)  PROVE Pow2[m] <= size
      <3>1. m \in MINIMAL_POWER2..MAX_POWER2 /\ ~(x <= m)  BY <2>1
      <3>2. m \notin S  BY <1>2, <3>1
      <3>3. Pow2[m] \in Nat  BY <3>1, Sizes
      <3> QED  BY <3>1, <3>2, <3>3
    <2> QED  BY <1>2, <2>2
  <1>4. get_power2(size) = CHOOSE n \in MINIMAL_POWER2..MAX_POWER2 : P(n)  BY DEF get_power2
  <1>5. \E n \in MINIMAL_POWER2..MAX_POWER2 : P(n)
    <2> HIDE DEF P
    <2> QED  BY <1>2, <1>3
  <1> DEFINE g == get_power2(size)
  <1>6. g \in MINIMAL_POWER2..MAX_POWER2 /\ P(g)
    <2> HIDE DEF P
    <2> QED  BY <1>4, <1>5
  <1> HIDE DEF g
  <1>7. Pow2[g] \in Nat  BY <1>6, Sizes
  <1> QED  BY <1>6, <1>7 DEF g

\* There are not more entries than keys.
LEMMA CountByKeys ==
    ASSUME NEW t, IsTable(t), Distinct(t.entries, Live(t))
    PROVE  2 * Cardinality(Live(t)) <= Pow2[MAX_POWER2] /\ Pow2[MAX_POWER2] \in Nat
  <1> DEFINE L == Live(t)
             f == [i \in L |-> t.entries[i].key]
  <1>1. /\ f \in [L -> Key] /\ \A i, j \in L : f[i] = f[j] => i = j
        /\ Cardinality(L) \in Nat
    BY TableFacts DEF Distinct
  <1>2. IsFiniteSet(Key) /\ 2 * Cardinality(Key) <= Pow2[MAX_POWER2]  BY SizeAssumption
  <1>3. Cardinality(Key) \in Nat  BY <1>2, FS_CardinalityType
  <1> HIDE DEF L, f
  <1>4. f \in Injection(L, Key)  BY <1>1 DEF Injection, IsInjective
  <1>5. Cardinality(L) <= Cardinality(Key)  BY <1>2, <1>4, FS_Injection
  <1>6. Pow2[MAX_POWER2] \in Nat
    <2>1. MAX_POWER2 \in 0..(MAX_POWER2 + 1)  BY StAssumption
    <2> QED  BY <2>1, Pow2Positive
  <1>7. 2 * Cardinality(L) <= Pow2[MAX_POWER2]  BY <1>1, <1>2, <1>3, <1>5, <1>6
  <1> QED  BY <1>6, <1>7 DEF L

\* u has the entries of t, and room for another one.
Rebuilt(t, u) ==
    /\ GoodTable(u) /\ u.entries = LiveEntries(t)
    /\ Live(u) = 1..Len(u.entries) /\ Len(u.entries) < Pow2[u.entry_power]
    /\ FewTaken(u, Len(u.entries)) /\ LiveEntries(u) = LiveEntries(t)

\* rebuild_table keeps the entries in their order, and leaves room for one more.
LEMMA RebuildLemma ==
    ASSUME NEW t, GoodTable(t)
    PROVE  Rebuilt(t, rebuild_table(t))
  <1> DEFINE s == LiveEntries(t)
             L == Live(t)
             m == Len(s)
             compaction ==
                \/ /\ 2 * t.num_entries <= get_allocated_entries(t)
                   /\ REBUILD_THRESHOLD * t.num_entries > get_allocated_entries(t)
                \/ t.num_entries < Pow2[MINIMAL_POWER2]
             power == IF compaction THEN t.entry_power ELSE get_power2(2 * t.num_entries - 1)
             u == rebuild_table(t)
  <1> SUFFICES Rebuilt(t, u)  OBVIOUS
  <1>1. u = Filled(s, power)  BY DEF rebuild_table
  <1>2. IsTable(t) /\ Distinct(t.entries, L) /\ t.num_entries = Cardinality(L)  BY DEF GoodTable
  <1>3. FiniteOfNat(L) /\ Lists(s, t.entries, L)  BY <1>2, LiveLists
  <1>4. s \in Seq(Pair) /\ m = Cardinality(L) /\ m \in Nat  BY <1>2, <1>3, TableFacts DEF Lists
  <1>5. Distinct(s, 1..m)  BY <1>2, <1>3, ListsKeys
  <1> HIDE DEF s, u
  <1>6. power \in MINIMAL_POWER2..MAX_POWER2 /\ m < Pow2[power]
    <2> DEFINE a == Pow2[t.entry_power]
               c == Pow2[MINIMAL_POWER2]
               num == t.num_entries
    <2>0. num = m  BY <1>2, <1>4
    <2>1. MINIMAL_POWER2 \in MINIMAL_POWER2..MAX_POWER2 /\ t.entry_power \in MINIMAL_POWER2..MAX_POWER2
          /\ MINIMAL_POWER2 <= t.entry_power
      BY <1>2, StAssumption DEF IsTable
    <2>2. a \in Nat /\ a >= 1 /\ c \in Nat /\ c >= 1 /\ c <= a  BY <2>1, Sizes, Pow2Order
    <2> HIDE DEF m, num, a, c
    <2>3. CASE compaction
      <3>1. 2 * num <= a \/ num < c  BY <2>3 DEF get_allocated_entries, a, c, num
      <3>2. m < a  BY <1>4, <2>0, <2>2, <3>1
      <3>3. power = t.entry_power  BY <2>3
      <3> QED  BY <2>1, <3>2, <3>3 DEF a
    <2>4. CASE ~compaction
      <3>1. ~(num < c)  BY <2>4 DEF c, num
      <3>2. m >= 1  BY <1>4, <2>0, <2>2, <3>1
      <3> DEFINE size == 2 * m - 1
      <3>3. size \in Nat /\ m <= size  BY <1>4, <3>2
      <3>4. size < Pow2[MAX_POWER2]
        <4> DEFINE M == Pow2[MAX_POWER2]
        <4>1. 2 * m <= M /\ M \in Nat  BY <1>2, <1>4, CountByKeys
        <4> HIDE DEF M
        <4>2. size < M  BY <1>4, <4>1
        <4> QED  BY <4>2 DEF M
      <3>5. power = get_power2(size)  BY <2>4, <2>0 DEF num
      <3> HIDE DEF size, compaction, power
      <3>6. power \in MINIMAL_POWER2..MAX_POWER2 /\ size < Pow2[power]  BY <3>3, <3>4, <3>5, Power2
      <3>7. Pow2[power] \in Nat  BY <3>6, Sizes
      <3> QED  BY <1>4, <3>3, <3>6, <3>7
    <2> QED  BY <2>3, <2>4
  <1> HIDE DEF power
  <1>7. Makeable(s, power)
    <2>1. Pow2[power] \in Nat  BY <1>6, Sizes
    <2> QED  BY <1>4, <1>5, <1>6, <2>1 DEF Makeable, Pair
  <1>8. Made(u, s, power)  BY <1>1, <1>7, FilledLemma
  <1>9. LiveEntries(u) = s
    <2>1. IsTable(u) /\ u.entries = s /\ Live(u) = 1..m  BY <1>8 DEF Made, GoodTable
    <2>2. FiniteOfNat(1..m) /\ Lists(LiveEntries(u), s, 1..m)
      BY <2>1, LiveLists
    <2>3. Lists(s, s, 1..m)  BY <1>4, ListsSelf
    <2> DEFINE K == 1..m  r == LiveEntries(u)
    <2> HIDE DEF K, r
    <2> QED  BY <2>2, <2>3, ListsUnique DEF K, r
  <1> QED  BY <1>6, <1>8, <1>9 DEF Made, Rebuilt, s

\* u is t, or t rebuilt because it was full.
Ready(t, u) ==
    /\ GoodTable(u) /\ Len(u.entries) < Pow2[u.entry_power] /\ LiveEntries(u) = LiveEntries(t)
    /\ FewTaken(t, Len(t.entries)) \/ IsFull(t) => FewTaken(u, Len(u.entries))
    /\ ~IsFull(t) => u = t

\* rebuild_table_if_necessary makes the table ready.
LEMMA ReadyLemma ==
    ASSUME NEW t, GoodTable(t)
    PROVE  Ready(t, rebuild_table_if_necessary(t))
  <1>1. CASE IsFull(t)
    <2> DEFINE u == rebuild_table(t)
    <2>1. rebuild_table_if_necessary(t) = u  BY <1>1 DEF rebuild_table_if_necessary
    <2>2. Rebuilt(t, u)  BY RebuildLemma
    <2> HIDE DEF u
    <2> QED  BY <1>1, <2>1, <2>2 DEF Rebuilt, Ready
  <1>2. CASE ~IsFull(t)
    <2>1. rebuild_table_if_necessary(t) = t  BY <1>2 DEF rebuild_table_if_necessary
    <2>2. Len(t.entries) <= Pow2[t.entry_power] /\ IsTable(t)  BY DEF GoodTable, IsTable
    <2>3. Len(t.entries) \in Nat /\ Pow2[t.entry_power] \in Nat  BY <2>2, TableFacts
    <2>4. Len(t.entries) # Pow2[t.entry_power]  BY <1>2 DEF IsFull, get_allocated_entries
    <2>5. Len(t.entries) < Pow2[t.entry_power]  BY <2>2, <2>3, <2>4
    <2> QED  BY <1>2, <2>1, <2>5 DEF Ready
  <1> QED  BY <1>1, <1>2
-----------------------------------------------------------------------------
(* What the operations do to the sequence and to a traversal. *)

\* A new key goes to the end of the sequence.
LEMMA AddedList ==
    ASSUME NEW t, GoodTable(t), NEW u, NEW k \in Key, NEW v \in Value, Added(t, u, k, v)
    PROVE  LiveEntries(u) = Append(LiveEntries(t), [key |-> k, record |-> v])
  <1> DEFINE s == LiveEntries(t)
             r == LiveEntries(u)
             L == Live(t)
             x == Len(t.entries) + 1
             es == t.entries
             fs == u.entries
             e == [key |-> k, record |-> v]
  <1>1. IsTable(t) /\ IsTable(u)  BY DEF GoodTable, Added
  <1>2. fs = Append(es, e) /\ Live(u) = L \cup {x}  BY DEF Added
  <1>3. es \in Seq(Entry) /\ e \in Entry /\ e \in Pair /\ x \in Nat
    BY <1>1, TableFacts DEF IsTable, Entry, Pair
  <1>4. \A j \in L : j < x /\ j \in 1..Len(es)  BY <1>1, TableFacts
  <1>5. FiniteOfNat(L) /\ Lists(s, es, L) /\ FiniteOfNat(L \cup {x}) /\ Lists(r, fs, L \cup {x})
    BY <1>1, <1>2, LiveLists
  <1> HIDE DEF e
  <1>6. fs[x] = e /\ \A j \in L : fs[j] = es[j]  BY <1>2, <1>3, <1>4, AppendProperties
  <1> HIDE DEF s, r, L, x, es, fs
  <1>7. Lists(Append(s, fs[x]), fs, L \cup {x})
    <2>1. fs[x] \in Pair /\ \A j \in L : j < x  BY <1>3, <1>4, <1>6
    <2> QED  BY <1>3, <1>5, <1>6, <2>1, ListsAdd
  <1>8. r = Append(s, fs[x])
    <2> DEFINE K == L \cup {x}  q == Append(s, fs[x])
    <2>1. FiniteOfNat(K) /\ Lists(r, fs, K) /\ Lists(q, fs, K)  BY <1>5, <1>7
    <2> HIDE DEF K, q
    <2>2. r = q  BY <2>1, ListsUnique
    <2> QED  BY <2>2 DEF q
  <1> QED  BY <1>6, <1>8 DEF r, s, e

\* A new value stays in the place of its key.
LEMMA UpdatedList ==
    ASSUME NEW t, GoodTable(t), NEW u, NEW i \in Live(t), NEW v \in Value, Updated(t, u, i, v)
    PROVE  LiveEntries(u) = [LiveEntries(t) EXCEPT ![RankIn(Live(t), i)].record = v]
  <1> DEFINE s == LiveEntries(t)
             r == LiveEntries(u)
             L == Live(t)
             n == RankIn(L, i)
             es == t.entries
             fs == u.entries
             e == [key |-> t.entries[i].key, record |-> v]
  <1>1. IsTable(t) /\ IsTable(u)  BY DEF GoodTable, Updated
  <1>2. fs = [es EXCEPT ![i] = e] /\ Live(u) = L  BY DEF Updated
  <1>3. es \in Seq(Entry) /\ e \in Pair /\ es[i] \in Pair /\ DOMAIN es = 1..Len(es) /\ L \subseteq 1..Len(es)
    BY <1>1, TableFacts DEF IsTable, Pair
  <1>4. FiniteOfNat(L) /\ Lists(s, es, L) /\ Lists(r, fs, L)  BY <1>1, <1>2, LiveLists
  <1>5. e = [es[i] EXCEPT !.record = v]  BY <1>3 DEF Pair
  <1>6. fs[i] = e /\ \A j \in L \ {i} : fs[j] = es[j]  BY <1>2, <1>3
  <1>7. s[n] = es[i] /\ n \in DOMAIN s  BY <1>4, RankBounds, LenProperties DEF Lists
  <1> HIDE DEF s, r, L, es, fs, e, n
  <1>8. Lists([s EXCEPT ![RankIn(L, i)] = fs[i]], fs, L)
    <2>1. i \in L /\ fs[i] \in Pair  BY <1>3, <1>6 DEF L
    <2> QED  BY <1>4, <1>6, <2>1, ListsUpdate
  <1>9. r = [s EXCEPT ![n] = e]
    <2> DEFINE q == [s EXCEPT ![n] = e]
    <2>1. Lists(q, fs, L)  BY <1>6, <1>8 DEF n
    <2> HIDE DEF q
    <2>2. r = q  BY <1>4, <2>1, ListsUnique
    <2> QED  BY <2>2 DEF q
  <1>10. [s EXCEPT ![n].record = v] = [s EXCEPT ![n] = e]  BY <1>5, <1>7
  <1> QED  BY <1>9, <1>10 DEF r, s, n, L

\* A deleted entry is gone, and the others keep their order.
LEMMA RemovedList ==
    ASSUME NEW t, GoodTable(t), NEW u, NEW i \in Live(t), Removed(t, u, i)
    PROVE  LiveEntries(u) = RemoveAt(LiveEntries(t), RankIn(Live(t), i))
  <1> DEFINE s == LiveEntries(t)
             r == LiveEntries(u)
             L == Live(t)
             es == t.entries
             fs == u.entries
             q == RemoveAt(s, RankIn(L, i))
             K == L \ {i}
  <1>1. IsTable(t) /\ IsTable(u)  BY DEF GoodTable, Removed
  <1>2. fs = [es EXCEPT ![i] = DeletedEntry] /\ Live(u) = K  BY DEF Removed
  <1>3. DOMAIN es = 1..Len(es) /\ L \subseteq 1..Len(es)  BY <1>1, TableFacts
  <1>4. FiniteOfNat(L) /\ Lists(s, es, L) /\ FiniteOfNat(K) /\ Lists(r, fs, K)
    BY <1>1, <1>2, LiveLists
  <1>5. \A j \in L \ {i} : fs[j] = es[j]  BY <1>2, <1>3
  <1>6. i \in L  OBVIOUS
  <1> HIDE DEF s, r, L, es, fs
  <1>7. Lists(q, fs, K)  BY <1>4, <1>5, <1>6, ListsRemove
  <1> HIDE DEF q, K
  <1>8. r = q  BY <1>4, <1>7, ListsUnique
  <1> QED  BY <1>8 DEF r, s, q, L

\* What they do to the current entry of a traversal.
LEMMA CurrentKept ==
    ASSUME NEW t, IsTable(t), NEW u, NEW c, NEW key, CurrentAt(t, c, key)
    PROVE  /\ \A k, v : Added(t, u, k, v) /\ k # key => CurrentAt(u, c, key)
           /\ \A v : \A i \in Live(t) : Updated(t, u, i, v) => CurrentAt(u, c, key)
           /\ \A i \in Live(t) : Removed(t, u, i) => CurrentAt(u, c, key)
  <1> DEFINE n == Len(t.entries)
  <1>1. /\ n \in Nat /\ DOMAIN t.entries = 1..n /\ t.entries \in Seq(Entry)
        /\ Live(t) \subseteq 1..n /\ c \in 1..n
        /\ \A j \in Live(t) : t.entries[j].key = key => j = c
    BY TableFacts DEF IsTable, CurrentAt
  <1>2. ASSUME NEW k, NEW v, Added(t, u, k, v), k # key  PROVE CurrentAt(u, c, key)
    <2> DEFINE e == [key |-> k, record |-> v]
    <2>1. u.entries = Append(t.entries, e) /\ Live(u) = Live(t) \cup {n + 1}
      BY <1>2 DEF Added
    <2>2. IsTable(u)  BY <1>2 DEF Added, GoodTable
    <2>3. u.entries \in Seq(Entry) /\ DOMAIN u.entries = 1..Len(u.entries)
      BY <2>2, TableFacts DEF IsTable
    <2>4. e.key # key  BY <1>2
    <2> HIDE DEF e, n
    <2>5. Len(u.entries) = n + 1 /\ u.entries[n + 1] = e /\ \A j \in 1..n : u.entries[j] = t.entries[j]
      BY <1>1, <2>1 DEF n
    <2>6. c \in 1..(n + 1)  BY <1>1
    <2> QED  BY <1>1, <2>1, <2>3, <2>4, <2>5, <2>6 DEF CurrentAt
  <1>3. ASSUME NEW v, NEW i \in Live(t), Updated(t, u, i, v)  PROVE CurrentAt(u, c, key)
    <2> DEFINE e == [key |-> t.entries[i].key, record |-> v]
    <2>1. u.entries = [t.entries EXCEPT ![i] = e] /\ Live(u) = Live(t)  BY <1>3 DEF Updated
    <2>2. e.key = t.entries[i].key  OBVIOUS
    <2> HIDE DEF e, n
    <2>3. \A j \in Live(t) : u.entries[j].key = t.entries[j].key  BY <1>1, <2>1, <2>2
    <2>4. DOMAIN u.entries = 1..n  BY <1>1, <2>1
    <2> QED  BY <1>1, <2>1, <2>3, <2>4 DEF CurrentAt
  <1>4. ASSUME NEW i \in Live(t), Removed(t, u, i)  PROVE CurrentAt(u, c, key)
    <2>1. u.entries = [t.entries EXCEPT ![i] = DeletedEntry] /\ Live(u) = Live(t) \ {i}
      BY <1>4 DEF Removed
    <2> HIDE DEF n
    <2>2. \A j \in Live(u) : u.entries[j] = t.entries[j]  BY <1>1, <2>1
    <2>3. DOMAIN u.entries = 1..n  BY <1>1, <2>1
    <2> QED  BY <1>1, <2>1, <2>2, <2>3 DEF CurrentAt
  <1> QED  BY <1>2, <1>3, <1>4

\* st_insert adds an entry or gives one a new value.
LEMMA InsertLemma ==
    ASSUME NEW t, GoodTable(t), Len(t.entries) < Pow2[t.entry_power],
           NEW k \in Key, NEW v \in Value, SearchEnds(t, k)
    PROVE  \/ /\ \A i \in Live(t) : t.entries[i].key # k
              /\ Added(t, Inserted(t, k, v), k, v)
           \/ \E i \in Live(t) : t.entries[i].key = k /\ Updated(t, Inserted(t, k, v), i, v)
  <1>1. Finds(t, k)  BY SearchLemma
  <1>2. CASE Found(t, k) = {} /\ \A i \in Live(t) : t.entries[i].key # k
    <2>1. Inserted(t, k, v) = st_add_direct(t, k, v)  BY <1>2 DEF Inserted
    <2>2. Added(t, st_add_direct(t, k, v), k, v)  BY <1>2, AddLemma
    <2> QED  BY <1>2, <2>1, <2>2
  <1>3. ASSUME NEW i \in Live(t), Found(t, k) = {i}, t.entries[i].key = k
        PROVE  Updated(t, Inserted(t, k, v), i, v)
    <2>1. i \in Int  BY TableFacts DEF GoodTable
    <2>2. Max(Found(t, k)) = i  BY <1>3, <2>1, MaxOne
    <2>3. Inserted(t, k, v) = [t EXCEPT !.entries[i].record = v]  BY <1>3, <2>2 DEF Inserted
    <2>4. Updated(t, [t EXCEPT !.entries[i].record = v], i, v)  BY UpdateLemma
    <2> QED  BY <2>3, <2>4
  <1> QED  BY <1>1, <1>2, <1>3 DEF Finds
-----------------------------------------------------------------------------
(* The steps. *)

\* The bound on the bins that are taken, which st_shift of an empty table breaks.
Bounded(t) == FewTaken(t, Len(t.entries))

\* The program does not shift an empty table.
NoShiftOfEmpty == "shift_empty" \notin Calls

\* The invariant holds initially.
LEMMA InitInv ==
    ASSUME Init
    PROVE  StInv
  <1>1. PICK size \in InitialSize : tab = st_init_table_with_size(size)  BY DEF Init
  <1>2. size \in Nat /\ size < Pow2[MAX_POWER2]  BY StAssumption, SizeAssumption
  <1> DEFINE power == get_power2(size)
  <1>3. power \in MINIMAL_POWER2..MAX_POWER2  BY <1>2, Power2
  <1>4. tab = Table(power, <<>>, 0, 0, EmptyBins(power))
    BY <1>1 DEF st_init_table_with_size, Table
  <1> HIDE DEF power
  <1>5. GoodTable(tab) /\ FewTaken(tab, Len(tab.entries))  BY <1>3, <1>4, EmptyTable
  <1>6. IterOK
    <2>1. iter = NoIter /\ traversal = "none"  BY DEF Init
    <2> QED  BY <2>1 DEF IterOK, NoIter, Running
  <1> QED  BY <1>5, <1>6 DEF StInv

\* A new entry, after rebuilding if that was necessary.
LEMMA AddStep ==
    ASSUME StInv, NEW k \in Key, NEW v \in Value, NEW t, Ready(tab, t),
           MayAdd(k), SearchEnds(tab, k), NoteRebuild, UNCHANGED traversal,
           \A i \in Live(t) : t.entries[i].key # k,
           Found(tab, k) = {},
           Added(t, tab', k, v)
    PROVE  StInv'
  <1>1. GoodTable(tab')  BY DEF Added
  <1>2. NoShiftOfEmpty \/ iter'.rebuilt => Bounded(tab')
    <2> SUFFICES ASSUME NoShiftOfEmpty \/ iter'.rebuilt  PROVE Bounded(tab')  OBVIOUS
    <2>1. Bounded(tab) \/ IsFull(tab)
      <3>1. CASE NoShiftOfEmpty  BY <3>1 DEF StInv, Bounded, NoShiftOfEmpty
      <3>2. CASE iter'.rebuilt /\ ~IsFull(tab)
        <4>1. iter' = iter  BY <3>2 DEF NoteRebuild
        <4> QED  BY <3>2, <4>1 DEF StInv, Bounded
      <3> QED  BY <3>1, <3>2
    <2>2. Bounded(t)  BY <2>1 DEF Ready, Bounded
    <2> QED  BY <2>2 DEF Added, Bounded
  <1>3. IterOK'
    <2>1. IterOK  BY DEF StInv
    <2>2. iter' = iter \/ (Running /\ iter' = [iter EXCEPT !.rebuilt = TRUE])  BY DEF NoteRebuild
    <2>3. /\ iter' \in [i : Nat, key : Key \cup {NoKey}, rebuilt : BOOLEAN]
          /\ iter'.key = iter.key /\ iter'.i = iter.i
      BY <2>1, <2>2 DEF IterOK
    <2>4. Running' = Running  BY DEF Running
    <2>5. ~Running => iter' = NoIter  BY <2>1, <2>2 DEF IterOK
    <2>6. Running /\ ~iter'.rebuilt => CurrentAt(tab', iter'.i, iter'.key)
      <3> SUFFICES ASSUME Running, ~iter'.rebuilt  PROVE CurrentAt(tab', iter'.i, iter'.key)
        OBVIOUS
      <3>1. ~IsFull(tab)  BY <2>1 DEF NoteRebuild, IterOK
      <3>2. t = tab /\ iter' = iter  BY <3>1 DEF Ready, NoteRebuild
      <3>3. IsTable(tab) /\ CurrentAt(tab, iter.i, iter.key)
        BY <2>1, <3>2 DEF StInv, GoodTable, IterOK
      <3>4. k # iter.key  BY DEF MayAdd
      <3> DEFINE c == iter.i  key == iter.key  u == tab'  s == tab
      <3>5. IsTable(s) /\ CurrentAt(s, c, key) /\ k # key /\ Added(s, u, k, v)  BY <3>2, <3>3, <3>4
      <3> HIDE DEF c, key, u, s
      <3>6. CurrentAt(u, c, key)  BY <3>5, CurrentKept
      <3> QED  BY <2>3, <3>6 DEF u, c, key
    <2>7. Running => iter'.key \in Key  BY <2>1, <2>3 DEF IterOK
    <2>8. traversal' \in {"none", "running", "complete", "error"}  BY <2>1 DEF IterOK
    <2> QED  BY <2>3, <2>4, <2>5, <2>6, <2>7, <2>8 DEF IterOK
  <1> QED  BY <1>1, <1>2, <1>3 DEF StInv, Bounded, NoShiftOfEmpty

\* An entry gets a new value or is deleted.
LEMMA ChangeStep ==
    ASSUME StInv, NEW t, (Ready(tab, t) /\ NoteRebuild) \/ (t = tab /\ UNCHANGED iter),
           UNCHANGED traversal,
           \E i \in Live(t) : Removed(t, tab', i) \/ \E v : Updated(t, tab', i, v)
    PROVE  StInv'
  <1>0. PICK i \in Live(t) : Removed(t, tab', i) \/ \E v : Updated(t, tab', i, v)  OBVIOUS
  <1>1. GoodTable(tab')  BY <1>0 DEF Removed, Updated
  <1>4. iter' = iter \/ (Running /\ IsFull(tab) /\ iter' = [iter EXCEPT !.rebuilt = TRUE])
    BY DEF NoteRebuild
  <1>2. NoShiftOfEmpty \/ iter'.rebuilt => Bounded(tab')
    <2> SUFFICES ASSUME NoShiftOfEmpty \/ iter'.rebuilt  PROVE Bounded(tab')  OBVIOUS
    <2>1. Bounded(tab) \/ IsFull(tab)
      <3>1. CASE NoShiftOfEmpty  BY <3>1 DEF StInv, Bounded, NoShiftOfEmpty
      <3>2. CASE iter'.rebuilt /\ ~IsFull(tab)
        <4>1. iter' = iter  BY <3>2, <1>4
        <4> QED  BY <3>2, <4>1 DEF StInv, Bounded
      <3> QED  BY <3>1, <3>2
    <2>2. Bounded(t)
      <3>1. CASE Ready(tab, t)  BY <2>1, <3>1 DEF Ready, Bounded
      <3>2. CASE t = tab /\ UNCHANGED iter  BY <3>2 DEF StInv, Bounded, NoShiftOfEmpty
      <3> QED  BY <3>1, <3>2
    <2> QED  BY <1>0, <2>2 DEF Removed, Updated, Bounded
  <1>3. IterOK'
    <2>1. IterOK  BY DEF StInv
    <2>3. /\ iter' \in [i : Nat, key : Key \cup {NoKey}, rebuilt : BOOLEAN]
          /\ iter'.key = iter.key /\ iter'.i = iter.i
      BY <2>1, <1>4 DEF IterOK
    <2>4. Running' = Running  BY DEF Running
    <2>5. ~Running => iter' = NoIter  BY <2>1, <1>4 DEF IterOK
    <2>6. Running /\ ~iter'.rebuilt => CurrentAt(tab', iter'.i, iter'.key)
      <3> SUFFICES ASSUME Running, ~iter'.rebuilt  PROVE CurrentAt(tab', iter'.i, iter'.key)
        OBVIOUS
      <3>1. t = tab /\ iter' = iter
        <4>1. CASE Ready(tab, t) /\ NoteRebuild
          <5>1. ~IsFull(tab)  BY <2>1, <4>1 DEF NoteRebuild, IterOK
          <5> QED  BY <4>1, <5>1 DEF NoteRebuild, Ready
        <4> QED  BY <4>1
      <3>3. IsTable(tab) /\ CurrentAt(tab, iter.i, iter.key)
        BY <2>1, <3>1 DEF StInv, GoodTable, IterOK
      <3> DEFINE c == iter.i  key == iter.key  u == tab'  s == tab
      <3>5. /\ IsTable(s) /\ CurrentAt(s, c, key) /\ i \in Live(s)
            /\ Removed(s, u, i) \/ \E v : Updated(s, u, i, v)
        BY <1>0, <3>1, <3>3
      <3> HIDE DEF c, key, u, s
      <3>6. CurrentAt(u, c, key)  BY <3>5, CurrentKept
      <3> QED  BY <2>3, <3>6 DEF u, c, key
    <2>7. Running => iter'.key \in Key  BY <2>1, <2>3 DEF IterOK
    <2>8. traversal' \in {"none", "running", "complete", "error"}  BY <2>1 DEF IterOK
    <2> QED  BY <2>3, <2>4, <2>5, <2>6, <2>7, <2>8 DEF IterOK
  <1> QED  BY <1>1, <1>2, <1>3 DEF StInv, Bounded, NoShiftOfEmpty

\* One of the entries of es with the indices in L has the key k.
Has(L, es, k) == \E i \in L : es[i].key = k

\* The keys of the entries and of their sequence.
LEMMA ListsHas ==
    ASSUME NEW L, FiniteOfNat(L), NEW es, NEW s, Lists(s, es, L), Distinct(es, L), NEW k
    PROVE  Has(L, es, k) <=> Has(1..Len(s), s, k)
  BY ListsKeys DEF Has

\* Rebuilding keeps the keys.
LEMMA ReadyKeys ==
    ASSUME NEW t, GoodTable(t), NEW u, Ready(t, u), NEW k
    PROVE  Has(Live(t), t.entries, k) <=> Has(Live(u), u.entries, k)
  <1> DEFINE s == LiveEntries(t)
             L == Live(t)  K == Live(u)  es == t.entries  fs == u.entries
  <1>1. /\ IsTable(t) /\ Distinct(es, L) /\ IsTable(u) /\ Distinct(fs, K)
        /\ LiveEntries(u) = s
    BY DEF Ready, GoodTable
  <1>2. /\ FiniteOfNat(L) /\ Lists(s, es, L)
        /\ FiniteOfNat(K) /\ Lists(s, fs, K)
    BY <1>1, LiveLists
  <1> HIDE DEF L, K, es, fs, s
  <1>5. Has(L, es, k) <=> Has(1..Len(s), s, k)  BY <1>1, <1>2, ListsHas
  <1>6. Has(K, fs, k) <=> Has(1..Len(s), s, k)  BY <1>1, <1>2, ListsHas
  <1> QED  BY <1>5, <1>6 DEF L, K, es, fs

\* What the two kinds of insertion do to a table.
InsertEffect(t, u, k, v) ==
    \/ (\A i \in Live(t) : t.entries[i].key # k) /\ Added(t, u, k, v)
    \/ \E i \in Live(t) : t.entries[i].key = k /\ Updated(t, u, i, v)

\* st_insert.
LEMMA InsertStep ==
    ASSUME StInv, NEW k \in Key, NEW v \in Value, st_insert(k, v)
    PROVE  /\ StInv'
           /\ \E t : Ready(tab, t) /\ InsertEffect(t, tab', k, v)
  <1> DEFINE t == rebuild_table_if_necessary(tab)
  <1>1. GoodTable(tab)  BY DEF StInv
  <1>2. Ready(tab, t)  BY <1>1, ReadyLemma
  <1>3. /\ SearchEnds(tab, k) /\ MayAdd(k) /\ SearchEnds(t, k) /\ tab' = Inserted(t, k, v)
        /\ NoteRebuild /\ UNCHANGED traversal
    BY DEF st_insert
  <1> HIDE DEF t
  <1>4. GoodTable(t) /\ Len(t.entries) < Pow2[t.entry_power]  BY <1>2 DEF Ready
  <1>5. InsertEffect(t, tab', k, v)
    <2>1. InsertEffect(t, Inserted(t, k, v), k, v)  BY <1>3, <1>4, InsertLemma DEF InsertEffect
    <2> QED  BY <1>3, <2>1
  <1>6. CASE (\A i \in Live(t) : t.entries[i].key # k) /\ Added(t, tab', k, v)
    <2>1. \A i \in Live(tab) : tab.entries[i].key # k
      <3>1. ~Has(Live(t), t.entries, k)  BY <1>6 DEF Has
      <3>2. ~Has(Live(tab), tab.entries, k)  BY <1>1, <1>2, <3>1, ReadyKeys
      <3> QED  BY <3>2 DEF Has
    <2>2. Found(tab, k) = {}
      <3>1. Finds(tab, k)  BY <1>1, <1>3, SearchLemma
      <3> QED  BY <2>1, <3>1 DEF Finds
    <2>3. StInv'  BY <1>2, <1>3, <1>6, <2>2, AddStep
    <2> QED  BY <1>2, <1>5, <2>3
  <1>7. CASE \E i \in Live(t) : t.entries[i].key = k /\ Updated(t, tab', i, v)
    <2>1. \E i \in Live(t) : Removed(t, tab', i) \/ \E w : Updated(t, tab', i, w)  BY <1>7
    <2>2. StInv'  BY <1>2, <1>3, <2>1, ChangeStep
    <2> QED  BY <1>2, <1>5, <2>2
  <1> QED  BY <1>5, <1>6, <1>7 DEF InsertEffect

\* st_update.
LEMMA UpdateStep ==
    ASSUME StInv, NEW k \in Key, NEW v \in Value, st_update(k, v)
    PROVE  /\ StInv'
           /\ \E t : /\ (Ready(tab, t) /\ NoteRebuild) \/ (t = tab /\ UNCHANGED iter)
                     /\ InsertEffect(t, tab', k, v)
  <1>1. GoodTable(tab)  BY DEF StInv
  <1>2. SearchEnds(tab, k) /\ MayAdd(k) /\ UNCHANGED traversal  BY DEF st_update
  <1>3. Finds(tab, k)  BY <1>1, <1>2, SearchLemma
  <1>4. CASE Found(tab, k) # {}
    <2>1. PICK i \in Live(tab) : Found(tab, k) = {i} /\ tab.entries[i].key = k
      BY <1>3, <1>4 DEF Finds
    <2>2. i \in Int  BY <1>1, TableFacts DEF GoodTable
    <2>3. Max(Found(tab, k)) = i  BY <2>1, <2>2, MaxOne
    <2>4. tab' = [tab EXCEPT !.entries[i].record = v] /\ UNCHANGED iter  BY <1>4, <2>3 DEF st_update
    <2>5. Updated(tab, tab', i, v)  BY <1>1, <2>4, UpdateLemma
    <2>6. StInv'  BY <1>2, <2>4, <2>5, ChangeStep
    <2> QED  BY <2>1, <2>4, <2>5, <2>6 DEF InsertEffect
  <1>5. CASE Found(tab, k) = {}
    <2> DEFINE t == rebuild_table_if_necessary(tab)
    <2>1. \A i \in Live(tab) : tab.entries[i].key # k  BY <1>3, <1>5 DEF Finds
    <2>2. Ready(tab, t)  BY <1>1, ReadyLemma
    <2>3. tab' = st_add_direct(t, k, v) /\ NoteRebuild  BY <1>5 DEF st_update
    <2> HIDE DEF t
    <2>4. \A i \in Live(t) : t.entries[i].key # k  BY <1>1, <2>1, <2>2, ReadyKeys DEF Has
    <2>5. GoodTable(t) /\ Len(t.entries) < Pow2[t.entry_power]  BY <2>2 DEF Ready
    <2>6. Added(t, tab', k, v)  BY <2>3, <2>4, <2>5, AddLemma
    <2>7. StInv'  BY <1>2, <1>5, <2>2, <2>3, <2>4, <2>6, AddStep
    <2> QED  BY <2>2, <2>3, <2>4, <2>6, <2>7 DEF InsertEffect
  <1> QED  BY <1>4, <1>5

\* st_delete.
LEMMA DeleteStep ==
    ASSUME StInv, NEW k \in Key, st_delete(k)
    PROVE  /\ StInv'
           /\ \E i \in Live(tab) : tab.entries[i].key = k /\ Removed(tab, tab', i)
  <1>1. GoodTable(tab)  BY DEF StInv
  <1>2. /\ SearchEnds(tab, k) /\ Found(tab, k) # {} /\ tab' = Deleted(tab, k)
        /\ UNCHANGED <<iter, traversal>>
    BY DEF st_delete
  <1>3. Finds(tab, k)  BY <1>1, <1>2, SearchLemma
  <1>4. PICK i \in Live(tab) : tab.entries[i].key = k  BY <1>2, <1>3 DEF Finds
  <1>5. Removed(tab, tab', i)  BY <1>1, <1>2, <1>4, DeleteLemma
  <1>6. StInv'  BY <1>2, <1>5, ChangeStep
  <1> QED  BY <1>4, <1>5, <1>6

\* st_shift.
LEMMA ShiftStep ==
    ASSUME StInv, st_shift
    PROVE  StInv' /\ Removed(tab, tab', Min(Live(tab))) /\ Min(Live(tab)) \in Live(tab)
  <1> DEFINE i == Min(Live(tab))
  <1>1. GoodTable(tab)  BY DEF StInv
  <1>2. Live(tab) \subseteq Nat /\ Live(tab) # {} /\ \A j \in Live(tab) : tab.entries[j].key \in Key
    BY <1>1, TableFacts DEF GoodTable, st_shift
  <1>3. i \in Live(tab)  BY <1>2, MinProperties
  <1> DEFINE k == tab.entries[i].key
  <1>4. tab' = Deleted(tab, k) /\ UNCHANGED <<iter, traversal>>  BY DEF st_shift
  <1> HIDE DEF i
  <1>5. SearchEnds(tab, k) /\ k \in Key  BY <1>1, <1>2, <1>3, SearchOfEntry
  <1>6. Removed(tab, tab', i)
    <2> DEFINE kk == k
    <2>1. kk \in Key /\ SearchEnds(tab, kk) /\ tab.entries[i].key = kk /\ tab' = Deleted(tab, kk)
      BY <1>4, <1>5
    <2> HIDE DEF kk
    <2> QED  BY <1>1, <1>3, <2>1, DeleteLemma
  <1>7. StInv'  BY <1>3, <1>4, <1>6, ChangeStep
  <1> QED  BY <1>3, <1>6, <1>7 DEF i

\* st_shift of an empty table, which forgets the marked entries but not their bins.
LEMMA ShiftEmptyStep ==
    ASSUME StInv, ShiftEmpty
    PROVE  StInv' /\ LiveEntries(tab') = LiveEntries(tab)
  <1> DEFINE t == tab
             u == tab'
             power == t.entry_power  bins == t.bins  num == t.num_entries
             es == <<>>
  <1>1. /\ Live(t) = {} /\ u = [t EXCEPT !.entries = <<>>, !.entries_start = 0]
        /\ UNCHANGED <<iter, traversal>> /\ ~Running /\ ~NoShiftOfEmpty
    BY DEF ShiftEmpty, NoShiftOfEmpty
  <1>2. GoodTable(t) /\ IsTable(t) /\ IterOK  BY DEF StInv, GoodTable
  <1>3. u = Table(power, es, 0, num, bins)
    <2> DEFINE a1 == t.entry_power  a2 == t.entries  a3 == t.entries_start
               a4 == t.num_entries  a5 == t.bins
    <2>1. t = Table(a1, a2, a3, a4, a5)  BY <1>2 DEF IsTable
    <2>2. u = [t EXCEPT !.entries = <<>>, !.entries_start = 0]  BY <1>1
    <2> HIDE DEF a1, a2, a3, a4, a5, u, t
    <2>3. u = Table(a1, <<>>, 0, a4, a5)  BY <2>1, <2>2 DEF Table
    <2> QED  BY <2>3 DEF a1, a2, a3, a4, a5, t
  <1>4. es \in Seq(Entry) /\ Len(es) = 0 /\ DOMAIN es = {}  OBVIOUS
  <1>5. /\ u.entry_power = power /\ u.entries = es /\ u.entries_start = 0 /\ u.num_entries = num
        /\ u.bins = bins
        /\ u = Table(u.entry_power, u.entries, u.entries_start, u.num_entries, u.bins)
    <2> DEFINE zero == 0
    <2>1. u = Table(power, es, zero, num, bins)  BY <1>3
    <2> HIDE DEF u, power, es, zero, num, bins
    <2>2. /\ u.entry_power = power /\ u.entries = es /\ u.entries_start = zero /\ u.num_entries = num
          /\ u.bins = bins
          /\ u = Table(u.entry_power, u.entries, u.entries_start, u.num_entries, u.bins)
      BY <2>1, TableFields
    <2> QED  BY <2>2 DEF zero
  <1> HIDE DEF es, u, t
  <1>6. Live(u) = {}  BY <1>4, <1>5 DEF Live
  <1>7. IsTable(u)
    <2>1. power \in MINIMAL_POWER2..MAX_POWER2 /\ (bins = NoBins \/ bins \in [BinsOf(power) -> Nat])
      BY <1>2 DEF IsTable
    <2>2. 0 <= Pow2[power] /\ 0 \in 0..0  BY <2>1, Sizes
    <2> QED  BY <1>4, <1>5, <2>1, <2>2 DEF IsTable
  <1>8. GoodTable(u)
    <2>1. num = Cardinality({})  BY <1>1, <1>2 DEF GoodTable
    <2>2. Distinct(es, {})  BY DEF Distinct
    <2>3. bins # NoBins => Index(power, bins, es, {})
      <3>1. bins # NoBins => Index(power, bins, t.entries, {})  BY <1>1, <1>2 DEF GoodTable
      <3> QED  BY <3>1 DEF Index
    <2> QED  BY <1>5, <1>6, <1>7, <2>1, <2>2, <2>3 DEF GoodTable
  <1>9. ~iter'.rebuilt  BY <1>1, <1>2 DEF IterOK, NoIter
  <1>10. IterOK'  BY <1>1, <1>2 DEF IterOK, Running
  <1>11. LiveEntries(u) = LiveEntries(t)
    <2> DEFINE r == LiveEntries(u)  s == LiveEntries(t)  L == {}
    <2>1. FiniteOfNat(L) /\ Lists(r, u.entries, L) /\ Lists(s, t.entries, L)
      BY <1>1, <1>2, <1>6, <1>7, LiveLists
    <2>2. Lists(s, u.entries, L)  BY <2>1 DEF Lists
    <2> HIDE DEF r, s, L
    <2>3. r = s  BY <2>1, <2>2, ListsUnique
    <2> QED  BY <2>3 DEF r, s
  <1> QED  BY <1>1, <1>8, <1>9, <1>10, <1>11 DEF StInv, NoShiftOfEmpty, u, t

\* No entries, no pairs.
LEMMA NoEntries ==
    ASSUME NEW t, IsTable(t), Live(t) = {}
    PROVE  LiveEntries(t) = <<>>
  <1>1. Lists(LiveEntries(t), t.entries, Live(t))  BY LiveLists
  <1>2. LiveEntries(t) \in Seq(Pair) /\ Len(LiveEntries(t)) = 0  BY <1>1, FS_EmptySet DEF Lists
  <1> QED  BY <1>2, EmptySeq

\* st_clear.
LEMMA ClearStep ==
    ASSUME StInv, st_clear
    PROVE  StInv' /\ LiveEntries(tab') = <<>>
  <1> DEFINE t == tab
             u == tab'
             power == t.entry_power
  <1>1. /\ u = [t EXCEPT !.entries = <<>>, !.entries_start = 0, !.num_entries = 0,
                         !.bins = EmptyBins(power)]
        /\ UNCHANGED <<iter, traversal>> /\ ~Running
    BY DEF st_clear
  <1>2. IsTable(t) /\ IterOK  BY DEF StInv, GoodTable
  <1>3. u = Table(power, <<>>, 0, 0, EmptyBins(power))
    <2> DEFINE a1 == t.entry_power  a2 == t.entries  a3 == t.entries_start
               a4 == t.num_entries  a5 == t.bins
               bins == EmptyBins(power)
    <2>1. t = Table(a1, a2, a3, a4, a5)  BY <1>2 DEF IsTable
    <2>2. u = [t EXCEPT !.entries = <<>>, !.entries_start = 0, !.num_entries = 0, !.bins = bins]
      BY <1>1
    <2> HIDE DEF a1, a2, a3, a4, a5, u, t, bins
    <2>3. u = Table(a1, <<>>, 0, 0, bins)  BY <2>1, <2>2 DEF Table
    <2> QED  BY <2>3 DEF a1, bins
  <1>4. power \in MINIMAL_POWER2..MAX_POWER2  BY <1>2 DEF IsTable
  <1> HIDE DEF u, power
  <1>5. GoodTable(u) /\ Live(u) = {} /\ FewTaken(u, Len(u.entries))  BY <1>3, <1>4, EmptyTable
  <1>6. IterOK'  BY <1>1, <1>2 DEF IterOK, Running
  <1>7. LiveEntries(u) = <<>>  BY <1>5, NoEntries DEF GoodTable
  <1> QED  BY <1>5, <1>6, <1>7 DEF StInv, u

\* The traversal goes on in t.
LEMMA GoOnStep ==
    ASSUME NEW t, GoodTable(t), NoShiftOfEmpty => Bounded(t), NEW i \in Nat, GoOn(t, i)
    PROVE  StInv'
  <1> DEFINE rest == {j \in Live(t) : j > i}
             m == Min(rest)
  <1>0. tab' = t  BY DEF GoOn
  <1>1. CASE rest = {}
    <2>1. iter' = NoIter /\ traversal' = "complete"  BY <1>1 DEF GoOn
    <2>2. IterOK' /\ ~iter'.rebuilt  BY <2>1 DEF IterOK, NoIter, Running
    <2> QED  BY <1>0, <2>2 DEF StInv, NoShiftOfEmpty, Bounded
  <1>2. CASE rest # {}
    <2>1. iter' = [i |-> m, key |-> t.entries[m].key, rebuilt |-> FALSE] /\ traversal' = "running"
      BY <1>2 DEF GoOn
    <2>2. /\ IsTable(t) /\ Live(t) \subseteq Nat /\ Live(t) \subseteq DOMAIN t.entries
          /\ Distinct(t.entries, Live(t)) /\ \A j \in Live(t) : t.entries[j].key \in Key
      BY TableFacts DEF GoodTable
    <2>3. m \in Live(t)
      <3>1. rest \subseteq Nat  BY <2>2
      <3> HIDE DEF rest
      <3>2. m \in rest  BY <1>2, <3>1, MinProperties
      <3> QED  BY <3>2 DEF rest
    <2> HIDE DEF m
    <2>4. iter'.i = m /\ iter'.key = t.entries[m].key /\ iter'.rebuilt = FALSE
      BY <2>1
    <2>5. CurrentAt(tab', iter'.i, iter'.key)  BY <1>0, <2>2, <2>3, <2>4 DEF CurrentAt, Distinct
    <2>6. iter' \in [i : Nat, key : Key \cup {NoKey}, rebuilt : BOOLEAN] /\ iter'.key \in Key
      BY <2>1, <2>2, <2>3
    <2>7. IterOK'  BY <2>1, <2>5, <2>6 DEF IterOK, Running
    <2> QED  BY <1>0, <2>4, <2>7 DEF StInv, NoShiftOfEmpty, Bounded
  <1> QED  BY <1>1, <1>2

\* A traversal that ends before the last entry.
LEMMA ReturnStep ==
    ASSUME StInv, NEW how \in {"none", "error"}, Return(how)
    PROVE  StInv'
  <1>1. iter' = NoIter /\ traversal' = how /\ tab' = tab  BY DEF Return
  <1>2. IterOK' /\ ~iter'.rebuilt  BY <1>1 DEF IterOK, NoIter, Running
  <1> QED  BY <1>1, <1>2 DEF StInv

\* The entry at which a traversal is when the callback returns.
LEMMA CurrentEntryType ==
    ASSUME StInv, Running, SearchEnds(tab, iter.key), CurrentEntry # {}
    PROVE  \E i \in 1..Len(tab.entries) : CurrentEntry = {i} /\ Max(CurrentEntry) = i /\ i \in Nat
                                          /\ CurrentAt(tab, i, iter.key)
  <1>1. GoodTable(tab) /\ IsTable(tab) /\ Distinct(tab.entries, Live(tab)) /\ IterOK /\ iter.key \in Key
    BY DEF StInv, IterOK, GoodTable
  <1>2. /\ Len(tab.entries) \in Nat /\ DOMAIN tab.entries = 1..Len(tab.entries)
        /\ Live(tab) \subseteq 1..Len(tab.entries)
    BY <1>1, TableFacts
  <1>3. \E i \in 1..Len(tab.entries) : CurrentEntry = {i} /\ CurrentAt(tab, i, iter.key)
    <2>1. CASE iter.rebuilt
      <3>1. CurrentEntry = Found(tab, iter.key)  BY <2>1 DEF CurrentEntry
      <3>2. Finds(tab, iter.key)  BY <1>1, SearchLemma
      <3>3. PICK i \in Live(tab) : Found(tab, iter.key) = {i} /\ tab.entries[i].key = iter.key
        BY <3>1, <3>2 DEF Finds
      <3>4. CurrentAt(tab, i, iter.key)  BY <1>1, <1>2, <3>3 DEF CurrentAt, Distinct
      <3> QED  BY <1>2, <3>1, <3>3, <3>4
    <2>2. CASE ~iter.rebuilt
      <3>1. CurrentEntry = {iter.i}  BY <2>2 DEF CurrentEntry
      <3>2. CurrentAt(tab, iter.i, iter.key)  BY <1>1, <2>2 DEF IterOK
      <3>3. iter.i \in 1..Len(tab.entries)  BY <1>2, <3>2 DEF CurrentAt
      <3> QED  BY <3>1, <3>2, <3>3
    <2> QED  BY <2>1, <2>2
  <1>4. PICK i \in 1..Len(tab.entries) : CurrentEntry = {i} /\ CurrentAt(tab, i, iter.key)  BY <1>3
  <1>5. i \in Nat /\ i \in Int  BY <1>2
  <1>6. Max(CurrentEntry) = i  BY <1>4, <1>5, MaxOne
  <1> QED  BY <1>4, <1>5, <1>6

\* The table in which the traversal goes on when the callback wants the current pair deleted.
LEMMA DeleteCurrent ==
    ASSUME StInv, Running, SearchEnds(tab, iter.key)
    PROVE  \/ /\ Found(tab, iter.key) = {}
              /\ ~Has(Live(tab), tab.entries, iter.key)
           \/ \E i \in Live(tab) :
                 /\ Found(tab, iter.key) = {i} /\ tab.entries[i].key = iter.key
                 /\ Removed(tab, Deleted(tab, iter.key), i)
  <1>1. GoodTable(tab) /\ iter.key \in Key  BY DEF StInv, IterOK
  <1>2. Finds(tab, iter.key)  BY <1>1, SearchLemma
  <1>3. CASE Found(tab, iter.key) = {} /\ \A i \in Live(tab) : tab.entries[i].key # iter.key
    BY <1>3 DEF Has
  <1>4. ASSUME NEW i \in Live(tab), Found(tab, iter.key) = {i}, tab.entries[i].key = iter.key
        PROVE  Removed(tab, Deleted(tab, iter.key), i)
    <2> DEFINE k == iter.key
    <2>1. k \in Key /\ SearchEnds(tab, k) /\ tab.entries[i].key = k  BY <1>1, <1>4
    <2> HIDE DEF k
    <2>2. Removed(tab, Deleted(tab, k), i)  BY <1>1, <2>1, DeleteLemma
    <2> QED  BY <2>2 DEF k
  <1> QED  BY <1>2, <1>3, <1>4 DEF Finds

\* The properties of a table for the traversal to go on in it.
LEMMA DeletedCurrentGood ==
    ASSUME StInv, Running, SearchEnds(tab, iter.key), NEW t,
           t = IF Found(tab, iter.key) = {} THEN tab ELSE Deleted(tab, iter.key)
    PROVE  GoodTable(t) /\ (NoShiftOfEmpty => Bounded(t))
  <1>1. GoodTable(tab) /\ (NoShiftOfEmpty => Bounded(tab))  BY DEF StInv, NoShiftOfEmpty, Bounded
  <1>2. CASE Found(tab, iter.key) = {}  BY <1>1, <1>2
  <1>3. CASE Found(tab, iter.key) # {}
    <2>1. PICK i \in Live(tab) : Removed(tab, Deleted(tab, iter.key), i)  BY <1>3, DeleteCurrent
    <2>2. t = Deleted(tab, iter.key)  BY <1>3
    <2> QED  BY <1>1, <2>1, <2>2 DEF Removed, Bounded
  <1> QED  BY <1>2, <1>3

\* Every step keeps the invariant.
LEMMA NextInv ==
    ASSUME StInv, [Next]_vars
    PROVE  StInv'
  <1>0. GoodTable(tab) /\ (NoShiftOfEmpty => Bounded(tab)) /\ tab.entries_start \in Nat
    <2>1. GoodTable(tab) /\ (NoShiftOfEmpty => Bounded(tab))  BY DEF StInv, NoShiftOfEmpty, Bounded
    <2>2. tab.entries_start \in 0..Len(tab.entries) /\ Len(tab.entries) \in Nat
      BY <2>1, TableFacts DEF GoodTable, IsTable
    <2> QED  BY <2>1, <2>2
  <1>1. ASSUME NEW p \in InsertPair, st_insert(p[1], p[2])  PROVE StInv'
    <2>1. p[1] \in Key /\ p[2] \in Value  BY StAssumption
    <2> QED  BY <1>1, <2>1, InsertStep
  <1>2. ASSUME NEW p \in UpdatePair, st_update(p[1], p[2])  PROVE StInv'
    <2>1. p[1] \in Key /\ p[2] \in Value  BY StAssumption
    <2> QED  BY <1>2, <2>1, UpdateStep
  <1>3. ASSUME NEW k \in Key, st_delete(k)  PROVE StInv'  BY <1>3, DeleteStep
  <1>4. CASE st_shift  BY <1>4, ShiftStep
  <1>5. CASE ShiftEmpty  BY <1>5, ShiftEmptyStep
  <1>6. CASE st_clear  BY <1>6, ClearStep
  <1>7. CASE ForeachBegin  BY <1>0, <1>7, GoOnStep DEF ForeachBegin
  <1>8. CASE ForeachContinue
    <2>1. Running /\ SearchEnds(tab, iter.key) /\ CurrentEntry # {} /\ GoOn(tab, Max(CurrentEntry))
      BY <1>8 DEF ForeachContinue, CallbackReturns
    <2>2. Max(CurrentEntry) \in Nat  BY <2>1, CurrentEntryType
    <2> QED  BY <1>0, <2>1, <2>2, GoOnStep
  <1>9. CASE ForeachStop  BY <1>9, ReturnStep DEF ForeachStop
  <1>10. CASE ForeachDelete
    <2> DEFINE t == IF Found(tab, iter.key) = {} THEN tab ELSE Deleted(tab, iter.key)
    <2>1. Running /\ SearchEnds(tab, iter.key) /\ CurrentEntry # {} /\ GoOn(t, Max(CurrentEntry))
      BY <1>10 DEF ForeachDelete, CallbackReturns
    <2>2. Max(CurrentEntry) \in Nat  BY <2>1, CurrentEntryType
    <2>3. GoodTable(t) /\ (NoShiftOfEmpty => Bounded(t))  BY <2>1, DeletedCurrentGood
    <2> HIDE DEF t
    <2> QED  BY <2>1, <2>2, <2>3, GoOnStep
  <1>11. CASE ForeachError  BY <1>11, ReturnStep DEF ForeachError
  <1>12. CASE UNCHANGED vars
    <2>1. tab' = tab /\ iter' = iter /\ traversal' = traversal  BY <1>12 DEF vars
    <2> QED  BY <2>1 DEF StInv, IterOK, Running
  <1> QED
    BY <1>1, <1>2, <1>3, <1>4, <1>5, <1>6, <1>7, <1>8, <1>9, <1>10, <1>11, <1>12 DEF Next
-----------------------------------------------------------------------------
(* The properties of the table. *)

\* The invariant holds always: entries, bins and num_entries agree, the keys are distinct,
\* and a traversal knows its current entry, for any set of keys, hash function, sizes and
\* sequence of calls.
THEOREM TableInvariant ==
    Spec => []StInv
  <1>1. Init => StInv  BY InitInv
  <1>2. StInv /\ [Next]_vars => StInv'  BY NextInv
  <1> QED  BY <1>1, <1>2, PTL DEF Spec

\* The fields of struct st_table and of the traversal have their types and bounds.
THEOREM TypeCorrect ==
    Spec => []TypeOK
  <1>1. StInv => TypeOK
    BY DEF StInv, GoodTable, IsTable, IterOK, TypeOK, Entry, get_allocated_entries
  <1> QED  BY <1>1, TableInvariant, PTL

\* num_entries counts the bins that hold an entry.
LEMMA BinsCount ==
    ASSUME NEW t, GoodTable(t), t.bins # NoBins
    PROVE  Cardinality({b \in DOMAIN t.bins : t.bins[b] >= ENTRY_BASE}) = t.num_entries
  <1> DEFINE power == t.entry_power  bins == t.bins  es == t.entries  L == Live(t)
  <1>1. /\ power \in MINIMAL_POWER2..MAX_POWER2 /\ bins \in [BinsOf(power) -> Nat]
        /\ Index(power, bins, es, L) /\ t.num_entries = Cardinality(L) /\ IsTable(t)
    BY DEF GoodTable, IsTable
  <1>2. L \subseteq Nat \ {0} /\ IsFiniteSet(L) /\ \A i \in L : es[i].key \in Key
    BY <1>1, TableFacts
  <1>3. DOMAIN bins = BinsOf(power)  BY <1>1
  <1> HIDE DEF power, bins, es, L
  <1>4. Cardinality({b \in BinsOf(power) : bins[b] >= ENTRY_BASE}) = Cardinality(L)
    BY <1>1, <1>2, CountedByBins
  <1> QED  BY <1>1, <1>3, <1>4 DEF bins

\* Wherever a search ends, it has found the entry of its key if there is one.
EndedSearchesFind ==
    \A k \in Key : SearchEnds(tab, k) => Found(tab, k) = find_entry(tab, k)

\* find_table_bin_ind finds the entry that a linear search would, in every state and for every
\* key for which it ends: after collisions, deletions, reuse of bins and rebuilding, and also after
\* st_shift of an empty table.
THEOREM SearchesThatEnd ==
    Spec => []EndedSearchesFind
  <1>1. StInv => EndedSearchesFind
    <2> SUFFICES ASSUME StInv, NEW k \in Key, SearchEnds(tab, k)
                 PROVE  Found(tab, k) = find_entry(tab, k)
      BY DEF EndedSearchesFind
    <2>1. GoodTable(tab)  BY DEF StInv
    <2> QED  BY <2>1, SearchLemma
  <1> QED  BY <1>1, TableInvariant, PTL

\* The bins lead to each entry and to nothing else, and every search ends, for every program
\* that does not shift an empty table: then no more bins are taken than entries were added
\* since the last rebuilding, which is at most half of them, and each path meets all.
THEOREM BinsCorrect ==
    ASSUME NoShiftOfEmpty
    PROVE  Spec => []BinsFindEntries
  <1>1. StInv => BinsFindEntries
    <2> SUFFICES ASSUME StInv  PROVE BinsFindEntries  OBVIOUS
    <2>1. GoodTable(tab) /\ IsTable(tab) /\ FewTaken(tab, Len(tab.entries))
      BY DEF StInv, NoShiftOfEmpty, GoodTable
    <2>2. \A k \in Key : SearchEnds(tab, k)  BY <2>1, SearchEndsLemma
    <2>3. \A k \in Key : Found(tab, k) = find_entry(tab, k)  BY <2>1, <2>2, SearchLemma
    <2>4. tab.num_entries = Cardinality(Live(tab))  BY <2>1 DEF GoodTable
    <2>5. tab.bins # NoBins =>
            Cardinality({b \in DOMAIN tab.bins : tab.bins[b] >= ENTRY_BASE}) = tab.num_entries
      BY <2>1, BinsCount
    <2> QED  BY <2>2, <2>3, <2>4, <2>5 DEF BinsFindEntries, SearchesEnd
  <1> QED  BY <1>1, TableInvariant, PTL
-----------------------------------------------------------------------------
(* The dictionary that the table implements. *)

\* The place p of a traversal in t is that of the entry of its current key.
AtPlace(t, it, p) ==
    \/ it.rebuilt /\ ~Has(Live(t), t.entries, it.key) /\ p = -1
    \/ it.rebuilt /\ \E i \in Live(t) : t.entries[i].key = it.key /\ p = RankIn(Live(t), i)
    \/ ~it.rebuilt /\ CurrentAt(t, it.i, it.key) /\ p = RankIn(Live(t), it.i)

\* The place of the traversal in the dictionary, without the search that Passed makes.
PassedOK == IF Running THEN AtPlace(tab, iter, Passed) ELSE Passed = 0

\* It follows from the invariant.
LEMMA PassedLemma ==
    StInv => PassedOK
  <1> SUFFICES ASSUME StInv  PROVE PassedOK  OBVIOUS
  <1>1. /\ GoodTable(tab) /\ IsTable(tab) /\ IterOK
        /\ iter.rebuilt => FewTaken(tab, Len(tab.entries))
    BY DEF StInv, GoodTable
  <1>2. CASE ~Running  BY <1>2 DEF PassedOK, Passed
  <1>3. CASE Running
    <2>1. iter.key \in Key /\ iter.rebuilt \in BOOLEAN  BY <1>1, <1>3 DEF IterOK
    <2>2. CASE ~iter.rebuilt
      <3>1. CurrentAt(tab, iter.i, iter.key) /\ iter.i \in Nat  BY <1>1, <1>3, <2>2 DEF IterOK
      <3>2. CurrentEntry = {iter.i}  BY <2>2 DEF CurrentEntry
      <3>3. Max(CurrentEntry) = iter.i  BY <3>1, <3>2, MaxOne
      <3>4. Passed = RankIn(Live(tab), iter.i)  BY <1>3, <3>2, <3>3 DEF Passed, Rank, RankIn
      <3> QED  BY <1>3, <2>2, <3>1, <3>4 DEF PassedOK, AtPlace
    <2>3. CASE iter.rebuilt
      <3>1. SearchEnds(tab, iter.key)  BY <1>1, <2>1, <2>3, SearchEndsLemma
      <3>2. Finds(tab, iter.key)  BY <1>1, <2>1, <3>1, SearchLemma
      <3>3. CurrentEntry = Found(tab, iter.key)  BY <2>3 DEF CurrentEntry
      <3>4. CASE Found(tab, iter.key) = {} /\ \A i \in Live(tab) : tab.entries[i].key # iter.key
        <4>1. Passed = -1  BY <1>3, <3>3, <3>4 DEF Passed
        <4> QED  BY <1>3, <2>3, <3>4, <4>1 DEF PassedOK, AtPlace, Has
      <3>5. ASSUME NEW i \in Live(tab), Found(tab, iter.key) = {i}, tab.entries[i].key = iter.key
            PROVE  PassedOK
        <4>1. i \in Int  BY <1>1, TableFacts
        <4>2. Max(CurrentEntry) = i /\ CurrentEntry # {}  BY <3>3, <3>5, <4>1, MaxOne
        <4>3. Passed = RankIn(Live(tab), i)  BY <1>3, <4>2 DEF Passed, Rank, RankIn
        <4> QED  BY <1>3, <2>3, <3>5, <4>3 DEF PassedOK, AtPlace
      <3> QED  BY <3>2, <3>4, <3>5 DEF Finds
    <2> QED  BY <2>1, <2>2, <2>3
  <1> QED  BY <1>2, <1>3

\* The keys of the sequence of entries, and their places in it.
LEMMA ListFacts ==
    ASSUME NEW t, GoodTable(t), NEW s, s = LiveEntries(t)
    PROVE  /\ s \in Seq(Pair) /\ Len(s) = Cardinality(Live(t)) /\ Len(s) \in Nat
           /\ DOMAIN s = 1..Len(s) /\ Distinct(s, 1..Len(s))
           /\ \A k : Has(Live(t), t.entries, k) <=> Has(1..Len(s), s, k)
           /\ \A i \in Live(t) :
                /\ RankIn(Live(t), i) \in 1..Len(s) /\ s[RankIn(Live(t), i)] = t.entries[i]
                /\ (CHOOSE n \in DOMAIN s : s[n].key = t.entries[i].key) = RankIn(Live(t), i)
  <1> DEFINE L == Live(t)  es == t.entries
  <1>1. IsTable(t) /\ Distinct(es, L)  BY DEF GoodTable
  <1>2. FiniteOfNat(L) /\ Lists(s, es, L)  BY <1>1, LiveLists
  <1> HIDE DEF L, es
  <1>3. s \in Seq(Pair) /\ Len(s) = Cardinality(L) /\ \A i \in L : s[RankIn(L, i)] = es[i]
    BY <1>2 DEF Lists
  <1>4. Len(s) \in Nat /\ DOMAIN s = 1..Len(s)  BY <1>3, LenProperties
  <1>5. Distinct(s, 1..Len(s))  BY <1>1, <1>2, ListsKeys
  <1>6. \A k : Has(L, es, k) <=> Has(1..Len(s), s, k)  BY <1>1, <1>2, ListsHas
  <1>7. \A i \in L : (CHOOSE n \in DOMAIN s : s[n].key = es[i].key) = RankIn(L, i)
    BY <1>1, <1>2, ListsKeys
  <1>8. \A i \in L : RankIn(L, i) \in 1..Len(s)  BY <1>2, <1>3, RankBounds
  <1> QED  BY <1>3, <1>4, <1>5, <1>6, <1>7, <1>8 DEF L, es

\* In terms of that sequence: the place is that of the current key, or lost.
ListPlace(s, it, p) ==
    /\ Has(1..Len(s), s, it.key) => p \in 1..Len(s) /\ s[p].key = it.key
    /\ ~Has(1..Len(s), s, it.key) /\ it.rebuilt => p = -1

\* The place, in terms of the sequence.
LEMMA PlaceInList ==
    ASSUME NEW t, GoodTable(t), NEW it, NEW p, AtPlace(t, it, p)
    PROVE  ListPlace(LiveEntries(t), it, p)
  <1> DEFINE s == LiveEntries(t)
             L == Live(t)
  <1>1. /\ Has(L, t.entries, it.key) <=> Has(1..Len(s), s, it.key)
        /\ \A i \in L : RankIn(L, i) \in 1..Len(s) /\ s[RankIn(L, i)] = t.entries[i]
    BY ListFacts
  <1> HIDE DEF s, L
  <1>2. ASSUME Has(L, t.entries, it.key)  PROVE p \in 1..Len(s) /\ s[p].key = it.key
    <2>1. PICK i \in L : t.entries[i].key = it.key /\ p = RankIn(L, i)
      <3>1. CASE it.rebuilt  BY <1>2, <3>1 DEF AtPlace, L
      <3>2. CASE ~it.rebuilt
        <4>1. CurrentAt(t, it.i, it.key) /\ p = RankIn(L, it.i)  BY <3>2 DEF AtPlace, L
        <4>2. PICK i \in L : t.entries[i].key = it.key  BY <1>2 DEF Has
        <4>3. i = it.i  BY <4>1, <4>2 DEF CurrentAt, L
        <4> QED  BY <4>1, <4>2, <4>3
      <3> QED  BY <3>1, <3>2
    <2> QED  BY <1>1, <2>1
  <1>3. ASSUME ~Has(L, t.entries, it.key), it.rebuilt  PROVE p = -1
    <2>1. \A i \in L : t.entries[i].key # it.key  BY <1>3 DEF Has
    <2> QED  BY <1>3, <2>1 DEF AtPlace, L
  <1>4. ListPlace(s, it, p)  BY <1>1, <1>2, <1>3 DEF ListPlace
  <1> QED  BY <1>4 DEF s

\* The keys of the abstract dictionary are those of the entries, in their places.
LEMMA DictKeys ==
    ASSUME StInv
    PROVE  /\ \A k : k \in Dict!Keys <=> Has(1..Len(LiveEntries(tab)), LiveEntries(tab), k)
           /\ \A i \in Live(tab) : /\ tab.entries[i].key \in Dict!Keys
                                   /\ Dict!IndexOf(tab.entries[i].key) = RankIn(Live(tab), i)
  <1> DEFINE s == LiveEntries(tab)
  <1>1. GoodTable(tab)  BY DEF StInv
  <1>2. /\ s \in Seq(Pair) /\ DOMAIN s = 1..Len(s)
        /\ \A k : Has(Live(tab), tab.entries, k) <=> Has(1..Len(s), s, k)
        /\ \A i \in Live(tab) :
             (CHOOSE n \in DOMAIN s : s[n].key = tab.entries[i].key) = RankIn(Live(tab), i)
    BY <1>1, ListFacts
  <1>3. Dict!Keys = {e.key : e \in ToSet(s)}  BY DEF Dict!Keys, Dict!ToSet, ToSet
  <1>4. ToSet(s) = {s[n] : n \in 1..Len(s)}  BY <1>2 DEF ToSet
  <1>5. \A k : Dict!IndexOf(k) = CHOOSE n \in DOMAIN s : s[n].key = k  BY DEF Dict!IndexOf
  <1> HIDE DEF s
  <1>6. \A k : k \in Dict!Keys <=> Has(1..Len(s), s, k)  BY <1>3, <1>4 DEF Has
  <1>7. \A i \in Live(tab) : Has(Live(tab), tab.entries, tab.entries[i].key)  BY DEF Has
  <1> QED  BY <1>2, <1>5, <1>6, <1>7 DEF s

\* A new table is an empty dictionary.
LEMMA DictInit ==
    ASSUME Init
    PROVE  Dict!Init
  <1>1. StInv  BY InitInv
  <1>2. GoodTable(tab) /\ IsTable(tab) /\ iter = NoIter /\ traversal = "none"
    BY <1>1 DEF StInv, GoodTable, Init
  <1>3. tab.entries = <<>>
    BY DEF Init, st_init_table_with_size
  <1>4. Live(tab) = {}
    <2>1. DOMAIN tab.entries = {}  BY <1>3
    <2> QED  BY <2>1 DEF Live
  <1>5. LiveEntries(tab) = <<>>  BY <1>2, <1>4, NoEntries
  <1>6. Passed = 0  BY <1>2 DEF Passed, Running
  <1> QED  BY <1>2, <1>5, <1>6 DEF Dict!Init, NoIter

\* An insertion puts the pair at its place and keeps that of the traversal.
LEMMA PutStep ==
    ASSUME StInv, StInv', PassedOK, PassedOK', NEW k \in Key, NEW v \in Value,
           NEW t, Ready(tab, t) \/ t = tab, InsertEffect(t, tab', k, v),
           SearchEnds(tab, k), MayAdd(k), UNCHANGED traversal,
           \/ iter' = iter /\ (t = tab \/ ~Running \/ iter.rebuilt)
           \/ Running /\ iter' = [iter EXCEPT !.rebuilt = TRUE]
    PROVE  Dict!Put(k, v)
  <1> DEFINE s == LiveEntries(tab)
             r == LiveEntries(tab')
             e == [key |-> k, record |-> v]
             p == Passed
             q == Passed'
             key == iter.key
  <1>1. GoodTable(tab) /\ GoodTable(tab') /\ GoodTable(t) /\ IterOK
    BY DEF StInv, Ready
  <1>2. LiveEntries(t) = s  BY DEF Ready
  <1>3. iter'.key = key /\ iter'.i = iter.i /\ (iter.rebuilt => iter'.rebuilt) /\ iter.rebuilt \in BOOLEAN
    BY <1>1 DEF IterOK
  <1>4. /\ s \in Seq(Pair) /\ Len(s) \in Nat /\ DOMAIN s = 1..Len(s) /\ Distinct(s, 1..Len(s))
        /\ \A l : Has(Live(tab), tab.entries, l) <=> Has(1..Len(s), s, l)
    BY <1>1, ListFacts
  <1>5. /\ \A l : Has(Live(t), t.entries, l) <=> Has(1..Len(s), s, l)
        /\ \A i \in Live(t) :
            /\ RankIn(Live(t), i) \in 1..Len(s) /\ s[RankIn(Live(t), i)] = t.entries[i]
            /\ (CHOOSE n \in DOMAIN s : s[n].key = t.entries[i].key) = RankIn(Live(t), i)
    BY <1>1, <1>2, ListFacts
  <1>6. \A l : l \in Dict!Keys <=> Has(1..Len(s), s, l)  BY DictKeys
  <1>7. \A l : Dict!IndexOf(l) = CHOOSE n \in DOMAIN s : s[n].key = l  BY DEF Dict!IndexOf
  <1>8. \/ ~Has(1..Len(s), s, k) /\ Added(t, tab', k, v) /\ r = Append(s, e)
        \/ \E i \in Live(t) : /\ Has(1..Len(s), s, k) /\ Updated(t, tab', i, v)
                              /\ r = [s EXCEPT ![Dict!IndexOf(k)].record = v]
                              /\ Dict!IndexOf(k) \in 1..Len(s) /\ s[Dict!IndexOf(k)].key = k
    <2>1. CASE (\A i \in Live(t) : t.entries[i].key # k) /\ Added(t, tab', k, v)
      <3>1. ~Has(Live(t), t.entries, k)  BY <2>1 DEF Has
      <3>2. r = Append(s, e)  BY <1>1, <1>2, <2>1, AddedList
      <3> QED  BY <1>5, <2>1, <3>1, <3>2
    <2>2. CASE \E i \in Live(t) : t.entries[i].key = k /\ Updated(t, tab', i, v)
      <3>1. PICK i \in Live(t) : t.entries[i].key = k /\ Updated(t, tab', i, v)  BY <2>2
      <3>2. Has(1..Len(s), s, k)
        <4>1. Has(Live(t), t.entries, k)  BY <3>1 DEF Has
        <4> QED  BY <1>5, <4>1
      <3> DEFINE n == RankIn(Live(t), i)
      <3>3. r = [s EXCEPT ![n].record = v]  BY <1>1, <1>2, <3>1, UpdatedList
      <3>4. Dict!IndexOf(k) = n /\ n \in 1..Len(s) /\ s[n].key = k  BY <1>5, <1>7, <3>1
      <3> HIDE DEF n, s, r
      <3> QED  BY <3>1, <3>2, <3>3, <3>4
    <2> QED  BY <2>1, <2>2 DEF InsertEffect
  <1>9. r = IF k \in Dict!Keys THEN [s EXCEPT ![Dict!IndexOf(k)].record = v] ELSE Append(s, e)
    BY <1>6, <1>8
  <1>10. q = p \/ (key \notin Dict!Keys /\ traversal = "running" /\ q = -1)
    <2>1. CASE ~Running
      <3>1. ~Running'  BY <2>1 DEF Running
      <3>2. p = 0  BY <2>1 DEF PassedOK
      <3>3. q = 0  BY <3>1 DEF PassedOK
      <3> QED  BY <3>2, <3>3
    <2>2. CASE Running
      <3>1. Running' /\ traversal = "running"  BY <2>2 DEF Running
      <3>2. AtPlace(tab, iter, p)  BY <2>2 DEF PassedOK
      <3>3. AtPlace(tab', iter', q)  BY <3>1 DEF PassedOK
      <3>4. CASE ~iter'.rebuilt
        <4>1. t = tab /\ iter' = iter  BY <1>1, <1>3, <2>2, <3>4 DEF IterOK
        <4> DEFINE c == iter.i  L == Live(tab)  K == Live(tab')
        <4>2. CurrentAt(tab, c, key) /\ p = RankIn(L, c) /\ q = RankIn(K, c)
          BY <3>2, <3>3, <3>4, <4>1 DEF AtPlace
        <4>3. IsTable(tab)  BY <1>1 DEF GoodTable
        <4> DEFINE n == Len(tab.entries)
        <4>4. n \in Nat /\ c \in 1..n /\ L \subseteq 1..n /\ FiniteOfNat(L)
          BY <4>2, <4>3, TableFacts, LiveLists DEF CurrentAt
        <4>5. CASE Added(t, tab', k, v)
          <5>1. K = L \cup {n + 1}  BY <4>1, <4>5 DEF Added
          <5> HIDE DEF n, L, K, c
          <5>2. n + 1 \in Nat /\ c \in Nat /\ c < n + 1 /\ \A j \in L : j < n + 1  BY <4>4
          <5>3. RankIn(L \cup {n + 1}, c) = RankIn(L, c)  BY <4>4, <5>2, RankAdd
          <5> QED  BY <4>2, <5>1, <5>3
        <4>6. CASE \E i \in Live(t) : Updated(t, tab', i, v)
          <5>1. K = L  BY <4>1, <4>6 DEF Updated
          <5> QED  BY <4>2, <5>1
        <4> QED  BY <1>8, <4>5, <4>6
      <3>5. CASE iter'.rebuilt
        <4>1. ListPlace(s, iter, p)  BY <1>1, <3>2, PlaceInList
        <4>2. ListPlace(r, iter', q)  BY <1>1, <3>3, PlaceInList
        <4>3. r \in Seq(Pair) /\ Len(r) \in Nat /\ Distinct(r, 1..Len(r))  BY <1>1, ListFacts
        <4>4. CASE Has(1..Len(s), s, key)
          <5>1. p \in 1..Len(s) /\ s[p].key = key  BY <4>1, <4>4 DEF ListPlace
          <5>2. p \in 1..Len(r) /\ r[p].key = key
            <6>1. CASE r = Append(s, e)
              <7>1. e \in Pair  BY DEF Pair
              <7> HIDE DEF s, e, p, r
              <7>2. Len(r) = Len(s) + 1 /\ \A n \in 1..Len(s) : r[n] = s[n]
                BY <1>4, <6>1, <7>1, AppendProperties
              <7> QED  BY <1>4, <5>1, <7>2
            <6>2. ASSUME NEW n \in 1..Len(s), r = [s EXCEPT ![n].record = v], s[n].key = k
                  PROVE  p \in 1..Len(r) /\ r[p].key = key
              <7> DEFINE f == [s[n] EXCEPT !.record = v]
              <7> HIDE DEF s, r, p
              <7>1. s[n] \in Pair  BY <1>4, ElementOfSeq
              <7>2. f \in Pair /\ f.key = s[n].key  BY <7>1 DEF Pair
              <7>3. r = [s EXCEPT ![n] = f]  BY <6>2
              <7> HIDE DEF f
              <7>4. Len(r) = Len(s) /\ \A j \in 1..Len(s) : r[j] = IF j = n THEN f ELSE s[j]
                BY <1>4, <7>2, <7>3, ExceptSeq
              <7> QED  BY <5>1, <7>2, <7>4
            <6> QED  BY <1>8, <6>1, <6>2
          <5>3. Has(1..Len(r), r, key)  BY <5>2 DEF Has
          <5>4. q \in 1..Len(r) /\ r[q].key = key  BY <1>3, <4>2, <5>3 DEF ListPlace
          <5> HIDE DEF r, p, q
          <5>5. q = p  BY <4>3, <5>2, <5>4 DEF Distinct
          <5> QED  BY <5>5
        <4>5. CASE ~Has(1..Len(s), s, key)
          <5>1. ~Has(1..Len(r), r, key)
            <6>1. CASE ~Has(1..Len(s), s, k) /\ r = Append(s, e)
              <7>1. k # key
                <8>1. Finds(tab, k)  BY <1>1, SearchLemma
                <8>2. ~Has(Live(tab), tab.entries, k)  BY <1>4, <6>1
                <8>3. Found(tab, k) = {}  BY <8>1, <8>2 DEF Finds, Has
                <8> QED  BY <2>2, <8>3 DEF MayAdd
              <7>2. e \in Pair /\ e.key # key  BY <7>1 DEF Pair
              <7> HIDE DEF s, e, r, key
              <7>3. Len(r) = Len(s) + 1 /\ r[Len(s) + 1] = e /\ \A n \in 1..Len(s) : r[n] = s[n]
                BY <1>4, <6>1, <7>2, AppendProperties
              <7>4. \A n \in 1..Len(r) : n \in 1..Len(s) \/ n = Len(s) + 1  BY <1>4, <7>3
              <7> QED  BY <4>5, <7>2, <7>3, <7>4 DEF Has
            <6>2. ASSUME NEW n \in 1..Len(s), r = [s EXCEPT ![n].record = v], s[n].key = k
                  PROVE  ~Has(1..Len(r), r, key)
              <7> DEFINE f == [s[n] EXCEPT !.record = v]
              <7> HIDE DEF s, r
              <7>1. s[n] \in Pair  BY <1>4, ElementOfSeq
              <7>2. f \in Pair /\ f.key = s[n].key  BY <7>1 DEF Pair
              <7>3. r = [s EXCEPT ![n] = f]  BY <6>2
              <7> HIDE DEF f
              <7>4. Len(r) = Len(s) /\ \A j \in 1..Len(s) : r[j] = IF j = n THEN f ELSE s[j]
                BY <1>4, <7>2, <7>3, ExceptSeq
              <7> QED  BY <4>5, <7>2, <7>4 DEF Has
            <6> QED  BY <1>8, <6>1, <6>2
          <5>2. q = -1  BY <1>3, <3>5, <4>2, <5>1 DEF ListPlace
          <5> QED  BY <1>6, <3>1, <4>5, <5>2
        <4> QED  BY <4>4, <4>5
      <3> QED  BY <3>4, <3>5
    <2> QED  BY <2>1, <2>2
  <1> HIDE DEF s, r, p, q, key
  <1>11. (iter.key)' = iter.key  BY <1>3 DEF key
  <1>12. LiveEntries(tab)' = r /\ Passed' = q /\ LiveEntries(tab) = s /\ Passed = p /\ iter.key = key
    BY DEF r, q, s, p, key
  <1> QED  BY <1>9, <1>10, <1>11, <1>12 DEF Dict!Put, Dict!MayLose, Dict!Lost, e

\* st_insert puts the pair at its place.
LEMMA InsertPuts ==
    ASSUME StInv, StInv', PassedOK, PassedOK', NEW k \in Key, NEW v \in Value, st_insert(k, v)
    PROVE  Dict!Put(k, v)
  <1>1. PICK t : Ready(tab, t) /\ InsertEffect(t, tab', k, v)  BY InsertStep
  <1>2. SearchEnds(tab, k) /\ MayAdd(k) /\ NoteRebuild /\ UNCHANGED traversal  BY DEF st_insert
  <1>3. \/ iter' = iter /\ (t = tab \/ ~Running \/ iter.rebuilt)
        \/ Running /\ iter' = [iter EXCEPT !.rebuilt = TRUE]
    BY <1>1, <1>2 DEF NoteRebuild, Ready
  <1> QED  BY <1>1, <1>2, <1>3, PutStep

\* The same for st_update.
LEMMA UpdatePuts ==
    ASSUME StInv, StInv', PassedOK, PassedOK', NEW k \in Key, NEW v \in Value, st_update(k, v)
    PROVE  Dict!Put(k, v)
  <1>1. PICK t : /\ (Ready(tab, t) /\ NoteRebuild) \/ (t = tab /\ UNCHANGED iter)
                 /\ InsertEffect(t, tab', k, v)
    BY UpdateStep
  <1>2. SearchEnds(tab, k) /\ MayAdd(k) /\ UNCHANGED traversal  BY DEF st_update
  <1>3. \/ iter' = iter /\ (t = tab \/ ~Running \/ iter.rebuilt)
        \/ Running /\ iter' = [iter EXCEPT !.rebuilt = TRUE]
    <2>1. CASE t = tab /\ UNCHANGED iter  BY <2>1
    <2>2. CASE Ready(tab, t) /\ NoteRebuild  BY <2>2 DEF NoteRebuild, Ready
    <2> QED  BY <1>1, <2>1, <2>2
  <1> QED  BY <1>1, <1>2, <1>3, PutStep

\* The place of a traversal in t, if the table was rebuilt: it is looked up.
LEMMA PlaceLookedUp ==
    ASSUME NEW t, GoodTable(t), NEW it, it.rebuilt, NEW p, AtPlace(t, it, p)
    PROVE  /\ \A c \in Live(t) : t.entries[c].key = it.key => p = RankIn(Live(t), c)
           /\ ~Has(Live(t), t.entries, it.key) => p = -1
  <1>1. Distinct(t.entries, Live(t))  BY DEF GoodTable
  <1>2. ASSUME NEW c \in Live(t), t.entries[c].key = it.key  PROVE p = RankIn(Live(t), c)
    <2>1. Has(Live(t), t.entries, it.key)  BY <1>2 DEF Has
    <2>2. PICK i \in Live(t) : t.entries[i].key = it.key /\ p = RankIn(Live(t), i)
      BY <2>1 DEF AtPlace
    <2>3. i = c  BY <1>1, <1>2, <2>2 DEF Distinct
    <2> QED  BY <2>2, <2>3
  <1>3. ASSUME ~Has(Live(t), t.entries, it.key)  PROVE p = -1
    <2>1. \A i \in Live(t) : t.entries[i].key # it.key  BY <1>3 DEF Has
    <2> QED  BY <1>3, <2>1 DEF AtPlace
  <1> QED  BY <1>2, <1>3

\* The ranks after an element was removed.
LEMMA RankAfterRemoval ==
    ASSUME NEW L, FiniteOfNat(L), NEW i \in L, NEW c \in Nat
    PROVE  RankIn(L \ {i}, c) = IF RankIn(L, i) <= RankIn(L, c) THEN RankIn(L, c) - 1 ELSE RankIn(L, c)
  <1>0. i \in Nat /\ RankIn(L, i) \in Nat /\ RankIn(L, c) \in Nat  BY RankType DEF FiniteOfNat
  <1>1. RankIn(L \ {i}, c) = IF c >= i THEN RankIn(L, c) - 1 ELSE RankIn(L, c)  BY RankRemove
  <1>2. CASE c >= i
    <2>1. RankIn(L, i) <= RankIn(L, c)  BY <1>0, <1>2, RankMonotonic
    <2> QED  BY <1>1, <1>2, <2>1
  <1>3. CASE c < i
    <2>1. RankIn(L, c) < RankIn(L, i)  BY <1>0, <1>3, RankOrder
    <2> DEFINE a == RankIn(L, c)  b == RankIn(L, i)
    <2>2. ~(b <= a)
      <3>1. a \in Nat /\ b \in Nat /\ a < b  BY <1>0, <2>1
      <3> HIDE DEF a, b
      <3> QED  BY <3>1
    <2> QED  BY <1>0, <1>1, <1>3, <2>2
  <1> QED  BY <1>0, <1>2, <1>3

\* st_delete removes the pair of its key: the traversal is one place further on if the pair
\* was before its own, and may be lost if it was its own.
LEMMA DeleteRemoves ==
    ASSUME StInv, StInv', PassedOK, PassedOK', NEW k \in Key, st_delete(k)
    PROVE  Dict!Delete(k)
  <1> DEFINE s == LiveEntries(tab)
             r == LiveEntries(tab')
             L == Live(tab)
             K == Live(tab')
             p == Passed
             q == Passed'
             key == iter.key
  <1>1. GoodTable(tab) /\ GoodTable(tab') /\ IterOK /\ IsTable(tab)  BY DEF StInv, GoodTable
  <1>2. PICK i \in L : tab.entries[i].key = k /\ Removed(tab, tab', i)  BY DeleteStep
  <1>3. UNCHANGED <<iter, traversal>>  BY DEF st_delete
  <1> DEFINE n == RankIn(L, i)
  <1>4. FiniteOfNat(L) /\ L \subseteq Nat  BY <1>1, LiveLists DEF FiniteOfNat
  <1>5. n \in Nat /\ n >= 1
    <2>1. n \in 1..Cardinality(L) /\ Cardinality(L) \in Nat  BY <1>4, RankBounds, RankType
    <2> HIDE DEF n
    <2> QED  BY <2>1
  <1>6. k \in Dict!Keys /\ Dict!IndexOf(k) = n  BY <1>2, DictKeys
  <1>7. r = Dict!RemoveAt(s, n)
    <2>1. r = RemoveAt(s, n)  BY <1>1, <1>2, RemovedList
    <2> QED  BY <2>1 DEF RemoveAt, Dict!RemoveAt
  <1>8. K = L \ {i} /\ tab'.entries = [tab.entries EXCEPT ![i] = DeletedEntry]  BY <1>2 DEF Removed
  <1>9. \A j \in K : tab'.entries[j] = tab.entries[j]
    <2>1. L \subseteq DOMAIN tab.entries  BY <1>1, TableFacts
    <2> QED  BY <1>8, <2>1
  <1>10. \/ q = IF n <= p THEN p - 1 ELSE p
         \/ traversal = "running" /\ k = key /\ q = -1
    <2>1. CASE ~Running
      <3>1. ~Running'  BY <1>3, <2>1 DEF Running
      <3>2. p = 0  BY <2>1 DEF PassedOK
      <3>3. q = 0  BY <3>1 DEF PassedOK
      <3> HIDE DEF p, q, n
      <3> QED  BY <1>5, <3>2, <3>3
    <2>2. CASE Running
      <3>1. Running' /\ traversal = "running"  BY <1>3, <2>2 DEF Running
      <3>2. AtPlace(tab, iter, p)  BY <2>2 DEF PassedOK
      <3>3. AtPlace(tab', iter, q)  BY <1>3, <3>1 DEF PassedOK
      <3>4. ASSUME NEW c \in Nat, p = RankIn(L, c), q = RankIn(K, c)
            PROVE  q = IF n <= p THEN p - 1 ELSE p
        <4>1. RankIn(L \ {i}, c) = IF n <= RankIn(L, c) THEN RankIn(L, c) - 1 ELSE RankIn(L, c)
          BY <1>4, RankAfterRemoval
        <4> QED  BY <1>8, <3>4, <4>1
      <3>5. CASE ~iter.rebuilt
        <4>1. p = RankIn(L, iter.i) /\ q = RankIn(K, iter.i)  BY <3>2, <3>3, <3>5 DEF AtPlace
        <4>2. iter.i \in Nat  BY <1>1 DEF IterOK
        <4> HIDE DEF p, q, n
        <4> QED  BY <3>4, <4>1, <4>2
      <3>6. CASE iter.rebuilt /\ ~Has(L, tab.entries, key)
        <4>1. p = -1  BY <1>1, <3>2, <3>6, PlaceLookedUp
        <4>2. ~Has(K, tab'.entries, key)  BY <1>8, <1>9, <3>6 DEF Has
        <4>3. q = -1  BY <1>1, <3>3, <3>6, <4>2, PlaceLookedUp
        <4> HIDE DEF p, q, n
        <4> QED  BY <1>5, <4>1, <4>3
      <3>7. CASE iter.rebuilt /\ Has(L, tab.entries, key)
        <4>1. PICK c \in L : tab.entries[c].key = key  BY <3>7 DEF Has
        <4>2. CASE c = i
          <5>1. ~Has(K, tab'.entries, key)
            <6>1. Distinct(tab.entries, L)  BY <1>1 DEF GoodTable
            <6>2. \A j \in K : tab.entries[j].key # key  BY <1>8, <4>1, <4>2, <6>1 DEF Distinct
            <6> QED  BY <1>9, <6>2 DEF Has
          <5>2. q = -1  BY <1>1, <3>3, <3>7, <5>1, PlaceLookedUp
          <5> QED  BY <1>2, <3>1, <4>1, <4>2, <5>2
        <4>3. CASE c # i
          <5>1. c \in K /\ tab'.entries[c].key = key  BY <1>8, <1>9, <4>1, <4>3
          <5>2. p = RankIn(L, c)  BY <1>1, <3>2, <3>7, <4>1, PlaceLookedUp
          <5>3. q = RankIn(K, c)  BY <1>1, <3>3, <3>7, <5>1, PlaceLookedUp
          <5>4. c \in Nat  BY <1>4
          <5> HIDE DEF p, q, n
          <5> QED  BY <3>4, <5>2, <5>3, <5>4
        <4> QED  BY <4>2, <4>3
      <3> QED  BY <3>5, <3>6, <3>7
    <2> QED  BY <2>1, <2>2
  <1> HIDE DEF s, r, p, q, n, key
  <1>11. LiveEntries(tab)' = r /\ Passed' = q /\ LiveEntries(tab) = s /\ Passed = p /\ iter.key = key
    BY DEF r, q, s, p, key
  <1>12. (iter.key)' = iter.key  BY <1>3
  <1> QED  BY <1>3, <1>6, <1>7, <1>10, <1>11, <1>12 DEF Dict!Delete, Dict!MayLose, Dict!Lost

\* Removing the first element.
LEMMA FirstRemoved ==
    ASSUME NEW S, NEW q \in Seq(S), q # <<>>
    PROVE  RemoveAt(q, 1) = Tail(q)
  <1> DEFINE r == RemoveAt(q, 1)
             w == Tail(q)
             n == Len(q)
  <1>1. n \in Nat /\ n # 0  BY LenProperties, EmptySeq
  <1>2. 1 \in 1..n  BY <1>1
  <1>3. /\ r \in Seq(S) /\ Len(r) = n - 1
        /\ \A m \in 1..(n - 1) : r[m] = IF m < 1 THEN q[m] ELSE q[m + 1]
    <2> DEFINE one == 1
    <2>1. one \in 1..Len(q)  BY <1>2
    <2> HIDE DEF one
    <2>2. /\ RemoveAt(q, one) \in Seq(S) /\ Len(RemoveAt(q, one)) = Len(q) - 1
          /\ \A m \in 1..(Len(q) - 1) : RemoveAt(q, one)[m] = IF m < one THEN q[m] ELSE q[m + 1]
      BY <2>1, RemoveAtParts
    <2> QED  BY <2>2 DEF one
  <1>4. w \in Seq(S) /\ Len(w) = n - 1 /\ \A m \in 1..(n - 1) : w[m] = q[m + 1]
    BY HeadTailProperties
  <1> HIDE DEF r, w, n
  <1>5. \A m \in 1..(n - 1) : r[m] = w[m]
    <2> SUFFICES ASSUME NEW m \in 1..(n - 1)  PROVE r[m] = w[m]  OBVIOUS
    <2>1. ~(m < 1)  BY <1>1
    <2> QED  BY <1>3, <1>4, <2>1
  <1>6. r = w  BY <1>3, <1>4, <1>5, SeqEqual
  <1> QED  BY <1>6 DEF r, w

\* st_shift removes the first pair.
LEMMA ShiftRemoves ==
    ASSUME StInv, StInv', PassedOK, PassedOK', st_shift
    PROVE  Dict!Shift
  <1> DEFINE s == LiveEntries(tab)
             L == Live(tab)
             i == Min(L)
  <1>1. GoodTable(tab) /\ IsTable(tab)  BY DEF StInv, GoodTable
  <1>2. Removed(tab, tab', i) /\ i \in L  BY ShiftStep
  <1>3. ~Running /\ UNCHANGED <<iter, traversal>>  BY DEF st_shift
  <1>4. FiniteOfNat(L) /\ L \subseteq Nat  BY <1>1, LiveLists DEF FiniteOfNat
  <1>5. \A j \in L : i <= j  BY <1>2, <1>4, MinProperties
  <1> HIDE DEF i
  <1>6. RankIn(L, i) = 1
    <2>1. {j \in L : j <= i} = {i}
      <3>1. i \in Nat /\ \A j \in L : j \in Nat  BY <1>2, <1>4
      <3>2. \A j \in L : j <= i => j = i  BY <1>5, <3>1
      <3>3. i <= i  BY <3>1
      <3> QED  BY <1>2, <3>2, <3>3
    <2> QED  BY <2>1, FS_Singleton DEF RankIn
  <1>7. LiveEntries(tab') = RemoveAt(s, 1)
    <2>1. LiveEntries(tab') = RemoveAt(s, RankIn(L, i))  BY <1>1, <1>2, RemovedList
    <2> QED  BY <1>6, <2>1
  <1>8. s \in Seq(Pair) /\ s # <<>>
    <2>1. s \in Seq(Pair) /\ RankIn(L, i) \in 1..Len(s)  BY <1>1, <1>2, ListFacts
    <2>2. s # <<>>
      <3> SUFFICES ASSUME s = <<>>  PROVE FALSE  OBVIOUS
      <3>1. Len(s) = 0  BY EmptySeq
      <3> QED  BY <2>1, <3>1
    <2> QED  BY <2>1, <2>2
  <1>9. LiveEntries(tab') = Tail(s)
    <2> HIDE DEF s
    <2> QED  BY <1>7, <1>8, FirstRemoved
  <1>10. Passed = 0 /\ Passed' = 0
    <2>1. ~Running'  BY <1>3 DEF Running
    <2> QED  BY <1>3, <2>1 DEF PassedOK
  <1> HIDE DEF s
  <1>11. LiveEntries(tab)' = LiveEntries(tab') /\ LiveEntries(tab) = s /\ traversal # "running"
    BY <1>3 DEF s, Running
  <1> QED  BY <1>3, <1>8, <1>9, <1>10, <1>11 DEF Dict!Shift

\* st_shift of an empty table changes nothing that can be seen of it.
LEMMA ShiftOfEmptyStutters ==
    ASSUME StInv, PassedOK, PassedOK', ShiftEmpty
    PROVE  UNCHANGED Dict!dictVars
  <1>1. LiveEntries(tab') = LiveEntries(tab)  BY ShiftEmptyStep
  <1>2. ~Running /\ UNCHANGED <<iter, traversal>>  BY DEF ShiftEmpty
  <1>3. ~Running'  BY <1>2 DEF Running
  <1>4. Passed = 0 /\ Passed' = 0  BY <1>2, <1>3 DEF PassedOK
  <1> QED  BY <1>1, <1>2, <1>4 DEF Dict!dictVars

\* st_clear removes all pairs.
LEMMA ClearEmpties ==
    ASSUME StInv, PassedOK, PassedOK', st_clear
    PROVE  Dict!Clear
  <1>1. LiveEntries(tab') = <<>>  BY ClearStep
  <1>2. ~Running /\ UNCHANGED <<iter, traversal>>  BY DEF st_clear
  <1>3. ~Running'  BY <1>2 DEF Running
  <1>4. Passed = 0 /\ Passed' = 0  BY <1>2, <1>3 DEF PassedOK
  <1> QED  BY <1>1, <1>2, <1>4 DEF Dict!Clear, Running

\* The loop of a traversal goes on with the pair that follows.
LEMMA GoesOn ==
    ASSUME NEW t, GoodTable(t), NEW i \in Nat, GoOn(t, i), PassedOK'
    PROVE  Dict!GoOn(LiveEntries(t), RankIn(Live(t), i))
  <1> DEFINE s == LiveEntries(t)
             L == Live(t)
             n == RankIn(L, i)
             rest == {j \in L : j > i}
             m == Min(rest)
             q == Passed'
  <1>1. IsTable(t)  BY DEF GoodTable
  <1>2. /\ Len(s) = Cardinality(L) /\ Len(s) \in Nat
        /\ \A j \in L : s[RankIn(L, j)] = t.entries[j]
    BY ListFacts
  <1>3. FiniteOfNat(L)  BY <1>1, LiveLists
  <1>4. n \in Nat  BY <1>3, RankType
  <1>5. /\ rest = {} <=> n >= Len(s)
        /\ rest # {} => m \in L /\ RankIn(L, m) = n + 1
    <2>1. /\ rest = {} <=> RankIn(L, i) >= Cardinality(L)
          /\ rest # {} => /\ Min(rest) \in L /\ Min(rest) > i
                          /\ RankIn(L, Min(rest)) = RankIn(L, i) + 1
      <3> HIDE DEF L
      <3> QED  BY <1>3, RankNext
    <2> QED  BY <1>2, <2>1
  <1>6. tab' = t  BY DEF GoOn
  <1>7. CASE rest = {}
    <2>1. iter' = NoIter /\ traversal' = "complete"  BY <1>7 DEF GoOn
    <2>2. ~Running'  BY <2>1 DEF Running
    <2>3. Passed' = 0  BY <2>2 DEF PassedOK
    <2>4. ~(n < Len(s))
      <3>1. n >= Len(s)  BY <1>5, <1>7
      <3> HIDE DEF n, s
      <3> QED  BY <1>2, <1>4, <3>1
    <2>5. (iter.key)' = NoKey  BY <2>1 DEF NoIter
    <2>6. LiveEntries(tab)' = s  BY <1>6
    <2> HIDE DEF s, n, L
    <2>7. Dict!GoOn(s, n)  BY <2>1, <2>3, <2>4, <2>5, <2>6 DEF Dict!GoOn
    <2> QED  BY <2>7 DEF s, n, L
  <1>8. CASE rest # {}
    <2>1. iter' = [i |-> m, key |-> t.entries[m].key, rebuilt |-> FALSE] /\ traversal' = "running"
      BY <1>8 DEF GoOn
    <2>2. m \in L /\ RankIn(L, m) = n + 1  BY <1>5, <1>8
    <2> HIDE DEF m
    <2>3. iter'.i = m /\ iter'.key = t.entries[m].key /\ iter'.rebuilt = FALSE  BY <2>1
    <2>4. Running'  BY <2>1 DEF Running
    <2>5. AtPlace(tab', iter', q)  BY <2>4 DEF PassedOK
    <2>6. q = n + 1
      <3>1. q = RankIn(Live(tab'), iter'.i)  BY <2>3, <2>5 DEF AtPlace
      <3> QED  BY <1>6, <2>2, <2>3, <3>1
    <2>7. s[n + 1].key = (iter.key)'
      <3>1. s[RankIn(L, m)] = t.entries[m]  BY <1>2, <2>2
      <3> HIDE DEF s, n, L
      <3> QED  BY <2>2, <2>3, <3>1
    <2>8. n < Len(s)
      <3>1. ~(n >= Len(s))  BY <1>5, <1>8
      <3> HIDE DEF n, s
      <3> QED  BY <1>2, <1>4, <3>1
    <2>9. LiveEntries(tab)' = s  BY <1>6
    <2>10. Passed' = q  OBVIOUS
    <2> HIDE DEF s, n, q, L
    <2>11. Dict!GoOn(s, n)  BY <2>1, <2>6, <2>7, <2>8, <2>9, <2>10 DEF Dict!GoOn
    <2> QED  BY <2>11 DEF s, n, L
  <1> QED  BY <1>7, <1>8

\* A traversal begins with the first pair.
LEMMA BeginBegins ==
    ASSUME StInv, PassedOK', ForeachBegin
    PROVE  Dict!Begin
  <1> DEFINE L == Live(tab)
             i == tab.entries_start
  <1>1. GoodTable(tab) /\ IsTable(tab)  BY DEF StInv, GoodTable
  <1>2. i \in Nat /\ L \subseteq Nat
    <2>1. i \in 0..Len(tab.entries) /\ Len(tab.entries) \in Nat /\ L \subseteq 1..Len(tab.entries)
      BY <1>1, TableFacts DEF IsTable
    <2> QED  BY <2>1
  <1>3. RankIn(L, i) = 0
    <2>1. \A j \in L : j > i  BY DEF Live
    <2>2. {j \in L : j <= i} = {}
      <3> HIDE DEF L, i
      <3>1. \A j \in L : ~(j <= i)  BY <1>2, <2>1
      <3> QED  BY <3>1
    <2> QED  BY <2>2, FS_EmptySet DEF RankIn
  <1>4. ~Running /\ GoOn(tab, i)  BY DEF ForeachBegin
  <1>5. Dict!GoOn(LiveEntries(tab), RankIn(L, i))  BY <1>1, <1>2, <1>4, GoesOn
  <1>6. Dict!GoOn(LiveEntries(tab), 0)
    <2> HIDE DEF L, i
    <2> QED  BY <1>3, <1>5
  <1> QED  BY <1>4, <1>6 DEF Dict!Begin, Running

\* The place of a traversal whose current entry is found when the callback returns.
LEMMA PlaceOfCurrent ==
    ASSUME StInv, Running, SearchEnds(tab, iter.key), CurrentEntry # {}
    PROVE  \E i \in 1..Len(tab.entries) :
                /\ Max(CurrentEntry) = i /\ i \in Nat /\ CurrentAt(tab, i, iter.key)
                /\ Passed = RankIn(Live(tab), i) /\ Passed # Dict!Lost
  <1>1. PICK i \in 1..Len(tab.entries) : Max(CurrentEntry) = i /\ i \in Nat
                                         /\ CurrentAt(tab, i, iter.key)
    BY CurrentEntryType
  <1>2. Passed = RankIn(Live(tab), i)  BY <1>1 DEF Passed, Rank, RankIn
  <1>3. FiniteOfNat(Live(tab))  BY LiveLists DEF StInv, GoodTable
  <1>4. RankIn(Live(tab), i) \in Nat  BY <1>3, RankType
  <1>5. Passed # Dict!Lost  BY <1>2, <1>4 DEF Dict!Lost
  <1> QED  BY <1>1, <1>2, <1>5

\* When the callback returns ST_CONTINUE the next pair follows.
LEMMA ContinueAdvances ==
    ASSUME StInv, PassedOK', ForeachContinue
    PROVE  Dict!Advance
  <1>1. Running /\ SearchEnds(tab, iter.key) /\ CurrentEntry # {} /\ GoOn(tab, Max(CurrentEntry))
    BY DEF ForeachContinue, CallbackReturns
  <1>2. PICK i \in 1..Len(tab.entries) :
                /\ Max(CurrentEntry) = i /\ i \in Nat
                /\ Passed = RankIn(Live(tab), i) /\ Passed # Dict!Lost
    BY <1>1, PlaceOfCurrent
  <1>3. GoodTable(tab)  BY DEF StInv
  <1>4. Dict!GoOn(LiveEntries(tab), Passed)  BY <1>1, <1>2, <1>3, GoesOn
  <1> QED  BY <1>1, <1>2, <1>4 DEF Dict!Advance, Running

\* When the callback returns ST_STOP the traversal ends.
LEMMA StopStops ==
    ASSUME StInv, PassedOK', ForeachStop
    PROVE  Dict!Stop
  <1>1. Running /\ SearchEnds(tab, iter.key) /\ CurrentEntry # {} /\ Return("none")
    BY DEF ForeachStop, CallbackReturns
  <1>2. Passed # Dict!Lost  BY <1>1, PlaceOfCurrent
  <1>3. iter' = NoIter /\ traversal' = "none" /\ tab' = tab  BY <1>1 DEF Return
  <1>4. ~Running'  BY <1>3 DEF Running
  <1>5. Passed' = 0  BY <1>4 DEF PassedOK
  <1> QED  BY <1>1, <1>2, <1>3, <1>5 DEF Dict!Stop, Dict!End, Running, NoIter

\* A traversal whose place is lost ends with an error.
LEMMA ErrorAborts ==
    ASSUME StInv, PassedOK', ForeachError
    PROVE  Dict!Abort
  <1>1. Running /\ CurrentEntry = {} /\ Return("error")  BY DEF ForeachError, CallbackReturns
  <1>2. Passed = Dict!Lost  BY <1>1 DEF Passed, Dict!Lost
  <1>3. iter' = NoIter /\ traversal' = "error" /\ tab' = tab  BY <1>1 DEF Return
  <1>4. ~Running'  BY <1>3 DEF Running
  <1>5. Passed' = 0  BY <1>4 DEF PassedOK
  <1> QED  BY <1>1, <1>2, <1>3, <1>5 DEF Dict!Abort, Dict!End, Running, NoIter

\* When the callback returns ST_DELETE the pair that follows the deleted one is next; if
\* the callback has deleted it already nothing is deleted.
LEMMA DeleteAdvances ==
    ASSUME StInv, PassedOK', ForeachDelete
    PROVE  Dict!DeleteAndAdvance \/ Dict!Advance
  <1> DEFINE k == iter.key
             t == IF Found(tab, k) = {} THEN tab ELSE Deleted(tab, k)
             s == LiveEntries(tab)
             L == Live(tab)
  <1>1. Running /\ SearchEnds(tab, k) /\ CurrentEntry # {} /\ GoOn(t, Max(CurrentEntry))
    BY DEF ForeachDelete, CallbackReturns
  <1>2. PICK i \in 1..Len(tab.entries) :
                /\ Max(CurrentEntry) = i /\ i \in Nat /\ CurrentAt(tab, i, k)
                /\ Passed = RankIn(L, i) /\ Passed # Dict!Lost
    BY <1>1, PlaceOfCurrent
  <1>3. GoodTable(tab) /\ GoodTable(t) /\ FiniteOfNat(L)
    BY <1>1, DeletedCurrentGood, LiveLists DEF StInv, GoodTable
  <1>4. Dict!GoOn(LiveEntries(t), RankIn(Live(t), i))
    <2> HIDE DEF t
    <2> QED  BY <1>1, <1>2, <1>3, GoesOn
  <1>5. CASE Found(tab, k) = {}
    <2>1. t = tab  BY <1>5
    <2>2. Dict!GoOn(s, Passed)  BY <1>2, <1>4, <2>1
    <2> QED  BY <1>1, <1>2, <2>2 DEF Dict!Advance, Running
  <1>6. CASE Found(tab, k) # {}
    <2>1. PICK j \in L : tab.entries[j].key = k /\ Removed(tab, Deleted(tab, k), j)
      BY <1>1, <1>6, DeleteCurrent
    <2>2. j = i /\ t = Deleted(tab, k)  BY <1>2, <1>6, <2>1 DEF CurrentAt
    <2> HIDE DEF t
    <2>3. Removed(tab, t, i) /\ i \in L /\ tab.entries[i].key = k  BY <2>1, <2>2
    <2>4. Live(t) = L \ {i}  BY <2>3 DEF Removed
    <2>5. LiveEntries(t) = RemoveAt(s, RankIn(L, i))  BY <1>3, <2>3, RemovedList
    <2>6. k \in Dict!Keys /\ Dict!IndexOf(k) = RankIn(L, i)  BY <2>3, DictKeys
    <2>7. RankIn(L \ {i}, i) = RankIn(L, i) - 1
      <3>1. RankIn(L \ {i}, i) = IF i >= i THEN RankIn(L, i) - 1 ELSE RankIn(L, i)
        BY <1>2, <1>3, <2>3, RankRemove
      <3>2. i >= i  BY <1>2
      <3> QED  BY <3>1, <3>2
    <2> HIDE DEF L, s
    <2>8. LiveEntries(t) = Dict!RemoveAt(s, Dict!IndexOf(k))
      BY <2>5, <2>6 DEF RemoveAt, Dict!RemoveAt
    <2>9. RankIn(Live(t), i) = Passed - 1  BY <1>2, <2>4, <2>7
    <2>10. Dict!GoOn(Dict!RemoveAt(s, Dict!IndexOf(k)), Passed - 1)  BY <1>4, <2>8, <2>9
    <2> QED  BY <1>1, <1>2, <2>6, <2>10 DEF Dict!DeleteAndAdvance, Running, s
  <1> QED  BY <1>5, <1>6

\* Every step of the table is a step of the dictionary, or none.
LEMMA DictNext ==
    ASSUME StInv, StInv', PassedOK, PassedOK', [Next]_vars
    PROVE  [Dict!Next]_(Dict!dictVars)
  <1>1. ASSUME NEW p \in InsertPair, st_insert(p[1], p[2])  PROVE Dict!Next
    <2>1. p[1] \in Key /\ p[2] \in Value  BY StAssumption
    <2>2. Dict!Put(p[1], p[2])  BY <1>1, <2>1, InsertPuts
    <2> QED  BY <2>1, <2>2 DEF Dict!Next
  <1>2. ASSUME NEW p \in UpdatePair, st_update(p[1], p[2])  PROVE Dict!Next
    <2>1. p[1] \in Key /\ p[2] \in Value  BY StAssumption
    <2>2. Dict!Put(p[1], p[2])  BY <1>2, <2>1, UpdatePuts
    <2> QED  BY <2>1, <2>2 DEF Dict!Next
  <1>3. ASSUME NEW k \in Key, st_delete(k)  PROVE Dict!Next
    <2>1. Dict!Delete(k)  BY <1>3, DeleteRemoves
    <2> QED  BY <2>1 DEF Dict!Next
  <1>4. CASE st_shift  BY <1>4, ShiftRemoves DEF Dict!Next
  <1>5. CASE ShiftEmpty  BY <1>5, ShiftOfEmptyStutters
  <1>6. CASE st_clear  BY <1>6, ClearEmpties DEF Dict!Next
  <1>7. CASE ForeachBegin  BY <1>7, BeginBegins DEF Dict!Next
  <1>8. CASE ForeachContinue  BY <1>8, ContinueAdvances DEF Dict!Next
  <1>9. CASE ForeachStop  BY <1>9, StopStops DEF Dict!Next
  <1>10. CASE ForeachDelete  BY <1>10, DeleteAdvances DEF Dict!Next
  <1>11. CASE ForeachError  BY <1>11, ErrorAborts DEF Dict!Next
  <1>12. CASE UNCHANGED vars
    <2>1. tab' = tab /\ iter' = iter /\ traversal' = traversal  BY <1>12 DEF vars
    <2>2. Passed' = Passed
      <3>1. CurrentEntry' = CurrentEntry  BY <2>1 DEF CurrentEntry
      <3> QED  BY <2>1, <3>1 DEF Passed, Running
    <2> QED  BY <2>1, <2>2 DEF Dict!dictVars
  <1> QED
    BY <1>1, <1>2, <1>3, <1>4, <1>5, <1>6, <1>7, <1>8, <1>9, <1>10, <1>11, <1>12 DEF Next

\* The table is a map in the order of insertion, and a traversal of it calls back once for each
\* pair that is there when its turn comes, whatever the callback inserts, deletes and so has
\* rebuilt, if it does not put its deleted current key back (MayAdd): every step of st.c is
\* a step of OrderedDict, with the entries in their order for the dictionary and the rank of
\* the current entry for the place.
THEOREM TableImplementsDict ==
    Spec => ImplementsDict
  <1>1. Init => Dict!Init  BY DictInit
  <1>2. StInv => PassedOK  BY PassedLemma
  <1>3. StInv /\ StInv' /\ PassedOK /\ PassedOK' /\ [Next]_vars => [Dict!Next]_(Dict!dictVars)
    BY DictNext
  <1> QED  BY <1>1, <1>2, <1>3, TableInvariant, PTL DEF Spec, Dict!Spec, ImplementsDict
=============================================================================
