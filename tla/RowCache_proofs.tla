--------------------------- MODULE RowCache_proofs ---------------------------
(***************************************************************************)
(* For any cache size and any sequence of calls: evictions reach every     *)
(* cached row, and the cache and lru_order outgrow max_size by at most the *)
(* number of puts of a listed key.  The bound on the cache alone is not    *)
(* inductive: a put that meets a stale entry adds a row and frees none.    *)
(* Slack bounds lru_order as well, by the rows it lists: entries without a *)
(* row of their own come from repeated puts only.  Dated relates the cache *)
(* to the history of the puts.                                             *)
(***************************************************************************)
EXTENDS RowCache, FiniteSetTheorems, SequenceTheorems, TLAPS

(* Each entry of lru_order stands for a cached row or for a repeated put. *)
Slack == /\ IsFiniteSet(DOMAIN cache)
         /\ Len(lru_order) <= Cardinality(DOMAIN cache) + reputs
         /\ Len(lru_order) <= max_size + reputs

IInv == CacheTypeOK /\ EvictionReachesEveryRow /\ Slack

-----------------------------------------------------------------------------
(* What SequencesExt's RemoveAt and RemoveFirst return. *)
LEMMA RemoveAtFacts ==
  ASSUME NEW S, NEW s \in Seq(S), NEW i \in 1..Len(s)
  PROVE  /\ RemoveAt(s, i) \in Seq(S)
         /\ Len(RemoveAt(s, i)) = Len(s) - 1
         /\ \A j \in 1..(Len(s) - 1) : RemoveAt(s, i)[j] = IF j < i THEN s[j] ELSE s[j + 1]
         /\ \A j \in 1..Len(s) : j # i => s[j] \in ToSet(RemoveAt(s, i))
<1> DEFINE a == SubSeq(s, 1, i - 1)
           b == SubSeq(s, i + 1, Len(s))
<1>n. Len(s) \in Nat /\ i \in Int /\ i >= 1 /\ i <= Len(s)
  OBVIOUS
<1>1. a \in Seq(S) /\ Len(a) = i - 1 /\ \A j \in 1..(i - 1) : a[j] = s[j]
  <2>1. \A j \in 1..(i - 1) : s[j] \in S
    BY <1>n
  <2> QED BY <1>n, <2>1, SubSeqProperties
<1>2. b \in Seq(S) /\ Len(b) = Len(s) - i /\ \A j \in 1..(Len(s) - i) : b[j] = s[i + j]
  <2>1. \A j \in (i + 1)..Len(s) : s[j] \in S
    BY <1>n
  <2>2. /\ b \in Seq(S)
        /\ Len(b) = IF i + 1 <= Len(s) THEN Len(s) - (i + 1) + 1 ELSE 0
        /\ \A j \in 1..(Len(s) - (i + 1) + 1) : b[j] = s[(i + 1) + j - 1]
    <3>1. (i + 1) \in Int /\ Len(s) \in Int
      BY <1>n
    <3> QED BY <2>1, <3>1, SubSeqProperties
  <2>3. \A j \in Int : (i + 1) + j - 1 = i + j
    BY <1>n
  <2> QED BY <1>n, <2>2, <2>3
<1> HIDE DEF a, b
<1>3. /\ a \o b \in Seq(S)
      /\ Len(a \o b) = Len(s) - 1
      /\ \A j \in 1..(Len(s) - 1) : (a \o b)[j] = IF j < i THEN s[j] ELSE s[j + 1]
  <2>1. /\ a \o b \in Seq(S)
        /\ Len(a \o b) = Len(s) - 1
        /\ \A j \in 1..(Len(s) - 1) : (a \o b)[j] =
             IF j <= i - 1 THEN a[j] ELSE b[j - (i - 1)]
    <3>1. /\ a \o b \in Seq(S)
          /\ Len(a \o b) = Len(a) + Len(b)
          /\ \A j \in 1..(Len(a) + Len(b)) : (a \o b)[j] =
               IF j <= Len(a) THEN a[j] ELSE b[j - Len(a)]
      BY <1>1, <1>2, ConcatProperties
    <3>2. Len(a) + Len(b) = Len(s) - 1 /\ Len(a) = i - 1
      BY <1>n, <1>1, <1>2
    <3> QED BY <3>1, <3>2
  <2>2. ASSUME NEW j \in 1..(Len(s) - 1)
        PROVE  (a \o b)[j] = IF j < i THEN s[j] ELSE s[j + 1]
    <3>1. CASE j < i
      <4>1. j <= i - 1 /\ j \in 1..(i - 1)
        BY <1>n, <3>1
      <4> QED BY <1>1, <2>1, <3>1, <4>1
    <3>2. CASE ~(j < i)
      <4>1. /\ ~(j <= i - 1) /\ j - (i - 1) \in 1..(Len(s) - i)
            /\ i + (j - (i - 1)) = j + 1
        BY <1>n, <3>2
      <4> QED BY <1>2, <2>1, <3>2, <4>1
    <3> QED BY <3>1, <3>2
  <2> QED BY <2>1, <2>2
<1>4. RemoveAt(s, i) = a \o b
  BY DEF RemoveAt, a, b
<1>5. ASSUME NEW j \in 1..Len(s), j # i
      PROVE  s[j] \in ToSet(a \o b)
  <2>1. DOMAIN (a \o b) = 1..(Len(s) - 1)
    BY <1>3
  <2>2. \E h \in 1..(Len(s) - 1) : s[j] = (a \o b)[h]
    <3>1. CASE j < i
      <4>1. j \in 1..(Len(s) - 1)
        BY <1>n, <3>1
      <4> QED BY <1>3, <3>1, <4>1
    <3>2. CASE j > i
      <4>1. (j - 1) \in 1..(Len(s) - 1) /\ ~(j - 1 < i) /\ (j - 1) + 1 = j
        BY <1>n, <3>2
      <4> QED BY <1>3, <4>1
    <3>3. j < i \/ j > i
      BY <1>n, <1>5
    <3> QED BY <3>1, <3>2, <3>3, Zenon
  <2> QED BY <2>1, <2>2 DEF ToSet
<1> QED BY <1>3, <1>4, <1>5

(* The size of an initial interval. *)
LEMMA IntervalSize ==
  ASSUME NEW n \in Nat PROVE IsFiniteSet(1..n) /\ Cardinality(1..n) = n
<1>1. IsFiniteSet(1..n) /\ Cardinality(1..n) = IF 1 > n THEN 0 ELSE n - 1 + 1
  BY FS_Interval
<1> QED BY <1>1

(* A sequence lists no more values than it has entries. *)
LEMMA ToSetCardinality ==
  ASSUME NEW S, NEW s \in Seq(S)
  PROVE  IsFiniteSet(ToSet(s)) /\ Cardinality(ToSet(s)) <= Len(s)
<1>1. DOMAIN s = 1..Len(s) /\ Len(s) \in Nat
  OBVIOUS
<1>2. IsFiniteSet(1..Len(s)) /\ Cardinality(1..Len(s)) = Len(s)
  BY <1>1, IntervalSize, Zenon
<1>3. s \in Surjection(1..Len(s), ToSet(s))
  BY <1>1 DEF Surjection, ToSet
<1> QED BY <1>2, <1>3, FS_Surjection

LEMMA AppendFacts ==
  ASSUME NEW S, NEW s \in Seq(S), NEW e \in S
  PROVE  /\ Append(s, e) \in Seq(S)
         /\ Len(Append(s, e)) = Len(s) + 1
         /\ ToSet(Append(s, e)) = ToSet(s) \cup {e}
<1>1. /\ Append(s, e) \in Seq(S)
      /\ Len(Append(s, e)) = Len(s) + 1
      /\ DOMAIN Append(s, e) = 1..(Len(s) + 1)
      /\ \A i \in 1..Len(s) : Append(s, e)[i] = s[i]
      /\ Append(s, e)[Len(s) + 1] = e
  OBVIOUS
<1>2. DOMAIN s = 1..Len(s) /\ Len(s) \in Nat
  OBVIOUS
<1> QED BY <1>1, <1>2 DEF ToSet

LEMMA TailFacts ==
  ASSUME NEW S, NEW s \in Seq(S), s # <<>>
  PROVE  /\ Tail(s) \in Seq(S)
         /\ Head(s) \in S
         /\ Len(Tail(s)) = Len(s) - 1
         /\ ToSet(s) \ {Head(s)} \subseteq ToSet(Tail(s))
<1>1. /\ Tail(s) \in Seq(S)
      /\ Len(s) \in Nat /\ Len(s) > 0
      /\ Len(Tail(s)) = Len(s) - 1
      /\ DOMAIN Tail(s) = 1..(Len(s) - 1)
      /\ Head(s) = s[1] /\ Head(s) \in S
      /\ \A i \in 1..(Len(s) - 1) : Tail(s)[i] = s[i + 1]
  OBVIOUS
<1>2. ASSUME NEW j \in 1..Len(s), s[j] # Head(s)
      PROVE  s[j] \in ToSet(Tail(s))
  <2>1. (j - 1) \in 1..(Len(s) - 1) /\ Tail(s)[j - 1] = s[j]
    BY <1>1, <1>2
  <2> QED BY <1>1, <2>1 DEF ToSet
<1> QED BY <1>1, <1>2 DEF ToSet

(* A finite set of numbers has a greatest one: the one above which the     *)
(* fewest lie.                                                             *)
LEMMA GreatestExists ==
  ASSUME NEW T \in SUBSET Nat, IsFiniteSet(T), T # {}
  PROVE  \E m \in T : \A j \in T : j <= m
<1> DEFINE Above(i) == {j \in T : i < j}
           TT == {Above(i) : i \in T}
<1>1. TT \subseteq FiniteSubsetsOf(T) /\ TT # {}
  <2>1. \A i \in T : Above(i) \in SUBSET T
    OBVIOUS
  <2>2. \A U \in SUBSET T : IsFiniteSet(U)
    BY FS_Subset
  <2> QED BY <2>1, <2>2 DEF FiniteSubsetsOf
<1>2. PICK x \in TT : \A y \in TT : ~(<<y, x>> \in StrictSubsetOrdering(T))
  BY <1>1, WFMin, FS_StrictSubsetOrderingWellFounded
<1>3. PICK m \in T : x = Above(m)
  OBVIOUS
<1>4. ASSUME NEW j \in T, m < j
      PROVE  FALSE
  <2>1. Above(j) \subseteq Above(m) /\ j \in Above(m) /\ j \notin Above(j)
    <3>1. \A k \in T : j < k => m < k
      BY <1>4
    <3>2. ~(j < j)
      BY <1>4
    <3> QED BY <1>4, <3>1, <3>2
  <2>2. Above(j) # Above(m)
    BY <2>1, Zenon
  <2>3. <<Above(j), Above(m)>> \in StrictSubsetOrdering(T)
    BY <2>1, <2>2 DEF StrictSubsetOrdering
  <2> QED BY <1>2, <1>3, <2>3
<1> QED BY <1>4

(* A set of numbers has a least one. *)
LEMMA LeastExists ==
  ASSUME NEW T \in SUBSET Nat, T # {}
  PROVE  \E m \in T : \A j \in T : m <= j
<1>1. PICK n \in T : TRUE
  OBVIOUS
<1> DEFINE U == {j \in T : j <= n}
           V == {n - j : j \in U}
<1>2. V \in SUBSET Nat /\ V \subseteq 0..n /\ V # {}
  <2>1. n \in U /\ n \in Nat
    BY <1>1
  <2> QED BY <2>1
<1>3. IsFiniteSet(V)
  <2>1. n \in Nat
    OBVIOUS
  <2>2. IsFiniteSet(0..n)
    BY <2>1, FS_Interval
  <2>3. V \in SUBSET (0..n)
    BY <1>2
  <2> HIDE DEF V
  <2> QED BY <2>2, <2>3, FS_Subset
<1>4. PICK g \in V : \A j \in V : j <= g
  BY <1>2, <1>3, GreatestExists
<1>5. PICK m \in U : g = n - m
  OBVIOUS
<1>6. ASSUME NEW j \in T
      PROVE  m <= j
  <2>1. CASE j <= n
    <3>1. n - j \in V
      BY <2>1
    <3> QED BY <1>4, <1>5, <2>1, <3>1
  <2>2. CASE j > n
    BY <2>2
  <2> QED BY <2>1, <2>2
<1> QED BY <1>6

(* The row of an insert is a row. *)
LEMMA RowOfType ==
  ASSUME NEW cs \in Seq(Columns), NEW vs \in Seq(Values)
  PROVE  RowOf(cs, vs) \in Rows
<1> DEFINE used == {i \in DOMAIN cs : i <= Len(vs)}
           C == {cs[i] : i \in used}
           last(c) == CHOOSE i \in used : cs[i] = c /\ \A j \in used : cs[j] = c => j <= i
<1>1. used \subseteq 1..Len(vs) /\ used \subseteq 1..Len(cs)
  OBVIOUS
<1>2. C \in SUBSET Columns
  BY <1>1
<1>3. ASSUME NEW c \in C
      PROVE  vs[last(c)] \in Values
  <2> DEFINE of == {i \in used : cs[i] = c}
  <2>1. of # {} /\ of \subseteq 1..Len(vs)
    BY <1>1
  <2>2. IsFiniteSet(of)
    BY <2>1, FS_Interval, FS_Subset
  <2>3. \E i \in of : \A j \in of : j <= i
    <3>1. of \in SUBSET Nat
      BY <2>1
    <3> QED BY <2>1, <2>2, <3>1, GreatestExists
  <2>4. last(c) \in used
    BY <2>3
  <2> QED BY <1>1, <2>4
<1>4. RowOf(cs, vs) = [c \in C |-> vs[last(c)]]
  BY DEF RowOf
<1>5. [c \in C |-> vs[last(c)]] \in [C -> Values]
  BY <1>3
<1> QED BY <1>2, <1>4, <1>5, ZenonT(40) DEF Rows

-----------------------------------------------------------------------------
LEMMA InitIInv == CacheInit => IInv
<1> SUFFICES ASSUME CacheInit PROVE IInv
  OBVIOUS
<1>1. DOMAIN cache = {} /\ lru_order = <<>> /\ Len(lru_order) = 0
  BY DEF CacheInit
<1>2. Cardinality(DOMAIN cache) = 0 /\ IsFiniteSet(DOMAIN cache)
  BY <1>1, FS_EmptySet
<1>3. CacheTypeOK
  <2>1. since \in [DOMAIN cache -> SUBSET Keys]
    <3>1. since = [x \in {} |-> {}]
      BY DEF CacheInit
    <3> QED BY <1>1, <3>1
  <2> QED BY <1>1, <2>1 DEF CacheInit, CacheTypeOK
<1>4. EvictionReachesEveryRow
  BY <1>1 DEF EvictionReachesEveryRow
<1>5. Slack
  BY <1>1, <1>2, SizeAssumption DEF CacheInit, Slack
<1> QED BY <1>3, <1>4, <1>5 DEF IInv

(* A use of a key keeps the type of since. *)
LEMMA UsedType ==
  ASSUME CacheTypeOK, NEW k, Used(k), DOMAIN cache' \subseteq Keys
  PROVE  since' \in [DOMAIN cache' -> SUBSET Keys]
BY DEF Used

(* An eviction keeps the invariant and, when the cache is full, frees an   *)
(* entry of lru_order and no more than one row.                            *)
LEMMA EvictionFacts ==
  ASSUME IInv
  PROVE  LET c == AfterEviction[1]
             l == AfterEviction[2]
         IN  /\ DOMAIN c \subseteq Keys
             /\ \A k \in DOMAIN c : c[k] \in Rows
             /\ l \in Seq(Keys)
             /\ DOMAIN c \subseteq ToSet(l)
             /\ IsFiniteSet(DOMAIN c)
             /\ Len(l) <= Cardinality(DOMAIN c) + reputs
             /\ Len(l) + 1 <= max_size + reputs
             /\ ToSet(l) \subseteq ToSet(lru_order)
<1> DEFINE c == AfterEviction[1]
           l == AfterEviction[2]
           n == Cardinality(DOMAIN cache)
<1> USE DEF IInv, CacheTypeOK
<1>1. /\ IsFiniteSet(DOMAIN cache) /\ n \in Nat
      /\ Len(lru_order) <= n + reputs
      /\ Len(lru_order) <= max_size + reputs
      /\ max_size \in Nat /\ max_size > 0 /\ Len(lru_order) \in Nat
  BY FS_CardinalityType, SizeAssumption DEF Slack
<1> HIDE DEF c, l
<1>2. CASE Full
  <2> DEFINE h == Head(lru_order)
  <2>1. c = Erase(cache, h) /\ l = Tail(lru_order)
    BY <1>2 DEF AfterEviction, c, l
  <2>2. /\ l \in Seq(Keys) /\ h \in Keys
        /\ Len(l) = Len(lru_order) - 1
        /\ ToSet(lru_order) \ {h} \subseteq ToSet(l)
    BY <1>2, <2>1, TailFacts DEF Full
  <2>3. DOMAIN c = DOMAIN cache \ {h} /\ \A k \in DOMAIN c : c[k] = cache[k]
    BY <2>1 DEF Erase
  <2>4. /\ IsFiniteSet(DOMAIN c)
        /\ Cardinality(DOMAIN c) = IF h \in DOMAIN cache THEN n - 1 ELSE n
    <3>1. /\ IsFiniteSet(DOMAIN cache \ {h})
          /\ Cardinality(DOMAIN cache \ {h}) =
               IF h \in DOMAIN cache THEN Cardinality(DOMAIN cache) - 1
                                     ELSE Cardinality(DOMAIN cache)
      BY <1>1, FS_RemoveElement
    <3> QED BY <2>3, <3>1, Zenon
  <2>5. ToSet(l) \subseteq ToSet(lru_order)
    <3>1. /\ DOMAIN l = 1..(Len(lru_order) - 1)
          /\ DOMAIN lru_order = 1..Len(lru_order)
          /\ \A i \in 1..(Len(lru_order) - 1) : l[i] = lru_order[i + 1]
      BY <1>2, <2>1 DEF Full
    <3>2. \A i \in DOMAIN l : (i + 1) \in DOMAIN lru_order
      BY <1>1, <3>1
    <3> QED BY <3>1, <3>2 DEF ToSet
  <2>6. DOMAIN c \subseteq ToSet(l)
    BY <2>2, <2>3 DEF EvictionReachesEveryRow
  <2>7. DOMAIN c \subseteq Keys /\ \A k \in DOMAIN c : c[k] \in Rows
    BY <2>3
  <2>8. Len(l) <= Cardinality(DOMAIN c) + reputs /\ Len(l) + 1 <= max_size + reputs
    BY <1>1, <2>2, <2>4
  <2> QED BY <2>2, <2>4, <2>5, <2>6, <2>7, <2>8, Zenon DEF c, l
<1>3. CASE ~Full
  <2>1. c = cache /\ l = lru_order
    BY <1>3 DEF AfterEviction, c, l
  <2>2. Len(lru_order) + 1 <= max_size + reputs
    <3>1. CASE n < max_size
      BY <1>1, <3>1
    <3>2. CASE lru_order = <<>>
      BY <1>1, <3>2
    <3> QED BY <1>1, <1>3, <3>1, <3>2 DEF Full
  <2>3. DOMAIN cache \subseteq ToSet(lru_order)
    BY DEF EvictionReachesEveryRow
  <2>4. ToSet(lru_order) \subseteq ToSet(lru_order) /\ lru_order \in Seq(Keys)
    BY Zenon
  <2>5. DOMAIN cache \subseteq Keys /\ \A k \in DOMAIN cache : cache[k] \in Rows
    OBVIOUS
  <2> QED BY <1>1, <2>1, <2>2, <2>3, <2>4, <2>5, Zenon DEF c, l
<1> QED BY <1>2, <1>3

LEMMA InsertIInv ==
  ASSUME IInv, NEW t \in CacheTables, NEW in \in Inputs, execute_insert(t, in[1], in[2])
  PROVE  IInv'
<1> DEFINE k == Key(t, now)
           row == RowOf(in[1], in[2])
           c == AfterEviction[1]
           l == AfterEviction[2]
<1>1. k \in Keys /\ row \in Rows
  <2>1. in[1] \in Seq(Columns) /\ in[2] \in Seq(Values)
    BY InputsAssumption
  <2>2. now \in Nat
    BY DEF IInv, CacheTypeOK
  <2> QED BY <2>1, <2>2, RowOfType DEF Key, Keys
<1>2. /\ DOMAIN c \subseteq Keys
      /\ \A x \in DOMAIN c : c[x] \in Rows
      /\ l \in Seq(Keys)
      /\ DOMAIN c \subseteq ToSet(l)
      /\ IsFiniteSet(DOMAIN c)
      /\ Len(l) <= Cardinality(DOMAIN c) + reputs
      /\ Len(l) + 1 <= max_size + reputs
      /\ ToSet(l) \subseteq ToSet(lru_order)
  BY EvictionFacts
<1>3. /\ cache' = Put(c, k, row)
      /\ lru_order' = Append(l, k)
      /\ puts' = Append(puts, <<k, row>>)
      /\ reputs' = IF Contains(lru_order, k) THEN reputs + 1 ELSE reputs
      /\ now' = now
  BY DEF execute_insert, put
<1> HIDE DEF k, row, c, l
<1>4. /\ DOMAIN cache' = DOMAIN c \cup {k}
      /\ \A x \in DOMAIN cache' : cache'[x] = IF x = k THEN row ELSE c[x]
  BY <1>3 DEF Put
<1>5. /\ lru_order' \in Seq(Keys)
      /\ Len(lru_order') = Len(l) + 1
      /\ ToSet(lru_order') = ToSet(l) \cup {k}
  BY <1>1, <1>2, <1>3, AppendFacts
<1>6. CacheTypeOK'
  <2>1. DOMAIN cache' \subseteq Keys /\ \A x \in DOMAIN cache' : cache'[x] \in Rows
    BY <1>1, <1>2, <1>4
  <2>2. puts' \in Seq(Keys \X Rows)
    BY <1>1, <1>3 DEF IInv, CacheTypeOK
  <2>3. reputs' \in Nat /\ now' \in Nat
    BY <1>3 DEF IInv, CacheTypeOK
  <2>4. since' \in [DOMAIN cache' -> SUBSET Keys]
    <3>1. CacheTypeOK /\ Used(k)
      BY DEF IInv, execute_insert, k
    <3> QED BY <2>1, <3>1, UsedType
  <2> QED BY <1>5, <2>1, <2>2, <2>3, <2>4 DEF CacheTypeOK
<1>7. EvictionReachesEveryRow'
  BY <1>2, <1>4, <1>5 DEF EvictionReachesEveryRow
<1>8. Slack'
  <2>1. /\ IsFiniteSet(DOMAIN cache')
        /\ Cardinality(DOMAIN cache') =
             IF k \in DOMAIN c THEN Cardinality(DOMAIN c) ELSE Cardinality(DOMAIN c) + 1
    BY <1>2, <1>4, FS_AddElement
  <2>2. /\ Cardinality(DOMAIN c) \in Nat /\ Len(l) \in Nat
        /\ reputs \in Nat /\ max_size \in Nat
    BY <1>2, FS_CardinalityType, SizeAssumption DEF IInv, CacheTypeOK
  <2>3. k \in DOMAIN c => Contains(lru_order, k)
    <3>1. lru_order \in Seq(Keys)
      BY DEF IInv, CacheTypeOK
    <3>2. ToSet(lru_order) = {lru_order[i] : i \in 1..Len(lru_order)}
      BY <3>1 DEF ToSet
    <3> QED BY <1>2, <3>2 DEF Contains
  <2>4. CASE k \in DOMAIN c
    <3>1. reputs' = reputs + 1
      BY <1>3, <2>3, <2>4
    <3> QED BY <1>2, <1>5, <2>1, <2>2, <2>4, <3>1 DEF Slack
  <2>5. CASE k \notin DOMAIN c
    <3>1. reputs' \in Nat /\ reputs' >= reputs
      BY <1>3, <2>2
    <3> QED BY <1>2, <1>5, <2>1, <2>2, <2>5, <3>1 DEF Slack
  <2> QED BY <2>4, <2>5
<1> QED BY <1>6, <1>7, <1>8 DEF IInv

LEMMA EraseIInv ==
  ASSUME IInv, NEW k, erase(k)
  PROVE  IInv'
<1>1. /\ cache' = Erase(cache, k)
      /\ now' = now /\ puts' = puts /\ reputs' = reputs
  BY DEF erase
<1>2. /\ DOMAIN cache' = DOMAIN cache \ {k}
      /\ \A x \in DOMAIN cache' : cache'[x] = cache[x]
  BY <1>1 DEF Erase
<1>3. /\ lru_order \in Seq(Keys) /\ Len(lru_order) \in Nat
      /\ DOMAIN lru_order = 1..Len(lru_order)
      /\ IsFiniteSet(DOMAIN cache) /\ Cardinality(DOMAIN cache) \in Nat
      /\ reputs \in Nat /\ max_size \in Nat
  BY FS_CardinalityType, SizeAssumption DEF IInv, CacheTypeOK, Slack
<1>4. /\ lru_order' \in Seq(Keys)
      /\ ToSet(lru_order) \ {k} \subseteq ToSet(lru_order')
      /\ Len(lru_order') \in Nat
      /\ Len(lru_order') <= Len(lru_order)
      /\ k \in DOMAIN cache => Len(lru_order') = Len(lru_order) - 1
  <2>1. CASE Find(k) = {} /\ lru_order' = lru_order
    <3>1. k \notin DOMAIN cache
      <4>1. SUFFICES ASSUME k \in DOMAIN cache PROVE FALSE
        OBVIOUS
      <4>2. PICK i \in 1..Len(lru_order) : lru_order[i] = k
        BY <1>3, <4>1 DEF IInv, EvictionReachesEveryRow, ToSet
      <4> DEFINE at == {j \in 1..Len(lru_order) : lru_order[j] = k}
      <4>3. \E m \in at : \A j \in at : m <= j
        <5>1. at \in SUBSET Nat /\ at # {}
          BY <4>2
        <5> QED BY <5>1, LeastExists
      <4>4. PICK m \in at : \A j \in at : m <= j
        BY <4>3
      <4>5. m \in Find(k)
        <5>1. m \in DOMAIN lru_order /\ lru_order[m] = k
          BY <1>3
        <5>2. ASSUME NEW j \in 1..(m - 1), lru_order[j] = k
              PROVE  FALSE
          <6>1. j \in 1..Len(lru_order) /\ j < m
            BY <1>3
          <6> QED BY <4>4, <5>2, <6>1
        <5> QED BY <5>1, <5>2 DEF Find
      <4> QED BY <2>1, <4>5
    <3>2. lru_order' = lru_order
      BY <2>1
    <3>3. lru_order' \in Seq(Keys) /\ Len(lru_order') \in Nat /\ Len(lru_order') <= Len(lru_order)
      BY <1>3, <3>2
    <3>4. ToSet(lru_order') = ToSet(lru_order)
      BY <3>2 DEF ToSet
    <3> QED BY <3>1, <3>3, <3>4, Zenon
  <2>2. CASE \E i \in Find(k) : lru_order' = RemoveAt(lru_order, i)
    <3>1. PICK i \in Find(k) : lru_order' = RemoveAt(lru_order, i)
      BY <2>2
    <3>2. i \in 1..Len(lru_order) /\ lru_order[i] = k
      BY <1>3 DEF Find
    <3>3. /\ lru_order' \in Seq(Keys)
          /\ Len(lru_order') = Len(lru_order) - 1
          /\ \A j \in 1..Len(lru_order) : j # i => lru_order[j] \in ToSet(lru_order')
      BY <1>3, <3>1, <3>2, RemoveAtFacts
    <3>4. ToSet(lru_order) \ {k} \subseteq ToSet(lru_order')
      <4>1. \A x \in ToSet(lru_order) : \E j \in 1..Len(lru_order) : x = lru_order[j]
        BY <1>3 DEF ToSet
      <4> QED BY <3>2, <3>3, <4>1
    <3>5. Len(lru_order) >= 1
      BY <1>3, <3>2
    <3> QED BY <1>3, <3>3, <3>4, <3>5
  <2> QED BY <2>1, <2>2 DEF erase
<1>5. CacheTypeOK'
  <2>1. since' = [x \in DOMAIN cache' |-> since[x] \cap DOMAIN cache']
    BY DEF erase
  <2>2. DOMAIN cache' \subseteq Keys
    BY <1>2 DEF IInv, CacheTypeOK
  <2>3. since' \in [DOMAIN cache' -> SUBSET Keys]
    BY <2>1, <2>2
  <2> QED BY <1>1, <1>2, <1>4, <2>3 DEF IInv, CacheTypeOK
<1>6. EvictionReachesEveryRow'
  BY <1>2, <1>4 DEF IInv, EvictionReachesEveryRow
<1>7. Slack'
  <2>1. /\ IsFiniteSet(DOMAIN cache')
        /\ Cardinality(DOMAIN cache') =
             IF k \in DOMAIN cache THEN Cardinality(DOMAIN cache) - 1
                                   ELSE Cardinality(DOMAIN cache)
    BY <1>2, <1>3, FS_RemoveElement
  <2>2. /\ Len(lru_order) <= Cardinality(DOMAIN cache) + reputs
        /\ Len(lru_order) <= max_size + reputs
    BY DEF IInv, Slack
  <2>3. /\ Len(lru_order) \in Nat /\ Len(lru_order') \in Nat
        /\ Len(lru_order') <= Len(lru_order)
        /\ Cardinality(DOMAIN cache) \in Nat /\ reputs \in Nat /\ max_size \in Nat
    BY <1>3, <1>4, Zenon
  <2>4. Len(lru_order') <= Cardinality(DOMAIN cache') + reputs
    <3>1. CASE k \in DOMAIN cache
      <4>1. Len(lru_order') = Len(lru_order) - 1
        BY <1>4, <3>1, Zenon
      <4> QED BY <2>1, <2>2, <2>3, <3>1, <4>1
    <3>2. CASE k \notin DOMAIN cache
      BY <2>1, <2>2, <2>3, <3>2
    <3> QED BY <3>1, <3>2
  <2>5. Len(lru_order') <= max_size + reputs
    BY <2>2, <2>3
  <2> QED BY <1>1, <2>1, <2>4, <2>5 DEF Slack
<1> QED BY <1>5, <1>6, <1>7 DEF IInv

LEMMA ClearIInv ==
  ASSUME IInv, clear
  PROVE  IInv'
<1>1. /\ DOMAIN cache' = {} /\ lru_order' = <<>> /\ Len(lru_order') = 0
      /\ now' = now /\ puts' = puts /\ reputs' = reputs
  BY DEF clear
<1>2. Cardinality(DOMAIN cache') = 0 /\ IsFiniteSet(DOMAIN cache')
  BY <1>1, FS_EmptySet
<1>3. CacheTypeOK'
  <2>1. since' \in [DOMAIN cache' -> SUBSET Keys]
    <3>1. since' = [x \in {} |-> {}]
      BY DEF clear
    <3> QED BY <1>1, <3>1
  <2> QED BY <1>1, <2>1 DEF IInv, CacheTypeOK
<1>4. EvictionReachesEveryRow'
  BY <1>1 DEF EvictionReachesEveryRow
<1>5. Slack'
  BY <1>1, <1>2, SizeAssumption DEF IInv, CacheTypeOK, Slack
<1> QED BY <1>3, <1>4, <1>5 DEF IInv

LEMMA HitIInv ==
  ASSUME IInv, NEW k, Hit(k)
  PROVE  IInv'
<1>1. /\ cache' = cache /\ lru_order' = lru_order /\ now' = now
      /\ puts' = puts /\ reputs' = reputs
  BY DEF Hit
<1>2. since' \in [DOMAIN cache' -> SUBSET Keys]
  <2>1. CacheTypeOK /\ Used(k) /\ DOMAIN cache' \subseteq Keys
    BY <1>1 DEF Hit, IInv, CacheTypeOK
  <2> QED BY <2>1, UsedType
<1> QED BY <1>1, <1>2 DEF IInv, CacheTypeOK, EvictionReachesEveryRow, Slack

LEMMA NextIInv == IInv /\ [CacheNext]_cacheVars => IInv'
<1> SUFFICES ASSUME IInv, [CacheNext]_cacheVars PROVE IInv'
  OBVIOUS
<1>1. ASSUME NEW t \in CacheTables, NEW in \in Inputs, execute_insert(t, in[1], in[2])
      PROVE  IInv'
  BY <1>1, InsertIInv
<1>2. ASSUME NEW t \in CacheTables, NEW s \in 0..now, erase(Key(t, s))
      PROVE  IInv'
  BY <1>2, EraseIInv
<1>3. CASE clear
  BY <1>3, ClearIInv
<1>6. ASSUME NEW t \in CacheTables, NEW s \in 0..now, Hit(Key(t, s))
      PROVE  IInv'
  BY <1>6, HitIInv
<1>4. CASE Tick
  BY <1>4 DEF Tick, IInv, CacheTypeOK, EvictionReachesEveryRow, Slack
<1>5. CASE UNCHANGED cacheVars
  BY <1>5 DEF cacheVars, IInv, CacheTypeOK, EvictionReachesEveryRow, Slack
<1> QED BY <1>1, <1>2, <1>3, <1>4, <1>5, <1>6 DEF CacheNext

LEMMA IInvImplies == IInv => OverflowBounded
<1> SUFFICES ASSUME IInv PROVE OverflowBounded
  OBVIOUS
<1>1. IsFiniteSet(ToSet(lru_order)) /\ Cardinality(ToSet(lru_order)) <= Len(lru_order)
  BY ToSetCardinality DEF IInv, CacheTypeOK
<1>2. Cardinality(DOMAIN cache) <= Cardinality(ToSet(lru_order))
  BY <1>1, FS_Subset DEF IInv, EvictionReachesEveryRow
<1>3. Cardinality(DOMAIN cache) \in Nat /\ Cardinality(ToSet(lru_order)) \in Nat
  BY <1>1, FS_CardinalityType DEF IInv, Slack
<1>4. Len(lru_order) \in Nat /\ reputs \in Nat /\ max_size \in Nat
  BY SizeAssumption DEF IInv, CacheTypeOK
<1> QED BY <1>1, <1>2, <1>3, <1>4 DEF IInv, Slack, OverflowBounded

LEMMA Inductive == CacheSpec => []IInv
BY InitIInv, NextIInv, PTL DEF CacheSpec

(* Keys, rows and lru_order keep their types through every insert, erase   *)
(* and clear.                                                              *)
THEOREM TypeCorrect == CacheSpec => []CacheTypeOK
<1>1. IInv => CacheTypeOK
  BY DEF IInv
<1> QED BY <1>1, Inductive, PTL

(* No cached row is out of the reach of put's eviction.                    *)
THEOREM NoRowStuck == CacheSpec => []EvictionReachesEveryRow
<1>1. IInv => EvictionReachesEveryRow
  BY DEF IInv
<1> QED BY <1>1, Inductive, PTL

(* The cache and lru_order exceed max_size by at most the number of puts   *)
(* of a key that was already listed.                                       *)
THEOREM BoundedOverflow == CacheSpec => []OverflowBounded
BY Inductive, IInvImplies, PTL

-----------------------------------------------------------------------------
(* m is the position of the last put of k. *)
Latest(ps, k, m) == /\ m \in 1..Len(ps) /\ ps[m][1] = k
                    /\ \A j \in 1..Len(ps) : ps[j][1] = k => j <= m

(* Cached rows are the last ones put under their keys. *)
Dated == \A k \in DOMAIN cache :
           \E m \in 1..Len(puts) : Latest(puts, k, m) /\ puts[m][2] = cache[k]

LEMMA PutAtLatest ==
  ASSUME puts \in Seq(Keys \X Rows), NEW k, NEW m, Latest(puts, k, m)
  PROVE  PutAt(k) = m
<1> DEFINE I == {i \in 1..Len(puts) : puts[i][1] = k}
<1>1. m \in I /\ \A j \in I : j <= m
  BY DEF Latest
<1>2. PutAt(k) = Max(I)
  BY <1>1 DEF PutAt, SelectLastInSeq
<1>3. \A j \in I : j \in Nat
  OBVIOUS
<1> HIDE DEF I
<1>4. Max(I) = m
  <2>1. \E x \in I : \A y \in I : x >= y
    BY <1>1, <1>3
  <2>2. Max(I) \in I /\ \A y \in I : Max(I) >= y
    BY <2>1 DEF Max
  <2> QED BY <1>1, <1>3, <2>2
<1> QED BY <1>2, <1>4

LEMMA LatestOfAppend ==
  ASSUME NEW ps \in Seq(Keys \X Rows), NEW p \in Keys \X Rows
  PROVE  /\ Latest(Append(ps, p), p[1], Len(ps) + 1)
         /\ \A m : Latest(Append(ps, p), p[1], m) => m = Len(ps) + 1
         /\ \A x, m : x # p[1] => (Latest(Append(ps, p), x, m) <=> Latest(ps, x, m))
         /\ Append(ps, p)[Len(ps) + 1] = p
         /\ \A i \in 1..Len(ps) : Append(ps, p)[i] = ps[i]
         /\ Len(Append(ps, p)) = Len(ps) + 1
<1> DEFINE q == Append(ps, p)
<1>1. /\ Len(q) = Len(ps) + 1 /\ Len(ps) \in Nat
      /\ q[Len(ps) + 1] = p
      /\ \A i \in 1..Len(ps) : q[i] = ps[i]
  OBVIOUS
<1> HIDE DEF q
<1>2. Latest(q, p[1], Len(ps) + 1)
  BY <1>1 DEF Latest
<1>3. ASSUME NEW m, Latest(q, p[1], m) PROVE m = Len(ps) + 1
  BY <1>1, <1>3 DEF Latest
<1>4. ASSUME NEW x, NEW m, x # p[1] PROVE Latest(q, x, m) <=> Latest(ps, x, m)
  <2>1. ASSUME Latest(q, x, m) PROVE Latest(ps, x, m)
    <3>1. m \in 1..Len(ps)
      BY <1>1, <1>4, <2>1 DEF Latest
    <3> QED BY <1>1, <2>1, <3>1 DEF Latest
  <2>2. ASSUME Latest(ps, x, m) PROVE Latest(q, x, m)
    <3>1. m \in 1..Len(q) /\ q[m][1] = x
      BY <1>1, <2>2 DEF Latest
    <3>2. ASSUME NEW j \in 1..Len(q), q[j][1] = x PROVE j <= m
      <4>1. j \in 1..Len(ps) /\ ps[j][1] = x
        BY <1>1, <1>4, <3>2
      <4> QED BY <2>2, <4>1 DEF Latest
    <3> QED BY <3>1, <3>2 DEF Latest
  <2> QED BY <2>1, <2>2
<1> QED BY <1>1, <1>2, <1>3, <1>4 DEF q

LEMMA InsertDated ==
  ASSUME IInv, Dated, NEW t \in CacheTables, NEW in \in Inputs, execute_insert(t, in[1], in[2])
  PROVE  Dated'
<1> DEFINE k == Key(t, now)
           row == RowOf(in[1], in[2])
           c == AfterEviction[1]
           N == Len(puts)
<1>1. k \in Keys /\ row \in Rows /\ puts \in Seq(Keys \X Rows)
  <2>1. in[1] \in Seq(Columns) /\ in[2] \in Seq(Values)
    BY InputsAssumption
  <2>2. now \in Nat
    BY DEF IInv, CacheTypeOK
  <2> QED BY <2>1, <2>2, RowOfType DEF Key, Keys, IInv, CacheTypeOK
<1>2. /\ cache' = Put(c, k, row)
      /\ puts' = Append(puts, <<k, row>>)
  BY DEF execute_insert, put
<1>4. /\ DOMAIN c \subseteq DOMAIN cache /\ \A x \in DOMAIN c : c[x] = cache[x]
  BY DEF AfterEviction, Erase
<1> HIDE DEF k, row, c
<1>6. /\ Latest(puts', k, N + 1)
      /\ \A m : Latest(puts', k, m) => m = N + 1
      /\ \A x, m : x # k => (Latest(puts', x, m) <=> Latest(puts, x, m))
      /\ puts'[N + 1] = <<k, row>>
      /\ \A i \in 1..N : puts'[i] = puts[i]
      /\ Len(puts') = N + 1 /\ N \in Nat
  <2> DEFINE p == <<k, row>>
  <2>1. p \in Keys \X Rows /\ p[1] = k /\ N \in Nat /\ puts' = Append(puts, p)
    BY <1>1, <1>2
  <2> HIDE DEF p
  <2>2. /\ Latest(Append(puts, p), p[1], Len(puts) + 1)
        /\ \A m : Latest(Append(puts, p), p[1], m) => m = Len(puts) + 1
        /\ \A x, m : x # p[1] => (Latest(Append(puts, p), x, m) <=> Latest(puts, x, m))
        /\ Append(puts, p)[Len(puts) + 1] = p
        /\ \A i \in 1..Len(puts) : Append(puts, p)[i] = puts[i]
        /\ Len(Append(puts, p)) = Len(puts) + 1
    BY ONLY <1>1, <2>1, LatestOfAppend, Zenon
  <2> QED BY <2>1, <2>2 DEF p
<1> HIDE DEF N
<1>7. ASSUME NEW x \in DOMAIN cache'
      PROVE  \E m \in 1..Len(puts') : Latest(puts', x, m) /\ puts'[m][2] = cache'[x]
  <2>1. CASE x = k
    <3>1. cache'[x] = row /\ puts'[N + 1][2] = row /\ (N + 1) \in 1..Len(puts')
      BY <1>2, <1>6, <2>1 DEF Put
    <3> QED BY <1>6, <2>1, <3>1
  <2>2. CASE x # k
    <3>1. x \in DOMAIN cache /\ cache'[x] = cache[x]
      BY <1>2, <1>4, <2>2 DEF Put
    <3>2. PICK m \in 1..N : Latest(puts, x, m) /\ puts[m][2] = cache[x]
      BY <3>1 DEF Dated, N
    <3>3. m \in 1..Len(puts') /\ puts'[m] = puts[m]
      BY <1>6, <3>2
    <3> QED BY <1>6, <2>2, <3>1, <3>2, <3>3
  <2> QED BY <2>1, <2>2
<1> QED BY <1>7 DEF Dated

LEMMA EraseDated ==
  ASSUME Dated, NEW k, erase(k)
  PROVE  Dated'
<1>1. cache' = Erase(cache, k) /\ puts' = puts
  BY DEF erase
<1>2. DOMAIN cache' \subseteq DOMAIN cache /\ \A x \in DOMAIN cache' : cache'[x] = cache[x]
  BY <1>1 DEF Erase
<1> QED BY <1>1, <1>2 DEF Dated

LEMMA NextDated == IInv /\ Dated /\ [CacheNext]_cacheVars => Dated'
<1> SUFFICES ASSUME IInv, Dated, [CacheNext]_cacheVars PROVE Dated'
  OBVIOUS
<1>1. ASSUME NEW t \in CacheTables, NEW in \in Inputs, execute_insert(t, in[1], in[2])
      PROVE  Dated'
  BY <1>1, InsertDated
<1>2. ASSUME NEW t \in CacheTables, NEW s \in 0..now, erase(Key(t, s))
      PROVE  Dated'
  BY <1>2, EraseDated
<1>3. CASE clear
  <2>1. DOMAIN cache' = {}
    BY <1>3 DEF clear
  <2> QED BY <2>1 DEF Dated
<1>6. ASSUME NEW k, Hit(k) PROVE Dated'
  BY <1>6 DEF Hit, Dated
<1>4. CASE Tick
  BY <1>4 DEF Tick, Dated
<1>5. CASE UNCHANGED cacheVars
  BY <1>5 DEF cacheVars, Dated
<1> QED BY <1>1, <1>2, <1>3, <1>4, <1>5, <1>6 DEF CacheNext

LEMMA DatedAlways == CacheSpec => []Dated
<1>1. CacheInit => Dated
  <2> SUFFICES ASSUME CacheInit PROVE Dated
    OBVIOUS
  <2>1. DOMAIN cache = {}
    BY DEF CacheInit
  <2> QED BY <2>1 DEF Dated
<1> QED BY <1>1, NextDated, Inductive, PTL DEF CacheSpec

(* A get never returns a row that was overwritten: what is cached under a  *)
(* key is the row of the last insert with that key.                        *)
THEOREM NoStaleRow == CacheSpec => []GetReturnsLastPut
<1>1. IInv /\ Dated => GetReturnsLastPut
  <2> SUFFICES ASSUME IInv, Dated, NEW k \in DOMAIN cache PROVE get(k) = {puts[PutAt(k)][2]}
    BY DEF GetReturnsLastPut
  <2>1. PICK m \in 1..Len(puts) : Latest(puts, k, m) /\ puts[m][2] = cache[k]
    BY DEF Dated
  <2>2. PutAt(k) = m
    BY <2>1, PutAtLatest DEF IInv, CacheTypeOK
  <2> QED BY <2>1, <2>2 DEF get
<1> QED BY <1>1, Inductive, DatedAlways, PTL
=============================================================================
