---------------------------- MODULE BadRamProofs ----------------------------
(***************************************************************************)
(* Proof that badram.c never loses a faulty address, that it reports no    *)
(* other while these fit into its table, and that regions stay sorted, for *)
(* any width of the addresses, any number of entries and in every mode     *)
(* that keeps patterns.                                                    *)
(***************************************************************************)
EXTENDS BadRam, FiniteSetTheorems, SequenceTheorems, WellFoundedInduction, TLAPS

-----------------------------------------------------------------------------
(***************************************************************************)
(* Least elements: what the two CHOOSEs stand for exists                   *)
(***************************************************************************)
\* A well-founded relation that contains < gives least elements.
LEMMA LeastInOrder ==
  ASSUME NEW R, IsWellFoundedOn(R, Nat), NEW T, T \subseteq Nat, T # {}
  PROVE  (\A x, y \in Nat : x < y => <<x, y>> \in R) => \E x \in T : \A y \in T : x <= y
<1>1. PICK x \in T : \A y \in T : ~ (<<y, x>> \in R)
  BY WFMin, Zenon
<1>2. ASSUME \A v, w \in Nat : v < w => <<v, w>> \in R PROVE \A y \in T : x <= y
  <2>1. \A y \in T : ~ (y < x)
    BY <1>1, <1>2
  <2>2. x \in Nat /\ \A y \in T : y \in Nat
    OBVIOUS
  <2> QED BY <2>1, <2>2
<1> QED BY <1>2

\* A nonempty set of natural numbers has a least element.
LEMMA LeastNatural ==
  ASSUME NEW T, T \subseteq Nat, T # {}
  PROVE  \E x \in T : \A y \in T : x <= y
<1>1. \A x, y \in Nat : x < y => <<x, y>> \in OpToRel(<, Nat)
  BY Zenon DEF OpToRel
<1> QED BY <1>1, LeastInOrder, NatLessThanWellFounded, Zenon

\* The first of a nonempty set of indices is one of them.
LEMMA FirstIn ==
  ASSUME NEW n \in Nat, NEW S \in SUBSET (1 .. n), S # {}
  PROVE  First(S) \in S
<1>1. S \subseteq Nat
  OBVIOUS
<1>2. PICK x \in S : \A y \in S : x <= y
  BY <1>1, LeastNatural
<1> QED BY <1>2 DEF First

-----------------------------------------------------------------------------
(***************************************************************************)
(* Combining entries                                                       *)
(***************************************************************************)
\* combine yields an entry that covers whatever one of the two covered.
LEMMA CombineCovers ==
  ASSUME NEW p \in Pattern, NEW q \in Pattern
  PROVE  /\ Combine(p, q) \in Pattern
         /\ \A a \in Addr : Covers(p, a) \/ Covers(q, a) => Covers(Combine(p, q), a)
<1>1. p.addr \in Addr /\ p.mask \in Addr /\ q.addr \in Addr /\ q.mask \in Addr
  BY DEF Pattern
<1>2. CASE error_mode = "BADRAM"
  <2> DEFINE mask == p.mask \cap q.mask \cap Equal(p.addr, q.addr)
             addr == (p.addr \cup q.addr) \cap mask
  <2>1. Combine(p, q) = [addr |-> addr, mask |-> mask]
    BY <1>2 DEF Combine
  <2>2. addr \in Addr /\ mask \in Addr
    BY <1>1 DEF Addr
  <2>3. \A x \in mask : (x \in p.addr <=> x \in q.addr) /\ x \in p.mask /\ x \in q.mask
    BY DEF Equal
  <2>4. ASSUME NEW a \in Addr, Covers(p, a) \/ Covers(q, a)
        PROVE  a \cap mask = addr \cap mask
    <3>1. a \cap p.mask = p.addr \cap p.mask \/ a \cap q.mask = q.addr \cap q.mask
      BY <1>2, <2>4 DEF Covers
    <3>2. \A x \in mask : x \in a <=> x \in addr
      BY <2>3, <3>1
    <3> HIDE DEF mask, addr
    <3> QED BY <3>2
  <2> HIDE DEF mask, addr
  <2> QED BY <1>2, <2>1, <2>2, <2>4 DEF Covers, Pattern
<1>3. CASE error_mode # "BADRAM"
  <2>1. Combine(p, q) = [addr |-> IF Val(p.addr) < Val(q.addr) THEN p.addr ELSE q.addr,
                         mask |-> IF Val(p.mask) > Val(q.mask) THEN p.mask ELSE q.mask]
    BY <1>3 DEF Combine
  <2>2. \A a \in Addr : Val(a) \in Int
    BY ValAssumption
  <2> QED BY <1>1, <1>3, <2>1, <2>2 DEF Covers, Pattern
<1> QED BY <1>2, <1>3

\* A mask has at most W bits, and a smaller one has fewer.
LEMMA MaskSize ==
  ASSUME NEW m \in Addr
  PROVE  /\ IsFiniteSet(m) /\ Cardinality(m) \in 0 .. W
         /\ Cardinality(m) = 0 <=> m = {}
         /\ \A l \in SUBSET m : l # m => Cardinality(l) < Cardinality(m)
<1>1. IsFiniteSet(Bit) /\ Cardinality(Bit) = W
  BY WidthAssumption, FS_Interval DEF Bit
<1>2. IsFiniteSet(m) /\ Cardinality(m) <= W /\ Cardinality(m) \in Nat
  BY <1>1, FS_Subset, FS_CardinalityType DEF Addr
<1>3. \A l \in SUBSET m : l # m => Cardinality(l) < Cardinality(m)
  BY <1>2, FS_Subset, FS_CardinalityType
<1> QED BY <1>2, <1>3, FS_EmptySet, WidthAssumption

\* combi_cost is zero only where nothing has to be added: the entry covers the
\* address already, although the count of addresses wraps round.
LEMMA FreeIsCovered ==
  ASSUME NEW p \in Pattern, NEW a \in Addr, CombiCost(p, NewPattern(a)) = 0
  PROVE  Covers(p, a)
<1> DEFINE q == NewPattern(a)
           r == Combine(p, q)
<1>1. p.addr \in Addr /\ p.mask \in Addr
  BY DEF Pattern
<1>2. CASE error_mode = "BADRAM"
  <2>1. q = [addr |-> a, mask |-> Bit]
    BY <1>2 DEF NewPattern
  <2>2. r.mask = p.mask \cap Bit \cap Equal(p.addr, a)
    BY <1>2, <2>1 DEF Combine
  <2>3. r.mask \in SUBSET p.mask /\ r.mask \in Addr
    BY <1>1, <2>2 DEF Addr
  <2>4. r.mask = p.mask
    <3> SUFFICES ASSUME r.mask # p.mask PROVE FALSE
      OBVIOUS
    <3> DEFINE more == Addresses(r.mask) - Addresses(p.mask)
               cp == Cardinality(p.mask)
               cr == Cardinality(r.mask)
    <3>1. 0 = IF more < 0 THEN more + 2^W ELSE more
      BY <1>2 DEF CombiCost
    <3>2. cr \in 0 .. W /\ cp \in 1 .. W /\ cr < cp /\ (r.mask = {} <=> cr = 0)
      BY <1>1, <2>3, MaskSize
    <3>3. p.mask # {}
      BY <2>3
    <3> HIDE DEF r, cp, cr
    <3>4. /\ Addresses(p.mask) = 2^(W - cp)
          /\ Addresses(r.mask) = IF cr = 0 THEN 0 ELSE 2^(W - cr)
      BY <3>2, <3>3 DEF Addresses, cp, cr
    <3>5. W - cp \in 0 .. W /\ W - cr \in 0 .. W /\ W - cp < W - cr /\ W \in 0 .. W
          /\ W - cp < W
      BY <3>2, WidthAssumption
    <3>6. /\ 2^(W - cp) \in Nat \ {0} /\ 2^(W - cr) \in Nat /\ 2^W \in Nat
          /\ 2^(W - cp) < 2^(W - cr) /\ 2^(W - cp) < 2^W
      BY <3>5, PowerAssumption
    <3> QED BY <3>1, <3>4, <3>6
  <2>5. \A x \in p.mask : x \in p.addr <=> x \in a
    BY <2>2, <2>4 DEF Equal
  <2> QED BY <1>2, <2>5 DEF Covers
<1>3. CASE error_mode # "BADRAM"
  <2>1. q = [addr |-> a, mask |-> a]
    BY <1>3 DEF NewPattern
  <2>2. r = [addr |-> IF Val(p.addr) < Val(a) THEN p.addr ELSE a,
             mask |-> IF Val(p.mask) > Val(a) THEN p.mask ELSE a]
    BY <1>3, <2>1 DEF Combine
  <2>3. Val(a) \in Int /\ Val(p.addr) \in Int /\ Val(p.mask) \in Int
    BY <1>1, ValAssumption
  <2>4. /\ Val(r.addr) = IF Val(p.addr) < Val(a) THEN Val(p.addr) ELSE Val(a)
        /\ Val(r.mask) = IF Val(p.mask) > Val(a) THEN Val(p.mask) ELSE Val(a)
    BY <2>2
  <2> DEFINE more == (Val(r.mask) - Val(r.addr)) - (Val(p.mask) - Val(p.addr))
  <2>5. 0 = IF more < 0 THEN more + 2^W ELSE more
    BY <1>3 DEF CombiCost
  <2> HIDE DEF r
  <2>6. more >= 0
    BY <2>3, <2>4
  <2> QED BY <1>3, <2>3, <2>4, <2>5, <2>6 DEF Covers
<1> QED BY <1>2, <1>3

\* combi_cost is a natural number.
LEMMA CostNatural ==
  ASSUME NEW p \in Pattern, NEW q \in Pattern
  PROVE  CombiCost(p, q) \in Nat
<1> DEFINE r == Combine(p, q)
<1>1. r \in Pattern
  BY CombineCovers
<1>2. \A m \in Addr : Addresses(m) \in 0 .. 2^W - 1
  <2> SUFFICES ASSUME NEW m \in Addr, m # {} PROVE 2^(W - Cardinality(m)) \in 0 .. 2^W - 1
    BY PowerAssumption, WidthAssumption DEF Addresses
  <2>1. Cardinality(m) \in 1 .. W
    BY MaskSize
  <2>2. W - Cardinality(m) \in 0 .. W /\ W - Cardinality(m) < W /\ W \in 0 .. W
    BY <2>1, WidthAssumption
  <2> QED BY <2>2, PowerAssumption
<1>3. r.mask \in Addr /\ r.addr \in Addr /\ p.mask \in Addr /\ p.addr \in Addr
  BY <1>1 DEF Pattern
<1>4. 2^W \in Nat
  BY PowerAssumption, WidthAssumption
<1> DEFINE badram == Addresses(r.mask) - Addresses(p.mask)
           memmap == (Val(r.mask) - Val(r.addr)) - (Val(p.mask) - Val(p.addr))
<1>5. badram \in Int /\ badram + 2^W >= 0
  BY <1>2, <1>3, <1>4
<1>6. CASE error_mode = "BADRAM"
  BY <1>4, <1>5, <1>6 DEF CombiCost
<1>7. CASE error_mode # "BADRAM"
  <2>1. /\ Val(r.mask) >= Val(p.mask) /\ Val(r.addr) <= Val(p.addr)
        /\ Val(r.mask) \in Int /\ Val(r.addr) \in Int
        /\ Val(p.mask) \in Int /\ Val(p.addr) \in Int
    <3>1. q.addr \in Addr /\ q.mask \in Addr
      BY DEF Pattern
    <3>2. \A a \in Addr : Val(a) \in Int
      BY ValAssumption
    <3> QED BY <1>3, <1>7, <3>1, <3>2 DEF Combine
  <2>2. memmap \in Nat
    BY <2>1
  <2> QED BY <1>7, <2>2 DEF CombiCost
<1> QED BY <1>6, <1>7

-----------------------------------------------------------------------------
(***************************************************************************)
(* The array                                                               *)
(***************************************************************************)
\* What an entry of s or the new one covers, the longer array covers.
SeqCovers(s, a) == \E i \in 1 .. Len(s) : Covers(s[i], a)

\* insert_at keeps every entry and adds the new one.
LEMMA InsertAtKeeps ==
  ASSUME NEW s \in Seq(Pattern), NEW p \in Pattern, NEW i \in 1 .. Len(s) + 1
  PROVE  /\ InsertAt(s, i, p) \in Seq(Pattern)
         /\ Len(InsertAt(s, i, p)) = Len(s) + 1
         /\ \A a \in Addr : SeqCovers(s, a) \/ Covers(p, a) => SeqCovers(InsertAt(s, i, p), a)
<1> DEFINE t == InsertAt(s, i, p)
           n == Len(s)
<1>1. n \in Nat /\ \A j \in 1 .. n : s[j] \in Pattern
  BY LenProperties, ElementOfSeq
<1>2. t \in [1 .. n + 1 -> Pattern]
  BY <1>1 DEF InsertAt
<1>3. t \in Seq(Pattern) /\ Len(t) = n + 1
  BY <1>1, <1>2
<1>4. t[i] = p
  BY <1>1 DEF InsertAt
<1>5. \A j \in 1 .. n : IF j < i THEN t[j] = s[j] ELSE t[j + 1] = s[j]
  BY <1>1 DEF InsertAt
<1> HIDE DEF t
<1>6. ASSUME NEW a \in Addr, SeqCovers(s, a) PROVE SeqCovers(t, a)
  <2>1. PICK j \in 1 .. n : Covers(s[j], a)
    BY <1>6 DEF SeqCovers
  <2>2. \E k \in 1 .. n + 1 : t[k] = s[j]
    BY <1>1, <1>5
  <2> QED BY <1>3, <2>1, <2>2 DEF SeqCovers
<1>7. ASSUME NEW a \in Addr, Covers(p, a) PROVE SeqCovers(t, a)
  BY <1>3, <1>4, <1>7 DEF SeqCovers
<1> QED BY <1>3, <1>6, <1>7 DEF t

\* insert_sorted, wherever it puts the new entry, does too.
LEMMA InsertSortedKeeps ==
  ASSUME NEW s \in Seq(Pattern), NEW p \in Pattern
  PROVE  /\ InsertSorted(s, p) \in Seq(Pattern)
         /\ Len(InsertSorted(s, p)) = Len(s) + 1
         /\ \A a \in Addr : SeqCovers(s, a) \/ Covers(p, a) => SeqCovers(InsertSorted(s, p), a)
<1> DEFINE q == Normalise(p)
           after == {i \in 1 .. Len(s) : Val(q.addr) < Val(s[i].addr)}
           i == IF after = {} THEN Len(s) + 1 ELSE First(after)
<1>1. q \in Pattern /\ \A a \in Addr : Covers(p, a) => Covers(q, a)
  <2>1. p.addr \in Addr /\ p.mask \in Addr /\ p = [addr |-> p.addr, mask |-> p.mask]
    BY DEF Pattern
  <2>2. CASE error_mode = "BADRAM"
    <3>1. q.addr = p.addr \cap p.mask /\ q.mask = p.mask /\ q \in Pattern
      BY <2>1, <2>2 DEF Normalise, Pattern, Addr
    <3> HIDE DEF q
    <3> QED BY <2>2, <3>1 DEF Covers
  <2>3. CASE error_mode # "BADRAM"
    BY <2>3 DEF Normalise
  <2> QED BY <2>2, <2>3
<1>2. i \in 1 .. Len(s) + 1
  <2>1. Len(s) \in Nat
    BY LenProperties
  <2>2. after \in SUBSET (1 .. Len(s))
    OBVIOUS
  <2> HIDE DEF after
  <2>3. ASSUME after # {} PROVE First(after) \in 1 .. Len(s)
    BY <2>1, <2>2, <2>3, FirstIn
  <2> QED BY <2>1, <2>3
<1>3. InsertSorted(s, p) = InsertAt(s, i, q)
  BY DEF InsertSorted
<1> HIDE DEF i, q
<1> QED BY <1>1, <1>2, <1>3, InsertAtKeeps

\* cheapest_pair finds a pair.
LEMMA CheapestPairExists ==
  ASSUME NEW s \in Seq(Pattern), Len(s) >= 2
  PROVE  CheapestPair(s) \in 1 .. Len(s) - 1
<1> DEFINE D == 1 .. Len(s) - 1
           costs == {PairCost(s, k) : k \in D}
<1>1. Len(s) \in Nat
  BY LenProperties
<1>2. ASSUME NEW k \in D PROVE PairCost(s, k) \in Nat
  <2>1. s[k] \in Pattern /\ s[k + 1] \in Pattern
    BY <1>1, ElementOfSeq
  <2> QED BY <2>1, CostNatural DEF PairCost
<1>3. PICK c \in costs : \A d \in costs : c <= d
  <2>1. costs \in SUBSET Nat
    BY <1>2
  <2>2. 1 \in D
    BY <1>1
  <2>3. costs # {}
    BY <2>2
  <2> HIDE DEF costs
  <2> QED BY <2>1, <2>3, LeastNatural
<1> DEFINE last == {Len(s) - k : k \in {k \in D : PairCost(s, k) = c}}
<1>4. PICK l \in last : \A m \in last : l <= m
  <2>1. last \in SUBSET Nat
    BY <1>1
  <2>2. last # {}
    BY <1>3
  <2> HIDE DEF last
  <2> QED BY <2>1, <2>2, LeastNatural
<1>5. PICK i \in D : PairCost(s, i) = c /\ l = Len(s) - i
  BY <1>4
<1>6. \A j \in D : PairCost(s, j) = c => j <= i
  <2> SUFFICES ASSUME NEW j \in D, PairCost(s, j) = c PROVE j <= i
    OBVIOUS
  <2>1. Len(s) - j \in last
    OBVIOUS
  <2>2. Len(s) - i <= Len(s) - j
    BY <1>4, <1>5, <2>1
  <2> QED BY <1>1, <2>2
<1>7. \A j \in D : c <= PairCost(s, j)
  BY <1>3
<1>8. \A j \in D : \/ PairCost(s, i) < PairCost(s, j)
                   \/ PairCost(s, i) = PairCost(s, j) /\ j <= i
  BY <1>2, <1>5, <1>6, <1>7
<1> HIDE DEF last, costs
<1> QED BY <1>5, <1>8 DEF CheapestPair

\* remove_pair takes away the two entries of the pair and no other.
LEMMA RemovePairKeeps ==
  ASSUME NEW s \in Seq(Pattern), Len(s) >= 2, NEW i \in 1 .. Len(s) - 1
  PROVE  /\ RemovePair(s, i) \in Seq(Pattern)
         /\ Len(RemovePair(s, i)) = Len(s) - 2
         /\ \A a \in Addr : SeqCovers(s, a) =>
              \/ SeqCovers(RemovePair(s, i), a)
              \/ Covers(s[i], a) \/ Covers(s[i + 1], a)
<1> DEFINE t == RemovePair(s, i)
           n == Len(s)
<1>1. n \in Nat /\ \A j \in 1 .. n : s[j] \in Pattern
  BY LenProperties, ElementOfSeq
<1>2. t \in [1 .. n - 2 -> Pattern]
  BY <1>1 DEF RemovePair
<1>3. t \in Seq(Pattern) /\ Len(t) = n - 2
  BY <1>1, <1>2
<1>4. \A j \in 1 .. n : j < i => j \in 1 .. n - 2 /\ t[j] = s[j]
  BY <1>1 DEF RemovePair
<1>5. \A j \in 1 .. n : j > i + 1 => j - 2 \in 1 .. n - 2 /\ t[j - 2] = s[j]
  BY <1>1 DEF RemovePair
<1> HIDE DEF t
<1>6. ASSUME NEW a \in Addr, NEW j \in 1 .. n, Covers(s[j], a)
      PROVE  SeqCovers(t, a) \/ Covers(s[i], a) \/ Covers(s[i + 1], a)
  <2>1. j < i \/ j = i \/ j = i + 1 \/ j > i + 1
    BY <1>1
  <2> QED BY <2>1, <1>3, <1>4, <1>5, <1>6 DEF SeqCovers
<1> QED BY <1>3, <1>6 DEF SeqCovers, t

\* The forced merge loses nothing and makes room again.
LEMMA MergeKeeps ==
  ASSUME NEW s \in Seq(Pattern), Len(s) <= MaxPatterns + 1
  PROVE  /\ Merge(s) \in Seq(Pattern) /\ Len(Merge(s)) <= MaxPatterns
         /\ \A a \in Addr : SeqCovers(s, a) => SeqCovers(Merge(s), a)
<1>1. Len(s) \in Nat
  BY LenProperties
<1>2. CASE Len(s) <= MaxPatterns
  BY <1>2 DEF Merge
<1>3. CASE Len(s) > MaxPatterns
  <2> DEFINE i == CheapestPair(s)
             t == RemovePair(s, i)
             r == Combine(s[i], s[i + 1])
  <2>1. Len(s) >= 2
    BY <1>1, <1>3, PatternsAssumption
  <2>2. i \in 1 .. Len(s) - 1
    BY <2>1, CheapestPairExists
  <2> HIDE DEF i
  <2>3. s[i] \in Pattern /\ s[i + 1] \in Pattern
    BY <1>1, <2>2, ElementOfSeq
  <2>4. /\ r \in Pattern
        /\ \A a \in Addr : Covers(s[i], a) \/ Covers(s[i + 1], a) => Covers(r, a)
    BY <2>3, CombineCovers
  <2>5. /\ t \in Seq(Pattern) /\ Len(t) = Len(s) - 2
        /\ \A a \in Addr : SeqCovers(s, a) =>
             SeqCovers(t, a) \/ Covers(s[i], a) \/ Covers(s[i + 1], a)
    BY <2>1, <2>2, RemovePairKeeps
  <2>6. Merge(s) = InsertSorted(t, r)
    BY <1>1, <1>3, PatternsAssumption DEF Merge, i
  <2> HIDE DEF t, r
  <2>7. /\ InsertSorted(t, r) \in Seq(Pattern) /\ Len(InsertSorted(t, r)) = Len(t) + 1
        /\ \A a \in Addr : SeqCovers(t, a) \/ Covers(r, a) => SeqCovers(InsertSorted(t, r), a)
    BY <2>4, <2>5, InsertSortedKeeps
  <2> QED BY <1>1, <2>4, <2>5, <2>6, <2>7, PatternsAssumption
<1> QED BY <1>1, <1>2, <1>3, PatternsAssumption

-----------------------------------------------------------------------------
(***************************************************************************)
(* The specification                                                       *)
(***************************************************************************)
\* The invariant: it needs no strengthening.
Captured == TypeOK /\ AllCaptured

\* badram_insert preserves it.
LEMMA InsertKeeps ==
  ASSUME Captured, NEW a \in Addr, Insert(a)
  PROVE  Captured'
<1> DEFINE p == NewPattern(a)
           s == patterns
<1>1. /\ s \in Seq(Pattern) /\ Len(s) \in Nat /\ Len(s) <= MaxPatterns
      /\ faults' = faults \cup {a} /\ faults \in SUBSET Addr
      /\ error_mode' = error_mode /\ error_mode \in Mode
  BY LenProperties DEF Captured, TypeOK, Insert
<1>2. p \in Pattern /\ Covers(p, a)
  BY ValAssumption DEF NewPattern, Pattern, Addr, Covers
<1> SUFFICES /\ patterns' \in Seq(Pattern) /\ Len(patterns') <= MaxPatterns
             /\ \A b \in Addr : SeqCovers(s, b) \/ b = a => SeqCovers(patterns', b)
  <2>1. \A b \in faults' : SeqCovers(patterns', b)
    BY <1>1 DEF Captured, AllCaptured, SeqCovers
  <2>2. AllCaptured'
    BY <1>1, <2>1 DEF AllCaptured, SeqCovers, Covers
  <2> QED BY <1>1, <2>2 DEF Captured, TypeOK, Pattern, Addr, Bit
<1> HIDE DEF p
<1>3. CASE Near(a) = {}
  <2> DEFINE t == InsertSorted(s, p)
  <2>1. patterns' = Merge(t)
    BY <1>3 DEF Insert, p
  <2>2. /\ t \in Seq(Pattern) /\ Len(t) = Len(s) + 1
        /\ \A b \in Addr : SeqCovers(s, b) \/ Covers(p, b) => SeqCovers(t, b)
    BY <1>1, <1>2, InsertSortedKeeps
  <2> HIDE DEF t
  <2>3. Len(t) <= MaxPatterns + 1
    BY <1>1, <2>2, PatternsAssumption
  <2>4. /\ Merge(t) \in Seq(Pattern) /\ Len(Merge(t)) <= MaxPatterns
        /\ \A b \in Addr : SeqCovers(t, b) => SeqCovers(Merge(t), b)
    BY <2>2, <2>3, MergeKeeps
  <2> QED BY <1>2, <2>1, <2>2, <2>4
<1>4. CASE Near(a) # {}
  <2> DEFINE f == First(Near(a))
  <2>1. f \in 1 .. Len(s)
    <3>1. Near(a) \in SUBSET (1 .. Len(s))
      BY DEF Near
    <3> QED BY <1>1, <1>4, <3>1, FirstIn
  <2>2. s[f] \in Pattern
    BY <1>1, <2>1, ElementOfSeq
  <2>3. CASE CombiCost(s[f], p) = 0
    <3>1. patterns' = s
      BY <1>4, <2>3 DEF Insert, p
    <3>2. Covers(s[f], a)
      BY <2>2, <2>3, FreeIsCovered DEF p
    <3> HIDE DEF f
    <3> QED BY <1>1, <2>1, <3>1, <3>2 DEF SeqCovers
  <2>4. CASE CombiCost(s[f], p) # 0
    <3> DEFINE r == Combine(s[f], p)
    <3>1. patterns' = [s EXCEPT ![f] = r]
      BY <1>4, <2>4 DEF Insert, p
    <3>2. /\ r \in Pattern
          /\ \A b \in Addr : Covers(s[f], b) \/ Covers(p, b) => Covers(r, b)
      BY <1>2, <2>2, CombineCovers
    <3> HIDE DEF f, r
    <3>3. /\ patterns' \in Seq(Pattern) /\ Len(patterns') = Len(s)
          /\ \A j \in 1 .. Len(s) : patterns'[j] = IF j = f THEN r ELSE s[j]
      BY <1>1, <2>1, <3>1, <3>2, ExceptSeq
    <3>4. ASSUME NEW b \in Addr, SeqCovers(s, b) PROVE SeqCovers(patterns', b)
      BY <3>2, <3>3, <3>4 DEF SeqCovers
    <3>5. SeqCovers(patterns', a)
      BY <1>2, <2>1, <3>2, <3>3 DEF SeqCovers
    <3> QED BY <1>1, <3>3, <3>4, <3>5
  <2> QED BY <2>3, <2>4
<1> QED BY <1>3, <1>4

\* Every state of the accumulation satisfies the invariant.
THEOREM CapturedHolds == Spec => []Captured
<1>1. Init => Captured
  BY PatternsAssumption, ModesAssumption, EmptySeq DEF Init, Captured, TypeOK, AllCaptured
<1>2. Captured /\ [Next]_vars => Captured'
  <2> SUFFICES ASSUME Captured, [Next]_vars PROVE Captured'
    OBVIOUS
  <2>1. CASE UNCHANGED vars
    BY <2>1 DEF vars, Captured, TypeOK, AllCaptured, Covers, Pattern, Addr, Bit
  <2>2. CASE Clear
    BY <2>2, PatternsAssumption, ModesAssumption, EmptySeq
       DEF Clear, Captured, TypeOK, AllCaptured
  <2>3. CASE \E a \in Addr : Insert(a)
    BY <2>3, InsertKeeps
  <2> QED BY <2>1, <2>2, <2>3 DEF Next
<1> QED BY <1>1, <1>2, PTL DEF Spec

\* badram.c never writes behind its array: there are never more than
\* MAX_PATTERNS entries when badram_insert returns.
THEOREM TypeCorrect == Spec => []TypeOK
<1>1. Captured => TypeOK
  BY DEF Captured
<1> QED BY <1>1, CapturedHolds, PTL

\* All the errors are captured (README.md:424), whatever is merged with what.
THEOREM CaptureCorrect == Spec => []AllCaptured
<1>1. Captured => AllCaptured
  BY DEF Captured
<1> QED BY <1>1, CapturedHolds, PTL

-----------------------------------------------------------------------------
(***************************************************************************)
(* Nothing else is reported while the faults fit, and regions stay sorted  *)
(***************************************************************************)
\* There are W bits.
LEMMA BitsFinite == IsFiniteSet(Bit) /\ Cardinality(Bit) = W
BY WidthAssumption, FS_Interval DEF Bit

\* The numbers of addresses are natural.
LEMMA ValNat == \A a \in Addr : Val(a) \in Nat
BY ValAssumption

\* What is covered already costs nothing.
LEMMA CoveredIsFree ==
  ASSUME NEW p \in Pattern, NEW a \in Addr, Covers(p, a)
  PROVE  CombiCost(p, NewPattern(a)) = 0
<1> DEFINE q == NewPattern(a)
           r == Combine(p, q)
<1>1. p.addr \in Addr /\ p.mask \in Addr
  BY DEF Pattern
<1>2. CASE error_mode = "BADRAM"
  <2>1. q = [addr |-> a, mask |-> Bit]
    BY <1>2 DEF NewPattern
  <2>2. r.mask = p.mask \cap Bit \cap Equal(p.addr, a)
    BY <1>2, <2>1 DEF Combine
  <2>3. \A x \in p.mask : x \in Bit /\ (x \in p.addr <=> x \in a)
    BY <1>1, <1>2 DEF Covers, Addr
  <2>4. p.mask \cap Bit \cap Equal(p.addr, a) = p.mask
    BY <2>3 DEF Equal
  <2>5. r.mask = p.mask BY <2>2, <2>4
  <2>6. Addresses(p.mask) \in Int
    <3>1. Cardinality(p.mask) \in 0 .. W BY <1>1, MaskSize
    <3>2. W - Cardinality(p.mask) \in 0 .. W BY <3>1, WidthAssumption
    <3> QED BY <3>2, PowerAssumption DEF Addresses
  <2> HIDE DEF r
  <2>7. CombiCost(p, q) = IF Addresses(r.mask) - Addresses(p.mask) < 0
                          THEN Addresses(r.mask) - Addresses(p.mask) + 2^W
                          ELSE Addresses(r.mask) - Addresses(p.mask)
    BY <1>2 DEF CombiCost, r
  <2> QED BY <2>5, <2>6, <2>7
<1>3. CASE error_mode # "BADRAM"
  <2>1. q = [addr |-> a, mask |-> a]
    BY <1>3 DEF NewPattern
  <2>2. r = [addr |-> IF Val(p.addr) < Val(a) THEN p.addr ELSE a,
             mask |-> IF Val(p.mask) > Val(a) THEN p.mask ELSE a]
    BY <1>3, <2>1 DEF Combine
  <2>3. Val(a) \in Nat /\ Val(p.addr) \in Nat /\ Val(p.mask) \in Nat
    BY <1>1, ValNat
  <2>4. /\ Val(r.addr) = IF Val(p.addr) < Val(a) THEN Val(p.addr) ELSE Val(a)
        /\ Val(r.mask) = IF Val(p.mask) > Val(a) THEN Val(p.mask) ELSE Val(a)
    BY <2>2
  <2>5. Val(r.addr) = Val(p.addr) /\ Val(r.mask) = Val(p.mask)
    BY <1>3, <2>3, <2>4 DEF Covers
  <2> HIDE DEF r
  <2>6. CombiCost(p, q) = IF (Val(r.mask) - Val(r.addr)) - (Val(p.mask) - Val(p.addr)) < 0
                          THEN (Val(r.mask) - Val(r.addr)) - (Val(p.mask) - Val(p.addr)) + 2^W
                          ELSE (Val(r.mask) - Val(r.addr)) - (Val(p.mask) - Val(p.addr))
    BY <1>3 DEF CombiCost, r
  <2> QED BY <2>3, <2>5, <2>6
<1> QED BY <1>2, <1>3

\* Only the first power of two is odd.
LEMMA PowerOne ==
  /\ \A i, j \in 0 .. W : i < j /\ 2^j - 2^i = 1 => i = 0 /\ j = 1
  /\ \A i \in 1 .. W : \E h \in Nat : 2^i = 2 * h
<1>1. ASSUME NEW i \in 1 .. W PROVE \E h \in Nat : 2^i = 2 * h
  <2>1. i - 1 \in 0 .. W - 1 /\ i - 1 \in 0 .. W /\ (i - 1) + 1 = i BY WidthAssumption
  <2>2. 2^i = 2 * 2^(i - 1) BY <2>1, PowerAssumption
  <2>3. 2^(i - 1) \in Nat BY <2>1, PowerAssumption
  <2> QED BY <2>2, <2>3
<1>2. ASSUME NEW i \in 0 .. W, NEW j \in 0 .. W, i < j, 2^j - 2^i = 1 PROVE i = 0 /\ j = 1
  <2>1. i \in Nat /\ j \in Nat /\ j \in 1 .. W BY <1>2, WidthAssumption
  <2>2. i = 0
    <3> SUFFICES ASSUME i # 0 PROVE FALSE OBVIOUS
    <3>1. i \in 1 .. W BY <2>1
    <3>2. PICK g \in Nat : 2^i = 2 * g BY <1>1, <3>1
    <3>3. PICK h \in Nat : 2^j = 2 * h BY <1>1, <2>1
    <3> QED BY <1>2, <3>2, <3>3
  <2>3. j = 1
    <3> SUFFICES ASSUME j # 1 PROVE FALSE OBVIOUS
    <3>1. 1 \in 0 .. W /\ 1 < j /\ 0 \in 0 .. W /\ 0 \in 0 .. W - 1 BY <2>1, WidthAssumption
    <3>2. 2^1 < 2^j BY <3>1, PowerAssumption
    <3>3. 2^(0 + 1) = 2 * 2^0 /\ 2^0 = 1 BY <3>1, PowerAssumption
    <3>4. 2^1 = 2 BY <3>3
    <3>5. 2^j \in Nat /\ 2^i = 1 BY <2>2, <3>3, PowerAssumption
    <3> QED BY <1>2, <3>2, <3>4, <3>5
  <2> QED BY <2>2, <2>3
<1> QED BY <1>1, <1>2

\* A region that is extended for the price of one address grows at one of its ends.
LEMMA OneMoreInterval ==
  ASSUME NEW p \in Pattern, NEW a \in Addr, CombiCost(p, NewPattern(a)) = 1,
         error_mode # "BADRAM", Val(p.addr) <= Val(p.mask)
  PROVE  LET r == Combine(p, NewPattern(a))
         IN \/ Val(a) = Val(p.addr) - 1 /\ Val(r.addr) = Val(a) /\ Val(r.mask) = Val(p.mask)
            \/ Val(a) = Val(p.mask) + 1 /\ Val(r.addr) = Val(p.addr) /\ Val(r.mask) = Val(a)
<1> DEFINE q == NewPattern(a)
           r == Combine(p, q)
           more == (Val(r.mask) - Val(r.addr)) - (Val(p.mask) - Val(p.addr))
<1>1. Val(a) \in Nat /\ Val(p.addr) \in Nat /\ Val(p.mask) \in Nat
  BY ValNat DEF Pattern
<1>2. q = [addr |-> a, mask |-> a]
  BY DEF NewPattern
<1>3. r = [addr |-> IF Val(p.addr) < Val(a) THEN p.addr ELSE a,
           mask |-> IF Val(p.mask) > Val(a) THEN p.mask ELSE a]
  BY <1>2 DEF Combine
<1>4. /\ Val(r.addr) = IF Val(p.addr) < Val(a) THEN Val(p.addr) ELSE Val(a)
      /\ Val(r.mask) = IF Val(p.mask) > Val(a) THEN Val(p.mask) ELSE Val(a)
  BY <1>3
<1>5. 1 = IF more < 0 THEN more + 2^W ELSE more
  BY DEF CombiCost
<1> HIDE DEF r
<1>6. more >= 0
  BY <1>1, <1>4
<1>7. \/ Val(a) = Val(p.addr) - 1 /\ Val(r.addr) = Val(a) /\ Val(r.mask) = Val(p.mask)
      \/ Val(a) = Val(p.mask) + 1 /\ Val(r.addr) = Val(p.addr) /\ Val(r.mask) = Val(a)
  BY <1>1, <1>4, <1>5, <1>6
<1> QED BY <1>7 DEF r

\* An entry that is extended for the price of one address covers that one and no other.
LEMMA OneMoreExact ==
  ASSUME NEW p \in Pattern, NEW a \in Addr, CombiCost(p, NewPattern(a)) = 1,
         error_mode # "BADRAM" => Val(p.addr) <= Val(p.mask)
  PROVE  \A x \in Addr : Covers(Combine(p, NewPattern(a)), x) => Covers(p, x) \/ x = a
<1> DEFINE q == NewPattern(a)
           r == Combine(p, q)
<1>1. p.addr \in Addr /\ p.mask \in Addr
  BY DEF Pattern
<1>2. CASE error_mode = "BADRAM"
  <2>1. q = [addr |-> a, mask |-> Bit]
    BY <1>2 DEF NewPattern
  <2>2. r.mask = p.mask \cap Bit \cap Equal(p.addr, a) /\ r.addr = (p.addr \cup a) \cap r.mask
    BY <1>2, <2>1 DEF Combine
  <2>3. r.mask \in SUBSET p.mask /\ r.mask \in Addr
    BY <1>1, <2>2 DEF Addr
  <2> DEFINE cp == Cardinality(p.mask)
             cr == Cardinality(r.mask)
             more == Addresses(r.mask) - Addresses(p.mask)
  <2>4. 1 = IF more < 0 THEN more + 2^W ELSE more
    BY <1>2 DEF CombiCost
  <2>5. /\ cr \in 0 .. W /\ cp \in 0 .. W /\ (r.mask = {} <=> cr = 0) /\ (p.mask = {} <=> cp = 0)
        /\ r.mask # p.mask => cr < cp
    BY <1>1, <2>3, MaskSize
  <2> HIDE DEF r
  <2>6. r.mask # p.mask
    <3> SUFFICES ASSUME r.mask = p.mask PROVE FALSE OBVIOUS
    <3>1. W - cp \in 0 .. W BY <2>5, WidthAssumption
    <3>2. Addresses(p.mask) \in Int BY <3>1, PowerAssumption DEF Addresses
    <3> QED BY <2>4, <3>2
  <2> HIDE DEF cp, cr
  <2>7. /\ Addresses(p.mask) = 2^(W - cp)
        /\ Addresses(r.mask) = IF cr = 0 THEN 0 ELSE 2^(W - cr)
    BY <2>5, <2>6 DEF Addresses, cp, cr
  <2>8. /\ W - cp \in 0 .. W /\ W - cr \in 0 .. W /\ W - cp < W - cr /\ W \in 0 .. W /\ W - cp < W
    BY <2>5, <2>6, WidthAssumption
  <2>9. /\ 2^(W - cp) \in Nat \ {0} /\ 2^(W - cr) \in Nat /\ 2^W \in Nat
        /\ 2^(W - cp) < 2^(W - cr) /\ 2^(W - cp) < 2^W
    BY <2>8, PowerAssumption
  <2>10. 2^(W - cr) - 2^(W - cp) = 1
    <3>1. CASE cr = 0
      <4>1. W - cr = W BY <3>1, WidthAssumption
      <4> QED BY <2>4, <2>7, <2>9, <3>1, <4>1
    <3>2. CASE cr # 0
      BY <2>4, <2>7, <2>9, <3>2
    <3> QED BY <3>1, <3>2
  <2>11. W - cp = 0 /\ W - cr = 1
    BY <2>8, <2>10, PowerOne
  <2>12. cp = W /\ cr = W - 1
    BY <2>5, <2>11, WidthAssumption
  <2>13. p.mask = Bit
    <3>1. IsFiniteSet(Bit) /\ Cardinality(Bit) = W BY BitsFinite
    <3> QED BY <1>1, <2>12, <3>1, FS_Subset DEF Addr, cp
  <2>14. PICK b \in Bit : r.mask = Bit \ {b}
    <3>1. PICK b \in Bit : b \notin r.mask BY <2>3, <2>6, <2>13
    <3>2. IsFiniteSet(Bit) /\ Cardinality(Bit) = W BY BitsFinite
    <3>3. IsFiniteSet(Bit \ {b}) /\ Cardinality(Bit \ {b}) = W - 1
      BY <3>2, FS_RemoveElement
    <3>4. r.mask \subseteq Bit \ {b} BY <2>3, <3>1 DEF Addr
    <3> QED BY <2>12, <3>3, <3>4, FS_Subset DEF cr
  <2>15. b \notin Equal(p.addr, a) BY <2>2, <2>13, <2>14
  <2>16. b \in p.addr <=> b \notin a BY <2>15 DEF Equal
  <2>17. \A c \in Bit \ {b} : c \in p.addr <=> c \in a
    BY <2>2, <2>14 DEF Equal
  <2>18. ASSUME NEW x \in Addr, Covers(r, x) PROVE Covers(p, x) \/ x = a
    <3>1. \A c \in Bit \ {b} : c \in x <=> c \in a
      <4>1. x \cap r.mask = r.addr \cap r.mask BY <1>2, <2>18 DEF Covers
      <4>2. \A c \in r.mask : c \in x <=> c \in p.addr \cup a BY <2>2, <4>1
      <4> QED BY <2>14, <2>17, <4>2
    <3>2. CASE b \in x <=> b \in a
      <4>1. x = a BY <3>1, <3>2 DEF Addr
      <4> QED BY <4>1
    <3>3. CASE b \in x <=> b \in p.addr
      <4>1. \A c \in Bit : c \in x <=> c \in p.addr BY <2>17, <3>1, <3>3
      <4>2. Covers(p, x) BY <1>2, <2>13, <4>1 DEF Covers
      <4> QED BY <4>2
    <3> QED BY <2>16, <3>2, <3>3
  <2> QED BY <2>18 DEF r
<1>3. CASE error_mode # "BADRAM"
  <2>1. Val(a) \in Nat /\ Val(p.addr) \in Nat /\ Val(p.mask) \in Nat
    BY <1>1, ValNat
  <2>2. \/ Val(a) = Val(p.addr) - 1 /\ Val(r.addr) = Val(a) /\ Val(r.mask) = Val(p.mask)
        \/ Val(a) = Val(p.mask) + 1 /\ Val(r.addr) = Val(p.addr) /\ Val(r.mask) = Val(a)
    BY <1>3, OneMoreInterval
  <2> HIDE DEF r
  <2>3. ASSUME NEW x \in Addr, Covers(r, x) PROVE Covers(p, x) \/ x = a
    <3>1. Val(x) \in Nat /\ (Val(x) = Val(a) => x = a) BY ValAssumption, ValNat
    <3>2. Val(r.addr) <= Val(x) /\ Val(x) <= Val(r.mask) BY <1>3, <2>3 DEF Covers
    <3>3. Val(x) = Val(a) \/ (Val(p.addr) <= Val(x) /\ Val(x) <= Val(p.mask))
      BY <2>1, <2>2, <3>1, <3>2
    <3> QED BY <1>3, <3>1, <3>3 DEF Covers
  <2> QED BY <2>3 DEF r
<1> QED BY <1>2, <1>3

\* ... and it is the least of them.
LEMMA FirstLeast ==
  ASSUME NEW n \in Nat, NEW S \in SUBSET (1 .. n), S # {}
  PROVE  First(S) \in S /\ \A j \in S : First(S) <= j
<1>1. S \subseteq Nat
  OBVIOUS
<1>2. PICK x \in S : \A y \in S : x <= y
  BY <1>1, LeastNatural
<1> QED BY <1>2 DEF First

\* insert_at adds nothing but the new entry, and keeps the order when it fits there.
LEMMA InsertAtExact ==
  ASSUME NEW s \in Seq(Pattern), NEW p \in Pattern, NEW i \in 1 .. Len(s) + 1
  PROVE  /\ \A a \in Addr : SeqCovers(InsertAt(s, i, p), a) => SeqCovers(s, a) \/ Covers(p, a)
         /\ Intervals(s) /\ Val(p.addr) <= Val(p.mask) => Intervals(InsertAt(s, i, p))
         /\ /\ Ordered(s)
            /\ \A j \in 1 .. Len(s) : IF j < i THEN Val(s[j].addr) < Val(p.addr)
                                      ELSE Val(p.addr) < Val(s[j].addr)
            => Ordered(InsertAt(s, i, p))
<1> DEFINE t == InsertAt(s, i, p)
           n == Len(s)
<1>1. n \in Nat /\ i \in Nat
  BY LenProperties
<1>2. Len(t) = n + 1
  BY InsertAtKeeps
<1>3. \A j \in 1 .. n + 1 : t[j] = IF j < i THEN s[j] ELSE IF j = i THEN p ELSE s[j - 1]
  BY <1>1 DEF InsertAt
<1> HIDE DEF t
<1>4. \A j \in 1 .. n + 1 : \/ j < i /\ j \in 1 .. n /\ t[j] = s[j]
                            \/ j = i /\ t[j] = p
                            \/ j > i /\ j - 1 \in 1 .. n /\ ~(j - 1 < i) /\ t[j] = s[j - 1]
  BY <1>1, <1>3
<1>5. ASSUME NEW a \in Addr, SeqCovers(t, a) PROVE SeqCovers(s, a) \/ Covers(p, a)
  <2>1. PICK j \in 1 .. n + 1 : Covers(t[j], a) BY <1>2, <1>5 DEF SeqCovers
  <2>2. t[j] = p \/ \E k \in 1 .. n : t[j] = s[k] BY <1>4
  <2> QED BY <2>1, <2>2 DEF SeqCovers
<1>6. ASSUME Intervals(s), Val(p.addr) <= Val(p.mask) PROVE Intervals(t)
  <2>1. \A j \in 1 .. n + 1 : t[j] = p \/ \E k \in 1 .. n : t[j] = s[k] BY <1>4
  <2> QED BY <1>2, <1>6, <2>1 DEF Intervals
<1>7. ASSUME Ordered(s), \A j \in 1 .. n : IF j < i THEN Val(s[j].addr) < Val(p.addr)
                                           ELSE Val(p.addr) < Val(s[j].addr)
      PROVE  Ordered(t)
  <2> SUFFICES ASSUME NEW j \in 1 .. n + 1, NEW k \in 1 .. n + 1, j < k
               PROVE  Val(t[j].addr) < Val(t[k].addr)
    BY <1>2 DEF Ordered
  <2>1. CASE k < i
    <3>1. j < i BY <1>1, <2>1
    <3>2. j \in 1 .. n /\ k \in 1 .. n /\ t[j] = s[j] /\ t[k] = s[k] BY <1>1, <1>4, <2>1, <3>1
    <3> QED BY <1>7, <3>2 DEF Ordered
  <2>2. CASE k = i
    <3>1. j \in 1 .. n /\ t[j] = s[j] /\ j < i /\ t[k] = p BY <1>1, <1>4, <2>2
    <3> QED BY <1>7, <3>1
  <2>3. CASE k > i
    <3>1. k - 1 \in 1 .. n /\ ~(k - 1 < i) /\ t[k] = s[k - 1] BY <1>1, <1>4, <2>3
    <3>2. CASE j < i
      <4>1. j \in 1 .. n /\ t[j] = s[j] /\ j < k - 1 BY <1>1, <1>4, <2>3, <3>2
      <4> QED BY <1>7, <3>1, <4>1 DEF Ordered
    <3>3. CASE j = i
      <4>1. t[j] = p BY <1>4, <3>3
      <4> QED BY <1>7, <3>1, <4>1
    <3>4. CASE j > i
      <4>1. j - 1 \in 1 .. n /\ t[j] = s[j - 1] /\ j - 1 < k - 1 BY <1>1, <1>4, <3>4
      <4> QED BY <1>7, <3>1, <4>1 DEF Ordered
    <3> QED BY <1>1, <3>2, <3>3, <3>4
  <2> QED BY <1>1, <2>1, <2>2, <2>3
<1> QED BY <1>5, <1>6, <1>7 DEF t

\* insert_sorted finds the place where it fits.
LEMMA InsertSortedExact ==
  ASSUME NEW s \in Seq(Pattern), NEW p \in Pattern
  PROVE  /\ \A a \in Addr : SeqCovers(InsertSorted(s, p), a) => SeqCovers(s, a) \/ Covers(p, a)
         /\ /\ error_mode = "MEMMAP" /\ Ordered(s) /\ Intervals(s)
            /\ Val(p.addr) <= Val(p.mask)
            /\ \A j \in 1 .. Len(s) : Val(s[j].addr) # Val(p.addr)
            => Ordered(InsertSorted(s, p)) /\ Intervals(InsertSorted(s, p))
<1> DEFINE q == Normalise(p)
           after == {i \in 1 .. Len(s) : Val(q.addr) < Val(s[i].addr)}
           i == IF after = {} THEN Len(s) + 1 ELSE First(after)
<1>1. q \in Pattern /\ (\A a \in Addr : Covers(q, a) => Covers(p, a)) /\ (error_mode = "MEMMAP" => q = p)
  <2>1. p.addr \in Addr /\ p.mask \in Addr /\ p = [addr |-> p.addr, mask |-> p.mask]
    BY DEF Pattern
  <2>2. CASE error_mode = "BADRAM"
    <3>1. q.addr = p.addr \cap p.mask /\ q.mask = p.mask /\ q \in Pattern
      BY <2>1, <2>2 DEF Normalise, Pattern, Addr
    <3> HIDE DEF q
    <3> QED BY <2>2, <3>1 DEF Covers
  <2>3. CASE error_mode # "BADRAM"
    BY <2>3 DEF Normalise
  <2> QED BY <2>2, <2>3
<1>2. Len(s) \in Nat /\ \A j \in 1 .. Len(s) : s[j] \in Pattern
  BY LenProperties, ElementOfSeq
<1>3. after \in SUBSET (1 .. Len(s)) /\ \A j \in 1 .. Len(s) : j \in after <=> Val(q.addr) < Val(s[j].addr)
  OBVIOUS
<1> HIDE DEF after, q
<1>4. after # {} => First(after) \in after /\ \A j \in after : First(after) <= j
  BY <1>2, <1>3, FirstLeast
<1>5. i \in 1 .. Len(s) + 1
  <2>1. CASE after = {} BY <1>2, <2>1
  <2>2. CASE after # {}
    <3>1. First(after) \in 1 .. Len(s) BY <1>3, <1>4, <2>2
    <3>2. i = First(after) BY <2>2
    <3> HIDE DEF i
    <3> QED BY <1>2, <3>1, <3>2
  <2> QED BY <2>1, <2>2
<1>6. InsertSorted(s, p) = InsertAt(s, i, q)
  BY DEF InsertSorted, q, after
<1>7. ASSUME error_mode = "MEMMAP", Ordered(s), \A j \in 1 .. Len(s) : Val(s[j].addr) # Val(p.addr)
      PROVE  \A j \in 1 .. Len(s) : IF j < i THEN Val(s[j].addr) < Val(q.addr)
                                    ELSE Val(q.addr) < Val(s[j].addr)
  <2> SUFFICES ASSUME NEW j \in 1 .. Len(s)
               PROVE  IF j < i THEN Val(s[j].addr) < Val(q.addr) ELSE Val(q.addr) < Val(s[j].addr)
    OBVIOUS
  <2>1. Val(s[j].addr) \in Nat /\ Val(q.addr) \in Nat /\ Val(s[j].addr) # Val(q.addr)
    BY <1>1, <1>2, <1>7, ValNat DEF Pattern
  <2>2. CASE after = {}
    BY <1>2, <1>3, <2>1, <2>2
  <2>3. CASE after # {}
    <3> DEFINE f == First(after)
    <3>1. f \in after /\ f \in 1 .. Len(s) /\ i = f /\ \A k \in after : f <= k BY <1>3, <1>4, <2>3
    <3>2. Val(q.addr) < Val(s[f].addr) BY <1>3, <3>1
    <3> HIDE DEF f, i
    <3>3. CASE j < f
      <4>1. j \notin after BY <1>2, <3>1, <3>3
      <4> QED BY <1>3, <2>1, <3>1, <3>3, <4>1
    <3>4. CASE j = f BY <1>2, <3>1, <3>2, <3>4
    <3>5. CASE j > f
      <4>1. Val(s[f].addr) < Val(s[j].addr) BY <1>7, <3>1, <3>5 DEF Ordered
      <4>2. Val(s[f].addr) \in Nat BY <1>2, <3>1, ValNat DEF Pattern
      <4> QED BY <1>2, <2>1, <3>1, <3>2, <3>5, <4>1, <4>2
    <3> QED BY <1>2, <3>1, <3>3, <3>4, <3>5
  <2> QED BY <2>2, <2>3
<1> HIDE DEF i
<1>8. \A a \in Addr : SeqCovers(InsertSorted(s, p), a) => SeqCovers(s, a) \/ Covers(p, a)
  BY <1>1, <1>5, <1>6, InsertAtExact
<1>9. ASSUME error_mode = "MEMMAP", Ordered(s), Intervals(s), Val(p.addr) <= Val(p.mask),
             \A j \in 1 .. Len(s) : Val(s[j].addr) # Val(p.addr)
      PROVE  Ordered(InsertSorted(s, p)) /\ Intervals(InsertSorted(s, p))
  BY <1>1, <1>5, <1>6, <1>7, <1>9, InsertAtExact
<1> QED BY <1>8, <1>9

\* The forced merge keeps the regions in order: the two are neighbours.
LEMMA MergeOrdered ==
  ASSUME NEW s \in Seq(Pattern), error_mode = "MEMMAP", Ordered(s), Intervals(s)
  PROVE  Ordered(Merge(s)) /\ Intervals(Merge(s))
<1>1. Len(s) \in Nat /\ \A j \in 1 .. Len(s) : s[j] \in Pattern
  BY LenProperties, ElementOfSeq
<1>2. CASE Len(s) <= MaxPatterns
  BY <1>2 DEF Merge
<1>3. CASE Len(s) > MaxPatterns
  <2> DEFINE i == CheapestPair(s)
             t == RemovePair(s, i)
             r == Combine(s[i], s[i + 1])
             n == Len(s)
  <2>1. Len(s) >= 2
    BY <1>1, <1>3, PatternsAssumption
  <2>2. i \in 1 .. n - 1
    BY <2>1, CheapestPairExists
  <2> HIDE DEF i
  <2>3. i \in 1 .. n /\ i + 1 \in 1 .. n /\ i < i + 1 /\ i \in Nat BY <1>1, <2>2
  <2>4. s[i] \in Pattern /\ s[i + 1] \in Pattern BY <1>1, <2>3
  <2>5. Val(s[i].addr) < Val(s[i + 1].addr) BY <2>3 DEF Ordered
  <2>6. r.addr = s[i].addr /\ Val(s[i].mask) <= Val(r.mask) /\ r \in Pattern
    <3>1. r \in Pattern BY <2>4, CombineCovers
    <3>2. r.addr = s[i].addr BY <2>5 DEF Combine
    <3>3. r.mask = IF Val(s[i].mask) > Val(s[i + 1].mask) THEN s[i].mask ELSE s[i + 1].mask
      BY DEF Combine
    <3>4. Val(s[i].mask) \in Nat /\ Val(s[i + 1].mask) \in Nat BY <2>4, ValNat DEF Pattern
    <3> HIDE DEF r
    <3> QED BY <3>1, <3>2, <3>3, <3>4
  <2>7. t \in Seq(Pattern) /\ Len(t) = n - 2 BY <2>1, <2>2, RemovePairKeeps
  <2>8. \A j \in 1 .. n - 2 : t[j] = IF j < i THEN s[j] ELSE s[j + 2] BY DEF RemovePair
  <2>9. Merge(s) = InsertSorted(t, r)
    BY <1>1, <1>3, PatternsAssumption DEF Merge, i
  <2> HIDE DEF t, r
  <2>10. Intervals(t)
    <3>1. \A j \in 1 .. n - 2 : \E k \in 1 .. n : t[j] = s[k] BY <1>1, <2>8
    <3> QED BY <2>7, <3>1 DEF Intervals
  <2>11. Ordered(t)
    <3> SUFFICES ASSUME NEW j \in 1 .. n - 2, NEW k \in 1 .. n - 2, j < k
                 PROVE  Val(t[j].addr) < Val(t[k].addr)
      BY <2>7 DEF Ordered
    <3>1. PICK j1 \in 1 .. n : t[j] = s[j1] /\ j1 = IF j < i THEN j ELSE j + 2 BY <1>1, <2>8
    <3>2. PICK k1 \in 1 .. n : t[k] = s[k1] /\ k1 = IF k < i THEN k ELSE k + 2 BY <1>1, <2>8
    <3>3. j1 < k1 BY <1>1, <2>3, <3>1, <3>2
    <3> QED BY <3>1, <3>2, <3>3 DEF Ordered
  <2>12. \A j \in 1 .. Len(t) : Val(t[j].addr) # Val(r.addr)
    <3> SUFFICES ASSUME NEW j \in 1 .. n - 2 PROVE Val(t[j].addr) # Val(s[i].addr)
      BY <2>6, <2>7
    <3>1. PICK k \in 1 .. n : t[j] = s[k] /\ (k < i \/ i < k) BY <1>1, <2>3, <2>8
    <3>2. Val(s[k].addr) \in Nat /\ Val(s[i].addr) \in Nat BY <1>1, <2>3, ValNat DEF Pattern
    <3>3. Val(s[k].addr) < Val(s[i].addr) \/ Val(s[i].addr) < Val(s[k].addr)
      BY <2>3, <3>1 DEF Ordered
    <3> QED BY <3>1, <3>2, <3>3
  <2>13. Val(r.addr) <= Val(r.mask)
    <3>1. /\ Val(s[i].addr) \in Nat /\ Val(s[i].mask) \in Nat /\ Val(r.mask) \in Nat
      BY <2>4, <2>6, ValNat DEF Pattern
    <3>2. Val(s[i].addr) <= Val(s[i].mask) BY <2>3 DEF Intervals
    <3> QED BY <2>6, <3>1, <3>2
  <2> QED BY <2>6, <2>7, <2>9, <2>10, <2>11, <2>12, <2>13, InsertSortedExact
<1> QED BY <1>1, <1>2, <1>3, PatternsAssumption

\* The addresses, and so the faults, are finitely many.
LEMMA FaultsFinite ==
  ASSUME NEW F \in SUBSET Addr, NEW a \in Addr
  PROVE  /\ IsFiniteSet(F) /\ Cardinality(F) \in Nat
         /\ Cardinality(F \cup {a}) = IF a \in F THEN Cardinality(F) ELSE Cardinality(F) + 1
<1>1. IsFiniteSet(Addr) BY BitsFinite, FS_SUBSET DEF Addr
<1>2. IsFiniteSet(F) BY <1>1, FS_Subset
<1> QED BY <1>2, FS_AddElement, FS_CardinalityType

\* An entry extended for the price of one address keeps the table exact and in order.
LEMMA ExtendTight ==
  ASSUME NEW s \in Seq(Pattern), NEW a \in Addr, NEW f \in 1 .. Len(s),
         CombiCost(s[f], NewPattern(a)) = 1, error_mode \in Mode,
         \A i \in 1 .. Len(s) : CombiCost(s[i], NewPattern(a)) \in {0, 1} => f <= i,
         error_mode = "MEMMAP" => Ordered(s) /\ Intervals(s),
         NEW t \in Seq(Pattern), Len(t) = Len(s),
         \A j \in 1 .. Len(s) : t[j] = IF j = f THEN Combine(s[f], NewPattern(a)) ELSE s[j]
  PROVE  /\ \A x \in Addr : SeqCovers(t, x) => SeqCovers(s, x) \/ x = a
         /\ error_mode = "MEMMAP" => Ordered(t) /\ Intervals(t)
<1> DEFINE r == Combine(s[f], NewPattern(a))
           n == Len(s)
<1>1. n \in Nat /\ f \in Nat /\ \A j \in 1 .. n : s[j] \in Pattern /\ t[j] \in Pattern
  BY LenProperties, ElementOfSeq
<1>2. \A j \in 1 .. n : Val(s[j].addr) \in Nat /\ Val(s[j].mask) \in Nat
  BY <1>1, ValNat DEF Pattern
<1>3. Val(a) \in Nat
  BY ValNat
<1>4. \A x \in Addr : SeqCovers(t, x) => SeqCovers(s, x) \/ x = a
  <2>1. error_mode # "BADRAM" => Val(s[f].addr) <= Val(s[f].mask)
    BY DEF Intervals, Mode
  <2>2. \A x \in Addr : Covers(r, x) => Covers(s[f], x) \/ x = a
    BY <1>1, <2>1, OneMoreExact
  <2> HIDE DEF r
  <2> SUFFICES ASSUME NEW x \in Addr, SeqCovers(t, x) PROVE SeqCovers(s, x) \/ x = a
    OBVIOUS
  <2>3. PICK j \in 1 .. n : Covers(t[j], x) BY DEF SeqCovers
  <2>4. CASE j = f
    <3>1. t[j] = r BY <2>4 DEF r
    <3> QED BY <2>2, <2>3, <3>1 DEF SeqCovers
  <2>5. CASE j # f
    <3>1. t[j] = s[j] BY <2>5
    <3> QED BY <2>3, <3>1 DEF SeqCovers
  <2> QED BY <2>4, <2>5
<1>5. ASSUME error_mode = "MEMMAP" PROVE Ordered(t) /\ Intervals(t)
  <2>1. \/ Val(a) = Val(s[f].addr) - 1 /\ Val(r.addr) = Val(a) /\ Val(r.mask) = Val(s[f].mask)
        \/ Val(a) = Val(s[f].mask) + 1 /\ Val(r.addr) = Val(s[f].addr) /\ Val(r.mask) = Val(a)
    BY <1>1, <1>5, OneMoreInterval DEF Intervals
  <2>2. \A j \in 1 .. n : j # f => t[j] = s[j]
    OBVIOUS
  <2>3. t[f] = r
    OBVIOUS
  <2>4. \A j \in 1 .. n : Val(s[j].addr) <= Val(s[j].mask)
    BY <1>5 DEF Intervals
  <2> HIDE DEF r
  <2>5. \A j \in 1 .. n : j < f => Val(s[j].addr) # Val(a)
    <3> SUFFICES ASSUME NEW j \in 1 .. n, j < f, Val(s[j].addr) = Val(a) PROVE FALSE
      OBVIOUS
    <3>1. Covers(s[j], a) BY <1>2, <1>3, <1>5, <2>4 DEF Covers
    <3>2. CombiCost(s[j], NewPattern(a)) = 0 BY <1>1, <3>1, CoveredIsFree
    <3>3. f <= j BY <3>2
    <3> QED BY <1>1, <3>3
  <2>6. Val(r.addr) <= Val(s[f].addr) /\ Val(r.addr) <= Val(r.mask) /\ Val(r.addr) \in Nat
    BY <1>2, <1>3, <2>1, <2>4
  <2>7. Intervals(t)
    BY <2>2, <2>3, <2>4, <2>6 DEF Intervals
  <2>8. Ordered(t)
    <3> SUFFICES ASSUME NEW j \in 1 .. n, NEW k \in 1 .. n, j < k
                 PROVE  Val(t[j].addr) < Val(t[k].addr)
      BY DEF Ordered
    <3>1. Val(s[j].addr) < Val(s[k].addr) BY <1>5 DEF Ordered
    <3>2. Val(s[j].addr) \in Nat /\ Val(s[k].addr) \in Nat BY <1>2
    <3>3. CASE j = f
      <4>1. t[j] = r /\ t[k] = s[k] BY <1>1, <2>2, <2>3, <3>3
      <4> QED BY <2>6, <3>1, <3>2, <3>3, <4>1
    <3>4. CASE k = f
      <4>1. t[j] = s[j] /\ t[k] = r BY <1>1, <2>2, <2>3, <3>4
      <4>2. Val(s[j].addr) # Val(a) BY <2>5, <3>4
      <4>3. Val(s[j].addr) < Val(r.addr) BY <1>3, <2>1, <3>1, <3>2, <3>4, <4>2
      <4> QED BY <4>1, <4>3
    <3>5. CASE j # f /\ k # f
      BY <2>2, <3>1, <3>5
    <3> QED BY <3>3, <3>4, <3>5
  <2> QED BY <2>7, <2>8
<1> QED BY <1>4, <1>5

\* badram_insert preserves the tight invariant.
LEMMA InsertTight ==
  ASSUME TightInv, NEW a \in Addr, Insert(a)
  PROVE  TightInv'
<1> DEFINE p == NewPattern(a)
           s == patterns
<1>1. /\ s \in Seq(Pattern) /\ Len(s) \in Nat /\ Len(s) <= MaxPatterns
      /\ faults' = faults \cup {a} /\ faults \in SUBSET Addr
      /\ error_mode' = error_mode /\ error_mode \in Mode
  BY LenProperties DEF TightInv, TypeOK, Insert
<1>2. p \in Pattern /\ (\A b \in Addr : Covers(p, b) => b = a)
      /\ (error_mode = "MEMMAP" => p.addr = a /\ p.mask = a)
  <2>1. CASE error_mode = "BADRAM"
    <3>1. p = [addr |-> a, mask |-> Bit] BY <2>1 DEF NewPattern
    <3>2. \A b \in Addr : Covers(p, b) => b = a
      BY <2>1, <3>1 DEF Covers, Addr
    <3> QED BY <2>1, <3>1, <3>2 DEF Pattern, Addr
  <2>2. CASE error_mode # "BADRAM"
    <3>1. p = [addr |-> a, mask |-> a] BY <2>2 DEF NewPattern
    <3>2. ASSUME NEW b \in Addr, Covers(p, b) PROVE b = a
      <4>1. Val(a) <= Val(b) /\ Val(b) <= Val(a) BY <2>2, <3>1, <3>2 DEF Covers
      <4>2. Val(a) \in Nat /\ Val(b) \in Nat BY ValNat
      <4>3. Val(a) = Val(b) BY <4>1, <4>2
      <4> QED BY <4>3, ValAssumption
    <3> QED BY <3>1, <3>2 DEF Pattern
  <2> QED BY <2>1, <2>2
<1>3. /\ Cardinality(faults) \in Nat
      /\ Cardinality(faults') = IF a \in faults THEN Cardinality(faults) ELSE Cardinality(faults) + 1
  BY <1>1, FaultsFinite
<1>4. /\ TypeOK' /\ AllCaptured'
  BY InsertKeeps DEF TightInv, Captured
<1>5. /\ Len(s) <= Cardinality(faults)
      /\ Cardinality(faults) <= MaxPatterns => \A x \in Addr : SeqCovers(s, x) => x \in faults
      /\ error_mode = "MEMMAP" => Ordered(s) /\ Intervals(s)
      /\ \A x \in faults : SeqCovers(s, x)
  BY DEF TightInv, Exact, AllCaptured, SeqCovers
<1> SUFFICES /\ Len(patterns') <= Cardinality(faults')
             /\ Cardinality(faults') <= MaxPatterns =>
                  \A x \in Addr : SeqCovers(patterns', x) => x \in faults \cup {a}
             /\ error_mode = "MEMMAP" => Ordered(patterns') /\ Intervals(patterns')
  <2>1. Exact'
    BY <1>1 DEF Exact, SeqCovers, Covers, Addr, Bit
  <2>2. error_mode' = "MEMMAP" => (Ordered(patterns) /\ Intervals(patterns))'
    BY <1>1 DEF Ordered, Intervals
  <2> QED BY <1>4, <2>1, <2>2 DEF TightInv
<1> HIDE DEF p
<1>6. CASE Near(a) = {}
  <2>1. \A j \in 1 .. Len(s) : ~ Covers(s[j], a)
    <3> SUFFICES ASSUME NEW j \in 1 .. Len(s), Covers(s[j], a) PROVE FALSE
      OBVIOUS
    <3>1. s[j] \in Pattern BY <1>1, ElementOfSeq
    <3>2. CombiCost(s[j], NewPattern(a)) = 0 BY <3>1, CoveredIsFree
    <3>3. j \in Near(a) BY <3>2 DEF Near
    <3> QED BY <1>6, <3>3
  <2>2. a \notin faults
    BY <1>5, <2>1 DEF SeqCovers
  <2> DEFINE t == InsertSorted(s, p)
  <2>3. patterns' = Merge(t)
    BY <1>6 DEF Insert, p
  <2>4. t \in Seq(Pattern) /\ Len(t) = Len(s) + 1
    BY <1>1, <1>2, InsertSortedKeeps
  <2>5. /\ \A x \in Addr : SeqCovers(t, x) => SeqCovers(s, x) \/ Covers(p, x)
        /\ /\ error_mode = "MEMMAP" /\ Ordered(s) /\ Intervals(s)
           /\ Val(p.addr) <= Val(p.mask)
           /\ \A j \in 1 .. Len(s) : Val(s[j].addr) # Val(p.addr)
           => Ordered(t) /\ Intervals(t)
    BY <1>1, <1>2, InsertSortedExact
  <2> HIDE DEF t
  <2>6. Len(Merge(t)) <= Len(t)
    <3>1. CASE Len(t) <= MaxPatterns BY <2>4, <3>1, LenProperties DEF Merge
    <3>2. CASE ~(Len(t) <= MaxPatterns)
      <4>1. Len(Merge(t)) <= MaxPatterns /\ Len(Merge(t)) \in Nat
        BY <1>1, <2>4, MergeKeeps, LenProperties, PatternsAssumption
      <4>2. Len(t) \in Nat BY <2>4, LenProperties
      <4> QED BY <3>2, <4>1, <4>2, PatternsAssumption
    <3> QED BY <3>1, <3>2
  <2>7. Len(patterns') <= Cardinality(faults')
    <3>1. Len(Merge(t)) \in Nat
      BY <1>1, <2>4, MergeKeeps, LenProperties, PatternsAssumption
    <3> QED BY <1>1, <1>3, <1>5, <2>2, <2>3, <2>4, <2>6, <3>1
  <2>8. ASSUME Cardinality(faults') <= MaxPatterns, NEW x \in Addr, SeqCovers(patterns', x)
        PROVE  x \in faults \cup {a}
    <3>1. Len(t) <= MaxPatterns /\ Cardinality(faults) <= MaxPatterns
      BY <1>1, <1>3, <1>5, <2>2, <2>4, <2>8, PatternsAssumption
    <3>2. Merge(t) = t BY <3>1 DEF Merge
    <3>3. SeqCovers(s, x) \/ Covers(p, x) BY <2>3, <2>5, <2>8, <3>2
    <3> QED BY <1>2, <1>5, <3>1, <3>3
  <2>9. ASSUME error_mode = "MEMMAP" PROVE Ordered(patterns') /\ Intervals(patterns')
    <3>1. p.addr = a /\ p.mask = a /\ Val(a) \in Nat BY <1>2, <2>9, ValNat
    <3>2. \A j \in 1 .. Len(s) : Val(s[j].addr) # Val(p.addr)
      <4> SUFFICES ASSUME NEW j \in 1 .. Len(s), Val(s[j].addr) = Val(a) PROVE FALSE
        BY <3>1
      <4>1. Val(s[j].addr) <= Val(s[j].mask) BY <1>5, <2>9 DEF Intervals
      <4>2. Covers(s[j], a) BY <2>9, <3>1, <4>1 DEF Covers
      <4> QED BY <2>1, <4>2
    <3>3. Val(p.addr) <= Val(p.mask) BY <3>1
    <3>4. Ordered(t) /\ Intervals(t) BY <1>5, <2>5, <2>9, <3>2, <3>3
    <3> QED BY <2>3, <2>4, <2>9, <3>4, MergeOrdered
  <2> QED BY <2>7, <2>8, <2>9
<1>7. CASE Near(a) # {}
  <2> DEFINE f == First(Near(a))
  <2>1. f \in 1 .. Len(s) /\ CombiCost(s[f], p) \in {0, 1} /\ \A j \in Near(a) : f <= j
    <3>1. Near(a) \in SUBSET (1 .. Len(s))
      BY DEF Near
    <3>2. f \in Near(a) /\ \A j \in Near(a) : f <= j BY <1>1, <1>7, <3>1, FirstLeast
    <3> HIDE DEF f
    <3> QED BY <3>1, <3>2 DEF Near, p
  <2>2. s[f] \in Pattern
    BY <1>1, <2>1, ElementOfSeq
  <2>3. Cardinality(faults) <= Cardinality(faults') /\ Cardinality(faults') \in Nat
    BY <1>3
  <2>4. CASE CombiCost(s[f], p) = 0
    <3>1. patterns' = s
      BY <1>7, <2>4 DEF Insert, p
    <3> HIDE DEF f
    <3> QED BY <1>1, <1>3, <1>5, <2>3, <3>1, PatternsAssumption
  <2>5. CASE CombiCost(s[f], p) # 0
    <3> DEFINE r == Combine(s[f], p)
    <3>1. patterns' = [s EXCEPT ![f] = r]
      BY <1>7, <2>5 DEF Insert, p
    <3>2. r \in Pattern
      BY <1>2, <2>2, CombineCovers
    <3>3. CombiCost(s[f], p) = 1
      BY <2>1, <2>5
    <3> HIDE DEF f
    <3>4. /\ patterns' \in Seq(Pattern) /\ Len(patterns') = Len(s)
          /\ \A j \in 1 .. Len(s) : patterns'[j] = IF j = f THEN r ELSE s[j]
      <4> HIDE DEF r
      <4> QED BY <1>1, <2>1, <3>1, <3>2, ExceptSeq
    <3>5. \A j \in 1 .. Len(s) : CombiCost(s[j], p) \in {0, 1} => f <= j
      BY <2>1 DEF Near, p
    <3>6. /\ \A x \in Addr : SeqCovers(patterns', x) => SeqCovers(s, x) \/ x = a
          /\ error_mode = "MEMMAP" => Ordered(patterns') /\ Intervals(patterns')
      BY <1>1, <1>5, <2>1, <3>3, <3>4, <3>5, ExtendTight DEF p
    <3>7. Len(patterns') <= Cardinality(faults')
      BY <1>1, <1>3, <1>5, <2>3, <3>4
    <3>8. ASSUME Cardinality(faults') <= MaxPatterns, NEW x \in Addr, SeqCovers(patterns', x)
          PROVE  x \in faults \cup {a}
      <4>1. Cardinality(faults) <= MaxPatterns BY <1>3, <2>3, <3>8, PatternsAssumption
      <4> QED BY <1>5, <3>6, <3>8, <4>1
    <3> QED BY <3>6, <3>7, <3>8
  <2> QED BY <2>4, <2>5
<1> QED BY <1>6, <1>7

\* While the faulty addresses fit into the table nothing else is reported, and the
\* regions stay sorted (badram_insert, insert_sorted, merge by cheapest_pair).
THEOREM TightCorrect == Spec => []TableTight
<1>1. Init => TightInv
  <2> SUFFICES ASSUME Init PROVE TightInv OBVIOUS
  <2>1. TypeOK /\ AllCaptured
    BY PatternsAssumption, ModesAssumption, EmptySeq DEF Init, TypeOK, AllCaptured
  <2>2. patterns = <<>> /\ Len(patterns) = 0 /\ faults = {} BY EmptySeq DEF Init
  <2>3. Cardinality(faults) = 0 BY <2>2, FS_EmptySet
  <2> QED BY <2>1, <2>2, <2>3 DEF TightInv, Exact, Ordered, Intervals
<1>2. TightInv /\ [Next]_vars => TightInv'
  <2> SUFFICES ASSUME TightInv, [Next]_vars PROVE TightInv'
    OBVIOUS
  <2>1. CASE UNCHANGED vars
    BY <2>1 DEF vars, TightInv, TypeOK, AllCaptured, Exact, Ordered, Intervals, Covers,
                Pattern, Addr, Bit
  <2>2. CASE Clear
    <3>1. patterns' = <<>> /\ Len(patterns') = 0 /\ faults' = {} /\ error_mode' \in Mode
      BY <2>2, ModesAssumption, EmptySeq DEF Clear
    <3>2. Cardinality(faults') = 0 BY <3>1, FS_EmptySet
    <3>3. TypeOK'
      BY <3>1, PatternsAssumption, EmptySeq DEF TypeOK
    <3>4. AllCaptured' /\ Exact' BY <3>1 DEF AllCaptured, Exact
    <3>5. (Ordered(patterns) /\ Intervals(patterns))' BY <3>1 DEF Ordered, Intervals
    <3>6. Len(patterns') <= Cardinality(faults') BY <3>1, <3>2
    <3> QED BY <3>3, <3>4, <3>5, <3>6 DEF TightInv
  <2>3. CASE \E a \in Addr : Insert(a)
    BY <2>3, InsertTight
  <2> QED BY <2>1, <2>2, <2>3 DEF Next
<1>3. TightInv => TableTight
  <2> SUFFICES ASSUME TightInv PROVE TableTight OBVIOUS
  <2>1. Exact BY DEF TightInv
  <2>2. ASSUME error_mode = "MEMMAP" PROVE Sorted
    <3> SUFFICES ASSUME NEW i \in 1 .. Len(patterns) - 1
                 PROVE  Val(patterns[i].addr) <= Val(patterns[i + 1].addr)
      BY DEF Sorted
    <3>1. Len(patterns) \in Nat BY LenProperties DEF TightInv, TypeOK
    <3>2. i \in 1 .. Len(patterns) /\ i + 1 \in 1 .. Len(patterns) /\ i < i + 1 BY <3>1
    <3>3. patterns[i] \in Pattern /\ patterns[i + 1] \in Pattern
      BY <3>2, ElementOfSeq DEF TightInv, TypeOK
    <3>4. Val(patterns[i].addr) \in Nat /\ Val(patterns[i + 1].addr) \in Nat
      BY <3>3, ValNat DEF Pattern
    <3>5. Val(patterns[i].addr) < Val(patterns[i + 1].addr)
      BY <2>2, <3>2 DEF TightInv, Ordered
    <3> QED BY <3>4, <3>5
  <2> QED BY <2>1, <2>2 DEF TableTight, SortedRegions
<1> QED BY <1>1, <1>2, <1>3, PTL DEF Spec
=============================================================================
