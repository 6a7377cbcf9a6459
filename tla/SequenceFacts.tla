--------------------------- MODULE SequenceFacts ----------------------------
(***************************************************************************)
(* What filters, sorts and flattened sequences hold, for every set, order  *)
(* and sequence: the facts the proofs about books and their extraction     *)
(* rest on.                                                                *)
(***************************************************************************)
EXTENDS Places, SequencesExt, FiniteSetTheorems, SequenceTheorems, TLAPS

-----------------------------------------------------------------------------
(* The least number *)

Below == {p \in Nat \X Nat : p[1] < p[2]}

LEMMA BelowIsWellFounded == IsWellFoundedOn(Below, Nat)
<1>1. OpToRel(<, Nat) = Below
  BY DEF OpToRel, Below
<1> QED
  BY <1>1, NatLessThanWellFounded

\* Every set of numbers has a least one: what is proved by induction below is
\* proved by taking the least number for which it fails.
LEMMA LeastNumber ==
  ASSUME NEW S \in SUBSET Nat, S # {}
  PROVE  \E x \in S : \A y \in S : x <= y
<1>1. PICK x \in S : \A y \in S : <<y, x>> \notin Below
  BY BelowIsWellFounded, WFMin
<1>2. \A y \in S : ~(y < x)
  BY <1>1 DEF Below
<1> QED
  BY <1>2

-----------------------------------------------------------------------------
(* The members of a set in order *)

\* A set of pairs that puts the members of S one before the other
Orders(before, S) ==
  /\ \A x \in S : <<x, x>> \notin before
  /\ \A x, y, z \in S : <<x, y>> \in before /\ <<y, z>> \in before => <<x, z>> \in before
  /\ \A x, y \in S : x = y \/ <<x, y>> \in before \/ <<y, x>> \in before

Before(S, before, x) == {y \in S : <<y, x>> \in before}

\* What stands before a member is less than all, and less than what stands before
\* a later one.
LEMMA RankIs ==
  ASSUME NEW S, IsFiniteSet(S), NEW before, Orders(before, S)
  PROVE  /\ \A x \in S : Cardinality(Before(S, before, x)) \in 0..(Cardinality(S) - 1)
         /\ \A x, y \in S : <<x, y>> \in before =>
              Cardinality(Before(S, before, x)) < Cardinality(Before(S, before, y))
<1> DEFINE B(x) == Before(S, before, x)
<1>1. \A x \in S : /\ B(x) \subseteq S /\ x \notin B(x)
                   /\ IsFiniteSet(B(x))
  BY FS_Subset DEF Before, Orders
<1>2. ASSUME NEW x \in S PROVE Cardinality(B(x)) \in 0..(Cardinality(S) - 1)
  <2>1. Cardinality(B(x)) \in Nat /\ Cardinality(S) \in Nat
    BY <1>1, FS_CardinalityType
  <2>2. Cardinality(B(x)) <= Cardinality(S) /\ (Cardinality(B(x)) = Cardinality(S) => B(x) = S)
    <3> HIDE DEF B
    <3> QED BY <1>1, FS_Subset
  <2>3. B(x) # S
    BY <1>1
  <2> HIDE DEF B
  <2> QED
    BY <2>1, <2>2, <2>3
<1>3. ASSUME NEW x \in S, NEW y \in S, <<x, y>> \in before
      PROVE  Cardinality(B(x)) < Cardinality(B(y))
  <2>1. B(x) \subseteq B(y) /\ x \in B(y) /\ x \notin B(x)
    BY <1>3 DEF Orders, Before
  <2>2. IsFiniteSet(B(y)) /\ IsFiniteSet(B(x))
    BY <1>1
  <2> HIDE DEF B
  <2>3. Cardinality(B(x)) \in Nat /\ Cardinality(B(y)) \in Nat
    BY <2>2, FS_CardinalityType
  <2>4. Cardinality(B(x)) <= Cardinality(B(y)) /\ (Cardinality(B(x)) = Cardinality(B(y)) => B(x) = B(y))
    BY <2>1, <2>2, FS_Subset
  <2> QED
    BY <2>1, <2>3, <2>4
<1> QED
  BY <1>2, <1>3

\* Ranked lists the members of the set, each once, in the order.
LEMMA RankedIs ==
  ASSUME NEW S, IsFiniteSet(S), NEW before, Orders(before, S)
  PROVE  /\ Cardinality(S) \in Nat
         /\ Ranked(S, before) \in [1..Cardinality(S) -> S]
         /\ \A x \in S : \E n \in 1..Cardinality(S) : Ranked(S, before)[n] = x
         /\ \A m, n \in 1..Cardinality(S) :
              m < n => <<Ranked(S, before)[m], Ranked(S, before)[n]>> \in before
<1> DEFINE N == Cardinality(S)
           rank(x) == Cardinality(Before(S, before, x))
           list == Ranked(S, before)
<1>1. N \in Nat
  BY FS_CardinalityType
<1>2. /\ \A x \in S : rank(x) \in 0..(N - 1)
      /\ \A x, y \in S : <<x, y>> \in before => rank(x) < rank(y)
  BY RankIs
<1>3. list = [n \in 1..N |-> CHOOSE x \in S : rank(x) = n - 1]
  BY DEF Ranked, Before
<1> HIDE DEF rank, list, N
<1>4. \A x, y \in S : rank(x) = rank(y) => x = y
  <2>1. ASSUME NEW x \in S, NEW y \in S, rank(x) = rank(y), x # y PROVE FALSE
    <3>1. <<x, y>> \in before \/ <<y, x>> \in before
      BY <2>1 DEF Orders
    <3>2. rank(x) \in Nat /\ rank(y) \in Nat
      BY <1>2
    <3> QED
      BY <1>2, <2>1, <3>1, <3>2
  <2> QED
    BY <2>1
<1>5. \A n \in 1..N : \E x \in S : rank(x) = n - 1
  <2> DEFINE place == [x \in S |-> rank(x) + 1]
  <2>1. place \in [S -> 1..N]
    BY <1>1, <1>2
  <2>2. \A x, y \in S : place[x] = place[y] => x = y
    <3>1. ASSUME NEW x \in S, NEW y \in S, place[x] = place[y] PROVE x = y
      <4>1. rank(x) + 1 = rank(y) + 1 /\ rank(x) \in Nat /\ rank(y) \in Nat
        BY <3>1, <1>2
      <4> QED
        BY <4>1, <1>4
    <3> QED
      BY <3>1
  <2>3. place \in Injection(S, 1..N)
    <3> HIDE DEF place
    <3> QED
      BY <2>1, <2>2 DEF Injection, IsInjective
  <2>4. IsFiniteSet(1..N) /\ Cardinality(1..N) = N
    BY <1>1, FS_Interval
  <2>5. place \in Surjection(S, 1..N)
    <3> HIDE DEF place
    <3> QED
      BY <2>3, <2>4, FS_Injection DEF N
  <2>6. ASSUME NEW n \in 1..N PROVE \E x \in S : rank(x) = n - 1
    <3>1. PICK x \in S : place[x] = n
      <4> HIDE DEF place
      <4> QED
        BY <2>5 DEF Surjection
    <3>2. rank(x) + 1 = n /\ rank(x) \in Nat
      BY <3>1, <1>2
    <3> QED
      BY <3>2
  <2> QED
    BY <2>6
<1>6. \A n \in 1..N : list[n] \in S /\ rank(list[n]) = n - 1
  BY <1>3, <1>5
<1>7. list \in [1..N -> S]
  BY <1>3, <1>6
<1>8. ASSUME NEW x \in S PROVE \E n \in 1..N : list[n] = x
  <2>1. rank(x) + 1 \in 1..N /\ rank(x) \in Nat
    BY <1>1, <1>2
  <2>2. rank(list[rank(x) + 1]) = rank(x) /\ list[rank(x) + 1] \in S
    BY <1>6, <2>1
  <2> QED
    BY <2>1, <2>2, <1>4
<1>9. ASSUME NEW m \in 1..N, NEW n \in 1..N, m < n PROVE <<list[m], list[n]>> \in before
  <2>1. rank(list[m]) = m - 1 /\ rank(list[n]) = n - 1 /\ list[m] \in S /\ list[n] \in S
    BY <1>6
  <2>2. list[m] # list[n] /\ ~(rank(list[n]) < rank(list[m]))
    BY <2>1, <1>9
  <2> QED
    BY <2>1, <2>2, <1>2 DEF Orders
<1> QED
  BY <1>1, <1>7, <1>8, <1>9 DEF N, list

\* InOrder lists the numbers of a set, each once, the smaller before the larger.
LEMMA InOrderIs ==
  ASSUME NEW S \in SUBSET Int, IsFiniteSet(S)
  PROVE  /\ Cardinality(S) \in Nat
         /\ InOrder(S) \in [1..Cardinality(S) -> S]
         /\ \A x \in S : \E n \in 1..Cardinality(S) : InOrder(S)[n] = x
         /\ \A m, n \in 1..Cardinality(S) : m < n <=> InOrder(S)[m] < InOrder(S)[n]
<1> DEFINE before == {p \in S \X S : p[1] < p[2]}
<1>1. \A x, y \in S : <<x, y>> \in before <=> x < y
  OBVIOUS
<1>2. Orders(before, S)
  <2> HIDE DEF before
  <2> QED
    BY <1>1 DEF Orders
<1>3. Ranked(S, before) = InOrder(S)
  <2>1. \A x \in S : {y \in S : <<y, x>> \in before} = {y \in S : y < x}
    BY <1>1
  <2> DEFINE left(n)  == CHOOSE x \in S : Cardinality({y \in S : <<y, x>> \in before}) = n - 1
             right(n) == CHOOSE x \in S : Cardinality({y \in S : y < x}) = n - 1
  <2>2. /\ Ranked(S, before) = [n \in 1..Cardinality(S) |-> left(n)]
        /\ InOrder(S) = [n \in 1..Cardinality(S) |-> right(n)]
    BY DEF Ranked, InOrder
  <2> HIDE DEF before
  <2>3. \A n \in 1..Cardinality(S) : left(n) = right(n)
    BY <2>1
  <2> HIDE DEF left, right
  <2> QED
    BY <2>2, <2>3
<1> HIDE DEF before
<1>4. /\ Cardinality(S) \in Nat
      /\ InOrder(S) \in [1..Cardinality(S) -> S]
      /\ \A x \in S : \E n \in 1..Cardinality(S) : InOrder(S)[n] = x
      /\ \A m, n \in 1..Cardinality(S) : m < n => <<InOrder(S)[m], InOrder(S)[n]>> \in before
  BY <1>2, <1>3, RankedIs
<1>5. ASSUME NEW m \in 1..Cardinality(S), NEW n \in 1..Cardinality(S)
      PROVE  m < n <=> InOrder(S)[m] < InOrder(S)[n]
  <2>1. InOrder(S)[m] \in Int /\ InOrder(S)[n] \in Int /\ m \in Int /\ n \in Int
    <3>1. InOrder(S)[m] \in S /\ InOrder(S)[n] \in S /\ Cardinality(S) \in Nat
      BY <1>4
    <3>2. \A x \in S : x \in Int
      OBVIOUS
    <3>3. InOrder(S)[m] \in Int
      BY <3>1, <3>2, Zenon
    <3>4. InOrder(S)[n] \in Int
      BY <3>1, <3>2, Zenon
    <3>5. m \in Int /\ n \in Int
      BY <3>1
    <3> QED
      BY <3>3, <3>4, <3>5
  <2>2. /\ m < n => InOrder(S)[m] < InOrder(S)[n]
        /\ n < m => InOrder(S)[n] < InOrder(S)[m]
        /\ m = n => InOrder(S)[m] = InOrder(S)[n]
    BY <1>1, <1>4
  <2> QED
    BY <2>1, <2>2
<1> QED
  BY <1>4, <1>5

-----------------------------------------------------------------------------
(* Sequences one after the other *)

LEMMA SequenceOf ==
  ASSUME NEW T, NEW n \in Nat, NEW f \in [1..n -> T]
  PROVE  f \in Seq(T) /\ Len(f) = n /\ DOMAIN f = 1..n
OBVIOUS

LEMMA SequenceIs ==
  ASSUME NEW T, NEW s \in Seq(T)
  PROVE  /\ Len(s) \in Nat /\ DOMAIN s = 1..Len(s) /\ s \in [1..Len(s) -> T]
         /\ \A i \in 1..Len(s) : s[i] \in T
OBVIOUS

LEMMA UpTo ==
  ASSUME NEW n \in Nat
  PROVE  IsFiniteSet(1..n) /\ Cardinality(1..n) = n
<1>1. 1 \in Int /\ n \in Int /\ (1 > n => n = 0)
  OBVIOUS
<1> QED
  BY <1>1, FS_Interval

LEMMA OneAfterTheOther ==
  ASSUME NEW T, NEW s \in Seq(T), NEW t \in Seq(T)
  PROVE  /\ s \o t \in Seq(T) /\ Len(s \o t) = Len(s) + Len(t)
         /\ DOMAIN (s \o t) = 1..(Len(s) + Len(t))
         /\ \A i \in 1..Len(s) : (s \o t)[i] = s[i]
         /\ \A i \in (Len(s) + 1)..(Len(s) + Len(t)) : (s \o t)[i] = t[i - Len(s)]
OBVIOUS

LEMMA SubSeqIs ==
  ASSUME NEW T, NEW s \in Seq(T), NEW a \in 1..(Len(s) + 1), NEW b \in 0..Len(s), a <= b + 1
  PROVE  /\ SubSeq(s, a, b) \in Seq(T) /\ Len(SubSeq(s, a, b)) = b - a + 1
         /\ \A i \in 1..(b - a + 1) : SubSeq(s, a, b)[i] = s[a + i - 1]
         /\ SubSeq(s, a, b) = [i \in 1..(b - a + 1) |-> s[a + i - 1]]
OBVIOUS

LEMMA SubSeqWhole ==
  ASSUME NEW T, NEW s \in Seq(T)
  PROVE  SubSeq(s, 1, Len(s)) = s
OBVIOUS

LEMMA SubSeqJoined ==
  ASSUME NEW T, NEW s \in Seq(T), NEW a \in 0..Len(s), NEW b \in a..Len(s)
  PROVE  SubSeq(s, 1, a) \o SubSeq(s, a + 1, b) = SubSeq(s, 1, b)
<1> DEFINE left == SubSeq(s, 1, a)  right == SubSeq(s, a + 1, b)  all == SubSeq(s, 1, b)
<1>1. Len(s) \in Nat /\ a \in Int /\ b \in Int /\ 0 <= a /\ a <= b /\ b <= Len(s)
  OBVIOUS
<1>2. left \in Seq(T) /\ Len(left) = a /\ \A i \in 1..a : left[i] = s[i]
  OBVIOUS
<1>3. right \in Seq(T) /\ Len(right) = b - a /\ \A i \in 1..(b - a) : right[i] = s[a + i]
  BY <1>1
<1>4. all \in Seq(T) /\ Len(all) = b /\ \A i \in 1..b : all[i] = s[i]
  BY <1>1
<1> HIDE DEF left, right, all
<1>5. /\ left \o right \in Seq(T) /\ Len(left \o right) = b
      /\ \A i \in 1..a : (left \o right)[i] = left[i]
      /\ \A i \in (a + 1)..b : (left \o right)[i] = right[i - a]
  <2>1. /\ left \o right \in Seq(T) /\ Len(left \o right) = Len(left) + Len(right)
        /\ \A i \in 1..Len(left) : (left \o right)[i] = left[i]
        /\ \A i \in (Len(left) + 1)..(Len(left) + Len(right)) : (left \o right)[i] = right[i - Len(left)]
    <3>1. left \in Seq(T) /\ right \in Seq(T)
      BY <1>2, <1>3
    <3> QED
      BY <3>1, OneAfterTheOther
  <2>2. Len(left) + Len(right) = b
    BY <1>1, <1>2, <1>3
  <2> QED
    BY <1>2, <2>1, <2>2
<1>6. ASSUME NEW i \in 1..b PROVE (left \o right)[i] = all[i]
  <2>1. CASE i <= a
    BY <1>1, <1>2, <1>4, <1>5, <2>1
  <2>2. CASE i > a
    <3>1. i \in (a + 1)..b /\ i - a \in 1..(b - a) /\ a + (i - a) = i
      BY <1>1, <2>2
    <3> QED
      BY <1>3, <1>4, <1>5, <3>1
  <2>3. i <= a \/ i > a
    BY <1>1
  <2> QED
    BY <2>1, <2>2, <2>3
<1>7. \A q, r \in Seq(T) : Len(q) = Len(r) /\ (\A i \in 1..Len(q) : q[i] = r[i]) => q = r
  OBVIOUS
<1> QED
  BY <1>4, <1>5, <1>6, <1>7

-----------------------------------------------------------------------------
(* A sequence of sequences, flattened *)

Joined(f, seqs, n) == f = [i \in 1..n |-> IF i = 1 THEN seqs[i] ELSE f[i - 1] \o seqs[i]]

LEMMA JoinedExists ==
  ASSUME NEW seqs, NEW n \in Nat
  PROVE  \E f : Joined(f, seqs, n)
<1> DEFINE Bad == {k \in 0..n : ~\E f : Joined(f, seqs, k)}
<1> SUFFICES ASSUME Bad # {} PROVE FALSE
  <2>1. n \in 0..n
    OBVIOUS
  <2> QED
    BY <2>1
<1>1. PICK k \in Bad : \A l \in Bad : k <= l
  <2>1. Bad \in SUBSET Nat
    OBVIOUS
  <2> QED
    BY <2>1, LeastNumber
<1>2. k \in 0..n /\ ~\E f : Joined(f, seqs, k)
  BY <1>1
<1>3. k # 0
  <2>1. Joined([i \in 1..0 |-> seqs[i]], seqs, 0)
    BY DEF Joined
  <2> QED
    BY <1>2, <2>1
<1>4. k - 1 \in 0..n /\ ~(k <= k - 1)
  BY <1>2, <1>3
<1>5. PICK f : Joined(f, seqs, k - 1)
  BY <1>1, <1>4
<1> DEFINE g == [i \in 1..k |-> IF i = k THEN IF i = 1 THEN seqs[i] ELSE f[i - 1] \o seqs[i] ELSE f[i]]
<1>6. \A i \in 1..k : i # k => g[i] = f[i] /\ i \in 1..(k - 1)
  BY <1>2
<1>7. g[k] = IF k = 1 THEN seqs[k] ELSE f[k - 1] \o seqs[k]
  BY <1>2, <1>3
<1>8. g = [i \in 1..k |-> g[i]]
  OBVIOUS
<1> HIDE DEF g
<1>9. ASSUME NEW i \in 1..k PROVE g[i] = IF i = 1 THEN seqs[i] ELSE g[i - 1] \o seqs[i]
  <2>1. i # 1 => i - 1 \in 1..k /\ i - 1 # k /\ g[i - 1] = f[i - 1]
    BY <1>2, <1>6
  <2>2. CASE i = k
    BY <1>7, <2>1, <2>2
  <2>3. CASE i # k
    <3>1. f[i] = IF i = 1 THEN seqs[i] ELSE f[i - 1] \o seqs[i]
      BY <1>5, <1>6, <2>3 DEF Joined
    <3> QED
      BY <1>6, <2>1, <2>3, <3>1
  <2> QED
    BY <2>2, <2>3
<1>10. Joined(g, seqs, k)
  BY <1>8, <1>9 DEF Joined
<1> QED
  BY <1>2, <1>10

LEMMA FlattenIs ==
  ASSUME NEW seqs, Len(seqs) \in Nat \ {0}
  PROVE  \E f : Joined(f, seqs, Len(seqs)) /\ FlattenSeq(seqs) = f[Len(seqs)]
<1> DEFINE f == CHOOSE f : Joined(f, seqs, Len(seqs))
<1>1. Joined(f, seqs, Len(seqs))
  BY JoinedExists
<1>2. FlattenSeq(seqs) = f[Len(seqs)]
  BY DEF FlattenSeq, Joined
<1> QED
  BY <1>1, <1>2

\* The elements of flat are those of the first n sequences, one sequence after
\* the other: the i-th is the one at place[i] of the sequence part[i].
Laid(part, place, flat, seqs, n) ==
  /\ part \in [1..Len(flat) -> 1..n] /\ place \in [1..Len(flat) -> Nat]
  /\ \A i \in 1..Len(flat) : /\ place[i] \in 1..Len(seqs[part[i]])
                             /\ flat[i] = seqs[part[i]][place[i]]
  /\ \A p \in 1..n : \A k \in 1..Len(seqs[p]) :
       \E i \in 1..Len(flat) : part[i] = p /\ place[i] = k
  /\ \A i, j \in 1..Len(flat) : i < j =>
       part[i] < part[j] \/ (part[i] = part[j] /\ place[i] < place[j])

LEMMA LaidMore ==
  ASSUME NEW T, NEW seqs \in Seq(Seq(T)), NEW n \in Nat, n < Len(seqs),
         NEW flat \in Seq(T), NEW part, NEW place, Laid(part, place, flat, seqs, n)
  PROVE  /\ flat \o seqs[n + 1] \in Seq(T)
         /\ \E pa, pl : Laid(pa, pl, flat \o seqs[n + 1], seqs, n + 1)
<1> DEFINE next == seqs[n + 1]
           L == Len(flat)
           M == Len(next)
           long == flat \o next
           pa == [i \in 1..(L + M) |-> IF i <= L THEN part[i] ELSE n + 1]
           pl == [i \in 1..(L + M) |-> IF i <= L THEN place[i] ELSE i - L]
<1>1. next \in Seq(T) /\ L \in Nat /\ M \in Nat
  <2>1. n + 1 \in 1..Len(seqs)
    OBVIOUS
  <2> QED
    BY <2>1
<1>2. /\ long \in Seq(T) /\ Len(long) = L + M
      /\ \A i \in 1..L : long[i] = flat[i]
      /\ \A i \in (L + 1)..(L + M) : long[i] = next[i - L]
  <2> HIDE DEF next
  <2> QED
    BY <1>1
<1>3. /\ part \in [1..L -> 1..n] /\ place \in [1..L -> Nat]
      /\ \A i \in 1..L : place[i] \in 1..Len(seqs[part[i]]) /\ flat[i] = seqs[part[i]][place[i]]
      /\ \A p \in 1..n : \A k \in 1..Len(seqs[p]) : \E i \in 1..L : part[i] = p /\ place[i] = k
      /\ \A i, j \in 1..L : i < j =>
           part[i] < part[j] \/ (part[i] = part[j] /\ place[i] < place[j])
  BY DEF Laid
<1>4. /\ \A i \in 1..L : pa[i] = part[i] /\ pl[i] = place[i]
      /\ \A i \in (L + 1)..(L + M) : pa[i] = n + 1 /\ pl[i] = i - L
      /\ pa = [i \in 1..(L + M) |-> pa[i]] /\ pl = [i \in 1..(L + M) |-> pl[i]]
  <2> HIDE DEF L, M
  <2> QED
    BY <1>1
<1> HIDE DEF next, long, L, M, pa, pl
<1>5. pa \in [1..(L + M) -> 1..(n + 1)] /\ pl \in [1..(L + M) -> Nat]
  <2>1. \A i \in 1..(L + M) : i \in 1..L \/ i \in (L + 1)..(L + M)
    BY <1>1
  <2>2. ASSUME NEW i \in 1..(L + M) PROVE pa[i] \in 1..(n + 1) /\ pl[i] \in Nat
    <3>1. CASE i \in 1..L
      <4>1. pa[i] = part[i] /\ pl[i] = place[i] /\ part[i] \in 1..n /\ place[i] \in Nat
        BY <1>3, <1>4, <3>1
      <4> QED
        BY <4>1
    <3>2. CASE i \in (L + 1)..(L + M)
      <4>1. pa[i] = n + 1 /\ pl[i] = i - L
        BY <1>4, <3>2
      <4> QED
        BY <1>1, <3>2, <4>1
    <3> QED
      BY <2>1, <3>1, <3>2
  <2> QED
    BY <1>4, <2>2
<1>6. ASSUME NEW i \in 1..(L + M)
      PROVE  pl[i] \in 1..Len(seqs[pa[i]]) /\ long[i] = seqs[pa[i]][pl[i]]
  <2>1. CASE i \in 1..L
    BY <1>2, <1>3, <1>4, <2>1
  <2>2. CASE i \in (L + 1)..(L + M)
    <3>1. pa[i] = n + 1 /\ pl[i] = i - L /\ long[i] = next[i - L]
      BY <1>2, <1>4, <2>2
    <3>2. i - L \in 1..M
      BY <1>1, <2>2
    <3> QED
      BY <3>1, <3>2 DEF next, M
  <2> QED
    BY <1>1, <2>1, <2>2
<1>7. ASSUME NEW p \in 1..(n + 1), NEW k \in 1..Len(seqs[p])
      PROVE  \E i \in 1..(L + M) : pa[i] = p /\ pl[i] = k
  <2>1. CASE p \in 1..n
    <3>1. PICK i \in 1..L : part[i] = p /\ place[i] = k
      BY <1>3, <2>1
    <3>2. pa[i] = p /\ pl[i] = k
      BY <1>4, <3>1
    <3>3. i \in 1..(L + M)
      BY <1>1
    <3> QED
      BY <3>2, <3>3
  <2>2. CASE p = n + 1
    <3>1. k \in 1..M
      BY <2>2 DEF next, M
    <3>2. k + L \in (L + 1)..(L + M) /\ (k + L) - L = k /\ k + L \in 1..(L + M)
      BY <1>1, <3>1
    <3>3. pa[k + L] = p /\ pl[k + L] = k
      BY <1>4, <2>2, <3>2
    <3> QED
      BY <3>2, <3>3
  <2> QED
    BY <2>1, <2>2
<1>8. ASSUME NEW i \in 1..(L + M), NEW j \in 1..(L + M), i < j
      PROVE  pa[i] < pa[j] \/ (pa[i] = pa[j] /\ pl[i] < pl[j])
  <2>1. CASE j \in 1..L
    <3>1. i \in 1..L
      BY <1>1, <1>8, <2>1
    <3>2. pa[i] = part[i] /\ pa[j] = part[j] /\ pl[i] = place[i] /\ pl[j] = place[j]
      BY <1>4, <2>1, <3>1
    <3>3. part[i] < part[j] \/ (part[i] = part[j] /\ place[i] < place[j])
      BY <1>3, <1>8, <2>1, <3>1
    <3> QED
      BY <3>2, <3>3
  <2>2. CASE j \in (L + 1)..(L + M) /\ i \in 1..L
    <3>1. pa[j] = n + 1 /\ pa[i] \in 1..n
      BY <1>3, <1>4, <2>2
    <3> QED
      BY <3>1
  <2>3. CASE j \in (L + 1)..(L + M) /\ i \in (L + 1)..(L + M)
    <3>1. pa[j] = n + 1 /\ pa[i] = n + 1 /\ pl[i] = i - L /\ pl[j] = j - L
      BY <1>4, <2>3
    <3> QED
      BY <1>1, <1>8, <3>1
  <2> QED
    BY <1>1, <2>1, <2>2, <2>3
<1>9. Laid(pa, pl, long, seqs, n + 1)
  BY <1>2, <1>5, <1>6, <1>7, <1>8 DEF Laid
<1> QED
  BY <1>2, <1>9 DEF long, next

\* A flattened sequence lays out its sequences one after the other.
LEMMA FlattenPlaces ==
  ASSUME NEW T, NEW seqs \in Seq(Seq(T))
  PROVE  /\ FlattenSeq(seqs) \in Seq(T)
         /\ \E part, place : Laid(part, place, FlattenSeq(seqs), seqs, Len(seqs))
<1>1. CASE Len(seqs) = 0
  <2>1. seqs = <<>> /\ FlattenSeq(seqs) = <<>>
    BY <1>1 DEF FlattenSeq
  <2>2. Laid(<<>>, <<>>, <<>>, seqs, 0)
    BY DEF Laid
  <2>3. \E part, place : Laid(part, place, <<>>, seqs, 0)
    BY <2>2
  <2>4. <<>> \in Seq(T)
    OBVIOUS
  <2> QED
    BY <1>1, <2>1, <2>3, <2>4
<1>2. CASE Len(seqs) # 0
  <2>1. Len(seqs) \in Nat \ {0}
    BY <1>2
  <2>2. PICK f : Joined(f, seqs, Len(seqs)) /\ FlattenSeq(seqs) = f[Len(seqs)]
    BY <2>1, FlattenIs
  <2> DEFINE Good(n) == f[n] \in Seq(T) /\ \E part, place : Laid(part, place, f[n], seqs, n)
             Bad == {n \in 1..Len(seqs) : ~Good(n)}
  <2>3. ASSUME Bad # {} PROVE FALSE
    <3>1. PICK n \in Bad : \A m \in Bad : n <= m
      <4>1. Bad \in SUBSET Nat
        OBVIOUS
      <4> HIDE DEF Bad
      <4> QED
        BY <2>3, <4>1, LeastNumber
    <3>2. n \in 1..Len(seqs) /\ ~Good(n)
      BY <3>1
    <3>3. f[n] = IF n = 1 THEN seqs[n] ELSE f[n - 1] \o seqs[n]
      BY <2>2, <3>2 DEF Joined
    <3>4. CASE n = 1
      <4>1. Laid(<<>>, <<>>, <<>>, seqs, 0) /\ <<>> \in Seq(T)
        BY DEF Laid
      <4>2. <<>> \o seqs[1] \in Seq(T) /\ \E pa, pl : Laid(pa, pl, <<>> \o seqs[1], seqs, 1)
        <5>1. 0 \in Nat /\ 0 < Len(seqs) /\ 0 + 1 = 1
          BY <2>1
        <5> QED
          BY <4>1, <5>1, LaidMore
      <4>3. <<>> \o seqs[1] = seqs[1]
        <5>1. seqs[1] \in Seq(T)
          BY <2>1
        <5> QED
          BY <5>1
      <4> QED
        BY <3>2, <3>3, <3>4, <4>2, <4>3
    <3>5. CASE n # 1
      <4>1. n - 1 \in Nat /\ n - 1 \in 1..Len(seqs) /\ n - 1 < Len(seqs) /\ (n - 1) + 1 = n /\ ~(n <= n - 1)
        BY <3>2, <3>5
      <4>2. Good(n - 1)
        BY <3>1, <4>1
      <4>3. PICK part, place : Laid(part, place, f[n - 1], seqs, n - 1)
        BY <4>2
      <4>4. f[n - 1] \o seqs[n] \in Seq(T) /\ \E pa, pl : Laid(pa, pl, f[n - 1] \o seqs[n], seqs, n)
        <5>1. f[n - 1] \in Seq(T)
          BY <4>2
        <5> HIDE DEF Good
        <5>2. /\ f[n - 1] \o seqs[(n - 1) + 1] \in Seq(T)
              /\ \E pa, pl : Laid(pa, pl, f[n - 1] \o seqs[(n - 1) + 1], seqs, (n - 1) + 1)
          BY <4>1, <4>3, <5>1, LaidMore
        <5> QED
          BY <4>1, <5>2
      <4> QED
        BY <3>2, <3>3, <3>5, <4>4
    <3> QED
      BY <3>4, <3>5
  <2>4. Good(Len(seqs))
    BY <2>1, <2>3
  <2> QED
    BY <2>2, <2>4
<1> QED
  BY <1>1, <1>2

-----------------------------------------------------------------------------
(* Sums *)

\* The sums of the first k steps, for every k up to n
Sums(sum, step, n) == sum = [k \in 0..n |-> IF k = 0 THEN 0 ELSE sum[k - 1] + step[k]]

LEMMA SumsExist ==
  ASSUME NEW step, NEW n \in Nat
  PROVE  \E sum : Sums(sum, step, n)
<1> DEFINE Bad == {k \in 0..n : ~\E f : Sums(f, step, k)}
<1> SUFFICES ASSUME Bad # {} PROVE FALSE
  <2>1. n \in 0..n
    OBVIOUS
  <2> QED
    BY <2>1
<1>1. PICK k \in Bad : \A l \in Bad : k <= l
  <2>1. Bad \in SUBSET Nat
    OBVIOUS
  <2> QED
    BY <2>1, LeastNumber
<1>2. k \in 0..n /\ ~\E f : Sums(f, step, k)
  BY <1>1
<1>3. k # 0
  <2> DEFINE f == [l \in 0..0 |-> 0]
  <2>1. f = [l \in 0..0 |-> IF l = 0 THEN 0 ELSE f[l - 1] + step[l]]
    OBVIOUS
  <2>2. Sums(f, step, 0)
    BY <2>1 DEF Sums
  <2> QED
    BY <1>2, <2>2
<1>4. k - 1 \in 0..n /\ ~(k <= k - 1)
  BY <1>2, <1>3
<1>5. PICK f : Sums(f, step, k - 1)
  BY <1>1, <1>4
<1> DEFINE g == [l \in 0..k |-> IF l = k THEN f[k - 1] + step[k] ELSE f[l]]
<1>6. \A l \in 0..k : l # k => g[l] = f[l] /\ l \in 0..(k - 1)
  BY <1>2
<1>7. g[k] = f[k - 1] + step[k]
  BY <1>2
<1>8. g = [l \in 0..k |-> g[l]]
  OBVIOUS
<1> HIDE DEF g
<1>9. ASSUME NEW l \in 0..k
      PROVE  g[l] = IF l = 0 THEN 0 ELSE g[l - 1] + step[l]
  <2>1. l # 0 => l - 1 \in 0..k /\ l - 1 # k /\ g[l - 1] = f[l - 1]
    BY <1>2, <1>6
  <2>2. CASE l = k
    BY <1>3, <1>7, <2>1, <2>2
  <2>3. CASE l # k
    <3>1. f[l] = IF l = 0 THEN 0 ELSE f[l - 1] + step[l]
      BY <1>5, <1>6, <2>3 DEF Sums
    <3> QED
      BY <1>6, <2>1, <2>3, <3>1
  <2> QED
    BY <2>2, <2>3
<1>10. Sums(g, step, k)
  BY <1>8, <1>9 DEF Sums
<1> QED
  BY <1>2, <1>10

\* What the sums of numbers are: each adds a step, and steps of nothing add nothing.
Growing(sum, step, n) ==
  /\ \A k \in 0..n : sum[k] \in Nat
  /\ \A k \in 1..n : sum[k] = sum[k - 1] + step[k]
  /\ \A i, j \in 0..n : i <= j => sum[i] <= sum[j]
  /\ \A i, j \in 0..n : i <= j /\ (\A k \in (i + 1)..j : step[k] = 0) => sum[i] = sum[j]

LEMMA SumsGrow ==
  ASSUME NEW n \in Nat, NEW step \in [1..n -> Nat], NEW sum, Sums(sum, step, n)
  PROVE  Growing(sum, step, n)
<1>1. /\ sum[0] = 0
      /\ \A k \in 1..n : sum[k] = sum[k - 1] + step[k]
      /\ \A k \in 1..n : step[k] \in Nat /\ k - 1 \in 0..n
  BY DEF Sums
<1>2. \A k \in 0..n : sum[k] \in Nat
  <2> DEFINE Bad == {k \in 0..n : sum[k] \notin Nat}
  <2> SUFFICES ASSUME Bad # {} PROVE FALSE
    OBVIOUS
  <2>1. PICK k \in Bad : \A l \in Bad : k <= l
    <3>1. Bad \in SUBSET Nat
      OBVIOUS
    <3> QED
      BY <3>1, LeastNumber
  <2>2. k \in 0..n /\ sum[k] \notin Nat
    BY <2>1
  <2>3. k \in 1..n /\ k - 1 \in 0..n /\ ~(k <= k - 1)
    BY <1>1, <2>2
  <2>4. sum[k - 1] \in Nat
    BY <2>1, <2>3
  <2> QED
    BY <1>1, <2>2, <2>3, <2>4
<1>3. ASSUME NEW i \in 0..n, NEW j \in 0..n, i <= j
      PROVE  /\ sum[i] <= sum[j]
             /\ (\A k \in (i + 1)..j : step[k] = 0) => sum[i] = sum[j]
  <2> DEFINE Good(l) == /\ sum[i] <= sum[l]
                        /\ (\A k \in (i + 1)..l : step[k] = 0) => sum[i] = sum[l]
             Bad == {l \in i..j : ~Good(l)}
  <2>1. ASSUME Bad # {} PROVE FALSE
    <3>1. PICK l \in Bad : \A m \in Bad : l <= m
      <4>1. Bad \in SUBSET Nat
        OBVIOUS
      <4> HIDE DEF Bad
      <4> QED
        BY <2>1, <4>1, LeastNumber
    <3>2. l \in i..j /\ ~Good(l)
      BY <3>1
    <3>3. l # i
      BY <1>2, <3>2
    <3>4. l - 1 \in i..j /\ ~(l <= l - 1) /\ l \in 1..n /\ l - 1 \in 0..n
      BY <3>2, <3>3
    <3>5. Good(l - 1)
      BY <3>1, <3>4
    <3>6. sum[l] = sum[l - 1] + step[l] /\ sum[l - 1] \in Nat /\ step[l] \in Nat /\ sum[i] \in Nat
      BY <1>1, <1>2, <3>4
    <3>7. sum[i] <= sum[l]
      BY <3>5, <3>6
    <3>8. ASSUME \A k \in (i + 1)..l : step[k] = 0 PROVE sum[i] = sum[l]
      <4>1. step[l] = 0 /\ \A k \in (i + 1)..(l - 1) : step[k] = 0
        BY <3>2, <3>3, <3>8
      <4> QED
        BY <3>5, <3>6, <4>1
    <3> QED
      BY <3>2, <3>7, <3>8
  <2>2. j \in i..j
    BY <1>3
  <2> QED
    BY <2>1, <2>2
<1> QED
  BY <1>1, <1>2, <1>3 DEF Growing

-----------------------------------------------------------------------------
(* Sequences that hold each element of a set once *)

Lists(seq, S) ==
  /\ seq \in Seq(S)
  /\ \A x \in S : \E i \in 1..Len(seq) : seq[i] = x
  /\ \A i, j \in 1..Len(seq) : seq[i] = seq[j] => i = j

LEMMA ListsIs ==
  ASSUME NEW S, NEW seq, Lists(seq, S)
  PROVE  /\ Len(seq) \in Nat /\ DOMAIN seq = 1..Len(seq)
         /\ \A i \in 1..Len(seq) : seq[i] \in S
         /\ S = {seq[i] : i \in 1..Len(seq)}
         /\ (S = {} => seq = <<>>)
<1>1. seq \in Seq(S)
  BY DEF Lists
<1>2. /\ Len(seq) \in Nat /\ DOMAIN seq = 1..Len(seq)
      /\ \A i \in 1..Len(seq) : seq[i] \in S
  BY <1>1, SequenceIs
<1>3. \A x \in S : \E i \in 1..Len(seq) : seq[i] = x
  BY DEF Lists
<1>4. S = {} => seq = <<>>
  BY <1>1
<1> QED
  BY <1>2, <1>3, <1>4

LEMMA ListsNothing == Lists(<<>>, {})
BY DEF Lists

\* What a filter keeps is listed as before.
LEMMA AtLists ==
  ASSUME NEW S, NEW seq, Lists(seq, S), NEW places \in SUBSET DOMAIN seq
  PROVE  Lists(At(seq, places), {seq[i] : i \in places})
<1> DEFINE N == Cardinality(places)
           kept == InOrder(places)
           K == {seq[i] : i \in places}
<1>1. /\ Len(seq) \in Nat /\ DOMAIN seq = 1..Len(seq)
      /\ \A i, j \in 1..Len(seq) : seq[i] = seq[j] => i = j
  BY ListsIs DEF Lists
<1>2. places \in SUBSET Int /\ IsFiniteSet(places)
  <2>1. IsFiniteSet(1..Len(seq)) /\ places \subseteq 1..Len(seq)
    BY <1>1, UpTo
  <2>2. IsFiniteSet(places)
    BY <2>1, FS_Subset
  <2> QED
    BY <2>1, <2>2
<1>3. /\ N \in Nat /\ kept \in [1..N -> places]
      /\ \A x \in places : \E n \in 1..N : kept[n] = x
      /\ \A m, n \in 1..N : m < n <=> kept[m] < kept[n]
  BY <1>2, InOrderIs
<1> HIDE DEF N, kept
<1>4. At(seq, places) = [n \in 1..N |-> seq[kept[n]]]
  BY <1>3 DEF At, kept
<1>5. At(seq, places) \in [1..N -> K]
  BY <1>3, <1>4
<1> HIDE DEF K
<1>6. At(seq, places) \in Seq(K) /\ Len(At(seq, places)) = N
  BY <1>3, <1>5, SequenceOf
<1>7. ASSUME NEW x \in K PROVE \E n \in 1..N : At(seq, places)[n] = x
  <2>1. PICK i \in places : x = seq[i]
    BY DEF K
  <2>2. PICK n \in 1..N : kept[n] = i
    BY <1>3
  <2> QED
    BY <1>4, <2>1, <2>2
<1>8. ASSUME NEW m \in 1..N, NEW n \in 1..N, At(seq, places)[m] = At(seq, places)[n]
      PROVE  m = n
  <2>1. seq[kept[m]] = seq[kept[n]] /\ kept[m] \in places /\ kept[n] \in places
    BY <1>3, <1>4, <1>8
  <2>2. kept[m] \in 1..Len(seq) /\ kept[n] \in 1..Len(seq)
    BY <1>1, <2>1
  <2>3. kept[m] = kept[n]
    BY <1>1, <2>1, <2>2
  <2>4. kept[m] \in Int /\ m \in Int /\ n \in Int
    BY <1>3, <2>2
  <2>5. ~(m < n) /\ ~(n < m)
    BY <1>3, <2>3, <2>4
  <2> QED
    BY <2>4, <2>5
<1> QED
  BY <1>6, <1>7, <1>8 DEF Lists, K

\* One listing after another, of other elements.
LEMMA JoinLists ==
  ASSUME NEW S, NEW R, NEW s, NEW t, Lists(s, S), Lists(t, R), S \cap R = {}
  PROVE  Lists(s \o t, S \cup R)
<1> DEFINE L == Len(s)  M == Len(t)  long == s \o t
<1>1. /\ L \in Nat /\ M \in Nat
      /\ \A i \in 1..L : s[i] \in S
      /\ \A i \in 1..M : t[i] \in R
      /\ \A x \in S : \E i \in 1..L : s[i] = x
      /\ \A x \in R : \E i \in 1..M : t[i] = x
      /\ \A i, j \in 1..L : s[i] = s[j] => i = j
      /\ \A i, j \in 1..M : t[i] = t[j] => i = j
  BY ListsIs DEF Lists
<1>2. s \in Seq(S \cup R) /\ t \in Seq(S \cup R)
  BY DEF Lists
<1>3. /\ long \in Seq(S \cup R) /\ Len(long) = L + M
      /\ \A i \in 1..L : long[i] = s[i]
      /\ \A i \in (L + 1)..(L + M) : long[i] = t[i - L]
  BY <1>2, OneAfterTheOther
<1> HIDE DEF long, L, M
<1>4. \A i \in 1..M : i + L \in (L + 1)..(L + M) /\ (i + L) - L = i
  BY <1>1
<1>5. \A i \in (L + 1)..(L + M) : i - L \in 1..M
  BY <1>1
<1>6. \A i \in 1..(L + M) : i \in 1..L \/ i \in (L + 1)..(L + M)
  BY <1>1
<1>7. 1..L \subseteq 1..(L + M) /\ (L + 1)..(L + M) \subseteq 1..(L + M)
  BY <1>1
<1>8. ASSUME NEW x \in S \cup R PROVE \E i \in 1..(L + M) : long[i] = x
  <2>1. CASE x \in S
    BY <1>1, <1>3, <1>7, <2>1
  <2>2. CASE x \in R
    <3>1. PICK i \in 1..M : t[i] = x
      BY <1>1, <2>2
    <3>2. i + L \in (L + 1)..(L + M) /\ long[i + L] = x
      BY <1>3, <1>4, <3>1
    <3> QED
      BY <1>7, <3>2
  <2> QED
    BY <2>1, <2>2
<1>9. ASSUME NEW i \in 1..(L + M), NEW j \in 1..(L + M), long[i] = long[j] PROVE i = j
  <2>1. \A k \in 1..L : long[k] \in S
    BY <1>1, <1>3
  <2>2. \A k \in (L + 1)..(L + M) : long[k] \in R
    BY <1>1, <1>3, <1>5
  <2>3. CASE i \in 1..L /\ j \in 1..L
    BY <1>1, <1>3, <1>9, <2>3
  <2>4. CASE i \in (L + 1)..(L + M) /\ j \in (L + 1)..(L + M)
    <3>1. i - L = j - L
      BY <1>1, <1>3, <1>5, <1>9, <2>4
    <3> QED
      BY <1>1, <2>4, <3>1
  <2> QED
    BY <1>6, <1>9, <2>1, <2>2, <2>3, <2>4
<1> QED
  BY <1>3, <1>8, <1>9 DEF Lists, long

\* Listings of sets that have nothing in common
ListParts(seqs, parts) ==
  /\ \A p \in 1..Len(seqs) : Lists(seqs[p], parts[p])
  /\ \A p, q \in 1..Len(seqs) : p # q => parts[p] \cap parts[q] = {}

\* Flattened they list what is in any of the sets.
LEMMA FlattenLists ==
  ASSUME NEW T, NEW seqs \in Seq(Seq(T)), NEW parts, ListParts(seqs, parts),
         NEW all, all = UNION {parts[p] : p \in 1..Len(seqs)}
  PROVE  Lists(FlattenSeq(seqs), all)
<1> DEFINE flat == FlattenSeq(seqs)
           N == Len(seqs)
           L == Len(flat)
<1>1. flat \in Seq(T) /\ \E part, place : Laid(part, place, flat, seqs, N)
  BY FlattenPlaces
<1>2. L \in Nat /\ DOMAIN flat = 1..L /\ flat \in [1..L -> T]
  <2> HIDE DEF flat
  <2> QED
    BY <1>1, SequenceIs
<1>3. PICK part, place : Laid(part, place, flat, seqs, N)
  BY <1>1
<1> HIDE DEF flat
<1>4. /\ \A i \in 1..L : /\ part[i] \in 1..N /\ place[i] \in 1..Len(seqs[part[i]])
                         /\ flat[i] = seqs[part[i]][place[i]]
      /\ \A p \in 1..N : \A k \in 1..Len(seqs[p]) : \E i \in 1..L : part[i] = p /\ place[i] = k
      /\ \A i, j \in 1..L : i < j => part[i] < part[j] \/ (part[i] = part[j] /\ place[i] < place[j])
  BY <1>3 DEF Laid
<1> HIDE DEF N, L
<1>5. /\ \A p \in 1..N : Lists(seqs[p], parts[p])
      /\ \A p, q \in 1..N : p # q => parts[p] \cap parts[q] = {}
  BY DEF N, ListParts
<1>6. all = UNION {parts[p] : p \in 1..N}
  BY DEF N
<1>7. ASSUME NEW i \in 1..L PROVE flat[i] \in parts[part[i]]
  <2>1. Lists(seqs[part[i]], parts[part[i]])
    BY <1>4, <1>5
  <2>2. \A k \in 1..Len(seqs[part[i]]) : seqs[part[i]][k] \in parts[part[i]]
    BY <2>1, ListsIs
  <2> QED
    BY <1>4, <2>2
<1>8. flat \in Seq(all)
  <2>1. ASSUME NEW i \in 1..L PROVE flat[i] \in all
    <3>1. part[i] \in 1..N /\ flat[i] \in parts[part[i]]
      BY <1>4, <1>7
    <3> QED
      BY <1>6, <3>1
  <2>2. flat = [i \in 1..L |-> flat[i]]
    BY <1>2
  <2>3. flat \in [1..L -> all]
    BY <2>1, <2>2
  <2> QED
    BY <1>2, <2>3, SequenceOf
<1>9. ASSUME NEW x \in all PROVE \E i \in 1..L : flat[i] = x
  <2>1. PICK p \in 1..N : x \in parts[p]
    BY <1>6
  <2>2. PICK k \in 1..Len(seqs[p]) : seqs[p][k] = x
    BY <1>5, <2>1 DEF Lists
  <2>3. PICK i \in 1..L : part[i] = p /\ place[i] = k
    BY <1>4
  <2> QED
    BY <1>4, <2>2, <2>3
<1>10. ASSUME NEW i \in 1..L, NEW j \in 1..L, flat[i] = flat[j] PROVE i = j
  <2>1. part[i] = part[j]
    BY <1>4, <1>5, <1>7, <1>10
  <2>2. place[i] = place[j]
    <3>1. Lists(seqs[part[i]], parts[part[i]])
      BY <1>4, <1>5
    <3>2. place[i] \in 1..Len(seqs[part[i]]) /\ place[j] \in 1..Len(seqs[part[i]])
      BY <1>4, <2>1
    <3>3. seqs[part[i]][place[i]] = seqs[part[i]][place[j]]
      BY <1>4, <1>10, <2>1
    <3> QED
      BY <3>1, <3>2, <3>3 DEF Lists
  <2>3. part[i] \in Int /\ part[j] \in Int /\ place[i] \in Int /\ place[j] \in Int /\ i \in Int /\ j \in Int
    <3>1. \A k \in 1..L : part[k] \in Int /\ k \in Int
      BY <1>4
    <3>2. \A k \in 1..L : place[k] \in Int
      BY <1>4
    <3> QED
      BY <3>1, <3>2
  <2>4. ~(i < j)
    BY <1>4, <2>1, <2>2, <2>3
  <2>5. ~(j < i)
    BY <1>4, <2>1, <2>2, <2>3
  <2> QED
    BY <2>3, <2>4, <2>5
<1> QED
  BY <1>8, <1>9, <1>10 DEF Lists, L, N, flat

\* Sequences that hold each element once, and none that another holds
EachOnce(seqs, n) ==
  /\ seqs = [p \in 1..n |-> seqs[p]]
  /\ \A p \in 1..n : Lists(seqs[p], ToSet(seqs[p]))
  /\ \A p, q \in 1..n : p # q => ToSet(seqs[p]) \cap ToSet(seqs[q]) = {}

LEMMA ListsItself ==
  ASSUME NEW S, NEW seq, Lists(seq, S)
  PROVE  ToSet(seq) = S /\ Lists(seq, ToSet(seq))
BY ListsIs DEF ToSet

LEMMA EachOnceIs ==
  ASSUME NEW n \in Nat, NEW seqs, EachOnce(seqs, n)
  PROVE  /\ seqs \in Seq(Seq(UNION {ToSet(seqs[p]) : p \in 1..n}))
         /\ Len(seqs) = n /\ DOMAIN seqs = 1..n
<1> DEFINE T == UNION {ToSet(seqs[p]) : p \in 1..n}
<1>1. ASSUME NEW p \in 1..n PROVE seqs[p] \in Seq(T)
  <2>1. seqs[p] \in Seq(ToSet(seqs[p]))
    BY DEF EachOnce, Lists
  <2>2. ToSet(seqs[p]) \subseteq T
    OBVIOUS
  <2> HIDE DEF T
  <2> QED
    BY <2>1, <2>2
<1> HIDE DEF T
<1>2. seqs = [p \in 1..n |-> seqs[p]]
  BY DEF EachOnce
<1>3. seqs \in [1..n -> Seq(T)]
  BY <1>1, <1>2
<1>4. seqs \in Seq(Seq(T)) /\ Len(seqs) = n /\ DOMAIN seqs = 1..n
  BY <1>3, SequenceOf
<1> QED
  BY <1>4 DEF T

LEMMA FlattenOnce ==
  ASSUME NEW n \in Nat, NEW seqs, EachOnce(seqs, n)
  PROVE  Lists(FlattenSeq(seqs), UNION {ToSet(seqs[p]) : p \in 1..n})
<1> DEFINE T == UNION {ToSet(seqs[p]) : p \in 1..n}
           parts == [p \in 1..n |-> ToSet(seqs[p])]
<1>1. seqs \in Seq(Seq(T)) /\ Len(seqs) = n
  BY EachOnceIs
<1>2. ListParts(seqs, parts)
  BY <1>1 DEF EachOnce, ListParts
<1>3. UNION {parts[p] : p \in 1..Len(seqs)} = T
  BY <1>1
<1> HIDE DEF T, parts
<1>4. Lists(FlattenSeq(seqs), T)
  BY <1>1, <1>2, <1>3, FlattenLists
<1> QED
  BY <1>4 DEF T

\* A listing cut into pieces that have nothing in common, and cover it.
LEMMA SubLists ==
  ASSUME NEW S, NEW seq, Lists(seq, S), NEW m \in 1..(Len(seq) + 1), NEW n \in 0..Len(seq)
  PROVE  Lists(SubSeq(seq, m, n), {seq[i] : i \in m..n})
<1> DEFINE P == {seq[i] : i \in m..n}
           L == IF m <= n THEN n - m + 1 ELSE 0
           sub == SubSeq(seq, m, n)
<1>1. /\ seq \in Seq(S) /\ Len(seq) \in Nat /\ m \in Int /\ n \in Int
      /\ \A i, j \in 1..Len(seq) : seq[i] = seq[j] => i = j
  BY ListsIs DEF Lists
<1>2. L \in Nat /\ \A i \in 1..L : m + i - 1 \in m..n /\ m + i - 1 \in 1..Len(seq)
  BY <1>1
<1>3. sub = [i \in 1..L |-> seq[m + i - 1]]
  BY <1>1, <1>2, SubSeqProperties DEF SubSeq
<1>4. \A i \in m..n : i - m + 1 \in 1..L /\ m + (i - m + 1) - 1 = i
  BY <1>1
<1> HIDE DEF L, sub
<1>5. sub \in [1..L -> P]
  BY <1>2, <1>3
<1>6. \A x \in P : \E i \in 1..L : sub[i] = x
  BY <1>3, <1>4
<1> HIDE DEF P
<1>7. sub \in Seq(P) /\ Len(sub) = L
  BY <1>2, <1>5, SequenceOf
<1>8. ASSUME NEW i \in 1..L, NEW j \in 1..L, sub[i] = sub[j] PROVE i = j
  <2>1. m + i - 1 = m + j - 1
    BY <1>1, <1>2, <1>3, <1>8
  <2> QED
    BY <1>1, <1>2, <2>1
<1> QED
  BY <1>6, <1>7, <1>8 DEF Lists, P, sub

\* What all the sequences of a sequence hold
Held(seqs) == UNION {ToSet(seqs[p]) : p \in 1..Len(seqs)}

\* Groups of sequences with nothing in common, the groups flattened.
LEMMA FlattenGroups ==
  ASSUME NEW n \in Nat, NEW groups, groups = [p \in 1..n |-> groups[p]],
         \A p \in 1..n : Len(groups[p]) \in Nat /\ EachOnce(groups[p], Len(groups[p])),
         \A p, q \in 1..n : p # q => Held(groups[p]) \cap Held(groups[q]) = {}
  PROVE  /\ Len(FlattenSeq(groups)) \in Nat
         /\ EachOnce(FlattenSeq(groups), Len(FlattenSeq(groups)))
         /\ Held(FlattenSeq(groups)) = UNION {Held(groups[p]) : p \in 1..n}
<1> DEFINE T == UNION {Held(groups[p]) : p \in 1..n}
           flat == FlattenSeq(groups)
           L == Len(flat)
<1>1. ASSUME NEW p \in 1..n
      PROVE  groups[p] \in Seq(Seq(T)) /\ DOMAIN groups[p] = 1..Len(groups[p])
  <2>1. groups[p] \in Seq(Seq(Held(groups[p]))) /\ DOMAIN groups[p] = 1..Len(groups[p])
    BY EachOnceIs DEF Held
  <2>2. Held(groups[p]) \subseteq T
    OBVIOUS
  <2> HIDE DEF T
  <2>3. Seq(Held(groups[p])) \subseteq Seq(T)
    BY <2>2
  <2> QED
    BY <2>1, <2>3
<1> HIDE DEF T
<1>2. groups \in Seq(Seq(Seq(T))) /\ Len(groups) = n
  <2>1. groups \in [1..n -> Seq(Seq(T))]
    BY <1>1
  <2> QED
    BY <2>1, SequenceOf
<1>3. flat \in Seq(Seq(T)) /\ \E part, place : Laid(part, place, flat, groups, n)
  BY <1>2, FlattenPlaces
<1>4. L \in Nat /\ DOMAIN flat = 1..L /\ flat \in [1..L -> Seq(T)]
  <2> HIDE DEF flat
  <2> QED
    BY <1>3, SequenceIs
<1>5. PICK part, place : Laid(part, place, flat, groups, n)
  BY <1>3
<1> HIDE DEF flat
<1>6. /\ \A i \in 1..L : /\ part[i] \in 1..n /\ place[i] \in 1..Len(groups[part[i]])
                         /\ flat[i] = groups[part[i]][place[i]]
      /\ \A p \in 1..n : \A k \in 1..Len(groups[p]) : \E i \in 1..L : part[i] = p /\ place[i] = k
      /\ \A i, j \in 1..L : i < j => part[i] < part[j] \/ (part[i] = part[j] /\ place[i] < place[j])
  BY <1>5 DEF Laid
<1> HIDE DEF L
<1>7. /\ \A p \in 1..n : \A k \in 1..Len(groups[p]) :
           /\ Lists(groups[p][k], ToSet(groups[p][k]))
           /\ ToSet(groups[p][k]) \subseteq Held(groups[p])
      /\ \A p \in 1..n : \A k, l \in 1..Len(groups[p]) :
           k # l => ToSet(groups[p][k]) \cap ToSet(groups[p][l]) = {}
  <2>1. ASSUME NEW p \in 1..n
        PROVE  /\ \A k \in 1..Len(groups[p]) : Lists(groups[p][k], ToSet(groups[p][k]))
               /\ \A k, l \in 1..Len(groups[p]) :
                    k # l => ToSet(groups[p][k]) \cap ToSet(groups[p][l]) = {}
    <3>1. EachOnce(groups[p], Len(groups[p]))
      BY <2>1
    <3> QED
      BY <3>1 DEF EachOnce
  <2>2. ASSUME NEW p \in 1..n, NEW k \in 1..Len(groups[p])
        PROVE  ToSet(groups[p][k]) \subseteq Held(groups[p])
    BY <2>2 DEF Held
  <2> QED
    BY <2>1, <2>2
<1>8. ASSUME NEW i \in 1..L, NEW j \in 1..L, i # j PROVE ToSet(flat[i]) \cap ToSet(flat[j]) = {}
  <2>1. CASE part[i] # part[j]
    <3>1. ToSet(flat[i]) \subseteq Held(groups[part[i]]) /\ ToSet(flat[j]) \subseteq Held(groups[part[j]])
      BY <1>6, <1>7
    <3>2. Held(groups[part[i]]) \cap Held(groups[part[j]]) = {}
      BY <1>6, <2>1
    <3> QED
      BY <3>1, <3>2
  <2>2. CASE part[i] = part[j]
    <3>1. place[i] # place[j]
      <4>1. i \in Int /\ j \in Int /\ part[i] \in Int /\ part[j] \in Int
        BY <1>4, <1>6
      <4>2. place[i] \in Int /\ place[j] \in Int
        BY <1>6
      <4>3. i < j \/ j < i
        BY <1>8, <4>1
      <4>4. i < j => place[i] < place[j]
        BY <1>6, <2>2, <4>1
      <4>5. j < i => place[j] < place[i]
        BY <1>6, <2>2, <4>1
      <4> QED
        BY <4>2, <4>3, <4>4, <4>5
    <3>2. /\ part[i] \in 1..n
          /\ place[i] \in 1..Len(groups[part[i]]) /\ place[j] \in 1..Len(groups[part[i]])
          /\ flat[i] = groups[part[i]][place[i]] /\ flat[j] = groups[part[i]][place[j]]
      BY <1>6, <2>2
    <3>3. ToSet(groups[part[i]][place[i]]) \cap ToSet(groups[part[i]][place[j]]) = {}
      BY <1>7, <3>1, <3>2
    <3> QED
      BY <3>2, <3>3
  <2> QED
    BY <2>1, <2>2
<1>9. \A i \in 1..L : Lists(flat[i], ToSet(flat[i]))
  BY <1>6, <1>7
<1>10. EachOnce(flat, L)
  <2>1. flat = [p \in 1..L |-> flat[p]]
    BY <1>4
  <2> QED
    BY <1>8, <1>9, <2>1 DEF EachOnce
<1>11. Held(flat) = T
  <2>1. ASSUME NEW x \in Held(flat) PROVE x \in T
    <3>1. PICK i \in 1..L : x \in ToSet(flat[i])
      BY DEF Held, L
    <3>2. x \in Held(groups[part[i]]) /\ part[i] \in 1..n
      BY <1>6, <1>7, <3>1
    <3> QED
      BY <3>2 DEF T
  <2>2. ASSUME NEW x \in T PROVE x \in Held(flat)
    <3>1. PICK p \in 1..n : x \in Held(groups[p])
      BY DEF T
    <3>2. PICK k \in 1..Len(groups[p]) : x \in ToSet(groups[p][k])
      BY <3>1 DEF Held
    <3>3. PICK i \in 1..L : part[i] = p /\ place[i] = k
      BY <1>6
    <3>4. x \in ToSet(flat[i])
      BY <1>6, <3>2, <3>3
    <3> QED
      BY <3>4 DEF Held, L
  <2> QED
    BY <2>1, <2>2
<1> QED
  BY <1>4, <1>10, <1>11 DEF T, L, flat

-----------------------------------------------------------------------------
(* Choices made one after the other *)

\* Of finitely many there are finitely many images.
LEMMA ImageIsFinite ==
  ASSUME NEW S, IsFiniteSet(S), NEW f, DOMAIN f = S
  PROVE  IsFiniteSet({f[x] : x \in S})
<1> DEFINE T == {f[x] : x \in S}
           g == [x \in S |-> f[x]]
<1>1. g \in Surjection(S, T)
  BY DEF Surjection
<1> HIDE DEF g, T
<1>2. IsFiniteSet(T)
  BY <1>1, FS_Surjection
<1> QED
  BY <1>2 DEF T

\* Of some there is a first.
LEMMA FirstOf ==
  ASSUME NEW S, IsFiniteSet(S), S # {}, NEW before, Orders(before, S)
  PROVE  \E x \in S : \A y \in S : y = x \/ <<x, y>> \in before
<1> DEFINE N == Cardinality(S)
           list == Ranked(S, before)
<1>1. /\ N \in Nat /\ list \in [1..N -> S]
      /\ \A x \in S : \E n \in 1..N : list[n] = x
      /\ \A m, n \in 1..N : m < n => <<list[m], list[n]>> \in before
  BY RankedIs
<1> HIDE DEF N, list
<1>2. 1 \in 1..N
  <2>1. PICK n \in 1..N : TRUE
    BY <1>1
  <2> QED
    BY <1>1, <2>1
<1>3. ASSUME NEW y \in S PROVE y = list[1] \/ <<list[1], y>> \in before
  <2>1. PICK n \in 1..N : list[n] = y
    BY <1>1
  <2>2. n = 1 \/ 1 < n
    BY <1>1
  <2> QED
    BY <1>1, <1>2, <2>1, <2>2
<1>4. list[1] \in S
  BY <1>1, <1>2
<1> QED
  BY <1>3, <1>4

\* Members are chosen in an order: one is, unless it is like a chosen one before it.
ChosenInTurn(chosen, S, before, like) ==
  chosen = [k \in S |-> ~\E l \in S \ {k} : <<k, l>> \in like /\ <<l, k>> \in before /\ chosen[l]]

LEMMA ChoiceExists ==
  ASSUME NEW S, IsFiniteSet(S), NEW before, Orders(before, S), NEW like
  PROVE  \E chosen : ChosenInTurn(chosen, S, before, like)
<1> DEFINE N == Cardinality(S)
           list == Ranked(S, before)
<1>1. /\ N \in Nat /\ list \in [1..N -> S]
      /\ \A x \in S : \E n \in 1..N : list[n] = x
      /\ \A m, n \in 1..N : m < n => <<list[m], list[n]>> \in before
  BY RankedIs
<1> HIDE DEF N, list
<1> DEFINE First(n) == {list[i] : i \in 1..n}
           Bad == {n \in 0..N : ~\E f : ChosenInTurn(f, First(n), before, like)}
<1>2. First(N) = S
  BY <1>1
<1> SUFFICES ASSUME Bad # {} PROVE FALSE
  <2>1. N \in 0..N
    BY <1>1
  <2> HIDE DEF First
  <2>2. \E f : ChosenInTurn(f, First(N), before, like)
    BY <2>1
  <2> QED
    BY <1>2, <2>2
<1>3. PICK k \in Bad : \A l \in Bad : k <= l
  <2>1. Bad \in SUBSET Nat
    BY <1>1
  <2> HIDE DEF Bad
  <2> QED
    BY <2>1, LeastNumber
<1>4. k \in 0..N /\ ~\E f : ChosenInTurn(f, First(k), before, like)
  BY <1>3
<1>5. k # 0
  <2>1. First(0) = {}
    OBVIOUS
  <2>2. ChosenInTurn([x \in {} |-> TRUE], {}, before, like)
    BY DEF ChosenInTurn
  <2> QED
    BY <1>4, <2>1, <2>2
<1>6. k \in 1..N /\ k - 1 \in 0..N /\ ~(k <= k - 1)
  BY <1>1, <1>4, <1>5
<1>7. PICK f : ChosenInTurn(f, First(k - 1), before, like)
  BY <1>3, <1>6
<1> DEFINE x == list[k]
           A == First(k - 1)
<1>8. /\ First(k) = A \cup {x} /\ x \notin A /\ A \subseteq S /\ x \in S
      /\ \A y \in A : <<y, x>> \in before
  <2>1. \A i \in 1..(k - 1) : i \in 1..N /\ i < k
    BY <1>1, <1>6
  <2>2. \A i \in 1..k : i \in 1..(k - 1) \/ i = k
    BY <1>6
  <2>3. \A y \in A : y \in S /\ <<y, x>> \in before
    BY <1>1, <1>6, <2>1
  <2>4. x \in S /\ <<x, x>> \notin before
    BY <1>1, <1>6 DEF Orders
  <2>5. First(k) = A \cup {x}
    <3>1. \A i \in 1..(k - 1) : i \in 1..k
      BY <1>6
    <3>2. k \in 1..k
      BY <1>6
    <3> QED
      BY <2>2, <3>1, <3>2
  <2> HIDE DEF A, x, First
  <2> QED
    BY <2>3, <2>4, <2>5
<1>9. \A y \in A : <<x, y>> \notin before
  BY <1>8 DEF Orders
<1>10. /\ f = [y \in A |-> f[y]]
       /\ \A y \in A : f[y] = ~\E l \in A \ {y} : <<y, l>> \in like /\ <<l, y>> \in before /\ f[l]
  BY <1>7 DEF ChosenInTurn
<1> HIDE DEF A, x, First
<1> DEFINE g == [y \in A \cup {x} |-> IF y = x
                                      THEN ~\E l \in A : <<x, l>> \in like /\ <<l, x>> \in before /\ f[l]
                                      ELSE f[y]]
<1>11. ASSUME NEW y \in A \cup {x}
       PROVE  g[y] = ~\E l \in (A \cup {x}) \ {y} : <<y, l>> \in like /\ <<l, y>> \in before /\ g[l]
  <2>1. \A l \in A : g[l] = f[l]
    BY <1>8
  <2>2. CASE y = x
    <3>1. (A \cup {x}) \ {y} = A
      BY <1>8, <2>2
    <3>2. g[y] = ~\E l \in A : <<x, l>> \in like /\ <<l, x>> \in before /\ f[l]
      BY <2>2
    <3> HIDE DEF g
    <3> QED
      BY <2>1, <2>2, <3>1, <3>2
  <2>3. CASE y # x
    <3>1. y \in A
      BY <2>3
    <3> HIDE DEF g
    <3>2. (\E l \in (A \cup {x}) \ {y} : <<y, l>> \in like /\ <<l, y>> \in before /\ g[l])
            <=> (\E l \in A \ {y} : <<y, l>> \in like /\ <<l, y>> \in before /\ f[l])
      BY <1>9, <2>1, <3>1
    <3> QED
      BY <1>10, <2>1, <3>1, <3>2
  <2> QED
    BY <2>2, <2>3
<1>12. ChosenInTurn(g, A \cup {x}, before, like)
  <2>1. g = [y \in A \cup {x} |-> g[y]]
    OBVIOUS
  <2> HIDE DEF g
  <2> QED
    BY <1>11, <2>1 DEF ChosenInTurn
<1> QED
  BY <1>4, <1>8, <1>12

\* Each is like a chosen one, or chosen.
LEMMA EachIsLike ==
  ASSUME NEW S, NEW before, NEW like, NEW chosen, ChosenInTurn(chosen, S, before, like), NEW k \in S
  PROVE  \E l \in S : chosen[l] /\ (l = k \/ <<k, l>> \in like)
<1>1. chosen[k] = ~\E l \in S \ {k} : <<k, l>> \in like /\ <<l, k>> \in before /\ chosen[l]
  BY DEF ChosenInTurn
<1> QED
  BY <1>1
=============================================================================
