------------------------- MODULE AdvancedEditorProofs -------------------------
(***************************************************************************)
(* The advanced view and the menu editor, for disks, tables and menus of   *)
(* every size, any number of edits and any failing saves: what the table   *)
(* and its sorting, filling, compaction and conversion keep, that tags     *)
(* tell the rows apart, and that a saved MBR leads to saved data.          *)
(***************************************************************************)
EXTENDS AdvancedEditor, FiniteSetTheorems, TLAPS

(* Quotient and remainder of any integer: sums that wrap.                  *)
LEMMA ModRange ==
  ASSUME NEW t \in Nat \ {0}, NEW n \in Int
  PROVE  /\ n = t * (n \div t) + (n % t)
         /\ n \div t \in Int /\ n % t \in 0 .. t - 1
  OBVIOUS

(* A set of natural numbers has a least member.                            *)
LEMMA LeastExists ==
  ASSUME NEW S, S \subseteq Nat, S # {}
  PROVE  \E x \in S : \A y \in S : x <= y
  <1>1. \E x \in S : \A y \in S : ~(<<y, x>> \in OpToRel(<, Nat))
    BY WFMin, NatLessThanWellFounded
  <1>2. \A x, y \in S : ~(<<y, x>> \in OpToRel(<, Nat)) => x <= y
    BY DEF OpToRel
  <1> QED
    BY <1>1, <1>2

(* A bounded one has a greatest member.                                    *)
LEMMA GreatestExists ==
  ASSUME NEW S, S \subseteq Nat, S # {}, NEW n \in Nat, \A x \in S : x <= n
  PROVE  \E x \in S : \A y \in S : x >= y
  <1> DEFINE T == {n - x : x \in S}
  <1>0. \A x \in S : x \in Nat /\ x <= n /\ n - x \in Nat
    OBVIOUS
  <1>1. T \subseteq Nat /\ T # {}
    BY <1>0
  <1>2. PICK t \in T : \A u \in T : t <= u
    <2> HIDE DEF T
    <2> QED
      BY <1>1, LeastExists
  <1>3. PICK x \in S : t = n - x
    OBVIOUS
  <1>4. ASSUME NEW y \in S PROVE x >= y
    <2>1. t <= n - y
      BY <1>2
    <2> QED
      BY <1>0, <1>3, <2>1
  <1> QED
    BY <1>4

(* A loop from 1 to n makes a value of another, f being its body: h exists *)
(* and has values of that type.                                            *)
IsLoop(h, b, n, f) ==
  \A i \in 0 .. n : h[i] = IF i = 0 THEN b ELSE f[<<h[i - 1], i>>]

LEMMA LoopExists ==
  ASSUME NEW S, NEW b \in S, NEW n \in Nat, NEW f \in [S \X (1 .. n) -> S]
  PROVE  \E h \in [0 .. n -> S] : IsLoop(h, b, n, f)
  <1> DEFINE Upto(h, k) ==
               \A i \in 0 .. k : h[i] = IF i = 0 THEN b ELSE f[<<h[i - 1], i>>]
             Missing == {k \in 0 .. n : ~ \E h \in [0 .. k -> S] : Upto(h, k)}
  <1>1. SUFFICES ASSUME Missing # {} PROVE FALSE
    <2>1. n \in 0 .. n
      OBVIOUS
    <2>2. (\E h \in [0 .. n -> S] : Upto(h, n)) \/ n \in Missing
      BY <2>1
    <2> QED
      BY <2>2 DEF IsLoop
  <1>2. PICK m \in Missing : \A y \in Missing : m <= y
    <2>1. Missing \subseteq Nat
      OBVIOUS
    <2> HIDE DEF Missing
    <2> QED
      BY <1>1, <2>1, LeastExists
  <1>3. m \in 0 .. n /\ ~ \E h \in [0 .. m -> S] : Upto(h, m)
    OBVIOUS
  <1>4. CASE m = 0
    <2> DEFINE h == [i \in 0 .. 0 |-> b]
    <2>1. h \in [0 .. m -> S] /\ Upto(h, m)
      BY <1>4
    <2> QED
      BY <1>3, <2>1
  <1>5. CASE m # 0
    <2>1. m \in 1 .. n /\ m - 1 \in 0 .. n
      BY <1>3, <1>5
    <2>2. m - 1 \notin Missing
      <3> HIDE DEF Missing
      <3> QED
        BY <1>2, <2>1
    <2>3. PICK h \in [0 .. m - 1 -> S] : Upto(h, m - 1)
      BY <2>1, <2>2
    <2> DEFINE last == f[<<h[m - 1], m>>]
               g == [i \in 0 .. m |-> IF i = m THEN last ELSE h[i]]
    <2>4. h[m - 1] \in S
      BY <2>1, <2>3
    <2>5. last \in S
      BY <2>1, <2>4
    <2>6. g \in [0 .. m -> S]
      BY <2>1, <2>3, <2>5
    <2>7. ASSUME NEW i \in 0 .. m
          PROVE  g[i] = IF i = 0 THEN b ELSE f[<<g[i - 1], i>>]
      <3>1. CASE i = m
        <4>1. m - 1 \in 0 .. m /\ m - 1 # m /\ m # 0
          BY <2>1
        <4>2. g[m - 1] = h[m - 1] /\ g[m] = last
          BY <4>1
        <4> QED
          BY <3>1, <4>1, <4>2
      <3>2. CASE i # m
        <4>1. i \in 0 .. m - 1 /\ g[i] = h[i] /\ (i # 0 => i - 1 \in 0 .. m /\ i - 1 # m)
          BY <2>1, <3>2
        <4>2. i # 0 => g[i - 1] = h[i - 1]
          BY <4>1
        <4> QED
          BY <2>3, <4>1, <4>2
      <3> QED
        BY <3>1, <3>2
    <2> QED
      BY <1>3, <2>6, <2>7
  <1> QED
    BY <1>4, <1>5

LEMMA LoopType ==
  ASSUME NEW S, NEW n \in Nat, NEW h, h[0] \in S,
         \A i \in 1 .. n : h[i - 1] \in S => h[i] \in S
  PROVE  \A i \in 0 .. n : h[i] \in S
  <1> DEFINE Bad == {k \in 0 .. n : h[k] \notin S}
  <1>1. SUFFICES ASSUME Bad # {} PROVE FALSE
    OBVIOUS
  <1>2. PICK m \in Bad : \A y \in Bad : m <= y
    <2>1. Bad \subseteq Nat
      OBVIOUS
    <2> HIDE DEF Bad
    <2> QED
      BY <1>1, <2>1, LeastExists
  <1>3. m \in 1 .. n /\ m - 1 \in 0 .. n /\ ~(m <= m - 1)
    <2>1. m \in 0 .. n /\ m # 0
      OBVIOUS
    <2> QED
      BY <2>1
  <1>4. m - 1 \notin Bad
    <2> HIDE DEF Bad
    <2> QED
      BY <1>2, <1>3
  <1> QED
    BY <1>3, <1>4

(* What holds at first and is kept by each turn of a loop holds all along. *)
LEMMA Turns ==
  ASSUME NEW n \in Nat, NEW G, 0 \in G,
         \A i \in 1 .. n : i - 1 \in G => i \in G
  PROVE  \A i \in 0 .. n : i \in G
  <1> DEFINE h == [i \in 0 .. n |-> IF i \in G THEN 1 ELSE 0]
             S == {1}
  <1>1. \A i \in 0 .. n : h[i] \in S <=> i \in G
    OBVIOUS
  <1>2. h[0] \in S
    BY <1>1
  <1>3. ASSUME NEW i \in 1 .. n, h[i - 1] \in S PROVE h[i] \in S
    <2>1. i - 1 \in 0 .. n /\ i \in 0 .. n
      OBVIOUS
    <2> HIDE DEF h, S
    <2> QED
      BY <1>1, <1>3, <2>1
  <1>4. \A i \in 0 .. n : h[i] \in S
    <2> HIDE DEF h, S
    <2> QED
      BY <1>2, <1>3, LoopType
  <1> QED
    BY <1>1, <1>4

-------------------------------------------------------------------------------
(* Sorting.  If every two are in order, a ranked sequence has the elements *)
(* of the sequence, each in one place.                                     *)
IsOrder(n, ahead) ==
  /\ ahead \in [1 .. n -> SUBSET (1 .. n)]
  /\ \A i \in 1 .. n : i \notin ahead[i]
  /\ \A i, j \in 1 .. n : i # j => i \in ahead[j] \/ j \in ahead[i]
  /\ \A i, j \in 1 .. n : i \in ahead[j] => ahead[i] \subseteq ahead[j]

IsPermutation(p, n) ==
  /\ p \in [1 .. n -> 1 .. n]
  /\ \A i, j \in 1 .. n : i # j => p[i] # p[j]
  /\ \A j \in 1 .. n : \E i \in 1 .. n : p[i] = j

(* Who is told apart among so many is everyone.                            *)
LEMMA Everyone ==
  ASSUME NEW n \in Nat, NEW p \in [1 .. n -> 1 .. n],
         \A i, j \in 1 .. n : i # j => p[i] # p[j]
  PROVE  IsPermutation(p, n)
  <1>1. p \in Injection(1 .. n, 1 .. n)
    BY DEF Injection, IsInjective
  <1>2. IsFiniteSet(1 .. n)
    BY FS_Interval
  <1>3. p \in Surjection(1 .. n, 1 .. n)
    BY <1>1, <1>2, FS_Injection
  <1> QED
    BY <1>3 DEF Surjection, IsPermutation

(* p says where the elements of the ranked sequence come from.             *)
Ranks(p, n, seq, ahead) ==
  /\ IsPermutation(p, n)
  /\ \A i, j \in 1 .. n : i < j => p[i] \in ahead[p[j]]
  /\ Ranked(seq, ahead) = [k \in 1 .. n |-> seq[p[k]]]
LEMMA RankedPermutes ==
  ASSUME NEW n \in Nat, NEW ahead, IsOrder(n, ahead), NEW seq,
         DOMAIN seq = 1 .. n
  PROVE  \E p : Ranks(p, n, seq, ahead)
  <1> DEFINE R == 1 .. n
             c == [i \in R |-> Cardinality(ahead[i]) + 1]
             at(k) == CHOOSE i \in R : c[i] = k
             places == {<<i, Cardinality(ahead[i]) + 1>> : i \in R}
             p == [k \in R |-> at(k)]
  <1>1. IsFiniteSet(R) /\ Cardinality(R) = n
    BY FS_Interval
  <1>2. ASSUME NEW i \in R PROVE IsFiniteSet(ahead[i]) /\ c[i] \in 1 .. n
    <2>1. ahead[i] \in SUBSET R /\ i \in R /\ i \notin ahead[i]
      BY DEF IsOrder
    <2> HIDE DEF R
    <2>2. IsFiniteSet(ahead[i]) /\ Cardinality(ahead[i]) <= n
          /\ (n = Cardinality(ahead[i]) => R = ahead[i])
      BY <1>1, <2>1, FS_Subset
    <2>3. Cardinality(ahead[i]) \in Nat
      BY <2>2, FS_CardinalityType
    <2>4. Cardinality(ahead[i]) # n
      BY <2>1, <2>2
    <2>5. Cardinality(ahead[i]) + 1 \in 1 .. n
      BY <2>2, <2>3, <2>4
    <2> QED
      BY <2>2, <2>5
  <1>3. ASSUME NEW i \in R, NEW j \in R, i \in ahead[j] PROVE c[i] < c[j]
    <2>1. ahead[i] \in SUBSET ahead[j] /\ i \notin ahead[i]
      BY <1>3 DEF IsOrder
    <2>2. IsFiniteSet(ahead[j]) /\ IsFiniteSet(ahead[i])
      BY <1>2
    <2>3. Cardinality(ahead[i]) <= Cardinality(ahead[j])
          /\ (Cardinality(ahead[j]) = Cardinality(ahead[i]) => ahead[j] = ahead[i])
      BY <2>1, <2>2, FS_Subset
    <2>4. Cardinality(ahead[i]) \in Nat /\ Cardinality(ahead[j]) \in Nat
      BY <2>2, FS_CardinalityType
    <2>5. Cardinality(ahead[i]) # Cardinality(ahead[j])
      BY <1>3, <2>1, <2>3
    <2> QED
      BY <2>3, <2>4, <2>5
  <1>4. ASSUME NEW i \in R, NEW j \in R, i # j PROVE c[i] # c[j]
    <2>1. i \in ahead[j] \/ j \in ahead[i]
      BY <1>4 DEF IsOrder
    <2>2. c[i] \in Nat /\ c[j] \in Nat
      BY <1>2
    <2> HIDE DEF c
    <2> QED
      BY <1>3, <2>1, <2>2
  <1>5. IsPermutation(c, n)
    <2>1. c \in [1 .. n -> 1 .. n]
      BY <1>2
    <2> HIDE DEF c
    <2> QED
      BY <1>4, <2>1, Everyone
  <1>6. ASSUME NEW k \in R PROVE at(k) \in R /\ c[at(k)] = k
    <2>1. \E i \in R : c[i] = k
      BY <1>5 DEF IsPermutation
    <2> HIDE DEF c
    <2> QED
      BY <2>1
  <1>7. IsPermutation(p, n)
    <2>1. p \in [1 .. n -> 1 .. n]
      BY <1>6
    <2>2. \A i, j \in R : i # j => p[i] # p[j]
      BY <1>6
    <2> HIDE DEF p
    <2> QED
      BY <2>1, <2>2, Everyone
  <1>8. ASSUME NEW i \in R, NEW j \in R, i < j PROVE p[i] \in ahead[p[j]]
    <2>1. p[i] \in R /\ p[j] \in R /\ c[p[i]] = i /\ c[p[j]] = j
      BY <1>6
    <2>2. p[i] # p[j] /\ ~(c[p[j]] < c[p[i]])
      BY <1>8, <2>1
    <2>3. p[i] \in ahead[p[j]] \/ p[j] \in ahead[p[i]]
      <3> HIDE DEF p, c, R
      <3> QED
        BY <2>1, <2>2 DEF IsOrder, R
    <2> HIDE DEF p, c, R
    <2> QED
      BY <1>3, <2>1, <2>2, <2>3
  <1>9. ASSUME NEW k \in R
        PROVE  (CHOOSE i \in R : <<i, k>> \in places) = p[k]
    <2>1. \A i \in R : <<i, k>> \in places <=> c[i] = k
      OBVIOUS
    <2> HIDE DEF places, c
    <2> QED
      BY <2>1
  <1>10. Ranked(seq, ahead) = [k \in R |-> seq[CHOOSE i \in R : <<i, k>> \in places]]
    BY DEF Ranked
  <1>11. Ranked(seq, ahead) = [k \in R |-> seq[p[k]]]
    <2> HIDE DEF p, R, places
    <2> QED
      BY <1>9, <1>10
  <1> HIDE DEF p
  <1> QED
    BY <1>7, <1>8, <1>11 DEF Ranks
-------------------------------------------------------------------------------
(* Tables.  What the constants say of numbers.                             *)
LEMMA NumberBounds ==
  /\ NumRows \in Nat \ {0} /\ 1 \in Rows /\ NumRows \in Rows
  /\ DiskEnd \in Nat /\ DiskEnd >= 2 /\ AdvSize \in 1 .. DiskEnd
  /\ Numbers \subseteq Nat /\ 0 .. DiskEnd \subseteq Numbers
  /\ \A x \in Nat, y \in Numbers : x <= y => x \in Numbers
  <1> DEFINE top == Half * Half
  <1>1. Half \in Nat /\ top \in Int
    BY TableConstants
  <1>2. DiskEnd \in 2 .. top - 1
    BY TableConstants
  <1>3. Numbers = 0 .. top - 1
    BY DEF Numbers
  <1> HIDE DEF top
  <1> QED
    BY <1>1, <1>2, <1>3, TableConstants DEF Rows

(* What is added up is cut off.                                            *)
LEMMA WrapType ==
  ASSUME NEW n \in Int
  PROVE  Wrap(n) \in Numbers
  <1> DEFINE top == Half * Half
  <1>1. top \in Nat \ {0}
    <2>1. Half \in Nat \ {0}
      BY TableConstants
    <2> QED
      BY <2>1
  <1>2. Wrap(n) = n % top /\ Numbers = 0 .. top - 1
    BY DEF Wrap, Numbers
  <1> HIDE DEF top
  <1> QED
    BY <1>1, <1>2, ModRange

LEMMA NoRowType ==
  NoRow \in Row /\ NoRow.tag = 0 /\ NoRow.type = Unused
  BY NumberBounds DEF NoRow, Row, Types

(* A function of the numbers up to n is a sequence of n elements.          *)
LEMMA AsSequence ==
  \A S : \A n \in Nat : \A t \in [1 .. n -> S] :
    t \in Seq(S) /\ Len(t) = n /\ DOMAIN t = 1 .. n
  OBVIOUS

LEMMA Joined ==
  \A S : \A a, b \in Seq(S) :
    /\ a \o b \in Seq(S) /\ Len(a \o b) = Len(a) + Len(b)
    /\ \A r \in 1 .. Len(a) + Len(b) :
         (a \o b)[r] = IF r <= Len(a) THEN a[r] ELSE b[r - Len(a)]
  OBVIOUS

(* A sorted table has the rows of the table in another order, with the     *)
(* used ones first.                                                        *)
LEMMA SortedInOrder ==
  ASSUME NEW t \in [Rows -> Row]
  PROVE  /\ \A q, r \in Rows : ~(Precedes(t, q, r) /\ Precedes(t, r, q))
         /\ \E p : /\ IsPermutation(p, NumRows)
                   /\ Sorted(t) = [k \in Rows |-> t[p[k]]]
                   /\ \A i, j \in Rows : i < j => Precedes(t, p[i], p[j])
  <1> DEFINE ahead == [r \in Rows |-> {q \in Rows : Precedes(t, q, r)}]
  <1>1. Rows = 1 .. NumRows /\ NumRows \in Nat
    BY NumberBounds DEF Rows
  <1>2. \A r \in Rows : t[r].rel \in Nat
    BY NumberBounds DEF Row
  <1>3. IsOrder(NumRows, ahead)
    <2>1. ahead \in [1 .. NumRows -> SUBSET (1 .. NumRows)]
      BY <1>1
    <2>2. \A q, r \in Rows : q \in ahead[r] <=> Precedes(t, q, r)
      OBVIOUS
    <2> HIDE DEF ahead
    <2>3. \A i \in Rows : i \notin ahead[i]
      BY <1>1, <1>2, <2>2 DEF Precedes, StartsBefore
    <2>4. \A i, j \in Rows : i # j => i \in ahead[j] \/ j \in ahead[i]
      BY <1>1, <1>2, <2>2 DEF Precedes, StartsBefore
    <2>5. ASSUME NEW i \in Rows, NEW j \in Rows, NEW q \in Rows,
                 i \in ahead[j], q \in ahead[i]
          PROVE  q \in ahead[j]
      <3>1. Precedes(t, i, j) /\ Precedes(t, q, i)
        BY <2>2, <2>5
      <3>2. Precedes(t, q, j)
        BY <1>1, <1>2, <3>1 DEF Precedes, StartsBefore
      <3> QED
        BY <2>2, <3>2
    <2>6. \A i, j \in 1 .. NumRows : i \in ahead[j] => ahead[i] \subseteq ahead[j]
      BY <1>1, <2>1, <2>5
    <2> QED
      BY <1>1, <2>1, <2>3, <2>4, <2>6 DEF IsOrder
  <1>p. PICK p : Ranks(p, NumRows, t, ahead)
    <2> HIDE DEF ahead
    <2>1. DOMAIN t = 1 .. NumRows
      BY <1>1
    <2> QED
      BY <1>1, <1>3, <2>1, RankedPermutes
  <1>4. /\ IsPermutation(p, NumRows)
        /\ \A i, j \in Rows : i < j => p[i] \in ahead[p[j]]
        /\ Ranked(t, ahead) = [k \in Rows |-> t[p[k]]]
    <2> HIDE DEF ahead
    <2> QED
      BY <1>p DEF Ranks, Rows
  <1>5. Sorted(t) = [k \in Rows |-> t[p[k]]]
    BY <1>4 DEF Sorted
  <1>6. ASSUME NEW i \in Rows, NEW j \in Rows, i < j
        PROVE  Precedes(t, p[i], p[j])
    <2>1. p[i] \in ahead[p[j]] /\ p[j] \in Rows
      BY <1>1, <1>4, <1>6 DEF IsPermutation
    <2> QED
      BY <2>1
  <1>7. \A q, r \in Rows : ~(Precedes(t, q, r) /\ Precedes(t, r, q))
    BY <1>1, <1>2 DEF Precedes, StartsBefore
  <1> QED
    BY <1>4, <1>5, <1>6, <1>7
LEMMA SortedPermutes ==
  ASSUME NEW t \in [Rows -> Row]
  PROVE  \E p : /\ IsPermutation(p, NumRows)
                /\ Sorted(t) = [k \in Rows |-> t[p[k]]]
                /\ \A i, j \in Rows : i < j /\ t[p[i]].type = Unused =>
                                        t[p[j]].type = Unused
  <1>1. PICK p : /\ IsPermutation(p, NumRows)
                 /\ Sorted(t) = [k \in Rows |-> t[p[k]]]
                 /\ \A i, j \in Rows : i < j => Precedes(t, p[i], p[j])
    BY SortedInOrder
  <1> QED
    BY <1>1 DEF Precedes
LEMMA UsedFirst ==
  ASSUME NEW t \in [Rows -> Row]
  PROVE  /\ Cardinality(Used(t)) \in 0 .. NumRows
         /\ \A k \in Rows : Sorted(t)[k].type # Unused <=> k <= Cardinality(Used(t))
  <1>1. PICK p : /\ IsPermutation(p, NumRows)
                 /\ Sorted(t) = [k \in Rows |-> t[p[k]]]
                 /\ \A i, j \in Rows : i < j /\ t[p[i]].type = Unused =>
                                         t[p[j]].type = Unused
    BY SortedPermutes
  <1> DEFINE U == {k \in Rows : t[p[k]].type # Unused}
             n == Cardinality(Used(t))
  <1>2. Rows = 1 .. NumRows /\ NumRows \in Nat /\ IsFiniteSet(Rows)
    BY NumberBounds, FS_Interval DEF Rows
  <1>3. /\ Used(t) \subseteq Rows /\ U \subseteq Rows
        /\ IsFiniteSet(U) /\ IsFiniteSet(Used(t))
    <2>1. Used(t) \in SUBSET Rows /\ U \in SUBSET Rows
      BY DEF Used
    <2> QED
      BY <1>2, <2>1, FS_Subset
  <1>4. Cardinality(U) = n
    <2> DEFINE f == [k \in U |-> p[k]]
    <2>1. f \in [U -> Used(t)]
      BY <1>1, <1>2 DEF IsPermutation, Used
    <2>2. \A i, j \in U : f[i] = f[j] => i = j
      BY <1>1, <1>2 DEF IsPermutation
    <2>3. \A r \in Used(t) : \E k \in U : f[k] = r
      BY <1>1, <1>2 DEF IsPermutation, Used
    <2>4. f \in Bijection(U, Used(t))
      <3> HIDE DEF f, U
      <3> QED
        BY <2>1, <2>2, <2>3
        DEF Bijection, Injection, Surjection, IsInjective
    <2>5. ExistsBijection(U, Used(t))
      BY <2>4 DEF ExistsBijection
    <2> QED
      BY <1>3, <2>5, FS_Bijection
  <1>5. n \in Nat
    BY <1>3, FS_CardinalityType
  <1>6. \A i \in U, j \in Rows : j < i => j \in U
    BY <1>1
  <1>7. U = 1 .. n /\ n <= NumRows
    <2>1. CASE U = {}
      <3>1. n = 0
        BY <1>4, <2>1, FS_EmptySet
      <3> QED
        BY <1>2, <2>1, <3>1
    <2>2. CASE U # {}
      <3>1. U \subseteq Nat /\ \A x \in U : x <= NumRows
        BY <1>2, <1>3
      <3>2. PICK m \in U : \A y \in U : m >= y
        <4> HIDE DEF U
        <4> QED
          BY <1>2, <2>2, <3>1, GreatestExists
      <3>3. U = 1 .. m /\ m \in 1 .. NumRows
        <4> HIDE DEF U
        <4>1. m \in 1 .. NumRows
          BY <1>2, <1>3
        <4>2. U \subseteq 1 .. m
          BY <1>2, <1>3, <3>2, <4>1
        <4>3. 1 .. m \subseteq U
          <5> SUFFICES ASSUME NEW j \in 1 .. m PROVE j \in U
            OBVIOUS
          <5>1. j \in Rows /\ (j = m \/ j < m)
            BY <1>2, <4>1
          <5> QED
            BY <1>6, <5>1
        <4> QED
          BY <4>1, <4>2, <4>3
      <3>4. Cardinality(1 .. m) = m
        BY <1>2, <3>3, FS_Interval
      <3>5. n = m
        <4> HIDE DEF U, n
        <4> QED
          BY <1>4, <3>3, <3>4
      <3> QED
        <4> HIDE DEF U, n
        <4> QED
          BY <1>2, <3>3, <3>5
    <2> QED
      BY <2>1, <2>2
  <1>8. \A k \in Rows : Sorted(t)[k].type # Unused <=> k \in U
    BY <1>1
  <1> HIDE DEF U, n
  <1>9. \A k \in Rows : Sorted(t)[k].type # Unused <=> k <= n
    BY <1>2, <1>5, <1>7, <1>8
  <1> QED
    BY <1>5, <1>7, <1>9 DEF n

(* Two tables with the same used rows in the same order are sorted alike.  *)
SameUsed(t, u) ==
  /\ Cardinality(Used(u)) = Cardinality(Used(t))
  /\ \A k \in 1 .. Cardinality(Used(t)) : Sorted(u)[k] = Sorted(t)[k]
Matches(from, u, t) ==
  /\ from \in [Used(u) -> Used(t)]
  /\ \A r \in Used(u) : t[from[r]] = u[r]
  /\ \A q, r \in Used(u) : q < r => from[q] < from[r]
  /\ \A q \in Used(t) : \E r \in Used(u) : from[r] = q

LEMMA SameOrder ==
  ASSUME NEW t \in [Rows -> Row], NEW u \in [Rows -> Row], NEW from,
         Matches(from, u, t)
  PROVE  SameUsed(t, u)
  <1> DEFINE n == Cardinality(Used(t))
  <1>1. Rows = 1 .. NumRows /\ NumRows \in Nat /\ IsFiniteSet(Rows)
    BY NumberBounds, FS_Interval DEF Rows
  <1>2. Used(t) \subseteq Rows /\ Used(u) \subseteq Rows
        /\ IsFiniteSet(Used(t)) /\ IsFiniteSet(Used(u))
    <2>1. Used(t) \in SUBSET Rows /\ Used(u) \in SUBSET Rows
      BY DEF Used
    <2> QED
      BY <1>1, <2>1, FS_Subset
  <1>3. \A q, r \in Used(u) : from[q] = from[r] => q = r
    <2> SUFFICES ASSUME NEW q \in Used(u), NEW r \in Used(u), q # r
                 PROVE  from[q] # from[r]
      OBVIOUS
    <2>1. q \in Nat /\ r \in Nat /\ from[q] \in Nat /\ from[r] \in Nat
      BY <1>1, <1>2 DEF Matches
    <2> QED
      BY <2>1 DEF Matches
  <1>4. Cardinality(Used(u)) = n
    <2>1. from \in Bijection(Used(u), Used(t))
      BY <1>3 DEF Bijection, Injection, Surjection, IsInjective, Matches
    <2>2. ExistsBijection(Used(u), Used(t))
      BY <2>1 DEF ExistsBijection
    <2> QED
      BY <1>2, <2>2, FS_Bijection
  <1>5. n \in 0 .. NumRows
    BY UsedFirst
  <1>6. PICK p : /\ IsPermutation(p, NumRows)
                 /\ Sorted(t) = [k \in Rows |-> t[p[k]]]
                 /\ \A i, j \in Rows : i < j => Precedes(t, p[i], p[j])
    BY SortedInOrder
  <1>7. PICK s : /\ IsPermutation(s, NumRows)
                 /\ Sorted(u) = [k \in Rows |-> u[s[k]]]
                 /\ \A i, j \in Rows : i < j => Precedes(u, s[i], s[j])
    BY SortedInOrder
  <1>8. /\ \A k \in Rows : p[k] \in Used(t) <=> k <= n
        /\ \A k \in Rows : s[k] \in Used(u) <=> k <= n
    <2>1. /\ \A k \in Rows : Sorted(t)[k].type # Unused <=> k <= n
          /\ \A k \in Rows : Sorted(u)[k].type # Unused <=> k <= n
      BY <1>4, UsedFirst
    <2>2. \A k \in Rows : p[k] \in Rows /\ s[k] \in Rows
      BY <1>1, <1>6, <1>7 DEF IsPermutation
    <2> HIDE DEF n
    <2> QED
      BY <1>6, <1>7, <2>1, <2>2 DEF Used
  <1>9. /\ \A q \in Used(t) : \E k \in 1 .. n : p[k] = q
        /\ \A q \in Used(u) : \E k \in 1 .. n : s[k] = q
    <2> HIDE DEF n
    <2>1. \A q \in Rows : /\ \E k \in Rows : p[k] = q
                          /\ \E k \in Rows : s[k] = q
      BY <1>1, <1>6, <1>7 DEF IsPermutation
    <2>2. \A k \in Rows : k <= n => k \in 1 .. n
      BY <1>1, <1>5
    <2> QED
      BY <1>2, <1>8, <2>1, <2>2
  <1>10. ASSUME NEW x \in Used(u), NEW y \in Used(u), Precedes(u, x, y)
         PROVE  Precedes(t, from[x], from[y])
    <2>1. /\ u[x].type # Unused /\ u[y].type # Unused
          /\ t[from[x]] = u[x] /\ t[from[y]] = u[y]
          /\ x < y => from[x] < from[y]
      BY DEF Used, Matches
    <2> QED
      BY <1>10, <2>1 DEF Precedes, StartsBefore
  <1> DEFINE D == {k \in 1 .. n : p[k] # from[s[k]]}
  <1>11. D = {}
    <2> SUFFICES ASSUME D # {} PROVE FALSE
      OBVIOUS
    <2>1. PICK k \in D : \A j \in D : k <= j
      <3>1. D \subseteq Nat
        OBVIOUS
      <3> HIDE DEF D
      <3> QED
        BY <3>1, LeastExists
    <2>2. /\ k \in 1 .. n /\ k \in Rows /\ p[k] # from[s[k]]
          /\ \A j \in 1 .. n : j < k => p[j] = from[s[j]]
          /\ \A j \in 1 .. n : j \in Rows
      <3>1. k \in 1 .. n /\ p[k] # from[s[k]]
        BY <2>1
      <3>2. \A j \in 1 .. n : j \in Rows
        BY <1>1, <1>5
      <3>3. \A j \in 1 .. n : j < k => j \notin D
        BY <1>5, <2>1, <3>1
      <3> QED
        BY <3>1, <3>2, <3>3
    <2> HIDE DEF D, n
    <2>3. p[k] \in Used(t) /\ s[k] \in Used(u) /\ from[s[k]] \in Used(t)
      BY <1>5, <1>8, <2>2 DEF Matches
    <2>4. PICK r \in Used(u) : from[r] = p[k]
      BY <2>3 DEF Matches
    <2>5. PICK j \in 1 .. n : s[j] = r
      BY <1>9, <2>4
    <2>6. PICK m \in 1 .. n : p[m] = from[s[k]]
      BY <1>9, <2>3
    <2>7. j \in Rows /\ m \in Rows /\ j \in Nat /\ m \in Nat /\ k \in Nat
      BY <1>5, <2>2
    <2>8. j > k
      <3>1. j # k
        BY <2>2, <2>4, <2>5
      <3>2. ~(j < k)
        <4>1. j < k => p[j] = p[k]
          BY <2>2, <2>4, <2>5
        <4>2. j < k => p[j] # p[k]
          BY <1>1, <1>6, <2>2, <2>7 DEF IsPermutation
        <4> QED
          BY <4>1, <4>2
      <3> QED
        BY <2>7, <3>1, <3>2
    <2>9. m > k
      <3>1. m # k
        BY <2>2, <2>6
      <3>2. ASSUME m < k PROVE FALSE
        <4>1. from[s[m]] = from[s[k]] /\ s[m] \in Used(u)
          BY <1>5, <1>8, <2>2, <2>6, <2>7, <3>2
        <4>2. s[m] = s[k]
          BY <1>3, <2>3, <4>1
        <4> QED
          BY <1>1, <1>7, <2>2, <2>7, <3>1, <4>2 DEF IsPermutation
      <3> QED
        BY <2>7, <3>1, <3>2
    <2>10. Precedes(t, p[m], p[k])
      <3>1. Precedes(u, s[k], s[j])
        BY <1>7, <2>2, <2>7, <2>8
      <3> QED
        BY <1>10, <2>3, <2>4, <2>5, <2>6, <3>1
    <2>11. Precedes(t, p[k], p[m])
      BY <1>6, <2>2, <2>7, <2>9
    <2>12. p[k] \in Rows /\ p[m] \in Rows
      BY <1>2, <2>3, <2>6
    <2> QED
      BY <2>10, <2>11, <2>12, SortedInOrder
  <1>12. ASSUME NEW k \in 1 .. n PROVE Sorted(u)[k] = Sorted(t)[k]
    <2>1. k \in Rows /\ p[k] = from[s[k]]
      BY <1>1, <1>5, <1>11
    <2> HIDE DEF n, D
    <2>2. k <= n
      BY <1>5
    <2>3. s[k] \in Used(u)
      BY <1>8, <2>1, <2>2
    <2>4. t[from[s[k]]] = u[s[k]]
      BY <2>3 DEF Matches
    <2>5. Sorted(u)[k] = u[s[k]] /\ Sorted(t)[k] = t[p[k]]
      BY <1>6, <1>7, <2>1
    <2> QED
      BY <2>1, <2>4, <2>5
  <1> QED
    BY <1>4, <1>12 DEF SameUsed
-------------------------------------------------------------------------------
(* The gaps.  What the loop has made of the first rows: each row comes     *)
(* from one of those, or from an unused row behind spare, as source says.  *)
Filling(n) == [rows : Seq(Row), start : Nat, spare : n .. NumRows,
               full : BOOLEAN]
SameRow(p, q) == p.type = q.type /\ p.tag = q.tag /\ p.orig = q.orig
ComesFrom(acc, sorted, n, k, source) ==
  /\ Len(acc.rows) = k + NumRows - acc.spare /\ NumRows - acc.spare <= k
  /\ source \in [1 .. Len(acc.rows) -> Rows]
  /\ \A i \in 1 .. Len(acc.rows) :
       /\ source[i] <= k \/ source[i] > acc.spare
       /\ SameRow(acc.rows[i], sorted[source[i]])
       /\ source[i] <= n /\ ~acc.full => acc.rows[i] = sorted[source[i]]
  /\ \A i, j \in 1 .. Len(acc.rows) : i # j => source[i] # source[j]
  /\ acc.full => NumRows - n < k

LEMMA GapType ==
  ASSUME NEW p \in Row, NEW from \in Nat, NEW to \in Numbers, from <= to
  PROVE  Gap(p, from, to) \in Row /\ SameRow(Gap(p, from, to), p)
  <1>1. to \in Nat /\ to - from \in Nat /\ to - from <= to
    BY NumberBounds
  <1>2. from \in Numbers /\ to - from \in Numbers
    BY <1>1, NumberBounds
  <1> QED
    BY <1>2 DEF Gap, Row, SameRow

LEMMA PlacedType ==
  ASSUME NEW n \in 0 .. NumRows, NEW sorted \in [Rows -> Row],
         NEW acc \in Filling(n), NEW k \in 1 .. n
  PROVE  Placed(acc, sorted, n, k) \in Filling(n)
  <1> DEFINE p == sorted[k]
  <1>1. Rows = 1 .. NumRows /\ NumRows \in Nat
    BY NumberBounds DEF Rows
  <1>2. p \in Row /\ p.rel \in Nat /\ p.num \in Nat /\ p.rel \in Numbers
    <2>1. p \in Row
      BY <1>1
    <2> QED
      BY <2>1, NumberBounds DEF Row
  <1>3. /\ acc.rows \in Seq(Row) /\ acc.start \in Nat /\ acc.spare \in n .. NumRows
        /\ acc.full \in BOOLEAN
        /\ acc = [rows |-> acc.rows, start |-> acc.start, spare |-> acc.spare,
                  full |-> acc.full]
    BY DEF Filling
  <1> HIDE DEF p
  <1>4. CASE acc.full
    <2>1. Placed(acc, sorted, n, k) =
            [rows |-> Append(acc.rows, p), start |-> acc.start,
             spare |-> acc.spare, full |-> acc.full]
      BY <1>3, <1>4 DEF Placed, p
    <2> QED
      BY <1>2, <1>3, <2>1 DEF Filling
  <1>5. CASE ~acc.full /\ p.rel <= acc.start
    <2> DEFINE s == IF acc.start > p.rel + p.num THEN acc.start ELSE p.rel + p.num
    <2>1. Placed(acc, sorted, n, k) =
            [rows |-> Append(acc.rows, p), start |-> s,
             spare |-> acc.spare, full |-> acc.full]
      BY <1>3, <1>5 DEF Placed, p
    <2>2. s \in Nat
      BY <1>2, <1>3
    <2> QED
      BY <1>2, <1>3, <2>1, <2>2 DEF Filling
  <1>6. CASE ~acc.full /\ ~(p.rel <= acc.start) /\ acc.spare = n
    <2> DEFINE q == IF acc.start < DiskEnd THEN Gap(p, acc.start, DiskEnd) ELSE p
    <2>1. Placed(acc, sorted, n, k) =
            [rows |-> Append(acc.rows, q), start |-> acc.start,
             spare |-> acc.spare, full |-> TRUE]
      BY <1>3, <1>6 DEF Placed, p
    <2>2. q \in Row
      <3>1. DiskEnd \in Numbers /\ DiskEnd \in Nat
        BY NumberBounds
      <3> QED
        BY <1>2, <1>3, <3>1, GapType
    <2> QED
      BY <1>2, <1>3, <2>1, <2>2 DEF Filling
  <1>7. CASE ~acc.full /\ ~(p.rel <= acc.start) /\ acc.spare # n
    <2> DEFINE g == Gap(sorted[acc.spare], acc.start, p.rel)
    <2>1. Placed(acc, sorted, n, k) =
            [rows |-> acc.rows \o <<g, p>>, start |-> p.rel + p.num,
             spare |-> acc.spare - 1, full |-> FALSE]
      BY <1>3, <1>7 DEF Placed, p
    <2>2. acc.spare \in Rows /\ acc.spare - 1 \in n .. NumRows
      BY <1>1, <1>3, <1>7
    <2>3. g \in Row
      BY <1>2, <1>3, <1>7, <2>2, GapType
    <2> HIDE DEF g
    <2>4. <<g, p>> \in Seq(Row)
      BY <1>2, <2>3
    <2>5. acc.rows \o <<g, p>> \in Seq(Row) /\ p.rel + p.num \in Nat
      BY <1>2, <1>3, <2>4
    <2> QED
      BY <2>1, <2>2, <2>5 DEF Filling
  <1> QED
    BY <1>4, <1>5, <1>6, <1>7
(* One turn of the loop: the row comes from itself, the gap before it from *)
(* the last unused row.                                                    *)
LEMMA PlacedKeeps ==
  ASSUME NEW n \in 0 .. NumRows, NEW sorted \in [Rows -> Row],
         NEW acc \in Filling(n), NEW k \in 1 .. n, NEW source,
         ComesFrom(acc, sorted, n, k - 1, source)
  PROVE  \E new : ComesFrom(Placed(acc, sorted, n, k), sorted, n, k, new)
  <1> DEFINE p == sorted[k]
             L == Len(acc.rows)
  <1>1. Rows = 1 .. NumRows /\ NumRows \in Nat
    BY NumberBounds DEF Rows
  <1>2. p \in Row /\ p.rel \in Nat /\ p.num \in Nat /\ p.rel \in Numbers /\ k \in Rows
    <2>1. p \in Row /\ k \in Rows
      BY <1>1
    <2> QED
      BY <2>1, NumberBounds DEF Row
  <1>3. /\ acc.rows \in Seq(Row) /\ acc.start \in Nat /\ acc.spare \in n .. NumRows
        /\ acc.full \in BOOLEAN
        /\ acc = [rows |-> acc.rows, start |-> acc.start, spare |-> acc.spare,
                  full |-> acc.full]
    BY DEF Filling
  <1>4. /\ L \in Nat /\ L = k - 1 + NumRows - acc.spare /\ NumRows - acc.spare <= k - 1
        /\ source \in [1 .. L -> Rows]
        /\ \A i \in 1 .. L :
             /\ source[i] <= k - 1 \/ source[i] > acc.spare
             /\ SameRow(acc.rows[i], sorted[source[i]])
             /\ source[i] <= n /\ ~acc.full => acc.rows[i] = sorted[source[i]]
        /\ \A i, j \in 1 .. L : i # j => source[i] # source[j]
        /\ acc.full => NumRows - n < k - 1
    BY <1>3 DEF ComesFrom
  <1> HIDE DEF p, L
  <1>11. ASSUME NEW i \in 1 .. L
         PROVE  /\ source[i] \in 1 .. NumRows /\ source[i] # k
                /\ source[i] # acc.spare
    <2>1. source[i] \in 1 .. NumRows
      BY <1>1, <1>4
    <2>2. source[i] <= k - 1 \/ source[i] > acc.spare
      BY <1>4
    <2>3. k <= acc.spare /\ acc.spare \in Nat /\ k \in Nat
      BY <1>1, <1>3
    <2> QED
      BY <2>1, <2>2, <2>3
  (* One row is appended, which is that of the table or has its place.     *)
  <1>5. ASSUME NEW q \in Row, SameRow(q, p), NEW s, NEW f \in BOOLEAN,
               acc.full => f, ~f => q = p, f => NumRows - n < k
        PROVE  LET next == [rows |-> Append(acc.rows, q), start |-> s,
                            spare |-> acc.spare, full |-> f]
               IN  \E new : ComesFrom(next, sorted, n, k, new)
    <2> DEFINE next == [rows |-> Append(acc.rows, q), start |-> s,
                        spare |-> acc.spare, full |-> f]
               new == [i \in 1 .. L + 1 |-> IF i = L + 1 THEN k ELSE source[i]]
    <2>1. /\ Len(next.rows) = L + 1 /\ next.spare = acc.spare /\ next.full = f
          /\ \A i \in 1 .. L : next.rows[i] = acc.rows[i]
          /\ next.rows[L + 1] = q
      BY <1>3 DEF L
    <2>2. \A i \in 1 .. L + 1 : i = L + 1 \/ i \in 1 .. L
      BY <1>4
    <2>3. new \in [1 .. L + 1 -> Rows]
      BY <1>2, <1>4, <2>2
    <2>4. /\ \A i \in 1 .. L : new[i] = source[i] /\ source[i] \in 1 .. NumRows
          /\ new[L + 1] = k
      BY <1>1, <1>4
    <2> HIDE DEF next, new
    <2>5. ASSUME NEW i \in 1 .. L + 1
          PROVE  /\ new[i] <= k \/ new[i] > next.spare
                 /\ SameRow(next.rows[i], sorted[new[i]])
                 /\ new[i] <= n /\ ~next.full => next.rows[i] = sorted[new[i]]
      <3>1. CASE i = L + 1
        BY <1>1, <1>5, <2>1, <2>4, <3>1 DEF p
      <3>2. CASE i \in 1 .. L
        BY <1>1, <1>3, <1>4, <1>5, <2>1, <2>4, <3>2
      <3> QED
        BY <2>2, <3>1, <3>2
    <2>6. \A i \in 1 .. L : source[i] # k
      BY <1>11
    <2>7. \A i, j \in 1 .. L + 1 : i # j => new[i] # new[j]
      BY <1>4, <2>2, <2>4, <2>6
    <2>8. L + 1 = k + NumRows - acc.spare /\ NumRows - acc.spare <= k
      BY <1>1, <1>3, <1>4
    <2>9. ComesFrom(next, sorted, n, k, new)
      BY <1>5, <2>1, <2>3, <2>5, <2>7, <2>8 DEF ComesFrom
    <2> QED
      BY <2>9 DEF next
  <1>6. SameRow(p, p)
    BY DEF SameRow
  <1>7. CASE acc.full
    <2>1. Placed(acc, sorted, n, k) =
            [rows |-> Append(acc.rows, p), start |-> acc.start,
             spare |-> acc.spare, full |-> TRUE]
      BY <1>3, <1>7 DEF Placed, p
    <2>2. NumRows - n < k
      BY <1>1, <1>4, <1>7
    <2> QED
      BY <1>2, <1>5, <1>6, <1>7, <2>1, <2>2
  <1>8. CASE ~acc.full /\ p.rel <= acc.start
    <2> DEFINE s == IF acc.start > p.rel + p.num THEN acc.start ELSE p.rel + p.num
    <2>1. Placed(acc, sorted, n, k) =
            [rows |-> Append(acc.rows, p), start |-> s,
             spare |-> acc.spare, full |-> FALSE]
      BY <1>3, <1>8 DEF Placed, p
    <2> QED
      BY <1>2, <1>5, <1>6, <1>8, <2>1
  <1>9. CASE ~acc.full /\ ~(p.rel <= acc.start) /\ acc.spare = n
    <2> DEFINE q == IF acc.start < DiskEnd THEN Gap(p, acc.start, DiskEnd) ELSE p
    <2>1. Placed(acc, sorted, n, k) =
            [rows |-> Append(acc.rows, q), start |-> acc.start,
             spare |-> acc.spare, full |-> TRUE]
      BY <1>3, <1>9 DEF Placed, p
    <2>2. q \in Row /\ SameRow(q, p)
      <3>1. DiskEnd \in Numbers /\ DiskEnd \in Nat
        BY NumberBounds
      <3> QED
        BY <1>2, <1>3, <1>6, <3>1, GapType
    <2>3. NumRows - n < k
      BY <1>1, <1>4, <1>9
    <2> HIDE DEF q
    <2> QED
      BY <1>5, <1>9, <2>1, <2>2, <2>3
  <1>10. CASE ~acc.full /\ ~(p.rel <= acc.start) /\ acc.spare # n
    <2> DEFINE g == Gap(sorted[acc.spare], acc.start, p.rel)
               next == [rows |-> acc.rows \o <<g, p>>, start |-> p.rel + p.num,
                        spare |-> acc.spare - 1, full |-> FALSE]
               new == [i \in 1 .. L + 2 |-> IF i = L + 1 THEN acc.spare
                                            ELSE IF i = L + 2 THEN k ELSE source[i]]
    <2>1. Placed(acc, sorted, n, k) = next
      BY <1>3, <1>10 DEF Placed, p
    <2>2. acc.spare \in Rows /\ acc.spare - 1 \in n .. NumRows /\ acc.spare > k
      BY <1>1, <1>3, <1>10
    <2>3. g \in Row /\ SameRow(g, sorted[acc.spare])
      BY <1>2, <1>3, <1>10, <2>2, GapType
    <2> HIDE DEF g
    <2>4. /\ Len(next.rows) = L + 2 /\ next.spare = acc.spare - 1 /\ next.full = FALSE
          /\ \A i \in 1 .. L : next.rows[i] = acc.rows[i]
          /\ next.rows[L + 1] = g /\ next.rows[L + 2] = p
      BY <1>2, <1>3, <1>4, <2>3 DEF L
    <2>5. \A i \in 1 .. L + 2 : i = L + 1 \/ i = L + 2 \/ i \in 1 .. L
      BY <1>4
    <2>6. new \in [1 .. L + 2 -> Rows]
      BY <1>2, <1>4, <2>2, <2>5
    <2>7. /\ \A i \in 1 .. L : new[i] = source[i] /\ source[i] \in 1 .. NumRows
          /\ new[L + 1] = acc.spare /\ new[L + 2] = k
      BY <1>1, <1>4
    <2> HIDE DEF next, new
    <2>8. ASSUME NEW i \in 1 .. L + 2
          PROVE  /\ new[i] <= k \/ new[i] > next.spare
                 /\ SameRow(next.rows[i], sorted[new[i]])
                 /\ new[i] <= n /\ ~next.full => next.rows[i] = sorted[new[i]]
      <3>1. CASE i = L + 1
        BY <1>1, <1>3, <1>10, <2>2, <2>3, <2>4, <2>7, <3>1
      <3>2. CASE i = L + 2
        BY <1>1, <1>6, <2>4, <2>7, <3>2 DEF p
      <3>3. CASE i \in 1 .. L
        <4>1. new[i] = source[i] /\ next.rows[i] = acc.rows[i]
          BY <2>4, <2>7, <3>3
        <4>2. source[i] \in 1 .. NumRows
          BY <1>11, <3>3
        <4>3. source[i] <= k \/ source[i] > acc.spare - 1
          <5>1. source[i] <= k - 1 \/ source[i] > acc.spare
            BY <1>4, <3>3
          <5>2. acc.spare \in Nat /\ k \in Nat
            BY <1>1, <1>3
          <5> QED
            BY <4>2, <5>1, <5>2
        <4>4. /\ SameRow(acc.rows[i], sorted[source[i]])
              /\ source[i] <= n => acc.rows[i] = sorted[source[i]]
          BY <1>4, <1>10, <3>3
        <4> QED
          BY <2>4, <4>1, <4>3, <4>4
      <3> QED
        BY <2>5, <3>1, <3>2, <3>3
    <2>9. \A i \in 1 .. L : source[i] # k /\ source[i] # acc.spare
      BY <1>11
    <2>10. ASSUME NEW i \in 1 .. L + 2, NEW j \in 1 .. L + 2, i # j
           PROVE  new[i] # new[j]
      <3>1. acc.spare # k
        BY <1>3, <2>2
      <3>2. CASE i \in 1 .. L
        BY <1>4, <2>5, <2>7, <2>9, <2>10, <3>2
      <3>3. CASE i \notin 1 .. L
        BY <1>4, <2>5, <2>7, <2>9, <2>10, <3>1, <3>3
      <3> QED
        BY <3>2, <3>3
    <2>11. /\ L + 2 = k + NumRows - (acc.spare - 1)
           /\ NumRows - (acc.spare - 1) <= k
      BY <1>1, <1>3, <1>4
    <2>12. ComesFrom(next, sorted, n, k, new)
      BY <2>4, <2>6, <2>8, <2>10, <2>11 DEF ComesFrom
    <2> QED
      BY <2>1, <2>12
  <1> QED
    BY <1>7, <1>8, <1>9, <1>10
(* An arranged table has the rows of the table, each once: its type, tag   *)
(* and place in the MBR.  If the gaps can have a row each, the used rows   *)
(* stay where they are.                                                    *)
Rearranged(new, t, source) ==
  /\ IsPermutation(source, NumRows)
  /\ \A r \in Rows : SameRow(new[r], t[source[r]])
Kept(new, t, source) ==
  \A r \in Rows : t[source[r]].type # Unused => new[r] = t[source[r]]

(* The turns of the loop, and the rows behind them.                        *)
LastRows(end, sorted, n) ==
  [k \in 1 .. end.spare - n |->
     IF k = 1 /\ end.start < DiskEnd THEN Gap(sorted[n + k], end.start, DiskEnd)
     ELSE Gap(sorted[n + k], 0, 0)]
Adjusting(steps, sorted, n) ==
  /\ steps \in [0 .. n -> Filling(n)]
  /\ steps[0] = [rows |-> << >>, start |-> 1, spare |-> NumRows, full |-> FALSE]
  /\ \A k \in 1 .. n : steps[k] = Placed(steps[k - 1], sorted, n, k)
LEMMA AdjustedSteps ==
  ASSUME NEW t \in [Rows -> Row]
  PROVE  /\ Sorted(t) \in [Rows -> Row]
         /\ \E steps :
              LET n == Cardinality(Used(t))
              IN  /\ Adjusting(steps, Sorted(t), n)
                  /\ Adjusted(t) = steps[n].rows \o LastRows(steps[n], Sorted(t), n)
  <1> DEFINE sorted == Sorted(t)
             n == Cardinality(Used(t))
             first == [rows |-> << >>, start |-> 1, spare |-> NumRows, full |-> FALSE]
             after == CHOOSE h : h = [k \in 0 .. n |->
                        IF k = 0 THEN first ELSE Placed(h[k - 1], sorted, n, k)]
             end == after[n]
             rest(k, p) == IF k = 1 /\ end.start < DiskEnd
                           THEN Gap(p, end.start, DiskEnd) ELSE Gap(p, 0, 0)
             tail == [k \in 1 .. end.spare - n |-> rest(k, sorted[n + k])]
             S == Filling(n)
             f == [x \in S \X (1 .. n) |-> Placed(x[1], sorted, n, x[2])]
  <1>1. Adjusted(t) = end.rows \o LastRows(end, sorted, n)
    <2>1. Adjusted(t) = end.rows \o tail
      BY DEF Adjusted
    <2>2. tail = LastRows(end, sorted, n)
      <3> HIDE DEF end, sorted, n
      <3> QED
        BY DEF LastRows
    <2> QED
      BY <2>1, <2>2
  <1>2. Rows = 1 .. NumRows /\ NumRows \in Nat
    BY NumberBounds DEF Rows
  <1>3. n \in 0 .. NumRows
    BY UsedFirst
  <1>4. PICK p : /\ IsPermutation(p, NumRows)
                 /\ sorted = [k \in Rows |-> t[p[k]]]
    BY SortedPermutes
  <1>5. sorted \in [Rows -> Row]
    <2>1. \A k \in Rows : t[p[k]] \in Row
      BY <1>2, <1>4 DEF IsPermutation
    <2> HIDE DEF sorted
    <2> QED
      BY <1>4, <2>1
  <1> HIDE DEF sorted, n
  <1>7. first \in S
    BY <1>2, <1>3 DEF Filling
  <1>8. f \in [S \X (1 .. n) -> S]
    <2> HIDE DEF S
    <2>1. \A acc \in S, k \in 1 .. n : Placed(acc, sorted, n, k) \in S
      BY <1>3, <1>5, PlacedType DEF S
    <2> QED
      BY <2>1
  <1>9. PICK h \in [0 .. n -> S] : IsLoop(h, first, n, f)
    <2> HIDE DEF f, S, first
    <2>1. n \in Nat
      BY <1>3
    <2> QED
      BY <1>7, <1>8, <2>1, LoopExists
  <1> HIDE DEF S, first
  <1>10. ASSUME NEW k \in 0 .. n
         PROVE  h[k] = IF k = 0 THEN first ELSE Placed(h[k - 1], sorted, n, k)
    <2>1. h[k] = IF k = 0 THEN first ELSE f[<<h[k - 1], k>>]
      BY <1>9 DEF IsLoop
    <2>2. CASE k # 0
      <3>1. k \in 1 .. n /\ h[k - 1] \in S
        BY <1>3, <1>9, <2>2
      <3>2. f[<<h[k - 1], k>>] = Placed(h[k - 1], sorted, n, k)
        BY <3>1
      <3> QED
        BY <2>1, <2>2, <3>2
    <2> QED
      BY <2>1, <2>2
  <1>11. /\ after = [k \in 0 .. n |->
                       IF k = 0 THEN first ELSE Placed(after[k - 1], sorted, n, k)]
    <2>1. h = [k \in 0 .. n |->
                 IF k = 0 THEN first ELSE Placed(h[k - 1], sorted, n, k)]
      <3> DEFINE g == [k \in 0 .. n |->
                 IF k = 0 THEN first ELSE Placed(h[k - 1], sorted, n, k)]
      <3>1. \A k \in 0 .. n : h[k] = g[k]
        BY <1>10
      <3>2. DOMAIN h = 0 .. n /\ DOMAIN g = 0 .. n /\ h = [k \in 0 .. n |-> h[k]]
        BY <1>9
      <3>3. g = [k \in 0 .. n |-> g[k]]
        OBVIOUS
      <3> HIDE DEF g
      <3> QED
        BY <3>1, <3>2, <3>3 DEF g
    <2> QED
      BY <2>1
  <1>12. \A k \in 0 .. n :
           after[k] = IF k = 0 THEN first ELSE Placed(after[k - 1], sorted, n, k)
    <2> HIDE DEF after
    <2> QED
      BY <1>11
  <1>13. after = [k \in 0 .. n |-> after[k]]
    <2> HIDE DEF first
    <2> DEFINE e == after
    <2>1. e = [k \in 0 .. n |-> IF k = 0 THEN first ELSE Placed(e[k - 1], sorted, n, k)]
      BY <1>11
    <2> HIDE DEF e
    <2>2. e = [k \in 0 .. n |-> e[k]]
      BY <2>1
    <2> QED
      BY <2>2 DEF e
  <1> HIDE DEF after
  <1> DEFINE G == {k \in 0 .. n : after[k] \in S}
  <1>14. 0 \in G
    <2>1. 0 \in 0 .. n /\ after[0] = first
      BY <1>3, <1>12
    <2> QED
      BY <1>7, <2>1
  <1>15. ASSUME NEW k \in 1 .. n
         PROVE  after[k] = Placed(after[k - 1], sorted, n, k) /\ k \in 0 .. n
    <2>1. k \in 0 .. n /\ k # 0
      BY <1>3
    <2> QED
      BY <1>12, <2>1
  <1>16. ASSUME NEW k \in 1 .. n, k - 1 \in G PROVE k \in G
    <2>1. after[k - 1] \in S
      BY <1>16
    <2>2. after[k] \in S
      BY <1>3, <1>5, <1>15, <2>1, PlacedType DEF S
    <2> QED
      BY <1>15, <2>2
  <1>17. \A k \in 0 .. n : k \in G
    <2> HIDE DEF G
    <2>1. n \in Nat
      BY <1>3
    <2> QED
      BY <1>14, <1>16, <2>1, Turns
  <1>18. after \in [0 .. n -> S]
    BY <1>13, <1>17
  <1>19. Adjusting(after, sorted, n)
    <2>1. after[0] = first
      <3>1. 0 \in 0 .. n
        BY <1>3
      <3> QED
        BY <1>12, <3>1
    <2> QED
      BY <1>15, <1>18, <2>1 DEF Adjusting, S, first
  <1> HIDE DEF end
  <1>20. \E steps : /\ Adjusting(steps, sorted, n)
                    /\ Adjusted(t) = steps[n].rows \o LastRows(steps[n], sorted, n)
    BY <1>1, <1>19 DEF end
  <1> QED
    BY <1>5, <1>20 DEF sorted, n
LEMMA AdjustedRows ==
  ASSUME NEW t \in [Rows -> Row]
  PROVE  /\ Adjusted(t) \in [Rows -> Row]
         /\ \E source :
              /\ Rearranged(Adjusted(t), t, source)
              /\ 2 * Cardinality(Used(t)) <= NumRows => Kept(Adjusted(t), t, source)
  <1> DEFINE sorted == Sorted(t)
             n == Cardinality(Used(t))
             first == [rows |-> << >>, start |-> 1, spare |-> NumRows, full |-> FALSE]
             S == Filling(n)
  <1>5. /\ sorted \in [Rows -> Row]
        /\ \E steps : /\ Adjusting(steps, sorted, n)
                      /\ Adjusted(t) = steps[n].rows \o LastRows(steps[n], sorted, n)
    BY AdjustedSteps
  <1>7. PICK after : /\ Adjusting(after, sorted, n)
                     /\ Adjusted(t) = after[n].rows \o LastRows(after[n], sorted, n)
    BY <1>5
  <1> DEFINE end == after[n]
             rest(k, p) == IF k = 1 /\ end.start < DiskEnd
                           THEN Gap(p, end.start, DiskEnd) ELSE Gap(p, 0, 0)
             tail == [k \in 1 .. end.spare - n |-> rest(k, sorted[n + k])]
  <1>1. Adjusted(t) = end.rows \o tail
    <2> HIDE DEF sorted, n
    <2> QED
      BY <1>7 DEF LastRows
  <1>2. Rows = 1 .. NumRows /\ NumRows \in Nat
    BY NumberBounds DEF Rows
  <1>3. n \in 0 .. NumRows
    BY UsedFirst
  <1>4. PICK p : /\ IsPermutation(p, NumRows)
                 /\ sorted = [k \in Rows |-> t[p[k]]]
    BY SortedPermutes
  <1>6. \A k \in Rows : sorted[k].type # Unused <=> k <= n
    BY UsedFirst
  <1> HIDE DEF sorted, n
  <1>8. /\ after[0] = first /\ \A k \in 0 .. n : after[k] \in S
        /\ \A k \in 1 .. n : after[k] = Placed(after[k - 1], sorted, n, k)
    BY <1>7 DEF Adjusting
  <1> DEFINE G == {k \in 0 .. n : /\ after[k] \in S
                                  /\ \E s : ComesFrom(after[k], sorted, n, k, s)}
  <1>13. 0 \in G
    <2>1. 0 \in 0 .. n /\ after[0] = first /\ after[0] \in S
      BY <1>3, <1>8
    <2>2. ComesFrom(first, sorted, n, 0, << >>)
      BY <1>2, <1>3 DEF ComesFrom, first
    <2> HIDE DEF first, S
    <2> QED
      BY <2>1, <2>2
  <1>14. ASSUME NEW k \in 1 .. n, k - 1 \in G PROVE k \in G
    <2>1. after[k - 1] \in S /\ \E s : ComesFrom(after[k - 1], sorted, n, k - 1, s)
      BY <1>14
    <2>2. k \in 0 .. n /\ after[k] = Placed(after[k - 1], sorted, n, k)
      <3>1. k \in 0 .. n
        BY <1>3
      <3> QED
        BY <1>8, <3>1
    <2>3. after[k] \in S
      BY <1>8, <2>2
    <2>4. \E s : ComesFrom(after[k], sorted, n, k, s)
      BY <1>3, <1>5, <2>1, <2>2, PlacedKeeps DEF S
    <2> QED
      BY <2>2, <2>3, <2>4
  <1>15. n \in G
    <2> HIDE DEF G
    <2>1. n \in Nat /\ n \in 0 .. n
      BY <1>3
    <2> QED
      BY <1>13, <1>14, <2>1, Turns
  <1>16. PICK from : end \in S /\ ComesFrom(end, sorted, n, n, from)
    BY <1>15
  <1> HIDE DEF end, G
  <1> DEFINE L == Len(end.rows)
             s == [r \in Rows |-> IF r <= L THEN from[r] ELSE n + (r - L)]
             source == [r \in Rows |-> p[s[r]]]
  <1>17. /\ end.rows \in Seq(Row) /\ end.start \in Nat /\ end.spare \in n .. NumRows
         /\ end.full \in BOOLEAN /\ L \in Nat /\ L = n + NumRows - end.spare
         /\ from \in [1 .. L -> Rows]
         /\ \A i \in 1 .. L :
              /\ from[i] <= n \/ from[i] > end.spare
              /\ SameRow(end.rows[i], sorted[from[i]])
              /\ from[i] <= n /\ ~end.full => end.rows[i] = sorted[from[i]]
         /\ \A i, j \in 1 .. L : i # j => from[i] # from[j]
         /\ end.full => NumRows - n < n
    BY <1>16 DEF ComesFrom, S, Filling
  <1>18. \A k \in 1 .. end.spare - n : n + k \in Rows /\ sorted[n + k] \in Row
    BY <1>2, <1>3, <1>5, <1>17
  <1>19. ASSUME NEW k \in 1 .. end.spare - n
         PROVE  rest(k, sorted[n + k]) \in Row
                /\ SameRow(rest(k, sorted[n + k]), sorted[n + k])
    <2>1. sorted[n + k] \in Row
      BY <1>18
    <2>2. /\ 0 \in Nat /\ 0 \in Numbers /\ 0 <= 0 /\ DiskEnd \in Numbers
          /\ DiskEnd \in Nat
      BY NumberBounds
    <2>3. Gap(sorted[n + k], 0, 0) \in Row
          /\ SameRow(Gap(sorted[n + k], 0, 0), sorted[n + k])
      BY <2>1, <2>2, GapType
    <2>4. end.start < DiskEnd =>
            /\ Gap(sorted[n + k], end.start, DiskEnd) \in Row
            /\ SameRow(Gap(sorted[n + k], end.start, DiskEnd), sorted[n + k])
      BY <1>17, <2>1, <2>2, GapType
    <2> QED
      BY <2>3, <2>4
  <1> HIDE DEF rest
  <1>20. tail \in Seq(Row) /\ Len(tail) = end.spare - n
         /\ \A k \in 1 .. end.spare - n : tail[k] = rest(k, sorted[n + k])
    <2>1. tail \in [1 .. end.spare - n -> Row]
      BY <1>19
    <2>2. end.spare - n \in Nat
      BY <1>3, <1>17
    <2>3. \A k \in 1 .. end.spare - n : tail[k] = rest(k, sorted[n + k])
      OBVIOUS
    <2> HIDE DEF tail
    <2> QED
      BY <2>1, <2>2, <2>3, AsSequence
  <1> HIDE DEF tail
  <1> DEFINE A == end.rows \o tail
  <1>21. /\ A \in Seq(Row) /\ Len(A) = NumRows
         /\ \A r \in 1 .. L : A[r] = end.rows[r]
         /\ \A r \in Rows : r > L => A[r] = tail[r - L] /\ r - L \in 1 .. end.spare - n
    <2>1. /\ A \in Seq(Row) /\ Len(A) = L + (end.spare - n)
          /\ \A r \in 1 .. L + (end.spare - n) :
               A[r] = IF r <= L THEN end.rows[r] ELSE tail[r - L]
      <3> DEFINE a == end.rows
      <3>1. a \in Seq(Row) /\ tail \in Seq(Row)
        BY <1>17, <1>20
      <3> HIDE DEF a
      <3>2. /\ a \o tail \in Seq(Row) /\ Len(a \o tail) = Len(a) + Len(tail)
            /\ \A r \in 1 .. Len(a) + Len(tail) :
                 (a \o tail)[r] = IF r <= Len(a) THEN a[r] ELSE tail[r - Len(a)]
        BY <3>1, Joined, Zenon
      <3> QED
        BY <1>20, <3>2, Zenon DEF a
    <2> HIDE DEF A, L
    <2>2. L + (end.spare - n) = NumRows /\ L <= NumRows /\ end.spare - n \in Nat
      BY <1>2, <1>3, <1>17
    <2>3. ASSUME NEW r \in 1 .. L PROVE A[r] = end.rows[r]
      <3>1. r \in 1 .. L + (end.spare - n) /\ r <= L
        BY <1>17, <2>2
      <3> QED
        BY <2>1, <3>1
    <2>4. ASSUME NEW r \in Rows, r > L
          PROVE  A[r] = tail[r - L] /\ r - L \in 1 .. end.spare - n
      <3>1. r \in 1 .. L + (end.spare - n) /\ ~(r <= L)
        BY <1>2, <1>17, <2>2, <2>4
      <3>2. r - L \in 1 .. end.spare - n
        BY <1>2, <1>17, <2>2, <3>1
      <3> QED
        BY <2>1, <3>1, <3>2
    <2> QED
      BY <2>1, <2>2, <2>3, <2>4
  <1> HIDE DEF A, L
  <1>22. A \in [Rows -> Row]
    BY <1>2, <1>21
  <1>30. \A r \in Rows : s[r] = IF r <= L THEN from[r] ELSE n + (r - L)
    OBVIOUS
  <1>31. s = [r \in Rows |-> s[r]]
    OBVIOUS
  <1> HIDE DEF s
  <1>23. ASSUME NEW r \in Rows
         PROVE  /\ s[r] \in Rows /\ SameRow(A[r], sorted[s[r]])
                /\ s[r] <= n /\ ~end.full => A[r] = sorted[s[r]]
                /\ r > L => s[r] > n /\ s[r] <= end.spare
    <2>1. CASE r <= L
      <3>1. r \in 1 .. L /\ s[r] = from[r]
        BY <1>2, <1>30, <2>1
      <3>2. from[r] \in Rows /\ A[r] = end.rows[r]
        BY <1>17, <1>21, <3>1
      <3>3. /\ SameRow(end.rows[r], sorted[from[r]])
            /\ from[r] <= n /\ ~end.full => end.rows[r] = sorted[from[r]]
        BY <1>17, <3>1
      <3>4. ~(r > L)
        BY <1>2, <1>17, <2>1
      <3> QED
        BY <3>1, <3>2, <3>3, <3>4
    <2>2. CASE ~(r <= L)
      <3>1. r - L \in 1 .. end.spare - n /\ s[r] = n + (r - L) /\ r > L
        BY <1>2, <1>17, <1>21, <1>30, <2>2
      <3>2. A[r] = tail[r - L] /\ s[r] \in Rows
        BY <1>18, <1>21, <3>1
      <3>3. SameRow(A[r], sorted[s[r]])
        BY <1>19, <1>20, <3>1, <3>2
      <3>4. s[r] > n /\ s[r] <= end.spare
        BY <1>3, <1>17, <3>1
      <3>5. s[r] \in Int /\ n \in Int
        BY <1>2, <1>3, <3>2
      <3> QED
        BY <3>2, <3>3, <3>4, <3>5
    <2> QED
      BY <2>1, <2>2
  <1>24. ASSUME NEW q \in Rows, NEW r \in Rows, q # r
         PROVE  s[q] # s[r]
    <2>1. q \in Nat /\ r \in Nat /\ n \in Nat /\ end.spare \in Nat
          /\ s[q] \in Nat /\ s[r] \in Nat
      <3>1. \A x \in Rows : x \in Nat
        BY <1>2
      <3>2. s[q] \in Rows /\ s[r] \in Rows
        BY <1>23
      <3> QED
        BY <1>2, <1>3, <1>17, <3>1, <3>2
    <2>2. CASE q <= L /\ r <= L
      <3>1. q \in 1 .. L /\ r \in 1 .. L /\ s[q] = from[q] /\ s[r] = from[r]
        BY <1>2, <1>30, <2>2
      <3> QED
        BY <1>17, <1>24, <3>1
    <2>3. CASE q > L /\ r > L
      <3>1. s[q] = n + (q - L) /\ s[r] = n + (r - L)
        BY <1>17, <1>30, <2>1, <2>3
      <3> QED
        BY <1>17, <1>24, <2>1, <3>1
    <2>4. ASSUME NEW x \in Rows, NEW y \in Rows, x <= L, y > L
          PROVE  s[x] # s[y]
      <3>1. x \in 1 .. L /\ s[x] = from[x]
        BY <1>2, <1>30, <2>4
      <3>2. from[x] <= n \/ from[x] > end.spare
        BY <1>17, <3>1
      <3>3. s[y] > n /\ s[y] <= end.spare /\ s[y] \in Nat /\ s[x] \in Nat
        BY <1>2, <1>23, <2>4
      <3> QED
        BY <2>1, <3>1, <3>2, <3>3
    <2>5. (q <= L \/ q > L) /\ (r <= L \/ r > L)
      BY <1>17, <2>1
    <2> QED
      BY <2>2, <2>3, <2>4, <2>5
  <1>25. s \in [Rows -> Rows]
    BY <1>23, <1>31
  <1>26. IsPermutation(source, NumRows)
    <2>1. source \in [1 .. NumRows -> 1 .. NumRows]
      BY <1>2, <1>4, <1>25 DEF IsPermutation
    <2>2. \A q, r \in 1 .. NumRows : q # r => source[q] # source[r]
      BY <1>2, <1>4, <1>24, <1>25 DEF IsPermutation
    <2> HIDE DEF source
    <2> QED
      BY <1>2, <2>1, <2>2, Everyone
  <1>27. ASSUME NEW r \in Rows PROVE sorted[s[r]] = t[source[r]]
    BY <1>4, <1>25
  <1>28. Rearranged(A, t, source)
    <2> HIDE DEF source
    <2> QED
      BY <1>23, <1>26, <1>27 DEF Rearranged
  <1>29. ASSUME 2 * n <= NumRows PROVE Kept(A, t, source)
    <2>1. ~end.full
      BY <1>2, <1>3, <1>17, <1>29
    <2>2. ASSUME NEW r \in Rows, t[source[r]].type # Unused
          PROVE  A[r] = t[source[r]]
      <3>1. sorted[s[r]].type # Unused /\ s[r] \in Rows
        BY <1>25, <1>27, <2>2
      <3> QED
        BY <1>6, <1>23, <1>27, <2>1, <3>1
    <2> HIDE DEF source
    <2> QED
      BY <2>2 DEF Kept
  <1> HIDE DEF source
  <1> QED
    BY <1>1, <1>22, <1>28, <1>29 DEF A, n

(* What is seen of a row; tables of which the same is seen.                *)
Seen(p) == IF p.type = Unused THEN Partition(p) ELSE p
SeenAlike(a, b) ==
  Len(a) = Len(b) /\ \A i \in 1 .. Len(a) : Seen(a[i]) = Seen(b[i])
LEMMA GapSeen ==
  ASSUME NEW p \in Row, NEW q \in Row, p.type = Unused, q.type = Unused,
         NEW x, NEW y
  PROVE  Seen(Gap(p, x, y)) = Seen(Gap(q, x, y))
  <1>1. ASSUME NEW e \in Row, e.type = Unused
        PROVE  Seen(Gap(e, x, y)) = [type |-> Unused, rel |-> x, num |-> y - x]
    BY <1>1 DEF Seen, Partition, Gap, Row
  <1> QED
    BY <1>1
LEMMA JoinedAlike ==
  ASSUME NEW a \in Seq(Row), NEW b \in Seq(Row), NEW c \in Seq(Row),
         NEW d \in Seq(Row), SeenAlike(a, b), SeenAlike(c, d)
  PROVE  SeenAlike(a \o c, b \o d)
  <1>1. Len(a) \in Nat /\ Len(c) \in Nat /\ Len(b) = Len(a) /\ Len(d) = Len(c)
        /\ (\A i \in 1 .. Len(a) : Seen(a[i]) = Seen(b[i]))
        /\ \A i \in 1 .. Len(c) : Seen(c[i]) = Seen(d[i])
    BY DEF SeenAlike
  <1>2. /\ Len(a \o c) = Len(a) + Len(c)
        /\ \A r \in 1 .. Len(a) + Len(c) :
             (a \o c)[r] = IF r <= Len(a) THEN a[r] ELSE c[r - Len(a)]
    BY Joined, Zenon
  <1>3. /\ Len(b \o d) = Len(b) + Len(d)
        /\ \A r \in 1 .. Len(b) + Len(d) :
             (b \o d)[r] = IF r <= Len(b) THEN b[r] ELSE d[r - Len(b)]
    BY Joined, Zenon
  <1>4. ASSUME NEW r \in 1 .. Len(a) + Len(c)
        PROVE  Seen((a \o c)[r]) = Seen((b \o d)[r])
    <2>1. CASE r <= Len(a)
      <3>1. (a \o c)[r] = a[r] /\ (b \o d)[r] = b[r] /\ r \in 1 .. Len(a)
        BY <1>1, <1>2, <1>3, <2>1
      <3> QED
        BY <1>1, <3>1
    <2>2. CASE ~(r <= Len(a))
      <3>1. /\ (a \o c)[r] = c[r - Len(a)] /\ (b \o d)[r] = d[r - Len(a)]
            /\ r - Len(a) \in 1 .. Len(c)
        BY <1>1, <1>2, <1>3, <2>2
      <3> QED
        BY <1>1, <3>1
    <2> QED
      BY <2>1, <2>2
  <1> QED
    BY <1>1, <1>2, <1>3, <1>4 DEF SeenAlike
LEMMA OneMore ==
  ASSUME NEW a \in Seq(Row), NEW b \in Seq(Row), NEW p \in Row, NEW q \in Row,
         SeenAlike(a, b), Seen(p) = Seen(q)
  PROVE  SeenAlike(Append(a, p), Append(b, q))
  <1>1. Len(a) \in Nat /\ Len(b) = Len(a)
        /\ \A i \in 1 .. Len(a) : Seen(a[i]) = Seen(b[i])
    BY DEF SeenAlike
  <1>2. /\ Len(Append(a, p)) = Len(a) + 1
        /\ \A i \in 1 .. Len(a) + 1 :
             Append(a, p)[i] = IF i <= Len(a) THEN a[i] ELSE p
    OBVIOUS
  <1>3. /\ Len(Append(b, q)) = Len(b) + 1
        /\ \A i \in 1 .. Len(b) + 1 :
             Append(b, q)[i] = IF i <= Len(b) THEN b[i] ELSE q
    OBVIOUS
  <1>4. ASSUME NEW i \in 1 .. Len(a) + 1
        PROVE  Seen(Append(a, p)[i]) = Seen(Append(b, q)[i])
    <2>1. CASE i <= Len(a)
      <3>1. /\ Append(a, p)[i] = a[i] /\ Append(b, q)[i] = b[i] /\ i \in 1 .. Len(a)
        BY <1>1, <1>2, <1>3, <2>1
      <3> QED
        BY <1>1, <3>1
    <2>2. CASE ~(i <= Len(a))
      <3>1. /\ Append(a, p)[i] = p /\ Append(b, q)[i] = q
        BY <1>1, <1>2, <1>3, <2>2
      <3> QED
        BY <3>1
    <2> QED
      BY <2>1, <2>2
  <1> QED
    BY <1>1, <1>2, <1>3, <1>4 DEF SeenAlike

(* One turn of the loop, case by case.                                     *)
TurnIs(acc, sorted, n, p, new) ==
  /\ acc.full =>
       new = [rows |-> Append(acc.rows, p), start |-> acc.start,
              spare |-> acc.spare, full |-> acc.full]
  /\ ~acc.full /\ p.rel <= acc.start =>
       new = [rows |-> Append(acc.rows, p),
              start |-> IF acc.start > p.rel + p.num THEN acc.start
                        ELSE p.rel + p.num,
              spare |-> acc.spare, full |-> acc.full]
  /\ ~acc.full /\ ~(p.rel <= acc.start) /\ acc.spare = n =>
       new = [rows |-> Append(acc.rows, IF acc.start < DiskEnd
                                        THEN Gap(p, acc.start, DiskEnd) ELSE p),
              start |-> acc.start, spare |-> acc.spare, full |-> TRUE]
  /\ ~acc.full /\ ~(p.rel <= acc.start) /\ acc.spare # n =>
       new = [rows |-> acc.rows \o <<Gap(sorted[acc.spare], acc.start, p.rel), p>>,
              start |-> p.rel + p.num, spare |-> acc.spare - 1, full |-> FALSE]
LEMMA PlacedIs ==
  ASSUME NEW n \in 0 .. NumRows, NEW sorted, NEW acc \in Filling(n),
         NEW k \in 1 .. n
  PROVE  TurnIs(acc, sorted, n, sorted[k], Placed(acc, sorted, n, k))
  <1>1. acc = [rows |-> acc.rows, start |-> acc.start, spare |-> acc.spare,
               full |-> acc.full]
    BY DEF Filling
  <1>2. CASE acc.full
    BY <1>1, <1>2 DEF Placed, TurnIs
  <1>3. CASE ~acc.full /\ sorted[k].rel <= acc.start
    BY <1>1, <1>3 DEF Placed, TurnIs
  <1>4. CASE ~acc.full /\ ~(sorted[k].rel <= acc.start) /\ acc.spare = n
    BY <1>1, <1>4 DEF Placed, TurnIs
  <1>5. CASE ~acc.full /\ ~(sorted[k].rel <= acc.start) /\ acc.spare # n
    BY <1>1, <1>5 DEF Placed, TurnIs
  <1> QED
    BY <1>2, <1>3, <1>4, <1>5

(* One turn of the loop over two sorted tables with the same used rows.    *)
Alike(x, y) ==
  /\ x.start = y.start /\ x.spare = y.spare /\ x.full = y.full
  /\ SeenAlike(x.rows, y.rows)
SameFirst(v, w, n) ==
  /\ v \in [Rows -> Row] /\ w \in [Rows -> Row]
  /\ \A k \in 1 .. n : v[k] = w[k]
  /\ \A k \in Rows : k > n => v[k].type = Unused /\ w[k].type = Unused
LEMMA PlacedAlike ==
  ASSUME NEW n \in 0 .. NumRows, NEW v, NEW w, SameFirst(v, w, n),
         NEW x \in Filling(n), NEW y \in Filling(n), Alike(x, y), NEW k \in 1 .. n
  PROVE  Alike(Placed(x, v, n, k), Placed(y, w, n, k))
  <1> DEFINE p == v[k]
  <1>1. Rows = 1 .. NumRows /\ NumRows \in Nat /\ DiskEnd \in Numbers
    BY NumberBounds DEF Rows
  <1>2. p \in Row /\ p.rel \in Nat /\ p.num \in Nat /\ p.rel \in Numbers /\ w[k] = p
    <2>1. p \in Row /\ w[k] = p
      BY <1>1 DEF SameFirst
    <2> QED
      BY <2>1, NumberBounds DEF Row
  <1>3. /\ x.rows \in Seq(Row) /\ y.rows \in Seq(Row) /\ x.start \in Nat
        /\ x.spare \in n .. NumRows /\ x.full \in BOOLEAN
        /\ x = [rows |-> x.rows, start |-> x.start, spare |-> x.spare,
                full |-> x.full]
        /\ y = [rows |-> y.rows, start |-> x.start, spare |-> x.spare,
                full |-> x.full]
        /\ SeenAlike(x.rows, y.rows)
    BY DEF Filling, Alike
  <1> DEFINE a == x.rows
             b == y.rows
             st == x.start
             sp == x.spare
  <1> DEFINE X == Placed(x, v, n, k)
             Y == Placed(y, w, n, k)
  <1>8. y.start = st /\ y.spare = sp /\ y.full = x.full
    BY DEF Alike
  <1>9. TurnIs(x, v, n, p, X) /\ TurnIs(y, w, n, p, Y)
    BY <1>2, PlacedIs
  <1> HIDE DEF p, X, Y
  <1>4. ASSUME x.full PROVE Alike(X, Y)
    <2>1. /\ X = [rows |-> Append(a, p), start |-> st,
                                   spare |-> sp, full |-> x.full]
          /\ Y = [rows |-> Append(b, p), start |-> st,
                                   spare |-> sp, full |-> x.full]
      BY <1>2, <1>3, <1>8, <1>9, <1>4 DEF TurnIs
    <2>2. SeenAlike(Append(a, p), Append(b, p))
      BY <1>2, <1>3, OneMore
    <2> QED
      BY <2>1, <2>2 DEF Alike
  <1>5. ASSUME ~x.full /\ p.rel <= st PROVE Alike(X, Y)
    <2> DEFINE s == IF st > p.rel + p.num THEN st ELSE p.rel + p.num
    <2>1. /\ X = [rows |-> Append(a, p), start |-> s,
                                   spare |-> sp, full |-> x.full]
          /\ Y = [rows |-> Append(b, p), start |-> s,
                                   spare |-> sp, full |-> x.full]
      BY <1>2, <1>3, <1>8, <1>9, <1>5 DEF TurnIs
    <2>2. SeenAlike(Append(a, p), Append(b, p))
      BY <1>2, <1>3, OneMore
    <2> QED
      BY <2>1, <2>2 DEF Alike
  <1>6. ASSUME ~x.full /\ ~(p.rel <= st) /\ sp = n PROVE Alike(X, Y)
    <2> DEFINE q == IF st < DiskEnd THEN Gap(p, st, DiskEnd) ELSE p
    <2>1. /\ X = [rows |-> Append(a, q), start |-> st,
                                   spare |-> sp, full |-> TRUE]
          /\ Y = [rows |-> Append(b, q), start |-> st,
                                   spare |-> sp, full |-> TRUE]
      BY <1>2, <1>3, <1>8, <1>9, <1>6 DEF TurnIs
    <2>2. q \in Row
      <3>1. DiskEnd \in Numbers /\ DiskEnd \in Nat
        BY NumberBounds
      <3> QED
        BY <1>2, <1>3, <3>1, GapType
    <2> HIDE DEF q
    <2>3. SeenAlike(Append(a, q), Append(b, q))
      BY <1>3, <2>2, OneMore
    <2> QED
      BY <2>1, <2>3 DEF Alike
  <1>7. ASSUME ~x.full /\ ~(p.rel <= st) /\ sp # n PROVE Alike(X, Y)
    <2> DEFINE g == Gap(v[sp], st, p.rel)
               h == Gap(w[sp], st, p.rel)
    <2>1. /\ X = [rows |-> a \o <<g, p>>, start |-> p.rel + p.num,
                                   spare |-> sp - 1, full |-> FALSE]
          /\ Y = [rows |-> b \o <<h, p>>, start |-> p.rel + p.num,
                                   spare |-> sp - 1, full |-> FALSE]
      BY <1>2, <1>3, <1>8, <1>9, <1>7 DEF TurnIs
    <2>2. sp \in Rows /\ sp > n
      BY <1>1, <1>3, <1>7
    <2>3. /\ v[sp] \in Row /\ w[sp] \in Row
          /\ v[sp].type = Unused /\ w[sp].type = Unused
      BY <2>2 DEF SameFirst
    <2>4. g \in Row /\ h \in Row /\ Seen(g) = Seen(h)
      BY <1>2, <1>3, <1>7, <2>3, GapType, GapSeen
    <2> HIDE DEF g, h
    <2>5. /\ <<g, p>> \in Seq(Row) /\ <<h, p>> \in Seq(Row)
          /\ SeenAlike(<<g, p>>, <<h, p>>)
      BY <1>2, <2>4 DEF SeenAlike
    <2>6. SeenAlike(a \o <<g, p>>, b \o <<h, p>>)
      BY <1>3, <2>5, JoinedAlike
    <2> QED
      BY <2>1, <2>6 DEF Alike
  <1>10. Alike(X, Y)
    <2> HIDE DEF a, b, st, sp
    <2> QED
      BY <1>4, <1>5, <1>6, <1>7, Zenon
  <1> QED
    BY <1>10 DEF X, Y
(* Tables with the same used rows are shown alike when they are adjusted.  *)
LEMMA AdjustedAlike ==
  ASSUME NEW t \in [Rows -> Row], NEW u \in [Rows -> Row], SameUsed(t, u)
  PROVE  \A r \in Rows : Seen(Adjusted(u)[r]) = Seen(Adjusted(t)[r])
  <1> DEFINE v == Sorted(t)
             w == Sorted(u)
             n == Cardinality(Used(t))
  <1>1. Rows = 1 .. NumRows /\ NumRows \in Nat
    BY NumberBounds DEF Rows
  <1>2. n \in 0 .. NumRows /\ Cardinality(Used(u)) = n
    BY UsedFirst DEF SameUsed
  <1>3. SameFirst(v, w, n)
    <2>1. v \in [Rows -> Row] /\ w \in [Rows -> Row]
      BY AdjustedSteps
    <2>2. \A k \in 1 .. n : v[k] = w[k]
      BY DEF SameUsed
    <2>3. \A k \in Rows : /\ v[k].type # Unused <=> k <= n
                          /\ w[k].type # Unused <=> k <= n
      BY <1>2, UsedFirst
    <2> HIDE DEF v, w, n
    <2>4. \A k \in Rows : k > n => ~(k <= n)
      BY <1>1, <1>2
    <2> QED
      BY <2>1, <2>2, <2>3, <2>4 DEF SameFirst
  <1>4. PICK x : /\ Adjusting(x, v, n)
                 /\ Adjusted(t) = x[n].rows \o LastRows(x[n], v, n)
    BY AdjustedSteps
  <1>5. PICK y : /\ Adjusting(y, w, n)
                 /\ Adjusted(u) = y[n].rows \o LastRows(y[n], w, n)
    BY <1>2, AdjustedSteps
  <1> HIDE DEF v, w, n
  <1> DEFINE G == {k \in 0 .. n : Alike(x[k], y[k])}
  <1>6. 0 \in G
    <2>1. 0 \in 0 .. n
      BY <1>2
    <2>2. SeenAlike(<< >>, << >>)
      BY DEF SeenAlike
    <2> DEFINE first == [rows |-> << >>, start |-> 1, spare |-> NumRows, full |-> FALSE]
    <2>3. x[0] = first /\ y[0] = first
      BY <1>4, <1>5 DEF Adjusting
    <2>4. Alike(first, first)
      BY <2>2 DEF Alike
    <2> HIDE DEF first
    <2> QED
      BY <2>1, <2>3, <2>4
  <1>7. ASSUME NEW k \in 1 .. n, k - 1 \in G PROVE k \in G
    <2>1. k - 1 \in 0 .. n /\ k \in 0 .. n
      BY <1>2
    <2>2. /\ x[k - 1] \in Filling(n) /\ x[k] = Placed(x[k - 1], v, n, k)
          /\ y[k - 1] \in Filling(n) /\ y[k] = Placed(y[k - 1], w, n, k)
      BY <1>4, <1>5, <2>1 DEF Adjusting
    <2>3. Alike(x[k - 1], y[k - 1])
      BY <1>7
    <2>4. Alike(x[k], y[k])
      BY <1>2, <1>3, <2>2, <2>3, PlacedAlike
    <2> QED
      BY <2>1, <2>4
  <1>8. n \in G /\ n \in 0 .. n
    <2> HIDE DEF G
    <2>1. n \in Nat /\ n \in 0 .. n
      BY <1>2
    <2> QED
      BY <1>6, <1>7, <2>1, Turns
  <1> DEFINE a == x[n]
             b == y[n]
  <1>9. a \in Filling(n) /\ b \in Filling(n) /\ Alike(a, b)
    BY <1>4, <1>5, <1>8 DEF Adjusting
  <1> HIDE DEF a, b, G
  <1>10. /\ a.rows \in Seq(Row) /\ b.rows \in Seq(Row) /\ SeenAlike(a.rows, b.rows)
         /\ a.spare \in n .. NumRows /\ a.start \in Nat
         /\ b.spare = a.spare /\ b.start = a.start
    BY <1>9 DEF Filling, Alike
  <1> DEFINE c == LastRows(a, v, n)
             d == LastRows(b, w, n)
             m == a.spare - n
  <1>11. m \in Nat /\ \A k \in 1 .. m : n + k \in Rows /\ n + k > n
    BY <1>1, <1>2, <1>10
  <1>12. ASSUME NEW z, z \in [Rows -> Row], NEW k \in 1 .. m
         PROVE  /\ Gap(z[n + k], 0, 0) \in Row
                /\ a.start < DiskEnd => Gap(z[n + k], a.start, DiskEnd) \in Row
    <2>1. z[n + k] \in Row
      BY <1>11, <1>12
    <2>2. /\ 0 \in Nat /\ 0 \in Numbers /\ 0 <= 0 /\ DiskEnd \in Numbers
          /\ DiskEnd \in Nat
      BY NumberBounds
    <2>3. Gap(z[n + k], 0, 0) \in Row
      BY <2>1, <2>2, GapType
    <2>4. a.start < DiskEnd => a.start <= DiskEnd
      BY <1>10, <2>2
    <2>5. a.start < DiskEnd => Gap(z[n + k], a.start, DiskEnd) \in Row
      BY <1>10, <2>1, <2>2, <2>4, GapType
    <2> QED
      BY <2>3, <2>5
  <1>13. ASSUME NEW k \in 1 .. m
         PROVE  c[k] \in Row /\ d[k] \in Row /\ Seen(c[k]) = Seen(d[k])
    <2>1. /\ v[n + k] \in Row /\ w[n + k] \in Row
          /\ v[n + k].type = Unused /\ w[n + k].type = Unused
          /\ v \in [Rows -> Row] /\ w \in [Rows -> Row]
      BY <1>3, <1>11 DEF SameFirst
    <2>2. /\ c[k] = IF k = 1 /\ a.start < DiskEnd
                    THEN Gap(v[n + k], a.start, DiskEnd) ELSE Gap(v[n + k], 0, 0)
          /\ d[k] = IF k = 1 /\ a.start < DiskEnd
                    THEN Gap(w[n + k], a.start, DiskEnd) ELSE Gap(w[n + k], 0, 0)
      BY <1>10 DEF LastRows
    <2> HIDE DEF c, d, m
    <2>3. c[k] \in Row /\ d[k] \in Row
      BY <1>12, <2>1, <2>2
    <2>4. Seen(c[k]) = Seen(d[k])
      BY <2>1, <2>2, GapSeen
    <2> QED
      BY <2>3, <2>4
  <1>14. /\ c = [k \in 1 .. m |-> c[k]] /\ d = [k \in 1 .. m |-> d[k]]
    BY <1>10 DEF LastRows
  <1> HIDE DEF c, d, m
  <1>15. c \in [1 .. m -> Row] /\ d \in [1 .. m -> Row]
    BY <1>13, <1>14
  <1>16. c \in Seq(Row) /\ Len(c) = m /\ d \in Seq(Row) /\ Len(d) = m
    BY <1>11, <1>15, AsSequence
  <1>17. SeenAlike(c, d)
    BY <1>13, <1>16 DEF SeenAlike
  <1>18. SeenAlike(a.rows \o c, b.rows \o d)
    BY <1>10, <1>16, <1>17, JoinedAlike
  <1>19. Adjusted(t) = a.rows \o c /\ Adjusted(u) = b.rows \o d
    BY <1>4, <1>5 DEF a, b, c, d
  <1>20. Adjusted(t) \in [Rows -> Row]
    BY AdjustedRows
  <1>21. Len(Adjusted(t)) = NumRows
    BY <1>1, <1>20, AsSequence
  <1> QED
    BY <1>1, <1>18, <1>19, <1>21 DEF SeenAlike
-------------------------------------------------------------------------------
(* What is looked for in a sequence.                                       *)
LEMMA MinIs ==
  ASSUME NEW I, I \subseteq Nat, I # {}
  PROVE  Min(I) \in I /\ \A y \in I : Min(I) <= y
  <1>1. \E x \in I : \A y \in I : x <= y
    BY LeastExists
  <1> QED
    BY <1>1 DEF Min

(* The first row of the manager.                                           *)
FirstManager(t, k) ==
  /\ k \in Rows /\ t[k].type = Manager
  /\ \A j \in 1 .. k - 1 : t[j].type # Manager

LEMMA ManagerRowIs ==
  ASSUME NEW t \in [Rows -> Row]
  PROVE  /\ ManagerRow(t) \in Rows \cup {0}
         /\ ManagerRow(t) = 0 <=> \A r \in Rows : t[r].type # Manager
         /\ ManagerRow(t) # 0 => FirstManager(t, ManagerRow(t))
         /\ \A k : FirstManager(t, k) => ManagerRow(t) = k
  <1> DEFINE I == {i \in 1 .. Len(t) : t[i].type = Manager}
             k == ManagerRow(t)
  <1>1. Rows = 1 .. NumRows /\ NumRows \in Nat
    BY NumberBounds DEF Rows
  <1>2. Len(t) = NumRows
    BY <1>1, AsSequence
  <1>3. k = IF I # {} THEN Min(I) ELSE 0
    BY DEF ManagerRow, SelectInSeq
  <1>4. /\ I \subseteq Rows /\ I \subseteq Nat
        /\ \A i \in Rows : i \in I <=> t[i].type = Manager
    BY <1>1, <1>2
  <1> HIDE DEF I, k
  <1>5. I # {} => k \in I /\ \A y \in I : k <= y
    BY <1>3, <1>4, MinIs
  <1>6. k \in Rows \cup {0} /\ (k = 0 <=> I = {})
    <2>1. I = {} => k = 0
      BY <1>3
    <2>2. I # {} => k \in Rows
      BY <1>4, <1>5
    <2>3. 0 \notin Rows
      BY <1>1
    <2> QED
      BY <2>1, <2>2, <2>3
  <1>7. k # 0 => FirstManager(t, k)
    BY <1>1, <1>4, <1>5, <1>6 DEF FirstManager
  <1>8. ASSUME NEW j, FirstManager(t, j) PROVE k = j
    <2>1. j \in I /\ j \in Rows
      BY <1>4, <1>8 DEF FirstManager
    <2>2. k \in I /\ k <= j /\ k \in Rows
      BY <1>4, <1>5, <2>1
    <2>3. ~(k < j)
      BY <1>1, <1>4, <1>8, <2>2 DEF FirstManager
    <2> QED
      BY <1>1, <2>1, <2>2, <2>3
  <1> QED
    BY <1>4, <1>6, <1>7, <1>8 DEF k

LEMMA WithManagerType ==
  ASSUME NEW t \in [Rows -> Row]
  PROVE  /\ WithManager(t) \in [Rows -> Row]
         /\ \A r \in Rows : WithManager(t)[r].tag = t[r].tag
  <1> DEFINE k == ManagerRow(t)
  <1>1. k \in Rows \cup {0} /\ NumRows \in Rows
    BY ManagerRowIs, NumberBounds
  <1>2. AdvSize \in Numbers /\ Manager \in Types
    BY NumberBounds DEF Types
  <1>3. CASE WithManager(t) = t
    BY <1>3
  <1>4. CASE k # 0 /\ WithManager(t) = [t EXCEPT ![k].num = AdvSize]
    <2>1. [t[k] EXCEPT !.num = AdvSize] \in Row
      BY <1>1, <1>2, <1>4 DEF Row
    <2>2. [t[k] EXCEPT !.num = AdvSize].tag = t[k].tag
      BY <1>1, <1>4 DEF Row
    <2> HIDE DEF k
    <2> QED
      BY <1>1, <1>4, <2>1, <2>2
  <1>5. CASE WithManager(t) = [t EXCEPT ![NumRows].type = Manager,
                                        ![NumRows].num = AdvSize]
    <2> DEFINE p == [t[NumRows] EXCEPT !.type = Manager, !.num = AdvSize]
    <2>1. p \in Row /\ p.tag = t[NumRows].tag
      BY <1>1, <1>2 DEF Row
    <2>2. WithManager(t) = [t EXCEPT ![NumRows] = p]
      BY <1>1, <1>5 DEF Row
    <2> HIDE DEF p
    <2> QED
      BY <1>1, <2>1, <2>2
  <1> QED
    BY <1>3, <1>4, <1>5 DEF WithManager

LEMMA ArrangedTable ==
  ASSUME NEW t \in [Rows -> Row]
  PROVE  /\ Arranged(t) \in [Rows -> Row]
         /\ UniqueTags(t) => UniqueTags(Arranged(t))
  <1> DEFINE w == WithManager(t)
  <1>1. w \in [Rows -> Row] /\ \A r \in Rows : w[r].tag = t[r].tag
    BY WithManagerType
  <1>2. Arranged(t) = Adjusted(w)
    BY DEF Arranged
  <1> HIDE DEF w
  <1>3. /\ Arranged(t) \in [Rows -> Row]
        /\ \E source : Rearranged(Arranged(t), w, source)
    BY <1>1, <1>2, AdjustedRows
  <1>4. PICK source : Rearranged(Arranged(t), w, source)
    BY <1>3
  <1>5. Rows = 1 .. NumRows
    BY DEF Rows
  <1>6. /\ \A r \in Rows : source[r] \in Rows /\ Arranged(t)[r].tag = t[source[r]].tag
        /\ \A q, r \in Rows : q # r => source[q] # source[r]
    BY <1>1, <1>4, <1>5 DEF Rearranged, IsPermutation, SameRow
  <1>7. UniqueTags(t) => UniqueTags(Arranged(t))
    BY <1>6 DEF UniqueTags
  <1> QED
    BY <1>3, <1>7

(* Removing unused rows keeps the tags apart, and what the first row of    *)
(* the manager is.                                                         *)
Removed(u, i) ==
  IF u[i].type # Unused THEN u
  ELSE [r \in Rows |-> IF r < i THEN u[r]
                       ELSE IF r < NumRows THEN u[r + 1] ELSE NoRow]
ManagerIs(t, p) == \E k : FirstManager(t, k) /\ t[k] = p

LEMMA RemovedKeeps ==
  ASSUME NEW u \in [Rows -> Row], NEW i \in Rows
  PROVE  /\ Removed(u, i) \in [Rows -> Row]
         /\ UniqueTags(u) => UniqueTags(Removed(u, i))
         /\ \A p : ManagerIs(u, p) => ManagerIs(Removed(u, i), p)
  <1> DEFINE v == [r \in Rows |-> IF r < i THEN u[r]
                             ELSE IF r < NumRows THEN u[r + 1] ELSE NoRow]
  <1>1. Rows = 1 .. NumRows /\ NumRows \in Nat
    BY NumberBounds DEF Rows
  <1>2. CASE u[i].type # Unused
    BY <1>2 DEF Removed
  <1>3. CASE u[i].type = Unused
    <2>1. Removed(u, i) = v
      BY <1>3 DEF Removed
    <2>2. ASSUME NEW r \in Rows
          PROVE  v[r] \in Row /\ (r < i => v[r] = u[r])
                 /\ (~(r < i) /\ r < NumRows => r + 1 \in Rows /\ v[r] = u[r + 1])
                 /\ (r = NumRows /\ ~(r < i) => v[r] = NoRow)
      <3>1. r < NumRows => r + 1 \in Rows
        BY <1>1
      <3> QED
        BY <1>1, <3>1, NoRowType
    <2>3. v = [r \in Rows |-> v[r]]
      OBVIOUS
    <2> HIDE DEF v
    <2>4. v \in [Rows -> Row]
      BY <2>2, <2>3
    <2>5. ASSUME UniqueTags(u), NEW q \in Rows, NEW r \in Rows, q # r,
                 v[q].tag # 0
          PROVE  v[q].tag # v[r].tag
      <3> DEFINE from(x) == IF x < i THEN x ELSE x + 1
      <3>1. q # NumRows \/ q < i
        BY <2>2, <2>5, NoRowType
      <3>2. from(q) \in Rows /\ v[q] = u[from(q)]
        BY <1>1, <2>2, <3>1
      <3>3. CASE r = NumRows /\ ~(r < i)
        BY <2>2, <2>5, <3>3, NoRowType
      <3>4. CASE r # NumRows \/ r < i
        <4>1. from(r) \in Rows /\ v[r] = u[from(r)] /\ from(q) # from(r)
          BY <1>1, <2>2, <2>5, <3>4
        <4> HIDE DEF from
        <4> QED
          BY <2>5, <3>2, <4>1 DEF UniqueTags
      <3> QED
        BY <3>3, <3>4
    <2>6. ASSUME NEW p, ManagerIs(u, p) PROVE ManagerIs(v, p)
      <3>1. PICK k : FirstManager(u, k) /\ u[k] = p
        BY <2>6 DEF ManagerIs
      <3>2. k \in Rows /\ u[k].type = Manager /\ k # i
            /\ \A j \in 1 .. k - 1 : u[j].type # Manager
        BY <1>3, <3>1 DEF FirstManager, Unused, Manager
      <3>3. CASE k < i
        <4>1. v[k] = u[k] /\ \A j \in 1 .. k - 1 : v[j] = u[j]
          BY <1>1, <2>2, <3>2, <3>3
        <4>2. FirstManager(v, k) /\ v[k] = p
          BY <3>1, <3>2, <4>1 DEF FirstManager
        <4> QED
          BY <4>2 DEF ManagerIs
      <3>4. CASE k > i
        <4>1. k - 1 \in Rows /\ ~(k - 1 < i) /\ k - 1 < NumRows /\ k - 1 + 1 = k
          BY <1>1, <3>2, <3>4
        <4>2. v[k - 1] = u[k]
          BY <2>2, <4>1
        <4>3. ASSUME NEW j \in 1 .. k - 1 - 1 PROVE v[j].type # Manager
          <5>1. j \in Rows /\ j \in 1 .. k - 1 /\ j + 1 \in 1 .. k - 1 /\ j < NumRows
            BY <1>1, <3>2
          <5>2. v[j] = u[j] \/ v[j] = u[j + 1]
            BY <2>2, <5>1
          <5> QED
            BY <3>2, <5>1, <5>2
        <4>4. FirstManager(v, k - 1) /\ v[k - 1] = p
          BY <3>1, <3>2, <4>1, <4>2, <4>3 DEF FirstManager
        <4> QED
          BY <4>4 DEF ManagerIs
      <3> QED
        BY <1>1, <3>2, <3>3, <3>4
    <2> QED
      BY <2>1, <2>4, <2>5, <2>6 DEF UniqueTags
  <1> QED
    BY <1>2, <1>3
LEMMA RemovedSame ==
  ASSUME NEW u \in [Rows -> Row], NEW i \in Rows
  PROVE  SameUsed(u, Removed(u, i))
  <1> DEFINE v == [r \in Rows |-> IF r < i THEN u[r]
                             ELSE IF r < NumRows THEN u[r + 1] ELSE NoRow]
             from == [r \in Used(v) |-> IF r < i THEN r ELSE r + 1]
  <1>1. Rows = 1 .. NumRows /\ NumRows \in Nat /\ NoRow.type = Unused
    BY NumberBounds, NoRowType DEF Rows
  <1>2. CASE u[i].type # Unused
    BY <1>2 DEF Removed, SameUsed
  <1>3. CASE u[i].type = Unused
    <2>1. Removed(u, i) = v
      BY <1>3 DEF Removed
    <2>2. v \in [Rows -> Row]
      BY <2>1, RemovedKeeps
    <2>3. \A r \in Rows : v[r] = IF r < i THEN u[r]
                                 ELSE IF r < NumRows THEN u[r + 1] ELSE NoRow
      OBVIOUS
    <2> HIDE DEF v
    <2>4. ASSUME NEW r \in Used(v)
          PROVE  /\ r \in Rows /\ from[r] = IF r < i THEN r ELSE r + 1
                 /\ from[r] \in Used(u) /\ u[from[r]] = v[r]
      <3>1. r \in Rows /\ v[r].type # Unused
        BY DEF Used
      <3>2. CASE r < i
        BY <2>3, <3>1, <3>2 DEF Used
      <3>3. CASE ~(r < i)
        <4>1. r < NumRows /\ v[r] = u[r + 1]
          BY <1>1, <2>3, <3>1, <3>3
        <4>2. r + 1 \in Rows
          BY <1>1, <3>1, <4>1
        <4> QED
          BY <3>1, <3>3, <4>1, <4>2 DEF Used
      <3> QED
        BY <3>2, <3>3
    <2>5. from \in [Used(v) -> Used(u)]
      BY <2>4
    <2> HIDE DEF from
    <2>6. \A q, r \in Used(v) : q < r => from[q] < from[r]
      <3> SUFFICES ASSUME NEW q \in Used(v), NEW r \in Used(v), q < r
                   PROVE  from[q] < from[r]
        OBVIOUS
      <3>1. /\ q \in Rows /\ from[q] = IF q < i THEN q ELSE q + 1
            /\ r \in Rows /\ from[r] = IF r < i THEN r ELSE r + 1
        BY <2>4
      <3> QED
        BY <1>1, <3>1
    <2>7. ASSUME NEW q \in Used(u) PROVE \E r \in Used(v) : from[r] = q
      <3>1. q \in Rows /\ u[q].type # Unused /\ q # i
        BY <1>3 DEF Used
      <3>2. CASE q < i
        <4>1. q \in Used(v)
          BY <2>3, <3>1, <3>2 DEF Used
        <4> QED
          BY <2>4, <3>2, <4>1
      <3>3. CASE q > i
        <4>1. q - 1 \in Rows /\ ~(q - 1 < i) /\ q - 1 < NumRows /\ q - 1 + 1 = q
          BY <1>1, <3>1, <3>3
        <4>2. v[q - 1] = u[q]
          BY <2>3, <4>1
        <4>3. q - 1 \in Used(v)
          BY <3>1, <4>1, <4>2 DEF Used
        <4> QED
          BY <2>4, <4>1, <4>3
      <3> QED
        BY <1>1, <3>1, <3>2, <3>3
    <2>8. Matches(from, v, u)
      BY <2>4, <2>5, <2>6, <2>7 DEF Matches
    <2> QED
      BY <2>1, <2>2, <2>8, SameOrder
  <1> QED
    BY <1>2, <1>3
LEMMA CompactedTable ==
  ASSUME NEW t \in [Rows -> Row]
  PROVE  /\ Compacted(t) \in [Rows -> Row]
         /\ UniqueTags(t) => UniqueTags(Compacted(t))
         /\ \A p : ManagerIs(t, p) => ManagerIs(Compacted(t), p)
         /\ SameUsed(t, Compacted(t))
  <1> DEFINE S == [Rows -> Row]
             Without(u, i) ==
               IF u[i].type # Unused THEN u
               ELSE [r \in Rows |-> IF r < i THEN u[r]
                                    ELSE IF r < NumRows THEN u[r + 1] ELSE NoRow]
             after == CHOOSE h : h = [i \in 0 .. NumRows |->
                                        IF i = 0 THEN t ELSE Without(h[i - 1], i)]
             f == [x \in S \X (1 .. NumRows) |-> Without(x[1], x[2])]
  <1>1. Compacted(t) = after[NumRows]
    BY DEF Compacted
  <1>2. NumRows \in Nat /\ Rows = 1 .. NumRows
    BY NumberBounds DEF Rows
  <1>3. \A u \in S, i \in Rows : Without(u, i) = Removed(u, i)
    BY DEF Removed
  <1>4. t \in S
    OBVIOUS
  <1> HIDE DEF Without
  <1>5. f \in [S \X (1 .. NumRows) -> S]
    <2>1. \A u \in S, i \in 1 .. NumRows : Without(u, i) \in S
      BY <1>2, <1>3, RemovedKeeps
    <2> HIDE DEF S
    <2> QED
      BY <2>1
  <1>6. PICK h \in [0 .. NumRows -> S] : IsLoop(h, t, NumRows, f)
    <2> HIDE DEF f, S
    <2> QED
      BY <1>2, <1>4, <1>5, LoopExists
  <1> HIDE DEF S
  <1>7. ASSUME NEW i \in 0 .. NumRows
        PROVE  h[i] = IF i = 0 THEN t ELSE Without(h[i - 1], i)
    <2>1. h[i] = IF i = 0 THEN t ELSE f[<<h[i - 1], i>>]
      BY <1>6 DEF IsLoop
    <2>2. CASE i # 0
      <3>1. i \in 1 .. NumRows /\ h[i - 1] \in S
        BY <1>2, <1>6, <2>2
      <3>2. f[<<h[i - 1], i>>] = Without(h[i - 1], i)
        BY <3>1
      <3> QED
        BY <2>1, <2>2, <3>2
    <2> QED
      BY <2>1, <2>2
  <1>8. after = [i \in 0 .. NumRows |-> IF i = 0 THEN t ELSE Without(after[i - 1], i)]
    <2> DEFINE g == [i \in 0 .. NumRows |-> IF i = 0 THEN t ELSE Without(h[i - 1], i)]
    <2>1. \A i \in 0 .. NumRows : h[i] = g[i]
      BY <1>7
    <2>2. DOMAIN h = 0 .. NumRows /\ h = [i \in 0 .. NumRows |-> h[i]]
      BY <1>6
    <2>3. g = [i \in 0 .. NumRows |-> g[i]]
      OBVIOUS
    <2>4. h = g
      <3> HIDE DEF g
      <3> QED
        BY <2>1, <2>2, <2>3
    <2> QED
      BY <2>4
  <1>9. \A i \in 0 .. NumRows :
          after[i] = IF i = 0 THEN t ELSE Without(after[i - 1], i)
    <2> HIDE DEF after
    <2> QED
      BY <1>8
  <1> HIDE DEF after
  <1> DEFINE good(u) == /\ u \in S
                        /\ UniqueTags(t) => UniqueTags(u)
                        /\ \A p : ManagerIs(t, p) => ManagerIs(u, p)
                        /\ SameUsed(t, u)
             G == {i \in 0 .. NumRows : good(after[i])}
  <1>10. 0 \in G
    <2>1. 0 \in 0 .. NumRows /\ after[0] = t /\ SameUsed(t, t)
      BY <1>2, <1>9 DEF SameUsed
    <2> QED
      BY <1>4, <2>1
  <1>11. ASSUME NEW i \in 1 .. NumRows, i - 1 \in G PROVE i \in G
    <2>1. good(after[i - 1])
      BY <1>11
    <2>2. i \in 0 .. NumRows /\ i # 0 /\ i \in Rows
      BY <1>2
    <2>3. after[i] = Removed(after[i - 1], i)
      BY <1>3, <1>9, <2>1, <2>2
    <2>4. after[i - 1] \in [Rows -> Row]
      BY <2>1 DEF S
    <2>5. /\ after[i] \in S
          /\ UniqueTags(after[i - 1]) => UniqueTags(after[i])
          /\ \A p : ManagerIs(after[i - 1], p) => ManagerIs(after[i], p)
      BY <2>2, <2>3, <2>4, RemovedKeeps DEF S
    <2>6. SameUsed(t, after[i])
      <3>1. SameUsed(t, after[i - 1]) /\ SameUsed(after[i - 1], after[i])
        BY <2>1, <2>2, <2>3, <2>4, RemovedSame
      <3> QED
        BY <3>1 DEF SameUsed
    <2> QED
      BY <2>1, <2>2, <2>5, <2>6
  <1>12. NumRows \in G
    <2>1. NumRows \in 0 .. NumRows
      BY <1>2
    <2> HIDE DEF G
    <2> QED
      BY <1>2, <1>10, <1>11, <2>1, Turns
  <1> QED
    BY <1>1, <1>12 DEF S

-------------------------------------------------------------------------------
(* Types of what the editor works with.                                    *)
LEMMA EditorTypes ==
  /\ NoItem \in Item /\ PartItem(1) \in Item /\ NoRow \in Row /\ NoEntry \in Entry
  /\ Fat \in OsTypes /\ Linux \in OsTypes /\ Extended \in OsTypes
  /\ Items = 1 .. MenuLen /\ MenuLen \in Nat \ {0} /\ Slots = 1 .. 4
  /\ ZeroAdv \in Adv /\ UniqueTags(ZeroAdv.part)
  /\ AllHidden \in [Slots -> Entry]
  <1>1. DOMAIN Shows = 1 .. 5 /\ Shows[1] = "One"
    BY DEF Shows
  <1>2. NoItem \in Item /\ PartItem(1) \in Item
    BY <1>1 DEF NoItem, PartItem, Item
  <1>3. NoEntry \in Entry /\ NoRow \in Row
    BY NumberBounds, NoRowType DEF NoEntry, Entry
  <1>4. ZeroAdv \in Adv /\ UniqueTags(ZeroAdv.part)
    BY <1>2, <1>3 DEF ZeroAdv, Adv, Items, UniqueTags, NoRow
  <1>5. AllHidden \in [Slots -> Entry]
    <2> DEFINE e == [type |-> Hidden, rel |-> 1, num |-> DiskEnd - 1, active |-> TRUE]
    <2>1. e \in Entry
      <3>1. 1 \in Numbers /\ DiskEnd - 1 \in Numbers
        <4>1. 1 \in 0 .. DiskEnd /\ DiskEnd - 1 \in 0 .. DiskEnd
          BY NumberBounds
        <4> QED
          BY <4>1, NumberBounds
      <3> QED
        BY <3>1 DEF Entry
    <2>2. AllHidden = [i \in 1 .. 4 |-> IF i <= 1 THEN <<e>>[i] ELSE NoEntry]
      BY DEF AllHidden, Padded
    <2> HIDE DEF e
    <2>3. \A i \in 1 .. 4 : i <= 1 => <<e>>[i] = e
      OBVIOUS
    <2> QED
      BY <1>3, <2>1, <2>2, <2>3 DEF Slots
  <1> QED
    BY <1>2, <1>3, <1>4, <1>5, EditorConstants DEF Items, Slots
-------------------------------------------------------------------------------
(* The inductive invariant.  Tags are told apart wherever a table is kept, *)
(* the menu editor's copy included; and until a save has failed, each MBR  *)
(* that could be written next, by F2 in the view of the MBR, leads to what *)
(* is on the disk.                                                         *)
TagsApart ==
  /\ \A s \in Places : disk.data[s] # NoData => UniqueTags(disk.data[s].adv.part)
  /\ UniqueTags(cur.adv.part) /\ UniqueTags(orig.adv.part)
  /\ menu.open = "enter" => menu.held \in [Rows -> Row] /\ UniqueTags(menu.held)
Leads(mbr, data) == Consistent([mbr |-> mbr, data |-> data])
PairsLead ==
  spoilt \/ \A m \in {disk.mbr, cur.mbr, orig.mbr} : Leads(m, disk.data)
Inv == TypeOK /\ TagsApart /\ PairsLead

LEMMA MemoryParts ==
  ASSUME NEW m \in Memory
  PROVE  /\ m.mbr \in MbrSector /\ m.adv \in Adv
         /\ \A adv \in Adv : LET n == [m EXCEPT !.adv = adv]
                             IN  n \in Memory /\ n.adv = adv /\ n.mbr = m.mbr
         /\ \A p \in [Rows -> Row] :
              LET n == [m EXCEPT !.adv.part = p]
              IN  n \in Memory /\ n.adv.part = p /\ n.mbr = m.mbr
                  /\ n.adv.signed = m.adv.signed
         /\ \A x \in MbrSector : LET n == [m EXCEPT !.mbr = x]
                                 IN  n \in Memory /\ n.adv = m.adv /\ n.mbr = x
  <1>1. m.mbr \in MbrSector /\ m.adv \in Adv
    BY DEF Memory
  <1>2. ASSUME NEW adv \in Adv
        PROVE  LET n == [m EXCEPT !.adv = adv]
               IN  n \in Memory /\ n.adv = adv /\ n.mbr = m.mbr
    BY DEF Memory
  <1>3. ASSUME NEW x \in MbrSector
        PROVE  LET n == [m EXCEPT !.mbr = x]
               IN  n \in Memory /\ n.adv = m.adv /\ n.mbr = x
    BY DEF Memory
  <1>4. ASSUME NEW p \in [Rows -> Row]
        PROVE  LET n == [m EXCEPT !.adv.part = p]
               IN  n \in Memory /\ n.adv.part = p /\ n.mbr = m.mbr
                   /\ n.adv.signed = m.adv.signed
    <2>1. /\ [m.adv EXCEPT !.part = p] \in Adv /\ [m.adv EXCEPT !.part = p].part = p
          /\ [m.adv EXCEPT !.part = p].signed = m.adv.signed
      BY <1>1 DEF Adv
    <2>2. [m EXCEPT !.adv.part = p] = [m EXCEPT !.adv = [m.adv EXCEPT !.part = p]]
      BY DEF Memory
    <2> QED
      BY <1>2, <2>1, <2>2
  <1> QED
    BY <1>1, <1>2, <1>3, <1>4

(* An MBR that still has the place leads where the other one did.          *)
LEMMA LeadsToo ==
  ASSUME NEW m, NEW n, NEW data, Leads(m, data), n.at = m.at,
         n.magic => m.magic
  PROVE  Leads(n, data)
  BY DEF Leads, Consistent, DataAt

(* What is enough when the disk and the original stay as they are.         *)
LEMMA CurChanges ==
  ASSUME Inv, UNCHANGED <<disk, orig, spoilt>>,
         cur' \in Memory, UniqueTags(cur'.adv.part),
         cur'.mbr.at = cur.mbr.at \/ cur'.mbr.magic = FALSE,
         cur'.mbr.magic => cur.mbr.magic,
         view' \in {"ADV", "MBR"}, preview' \in BOOLEAN, left' \in Nat,
         menu' \in [open : {"no", "space", "enter"},
                    held : {<< >>} \cup [Rows -> Row]],
         menu'.open = "enter" => menu'.held \in [Rows -> Row] /\ UniqueTags(menu'.held)
  PROVE  Inv'
  <1>1. TypeOK'
    BY DEF Inv, TypeOK
  <1>2. TagsApart'
    BY DEF Inv, TagsApart
  <1>3. PairsLead'
    <2>1. CASE spoilt
      BY <2>1 DEF PairsLead
    <2>2. CASE ~spoilt
      <3>1. Leads(cur.mbr, disk.data) /\ Leads(orig.mbr, disk.data)
            /\ Leads(disk.mbr, disk.data)
        BY <2>2 DEF Inv, PairsLead
      <3>2. Leads(cur'.mbr, disk.data)
        <4>1. CASE cur'.mbr.at = cur.mbr.at
          BY <3>1, <4>1, LeadsToo
        <4>2. CASE cur'.mbr.magic = FALSE
          BY <4>2 DEF Leads, Consistent
        <4> QED
          BY <4>1, <4>2
      <3> QED
        BY <3>1, <3>2 DEF PairsLead
    <2> QED
      BY <2>1, <2>2
  <1> QED
    BY <1>1, <1>2, <1>3 DEF Inv

LEMMA StepCounts ==
  ASSUME Inv, Step
  PROVE  left' \in Nat
  BY DEF Inv, TypeOK, Step

LEMMA InitializedType ==
  ASSUME NEW m \in Memory, UniqueTags(m.adv.part), NEW v
  PROVE  /\ Initialized(m, v) \in Memory
         /\ UniqueTags(Initialized(m, v).adv.part)
         /\ Initialized(m, v).mbr = m.mbr
         /\ Initialized(m, v).adv.signed = m.adv.signed
  <1>1. m.adv.part \in [Rows -> Row]
    BY MemoryParts DEF Adv
  <1>2. Arranged(m.adv.part) \in [Rows -> Row] /\ UniqueTags(Arranged(m.adv.part))
    BY <1>1, ArrangedTable
  <1>3. CASE v = "ADV"
    <2>1. Initialized(m, v) = [m EXCEPT !.adv.part = Arranged(m.adv.part)]
      BY <1>3 DEF Initialized
    <2> QED
      BY <1>2, <2>1, MemoryParts
  <1>4. CASE v # "ADV"
    BY <1>4 DEF Initialized
  <1> QED
    BY <1>3, <1>4

LEMMA OpenedType ==
  ASSUME NEW d \in Disk, NEW readable \in BOOLEAN,
         \A s \in Places : d.data[s] # NoData => UniqueTags(d.data[s].adv.part)
  PROVE  LET o == Opened(d, readable)
         IN  /\ o.data \in Memory /\ UniqueTags(o.data.adv.part)
             /\ o.data.mbr = d.mbr /\ o.view \in {"ADV", "MBR"}
  <1> DEFINE found == d.mbr.magic /\ readable /\ DataAt(d) # NoData
             v == IF found THEN "ADV" ELSE "MBR"
             adv == IF found THEN DataAt(d).adv ELSE ZeroAdv
             m == [mbr |-> d.mbr, adv |-> adv]
  <1>1. Opened(d, readable) = [view |-> v, data |-> Initialized(m, v)]
    BY DEF Opened
  <1>2. adv \in Adv /\ UniqueTags(adv.part)
    <2>1. CASE found
      <3>1. d.mbr.at \in Places /\ DataAt(d) = d.data[d.mbr.at]
        BY <2>1 DEF DataAt
      <3>2. d.data[d.mbr.at] \in Data /\ d.data[d.mbr.at] # NoData
        BY <2>1, <3>1 DEF Disk
      <3>3. d.data[d.mbr.at].adv \in Adv
        BY <3>2 DEF Data
      <3> QED
        BY <2>1, <3>1, <3>2, <3>3
    <2>2. CASE ~found
      BY <2>2, EditorTypes
    <2> QED
      BY <2>1, <2>2
  <1> HIDE DEF adv, found
  <1>3. m \in Memory /\ m.adv = adv /\ m.mbr = d.mbr
    BY <1>2 DEF Memory, Disk
  <1> HIDE DEF m
  <1>4. /\ Initialized(m, v) \in Memory
        /\ UniqueTags(Initialized(m, v).adv.part)
        /\ Initialized(m, v).mbr = d.mbr
    BY <1>2, <1>3, InitializedType
  <1> QED
    BY <1>1, <1>4

LEMMA InitInv ==
  ASSUME Init
  PROVE  Inv
  <1>1. PICK x \in Starts : disk = x.disk /\ left = x.left
    BY DEF Init
  <1>2. disk \in Disk /\ LeftBehind(disk) /\ left \in Nat
    BY <1>1, EditorConstants
  <1>3. LET o == Opened(disk, TRUE)
        IN  /\ o.data \in Memory /\ UniqueTags(o.data.adv.part)
            /\ o.data.mbr = disk.mbr /\ o.view \in {"ADV", "MBR"}
    BY <1>2, OpenedType DEF LeftBehind
  <1>4. /\ cur = Opened(disk, TRUE).data /\ orig = cur
        /\ view = Opened(disk, TRUE).view
        /\ preview = FALSE /\ menu = Closed /\ spoilt = FALSE
    BY DEF Init
  <1>5. TypeOK
    BY <1>2, <1>3, <1>4 DEF TypeOK, Closed
  <1>6. TagsApart
    BY <1>2, <1>3, <1>4 DEF TagsApart, LeftBehind, Closed
  <1>7. Leads(disk.mbr, disk.data)
    BY <1>2 DEF LeftBehind, Leads, Consistent, DataAt
  <1>8. PairsLead
    BY <1>3, <1>4, <1>7 DEF PairsLead
  <1> QED
    BY <1>5, <1>6, <1>8 DEF Inv
-------------------------------------------------------------------------------
(* Edits of the table.                                                     *)
LEMMA SameTags ==
  ASSUME NEW t, NEW u, UniqueTags(t),
         \A r \in Rows : u[r].tag = t[r].tag \/ u[r].tag = 0
  PROVE  UniqueTags(u)
  BY DEF UniqueTags

LEMMA ShownTable ==
  ASSUME Inv
  PROVE  /\ cur \in Memory /\ cur.adv \in Adv /\ Part \in [Rows -> Row]
         /\ UniqueTags(Part) /\ cur.mbr \in MbrSector
         /\ view \in {"ADV", "MBR"} /\ preview \in BOOLEAN /\ left \in Nat
         /\ menu \in [open : {"no", "space", "enter"},
                      held : {<< >>} \cup [Rows -> Row]]
         /\ menu.open = "enter" => menu.held \in [Rows -> Row] /\ UniqueTags(menu.held)
  <1>1. cur \in Memory
    BY DEF Inv, TypeOK
  <1>2. cur.adv \in Adv /\ Part \in [Rows -> Row] /\ cur.mbr \in MbrSector
    BY <1>1 DEF Memory, Adv, Part
  <1> QED
    BY <1>1, <1>2 DEF Inv, TypeOK, TagsApart, Part

LEMMA SetPartKeeps ==
  ASSUME Inv, NEW part \in [Rows -> Row], UniqueTags(part), NEW arranged \in BOOLEAN,
         SetPart(part, arranged)
  PROVE  Inv'
  <1> DEFINE p == IF arranged THEN Arranged(part) ELSE part
  <1>1. p \in [Rows -> Row] /\ UniqueTags(p)
    BY ArrangedTable
  <1>2. cur' = [cur EXCEPT !.adv.part = p]
    BY DEF SetPart
  <1> HIDE DEF p
  <1>3. cur' \in Memory /\ cur'.adv.part = p /\ cur'.mbr = cur.mbr
    BY <1>1, <1>2, ShownTable, MemoryParts
  <1>4. left' \in Nat /\ UNCHANGED <<disk, orig, view, preview, menu, spoilt>>
    BY StepCounts DEF SetPart
  <1> QED
    BY <1>1, <1>3, <1>4, ShownTable, CurChanges

(* One row changes, but for its tag.                                       *)
LEMMA RowChanges ==
  ASSUME NEW t \in [Rows -> Row], NEW r \in Rows, NEW q \in Row,
         q.tag = t[r].tag \/ q.tag = 0
  PROVE  /\ [t EXCEPT ![r] = q] \in [Rows -> Row]
         /\ UniqueTags(t) => UniqueTags([t EXCEPT ![r] = q])
  <1>1. [t EXCEPT ![r] = q] \in [Rows -> Row]
    OBVIOUS
  <1>2. \A x \in Rows : [t EXCEPT ![r] = q][x].tag = t[x].tag
                        \/ [t EXCEPT ![r] = q][x].tag = 0
    OBVIOUS
  <1> QED
    BY <1>1, <1>2, SameTags

LEMMA RowFields ==
  ASSUME NEW p \in Row
  PROVE  /\ \A type \in Types : LET q == [p EXCEPT !.type = type]
                                IN  q \in Row /\ q.tag = p.tag
         /\ \A x \in Numbers : LET q == [p EXCEPT !.rel = x]
                               IN  q \in Row /\ q.tag = p.tag
         /\ \A x \in Numbers : LET q == [p EXCEPT !.num = x]
                               IN  q \in Row /\ q.tag = p.tag
         /\ \A x, y \in Numbers : LET q == [p EXCEPT !.rel = x, !.num = y]
                                  IN  q \in Row /\ q.tag = p.tag
         /\ \A o \in 0 .. 4 : LET q == [p EXCEPT !.orig = o]
                              IN  q \in Row /\ q.tag = p.tag
         /\ \A k \in Nat : LET q == [p EXCEPT !.tag = k]
                           IN  q \in Row /\ q.tag = k
         /\ p.rel \in Numbers /\ p.num \in Numbers /\ p.orig \in 0 .. 4
         /\ p.tag \in Nat /\ p.type \in Types
  BY DEF Row

LEMMA ProposedType ==
  ASSUME NEW t \in [Rows -> Row], NEW r \in Rows
  PROVE  /\ Proposed(t, r) \in [Rows -> Row]
         /\ UniqueTags(t) => UniqueTags(Proposed(t, r))
         /\ \A x \in Rows : Proposed(t, r)[x].type = t[x].type
  <1> DEFINE rel == IF r > 1 /\ ~IsEmpty(t[r - 1])
                    THEN Wrap(t[r - 1].rel + t[r - 1].num) ELSE Track
             num == IF r < 4 /\ ~IsEmpty(t[r + 1])
                    THEN Wrap(t[r + 1].rel - rel) ELSE Wrap(DiskEnd - rel)
             u == [t[r] EXCEPT !.rel = rel, !.num = num]
  <1>1. Rows = 1 .. NumRows /\ NumRows \in Nat /\ NumRows > 4 /\ DiskEnd \in Nat
        /\ Track \in Numbers
    BY NumberBounds, EditorConstants DEF Rows
  <1>2. \A x \in Rows : t[x].rel \in Numbers /\ t[x].num \in Numbers
    BY RowFields
  <1>3. \A x \in Numbers : x \in Int
    BY NumberBounds
  <1>4. rel \in Numbers
    <2>1. CASE r > 1
      <3>1. r - 1 \in Rows
        BY <1>1, <2>1
      <3>2. t[r - 1].rel + t[r - 1].num \in Int
        BY <1>2, <1>3, <3>1
      <3>3. Wrap(t[r - 1].rel + t[r - 1].num) \in Numbers
        BY <3>2, WrapType
      <3> QED
        BY <1>1, <3>3
    <2>2. CASE ~(r > 1)
      BY <1>1, <2>2
    <2> QED
      BY <2>1, <2>2
  <1> HIDE DEF rel
  <1>5. num \in Numbers
    <2>1. Wrap(DiskEnd - rel) \in Numbers
      BY <1>1, <1>3, <1>4, WrapType
    <2>2. CASE r < 4
      <3>1. r + 1 \in Rows
        BY <1>1, <2>2
      <3>2. t[r + 1].rel - rel \in Int
        BY <1>2, <1>3, <1>4, <3>1
      <3>3. Wrap(t[r + 1].rel - rel) \in Numbers
        BY <3>2, WrapType
      <3> QED
        BY <2>1, <3>3
    <2>3. CASE ~(r < 4)
      BY <2>1, <2>3
    <2> QED
      BY <2>2, <2>3
  <1> HIDE DEF num
  <1>6. t[r] \in Row
    OBVIOUS
  <1>7. u \in Row /\ u.tag = t[r].tag /\ u.type = t[r].type
    BY <1>4, <1>5, <1>6 DEF Row
  <1>8. Proposed(t, r) = [t EXCEPT ![r].rel = rel, ![r].num = num]
    BY DEF Proposed, rel, num
  <1>9. [t EXCEPT ![r].rel = rel, ![r].num = num] = [t EXCEPT ![r] = u]
    BY <1>6 DEF Row
  <1>10. Proposed(t, r) = [t EXCEPT ![r] = u]
    BY <1>8, <1>9
  <1> HIDE DEF u
  <1>11. /\ [t EXCEPT ![r] = u] \in [Rows -> Row]
         /\ UniqueTags(t) => UniqueTags([t EXCEPT ![r] = u])
    BY <1>7, RowChanges
  <1>12. \A x \in Rows : [t EXCEPT ![r] = u][x].type = t[x].type
    BY <1>7
  <1> QED
    BY <1>10, <1>11, <1>12

LEMMA InsertKeeps ==
  ASSUME Inv, NEW r \in Rows, NEW type \in NewTypes, Insert(r, type)
  PROVE  Inv'
  <1> DEFINE t == [Part EXCEPT ![r].type = type]
             q == [Part[r] EXCEPT !.type = type]
  <1>1. Part \in [Rows -> Row] /\ UniqueTags(Part) /\ Part[r] \in Row
    BY ShownTable
  <1>2. type \in Types
    BY EditorConstants DEF Types
  <1>3. q \in Row /\ q.tag = Part[r].tag
    BY <1>1, <1>2, RowFields
  <1>4. t = [Part EXCEPT ![r] = q]
    BY <1>1
  <1>5. t \in [Rows -> Row] /\ UniqueTags(t)
    BY <1>1, <1>3, <1>4, RowChanges
  <1> HIDE DEF t
  <1>6. Proposed(t, r) \in [Rows -> Row] /\ UniqueTags(Proposed(t, r))
    BY <1>5, ProposedType
  <1>7. \/ SetPart(Proposed(t, r), TRUE)
        \/ SetPart(t, FALSE)
    BY DEF Insert, t
  <1> QED
    BY <1>5, <1>6, <1>7, SetPartKeeps

LEMMA DeleteKeeps ==
  ASSUME Inv, NEW r \in Rows, Delete(r)
  PROVE  Inv'
  <1>1. Part \in [Rows -> Row] /\ UniqueTags(Part)
    BY ShownTable
  <1>2. /\ [Part EXCEPT ![r] = NoRow] \in [Rows -> Row]
        /\ UniqueTags([Part EXCEPT ![r] = NoRow])
    BY <1>1, NoRowType, RowChanges
  <1>3. SetPart([Part EXCEPT ![r] = NoRow], TRUE)
    BY DEF Delete
  <1> QED
    BY <1>2, <1>3, SetPartKeeps

LEMMA EditFieldKeeps ==
  ASSUME Inv, NEW r \in Rows, EditField(r)
  PROVE  Inv'
  <1>1. Part \in [Rows -> Row] /\ UniqueTags(Part) /\ Part[r] \in Row
    BY ShownTable
  <1>2. ASSUME NEW x \in Keyed(Part[r].rel), SetPart([Part EXCEPT ![r].rel = x], TRUE)
        PROVE  Inv'
    <2> DEFINE q == [Part[r] EXCEPT !.rel = x]
    <2>1. x \in Numbers
      BY DEF Keyed
    <2>2. q \in Row /\ q.tag = Part[r].tag
      BY <1>1, <2>1, RowFields
    <2>3. [Part EXCEPT ![r].rel = x] = [Part EXCEPT ![r] = q]
      BY <1>1
    <2> HIDE DEF q
    <2>4. /\ [Part EXCEPT ![r].rel = x] \in [Rows -> Row]
          /\ UniqueTags([Part EXCEPT ![r].rel = x])
      BY <1>1, <2>2, <2>3, RowChanges
    <2> QED
      BY <1>2, <2>4, SetPartKeeps
  <1>3. ASSUME NEW x \in Keyed(Part[r].num), SetPart([Part EXCEPT ![r].num = x], TRUE)
        PROVE  Inv'
    <2> DEFINE q == [Part[r] EXCEPT !.num = x]
    <2>1. x \in Numbers
      BY DEF Keyed
    <2>2. q \in Row /\ q.tag = Part[r].tag
      BY <1>1, <2>1, RowFields
    <2>3. [Part EXCEPT ![r].num = x] = [Part EXCEPT ![r] = q]
      BY <1>1
    <2> HIDE DEF q
    <2>4. /\ [Part EXCEPT ![r].num = x] \in [Rows -> Row]
          /\ UniqueTags([Part EXCEPT ![r].num = x])
      BY <1>1, <2>2, <2>3, RowChanges
    <2> QED
      BY <1>3, <2>4, SetPartKeeps
  <1> QED
    BY <1>2, <1>3 DEF EditField

-------------------------------------------------------------------------------
(* Views, the MBR, and what is read again.                                 *)
LEMMA SwitchKeeps ==
  ASSUME Inv, NEW v \in {"ADV", "MBR"}, NEW p \in BOOLEAN, Switch(v, p)
  PROVE  Inv'
  <1>1. /\ Initialized(cur, v) \in Memory
        /\ UniqueTags(Initialized(cur, v).adv.part)
        /\ Initialized(cur, v).mbr = cur.mbr
    BY ShownTable, InitializedType DEF Part
  <1> QED
    BY <1>1, ShownTable, CurChanges DEF Switch

LEMMA SetMbrKeeps ==
  ASSUME Inv, NEW m \in MbrSector, m.at = cur.mbr.at, m.magic => cur.mbr.magic,
         SetMbr(m)
  PROVE  Inv'
  <1>1. cur' = [cur EXCEPT !.mbr = m] /\ left' \in Nat
        /\ UNCHANGED <<disk, orig, view, preview, menu, spoilt>>
    BY StepCounts DEF SetMbr
  <1>2. cur' \in Memory /\ cur'.adv = cur.adv /\ cur'.mbr = m
    BY <1>1, ShownTable, MemoryParts
  <1> QED
    BY <1>1, <1>2, ShownTable, CurChanges DEF Part

LEMMA MbrKeysSet ==
  ASSUME Inv,
         \/ \E k \in Slots : Activate(k) \/ Deactivate(k)
         \/ Uninstall \/ InstallIpl
  PROVE  \E x \in MbrSector : /\ x.at = cur.mbr.at /\ (x.magic => cur.mbr.magic)
                                /\ SetMbr(x)
  <1> DEFINE m == cur.mbr
             Found == \E x \in MbrSector :
                        /\ x.at = cur.mbr.at /\ (x.magic => cur.mbr.magic)
                        /\ SetMbr(x)
  <1>1. m \in MbrSector
    BY ShownTable
  <1>2. ASSUME NEW k \in Slots, Activate(k)
        PROVE  Found
    <2> DEFINE rows == [j \in Slots |-> [m.rows[j] EXCEPT !.active = (j = k)]]
    <2>1. rows \in [Slots -> Entry]
      BY <1>1 DEF MbrSector, Entry
    <2>2. SetMbr([m EXCEPT !.rows = rows])
      BY <1>2 DEF Activate
    <2> HIDE DEF rows
    <2>3. /\ [m EXCEPT !.rows = rows] \in MbrSector
          /\ [m EXCEPT !.rows = rows].at = m.at
          /\ [m EXCEPT !.rows = rows].magic = m.magic
      BY <1>1, <2>1 DEF MbrSector
    <2> QED
      BY <2>2, <2>3
  <1>3. ASSUME NEW k \in Slots, Deactivate(k)
        PROVE  Found
    <2> DEFINE n == [m EXCEPT !.rows[k].active = FALSE]
    <2>1. n \in MbrSector /\ n.at = m.at /\ n.magic = m.magic
      BY <1>1 DEF MbrSector, Entry
    <2>2. SetMbr(n)
      BY <1>3 DEF Deactivate
    <2> HIDE DEF n
    <2> QED
      BY <2>1, <2>2
  <1>4. ASSUME Uninstall
        PROVE  Found
    <2> DEFINE n == [m EXCEPT !.code = "Standard"]
    <2>1. n \in MbrSector /\ n.at = m.at /\ n.magic = m.magic
      BY <1>1 DEF MbrSector
    <2>2. SetMbr(n)
      BY <1>4 DEF Uninstall
    <2> HIDE DEF n
    <2> QED
      BY <2>1, <2>2
  <1>5. ASSUME InstallIpl
        PROVE  Found
    <2> DEFINE b == m.magic /\ m.code = "Compact"
               n == [m EXCEPT !.code = "Compact", !.magic = b]
    <2>0. b \in BOOLEAN
      OBVIOUS
    <2>2. SetMbr([m EXCEPT !.code = "Compact", !.magic = @ /\ m.code = "Compact"])
      BY <1>5 DEF InstallIpl
    <2>3. [m EXCEPT !.code = "Compact", !.magic = @ /\ m.code = "Compact"] = n
      BY <1>1 DEF MbrSector
    <2>4. b => m.magic
      OBVIOUS
    <2> HIDE DEF b
    <2>1. n \in MbrSector /\ n.at = m.at /\ n.magic = b
      BY <1>1, <2>0 DEF MbrSector
    <2> HIDE DEF n
    <2> QED
      BY <2>1, <2>2, <2>3, <2>4
  <1> QED
    BY <1>2, <1>3, <1>4, <1>5
LEMMA MbrKeysKeep ==
  ASSUME Inv,
         \/ \E k \in Slots : Activate(k) \/ Deactivate(k)
         \/ Uninstall \/ InstallIpl
  PROVE  Inv'
  BY MbrKeysSet, SetMbrKeeps

LEMMA UndoKeeps ==
  ASSUME Inv, Undo
  PROVE  Inv'
  <1>1. /\ orig \in Memory /\ UniqueTags(orig.adv.part) /\ orig.mbr \in MbrSector
    BY MemoryParts DEF Inv, TypeOK, TagsApart
  <1> DEFINE data == IF view = "ADV" \/ orig.mbr.magic THEN orig
                     ELSE [cur EXCEPT !.mbr = orig.mbr]
             v == IF data.mbr.magic /\ data.adv.signed THEN "ADV" ELSE "MBR"
  <1>2. data \in Memory /\ UniqueTags(data.adv.part) /\ data.mbr = orig.mbr
    <2>1. CASE view = "ADV" \/ orig.mbr.magic
      BY <1>1, <2>1
    <2>2. CASE ~(view = "ADV" \/ orig.mbr.magic)
      <3>1. data = [cur EXCEPT !.mbr = orig.mbr]
        BY <2>2
      <3> DEFINE n == [cur EXCEPT !.mbr = orig.mbr]
      <3>2. n \in Memory /\ n.adv = cur.adv /\ n.mbr = orig.mbr
        BY <1>1, ShownTable DEF Memory
      <3> HIDE DEF n
      <3>3. data = n
        BY <3>1 DEF n
      <3> HIDE DEF data
      <3> QED
        BY <3>2, <3>3, ShownTable DEF Part
    <2> QED
      BY <2>1, <2>2
  <1>3. cur' = Initialized(data, v) /\ view' = v
        /\ UNCHANGED <<disk, orig, preview, menu, spoilt, left>>
    BY DEF Undo
  <1>4. v \in {"ADV", "MBR"}
    OBVIOUS
  <1> HIDE DEF data, v
  <1>5. cur' \in Memory /\ UniqueTags(cur'.adv.part) /\ cur'.mbr = orig.mbr
    BY <1>2, <1>3, InitializedType
  <1>6. TypeOK'
    BY <1>3, <1>4, <1>5 DEF Inv, TypeOK
  <1>7. TagsApart'
    BY <1>3, <1>5 DEF Inv, TagsApart
  <1>8. PairsLead'
    BY <1>3, <1>5 DEF Inv, PairsLead
  <1> QED
    BY <1>6, <1>7, <1>8 DEF Inv

LEMMA LeaveKeeps ==
  ASSUME Inv, Quit \/ OtherDisk
  PROVE  Inv'
  <1>1. PICK readable \in BOOLEAN : Leave(Opened(disk, readable))
    BY DEF Quit, OtherDisk
  <1>2. left' \in Nat
    <2>1. left' = left \/ Step
      BY DEF Quit, OtherDisk
    <2> QED
      BY <2>1, StepCounts, ShownTable
  <1>3. LET o == Opened(disk, readable)
        IN  /\ o.data \in Memory /\ UniqueTags(o.data.adv.part)
            /\ o.data.mbr = disk.mbr /\ o.view \in {"ADV", "MBR"}
    BY OpenedType DEF Inv, TypeOK, TagsApart
  <1>4. /\ cur' = Opened(disk, readable).data /\ orig' = Opened(disk, readable).data
        /\ view' = Opened(disk, readable).view /\ preview' = FALSE
        /\ UNCHANGED <<disk, menu, spoilt>>
    BY <1>1 DEF Leave, Showing
  <1>5. TypeOK'
    BY <1>2, <1>3, <1>4 DEF Inv, TypeOK
  <1>6. TagsApart'
    BY <1>3, <1>4 DEF Inv, TagsApart
  <1>7. PairsLead'
    BY <1>3, <1>4 DEF Inv, PairsLead
  <1> QED
    BY <1>5, <1>6, <1>7 DEF Inv
-------------------------------------------------------------------------------
(* Saving.                                                                 *)
DataApart(data) == \A s \in Places : data[s] # NoData => UniqueTags(data[s].adv.part)

LEMMA StoredData ==
  ASSUME NEW adv \in Adv, UniqueTags(adv.part), NEW code \in BOOLEAN,
         NEW at \in Places, NEW data \in [Places -> Data], DataApart(data)
  PROVE  LET d == Overwritten(data, at, Stored(adv, code))
         IN  /\ d \in [Places -> Data] /\ DataApart(d)
             /\ d[at] = Stored(adv, code)
  <1> DEFINE x == Stored(adv, code)
             d == [s \in Places |-> IF s = at THEN x
                                    ELSE IF s < at + AdvSize /\ at < s + AdvSize
                                    THEN NoData ELSE data[s]]
  <1>1. x \in Data /\ NoData \in Data
    BY DEF Stored, Data
  <1>2. x # NoData => UniqueTags(x.adv.part)
    BY DEF Stored
  <1> HIDE DEF x
  <1>3. d \in [Places -> Data]
    BY <1>1
  <1>4. \A s \in Places : d[s] = x \/ d[s] = NoData \/ d[s] = data[s]
    OBVIOUS
  <1>5. d[at] = x
    OBVIOUS
  <1>6. Overwritten(data, at, x) = d
    BY DEF Overwritten
  <1> HIDE DEF d
  <1>7. DataApart(d)
    BY <1>2, <1>4 DEF DataApart
  <1> QED
    BY <1>3, <1>5, <1>6, <1>7 DEF x

LEMMA SavedPart ==
  ASSUME NEW t \in [Rows -> Row], UniqueTags(t), ManagerRow(t) # 0,
         NEW u, u \in {t, Compacted(t)}
  PROVE  /\ u \in [Rows -> Row] /\ UniqueTags(u) /\ ManagerRow(u) # 0
         /\ u[ManagerRow(u)] = t[ManagerRow(t)]
  <1>1. FirstManager(t, ManagerRow(t))
    BY ManagerRowIs
  <1>2. ManagerIs(t, t[ManagerRow(t)])
    BY <1>1 DEF ManagerIs
  <1>3. u \in [Rows -> Row] /\ UniqueTags(u) /\ ManagerIs(u, t[ManagerRow(t)])
    BY <1>2, CompactedTable
  <1>4. PICK k : FirstManager(u, k) /\ u[k] = t[ManagerRow(t)]
    BY <1>3 DEF ManagerIs
  <1>5. ManagerRow(u) = k /\ k \in Rows
    BY <1>3, <1>4, ManagerRowIs DEF FirstManager
  <1>6. k # 0
    BY <1>5, NumberBounds DEF Rows
  <1> QED
    BY <1>3, <1>4, <1>5, <1>6

LEMMA ManagerHasPlace ==
  ASSUME NEW t \in [Rows -> Row], ValidTable(t), ManagerRow(t) # 0
  PROVE  /\ t[ManagerRow(t)].rel \in Places /\ t[ManagerRow(t)].rel \in Numbers
         /\ t[ManagerRow(t)].num >= AdvSize
  <1> DEFINE k == ManagerRow(t)
  <1>1. k \in Rows
    BY ManagerRowIs
  <1>2. t[k].num >= AdvSize
    BY DEF ValidTable
  <1>3. DOMAIN t = Rows /\ t[k] \in Row
    BY <1>1
  <1>4. t[k].rel \in Numbers /\ t[k].num \in Nat
    BY <1>3, NumberBounds DEF Row
  <1> HIDE DEF k
  <1>5. ~IsEmpty(t[k])
    BY <1>2, <1>4, NumberBounds DEF IsEmpty
  <1>6. t[k].rel \in 1 .. DiskEnd - 1
    BY <1>1, <1>3, <1>5 DEF ValidTable, SoundRows
  <1>7. t[k].rel \in Places
    BY <1>6, NumberBounds DEF Places
  <1> QED
    BY <1>2, <1>4, <1>7 DEF k

LEMMA SaveAdvKeeps ==
  ASSUME Inv, SaveAdv
  PROVE  Inv'
  <1> DEFINE at == Part[ManagerRow(Part)].rel
             mbr == AdvancedMbr(AllHidden)
             part == IF cur.adv.ignore THEN Compacted(Part) ELSE Part
             adv == [cur.adv EXCEPT !.part = part, !.signed = TRUE]
             next == [cur.adv EXCEPT !.signed = TRUE, !.part = Arranged(@)]
  <1>1. /\ Part \in [Rows -> Row] /\ UniqueTags(Part) /\ cur.adv \in Adv
        /\ ValidTable(Part) /\ ManagerRow(Part) # 0
    BY ShownTable DEF SaveAdv, InAdv, Valid, Part
  <1>2. PICK written \in 0 .. 3 :
          /\ Fails(written = 3)
          /\ disk' = [mbr |-> IF written = 3 THEN mbr ELSE disk.mbr,
                      data |-> IF written = 0 THEN disk.data
                               ELSE Overwritten(disk.data, mbr.at,
                                      Stored(adv, written > 1 \/ HasCode(mbr.at)))]
    BY DEF SaveAdv
  <1>3. /\ cur' = [mbr |-> mbr, adv |-> next] /\ orig' = cur'
        /\ UNCHANGED <<view, preview, menu>>
    BY DEF SaveAdv
  <1>4. at \in Places /\ at \in Numbers /\ Part[ManagerRow(Part)].num >= AdvSize
    BY <1>1, ManagerHasPlace
  <1>5. mbr \in MbrSector /\ mbr.at = at
    BY <1>4, EditorTypes DEF AdvancedMbr, MbrSector
  <1>6. part \in {Part, Compacted(Part)}
    OBVIOUS
  <1>7. /\ part \in [Rows -> Row] /\ UniqueTags(part) /\ ManagerRow(part) # 0
        /\ part[ManagerRow(part)] = Part[ManagerRow(Part)]
    <2> HIDE DEF part
    <2> QED
      BY <1>1, <1>6, SavedPart
  <1> HIDE DEF part
  <1>8. adv \in Adv /\ adv.part = part
    BY <1>1, <1>7 DEF Adv
  <1>9. Arranged(Part) \in [Rows -> Row] /\ UniqueTags(Arranged(Part))
    BY <1>1, ArrangedTable
  <1>10. next \in Adv /\ next.part = Arranged(Part)
    BY <1>1, <1>9 DEF Adv, Part
  <1> HIDE DEF mbr, adv, next
  <1>11. cur' \in Memory /\ UniqueTags(cur'.adv.part) /\ cur'.mbr = mbr
    BY <1>3, <1>5, <1>9, <1>10 DEF Memory
  <1> DEFINE code == written > 1 \/ HasCode(mbr.at)
             data == Overwritten(disk.data, at, Stored(adv, code))
  <1>12. disk \in Disk /\ DataApart(disk.data)
    BY DEF Inv, TypeOK, TagsApart, DataApart
  <1>13. code \in BOOLEAN
    OBVIOUS
  <1>14. disk.data \in [Places -> Data] /\ disk.mbr \in MbrSector
    BY <1>12 DEF Disk
  <1> HIDE DEF code
  <1>15. data \in [Places -> Data] /\ DataApart(data) /\ data[at] = Stored(adv, code)
    BY <1>4, <1>7, <1>8, <1>12, <1>13, <1>14, StoredData
  <1>16. disk' = [mbr |-> IF written = 3 THEN mbr ELSE disk.mbr,
                  data |-> IF written = 0 THEN disk.data ELSE data]
    BY <1>2, <1>5 DEF code
  <1> HIDE DEF data
  <1>17. disk' \in Disk /\ DataApart(disk'.data)
    BY <1>5, <1>12, <1>14, <1>15, <1>16 DEF Disk
  <1>18. left' \in Nat /\ spoilt' \in BOOLEAN /\ (spoilt' \/ (written = 3 /\ ~spoilt))
    <2>1. CASE written = 3
      BY <1>2, <2>1 DEF Fails, Inv, TypeOK
    <2>2. CASE written # 3
      BY <1>2, <2>2, StepCounts DEF Fails
    <2> QED
      BY <2>1, <2>2
  <1>19. TypeOK'
    BY <1>3, <1>11, <1>17, <1>18 DEF Inv, TypeOK
  <1>20. TagsApart'
    BY <1>3, <1>11, <1>17 DEF Inv, TagsApart, DataApart
  <1>21. CASE spoilt'
    BY <1>19, <1>20, <1>21 DEF Inv, PairsLead
  <1>22. CASE ~spoilt'
    <2>1. written = 3 /\ disk'.mbr = mbr /\ disk'.data = data
      BY <1>16, <1>18, <1>22
    <2>2. code
      BY <2>1 DEF code
    <2>3. Stored(adv, code) # NoData /\ Stored(adv, code).code
          /\ Stored(adv, code).adv.part = part
      BY <1>8, <2>2 DEF Stored, NoData
    <2>4. Leads(mbr, data)
      <3> DEFINE d == [mbr |-> mbr, data |-> data]
      <3>1. d.mbr.at = at /\ DataAt(d) = Stored(adv, code)
        BY <1>4, <1>5, <1>15 DEF DataAt
      <3>2. Consistent(d)
        BY <1>4, <1>7, <2>3, <3>1 DEF Consistent
      <3> QED
        BY <3>2 DEF Leads
    <2>5. PairsLead'
      BY <1>3, <1>11, <2>1, <2>4 DEF PairsLead
    <2> QED
      BY <1>19, <1>20, <2>5 DEF Inv
  <1> QED
    BY <1>21, <1>22

LEMMA SaveMbrKeeps ==
  ASSUME Inv, SaveMbr
  PROVE  Inv'
  <1>1. PICK written \in BOOLEAN :
          /\ Fails(written)
          /\ disk' = IF written THEN [disk EXCEPT !.mbr = cur.mbr] ELSE disk
    BY DEF SaveMbr
  <1>2. /\ orig' = [orig EXCEPT !.mbr = cur.mbr]
        /\ UNCHANGED <<cur, view, preview, menu>>
    BY DEF SaveMbr
  <1>3. orig \in Memory /\ cur.mbr \in MbrSector /\ disk \in Disk
    BY ShownTable DEF Inv, TypeOK
  <1>4. orig' \in Memory /\ orig'.adv = orig.adv /\ orig'.mbr = cur.mbr
    BY <1>2, <1>3, MemoryParts
  <1>5. /\ disk' \in Disk /\ disk'.data = disk.data
        /\ disk'.mbr \in {disk.mbr, cur.mbr}
    <2>1. CASE written
      <3>1. disk' = [disk EXCEPT !.mbr = cur.mbr]
        BY <1>1, <2>1
      <3> QED
        BY <1>3, <3>1 DEF Disk
    <2>2. CASE ~written
      BY <1>1, <1>3, <2>2
    <2> QED
      BY <2>1, <2>2
  <1>6. left' \in Nat /\ spoilt' \in BOOLEAN /\ (spoilt => spoilt')
    <2>1. CASE written
      BY <1>1, <2>1 DEF Fails, Inv, TypeOK
    <2>2. CASE ~written
      BY <1>1, <2>2, StepCounts DEF Fails
    <2> QED
      BY <2>1, <2>2
  <1>7. TypeOK'
    BY <1>2, <1>4, <1>5, <1>6 DEF Inv, TypeOK
  <1>8. TagsApart'
    BY <1>2, <1>4, <1>5 DEF Inv, TagsApart
  <1>9. PairsLead'
    BY <1>2, <1>4, <1>5, <1>6 DEF Inv, PairsLead
  <1> QED
    BY <1>7, <1>8, <1>9 DEF Inv
-------------------------------------------------------------------------------
(* The boot menu editor.                                                   *)
LEMMA FirstIn ==
  ASSUME NEW n \in Nat, NEW I, I \subseteq 1 .. n,
         NEW k, k = IF I # {} THEN Min(I) ELSE 0
  PROVE  k \in 0 .. n /\ (k # 0 => k \in I)
  <1>1. CASE I = {}
    BY <1>1
  <1>2. CASE I # {}
    <2>1. I \subseteq Nat
      OBVIOUS
    <2>2. k \in I
      BY <1>2, <2>1, MinIs
    <2> QED
      BY <2>2
  <1> QED
    BY <1>1, <1>2

(* There are fewer rows than tags.                                         *)
LEMMA FreeTagIs ==
  ASSUME NEW t \in [Rows -> Row]
  PROVE  FreeTag(t) \in Nat \ {0} /\ \A r \in Rows : t[r].tag # FreeTag(t)
  <1> DEFINE T == {x \in 1 .. NumRows + 1 : \A r \in Rows : t[r].tag # x}
  <1>1. Rows = 1 .. NumRows /\ NumRows \in Nat
    BY NumberBounds DEF Rows
  <1>2. T # {}
    <2>1. SUFFICES ASSUME T = {} PROVE FALSE
      OBVIOUS
    <2>2. \A x \in 1 .. NumRows + 1 : \E r \in Rows : t[r].tag = x
      BY <2>1
    <2> DEFINE S == 1 .. NumRows + 1
               f == [x \in S |-> CHOOSE r \in Rows : t[r].tag = x]
    <2>3. \A x \in S : f[x] \in Rows /\ t[f[x]].tag = x
      BY <2>2
    <2>4. f \in [S -> Rows]
      BY <2>3
    <2>5. IsFiniteSet(S) /\ Cardinality(S) = NumRows + 1
      BY <1>1, FS_Interval
    <2>6. IsFiniteSet(Rows) /\ Cardinality(Rows) = NumRows
      BY <1>1, FS_Interval
    <2> HIDE DEF S, f
    <2>7. Cardinality(Rows) < Cardinality(S)
      BY <1>1, <2>5, <2>6
    <2>8. PICK x, y \in S : x # y /\ f[x] = f[y]
      BY <2>4, <2>5, <2>6, <2>7, FS_PigeonHole
    <2> QED
      BY <2>3, <2>8
  <1>3. T \subseteq Nat
    BY <1>1
  <1>4. PICK x \in T : \A y \in T : x <= y
    BY <1>2, <1>3, LeastExists
  <1>5. /\ x \in 1 .. NumRows + 1
        /\ \A r \in Rows : t[r].tag # x
        /\ \A y \in 1 .. x - 1 : \E r \in Rows : t[r].tag = y
    <2>1. ASSUME NEW y \in 1 .. x - 1 PROVE \E r \in Rows : t[r].tag = y
      <3>1. y \in 1 .. NumRows + 1 /\ ~(x <= y)
        BY <1>1, <1>4
      <3>2. y \notin T
        BY <1>4, <3>1
      <3> QED
        BY <3>1, <3>2
    <2> QED
      BY <1>4, <2>1
  <1>6. /\ FreeTag(t) \in 1 .. NumRows + 1
        /\ \A r \in Rows : t[r].tag # FreeTag(t)
    BY <1>5 DEF FreeTag
  <1> QED
    BY <1>1, <1>6

LEMMA TaggedKeeps ==
  ASSUME NEW t \in [Rows -> Row], UniqueTags(t), NEW r \in Rows
  PROVE  /\ Tagged(t, r) \in [Rows -> Row] /\ UniqueTags(Tagged(t, r))
         /\ \A x \in Rows : Tagged(t, r)[x].type = t[x].type
  <1>1. CASE t[r].tag # 0
    BY <1>1 DEF Tagged
  <1>2. CASE t[r].tag = 0
    <2> DEFINE q == [t[r] EXCEPT !.tag = FreeTag(t)]
    <2>1. t[r] \in Row
      OBVIOUS
    <2>2. FreeTag(t) \in Nat \ {0} /\ \A x \in Rows : t[x].tag # FreeTag(t)
      BY FreeTagIs
    <2>3. q \in Row /\ q.tag = FreeTag(t)
      BY <2>1, <2>2, RowFields
    <2>8. q.type = t[r].type
      BY <2>1 DEF Row
    <2>4. Tagged(t, r) = [t EXCEPT ![r] = q]
      BY <1>2 DEF Tagged
    <2> HIDE DEF q
    <2>5. [t EXCEPT ![r] = q] \in [Rows -> Row]
      BY <2>3
    <2>6. \A x \in Rows : [t EXCEPT ![r] = q][x] = IF x = r THEN q ELSE t[x]
      OBVIOUS
    <2>7. UniqueTags([t EXCEPT ![r] = q])
      BY <2>2, <2>3, <2>6 DEF UniqueTags
    <2> QED
      BY <2>4, <2>5, <2>6, <2>7, <2>8
  <1> QED
    BY <1>1, <1>2

LEMMA AdvParts ==
  ASSUME NEW x \in Adv
  PROVE  /\ x.menu \in [Items -> Item] /\ x.part \in [Rows -> Row]
         /\ \A i \in BOOLEAN : LET y == [x EXCEPT !.ignore = i]
                               IN  y \in Adv /\ y.part = x.part
         /\ \A p \in [Rows -> Row], m \in [Items -> Item] :
              LET y == [x EXCEPT !.part = p, !.menu = m]
              IN  y \in Adv /\ y.part = p
         /\ \A m \in [Items -> Item] :
              LET y == [x EXCEPT !.menu = m]
              IN  y \in Adv /\ y.part = x.part /\ y.signed = x.signed
         /\ \A p \in [Rows -> Row] :
              LET y == [x EXCEPT !.part = p]
              IN  y \in Adv /\ y.part = p /\ y.signed = x.signed
  BY DEF Adv

LEMMA ItemForKeeps ==
  ASSUME NEW adv \in Adv, UniqueTags(adv.part), NEW r \in Rows
  PROVE  /\ ItemFor(adv, r) \in Adv /\ UniqueTags(ItemFor(adv, r).part)
         /\ ItemFor(adv, r).signed = adv.signed
         /\ \A x \in Rows : ItemFor(adv, r).part[x].type = adv.part[x].type
  <1> DEFINE I == {i \in 1 .. Len(adv.menu) : adv.menu[i].kind = "empty"}
             a == SelectInSeq(adv.menu, LAMBDA x : x.kind = "empty")
             part == Tagged(adv.part, r)
             item == [adv.menu[a] EXCEPT !.kind = "part", !.tag = part[r].tag]
             new == [adv EXCEPT !.part = part, !.menu[a].kind = "part",
                                !.menu[a].tag = part[r].tag]
  <1>1. adv.menu \in [Items -> Item] /\ adv.part \in [Rows -> Row]
    BY AdvParts
  <1>2. Items = 1 .. MenuLen /\ MenuLen \in Nat
    BY EditorTypes
  <1>3. Len(adv.menu) = MenuLen
    BY <1>1, <1>2, AsSequence
  <1>4. a = IF I # {} THEN Min(I) ELSE 0
    BY DEF SelectInSeq
  <1>5. ItemFor(adv, r) \in {adv, IF a = 0 THEN adv ELSE new}
    BY DEF ItemFor
  <1>6. I \subseteq 1 .. MenuLen
    BY <1>3
  <1>7. /\ part \in [Rows -> Row] /\ UniqueTags(part)
        /\ \A x \in Rows : part[x].type = adv.part[x].type
    BY <1>1, TaggedKeeps
  <1> HIDE DEF I, a, part
  <1>8. a \in 0 .. MenuLen
    BY <1>2, <1>4, <1>6, FirstIn
  <1>9. ASSUME a # 0 PROVE new \in Adv /\ new.part = part /\ new.signed = adv.signed
    <2>1. a \in Items
      BY <1>2, <1>8, <1>9
    <2>2. part[r].tag \in Nat
      BY <1>7, RowFields
    <2>3. item \in Item
      BY <1>1, <2>1, <2>2 DEF Item
    <2> DEFINE m == [adv.menu EXCEPT ![a] = item]
    <2>4. m \in [Items -> Item]
      BY <1>1, <2>3
    <2>5. new = [adv EXCEPT !.part = part, !.menu = m]
      BY <1>1, <2>1 DEF Adv
    <2> HIDE DEF m, new
    <2>6. [adv EXCEPT !.part = part, !.menu = m] \in Adv
          /\ [adv EXCEPT !.part = part, !.menu = m].part = part
          /\ [adv EXCEPT !.part = part, !.menu = m].signed = adv.signed
      BY <1>7, <2>4 DEF Adv
    <2> QED
      BY <2>5, <2>6
  <1> HIDE DEF new
  <1> QED
    BY <1>5, <1>7, <1>9

LEMMA AdvChanges ==
  ASSUME Inv, NEW adv \in Adv, UniqueTags(adv.part),
         cur' = [cur EXCEPT !.adv = adv], left' \in Nat,
         UNCHANGED <<disk, orig, view, preview, spoilt>>,
         menu' \in [open : {"no", "space", "enter"},
                    held : {<< >>} \cup [Rows -> Row]],
         menu'.open = "enter" => menu'.held \in [Rows -> Row] /\ UniqueTags(menu'.held)
  PROVE  Inv'
  <1>1. cur' \in Memory /\ cur'.adv = adv /\ cur'.mbr = cur.mbr
    BY ShownTable, MemoryParts
  <1> QED
    BY <1>1, ShownTable, CurChanges

LEMMA OptionsType ==
  ASSUME NEW x \in Adv, NEW adv \in OptionsOf(x)
  PROVE  adv \in Adv /\ adv.part = x.part /\ adv.signed = x.signed
  <1>1. PICK i \in BOOLEAN : adv = [x EXCEPT !.ignore = i]
    BY DEF OptionsOf
  <1> QED
    BY <1>1 DEF Adv

LEMMA OpenKeeps ==
  ASSUME Inv, NEW r \in Rows, OpenBySpace(r) \/ OpenByEnter(r)
  PROVE  Inv'
  <1>1. CASE OpenBySpace(r)
    <2>1. cur.adv \in Adv /\ UniqueTags(cur.adv.part)
      BY ShownTable DEF Part
    <2> DEFINE adv == ItemFor(cur.adv, r)
    <2>2. adv \in Adv /\ UniqueTags(adv.part)
      BY <2>1, ItemForKeeps
    <2>3. /\ cur' = [cur EXCEPT !.adv = adv] /\ menu' = [open |-> "space", held |-> << >>]
          /\ UNCHANGED <<disk, orig, view, preview, spoilt>>
      BY <1>1 DEF OpenBySpace, MenuOpened
    <2>4. left' \in Nat
      <3>1. left' = left \/ Step
        BY <1>1 DEF OpenBySpace
      <3> QED
        BY <3>1, StepCounts, ShownTable
    <2> HIDE DEF adv
    <2> QED
      BY <2>2, <2>3, <2>4, AdvChanges
  <1>2. CASE OpenByEnter(r)
    <2>1. PICK adv \in OptionsOf(cur.adv) : MenuOpened("enter", adv, Part)
      BY <1>2 DEF OpenByEnter
    <2>2. adv \in Adv /\ adv.part = Part
      BY OptionsType, ShownTable DEF Part
    <2>3. /\ cur' = [cur EXCEPT !.adv = adv] /\ menu' = [open |-> "enter", held |-> Part]
          /\ UNCHANGED <<disk, orig, view, preview, spoilt>> /\ left' \in Nat
      BY <1>2, <2>1, StepCounts DEF OpenByEnter, MenuOpened
    <2> QED
      BY <2>2, <2>3, ShownTable, AdvChanges
  <1> QED
    BY <1>1, <1>2

LEMMA KeyKeeps ==
  ASSUME Inv, NEW adv \in Adv, UniqueTags(adv.part), Key(adv)
  PROVE  Inv'
  <1>1. cur' = [cur EXCEPT !.adv = adv] /\ left' \in Nat
        /\ UNCHANGED <<disk, orig, view, preview, menu, spoilt>>
    BY StepCounts DEF Key
  <1> QED
    BY <1>1, ShownTable, AdvChanges

(* What a key of the menu editor may change of the data: items, tags and   *)
(* rows of the MBR, but no type, and it does not sign the data.            *)
EditsMenu ==
  \E adv \in Adv : /\ UniqueTags(adv.part) /\ adv.signed = cur.adv.signed
                   /\ \A x \in Rows : adv.part[x].type = cur.adv.part[x].type
                   /\ Key(adv)

LEMMA KeyOnEdits ==
  ASSUME Inv, NEW a \in Items, NEW item \in Item, KeyOn(a, item)
  PROVE  EditsMenu
  <1> DEFINE m == [cur.adv.menu EXCEPT ![a] = item]
             adv == [cur.adv EXCEPT !.menu = m]
  <1>1. cur.adv \in Adv /\ UniqueTags(cur.adv.part)
    BY ShownTable DEF Part
  <1>2. m \in [Items -> Item]
    BY <1>1, AdvParts
  <1>3. Key(adv)
    BY DEF KeyOn
  <1> HIDE DEF m
  <1>4. adv \in Adv /\ adv.part = cur.adv.part /\ adv.signed = cur.adv.signed
    BY <1>1, <1>2, AdvParts
  <1> HIDE DEF adv
  <1> QED
    BY <1>1, <1>3, <1>4 DEF EditsMenu
LEMMA KindEdits ==
  ASSUME Inv, NEW a \in Items, ItemKind(a)
  PROVE  EditsMenu
  <1> DEFINE item == cur.adv.menu[a]
  <1>1. item \in Item
    <2>1. cur.adv.menu \in [Items -> Item]
      BY ShownTable, AdvParts
    <2> QED
      BY <2>1
  <1>2. item.kind \in {"empty", "part", "next", "floppy", "invalid"}
    BY <1>1 DEF Item
  <1>3. /\ NextKind[item.kind] \in {"empty", "part", "next", "floppy"}
        /\ PrevKind[item.kind] \in {"part", "next", "floppy", "invalid"}
    BY <1>2 DEF NextKind, PrevKind
  <1>4. /\ [item EXCEPT !.kind = NextKind[item.kind]] \in Item
        /\ [item EXCEPT !.kind = PrevKind[item.kind]] \in Item
    BY <1>1, <1>3 DEF Item
  <1>5. \/ KeyOn(a, [item EXCEPT !.kind = NextKind[item.kind]])
        \/ KeyOn(a, [item EXCEPT !.kind = PrevKind[item.kind]])
    BY DEF ItemKind
  <1> HIDE DEF item
  <1> QED
    BY <1>4, <1>5, KeyOnEdits

LEMMA ShowEdits ==
  ASSUME Inv, NEW a \in Items, ItemShow(a)
  PROVE  EditsMenu
  <1> DEFINE item == cur.adv.menu[a]
             I == {i \in 1 .. Len(Shows) : Shows[i] = item.show}
             k == SelectInSeq(Shows, LAMBDA x : x = item.show)
  <1>1. item \in Item
    <2>1. cur.adv.menu \in [Items -> Item]
      BY ShownTable, AdvParts
    <2> QED
      BY <2>1
  <1>2. Len(Shows) = 5 /\ DOMAIN Shows = 1 .. 5
    BY DEF Shows
  <1>3. k = IF I # {} THEN Min(I) ELSE 0
    BY DEF SelectInSeq
  <1>4. I \subseteq 1 .. 5
    BY <1>2
  <1>5. PICK d \in {0, 3} : KeyOn(a, [item EXCEPT !.show = Shows[((k + d) % 5) + 1]])
    BY DEF ItemShow
  <1> HIDE DEF I, k
  <1>6. k \in 0 .. 5
    BY <1>3, <1>4, FirstIn
  <1>7. ((k + d) % 5) + 1 \in 1 .. 5
    BY <1>6
  <1> DEFINE s == Shows[((k + d) % 5) + 1]
  <1>8. s \in {Shows[i] : i \in DOMAIN Shows}
    BY <1>2, <1>7
  <1> HIDE DEF s
  <1>9. [item EXCEPT !.show = s] \in Item
    BY <1>1, <1>8 DEF Item
  <1>10. KeyOn(a, [item EXCEPT !.show = s])
    BY <1>5 DEF s
  <1> HIDE DEF item
  <1> QED
    BY <1>9, <1>10, KeyOnEdits

LEMMA PartNumType ==
  ASSUME NEW t \in [Rows -> Row], NEW tag
  PROVE  PartNum(t, tag) \in 0 .. NumRows
  <1> DEFINE u == [r \in Rows |-> t[r]]
             I == {i \in 1 .. Len(u) : u[i].tag = tag}
             k == SelectInSeq(u, LAMBDA p : p.tag = tag)
  <1>1. Rows = 1 .. NumRows /\ NumRows \in Nat
    BY NumberBounds DEF Rows
  <1>2. u \in [1 .. NumRows -> Row]
    BY <1>1
  <1>3. Len(u) = NumRows
    <2> HIDE DEF u
    <2> QED
      BY <1>1, <1>2, AsSequence
  <1>4. k = IF I # {} THEN Min(I) ELSE 0
    BY DEF SelectInSeq
  <1>5. I \subseteq 1 .. NumRows
    BY <1>3
  <1>6. PartNum(t, tag) \in {0, k}
    BY DEF PartNum
  <1> HIDE DEF I, k, u
  <1>7. k \in 0 .. NumRows
    BY <1>1, <1>4, <1>5, FirstIn
  <1> QED
    BY <1>1, <1>6, <1>7

LEMMA RowEdits ==
  ASSUME Inv, NEW a \in Items, ItemRow(a)
  PROVE  EditsMenu
  <1> DEFINE k == PartNum(Part, cur.adv.menu[a].tag)
             q == [Part[k] EXCEPT !.orig = NextRow(Part[k].orig)]
             p == [Part EXCEPT ![k] = q]
             adv == [cur.adv EXCEPT !.part = p]
  <1>1. Part \in [Rows -> Row] /\ UniqueTags(Part) /\ cur.adv \in Adv
        /\ Part = cur.adv.part
    BY ShownTable DEF Part
  <1>2. k \in 0 .. NumRows
    BY <1>1, PartNumType
  <1>3. k # 0 /\ Key([cur.adv EXCEPT !.part[k].orig = NextRow(@)])
    BY DEF ItemRow
  <1> HIDE DEF k
  <1>4. k \in Rows
    BY <1>2, <1>3, NumberBounds DEF Rows
  <1>5. Part[k] \in Row
    BY <1>1, <1>4
  <1>6. NextRow(Part[k].orig) \in 0 .. 4
    <2>1. Part[k].orig \in 0 .. 4
      BY <1>5, RowFields
    <2> QED
      BY <2>1 DEF NextRow
  <1>7. q \in Row /\ q.tag = Part[k].tag /\ q.type = Part[k].type
    BY <1>5, <1>6, RowFields DEF Row
  <1>8. [cur.adv EXCEPT !.part[k].orig = NextRow(@)] = adv
    BY <1>1, <1>4, <1>5
  <1> HIDE DEF q
  <1>9. p \in [Rows -> Row] /\ UniqueTags(p)
    BY <1>1, <1>4, <1>7, RowChanges
  <1>10. \A x \in Rows : p[x].type = Part[x].type
    BY <1>1, <1>4, <1>7
  <1> HIDE DEF p
  <1>11. adv \in Adv /\ adv.part = p /\ adv.signed = cur.adv.signed
    BY <1>1, <1>9, AdvParts
  <1> HIDE DEF adv
  <1> QED
    BY <1>1, <1>3, <1>8, <1>9, <1>10, <1>11 DEF EditsMenu

LEMMA Turned ==
  \A S : \A t \in Seq(S) : Reverse(t) \in Seq(S)
  BY DEF Reverse

LEMMA OrderType ==
  ASSUME NEW k \in 0 .. NumRows, NEW order \in {RowsAfter(k), RowsBefore(k)}
  PROVE  order \in Seq(Rows)
  <1>1. Rows = 1 .. NumRows /\ NumRows \in Nat
    BY NumberBounds DEF Rows
  <1>2. After(k) \in Seq(Rows)
    <2>1. After(k) \in [1 .. NumRows - k -> Rows] /\ NumRows - k \in Nat
      BY <1>1 DEF After
    <2> QED
      BY <2>1, AsSequence
  <1>3. Before(k) \in Seq(Rows)
    <2>1. CASE k = 0
      <3>1. Before(k) = << >>
        BY <2>1 DEF Before
      <3> QED
        BY <3>1
    <2>2. CASE k # 0
      <3>1. Before(k) \in [1 .. k - 1 -> Rows] /\ k - 1 \in Nat
        BY <1>1, <2>2 DEF Before
      <3> QED
        BY <3>1, AsSequence
    <2> QED
      BY <2>1, <2>2
  <1>4. << >> \in Seq(Rows)
    OBVIOUS
  <1>5. RowsAfter(k) \in Seq(Rows)
    BY <1>2, <1>3, <1>4, Joined DEF RowsAfter
  <1>6. RowsBefore(k) \in Seq(Rows)
    <2>1. Reverse(Before(k)) \in Seq(Rows) /\ Reverse(After(k)) \in Seq(Rows)
      BY <1>2, <1>3, Turned
    <2> QED
      BY <1>4, <2>1, Joined DEF RowsBefore
  <1> QED
    BY <1>5, <1>6

LEMMA PartEdits ==
  ASSUME Inv, NEW a \in Items, ItemPart(a)
  PROVE  EditsMenu
  <1> DEFINE adv == cur.adv
             k == PartNum(Part, adv.menu[a].tag)
  <1>1. Part \in [Rows -> Row] /\ UniqueTags(Part) /\ adv \in Adv /\ Part = adv.part
    BY ShownTable DEF Part
  <1>2. PICK order \in {RowsAfter(k), RowsBefore(k)} : Key(WithPart(adv, a, order))
    BY DEF ItemPart
  <1>3. order \in Seq(Rows)
    BY <1>1, PartNumType, OrderType
  <1>4. adv = cur.adv
    OBVIOUS
  <1> HIDE DEF k, adv
  <1> DEFINE item == adv.menu[a]
             I == {x \in 1 .. Len(order) : OsRow(adv.part[order[x]])}
             i == SelectInSeq(order, LAMBDA r : OsRow(adv.part[r]))
             part == IF i = 0 THEN adv.part ELSE Tagged(adv.part, order[i])
             tag == IF i = 0 THEN item.tag ELSE part[order[i]].tag
             kind == IF item.kind = "empty" /\ tag # 0 THEN "part" ELSE item.kind
             new == [item EXCEPT !.tag = tag, !.kind = kind]
             m == [adv.menu EXCEPT ![a] = new]
             result == [adv EXCEPT !.part = part, !.menu = m]
  <1>5. i = IF I # {} THEN Min(I) ELSE 0
    BY DEF SelectInSeq
  <1>6. adv.menu \in [Items -> Item] /\ item \in Item
    BY <1>1, AdvParts
  <1>7. WithPart(adv, a, order) = [adv EXCEPT !.part = part, !.menu[a].tag = tag,
           !.menu[a].kind = IF @ = "empty" /\ tag # 0 THEN "part" ELSE @]
    BY DEF WithPart
  <1>8. Len(order) \in Nat /\ I \subseteq 1 .. Len(order)
    BY <1>3
  <1> HIDE DEF I, i
  <1>9. i \in 0 .. Len(order)
    BY <1>5, <1>8, FirstIn
  <1>10. i # 0 => order[i] \in Rows
    BY <1>3, <1>8, <1>9
  <1>11. part \in [Rows -> Row] /\ UniqueTags(part)
         /\ \A x \in Rows : part[x].type = adv.part[x].type
    BY <1>1, <1>10, TaggedKeeps
  <1> HIDE DEF part
  <1>12. tag \in Nat
    BY <1>6, <1>10, <1>11, RowFields DEF Item
  <1> HIDE DEF tag
  <1>13. new \in Item
    BY <1>6, <1>12 DEF Item
  <1>14. m \in [Items -> Item]
    BY <1>6, <1>13
  <1>15. WithPart(adv, a, order) = result
    BY <1>1, <1>6, <1>7 DEF Adv, Item
  <1> HIDE DEF m
  <1>16. result \in Adv /\ result.part = part /\ result.signed = adv.signed
    BY <1>1, <1>11, <1>14 DEF Adv
  <1> HIDE DEF result
  <1> QED
    BY <1>1, <1>2, <1>4, <1>11, <1>15, <1>16 DEF EditsMenu
LEMMA SubSeqIs ==
  \A S : \A t \in Seq(S) : \A i \in 1 .. Len(t) + 1 : \A j \in i - 1 .. Len(t) :
    /\ SubSeq(t, i, j) \in Seq(S) /\ Len(SubSeq(t, i, j)) = j - i + 1
    /\ \A k \in 1 .. j - i + 1 : SubSeq(t, i, j)[k] = t[i + k - 1]
  OBVIOUS

LEMMA OneElement ==
  \A S : \A e \in S : <<e>> \in Seq(S) /\ Len(<<e>>) = 1 /\ <<e>>[1] = e
  OBVIOUS

LEMMA ElementsOf ==
  \A S : \A t \in Seq(S) : t \in [1 .. Len(t) -> S]
  OBVIOUS

LEMMA InsertAtIs ==
  ASSUME NEW S, NEW t \in Seq(S), NEW e \in S, NEW i \in 1 .. Len(t) + 1
  PROVE  /\ InsertAt(t, i, e) \in Seq(S) /\ Len(InsertAt(t, i, e)) = Len(t) + 1
         /\ \A k \in 1 .. Len(t) + 1 :
              InsertAt(t, i, e)[k] = IF k < i THEN t[k] ELSE IF k = i THEN e ELSE t[k - 1]
  <1> DEFINE a == SubSeq(t, 1, i - 1)
             b == SubSeq(t, i, Len(t))
             c == a \o <<e>>
  <1>1. Len(t) \in Nat
    OBVIOUS
  <1>2. /\ a \in Seq(S) /\ Len(a) = i - 1
        /\ \A k \in 1 .. i - 1 : a[k] = t[k]
    <2>1. 1 \in 1 .. Len(t) + 1 /\ i - 1 \in 1 - 1 .. Len(t)
      BY <1>1
    <2>2. /\ a \in Seq(S) /\ Len(a) = i - 1 - 1 + 1
          /\ \A k \in 1 .. i - 1 - 1 + 1 : a[k] = t[1 + k - 1]
      BY <2>1, SubSeqIs
    <2> HIDE DEF a
    <2> QED
      BY <1>1, <2>2
  <1>3. /\ b \in Seq(S) /\ Len(b) = Len(t) - i + 1
        /\ \A k \in 1 .. Len(t) - i + 1 : b[k] = t[i + k - 1]
    <2>1. Len(t) \in i - 1 .. Len(t)
      BY <1>1
    <2> QED
      BY <2>1, SubSeqIs
  <1>4. InsertAt(t, i, e) = c \o b
    BY DEF InsertAt
  <1> HIDE DEF a, b
  <1>5. /\ c \in Seq(S) /\ Len(c) = i
        /\ \A k \in 1 .. i : c[k] = IF k < i THEN t[k] ELSE e
    <2>1. <<e>> \in Seq(S) /\ Len(<<e>>) = 1 /\ <<e>>[1] = e
      BY OneElement
    <2>2. /\ c \in Seq(S) /\ Len(c) = Len(a) + Len(<<e>>)
          /\ \A r \in 1 .. Len(a) + Len(<<e>>) :
               c[r] = IF r <= Len(a) THEN a[r] ELSE <<e>>[r - Len(a)]
      BY <1>2, <2>1, Joined
    <2> HIDE DEF c
    <2>3. Len(c) = i
      BY <1>1, <1>2, <2>1, <2>2
    <2>4. ASSUME NEW k \in 1 .. i PROVE c[k] = IF k < i THEN t[k] ELSE e
      <3>1. c[k] = IF k <= i - 1 THEN a[k] ELSE <<e>>[k - (i - 1)]
        BY <1>1, <1>2, <2>1, <2>2
      <3>2. CASE k < i
        BY <1>1, <1>2, <3>1, <3>2
      <3>3. CASE k = i
        BY <1>1, <2>1, <3>1, <3>3
      <3> QED
        BY <1>1, <3>2, <3>3
    <2> QED
      BY <2>2, <2>3, <2>4
  <1> HIDE DEF c
  <1>6. /\ c \o b \in Seq(S) /\ Len(c \o b) = Len(c) + Len(b)
        /\ \A r \in 1 .. Len(c) + Len(b) :
             (c \o b)[r] = IF r <= Len(c) THEN c[r] ELSE b[r - Len(c)]
    BY <1>3, <1>5, Joined
  <1>7. Len(c \o b) = Len(t) + 1
    BY <1>1, <1>3, <1>5, <1>6
  <1>8. ASSUME NEW k \in 1 .. Len(t) + 1
        PROVE  (c \o b)[k] = IF k < i THEN t[k] ELSE IF k = i THEN e ELSE t[k - 1]
    <2>1. (c \o b)[k] = IF k <= i THEN c[k] ELSE b[k - i]
      BY <1>1, <1>3, <1>5, <1>6
    <2>2. CASE k <= i
      <3>1. k \in 1 .. i
        BY <1>1, <2>2
      <3>2. c[k] = IF k < i THEN t[k] ELSE e
        BY <1>5, <3>1
      <3>3. (c \o b)[k] = c[k]
        BY <2>1, <2>2
      <3>4. k < i \/ k = i
        BY <1>1, <2>2
      <3>5. k = i => ~(k < i)
        BY <1>1
      <3> QED
        BY <3>2, <3>3, <3>4, <3>5, Zenon
    <2>3. CASE k > i
      <3>1. k - i \in 1 .. Len(t) - i + 1 /\ i + (k - i) - 1 = k - 1
        BY <1>1, <2>3
      <3>2. b[k - i] = t[k - 1]
        BY <1>3, <3>1
      <3>3. ~(k <= i) /\ ~(k < i) /\ k # i
        BY <1>1, <2>3
      <3>4. (c \o b)[k] = t[k - 1]
        BY <2>1, <3>2, <3>3, Zenon
      <3> QED
        BY <3>3, <3>4, Zenon
    <2>4. k <= i \/ k > i
      BY <1>1
    <2> QED
      BY <2>2, <2>3, <2>4, Zenon
  <1> QED
    BY <1>4, <1>6, <1>7, <1>8

LEMMA ItemsMoveEdit ==
  ASSUME Inv, NEW a \in Items, InsertItem(a) \/ DeleteItem(a)
  PROVE  EditsMenu
  <1> DEFINE u == [x \in Items |-> cur.adv.menu[x]]
             ins == SubSeq(InsertAt(u, a, NoItem), 1, MenuLen)
             del == Append(RemoveAt(u, a), NoItem)
  <1>1. cur.adv \in Adv /\ UniqueTags(cur.adv.part) /\ cur.adv.menu \in [Items -> Item]
    BY ShownTable, AdvParts DEF Part
  <1>2. Items = 1 .. MenuLen /\ MenuLen \in Nat \ {0} /\ NoItem \in Item
    BY EditorTypes
  <1>3. u \in Seq(Item) /\ Len(u) = MenuLen
    <2>1. u \in [1 .. MenuLen -> Item]
      BY <1>1, <1>2
    <2> HIDE DEF u
    <2> QED
      BY <1>2, <2>1, AsSequence
  <1>4. ASSUME NEW m \in [Items -> Item], Key([cur.adv EXCEPT !.menu = m])
        PROVE  EditsMenu
    <2> DEFINE adv == [cur.adv EXCEPT !.menu = m]
    <2>1. adv \in Adv /\ adv.part = cur.adv.part /\ adv.signed = cur.adv.signed
      BY <1>1, AdvParts
    <2>2. Key(adv)
      BY <1>4
    <2> HIDE DEF adv
    <2> QED
      BY <1>1, <2>1, <2>2 DEF EditsMenu
  <1>5. InsertItem(a) => Key([cur.adv EXCEPT !.menu = ins])
    BY DEF InsertItem
  <1>6. DeleteItem(a) => Key([cur.adv EXCEPT !.menu = del])
    BY DEF DeleteItem
  <1> HIDE DEF u
  <1>7. ins \in [Items -> Item]
    <2>1. /\ InsertAt(u, a, NoItem) \in Seq(Item)
          /\ Len(InsertAt(u, a, NoItem)) = MenuLen + 1
      BY <1>2, <1>3, InsertAtIs
    <2> DEFINE w == InsertAt(u, a, NoItem)
    <2> HIDE DEF w
    <2>2. w \in Seq(Item) /\ Len(w) = MenuLen + 1 /\ ins = SubSeq(w, 1, MenuLen)
      BY <2>1 DEF w
    <2>3. 1 \in 1 .. Len(w) + 1 /\ MenuLen \in 1 - 1 .. Len(w) /\ MenuLen - 1 + 1 = MenuLen
      BY <1>2, <2>2
    <2>4. SubSeq(w, 1, MenuLen) \in Seq(Item) /\ Len(SubSeq(w, 1, MenuLen)) = MenuLen
      BY <2>2, <2>3, SubSeqIs
    <2> QED
      BY <1>2, <2>2, <2>4, ElementsOf
  <1>8. del \in [Items -> Item]
    <2> DEFINE x == SubSeq(u, 1, a - 1)
               y == SubSeq(u, a + 1, MenuLen)
               w == x \o y
    <2>1. x \in Seq(Item) /\ Len(x) = a - 1
      <3>1. 1 \in 1 .. Len(u) + 1 /\ a - 1 \in 1 - 1 .. Len(u) /\ a - 1 - 1 + 1 = a - 1
        BY <1>2, <1>3
      <3> QED
        BY <1>3, <3>1, SubSeqIs
    <2>2. y \in Seq(Item) /\ Len(y) = MenuLen - a
      <3>1. a + 1 \in 1 .. Len(u) + 1 /\ MenuLen \in a + 1 - 1 .. Len(u)
            /\ MenuLen - (a + 1) + 1 = MenuLen - a
        BY <1>2, <1>3
      <3> QED
        BY <1>3, <3>1, SubSeqIs
    <2>3. del = Append(w, NoItem)
      BY <1>3 DEF RemoveAt
    <2> HIDE DEF x, y
    <2>4. w \in Seq(Item) /\ Len(w) = MenuLen - 1
      <3>1. w \in Seq(Item) /\ Len(w) = Len(x) + Len(y)
        BY <2>1, <2>2, Joined
      <3> HIDE DEF w
      <3> QED
        BY <1>2, <2>1, <2>2, <3>1
    <2> HIDE DEF w
    <2>5. Append(w, NoItem) \in Seq(Item) /\ Len(Append(w, NoItem)) = MenuLen
      <3>1. Append(w, NoItem) \in Seq(Item) /\ Len(Append(w, NoItem)) = Len(w) + 1
        BY <1>2, <2>4
      <3> QED
        BY <1>2, <2>4, <3>1
    <2> QED
      BY <1>2, <2>3, <2>5, ElementsOf
  <1> HIDE DEF ins, del
  <1> QED
    BY <1>4, <1>5, <1>6, <1>7, <1>8

LEMMA MenuKeyEdits ==
  ASSUME Inv, MenuKey
  PROVE  EditsMenu
  <1>1. CASE Options
    <2>1. PICK adv \in OptionsOf(cur.adv) : Key(adv)
      BY <1>1 DEF Options
    <2>2. /\ adv \in Adv /\ UniqueTags(adv.part)
          /\ adv.signed = cur.adv.signed /\ adv.part = cur.adv.part
      BY ShownTable, OptionsType DEF Part
    <2> QED
      BY <2>1, <2>2 DEF EditsMenu
  <1>2. KeyItems \subseteq Items
    BY EditorConstants DEF Items
  <1> QED
    BY <1>1, <1>2, KindEdits, PartEdits, RowEdits, ShowEdits, ItemsMoveEdit DEF MenuKey

LEMMA MenuKeyKeeps ==
  ASSUME Inv, MenuKey
  PROVE  Inv'
  <1>1. EditsMenu
    BY MenuKeyEdits
  <1> QED
    BY <1>1, KeyKeeps DEF EditsMenu

LEMMA CloseMenuKeeps ==
  ASSUME Inv, CloseMenu
  PROVE  Inv'
  <1> DEFINE clean == CleanTags(cur.adv)
             p == IF menu.open = "enter" THEN menu.held ELSE Arranged(clean)
  <1>1. Part \in [Rows -> Row] /\ UniqueTags(Part) /\ Part = cur.adv.part
        /\ cur \in Memory
    BY ShownTable DEF Part
  <1>2. /\ cur' = [cur EXCEPT !.adv.part = p] /\ menu' = Closed
        /\ UNCHANGED <<disk, orig, view, preview, spoilt, left>>
    BY DEF CloseMenu
  <1>3. clean \in [Rows -> Row] /\ UniqueTags(clean)
    <2> DEFINE tag(r) == IF \E a \in Items : cur.adv.menu[a].tag = Part[r].tag
                         THEN Part[r].tag ELSE 0
    <2>1. clean = [r \in Rows |-> [Part[r] EXCEPT !.tag = tag(r)]]
      BY <1>1 DEF CleanTags
    <2>2. \A r \in Rows : tag(r) = Part[r].tag \/ tag(r) = 0
      OBVIOUS
    <2> HIDE DEF tag
    <2>3. ASSUME NEW r \in Rows
          PROVE  [Part[r] EXCEPT !.tag = tag(r)] \in Row
                 /\ [Part[r] EXCEPT !.tag = tag(r)].tag = tag(r)
      <3>1. Part[r] \in Row
        BY <1>1
      <3>2. tag(r) \in Nat
        <4>1. Part[r].tag \in Nat
          BY <3>1 DEF Row
        <4> QED
          BY <2>2, <4>1
      <3> QED
        BY <3>1, <3>2, RowFields
    <2> HIDE DEF clean
    <2>4. clean \in [Rows -> Row]
      BY <2>1, <2>3
    <2>5. \A r \in Rows : clean[r].tag = Part[r].tag \/ clean[r].tag = 0
      BY <2>1, <2>2, <2>3
    <2> QED
      BY <1>1, <2>4, <2>5, SameTags
  <1> HIDE DEF clean
  <1>4. p \in [Rows -> Row] /\ UniqueTags(p)
    BY <1>3, ArrangedTable, ShownTable
  <1> HIDE DEF p
  <1>5. cur' \in Memory /\ cur'.adv.part = p /\ cur'.mbr = cur.mbr
    BY <1>1, <1>2, <1>4, MemoryParts
  <1>6. menu' \in [open : {"no", "space", "enter"},
                   held : {<< >>} \cup [Rows -> Row]]
        /\ menu'.open # "enter"
    BY <1>2 DEF Closed
  <1> QED
    BY <1>2, <1>4, <1>5, <1>6, ShownTable, CurChanges
-------------------------------------------------------------------------------
(* Installing.  The rows taken from the MBR have the tag of their place, or*)
(* none.                                                                   *)
OwnTags(seq) == \A i \in 1 .. Len(seq) : seq[i].tag \in {0, i}
SeqTagsApart(seq) ==
  \A i, j \in 1 .. Len(seq) : i # j /\ seq[i].tag # 0 => seq[i].tag # seq[j].tag
Taking == {acc \in [part : Seq(Row), menu : Seq(Item)] : OwnTags(acc.part)}

LEMMA ItemsChange ==
  ASSUME NEW m \in Seq(Item), NEW a \in Nat, NEW tag \in Nat
  PROVE  /\ [m EXCEPT ![a].tag = tag] \in Seq(Item)
         /\ [m EXCEPT ![a].show = "Next"] \in Seq(Item)
  <1> DEFINE n == Len(m)
  <1>1. n \in Nat /\ m \in [1 .. n -> Item]
    BY ElementsOf
  <1> HIDE DEF n
  <1>2. "Next" \in {Shows[k] : k \in DOMAIN Shows}
    <2>1. 3 \in DOMAIN Shows /\ Shows[3] = "Next"
      BY DEF Shows
    <2> QED
      BY <2>1
  <1>3. \A x \in 1 .. n : /\ [m[x] EXCEPT !.tag = tag] \in Item
                          /\ [m[x] EXCEPT !.show = "Next"] \in Item
    BY <1>1, <1>2 DEF Item
  <1>4. [m EXCEPT ![a].tag = tag] \in [1 .. n -> Item]
    BY <1>1, <1>3
  <1>5. [m EXCEPT ![a].show = "Next"] \in [1 .. n -> Item]
    BY <1>1, <1>3
  <1> QED
    BY <1>1, <1>4, <1>5, AsSequence

LEMMA Appended ==
  \A S : \A t \in Seq(S), e \in S :
    /\ Append(t, e) \in Seq(S) /\ Len(Append(t, e)) = Len(t) + 1
    /\ \A i \in 1 .. Len(t) + 1 :
         Append(t, e)[i] = IF i <= Len(t) THEN t[i] ELSE e
  OBVIOUS

LEMMA TakeType ==
  ASSUME NEW acc \in Taking, NEW rows \in [Slots -> Entry], NEW wins,
         NEW k \in 1 .. 4
  PROVE  Take(acc, rows, wins, k) \in Taking
  <1> DEFINE e == rows[k]
             n == Len(acc.part) + 1
             swap == k > 1 /\ rows[k - 1].type = Linux /\ e.type = Swap
             row == [type |-> e.type, tag |-> IF swap THEN 0 ELSE n, orig |-> k,
                     rel |-> e.rel, num |-> e.num]
             begin == IF acc.menu # << >> /\ acc.menu[1].tag = 0 /\ e.type = Fat
                      THEN [acc.menu EXCEPT ![1].tag = n] ELSE acc.menu
             copies == IF swap \/ e.type = Extended THEN 0
                       ELSE IF k \in wins THEN 4 ELSE 1
             added == [i \in 1 .. copies |-> PartItem(n)]
             items == IF swap THEN [begin EXCEPT ![Len(begin)].show = "Next"]
                      ELSE begin \o added
             result == [part |-> Append(acc.part, row), menu |-> items]
  <1>1. acc.part \in Seq(Row) /\ acc.menu \in Seq(Item) /\ OwnTags(acc.part)
    BY DEF Taking
  <1>2. e \in Entry /\ k \in Slots
    BY DEF Slots
  <1>3. n \in Nat /\ n = Len(acc.part) + 1
    BY <1>1
  <1>4. Take(acc, rows, wins, k) = IF e.type = Unused THEN acc ELSE result
    BY DEF Take
  <1> HIDE DEF e, n
  <1>5. row \in Row /\ row.tag \in {0, n}
    BY <1>2, <1>3 DEF Entry, Row, Types
  <1>6. begin \in Seq(Item)
    BY <1>1, <1>3, ItemsChange
  <1>7. added \in Seq(Item)
    <2>1. PartItem(n) \in Item
      <3>1. 1 \in DOMAIN Shows /\ Shows[1] = "One"
        BY DEF Shows
      <3> QED
        BY <1>3, <3>1 DEF PartItem, Item
    <2>2. copies \in Nat
      OBVIOUS
    <2> HIDE DEF copies
    <2>3. added \in [1 .. copies -> Item]
      BY <2>1
    <2> QED
      BY <2>2, <2>3, AsSequence
  <1> HIDE DEF begin, added, row, swap
  <1>8. items \in Seq(Item)
    <2>1. Len(begin) \in Nat
      BY <1>6
    <2>2. [begin EXCEPT ![Len(begin)].show = "Next"] \in Seq(Item)
      BY <1>6, <2>1, ItemsChange
    <2>3. begin \o added \in Seq(Item)
      BY <1>6, <1>7, Joined
    <2> QED
      BY <2>2, <2>3
  <1> HIDE DEF items
  <1> DEFINE part == Append(acc.part, row)
  <1>9. /\ part \in Seq(Row) /\ Len(part) = Len(acc.part) + 1
        /\ \A i \in 1 .. Len(acc.part) + 1 :
             part[i] = IF i <= Len(acc.part) THEN acc.part[i] ELSE row
    BY <1>1, <1>5, Appended
  <1> HIDE DEF part
  <1>10. OwnTags(part)
    <2> SUFFICES ASSUME NEW i \in 1 .. Len(part) PROVE part[i].tag \in {0, i}
      BY DEF OwnTags
    <2>1. i \in 1 .. Len(acc.part) + 1 /\ Len(acc.part) \in Nat
      BY <1>1, <1>9
    <2>2. CASE i <= Len(acc.part)
      <3>1. i \in 1 .. Len(acc.part) /\ part[i] = acc.part[i]
        BY <1>9, <2>1, <2>2
      <3> QED
        BY <1>1, <3>1 DEF OwnTags
    <2>3. CASE ~(i <= Len(acc.part))
      <3>1. i = n /\ part[i] = row
        BY <1>3, <1>9, <2>1, <2>3
      <3> QED
        BY <1>5, <3>1
    <2> QED
      BY <2>2, <2>3
  <1>11. result \in Taking
    BY <1>8, <1>9, <1>10 DEF Taking, part
  <1> QED
    BY <1>4, <1>11

(* The rows and items after each slot of the MBR.                          *)
TakenUpTo(after, rows, wins) ==
  /\ after \in [0 .. 4 -> Taking] /\ after[0].part = << >>
  /\ \A k \in 1 .. 4 : after[k] = Take(after[k - 1], rows, wins, k)

LEMMA TakenSteps ==
  ASSUME NEW rows \in [Slots -> Entry], NEW wins
  PROVE  \E steps : TakenUpTo(steps, rows, wins) /\ Taken(rows, wins) = steps[4]
  <1> DEFINE none == [part |-> << >>,
                      menu |-> IF FirstDisk THEN <<[NoItem EXCEPT !.kind = "floppy"]>>
                               ELSE << >>]
             after == CHOOSE h : h = [k \in 0 .. 4 |->
                        IF k = 0 THEN none ELSE Take(h[k - 1], rows, wins, k)]
             f == [x \in Taking \X (1 .. 4) |-> Take(x[1], rows, wins, x[2])]
  <1>1. Taken(rows, wins) = after[4]
    BY DEF Taken
  <1>2. none \in Taking
    <2> DEFINE floppy == [NoItem EXCEPT !.kind = "floppy"]
    <2>1. floppy \in Item
      BY EditorTypes DEF Item
    <2> HIDE DEF floppy
    <2>2. <<floppy>> \in Seq(Item) /\ << >> \in Seq(Item) /\ << >> \in Seq(Row)
      BY <2>1
    <2>3. OwnTags(<< >>)
      BY DEF OwnTags
    <2> QED
      BY <2>2, <2>3 DEF Taking, floppy
  <1>3. none.part = << >>
    OBVIOUS
  <1>4. f \in [Taking \X (1 .. 4) -> Taking]
    BY TakeType
  <1> HIDE DEF none
  <1>5. PICK h \in [0 .. 4 -> Taking] : IsLoop(h, none, 4, f)
    <2> HIDE DEF f
    <2> QED
      BY <1>2, <1>4, LoopExists
  <1>6. ASSUME NEW k \in 0 .. 4
        PROVE  h[k] = IF k = 0 THEN none ELSE Take(h[k - 1], rows, wins, k)
    <2>1. h[k] = IF k = 0 THEN none ELSE f[<<h[k - 1], k>>]
      BY <1>5 DEF IsLoop
    <2>2. CASE k # 0
      <3>1. k \in 1 .. 4 /\ h[k - 1] \in Taking
        BY <1>5, <2>2
      <3>2. f[<<h[k - 1], k>>] = Take(h[k - 1], rows, wins, k)
        BY <3>1
      <3> QED
        BY <2>1, <2>2, <3>2
    <2> QED
      BY <2>1, <2>2
  <1>7. after = [k \in 0 .. 4 |->
                   IF k = 0 THEN none ELSE Take(after[k - 1], rows, wins, k)]
    <2> DEFINE g == [k \in 0 .. 4 |->
                       IF k = 0 THEN none ELSE Take(h[k - 1], rows, wins, k)]
    <2>1. \A k \in 0 .. 4 : h[k] = g[k]
      BY <1>6
    <2>2. DOMAIN h = 0 .. 4 /\ DOMAIN g = 0 .. 4 /\ h = [k \in 0 .. 4 |-> h[k]]
      BY <1>5
    <2>3. g = [k \in 0 .. 4 |-> g[k]]
      OBVIOUS
    <2>4. h = g
      <3> HIDE DEF g
      <3> QED
        BY <2>1, <2>2, <2>3
    <2> QED
      BY <2>4
  <1>8. \A k \in 0 .. 4 :
          after[k] = IF k = 0 THEN none ELSE Take(after[k - 1], rows, wins, k)
    <2> HIDE DEF after
    <2> QED
      BY <1>7
  <1>9. DOMAIN after = 0 .. 4 /\ after = [k \in 0 .. 4 |-> after[k]]
    <2> HIDE DEF after
    <2> QED
      BY <1>7
  <1> HIDE DEF after
  <1> DEFINE G == {k \in 0 .. 4 : after[k] \in Taking}
  <1>10. 0 \in G
    BY <1>2, <1>8
  <1>11. ASSUME NEW k \in 1 .. 4, k - 1 \in G PROVE k \in G
    <2>1. after[k] = Take(after[k - 1], rows, wins, k)
      BY <1>8
    <2> QED
      BY <1>11, <2>1, TakeType
  <1>12. \A k \in 0 .. 4 : k \in G
    <2> HIDE DEF G
    <2> QED
      BY <1>10, <1>11, Turns
  <1>13. after \in [0 .. 4 -> Taking]
    BY <1>9, <1>12
  <1>14. TakenUpTo(after, rows, wins)
    BY <1>3, <1>8, <1>13 DEF TakenUpTo
  <1> QED
    BY <1>1, <1>14
LEMMA ByPlacePermutes ==
  ASSUME NEW part \in Seq(Row)
  PROVE  /\ \E p : /\ IsPermutation(p, Len(part))
                   /\ ByPlace(part) = [k \in 1 .. Len(part) |-> part[p[k]]]
         /\ ByPlace(part) \in Seq(Row) /\ Len(ByPlace(part)) = Len(part)
         /\ OwnTags(part) => SeqTagsApart(ByPlace(part))
  <1> DEFINE n == Len(part)
             ahead == [i \in 1 .. n |-> {j \in 1 .. n : StartsBefore(part, j, i)}]
  <1>1. n \in Nat /\ DOMAIN part = 1 .. n /\ part \in [1 .. n -> Row]
    BY ElementsOf
  <1>2. ByPlace(part) = Ranked(part, ahead)
    BY <1>1 DEF ByPlace
  <1> HIDE DEF n
  <1>3. \A i \in 1 .. n : part[i].rel \in Nat
    BY <1>1, NumberBounds DEF Row
  <1>4. IsOrder(n, ahead)
    <2>1. ahead \in [1 .. n -> SUBSET (1 .. n)]
      OBVIOUS
    <2>2. \A i, j \in 1 .. n : j \in ahead[i] <=>
            part[j].rel < part[i].rel \/ (part[j].rel = part[i].rel /\ j < i)
      BY DEF StartsBefore
    <2> HIDE DEF ahead
    <2>3. \A i \in 1 .. n : i \notin ahead[i]
      BY <1>1, <1>3, <2>2
    <2>4. \A i, j \in 1 .. n : i # j => i \in ahead[j] \/ j \in ahead[i]
      BY <1>1, <1>3, <2>2
    <2>5. ASSUME NEW i \in 1 .. n, NEW j \in 1 .. n, i \in ahead[j],
                 NEW k \in ahead[i]
          PROVE  k \in ahead[j]
      <3>1. k \in 1 .. n
        BY <2>1
      <3> QED
        BY <1>1, <1>3, <2>2, <2>5, <3>1
    <2> QED
      BY <2>1, <2>3, <2>4, <2>5 DEF IsOrder
  <1> HIDE DEF ahead
  <1>p. PICK p : Ranks(p, n, part, ahead)
    <2>1. n \in Nat /\ DOMAIN part = 1 .. n
      BY <1>1
    <2> QED
      BY <1>4, <2>1, RankedPermutes
  <1>5. /\ IsPermutation(p, n)
        /\ Ranked(part, ahead) = [k \in 1 .. n |-> part[p[k]]]
    BY <1>p DEF Ranks
  <1>6. \A k \in 1 .. n : p[k] \in 1 .. n
    BY <1>5 DEF IsPermutation
  <1> DEFINE s == [k \in 1 .. n |-> part[p[k]]]
  <1>7. s \in [1 .. n -> Row]
    BY <1>1, <1>6
  <1>8. s \in Seq(Row) /\ Len(s) = n
    <2> HIDE DEF s
    <2> QED
      BY <1>1, <1>7, AsSequence
  <1>9. ASSUME OwnTags(part) PROVE SeqTagsApart(s)
    <2>1. \A i \in 1 .. n : part[i].tag \in {0, i}
      BY <1>9 DEF OwnTags, n
    <2>2. SUFFICES ASSUME NEW i \in 1 .. n, NEW j \in 1 .. n, i # j, s[i].tag # 0
                   PROVE  s[i].tag # s[j].tag
      <3> HIDE DEF s
      <3> QED
        BY <1>8 DEF SeqTagsApart
    <2>3. p[i] # p[j]
      BY <1>5, <2>2 DEF IsPermutation
    <2>4. s[i] = part[p[i]] /\ s[j] = part[p[j]]
      OBVIOUS
    <2> HIDE DEF s
    <2>5. s[i].tag = p[i] /\ s[j].tag \in {0, p[j]}
      BY <1>6, <2>1, <2>2, <2>4
    <2> QED
      BY <2>2, <2>3, <2>5
  <1> QED
    BY <1>2, <1>5, <1>8, <1>9 DEF n

LEMMA PaddedTable ==
  ASSUME NEW seq \in Seq(Row), SeqTagsApart(seq)
  PROVE  /\ Padded(seq, NumRows, NoRow) \in [Rows -> Row]
         /\ UniqueTags(Padded(seq, NumRows, NoRow))
  <1> DEFINE t == [i \in 1 .. NumRows |-> IF i <= Len(seq) THEN seq[i] ELSE NoRow]
  <1>1. Rows = 1 .. NumRows /\ NumRows \in Nat /\ NoRow \in Row /\ NoRow.tag = 0
    BY NumberBounds, NoRowType DEF Rows
  <1>2. Len(seq) \in Nat /\ \A i \in 1 .. Len(seq) : seq[i] \in Row
    OBVIOUS
  <1>3. Padded(seq, NumRows, NoRow) = t
    BY DEF Padded
  <1>4. \A i \in Rows : t[i] = IF i <= Len(seq) THEN seq[i] ELSE NoRow
    BY <1>1
  <1>5. t \in [Rows -> Row]
    BY <1>1, <1>2
  <1> HIDE DEF t
  <1>6. ASSUME NEW q \in Rows, NEW r \in Rows, q # r, t[q].tag # 0
        PROVE  t[q].tag # t[r].tag
    <2>1. q <= Len(seq) /\ t[q] = seq[q]
      BY <1>1, <1>4, <1>6
    <2>2. CASE r <= Len(seq)
      <3>1. q \in 1 .. Len(seq) /\ r \in 1 .. Len(seq) /\ t[r] = seq[r]
        BY <1>1, <1>2, <1>4, <2>1, <2>2
      <3> QED
        BY <1>6, <2>1, <3>1 DEF SeqTagsApart
    <2>3. CASE ~(r <= Len(seq))
      <3>1. t[r] = NoRow
        BY <1>4, <2>3
      <3> QED
        BY <1>1, <1>6, <3>1
    <2> QED
      BY <2>2, <2>3
  <1> QED
    BY <1>3, <1>5, <1>6 DEF UniqueTags

LEMMA InsertedTags ==
  ASSUME NEW seq \in Seq(Row), SeqTagsApart(seq), NEW e \in Row, e.tag = 0,
         NEW i \in 1 .. Len(seq) + 1
  PROVE  InsertAt(seq, i, e) \in Seq(Row) /\ SeqTagsApart(InsertAt(seq, i, e))
  <1> DEFINE n == Len(seq)
             w == InsertAt(seq, i, e)
  <1>1. /\ w \in Seq(Row) /\ Len(w) = n + 1
        /\ \A k \in 1 .. n + 1 :
             w[k] = IF k < i THEN seq[k] ELSE IF k = i THEN e ELSE seq[k - 1]
    <2>1. w \in Seq(Row) /\ Len(w) = n + 1
      BY InsertAtIs
    <2>2. ASSUME NEW k \in 1 .. Len(seq) + 1
          PROVE  InsertAt(seq, i, e)[k] =
                   IF k < i THEN seq[k] ELSE IF k = i THEN e ELSE seq[k - 1]
      BY InsertAtIs
    <2> QED
      BY <2>1, <2>2
  <1>2. n \in Nat /\ i \in 1 .. n + 1
    OBVIOUS
  <1> DEFINE from(k) == IF k < i THEN k ELSE k - 1
  <1> HIDE DEF n, w
  <1>3. ASSUME NEW k \in 1 .. n + 1, k # i
        PROVE  from(k) \in 1 .. n /\ w[k] = seq[from(k)]
    <2>1. from(k) \in 1 .. n
      BY <1>2, <1>3
    <2>2. w[k] = IF k < i THEN seq[k] ELSE seq[k - 1]
      BY <1>1, <1>3
    <2> QED
      BY <2>1, <2>2
  <1>4. ASSUME NEW k \in 1 .. n + 1, NEW l \in 1 .. n + 1, k # l, w[k].tag # 0
        PROVE  w[k].tag # w[l].tag
    <2>1. w[i] = e
      BY <1>1, <1>2
    <2>2. k # i
      BY <1>4, <2>1
    <2>3. from(k) \in 1 .. n /\ w[k] = seq[from(k)]
      BY <1>3, <2>2
    <2>4. CASE l = i
      BY <1>4, <2>1, <2>4
    <2>5. CASE l # i
      <3>1. from(l) \in 1 .. n /\ w[l] = seq[from(l)]
        BY <1>3, <2>5
      <3>2. from(k) # from(l)
        BY <1>2, <1>4, <2>2, <2>5
      <3> HIDE DEF from
      <3> QED
        BY <1>4, <2>3, <3>1, <3>2 DEF SeqTagsApart, n
    <2> QED
      BY <2>4, <2>5
  <1> QED
    BY <1>1, <1>4 DEF SeqTagsApart, w
(* The space found lies behind the rows before it.                         *)
LEMMA SpaceType ==
  ASSUME NEW part \in Seq(Row)
  PROVE  Space(part).start \in Nat /\ Space(part).row \in 1 .. Len(part) + 1
  <1> DEFINE n == Len(part)
             first == [start |-> 1, row |-> 1, found |-> FALSE]
             after == CHOOSE h : h = [i \in 0 .. n |->
                        IF i = 0 THEN first ELSE Passed(h[i - 1], part[i])]
             S == [start : Nat, row : Nat \ {0}, found : BOOLEAN]
             f == [x \in S \X (1 .. n) |-> Passed(x[1], part[x[2]])]
  <1>1. Space(part) = after[n]
    BY DEF Space
  <1>2. n \in Nat /\ \A i \in 1 .. n : part[i].rel \in Nat /\ part[i].num \in Nat
    <2>1. n \in Nat /\ \A i \in 1 .. n : part[i] \in Row
      OBVIOUS
    <2> QED
      BY <2>1, NumberBounds DEF Row
  <1> HIDE DEF n
  <1>3. first \in S
    OBVIOUS
  <1>4. ASSUME NEW acc \in S, NEW i \in 1 .. n
        PROVE  /\ Passed(acc, part[i]) \in S
               /\ Passed(acc, part[i]).row \in {acc.row, acc.row + 1}
    <2>1. part[i].rel + part[i].num \in Nat /\ acc.row + 1 \in Nat \ {0}
      BY <1>2
    <2>2. [start |-> part[i].rel + part[i].num, row |-> acc.row + 1, found |-> FALSE] \in S
      BY <2>1
    <2>3. [acc EXCEPT !.found = TRUE] \in S /\ [acc EXCEPT !.found = TRUE].row = acc.row
      OBVIOUS
    <2> QED
      BY <2>2, <2>3 DEF Passed
  <1>5. f \in [S \X (1 .. n) -> S]
    <2> HIDE DEF S
    <2> QED
      BY <1>4
  <1>6. PICK h \in [0 .. n -> S] : IsLoop(h, first, n, f)
    <2> HIDE DEF f, S, first
    <2> QED
      BY <1>2, <1>3, <1>5, LoopExists
  <1> HIDE DEF S, first
  <1>7. ASSUME NEW i \in 0 .. n
        PROVE  h[i] = IF i = 0 THEN first ELSE Passed(h[i - 1], part[i])
    <2>1. h[i] = IF i = 0 THEN first ELSE f[<<h[i - 1], i>>]
      BY <1>6 DEF IsLoop
    <2>2. CASE i # 0
      <3>1. i \in 1 .. n /\ h[i - 1] \in S
        BY <1>2, <1>6, <2>2
      <3>2. f[<<h[i - 1], i>>] = Passed(h[i - 1], part[i])
        BY <3>1
      <3> QED
        BY <2>1, <2>2, <3>2
    <2> QED
      BY <2>1, <2>2
  <1>8. after = [i \in 0 .. n |->
                   IF i = 0 THEN first ELSE Passed(after[i - 1], part[i])]
    <2> DEFINE g == [i \in 0 .. n |->
                       IF i = 0 THEN first ELSE Passed(h[i - 1], part[i])]
    <2>1. \A i \in 0 .. n : h[i] = g[i]
      BY <1>7
    <2>2. DOMAIN h = 0 .. n /\ DOMAIN g = 0 .. n /\ h = [i \in 0 .. n |-> h[i]]
      BY <1>6
    <2>3. g = [i \in 0 .. n |-> g[i]]
      OBVIOUS
    <2>4. h = g
      <3> HIDE DEF g
      <3> QED
        BY <2>1, <2>2, <2>3
    <2> QED
      BY <2>4
  <1>9. \A i \in 0 .. n :
          after[i] = IF i = 0 THEN first ELSE Passed(after[i - 1], part[i])
    <2> HIDE DEF after
    <2> QED
      BY <1>8
  <1> HIDE DEF after
  <1> DEFINE G == {i \in 0 .. n : after[i] \in S /\ after[i].row <= i + 1}
  <1>10. 0 \in G
    BY <1>2, <1>3, <1>9 DEF first
  <1>11. ASSUME NEW i \in 1 .. n, i - 1 \in G PROVE i \in G
    <2>1. after[i - 1] \in S /\ after[i - 1].row <= i - 1 + 1
      BY <1>11
    <2>2. i \in 0 .. n /\ after[i] = Passed(after[i - 1], part[i])
      BY <1>2, <1>9
    <2>3. after[i] \in S /\ after[i].row \in {after[i - 1].row, after[i - 1].row + 1}
      BY <1>4, <2>1, <2>2
    <2>4. after[i - 1].row \in Nat
      BY <2>1 DEF S
    <2>5. after[i].row <= i + 1
      BY <1>2, <2>1, <2>3, <2>4
    <2> QED
      BY <2>2, <2>3, <2>5
  <1>12. \A i \in 0 .. n : i \in G
    <2> HIDE DEF G
    <2> QED
      BY <1>2, <1>10, <1>11, Turns
  <1>13. after[n] \in S /\ after[n].row <= n + 1
    BY <1>2, <1>12
  <1>14. after[n].start \in Nat /\ after[n].row \in Nat \ {0}
    BY <1>13 DEF S
  <1>15. after[n].row \in 1 .. n + 1
    BY <1>2, <1>13, <1>14
  <1> QED
    BY <1>1, <1>14, <1>15 DEF n

LEMMA WithLastType ==
  ASSUME NEW part \in Seq(Row), NEW items \in Seq(Item)
  PROVE  WithLast(part, items) \in Seq(Item)
  <1> DEFINE n == Len(part)
             m == Len(items)
             changed == [a \in 1 .. m |->
                           IF items[a].show # "One" THEN items[a]
                           ELSE IF items[a].kind = "part"
                           THEN [items[a] EXCEPT !.show = "Last"]
                           ELSE [items[a] EXCEPT !.tag = n]]
  <1>1. n \in Nat /\ m \in Nat /\ DOMAIN items = 1 .. m
    OBVIOUS
  <1>2. "Last" \in {Shows[k] : k \in DOMAIN Shows}
    <2>1. 2 \in DOMAIN Shows /\ Shows[2] = "Last"
      BY DEF Shows
    <2> QED
      BY <2>1
  <1>3. \A a \in 1 .. m : items[a] \in Item
    OBVIOUS
  <1>4. WithLast(part, items) \in {items, changed}
    BY <1>1 DEF WithLast
  <1> HIDE DEF n, m
  <1>5. \A a \in 1 .. m : /\ [items[a] EXCEPT !.show = "Last"] \in Item
                          /\ [items[a] EXCEPT !.tag = n] \in Item
    BY <1>1, <1>2, <1>3 DEF Item
  <1>6. changed \in [1 .. m -> Item]
    BY <1>3, <1>5
  <1>7. changed \in Seq(Item)
    <2> HIDE DEF changed
    <2> QED
      BY <1>1, <1>6, AsSequence
  <1> HIDE DEF changed
  <1> QED
    BY <1>4, <1>7

LEMMA PaddedMenu ==
  ASSUME NEW items \in Seq(Item)
  PROVE  Padded(items, MenuLen, NoItem) \in [Items -> Item]
  <1>1. Items = 1 .. MenuLen /\ MenuLen \in Nat /\ NoItem \in Item
    BY EditorTypes
  <1>2. Len(items) \in Nat /\ \A i \in 1 .. Len(items) : items[i] \in Item
    OBVIOUS
  <1>3. \A i \in 1 .. MenuLen :
          (IF i <= Len(items) THEN items[i] ELSE NoItem) \in Item
    BY <1>1, <1>2
  <1> QED
    BY <1>1, <1>3 DEF Padded

LEMMA ManagerInType ==
  ASSUME NEW part, NEW at \in Nat, ~(at + AdvSize > DiskEnd)
  PROVE  /\ ManagerIn(part, at) \in Row /\ ManagerIn(part, at).tag = 0
         /\ ManagerIn(part, at).type = Manager
  <1>1. NoRow \in Row /\ NoRow.tag = 0 /\ Manager \in Types
    BY NoRowType DEF Types
  <1>2. AdvSize \in Numbers /\ at \in Numbers
    <2>1. AdvSize \in 0 .. DiskEnd /\ at \in 0 .. DiskEnd
      BY NumberBounds
    <2> QED
      BY <2>1, NumberBounds
  <1>3. AdvStart \in Numbers /\ Track - AdvStart \in Numbers
    <2>1. Track \in Numbers /\ Track \in Nat /\ AdvStart \in Nat /\ AdvStart <= Track
      BY NumberBounds, EditorConstants
    <2>2. Track - AdvStart \in Nat /\ Track - AdvStart <= Track
      BY <2>1
    <2> QED
      BY <2>1, <2>2, NumberBounds
  <1>4. \A x, y \in Numbers :
          LET p == [NoRow EXCEPT !.type = Manager, !.rel = x, !.num = y]
          IN  p \in Row /\ p.tag = 0 /\ p.type = Manager
    BY <1>1 DEF Row
  <1> DEFINE front == at = 1 /\ (part = << >> \/ (/\ part[1].rel >= Track
                                                  /\ AdvSize <= Track - AdvStart))
             x == IF front THEN AdvStart ELSE at
             y == IF front THEN Track - AdvStart ELSE AdvSize
  <1>5. ManagerIn(part, at) = [NoRow EXCEPT !.type = Manager, !.rel = x, !.num = y]
    BY DEF ManagerIn
  <1> HIDE DEF front
  <1>6. x \in Numbers /\ y \in Numbers
    BY <1>2, <1>3
  <1> HIDE DEF x, y
  <1> QED
    BY <1>4, <1>5, <1>6
LEMMA UnhiddenType ==
  ASSUME NEW e \in Entry
  PROVE  Unhidden(e) \in Entry
  BY EditorConstants DEF Unhidden, Entry

(* What installing makes of some rows.                                     *)
MadeOf(items, p) ==
  [ZeroAdv EXCEPT !.signed = TRUE, !.menu = Padded(items, MenuLen, NoItem),
                  !.part = Padded(p, NumRows, NoRow)]

LEMMA MadeType ==
  ASSUME NEW items \in Seq(Item), NEW p \in Seq(Row), SeqTagsApart(p)
  PROVE  /\ MadeOf(items, p) \in Adv /\ UniqueTags(MadeOf(items, p).part)
         /\ MadeOf(items, p).part = Padded(p, NumRows, NoRow)
         /\ MadeOf(items, p).signed = TRUE
  <1> DEFINE m == Padded(items, MenuLen, NoItem)
             t == Padded(p, NumRows, NoRow)
  <1>1. m \in [Items -> Item]
    BY PaddedMenu
  <1>2. t \in [Rows -> Row] /\ UniqueTags(t)
    BY PaddedTable
  <1> HIDE DEF m, t
  <1>3. [ZeroAdv EXCEPT !.signed = TRUE, !.menu = m, !.part = t] \in Adv
        /\ [ZeroAdv EXCEPT !.signed = TRUE, !.menu = m, !.part = t].part = t
        /\ [ZeroAdv EXCEPT !.signed = TRUE, !.menu = m, !.part = t].signed = TRUE
    BY <1>1, <1>2, EditorTypes DEF Adv
  <1> QED
    BY <1>2, <1>3 DEF MadeOf, m, t

LEMMA TakenType ==
  ASSUME NEW rows \in [Slots -> Entry], NEW wins
  PROVE  Taken(rows, wins) \in Taking
  <1>1. PICK steps : TakenUpTo(steps, rows, wins) /\ Taken(rows, wins) = steps[4]
    BY TakenSteps
  <1> QED
    BY <1>1 DEF TakenUpTo

LEMMA NextItems ==
  (IF MoreDisks THEN <<[NoItem EXCEPT !.kind = "next"]>> ELSE << >>) \in Seq(Item)
  <1> DEFINE x == [NoItem EXCEPT !.kind = "next"]
  <1>1. x \in Item
    BY EditorTypes DEF Item
  <1> HIDE DEF x
  <1>2. <<x>> \in Seq(Item) /\ << >> \in Seq(Item)
    BY <1>1
  <1> QED
    BY <1>2 DEF x

LEMMA InstallSteps ==
  ASSUME Inv, Install
  PROVE  /\ cur' \in Memory /\ UniqueTags(cur'.adv.part) /\ cur'.adv.signed = TRUE
         /\ cur'.mbr.at = cur.mbr.at /\ cur'.mbr.magic = cur.mbr.magic
         /\ left' \in Nat /\ UNCHANGED <<disk, orig, preview, spoilt>>
         /\ \/ UNCHANGED <<view, menu>>
            \/ view' = "ADV" /\ UNCHANGED menu
            \/ view' = "ADV" /\ menu' = [open |-> "space", held |-> << >>]
  <1> DEFINE rows == [k \in Slots |-> Unhidden(cur.mbr.rows[k])]
             next == IF MoreDisks THEN <<[NoItem EXCEPT !.kind = "next"]>> ELSE << >>
             part(wins) == ByPlace(Taken(rows, wins).part)
             items(wins) == WithLast(part(wins), Taken(rows, wins).menu \o next)
             space(wins) == Space(part(wins))
             manager(wins) == ManagerIn(part(wins), space(wins).start)
             whole(wins) == InsertAt(part(wins), space(wins).row, manager(wins))
             enough(wins) == ~(space(wins).start + AdvSize > DiskEnd)
             made(wins) == [cur EXCEPT !.adv = MadeOf(items(wins), whole(wins))]
  <1>1. PICK wins :
          \/ /\ ~enough(wins)
             /\ cur' = [mbr |-> [cur.mbr EXCEPT !.rows = rows],
                        adv |-> MadeOf(items(wins), part(wins))]
             /\ UNCHANGED <<view, menu>>
          \/ /\ enough(wins) /\ view' = "ADV"
             /\ \/ cur' = Initialized(made(wins), "ADV") /\ UNCHANGED menu
                \/ \E adv \in OptionsOf(ItemFor(Initialized(made(wins), "ADV").adv, 1)) :
                     /\ cur' = [Initialized(made(wins), "ADV") EXCEPT !.adv = adv]
                     /\ menu' = [open |-> "space", held |-> << >>]
    BY DEF Install, MadeOf
  <1>2. left' \in Nat /\ UNCHANGED <<disk, orig, preview, spoilt>>
    BY StepCounts DEF Install
  <1>3. cur \in Memory /\ cur.mbr \in MbrSector /\ cur.mbr.rows \in [Slots -> Entry]
    BY ShownTable DEF MbrSector
  <1>4. rows \in [Slots -> Entry]
    BY <1>3, UnhiddenType
  <1> HIDE DEF rows
  <1>5. Taken(rows, wins) \in Taking
    BY <1>4, TakenType
  <1>6. /\ Taken(rows, wins).part \in Seq(Row) /\ Taken(rows, wins).menu \in Seq(Item)
        /\ OwnTags(Taken(rows, wins).part)
    BY <1>5 DEF Taking
  <1>7. part(wins) \in Seq(Row) /\ SeqTagsApart(part(wins))
    BY <1>6, ByPlacePermutes
  <1>8. items(wins) \in Seq(Item)
    <2>1. next \in Seq(Item)
      BY NextItems
    <2> HIDE DEF next, part
    <2>2. Taken(rows, wins).menu \o next \in Seq(Item)
      BY <1>6, <2>1, Joined
    <2> QED
      BY <1>7, <2>2, WithLastType
  <1> HIDE DEF items, part
  <1>9. CASE ~enough(wins)
    <2> DEFINE m == [cur.mbr EXCEPT !.rows = rows]
               adv == MadeOf(items(wins), part(wins))
    <2>1. m \in MbrSector /\ m.at = cur.mbr.at /\ m.magic = cur.mbr.magic
      BY <1>3, <1>4 DEF MbrSector
    <2>2. adv \in Adv /\ UniqueTags(adv.part) /\ adv.signed = TRUE
      BY <1>7, <1>8, MadeType
    <2>3. cur' = [mbr |-> m, adv |-> adv] /\ UNCHANGED <<view, menu>>
      BY <1>1, <1>9
    <2> HIDE DEF m, adv
    <2>4. cur' \in Memory /\ cur'.mbr = m /\ cur'.adv = adv
      BY <2>1, <2>2, <2>3 DEF Memory
    <2> QED
      BY <1>2, <2>1, <2>2, <2>3, <2>4
  <1>10. CASE enough(wins)
    <2>1. space(wins).start \in Nat /\ space(wins).row \in 1 .. Len(part(wins)) + 1
      BY <1>7, SpaceType
    <2>2. manager(wins) \in Row /\ manager(wins).tag = 0
      BY <1>10, <2>1, ManagerInType
    <2> HIDE DEF manager, space
    <2>3. whole(wins) \in Seq(Row) /\ SeqTagsApart(whole(wins))
      BY <1>7, <2>1, <2>2, InsertedTags
    <2> HIDE DEF whole
    <2> DEFINE made2 == MadeOf(items(wins), whole(wins))
    <2>4. made2 \in Adv /\ UniqueTags(made2.part) /\ made2.signed = TRUE
      BY <1>8, <2>3, MadeType
    <2>5. made(wins) = [cur EXCEPT !.adv = made2]
      OBVIOUS
    <2> HIDE DEF made2, made
    <2>6. made(wins) \in Memory /\ made(wins).adv = made2 /\ made(wins).mbr = cur.mbr
      BY <1>3, <2>4, <2>5, MemoryParts
    <2> DEFINE data == Initialized(made(wins), "ADV")
    <2>7. /\ data \in Memory /\ UniqueTags(data.adv.part) /\ data.mbr = cur.mbr
          /\ data.adv.signed = TRUE
      BY <2>4, <2>6, InitializedType
    <2>8. /\ view' = "ADV"
          /\ \/ cur' = data /\ UNCHANGED menu
             \/ \E adv \in OptionsOf(ItemFor(data.adv, 1)) :
                  /\ cur' = [data EXCEPT !.adv = adv]
                  /\ menu' = [open |-> "space", held |-> << >>]
      BY <1>1, <1>10
    <2> HIDE DEF data
    <2>9. CASE cur' = data /\ UNCHANGED menu
      BY <1>2, <2>7, <2>8, <2>9
    <2>10. ASSUME NEW adv \in OptionsOf(ItemFor(data.adv, 1)),
                  cur' = [data EXCEPT !.adv = adv],
                  menu' = [open |-> "space", held |-> << >>]
           PROVE  /\ cur' \in Memory /\ UniqueTags(cur'.adv.part)
                  /\ cur'.adv.signed = TRUE /\ cur'.mbr = cur.mbr
      <3>1. data.adv \in Adv /\ 1 \in Rows
        BY <2>7, MemoryParts, NumberBounds
      <3>2. /\ ItemFor(data.adv, 1) \in Adv /\ UniqueTags(ItemFor(data.adv, 1).part)
            /\ ItemFor(data.adv, 1).signed = TRUE
        BY <2>7, <3>1, ItemForKeeps
      <3>3. adv \in Adv /\ UniqueTags(adv.part) /\ adv.signed = TRUE
        BY <3>2, OptionsType
      <3>4. cur' \in Memory /\ cur'.adv = adv /\ cur'.mbr = cur.mbr
        BY <2>7, <2>10, <3>3, MemoryParts
      <3> QED
        BY <3>3, <3>4
    <2> QED
      BY <1>2, <2>8, <2>9, <2>10
  <1> QED
    BY <1>9, <1>10
LEMMA InstallKeeps ==
  ASSUME Inv, Install
  PROVE  Inv'
  <1>1. /\ menu' \in [open : {"no", "space", "enter"},
                      held : {<< >>} \cup [Rows -> Row]]
        /\ menu'.open = "enter" => menu' = menu
        /\ view' \in {"ADV", "MBR"}
    BY InstallSteps, ShownTable
  <1> QED
    BY <1>1, InstallSteps, ShownTable, CurChanges
-------------------------------------------------------------------------------
(* Removing.  What is collected, and the row of the MBR it belongs into.   *)
Seat == [row : Entry, orig : 0 .. 4]
NoSeat == [row |-> NoEntry, orig |-> 0]
Collecting == [rows : Seq(Seat), free : BOOLEAN]
SeatOf(p, act) == [row |-> [Sector(p) EXCEPT !.active = act], orig |-> p.orig]
SamePlace(x, p) == x.type = p.type /\ x.rel = p.rel /\ x.num = p.num

LEMMA SeatType ==
  ASSUME NEW p \in Row, OsRow(p), NEW act \in BOOLEAN
  PROVE  SeatOf(p, act) \in Seat /\ SamePlace(SeatOf(p, act).row, p)
  <1>1. p.type \in OsTypes \cup {Unused, Hidden} /\ p.orig \in 0 .. 4
    BY DEF Row, OsRow, Types
  <1>2. Sector(p) = [type |-> p.type, rel |-> p.rel, num |-> p.num,
                     active |-> p.tag # 0]
    BY DEF Sector
  <1>3. p.rel \in Numbers /\ p.num \in Numbers
    BY DEF Row
  <1>4. [Sector(p) EXCEPT !.active = act] =
          [type |-> p.type, rel |-> p.rel, num |-> p.num, active |-> act]
    BY <1>2
  <1> QED
    BY <1>1, <1>3, <1>4 DEF SeatOf, Seat, Entry, SamePlace

LEMMA CollectIs ==
  ASSUME NEW acc \in Collecting, NEW p \in Row, NEW i \in Nat
  PROVE  /\ Collect(acc, p, i) \in Collecting
         /\ ~OsRow(p) => Collect(acc, p, i) = acc
         /\ OsRow(p) => \E act \in BOOLEAN :
                          Collect(acc, p, i).rows = Append(acc.rows, SeatOf(p, act))
  <1> DEFINE n == Len(acc.rows)
             e == Sector(p)
             act == e.active /\ (i = n + 1 \/ acc.free)
             seat == SeatOf(p, act)
             free == acc.free /\ (i = n + 1 \/ ~e.active)
  <1>1. acc.rows \in Seq(Seat)
    BY DEF Collecting
  <1>2. act \in BOOLEAN /\ free \in BOOLEAN
    OBVIOUS
  <1>3. Collect(acc, p, i) = IF ~OsRow(p) THEN acc
                             ELSE [rows |-> Append(acc.rows, seat), free |-> free]
    BY DEF Collect, SeatOf
  <1> HIDE DEF act, free
  <1>4. CASE ~OsRow(p)
    BY <1>3, <1>4
  <1>5. CASE OsRow(p)
    <2>1. seat \in Seat
      BY <1>2, <1>5, SeatType
    <2>2. Append(acc.rows, seat) \in Seq(Seat)
      BY <1>1, <2>1, Appended
    <2> DEFINE rows == Append(acc.rows, seat)
    <2>3. Collect(acc, p, i) = [rows |-> rows, free |-> free]
      BY <1>3, <1>5
    <2>4. rows = Append(acc.rows, SeatOf(p, act))
      OBVIOUS
    <2>5. rows \in Seq(Seat)
      BY <2>2
    <2> HIDE DEF rows
    <2>6. Collect(acc, p, i).rows = rows /\ Collect(acc, p, i) \in Collecting
      BY <1>2, <2>3, <2>5 DEF Collecting
    <2> QED
      BY <1>2, <1>5, <2>4, <2>6
  <1> QED
    BY <1>4, <1>5

CollectedUpTo(steps, part) ==
  /\ steps \in [0 .. NumRows -> Collecting] /\ steps[0].rows = << >>
  /\ \A i \in Rows : steps[i] = Collect(steps[i - 1], part[i], i)

LEMMA CollectedSteps ==
  ASSUME NEW part \in [Rows -> Row]
  PROVE  \E steps :
           /\ CollectedUpTo(steps, part)
           /\ LET rows == Padded(steps[NumRows].rows, 4, NoSeat)
              IN  Collected(part) \in {rows, [rows EXCEPT ![1].row.active = TRUE]}
  <1> DEFINE first == [rows |-> << >>, free |-> TRUE]
             after == CHOOSE h : h = [i \in 0 .. NumRows |->
                        IF i = 0 THEN first ELSE Collect(h[i - 1], part[i], i)]
             f == [x \in Collecting \X (1 .. NumRows) |-> Collect(x[1], part[x[2]], x[2])]
  <1>1. LET rows == Padded(after[NumRows].rows, 4, NoSeat)
        IN  Collected(part) \in {rows, [rows EXCEPT ![1].row.active = TRUE]}
    BY DEF Collected, NoSeat
  <1>2. Rows = 1 .. NumRows /\ NumRows \in Nat
    BY NumberBounds DEF Rows
  <1>3. first \in Collecting /\ first.rows = << >>
    BY DEF Collecting
  <1>4. \A acc \in Collecting, i \in 1 .. NumRows : Collect(acc, part[i], i) \in Collecting
    BY <1>2, CollectIs
  <1>5. f \in [Collecting \X (1 .. NumRows) -> Collecting]
    BY <1>4
  <1> HIDE DEF first
  <1>6. PICK h \in [0 .. NumRows -> Collecting] : IsLoop(h, first, NumRows, f)
    <2> HIDE DEF f
    <2> QED
      BY <1>2, <1>3, <1>5, LoopExists
  <1>7. ASSUME NEW i \in 0 .. NumRows
        PROVE  h[i] = IF i = 0 THEN first ELSE Collect(h[i - 1], part[i], i)
    <2>1. h[i] = IF i = 0 THEN first ELSE f[<<h[i - 1], i>>]
      BY <1>6 DEF IsLoop
    <2>2. CASE i # 0
      <3>1. i \in 1 .. NumRows /\ h[i - 1] \in Collecting
        BY <1>2, <1>6, <2>2
      <3>2. f[<<h[i - 1], i>>] = Collect(h[i - 1], part[i], i)
        BY <3>1
      <3> QED
        BY <2>1, <2>2, <3>2
    <2> QED
      BY <2>1, <2>2
  <1>8. after = [i \in 0 .. NumRows |->
                   IF i = 0 THEN first ELSE Collect(after[i - 1], part[i], i)]
    <2> DEFINE g == [i \in 0 .. NumRows |->
                       IF i = 0 THEN first ELSE Collect(h[i - 1], part[i], i)]
    <2>1. \A i \in 0 .. NumRows : h[i] = g[i]
      BY <1>7
    <2>2. DOMAIN h = 0 .. NumRows /\ DOMAIN g = 0 .. NumRows
          /\ h = [i \in 0 .. NumRows |-> h[i]]
      BY <1>6
    <2>3. g = [i \in 0 .. NumRows |-> g[i]]
      OBVIOUS
    <2>4. h = g
      <3> HIDE DEF g
      <3> QED
        BY <2>1, <2>2, <2>3
    <2> QED
      BY <2>4
  <1>9. \A i \in 0 .. NumRows :
          after[i] = IF i = 0 THEN first ELSE Collect(after[i - 1], part[i], i)
    <2> HIDE DEF after
    <2> QED
      BY <1>8
  <1>10. after = [i \in 0 .. NumRows |-> after[i]]
    <2> HIDE DEF after
    <2> QED
      BY <1>8
  <1> HIDE DEF after
  <1> DEFINE G == {i \in 0 .. NumRows : after[i] \in Collecting}
  <1>11. 0 \in G
    BY <1>2, <1>3, <1>9
  <1>12. ASSUME NEW i \in 1 .. NumRows, i - 1 \in G PROVE i \in G
    <2>1. i \in 0 .. NumRows /\ after[i] = Collect(after[i - 1], part[i], i)
      BY <1>2, <1>9
    <2> QED
      BY <1>4, <1>12, <2>1
  <1>13. \A i \in 0 .. NumRows : i \in G
    <2> HIDE DEF G
    <2> QED
      BY <1>2, <1>11, <1>12, Turns
  <1>14. after \in [0 .. NumRows -> Collecting]
    BY <1>10, <1>13
  <1>15. \A i \in Rows : after[i] = Collect(after[i - 1], part[i], i)
    BY <1>2, <1>9
  <1>16. after[0].rows = << >>
    BY <1>2, <1>3, <1>9
  <1>17. CollectedUpTo(after, part)
    BY <1>14, <1>15, <1>16 DEF CollectedUpTo
  <1> QED
    BY <1>1, <1>17

LEMMA CollectedType ==
  ASSUME NEW part \in [Rows -> Row]
  PROVE  Collected(part) \in [1 .. 4 -> Seat]
  <1>1. PICK steps :
          /\ CollectedUpTo(steps, part)
          /\ LET rows == Padded(steps[NumRows].rows, 4, NoSeat)
             IN  Collected(part) \in {rows, [rows EXCEPT ![1].row.active = TRUE]}
    BY CollectedSteps
  <1> DEFINE all == steps[NumRows].rows
             rows == Padded(all, 4, NoSeat)
  <1>2. all \in Seq(Seat)
    <2>1. NumRows \in 0 .. NumRows
      BY NumberBounds
    <2> QED
      BY <1>1, <2>1 DEF CollectedUpTo, Collecting
  <1>3. NoSeat \in Seat
    BY EditorTypes DEF NoSeat, Seat
  <1> HIDE DEF all
  <1>4. \A i \in 1 .. Len(all) : all[i] \in Seat
    BY <1>2
  <1>5. rows \in [1 .. 4 -> Seat]
    BY <1>2, <1>3, <1>4 DEF Padded
  <1>6. Collected(part) \in {rows, [rows EXCEPT ![1].row.active = TRUE]}
    BY <1>1 DEF all
  <1> HIDE DEF rows
  <1>7. [rows EXCEPT ![1].row.active = TRUE] \in [1 .. 4 -> Seat]
    <2> DEFINE x == [rows[1] EXCEPT !.row = [rows[1].row EXCEPT !.active = TRUE]]
    <2>1. rows[1] \in Seat
      BY <1>5
    <2>2. x \in Seat
      BY <2>1 DEF Seat, Entry
    <2>3. [rows EXCEPT ![1].row.active = TRUE] = [rows EXCEPT ![1] = x]
      BY <1>5, <2>1 DEF Seat
    <2> HIDE DEF x
    <2> QED
      BY <1>5, <2>2, <2>3
  <1> QED
    BY <1>5, <1>6, <1>7
(* Moving rows to where they belong exchanges them.                        *)
LEMMA PlacedRightSwaps ==
  ASSUME NEW slots \in [1 .. 4 -> Seat], NEW k \in 1 .. 4
  PROVE  /\ PlacedRight(slots, k) \in [1 .. 4 -> Seat]
         /\ {PlacedRight(slots, k)[j] : j \in 1 .. 4} = {slots[j] : j \in 1 .. 4}
  <1> DEFINE to == slots[k].orig
             new == [slots EXCEPT ![to] = slots[k], ![k] = slots[to]]
  <1>1. to \in 0 .. 4
    BY DEF Seat
  <1>2. PlacedRight(slots, k) = slots \/ (PlacedRight(slots, k) = new /\ to # 0)
    BY DEF PlacedRight
  <1> HIDE DEF to
  <1>3. ASSUME to # 0
        PROVE  new \in [1 .. 4 -> Seat]
               /\ {new[j] : j \in 1 .. 4} = {slots[j] : j \in 1 .. 4}
    <2>1. to \in 1 .. 4
      BY <1>1, <1>3
    <2>2. new \in [1 .. 4 -> Seat]
      BY <2>1
    <2>3. \A j \in 1 .. 4 : new[j] = IF j = k THEN slots[to]
                                     ELSE IF j = to THEN slots[k] ELSE slots[j]
      BY <2>1
    <2> HIDE DEF new
    <2>4. \A j \in 1 .. 4 : \E i \in 1 .. 4 : new[j] = slots[i]
      BY <2>1, <2>3
    <2>5. \A j \in 1 .. 4 : \E i \in 1 .. 4 : new[i] = slots[j]
      BY <2>1, <2>3
    <2> QED
      BY <2>2, <2>4, <2>5
  <1> HIDE DEF new
  <1> QED
    BY <1>2, <1>3

LEMMA RoundsPermute ==
  ASSUME NEW slots \in [1 .. 4 -> Seat], NEW n \in Nat
  PROVE  /\ Rounds(slots, n) \in [1 .. 4 -> Seat]
         /\ {Rounds(slots, n)[j] : j \in 1 .. 4} = {slots[j] : j \in 1 .. 4}
  <1> DEFINE m == 4 * n
             at(x) == ((x - 1) % 4) + 1
             after == CHOOSE h : h = [x \in 0 .. m |->
                        IF x = 0 THEN slots ELSE PlacedRight(h[x - 1], at(x))]
             S == {s \in [1 .. 4 -> Seat] :
                     {s[j] : j \in 1 .. 4} = {slots[j] : j \in 1 .. 4}}
             f == [y \in S \X (1 .. m) |-> PlacedRight(y[1], at(y[2]))]
  <1>1. Rounds(slots, n) = after[m]
    BY DEF Rounds
  <1>2. m \in Nat /\ \A x \in 1 .. m : at(x) \in 1 .. 4
    OBVIOUS
  <1> HIDE DEF m, at
  <1>3. slots \in S
    OBVIOUS
  <1>4. \A s \in S, x \in 1 .. m : PlacedRight(s, at(x)) \in S
    <2> SUFFICES ASSUME NEW s \in S, NEW x \in 1 .. m
                 PROVE  PlacedRight(s, at(x)) \in S
      OBVIOUS
    <2>1. s \in [1 .. 4 -> Seat] /\ {s[j] : j \in 1 .. 4} = {slots[j] : j \in 1 .. 4}
      OBVIOUS
    <2>2. /\ PlacedRight(s, at(x)) \in [1 .. 4 -> Seat]
          /\ {PlacedRight(s, at(x))[j] : j \in 1 .. 4} = {s[j] : j \in 1 .. 4}
      BY <1>2, <2>1, PlacedRightSwaps
    <2> QED
      BY <2>1, <2>2
  <1> HIDE DEF S
  <1>5. f \in [S \X (1 .. m) -> S]
    BY <1>4
  <1>6. PICK h \in [0 .. m -> S] : IsLoop(h, slots, m, f)
    <2> HIDE DEF f
    <2> QED
      BY <1>2, <1>3, <1>5, LoopExists
  <1>7. ASSUME NEW x \in 0 .. m
        PROVE  h[x] = IF x = 0 THEN slots ELSE PlacedRight(h[x - 1], at(x))
    <2>1. h[x] = IF x = 0 THEN slots ELSE f[<<h[x - 1], x>>]
      BY <1>6 DEF IsLoop
    <2>2. CASE x # 0
      <3>1. x \in 1 .. m /\ h[x - 1] \in S
        BY <1>2, <1>6, <2>2
      <3>2. f[<<h[x - 1], x>>] = PlacedRight(h[x - 1], at(x))
        BY <3>1
      <3> QED
        BY <2>1, <2>2, <3>2
    <2> QED
      BY <2>1, <2>2
  <1>8. after = [x \in 0 .. m |->
                   IF x = 0 THEN slots ELSE PlacedRight(after[x - 1], at(x))]
    <2> DEFINE g == [x \in 0 .. m |->
                       IF x = 0 THEN slots ELSE PlacedRight(h[x - 1], at(x))]
    <2>1. \A x \in 0 .. m : h[x] = g[x]
      BY <1>7
    <2>2. DOMAIN h = 0 .. m /\ DOMAIN g = 0 .. m /\ h = [x \in 0 .. m |-> h[x]]
      BY <1>6
    <2>3. g = [x \in 0 .. m |-> g[x]]
      OBVIOUS
    <2>4. h = g
      <3> HIDE DEF g
      <3> QED
        BY <2>1, <2>2, <2>3
    <2> QED
      BY <2>4
  <1>9. \A x \in 0 .. m :
          after[x] = IF x = 0 THEN slots ELSE PlacedRight(after[x - 1], at(x))
    <2> HIDE DEF after
    <2> QED
      BY <1>8
  <1> HIDE DEF after
  <1> DEFINE G == {x \in 0 .. m : after[x] \in S}
  <1>10. 0 \in G
    BY <1>2, <1>3, <1>9
  <1>11. ASSUME NEW x \in 1 .. m, x - 1 \in G PROVE x \in G
    <2>1. x \in 0 .. m /\ after[x] = PlacedRight(after[x - 1], at(x))
      BY <1>2, <1>9
    <2> QED
      BY <1>4, <1>11, <2>1
  <1>12. \A x \in 0 .. m : x \in G
    <2> HIDE DEF G
    <2> QED
      BY <1>2, <1>10, <1>11, Turns
  <1>13. after[m] \in S
    BY <1>2, <1>12
  <1> QED
    BY <1>1, <1>13 DEF S

LEMMA UninstallSteps ==
  ASSUME Inv, UninstallAdvanced
  PROVE  /\ left' \in Nat /\ UNCHANGED <<disk, orig, preview, menu, spoilt>>
         /\ \/ cur' = Initialized(cur, view) /\ UNCHANGED view
            \/ \E m \in MbrSector :
                 /\ m.at = cur.mbr.at \/ m.magic = FALSE
                 /\ m.magic => cur.mbr.magic
                 /\ view' = "MBR" /\ cur' = [cur EXCEPT !.mbr = m]
  <1> DEFINE n == Cardinality({r \in Rows : OsRow(Part[r])})
             slots == Rounds(Collected(Part), n)
             rows == [k \in Slots |-> slots[k].row]
             m == IF cur.mbr.magic
                  THEN [code |-> "Standard", magic |-> FALSE, at |-> 0, rows |-> rows]
                  ELSE [cur.mbr EXCEPT !.rows = rows]
  <1>1. /\ left' \in Nat /\ UNCHANGED <<disk, orig, preview, menu, spoilt>>
        /\ \/ cur' = Initialized(cur, view) /\ UNCHANGED view
           \/ /\ view' = "MBR"
              /\ cur' = [cur EXCEPT !.mbr = m]
    BY StepCounts DEF UninstallAdvanced
  <1>2. cur \in Memory /\ cur.mbr \in MbrSector /\ Part \in [Rows -> Row]
        /\ UniqueTags(Part) /\ Part = cur.adv.part
    BY ShownTable DEF Part
  <1>3. n \in Nat
    <2>1. IsFiniteSet(Rows)
      BY NumberBounds, FS_Interval DEF Rows
    <2>2. {r \in Rows : OsRow(Part[r])} \in SUBSET Rows
      OBVIOUS
    <2> QED
      BY <2>1, <2>2, FS_Subset, FS_CardinalityType
  <1> HIDE DEF n
  <1>4. slots \in [1 .. 4 -> Seat]
    BY <1>2, <1>3, CollectedType, RoundsPermute
  <1> HIDE DEF slots
  <1>5. rows \in [Slots -> Entry]
    BY <1>4 DEF Slots, Seat
  <1> HIDE DEF rows
  <1>6. m \in MbrSector /\ (m.at = cur.mbr.at \/ m.magic = FALSE)
        /\ (m.magic => cur.mbr.magic)
    <2>1. 0 \in Numbers
      BY NumberBounds
    <2> QED
      BY <1>2, <1>5, <2>1 DEF MbrSector
  <1> HIDE DEF m
  <1> QED
    BY <1>1, <1>6

LEMMA UninstallKeeps ==
  ASSUME Inv, UninstallAdvanced
  PROVE  Inv'
  <1>1. cur \in Memory /\ UniqueTags(cur.adv.part)
    BY ShownTable DEF Part
  <1>2. CASE cur' = Initialized(cur, view) /\ UNCHANGED view
    <2>1. cur' \in Memory /\ UniqueTags(cur'.adv.part) /\ cur'.mbr = cur.mbr
      BY <1>1, <1>2, InitializedType
    <2> QED
      BY <1>2, <2>1, UninstallSteps, ShownTable, CurChanges
  <1>3. ASSUME NEW m \in MbrSector, m.at = cur.mbr.at \/ m.magic = FALSE,
               m.magic => cur.mbr.magic, view' = "MBR", cur' = [cur EXCEPT !.mbr = m]
        PROVE  Inv'
    <2>1. cur' \in Memory /\ cur'.adv = cur.adv /\ cur'.mbr = m
      BY <1>1, <1>3, MemoryParts
    <2>2. UniqueTags(cur'.adv.part)
      BY <1>1, <2>1
    <2> QED
      BY <1>3, <2>1, <2>2, UninstallSteps, ShownTable, CurChanges
  <1> QED
    BY <1>2, <1>3, UninstallSteps

-------------------------------------------------------------------------------
(* Every step keeps the invariant.                                         *)
LEMMA NextKeeps ==
  ASSUME Inv, Next
  PROVE  Inv'
  <1>1. CASE \E r \in Rows : \/ Delete(r) \/ EditField(r)
                             \/ OpenBySpace(r) \/ OpenByEnter(r)
                             \/ \E type \in NewTypes : Insert(r, type)
    BY <1>1, DeleteKeeps, EditFieldKeeps, OpenKeeps, InsertKeeps
  <1>2. CASE \/ \E k \in Slots : Activate(k) \/ Deactivate(k)
             \/ Uninstall \/ InstallIpl
    BY <1>2, MbrKeysKeep
  <1>3. CASE Preview \/ EndPreview
    BY <1>3, SwitchKeeps DEF Preview, EndPreview
  <1>4. CASE Undo \/ SaveAdv \/ SaveMbr \/ Quit \/ OtherDisk
    BY <1>4, UndoKeeps, SaveAdvKeeps, SaveMbrKeeps, LeaveKeeps
  <1>5. CASE MenuKey \/ CloseMenu \/ Install \/ UninstallAdvanced
    BY <1>5, MenuKeyKeeps, CloseMenuKeeps, InstallKeeps, UninstallKeeps
  <1> QED
    BY <1>1, <1>2, <1>3, <1>4, <1>5 DEF Next

LEMMA InvHolds ==
  Spec => []Inv
  <1>1. ASSUME Inv, UNCHANGED vars
        PROVE  Inv'
    BY <1>1 DEF vars, Inv, TypeOK, TagsApart, PairsLead
  <1>2. Inv /\ [Next]_vars => Inv'
    BY <1>1, NextKeeps
  <1> QED
    BY <1>2, InitInv, PTL DEF Spec

(* The tables, menus and sectors keep their shape, whatever is edited,     *)
(* packed and unpacked: every number stays in two words, every table has   *)
(* all its rows, and every menu its items.                                 *)
THEOREM EditorTypeOK == Spec => []TypeOK
  <1>1. Inv => TypeOK
    BY DEF Inv
  <1> QED
    BY <1>1, InvHolds, PTL

(* No two rows of the table get the same tag, in whichever view and        *)
(* through whichever screen: sorting, filling of gaps, removal of unused   *)
(* rows, both ways out of the menu editor, installing, undoing and reading *)
(* again move tags, but never copy one.                                    *)
THEOREM TagsStayUnique == Spec => []TagsUnique
  <1>1. Inv => TagsUnique
    BY DEF Inv, TagsApart, TagsUnique, Part
  <1> QED
    BY <1>1, InvHolds, PTL

(* Until a save has failed, the advanced MBR on the disk leads to its own  *)
(* data, with the code, in a row of the manager that is large enough: no   *)
(* order of installing, moving, undoing, removing and saving either part   *)
(* writes an MBR that names a place the data are not at.                   *)
THEOREM SavedPairStays == Spec => []SavedPairConsistent
  <1>1. Inv => SavedPairConsistent
    <2>1. Leads(disk.mbr, disk.data) /\ disk \in Disk => Consistent(disk)
      BY DEF Leads, Consistent, DataAt, Disk
    <2> QED
      BY <2>1 DEF Inv, PairsLead, SavedPairConsistent, TypeOK
  <1> QED
    BY <1>1, InvHolds, PTL
-------------------------------------------------------------------------------
(* Which partitions there are.                                             *)
LEMMA SamePartitions ==
  ASSUME NEW f, NEW S, NEW g, NEW T,
         \A x \in S : \E y \in T : SamePlace(f[x], g[y]),
         \A y \in T : \E x \in S : SamePlace(f[x], g[y])
  PROVE  PartitionsOf(f, S) = PartitionsOf(g, T)
  <1>1. \A x \in S : \E y \in T : Partition(f[x]) = Partition(g[y])
    BY DEF SamePlace, Partition
  <1>2. \A y \in T : \E x \in S : Partition(f[x]) = Partition(g[y])
    BY DEF SamePlace, Partition
  <1> QED
    BY <1>1, <1>2 DEF PartitionsOf

(* The rows collected are those of partitions, as many as there are.       *)
LEMMA CollectedCount ==
  ASSUME NEW part \in [Rows -> Row], NEW steps, CollectedUpTo(steps, part)
  PROVE  LET all == steps[NumRows].rows
             os == {r \in Rows : OsRow(part[r])}
         IN  /\ all \in Seq(Seat) /\ Len(all) = Cardinality(os)
             /\ \A j \in 1 .. Len(all) : \E r \in os : SamePlace(all[j].row, part[r])
             /\ \A r \in os : \E j \in 1 .. Len(all) : SamePlace(all[j].row, part[r])
  <1> DEFINE os(i) == {r \in 1 .. i : OsRow(part[r])}
             Good(i) ==
               LET all == steps[i].rows
               IN  /\ all \in Seq(Seat) /\ Len(all) = Cardinality(os(i))
                   /\ \A j \in 1 .. Len(all) : \E r \in os(i) : SamePlace(all[j].row, part[r])
                   /\ \A r \in os(i) : \E j \in 1 .. Len(all) : SamePlace(all[j].row, part[r])
             G == {i \in 0 .. NumRows : Good(i)}
  <1>1. Rows = 1 .. NumRows /\ NumRows \in Nat
    BY NumberBounds DEF Rows
  <1>2. \A i \in 0 .. NumRows : steps[i] \in Collecting /\ steps[i].rows \in Seq(Seat)
    BY DEF CollectedUpTo, Collecting
  <1>3. 0 \in G
    <2>1. steps[0].rows = << >> /\ 0 \in 0 .. NumRows
      BY <1>1 DEF CollectedUpTo
    <2>2. os(0) = {}
      OBVIOUS
    <2>3. Cardinality(os(0)) = 0
      BY <2>2, FS_EmptySet
    <2> DEFINE all == steps[0].rows
    <2>4. all \in Seq(Seat) /\ Len(all) = 0 /\ 1 .. Len(all) = {}
      BY <2>1
    <2> HIDE DEF os, all
    <2>5. Good(0)
      BY <2>2, <2>3, <2>4 DEF all
    <2> QED
      BY <2>1, <2>5
  <1>4. ASSUME NEW i \in 1 .. NumRows, i - 1 \in G PROVE i \in G
    <2> DEFINE old == steps[i - 1].rows
               new == steps[i].rows
    <2>1. Good(i - 1)
      BY <1>4
    <2>2. i \in Rows /\ i \in 0 .. NumRows /\ i - 1 \in 0 .. NumRows
      BY <1>1
    <2>3. part[i] \in Row /\ steps[i - 1] \in Collecting
          /\ steps[i] = Collect(steps[i - 1], part[i], i)
      BY <1>2, <2>2 DEF CollectedUpTo
    <2>4. CASE ~OsRow(part[i])
      <3>1. steps[i] = steps[i - 1]
        BY <1>1, <2>3, <2>4, CollectIs
      <3>2. os(i) = os(i - 1)
        BY <1>1, <2>4
      <3> HIDE DEF os
      <3>3. Good(i)
        BY <2>1, <3>1, <3>2
      <3> QED
        BY <2>2, <3>3
    <2>5. CASE OsRow(part[i])
      <3>1. PICK act \in BOOLEAN : new = Append(old, SeatOf(part[i], act))
        <4>1. \E act \in BOOLEAN : Collect(steps[i - 1], part[i], i).rows =
                                    Append(steps[i - 1].rows, SeatOf(part[i], act))
          <5>1. i \in Nat
            BY <1>1
          <5> QED
            BY <2>3, <2>5, <5>1, CollectIs
        <4> QED
          BY <2>3, <4>1
      <3> DEFINE seat == SeatOf(part[i], act)
      <3>2. seat \in Seat /\ SamePlace(seat.row, part[i])
        BY <2>3, <2>5, SeatType
      <3>3. os(i) = os(i - 1) \cup {i} /\ i \notin os(i - 1)
        BY <1>1, <2>5
      <3>4. IsFiniteSet(os(i - 1))
        <4>1. IsFiniteSet(1 .. i - 1)
          BY FS_Interval
        <4>2. os(i - 1) \in SUBSET (1 .. i - 1)
          OBVIOUS
        <4> HIDE DEF os
        <4> QED
          BY <4>1, <4>2, FS_Subset
      <3> HIDE DEF os, seat
      <3>5. Cardinality(os(i)) = Cardinality(os(i - 1)) + 1
        BY <3>3, <3>4, FS_AddElement
      <3>6. old \in Seq(Seat)
        BY <2>1
      <3>7. /\ new \in Seq(Seat) /\ Len(new) = Len(old) + 1
            /\ \A j \in 1 .. Len(old) + 1 : new[j] = IF j <= Len(old) THEN old[j] ELSE seat
        BY <3>1, <3>2, <3>6, Appended DEF seat
      <3>8. /\ Len(old) \in Nat /\ Len(old) = Cardinality(os(i - 1))
            /\ \A j \in 1 .. Len(old) :
                 \E r \in os(i - 1) : SamePlace(old[j].row, part[r])
            /\ \A r \in os(i - 1) :
                 \E j \in 1 .. Len(old) : SamePlace(old[j].row, part[r])
        BY <2>1
      <3> HIDE DEF old, new
      <3>9. \A j \in 1 .. Len(new) : \E r \in os(i) : SamePlace(new[j].row, part[r])
        <4> SUFFICES ASSUME NEW j \in 1 .. Len(new)
                     PROVE  \E r \in os(i) : SamePlace(new[j].row, part[r])
          OBVIOUS
        <4>1. CASE j <= Len(old)
          <5>1. j \in 1 .. Len(old) /\ new[j] = old[j]
            BY <3>7, <3>8, <4>1
          <5> QED
            BY <3>3, <3>8, <5>1
        <4>2. CASE ~(j <= Len(old))
          <5>1. new[j] = seat
            BY <3>7, <3>8, <4>2
          <5> QED
            BY <3>2, <3>3, <5>1
        <4> QED
          BY <4>1, <4>2
      <3>10. \A r \in os(i) : \E j \in 1 .. Len(new) : SamePlace(new[j].row, part[r])
        <4> SUFFICES ASSUME NEW r \in os(i)
                     PROVE  \E j \in 1 .. Len(new) : SamePlace(new[j].row, part[r])
          OBVIOUS
        <4>1. CASE r = i
          <5>1. Len(new) \in 1 .. Len(new) /\ new[Len(new)] = seat
            BY <3>7, <3>8
          <5> QED
            BY <3>2, <4>1, <5>1
        <4>2. CASE r # i
          <5>1. PICK j \in 1 .. Len(old) : SamePlace(old[j].row, part[r])
            BY <3>3, <3>8, <4>2
          <5>2. j \in 1 .. Len(new) /\ new[j] = old[j]
            BY <3>7, <3>8
          <5> QED
            BY <5>1, <5>2
        <4> QED
          BY <4>1, <4>2
      <3>11. Good(i)
        BY <3>5, <3>7, <3>8, <3>9, <3>10 DEF new
      <3> QED
        BY <2>2, <3>11
    <2> QED
      BY <2>4, <2>5
  <1>5. Good(NumRows)
    <2> HIDE DEF Good
    <2>1. \A i \in 0 .. NumRows : i \in G
      <3> HIDE DEF G
      <3> QED
        BY <1>1, <1>3, <1>4, Turns
    <2>2. NumRows \in 0 .. NumRows
      BY <1>1
    <2> QED
      BY <2>1, <2>2
  <1> QED
    BY <1>1, <1>5
(* The seats taken are those of the partitions of the table.               *)
Seated(slots, part) ==
  /\ \A k \in Slots : slots[k].row.type # Unused =>
       \E r \in Rows : OsRow(part[r]) /\ SamePlace(slots[k].row, part[r])
  /\ \A r \in Rows : OsRow(part[r]) =>
       \E k \in Slots : slots[k].row.type # Unused /\ SamePlace(slots[k].row, part[r])

LEMMA CollectedSeats ==
  ASSUME NEW part \in [Rows -> Row], Cardinality({r \in Rows : OsRow(part[r])}) <= 4
  PROVE  Seated(Collected(part), part)
  <1> DEFINE os == {r \in Rows : OsRow(part[r])}
             c == Collected(part)
  <1>1. PICK steps :
          /\ CollectedUpTo(steps, part)
          /\ LET rows == Padded(steps[NumRows].rows, 4, NoSeat)
             IN  c \in {rows, [rows EXCEPT ![1].row.active = TRUE]}
    BY CollectedSteps
  <1> DEFINE all == steps[NumRows].rows
             rows == Padded(all, 4, NoSeat)
  <1>2. /\ all \in Seq(Seat) /\ Len(all) = Cardinality(os)
        /\ \A j \in 1 .. Len(all) : \E r \in os : SamePlace(all[j].row, part[r])
        /\ \A r \in os : \E j \in 1 .. Len(all) : SamePlace(all[j].row, part[r])
    BY <1>1, CollectedCount
  <1>3. Len(all) \in 0 .. 4
    <2>1. Len(all) \in Nat
      BY <1>2
    <2> QED
      BY <1>2, <2>1
  <1>4. c \in {rows, [rows EXCEPT ![1].row.active = TRUE]}
    BY <1>1
  <1>5. NoSeat \in Seat /\ NoSeat.row.type = Unused
    BY EditorTypes DEF NoSeat, Seat, NoEntry
  <1> HIDE DEF all, c, os
  <1>6. \A k \in 1 .. 4 : rows[k] = IF k <= Len(all) THEN all[k] ELSE NoSeat
    BY DEF Padded
  <1>7. rows \in [1 .. 4 -> Seat]
    <2>1. \A k \in 1 .. Len(all) : all[k] \in Seat
      BY <1>2
    <2> QED
      BY <1>3, <1>5, <2>1 DEF Padded
  <1> HIDE DEF rows
  <1>8. \A k \in 1 .. 4 : SamePlace(c[k].row, rows[k].row)
    <2>1. \A k \in 1 .. 4 : SamePlace([rows EXCEPT ![1].row.active = TRUE][k].row,
                                      rows[k].row)
      <3> SUFFICES ASSUME NEW k \in 1 .. 4
                   PROVE  SamePlace([rows EXCEPT ![1].row.active = TRUE][k].row,
                                    rows[k].row)
        OBVIOUS
      <3>1. rows[k] \in Seat
        BY <1>7
      <3> QED
        BY <1>7, <3>1 DEF Seat, Entry, SamePlace
    <2>2. \A k \in 1 .. 4 : SamePlace(rows[k].row, rows[k].row)
      BY DEF SamePlace
    <2> QED
      BY <1>4, <2>1, <2>2
  <1>9. \A k \in 1 .. Len(all) : k \in 1 .. 4 /\ rows[k] = all[k]
    BY <1>3, <1>6
  <1>10. ASSUME NEW k \in Slots, c[k].row.type # Unused
         PROVE  \E r \in Rows : OsRow(part[r]) /\ SamePlace(c[k].row, part[r])
    <2>1. k \in 1 .. 4 /\ rows[k].row.type # Unused
      BY <1>8, <1>10 DEF Slots, SamePlace
    <2>2. k \in 1 .. Len(all)
      BY <1>3, <1>5, <1>6, <2>1
    <2>3. PICK r \in os : SamePlace(all[k].row, part[r])
      BY <1>2, <2>2
    <2>4. SamePlace(c[k].row, part[r])
      BY <1>8, <1>9, <2>1, <2>2, <2>3 DEF SamePlace
    <2> QED
      BY <2>4 DEF os
  <1>11. ASSUME NEW r \in Rows, OsRow(part[r])
         PROVE  \E k \in Slots : c[k].row.type # Unused /\ SamePlace(c[k].row, part[r])
    <2>1. r \in os
      BY <1>11 DEF os
    <2>2. PICK k \in 1 .. Len(all) : SamePlace(all[k].row, part[r])
      BY <1>2, <2>1
    <2>3. k \in Slots /\ SamePlace(c[k].row, part[r])
      BY <1>8, <1>9, <2>2 DEF SamePlace, Slots
    <2>4. c[k].row.type # Unused
      BY <1>11, <2>3 DEF OsRow, SamePlace
    <2> QED
      BY <2>3, <2>4
  <1> QED
    BY <1>10, <1>11 DEF Seated, c

LEMMA UninstallKeepsPartitions ==
  ASSUME Inv, UninstallAdvanced, view' = "MBR"
  PROVE  MbrPartitions(cur'.mbr.rows) = TablePartitions(Part)
  <1> DEFINE n == Cardinality({r \in Rows : OsRow(Part[r])})
             c == Collected(Part)
             slots == Rounds(c, n)
             rows == [k \in Slots |-> slots[k].row]
             m == IF cur.mbr.magic
                  THEN [code |-> "Standard", magic |-> FALSE, at |-> 0, rows |-> rows]
                  ELSE [cur.mbr EXCEPT !.rows = rows]
  <1>1. ~(n > 4) /\ cur' = [cur EXCEPT !.mbr = m]
    BY DEF UninstallAdvanced, InAdv
  <1>2. cur \in Memory /\ cur.mbr \in MbrSector /\ Part \in [Rows -> Row]
    BY ShownTable
  <1>3. cur'.mbr.rows = rows
    <2> HIDE DEF rows
    <2> QED
      BY <1>1, <1>2 DEF Memory, MbrSector
  <1>4. n \in Nat
    <2>1. IsFiniteSet(Rows)
      BY NumberBounds, FS_Interval DEF Rows
    <2>2. {r \in Rows : OsRow(Part[r])} \in SUBSET Rows
      OBVIOUS
    <2> QED
      BY <2>1, <2>2, FS_Subset, FS_CardinalityType
  <1>5. Seated(c, Part)
    <2>1. n <= 4
      BY <1>1, <1>4
    <2> QED
      BY <1>2, <2>1, CollectedSeats
  <1>6. {slots[j] : j \in 1 .. 4} = {c[j] : j \in 1 .. 4}
    <2>1. c \in [1 .. 4 -> Seat]
      BY <1>2, CollectedType
    <2> HIDE DEF c, n
    <2> QED
      BY <1>4, <2>1, RoundsPermute
  <1> HIDE DEF c, n, slots
  <1>7. /\ \A j \in Slots : \E k \in Slots : slots[j] = c[k]
        /\ \A k \in Slots : \E j \in Slots : slots[j] = c[k]
    <2>1. Slots = 1 .. 4
      BY DEF Slots
    <2> QED
      BY <1>6, <2>1
  <1>8. Seated(slots, Part)
    <2>1. ASSUME NEW k \in Slots, slots[k].row.type # Unused
          PROVE  \E r \in Rows : OsRow(Part[r]) /\ SamePlace(slots[k].row, Part[r])
      BY <1>5, <1>7, <2>1 DEF Seated
    <2>2. ASSUME NEW r \in Rows, OsRow(Part[r])
          PROVE  \E k \in Slots : slots[k].row.type # Unused
                                  /\ SamePlace(slots[k].row, Part[r])
      <3>1. PICK j \in Slots : c[j].row.type # Unused /\ SamePlace(c[j].row, Part[r])
        BY <1>5, <2>2 DEF Seated
      <3>2. PICK k \in Slots : slots[k] = c[j]
        BY <1>7
      <3> QED
        BY <3>1, <3>2
    <2> QED
      BY <2>1, <2>2 DEF Seated
  <1> DEFINE S == {k \in Slots : rows[k].type # Unused}
             T == {r \in Rows : OsRow(Part[r])}
  <1>9. \A k \in Slots : rows[k] = slots[k].row
    OBVIOUS
  <1> HIDE DEF rows
  <1>10. \A x \in S : \E y \in T : SamePlace(rows[x], Part[y])
    BY <1>8, <1>9 DEF Seated
  <1>11. \A y \in T : \E x \in S : SamePlace(rows[x], Part[y])
    BY <1>8, <1>9 DEF Seated
  <1>12. PartitionsOf(rows, S) = PartitionsOf(Part, T)
    <2> HIDE DEF S, T
    <2> QED
      BY <1>10, <1>11, SamePartitions
  <1> QED
    BY <1>3, <1>12 DEF MbrPartitions, TablePartitions
(* The rows of the MBR become rows of the table.                           *)
Moved(seq, rows, k) ==
  /\ \A i \in 1 .. Len(seq) :
       /\ OsRow(seq[i])
       /\ \E j \in 1 .. k : rows[j].type # Unused /\ SamePlace(seq[i], rows[j])
  /\ \A j \in 1 .. k : rows[j].type # Unused =>
       \E i \in 1 .. Len(seq) : SamePlace(seq[i], rows[j])

LEMMA TakeIs ==
  ASSUME NEW acc \in Taking, NEW rows \in [Slots -> Entry], NEW wins,
         NEW k \in 1 .. 4
  PROVE  /\ rows[k].type = Unused => Take(acc, rows, wins, k) = acc
         /\ rows[k].type # Unused =>
              \E row : /\ OsRow(row) /\ SamePlace(row, rows[k])
                       /\ Take(acc, rows, wins, k).part = Append(acc.part, row)
  <1> DEFINE e == rows[k]
             n == Len(acc.part) + 1
             swap == k > 1 /\ rows[k - 1].type = Linux /\ e.type = Swap
             row == [type |-> e.type, tag |-> IF swap THEN 0 ELSE n, orig |-> k,
                     rel |-> e.rel, num |-> e.num]
  <1>1. e \in Entry
    BY DEF Slots
  <1>2. CASE e.type = Unused
    BY <1>2 DEF Take
  <1>3. CASE e.type # Unused
    <2>1. Take(acc, rows, wins, k).part = Append(acc.part, row)
      BY <1>3 DEF Take
    <2>2. SamePlace(row, e)
      BY DEF SamePlace
    <2>3. row.type = e.type
      OBVIOUS
    <2>4. OsRow(row)
      <3>1. e.type \in OsTypes \cup {Hidden}
        BY <1>1, <1>3 DEF Entry
      <3>2. e.type # Manager
        BY <3>1, TypesApart DEF Hidden, Manager
      <3> HIDE DEF row
      <3> QED
        BY <1>3, <2>3, <3>2 DEF OsRow
    <2> HIDE DEF row
    <2> QED
      BY <1>3, <2>1, <2>2, <2>4
  <1> QED
    BY <1>2, <1>3

LEMMA TakenMoves ==
  ASSUME NEW rows \in [Slots -> Entry], NEW wins
  PROVE  /\ Len(Taken(rows, wins).part) <= 4
         /\ Moved(Taken(rows, wins).part, rows, 4)
  <1>1. PICK steps : TakenUpTo(steps, rows, wins) /\ Taken(rows, wins) = steps[4]
    BY TakenSteps
  <1>2. steps \in [0 .. 4 -> Taking] /\ steps[0].part = << >>
        /\ \A k \in 1 .. 4 : steps[k] = Take(steps[k - 1], rows, wins, k)
    BY <1>1 DEF TakenUpTo
  <1> DEFINE Good(k) == Len(steps[k].part) <= k /\ Moved(steps[k].part, rows, k)
             G == {k \in 0 .. 4 : Good(k)}
  <1>3. 0 \in G
    <2> DEFINE seq == steps[0].part
    <2>1. Len(seq) = 0 /\ 1 .. Len(seq) = {}
      BY <1>2
    <2> HIDE DEF seq
    <2>2. Moved(seq, rows, 0) /\ Len(seq) <= 0
      BY <2>1 DEF Moved
    <2> QED
      BY <2>2 DEF seq
  <1>4. ASSUME NEW k \in 1 .. 4, k - 1 \in G PROVE k \in G
    <2> DEFINE old == steps[k - 1].part
               new == steps[k].part
    <2>1. Len(old) <= k - 1 /\ Moved(old, rows, k - 1)
      BY <1>4
    <2>2. steps[k - 1] \in Taking /\ steps[k] = Take(steps[k - 1], rows, wins, k)
          /\ k \in 0 .. 4
      BY <1>2
    <2>3. steps[k] \in Taking
      BY <1>2, <2>2
    <2>4. old \in Seq(Row) /\ new \in Seq(Row) /\ Len(old) \in Nat
      BY <2>2, <2>3 DEF Taking
    <2>5. CASE rows[k].type = Unused
      <3>1. new = old
        BY <2>2, <2>5, TakeIs
      <3> HIDE DEF old, new
      <3>2. Len(new) <= k
        BY <2>1, <2>4, <3>1
      <3>3. Moved(new, rows, k)
        <4>1. \A j \in 1 .. k - 1 : j \in 1 .. k
          OBVIOUS
        <4>2. \A j \in 1 .. k : rows[j].type # Unused => j \in 1 .. k - 1
          BY <2>5
        <4> QED
          BY <2>1, <3>1, <4>1, <4>2 DEF Moved
      <3> QED
        BY <2>2, <3>2, <3>3 DEF new
    <2>6. CASE rows[k].type # Unused
      <3>1. PICK row : /\ OsRow(row) /\ SamePlace(row, rows[k])
                       /\ new = Append(old, row)
        <4>1. \E row : /\ OsRow(row) /\ SamePlace(row, rows[k])
                       /\ Take(steps[k - 1], rows, wins, k).part =
                            Append(steps[k - 1].part, row)
          <5> DEFINE acc == steps[k - 1]
          <5>1. acc \in Taking
            BY <2>2
          <5> HIDE DEF acc
          <5>2. \E row : /\ OsRow(row) /\ SamePlace(row, rows[k])
                         /\ Take(acc, rows, wins, k).part = Append(acc.part, row)
            <6>1. rows[k].type # Unused =>
                    \E row : /\ OsRow(row) /\ SamePlace(row, rows[k])
                             /\ Take(acc, rows, wins, k).part = Append(acc.part, row)
              BY <5>1, TakeIs
            <6> QED
              BY <2>6, <6>1
          <5> QED
            BY <5>2 DEF acc
        <4> QED
          BY <2>2, <4>1
      <3> HIDE DEF old, new
      <3>2. /\ Len(new) = Len(old) + 1
            /\ \A i \in 1 .. Len(old) + 1 : new[i] = IF i <= Len(old) THEN old[i] ELSE row
        BY <2>4, <3>1
      <3>3. Len(new) <= k
        BY <2>1, <2>4, <3>2
      <3>4. ASSUME NEW i \in 1 .. Len(new)
            PROVE  /\ OsRow(new[i])
                   /\ \E j \in 1 .. k : rows[j].type # Unused /\ SamePlace(new[i], rows[j])
        <4>1. CASE i <= Len(old)
          <5>1. i \in 1 .. Len(old) /\ new[i] = old[i]
            BY <2>4, <3>2, <4>1
          <5>2. PICK j \in 1 .. k - 1 : rows[j].type # Unused /\ SamePlace(old[i], rows[j])
            BY <2>1, <5>1 DEF Moved
          <5>3. j \in 1 .. k /\ OsRow(old[i])
            BY <2>1, <5>1 DEF Moved
          <5> QED
            BY <5>1, <5>2, <5>3
        <4>2. CASE ~(i <= Len(old))
          <5>1. new[i] = row
            BY <2>4, <3>2, <4>2
          <5>2. k \in 1 .. k
            OBVIOUS
          <5> QED
            BY <2>6, <3>1, <5>1, <5>2
        <4> QED
          BY <4>1, <4>2
      <3>5. ASSUME NEW j \in 1 .. k, rows[j].type # Unused
            PROVE  \E i \in 1 .. Len(new) : SamePlace(new[i], rows[j])
        <4>1. CASE j = k
          <5>1. Len(new) \in 1 .. Len(new) /\ new[Len(new)] = row
            BY <2>4, <3>2
          <5> QED
            BY <3>1, <4>1, <5>1
        <4>2. CASE j # k
          <5>1. j \in 1 .. k - 1
            BY <4>2
          <5>2. PICK i \in 1 .. Len(old) : SamePlace(old[i], rows[j])
            BY <2>1, <3>5, <5>1 DEF Moved
          <5>3. i \in 1 .. Len(new) /\ new[i] = old[i]
            BY <2>4, <3>2
          <5> QED
            BY <5>2, <5>3
        <4> QED
          BY <4>1, <4>2
      <3>6. Moved(new, rows, k)
        BY <3>4, <3>5 DEF Moved
      <3> QED
        BY <2>2, <3>3, <3>6 DEF new
    <2> QED
      BY <2>5, <2>6
  <1>5. 4 \in G
    <2>1. \A k \in 0 .. 4 : k \in G
      <3> HIDE DEF G
      <3> QED
        BY <1>3, <1>4, Turns
    <2> HIDE DEF G
    <2> QED
      BY <2>1
  <1> QED
    BY <1>1, <1>5

(* In another order they are the same.                                     *)
LEMMA SortedMoves ==
  ASSUME NEW part \in Seq(Row), NEW rows, Moved(part, rows, 4)
  PROVE  Moved(ByPlace(part), rows, 4)
  <1> DEFINE n == Len(part)
             s == ByPlace(part)
  <1>1. PICK p : IsPermutation(p, n) /\ s = [k \in 1 .. n |-> part[p[k]]]
    BY ByPlacePermutes
  <1>2. Len(s) = n
    BY ByPlacePermutes
  <1>3. \A k \in 1 .. n : p[k] \in 1 .. n /\ s[k] = part[p[k]]
    BY <1>1 DEF IsPermutation
  <1>4. \A j \in 1 .. n : \E i \in 1 .. n : p[i] = j
    BY <1>1 DEF IsPermutation
  <1> HIDE DEF s
  <1>5. ASSUME NEW j \in 1 .. 4, rows[j].type # Unused
        PROVE  \E i \in 1 .. Len(s) : SamePlace(s[i], rows[j])
    <2>1. PICK k \in 1 .. n : SamePlace(part[k], rows[j])
      BY <1>5 DEF Moved
    <2>2. PICK i \in 1 .. n : p[i] = k
      BY <1>4
    <2> QED
      BY <1>2, <1>3, <2>1, <2>2
  <1>6. ASSUME NEW i \in 1 .. Len(s)
        PROVE  /\ OsRow(s[i])
               /\ \E j \in 1 .. 4 : rows[j].type # Unused /\ SamePlace(s[i], rows[j])
    BY <1>2, <1>3 DEF Moved
  <1> QED
    BY <1>5, <1>6 DEF Moved, s
LEMMA FirstRows ==
  \A m \in Nat : IsFiniteSet(1 .. m) /\ Cardinality(1 .. m) = m
  <1> SUFFICES ASSUME NEW m \in Nat
               PROVE  IsFiniteSet(1 .. m) /\ Cardinality(1 .. m) = m
    OBVIOUS
  <1>1. /\ IsFiniteSet(1 .. m)
        /\ Cardinality(1 .. m) = IF 1 > m THEN 0 ELSE m - 1 + 1
    BY FS_Interval
  <1> QED
    BY <1>1

(* The table made of them has a row for the manager, and few more rows.    *)
LEMMA MadeTable ==
  ASSUME NumRows >= 10, NEW s \in Seq(Row), NEW rows, Len(s) <= 4,
         Moved(s, rows, 4), NEW e \in Row, e.type = Manager,
         NEW at \in 1 .. Len(s) + 1, NEW t \in [Rows -> Row],
         t = Padded(InsertAt(s, at, e), NumRows, NoRow)
  PROVE  /\ TablePartitions(t) = MbrPartitions(rows)
         /\ ManagerRow(t) # 0 /\ 2 * Cardinality(Used(t)) <= NumRows
  <1> DEFINE n == Len(s)
             w == InsertAt(s, at, e)
  <1>1. Rows = 1 .. NumRows /\ NumRows \in Nat /\ n \in 0 .. 4 /\ at \in 1 .. n + 1
    <2>1. n \in Nat
      OBVIOUS
    <2>2. n <= 4 /\ at \in 1 .. n + 1
      OBVIOUS
    <2> HIDE DEF n
    <2>3. n \in 0 .. 4
      BY <2>1, <2>2
    <2> QED
      BY <2>2, <2>3, NumberBounds DEF Rows
  <1>2. w \in Seq(Row) /\ Len(w) = n + 1
    BY InsertAtIs
  <1>3. ASSUME NEW k \in 1 .. n + 1
        PROVE  w[k] = IF k < at THEN s[k] ELSE IF k = at THEN e ELSE s[k - 1]
    BY InsertAtIs
  <1> HIDE DEF w
  <1>4. \A r \in Rows : t[r] = IF r <= n + 1 THEN w[r] ELSE NoRow
    BY <1>1, <1>2 DEF Padded, w
  <1> HIDE DEF n
  <1>5. /\ at \in Rows /\ t[at] = e
        /\ \A i \in 1 .. n : \E r \in Rows : t[r] = s[i]
    <2>1. at \in Rows /\ at <= n + 1 /\ at \in 1 .. n + 1
      BY <1>1
    <2>2. t[at] = e
      BY <1>3, <1>4, <2>1
    <2>3. ASSUME NEW i \in 1 .. n PROVE \E r \in Rows : t[r] = s[i]
      <3>1. CASE i < at
        <4>1. i \in Rows /\ i <= n + 1 /\ i \in 1 .. n + 1
          BY <1>1
        <4>2. w[i] = s[i]
          BY <1>3, <3>1, <4>1
        <4>3. t[i] = w[i]
          BY <1>4, <4>1
        <4> QED
          BY <4>1, <4>2, <4>3
      <3>2. CASE ~(i < at)
        <4>1. i + 1 \in Rows /\ i + 1 <= n + 1 /\ i + 1 \in 1 .. n + 1
              /\ ~(i + 1 < at) /\ i + 1 # at /\ i + 1 - 1 = i
          BY <1>1, <3>2
        <4>2. w[i + 1] = s[i]
          BY <1>3, <4>1
        <4>3. t[i + 1] = w[i + 1]
          BY <1>4, <4>1
        <4> QED
          BY <4>1, <4>2, <4>3
      <3> QED
        BY <3>1, <3>2
    <2> QED
      BY <2>1, <2>2, <2>3
  <1>6. ASSUME NEW r \in Rows, t[r].type # Unused
        PROVE  r \in 1 .. 5 /\ (t[r] = e \/ \E i \in 1 .. n : t[r] = s[i])
    <2>1. r <= n + 1
      BY <1>4, <1>6, NoRowType
    <2>2. r \in 1 .. n + 1 /\ r \in 1 .. 5
      BY <1>1, <2>1
    <2>3. t[r] = w[r]
      BY <1>4, <2>1
    <2>4. CASE r < at
      <3>1. r \in 1 .. n
        BY <1>1, <2>2, <2>4
      <3>2. w[r] = s[r]
        BY <1>3, <2>2, <2>4
      <3> QED
        BY <2>2, <2>3, <3>1, <3>2
    <2>5. CASE r = at
      <3>1. t[r] = e
        BY <1>5, <2>5
      <3> QED
        BY <2>2, <3>1
    <2>6. CASE r > at
      <3>1. r - 1 \in 1 .. n /\ ~(r < at) /\ r # at
        BY <1>1, <2>2, <2>6
      <3>2. w[r] = s[r - 1]
        BY <1>3, <2>2, <3>1
      <3> QED
        BY <2>2, <2>3, <3>1, <3>2
    <2> QED
      BY <1>1, <2>2, <2>4, <2>5, <2>6
  <1> DEFINE S == {r \in Rows : OsRow(t[r])}
             T == {k \in Slots : rows[k].type # Unused}
  <1>7. /\ \A i \in 1 .. n :
             /\ OsRow(s[i])
             /\ \E j \in 1 .. 4 : rows[j].type # Unused /\ SamePlace(s[i], rows[j])
        /\ \A j \in 1 .. 4 : rows[j].type # Unused =>
             \E i \in 1 .. n : SamePlace(s[i], rows[j])
    BY DEF Moved, n
  <1>8. \A x \in S : \E y \in T : SamePlace(t[x], rows[y])
    <2> SUFFICES ASSUME NEW x \in S PROVE \E y \in T : SamePlace(t[x], rows[y])
      OBVIOUS
    <2>1. x \in Rows /\ t[x].type # Unused /\ t[x].type # Manager
      BY DEF OsRow
    <2>2. PICK i \in 1 .. n : t[x] = s[i]
      BY <1>6, <2>1
    <2>3. PICK j \in 1 .. 4 : rows[j].type # Unused /\ SamePlace(s[i], rows[j])
      BY <1>7
    <2>4. j \in T
      BY <2>3 DEF Slots
    <2> QED
      BY <2>2, <2>3, <2>4
  <1>9. \A y \in T : \E x \in S : SamePlace(t[x], rows[y])
    <2> SUFFICES ASSUME NEW y \in T PROVE \E x \in S : SamePlace(t[x], rows[y])
      OBVIOUS
    <2>1. y \in 1 .. 4 /\ rows[y].type # Unused
      BY DEF Slots
    <2>2. PICK i \in 1 .. n : SamePlace(s[i], rows[y])
      BY <1>7, <2>1
    <2>3. PICK r \in Rows : t[r] = s[i]
      BY <1>5
    <2>4. OsRow(t[r])
      BY <1>7, <2>3
    <2> QED
      BY <2>2, <2>3, <2>4
  <1>10. PartitionsOf(t, S) = PartitionsOf(rows, T)
    <2> HIDE DEF S, T
    <2> QED
      BY <1>8, <1>9, SamePartitions
  <1>11. ManagerRow(t) # 0
    BY <1>5, ManagerRowIs
  <1>12. 2 * Cardinality(Used(t)) <= NumRows
    <2>1. Used(t) \in SUBSET (1 .. 5)
      BY <1>6 DEF Used
    <2>2. IsFiniteSet(1 .. 5) /\ Cardinality(1 .. 5) = 5
      BY FirstRows
    <2>3. Cardinality(Used(t)) <= 5 /\ IsFiniteSet(Used(t))
      BY <2>1, <2>2, FS_Subset
    <2>4. Cardinality(Used(t)) \in Nat
      BY <2>3, FS_CardinalityType
    <2> QED
      BY <1>1, <2>3, <2>4
  <1> QED
    BY <1>10, <1>11, <1>12 DEF TablePartitions, MbrPartitions

(* A table with a row of the manager keeps its partitions when it is       *)
(* arranged, if the gaps can have a row each.                              *)
LEMMA ArrangedPartitions ==
  ASSUME NEW t \in [Rows -> Row], ManagerRow(t) # 0,
         2 * Cardinality(Used(t)) <= NumRows
  PROVE  TablePartitions(Arranged(t)) = TablePartitions(t)
  <1> DEFINE w == WithManager(t)
             k == ManagerRow(t)
             new == Arranged(t)
  <1>1. Rows = 1 .. NumRows /\ NumRows \in Nat
    BY NumberBounds DEF Rows
  <1>2. k \in Rows /\ t[k].type = Manager
    <2>1. FirstManager(t, k)
      BY ManagerRowIs
    <2> QED
      BY <2>1 DEF FirstManager
  <1>3. w \in [Rows -> Row] /\ w \in {t, [t EXCEPT ![k].num = AdvSize]}
    BY WithManagerType DEF WithManager
  <1>4. new = Adjusted(w)
    BY DEF Arranged
  <1> HIDE DEF w, k, new
  <1>5. \A r \in Rows : w[r].type = t[r].type /\ (r # k => w[r] = t[r])
    <2> SUFFICES ASSUME NEW r \in Rows
                 PROVE  w[r].type = t[r].type /\ (r # k => w[r] = t[r])
      OBVIOUS
    <2>1. t[r] \in Row
      OBVIOUS
    <2> QED
      BY <1>2, <1>3, <2>1 DEF Row
  <1>6. Used(w) = Used(t)
    BY <1>5 DEF Used
  <1>7. \A r \in Rows : OsRow(w[r]) <=> OsRow(t[r])
    BY <1>5 DEF OsRow
  <1>8. \A r \in Rows : OsRow(t[r]) => w[r] = t[r]
    BY <1>2, <1>5 DEF OsRow
  <1>9. PICK source : Rearranged(new, w, source) /\ Kept(new, w, source)
    BY <1>3, <1>4, <1>6, AdjustedRows
  <1>10. /\ \A r \in Rows : source[r] \in Rows /\ new[r].type = w[source[r]].type
         /\ \A q \in Rows : \E r \in Rows : source[r] = q
    BY <1>1, <1>9 DEF Rearranged, IsPermutation, SameRow
  <1>11. \A r \in Rows : w[source[r]].type # Unused => new[r] = w[source[r]]
    BY <1>9 DEF Kept
  <1> DEFINE S == {r \in Rows : OsRow(new[r])}
             T == {r \in Rows : OsRow(t[r])}
  <1>12. \A x \in S : \E y \in T : SamePlace(new[x], t[y])
    <2> SUFFICES ASSUME NEW x \in S PROVE \E y \in T : SamePlace(new[x], t[y])
      OBVIOUS
    <2>1. x \in Rows /\ source[x] \in Rows /\ OsRow(w[source[x]])
      BY <1>10 DEF OsRow
    <2>2. w[source[x]].type # Unused
      BY <2>1 DEF OsRow
    <2>3. new[x] = t[source[x]] /\ OsRow(t[source[x]])
      BY <1>7, <1>8, <1>11, <2>1, <2>2
    <2> QED
      BY <2>1, <2>3 DEF SamePlace
  <1>13. \A y \in T : \E x \in S : SamePlace(new[x], t[y])
    <2> SUFFICES ASSUME NEW y \in T PROVE \E x \in S : SamePlace(new[x], t[y])
      OBVIOUS
    <2>1. PICK r \in Rows : source[r] = y
      BY <1>10
    <2>2. w[y] = t[y] /\ t[y].type # Unused /\ OsRow(t[y])
      BY <1>8 DEF OsRow
    <2>3. new[r] = t[y]
      BY <1>11, <2>1, <2>2
    <2> QED
      BY <2>2, <2>3 DEF SamePlace
  <1>14. PartitionsOf(new, S) = PartitionsOf(t, T)
    <2> HIDE DEF S, T
    <2> QED
      BY <1>12, <1>13, SamePartitions
  <1> QED
    BY <1>14 DEF TablePartitions, new

(* A tag is not part of a partition.                                       *)
LEMMA ItemForPartitions ==
  ASSUME NEW adv \in Adv, NEW r \in Rows
  PROVE  TablePartitions(ItemFor(adv, r).part) = TablePartitions(adv.part)
  <1> DEFINE t == adv.part
             u == Tagged(t, r)
             v == ItemFor(adv, r).part
  <1>1. t \in [Rows -> Row]
    BY AdvParts
  <1>2. v = t \/ v = u
    BY DEF ItemFor, Adv
  <1>3. u = t \/ u = [t EXCEPT ![r].tag = FreeTag(t)]
    BY DEF Tagged
  <1> HIDE DEF u, v, t
  <1>4. \A q \in Rows : SamePlace(v[q], t[q])
    <2> SUFFICES ASSUME NEW q \in Rows PROVE SamePlace(v[q], t[q])
      OBVIOUS
    <2>1. t[q] \in Row
      BY <1>1
    <2>2. SamePlace([t EXCEPT ![r].tag = FreeTag(t)][q], t[q])
      BY <1>1, <2>1 DEF Row, SamePlace
    <2>3. SamePlace(t[q], t[q])
      BY DEF SamePlace
    <2> QED
      BY <1>2, <1>3, <2>2, <2>3
  <1> DEFINE S == {q \in Rows : OsRow(v[q])}
             T == {q \in Rows : OsRow(t[q])}
  <1>5. S = T
    BY <1>4 DEF SamePlace, OsRow
  <1>6. PartitionsOf(v, S) = PartitionsOf(t, T)
    <2>1. \A x \in S : x \in T /\ SamePlace(v[x], t[x])
      BY <1>4, <1>5
    <2>2. \A x \in T : x \in S /\ SamePlace(v[x], t[x])
      BY <1>4, <1>5
    <2> HIDE DEF S, T
    <2> QED
      BY <2>1, <2>2, SamePartitions
  <1> QED
    BY <1>6 DEF TablePartitions, v, t
LEMMA InstallKeepsPartitions ==
  ASSUME NumRows >= 10, Inv, Install, view' = "ADV"
  PROVE  TablePartitions(cur'.adv.part) =
           MbrPartitions([k \in Slots |-> Unhidden(cur.mbr.rows[k])])
  <1> DEFINE rows == [k \in Slots |-> Unhidden(cur.mbr.rows[k])]
             next == IF MoreDisks THEN <<[NoItem EXCEPT !.kind = "next"]>> ELSE << >>
             part(wins) == ByPlace(Taken(rows, wins).part)
             items(wins) == WithLast(part(wins), Taken(rows, wins).menu \o next)
             space(wins) == Space(part(wins))
             manager(wins) == ManagerIn(part(wins), space(wins).start)
             whole(wins) == InsertAt(part(wins), space(wins).row, manager(wins))
             enough(wins) == ~(space(wins).start + AdvSize > DiskEnd)
             made(wins) == [cur EXCEPT !.adv = MadeOf(items(wins), whole(wins))]
  <1>1. PICK wins :
          \/ ~enough(wins) /\ UNCHANGED view
          \/ /\ enough(wins)
             /\ \/ cur' = Initialized(made(wins), "ADV")
                \/ \E adv \in OptionsOf(ItemFor(Initialized(made(wins), "ADV").adv, 1)) :
                     cur' = [Initialized(made(wins), "ADV") EXCEPT !.adv = adv]
    BY DEF Install, MadeOf
  <1>2. enough(wins) /\ view = "MBR"
    BY <1>1 DEF Install, InMbr
  <1>3. cur \in Memory /\ cur.mbr.rows \in [Slots -> Entry]
    BY ShownTable DEF MbrSector
  <1>4. rows \in [Slots -> Entry]
    BY <1>3, UnhiddenType
  <1> HIDE DEF rows
  <1>5. /\ Taken(rows, wins).part \in Seq(Row) /\ Taken(rows, wins).menu \in Seq(Item)
        /\ OwnTags(Taken(rows, wins).part)
    BY <1>4, TakenType DEF Taking
  <1>6. part(wins) \in Seq(Row) /\ SeqTagsApart(part(wins))
        /\ Len(part(wins)) = Len(Taken(rows, wins).part)
    BY <1>5, ByPlacePermutes
  <1>7. Len(part(wins)) <= 4 /\ Moved(part(wins), rows, 4)
    BY <1>4, <1>5, <1>6, TakenMoves, SortedMoves
  <1>8. items(wins) \in Seq(Item)
    <2>1. next \in Seq(Item)
      BY NextItems
    <2> HIDE DEF next, part
    <2>2. Taken(rows, wins).menu \o next \in Seq(Item)
      BY <1>5, <2>1, Joined
    <2> QED
      BY <1>6, <2>2, WithLastType
  <1> HIDE DEF items, part
  <1>9. space(wins).start \in Nat /\ space(wins).row \in 1 .. Len(part(wins)) + 1
    BY <1>6, SpaceType
  <1>10. manager(wins) \in Row /\ manager(wins).tag = 0 /\ manager(wins).type = Manager
    BY <1>2, <1>9, ManagerInType
  <1> HIDE DEF manager, space
  <1>11. whole(wins) \in Seq(Row) /\ SeqTagsApart(whole(wins))
    BY <1>6, <1>9, <1>10, InsertedTags
  <1> DEFINE t == Padded(whole(wins), NumRows, NoRow)
  <1>12. t \in [Rows -> Row] /\ UniqueTags(t)
    <2> HIDE DEF whole
    <2> QED
      BY <1>11, PaddedTable
  <1>13. /\ TablePartitions(t) = MbrPartitions(rows)
         /\ ManagerRow(t) # 0 /\ 2 * Cardinality(Used(t)) <= NumRows
    <2>1. t = Padded(InsertAt(part(wins), space(wins).row, manager(wins)), NumRows, NoRow)
      OBVIOUS
    <2> HIDE DEF t, whole
    <2> QED
      BY <1>6, <1>7, <1>9, <1>10, <1>12, <2>1, MadeTable
  <1> DEFINE made2 == MadeOf(items(wins), whole(wins))
  <1> HIDE DEF whole
  <1>14. made2 \in Adv /\ UniqueTags(made2.part) /\ made2.part = t
    BY <1>8, <1>11, MadeType
  <1>15. made(wins) = [cur EXCEPT !.adv = made2]
    OBVIOUS
  <1> HIDE DEF made2, made, t
  <1>16. made(wins) \in Memory /\ made(wins).adv = made2
    BY <1>3, <1>14, <1>15, MemoryParts
  <1> DEFINE data == Initialized(made(wins), "ADV")
  <1>17. data \in Memory
    BY <1>14, <1>16, InitializedType
  <1>18. data.adv.part = Arranged(t)
    <2>1. data = [made(wins) EXCEPT !.adv.part = Arranged(t)]
      BY <1>14, <1>16 DEF Initialized
    <2>2. Arranged(t) \in [Rows -> Row]
      BY <1>12, ArrangedTable
    <2> HIDE DEF data
    <2> QED
      BY <1>16, <2>1, <2>2, MemoryParts
  <1>19. TablePartitions(data.adv.part) = MbrPartitions(rows)
    BY <1>12, <1>13, <1>18, ArrangedPartitions
  <1>20. \/ cur' = data
         \/ \E adv \in OptionsOf(ItemFor(data.adv, 1)) : cur' = [data EXCEPT !.adv = adv]
    BY <1>1, <1>2
  <1> HIDE DEF data
  <1>21. CASE cur' = data
    BY <1>19, <1>21 DEF rows
  <1>22. ASSUME NEW adv \in OptionsOf(ItemFor(data.adv, 1)),
                cur' = [data EXCEPT !.adv = adv]
         PROVE  TablePartitions(cur'.adv.part) = MbrPartitions(rows)
    <2>1. data.adv \in Adv /\ 1 \in Rows /\ UniqueTags(data.adv.part)
      BY <1>12, <1>17, <1>18, ArrangedTable, MemoryParts, NumberBounds
    <2>2. ItemFor(data.adv, 1) \in Adv
      BY <2>1, ItemForKeeps
    <2>3. adv \in Adv /\ adv.part = ItemFor(data.adv, 1).part
      BY <2>2, OptionsType
    <2>4. cur'.adv = adv
      BY <1>17, <1>22, <2>3, MemoryParts
    <2>5. TablePartitions(adv.part) = TablePartitions(data.adv.part)
      BY <2>1, <2>3, ItemForPartitions
    <2> QED
      BY <1>19, <2>4, <2>5
  <1> QED
    BY <1>20, <1>21, <1>22 DEF rows

(* Installing and removing the boot manager keep the partitions: the table *)
(* has all that were in the MBR and no others, whatever is moved, sorted   *)
(* and filled in between, and the other way round.  There are rows enough  *)
(* for the gaps (MAX_PART_ROWS is 32).                                     *)
THEOREM ConversionKeeps ==
  ASSUME NumRows >= 10
  PROVE  Spec => ConversionKeepsPartitions
  <1> DEFINE A == Install /\ view' = "ADV" =>
                    TablePartitions(cur'.adv.part) =
                      MbrPartitions([k \in Slots |-> Unhidden(cur.mbr.rows[k])])
             B == UninstallAdvanced /\ view' = "MBR" =>
                    MbrPartitions(cur'.mbr.rows) = TablePartitions(Part)
  <1>1. Inv /\ [Next]_vars => [A]_vars
    BY InstallKeepsPartitions
  <1>2. Inv /\ [Next]_vars => [B]_vars
    BY UninstallKeepsPartitions
  <1>3. Spec => [][A]_vars
    <2> HIDE DEF A
    <2> QED
      BY <1>1, InvHolds, PTL DEF Spec
  <1>4. Spec => [][B]_vars
    <2> HIDE DEF B
    <2> QED
      BY <1>2, InvHolds, PTL DEF Spec
  <1> QED
    BY <1>3, <1>4, PTL DEF ConversionKeepsPartitions
-------------------------------------------------------------------------------
(* Leaving.  What is read again is what was saved or read before.          *)
(* What is read again.  A table that has been saved is shown as it was,    *)
(* with or without its unused rows.                                        *)
LEMMA SavedShown ==
  ASSUME NEW t \in [Rows -> Row], UniqueTags(t), ManagerRow(t) # 0,
         t[ManagerRow(t)].num >= AdvSize, NEW u, u \in {t, Compacted(t)}
  PROVE  \A r \in Rows : Seen(Arranged(u)[r]) = Seen(Arranged(t)[r])
  <1>1. /\ u \in [Rows -> Row] /\ ManagerRow(u) # 0
        /\ u[ManagerRow(u)].num >= AdvSize
    BY SavedPart
  <1>2. WithManager(t) = t /\ WithManager(u) = u
    BY <1>1 DEF WithManager
  <1>3. SameUsed(t, u)
    <2>1. SameUsed(t, t)
      BY DEF SameUsed
    <2> QED
      BY <2>1, CompactedTable
  <1> QED
    BY <1>1, <1>2, <1>3, AdjustedAlike DEF Arranged
LEMMA ShownAlike ==
  ASSUME NEW x \in Adv, NEW y \in Adv, x.signed = y.signed, x.menu = y.menu,
         x.ignore = y.ignore, \A r \in Rows : Seen(x.part[r]) = Seen(y.part[r])
  PROVE  OnScreen(x) = OnScreen(y)
  <1> DEFINE shown(p) == [r \in Rows |-> IF p[r].type = Unused THEN Partition(p[r])
                                         ELSE p[r]]
  <1>1. shown(x.part) = shown(y.part)
    BY DEF Seen
  <1>2. OnScreen(x) = [x EXCEPT !.part = shown(x.part)]
        /\ OnScreen(y) = [y EXCEPT !.part = shown(y.part)]
    BY DEF OnScreen
  <1> HIDE DEF shown
  <1> QED
    BY <1>1, <1>2 DEF Adv

(* The row of the manager stays, whatever else changes.                    *)
HasManager(t) == \E r \in Rows : t[r].type = Manager
Stays(x, y) == /\ y.signed = x.signed
               /\ HasManager(x.part) => HasManager(y.part)
LEMMA SameTypesStay ==
  ASSUME NEW t, NEW u, \A r \in Rows : u[r].type = t[r].type, HasManager(t)
  PROVE  HasManager(u)
  BY DEF HasManager
LEMMA OtherRowStays ==
  ASSUME NEW t \in [Rows -> Row], NEW r \in Rows, t[r].type # Manager, NEW q,
         HasManager(t)
  PROVE  HasManager([t EXCEPT ![r] = q])
  BY DEF HasManager
LEMMA ArrangedManager ==
  ASSUME NEW t \in [Rows -> Row], HasManager(t) \/ t[NumRows].type = Unused
  PROVE  HasManager(Arranged(t))
  <1> DEFINE w == WithManager(t)
             k == ManagerRow(t)
  <1>1. Rows = 1 .. NumRows /\ NumRows \in Rows
    BY NumberBounds DEF Rows
  <1>2. k \in Rows \cup {0} /\ (k = 0 <=> ~HasManager(t))
    BY ManagerRowIs DEF HasManager
  <1>3. HasManager(w)
    <2>1. CASE HasManager(t)
      <3>1. k # 0 /\ k \in Rows
        BY <1>2, <2>1
      <3>2. w = t \/ w = [t EXCEPT ![k].num = AdvSize]
        BY <3>1 DEF WithManager
      <3>3. \A r \in Rows : [t EXCEPT ![k].num = AdvSize][r].type = t[r].type
        <4> SUFFICES ASSUME NEW r \in Rows
                     PROVE  [t EXCEPT ![k].num = AdvSize][r].type = t[r].type
          OBVIOUS
        <4>1. t[r] \in Row
          OBVIOUS
        <4> HIDE DEF k
        <4> QED
          BY <3>1, <4>1 DEF Row
      <3> HIDE DEF k, w
      <3> QED
        BY <2>1, <3>2, <3>3 DEF HasManager
    <2>2. CASE ~HasManager(t)
      <3>1. w = [t EXCEPT ![NumRows].type = Manager, ![NumRows].num = AdvSize]
        BY <1>2, <2>2 DEF WithManager
      <3>2. t[NumRows] \in Row
        BY <1>1
      <3>3. w[NumRows].type = Manager
        <4> HIDE DEF w
        <4> QED
          BY <1>1, <3>1, <3>2 DEF Row
      <3> QED
        BY <1>1, <3>3 DEF HasManager
    <2> QED
      BY <2>1, <2>2
  <1>4. w \in [Rows -> Row] /\ Arranged(t) = Adjusted(w)
    BY WithManagerType DEF Arranged
  <1> HIDE DEF w, k
  <1>5. PICK source : Rearranged(Adjusted(w), w, source)
    BY <1>4, AdjustedRows
  <1>6. PICK q \in Rows : w[q].type = Manager
    BY <1>3 DEF HasManager
  <1>7. PICK r \in Rows : source[r] = q
    BY <1>1, <1>5, <1>6 DEF Rearranged, IsPermutation
  <1>8. Adjusted(w)[r].type = Manager
    BY <1>5, <1>6, <1>7 DEF Rearranged, SameRow
  <1> QED
    BY <1>4, <1>8 DEF HasManager
LEMMA NewTableGetsManager ==
  /\ HasManager(Arranged(ZeroAdv.part))
  /\ ~HasManager(ZeroAdv.part) /\ ZeroAdv.signed = FALSE
  <1>1. ZeroAdv.part \in [Rows -> Row] /\ NumRows \in Rows
    BY EditorTypes, AdvParts, NumberBounds
  <1>2. \A r \in Rows : ZeroAdv.part[r].type = Unused
    BY NoRowType DEF ZeroAdv
  <1>3. Manager # Unused
    BY DEF Manager, Unused
  <1> QED
    BY <1>1, <1>2, <1>3, ArrangedManager DEF HasManager, ZeroAdv

(* What setup_mbr has in memory belongs to the disk: what was read or      *)
(* written last is there, unless the table could not be read; then what is *)
(* shown as one is new, and differs from the zeroes that were taken for it.*)
Reads(d, o) ==
  /\ DataAt(d) # NoData
  /\ OnScreen([DataAt(d).adv EXCEPT !.part = Arranged(@)]) = OnScreen(o.adv)
Marked(adv) == adv.signed \/ HasManager(adv.part)
NeverRead ==
  /\ orig.adv = ZeroAdv
  /\ view = "ADV" => Marked(cur.adv)
  /\ preview => Marked(cur.adv) \/ cur.adv = ZeroAdv
  /\ menu.open = "enter" => cur.adv.signed \/ HasManager(menu.held)
Remembers ==
  /\ menu.open # "no" => view = "ADV"
  /\ cur.mbr.magic => orig.mbr.magic /\ cur.mbr.at = orig.mbr.at
  /\ spoilt \/ (/\ orig.mbr = disk.mbr
                /\ orig.mbr.magic => Reads(disk, orig) \/ NeverRead)

LEMMA StaysUnsaved ==
  ASSUME Remembers, UNCHANGED <<disk, orig, spoilt>>,
         menu'.open # "no" => view' = "ADV",
         \/ cur'.mbr = orig.mbr
         \/ cur'.mbr.magic => cur.mbr.magic /\ cur'.mbr.at = cur.mbr.at,
         NeverRead /\ orig.mbr.magic => NeverRead'
  PROVE  Remembers'
  <1>1. /\ menu'.open # "no" => view' = "ADV"
        /\ cur'.mbr.magic => orig'.mbr.magic /\ cur'.mbr.at = orig'.mbr.at
    BY DEF Remembers
  <1>2. spoilt' \/ (/\ orig'.mbr = disk'.mbr
                    /\ orig'.mbr.magic => Reads(disk', orig') \/ NeverRead')
    BY DEF Remembers
  <1> QED
    BY <1>1, <1>2 DEF Remembers
LEMMA EditsRemembered ==
  ASSUME Remembers, view = "ADV", UNCHANGED <<disk, orig, view, preview, spoilt>>,
         cur'.mbr = cur.mbr, Stays(cur.adv, cur'.adv),
         \/ menu' = menu \/ menu'.open # "enter" \/ menu'.held = cur.adv.part
  PROVE  Remembers'
  <1>1. ASSUME NeverRead PROVE NeverRead'
    BY <1>1 DEF NeverRead, Marked, Stays
  <1> QED
    BY <1>1, StaysUnsaved
LEMMA MemoryMarks ==
  ASSUME NEW m \in Memory
  PROVE  /\ m.adv.signed \in BOOLEAN
         /\ \A p \in [Rows -> Row] : [m EXCEPT !.adv.part = p].adv.signed = m.adv.signed
         /\ \A x \in MbrSector : [m EXCEPT !.mbr = x].adv = m.adv
  BY DEF Memory, Adv
LEMMA InitializedMarks ==
  ASSUME NEW m \in Memory, NEW v
  PROVE  /\ Initialized(m, v).mbr = m.mbr
         /\ Initialized(m, v).adv.signed = m.adv.signed
         /\ HasManager(m.adv.part) => HasManager(Initialized(m, v).adv.part)
         /\ v # "ADV" => Initialized(m, v) = m
         /\ m.adv = ZeroAdv /\ v = "ADV" => HasManager(Initialized(m, v).adv.part)
  <1> DEFINE p == Arranged(m.adv.part)
             n == [m EXCEPT !.adv.part = p]
  <1>1. m.adv.part \in [Rows -> Row]
    BY DEF Memory, Adv
  <1>2. p \in [Rows -> Row] /\ (HasManager(m.adv.part) => HasManager(p))
        /\ (m.adv = ZeroAdv => HasManager(p))
    BY <1>1, ArrangedTable, ArrangedManager, NewTableGetsManager
  <1>3. Initialized(m, v) = IF v = "ADV" THEN n ELSE m
    BY DEF Initialized
  <1> HIDE DEF p
  <1>4. n.mbr = m.mbr /\ n.adv.part = p /\ n.adv.signed = m.adv.signed
    BY <1>2, MemoryParts, MemoryMarks
  <1> HIDE DEF n
  <1> QED
    BY <1>2, <1>3, <1>4
-------------------------------------------------------------------------------
(* Every step keeps that.                                                  *)
LEMMA SetPartRemembered ==
  ASSUME Inv, Remembers, NEW part \in [Rows -> Row], NEW arranged \in BOOLEAN,
         view = "ADV", HasManager(Part) => HasManager(part), SetPart(part, arranged)
  PROVE  Remembers'
  <1> DEFINE p == IF arranged THEN Arranged(part) ELSE part
  <1>1. p \in [Rows -> Row] /\ (HasManager(part) => HasManager(p))
    BY ArrangedTable, ArrangedManager
  <1>2. cur' = [cur EXCEPT !.adv.part = p]
        /\ UNCHANGED <<disk, orig, view, preview, menu, spoilt>>
    BY DEF SetPart
  <1> HIDE DEF p
  <1>3. /\ cur'.adv.part = p /\ cur'.mbr = cur.mbr
        /\ cur'.adv.signed = cur.adv.signed
    BY <1>1, <1>2, ShownTable, MemoryParts, MemoryMarks
  <1>4. Stays(cur.adv, cur'.adv)
    BY <1>1, <1>3 DEF Stays, Part
  <1> QED
    BY <1>2, <1>3, <1>4, EditsRemembered
LEMMA RowEditsRemembered ==
  ASSUME Inv, Remembers, NEW r \in Rows,
         \/ Delete(r) \/ EditField(r) \/ \E type \in NewTypes : Insert(r, type)
  PROVE  Remembers'
  <1>1. Part \in [Rows -> Row] /\ UniqueTags(Part) /\ Part[r] \in Row
    BY ShownTable
  <1>2. view = "ADV"
    BY DEF Delete, EditField, Insert, InAdv
  <1>3. ASSUME Delete(r) PROVE Remembers'
    <2>1. Part[r].type # Manager /\ SetPart([Part EXCEPT ![r] = NoRow], TRUE)
      BY <1>3 DEF Delete
    <2>2. [Part EXCEPT ![r] = NoRow] \in [Rows -> Row]
      BY <1>1, NoRowType
    <2>3. HasManager(Part) => HasManager([Part EXCEPT ![r] = NoRow])
      BY <1>1, <2>1, OtherRowStays
    <2> QED
      BY <1>2, <2>1, <2>2, <2>3, SetPartRemembered
  <1>4. ASSUME NEW q \in Row, q.type = Part[r].type, SetPart([Part EXCEPT ![r] = q], TRUE)
        PROVE  Remembers'
    <2>1. [Part EXCEPT ![r] = q] \in [Rows -> Row]
      BY <1>1
    <2>2. \A x \in Rows : [Part EXCEPT ![r] = q][x].type = Part[x].type
      BY <1>1, <1>4
    <2>3. HasManager(Part) => HasManager([Part EXCEPT ![r] = q])
      BY <2>2, SameTypesStay
    <2> QED
      BY <1>2, <1>4, <2>1, <2>3, SetPartRemembered
  <1>5. ASSUME EditField(r) PROVE Remembers'
    <2>1. ASSUME NEW x \in Keyed(Part[r].rel), SetPart([Part EXCEPT ![r].rel = x], TRUE)
          PROVE  Remembers'
      <3> DEFINE q == [Part[r] EXCEPT !.rel = x]
      <3>1. x \in Numbers
        BY DEF Keyed
      <3>2. q \in Row /\ q.type = Part[r].type
        BY <1>1, <3>1 DEF Row
      <3>3. [Part EXCEPT ![r].rel = x] = [Part EXCEPT ![r] = q]
        BY <1>1
      <3> HIDE DEF q
      <3> QED
        BY <1>4, <2>1, <3>2, <3>3
    <2>2. ASSUME NEW x \in Keyed(Part[r].num), SetPart([Part EXCEPT ![r].num = x], TRUE)
          PROVE  Remembers'
      <3> DEFINE q == [Part[r] EXCEPT !.num = x]
      <3>1. x \in Numbers
        BY DEF Keyed
      <3>2. q \in Row /\ q.type = Part[r].type
        BY <1>1, <3>1 DEF Row
      <3>3. [Part EXCEPT ![r].num = x] = [Part EXCEPT ![r] = q]
        BY <1>1
      <3> HIDE DEF q
      <3> QED
        BY <1>4, <2>2, <3>2, <3>3
    <2> QED
      BY <1>5, <2>1, <2>2 DEF EditField
  <1>6. ASSUME NEW type \in NewTypes, Insert(r, type) PROVE Remembers'
    <2> DEFINE q == [Part[r] EXCEPT !.type = type]
               t == [Part EXCEPT ![r] = q]
    <2>1. type \in Types
      BY EditorConstants DEF Types
    <2>2. q \in Row
      BY <1>1, <2>1, RowFields
    <2>3. [Part EXCEPT ![r].type = type] = t
      BY <1>1
    <2>4. Part[r].type # Manager /\ (SetPart(Proposed(t, r), TRUE) \/ SetPart(t, FALSE))
      <3> HIDE DEF t
      <3> QED
        BY <1>6, <2>3 DEF Insert
    <2>5. t \in [Rows -> Row] /\ (HasManager(Part) => HasManager(t))
      BY <1>1, <2>2, <2>4, OtherRowStays
    <2> HIDE DEF t
    <2>6. /\ Proposed(t, r) \in [Rows -> Row]
          /\ \A x \in Rows : Proposed(t, r)[x].type = t[x].type
      BY <2>5, ProposedType
    <2>7. HasManager(Part) => HasManager(Proposed(t, r))
      BY <2>5, <2>6, SameTypesStay
    <2> QED
      BY <1>2, <2>4, <2>5, <2>6, <2>7, SetPartRemembered
  <1> QED
    BY <1>3, <1>5, <1>6

LEMMA SwitchRemembered ==
  ASSUME Inv, Remembers, Preview \/ EndPreview
  PROVE  Remembers'
  <1>1. cur \in Memory
    BY ShownTable
  <1>2. CASE Preview
    <2>1. /\ view = "ADV" /\ menu.open = "no" /\ view' = "MBR" /\ cur' = cur
          /\ UNCHANGED <<disk, orig, menu, spoilt>>
      BY <1>1, <1>2, InitializedMarks DEF Preview, InAdv, Table, Switch
    <2>2. ASSUME NeverRead PROVE NeverRead'
      BY <2>1, <2>2 DEF NeverRead
    <2> QED
      BY <2>1, <2>2, StaysUnsaved
  <1>3. CASE EndPreview
    <2>1. /\ preview /\ menu.open = "no" /\ view' = "ADV" /\ preview' = FALSE
          /\ cur' = Initialized(cur, "ADV") /\ UNCHANGED <<disk, orig, menu, spoilt>>
      BY <1>3 DEF EndPreview, Table, Switch
    <2>2. /\ cur'.mbr = cur.mbr /\ cur'.adv.signed = cur.adv.signed
          /\ HasManager(cur.adv.part) => HasManager(cur'.adv.part)
          /\ cur.adv = ZeroAdv => HasManager(cur'.adv.part)
      BY <1>1, <2>1, InitializedMarks
    <2>3. ASSUME NeverRead PROVE NeverRead'
      BY <2>1, <2>2, <2>3 DEF NeverRead, Marked
    <2> QED
      BY <2>1, <2>2, <2>3, StaysUnsaved
  <1> QED
    BY <1>2, <1>3

LEMMA SetMbrRemembered ==
  ASSUME Inv, Remembers, NEW m \in MbrSector, m.at = cur.mbr.at,
         m.magic => cur.mbr.magic, SetMbr(m)
  PROVE  Remembers'
  <1>1. /\ cur' = [cur EXCEPT !.mbr = m]
        /\ UNCHANGED <<disk, orig, view, preview, menu, spoilt>>
    BY DEF SetMbr
  <1>2. cur'.adv = cur.adv /\ cur'.mbr = m
    BY <1>1, ShownTable, MemoryParts, MemoryMarks
  <1>3. menu'.open # "no" => view' = "ADV"
    BY <1>1 DEF Remembers
  <1>4. ASSUME NeverRead PROVE NeverRead'
    BY <1>1, <1>2, <1>4 DEF NeverRead
  <1> QED
    BY <1>1, <1>2, <1>3, <1>4, StaysUnsaved
LEMMA MbrKeysRemembered ==
  ASSUME Inv, Remembers,
         \/ \E k \in Slots : Activate(k) \/ Deactivate(k)
         \/ Uninstall \/ InstallIpl
  PROVE  Remembers'
  <1>1. PICK m \in MbrSector : /\ m.at = cur.mbr.at /\ (m.magic => cur.mbr.magic)
                               /\ SetMbr(m)
    BY MbrKeysSet
  <1> QED
    BY <1>1, SetMbrRemembered

LEMMA UndoRemembered ==
  ASSUME Inv, Remembers, Undo
  PROVE  Remembers'
  <1> DEFINE data == IF view = "ADV" \/ orig.mbr.magic THEN orig
                     ELSE [cur EXCEPT !.mbr = orig.mbr]
             v == IF data.mbr.magic /\ data.adv.signed THEN "ADV" ELSE "MBR"
  <1>1. /\ menu.open = "no" /\ cur' = Initialized(data, v) /\ view' = v
        /\ UNCHANGED <<disk, orig, preview, menu, spoilt>>
    BY DEF Undo, Table
  <1>2. orig \in Memory /\ cur \in Memory /\ orig.mbr \in MbrSector
    BY MemoryParts DEF Inv, TypeOK
  <1>3. data \in Memory /\ data.mbr = orig.mbr
    <2>1. CASE view = "ADV" \/ orig.mbr.magic
      BY <1>2, <2>1
    <2>2. CASE ~(view = "ADV" \/ orig.mbr.magic)
      <3> DEFINE n == [cur EXCEPT !.mbr = orig.mbr]
      <3>1. n \in Memory /\ n.mbr = orig.mbr
        BY <1>2 DEF Memory
      <3>2. data = n
        BY <2>2
      <3> HIDE DEF n, data
      <3> QED
        BY <3>1, <3>2
    <2> QED
      BY <2>1, <2>2
  <1>4. cur'.mbr = orig.mbr
    BY <1>1, <1>3, InitializedMarks
  <1>5. ASSUME NeverRead, orig.mbr.magic PROVE NeverRead'
    <2>1. data = orig /\ orig.adv = ZeroAdv
      BY <1>5 DEF NeverRead
    <2>2. v = "MBR"
      BY <2>1, NewTableGetsManager
    <2> HIDE DEF data, v
    <2>3. cur' = orig
      BY <1>1, <1>3, <2>1, <2>2, InitializedMarks
    <2> QED
      BY <1>1, <2>1, <2>2, <2>3 DEF NeverRead
  <1> QED
    BY <1>1, <1>4, <1>5, StaysUnsaved

(* What is read from a disk, by its parts.                                 *)
LEMMA OpenedIs ==
  ASSUME NEW d, NEW readable
  PROVE  LET o == Opened(d, readable)
             found == d.mbr.magic /\ readable /\ DataAt(d) # NoData
         IN  /\ o.data.mbr = d.mbr
             /\ found => /\ o.view = "ADV"
                         /\ o.data.adv = [DataAt(d).adv EXCEPT !.part = Arranged(@)]
             /\ ~found => o.view = "MBR" /\ o.data.adv = ZeroAdv
  <1> DEFINE found == d.mbr.magic /\ readable /\ DataAt(d) # NoData
             adv == IF found THEN DataAt(d).adv ELSE ZeroAdv
             data == [mbr |-> d.mbr, adv |-> adv]
             v == IF found THEN "ADV" ELSE "MBR"
  <1>1. Opened(d, readable) = [view |-> v, data |-> Initialized(data, v)]
    BY DEF Opened
  <1>2. /\ Opened(d, readable).view = v
        /\ Opened(d, readable).data = Initialized(data, v)
    BY <1>1
  <1>3. Initialized(data, v).mbr = data.mbr
    BY DEF Initialized
  <1>4. CASE found
    <2>1. Initialized(data, v) = [data EXCEPT !.adv.part = Arranged(@)]
      BY <1>4 DEF Initialized
    <2>2. data.adv = DataAt(d).adv
      BY <1>4
    <2>3. Initialized(data, v).adv = [DataAt(d).adv EXCEPT !.part = Arranged(@)]
      BY <2>1, <2>2
    <2> QED
      BY <1>2, <1>3, <1>4, <2>3
  <1>5. CASE ~found
    <2>1. Initialized(data, v) = data /\ data.adv = ZeroAdv
      BY <1>5 DEF Initialized
    <2> QED
      BY <1>2, <1>3, <1>5, <2>1
  <1> QED
    BY <1>4, <1>5
LEMMA LeaveRemembered ==
  ASSUME Inv, Remembers, Quit \/ OtherDisk
  PROVE  Remembers'
  <1>1. PICK readable \in BOOLEAN : Leave(Opened(disk, readable))
    BY DEF Quit, OtherDisk
  <1> DEFINE found == disk.mbr.magic /\ readable /\ DataAt(disk) # NoData
  <1>2. /\ menu.open = "no" /\ cur' = Opened(disk, readable).data /\ orig' = cur'
        /\ view' = Opened(disk, readable).view /\ preview' = FALSE
        /\ UNCHANGED <<disk, menu, spoilt>>
    BY <1>1 DEF Leave, Showing, Table
  <1>3. /\ cur'.mbr = disk.mbr
        /\ found => cur'.adv = [DataAt(disk).adv EXCEPT !.part = Arranged(@)]
        /\ ~found => view' = "MBR" /\ cur'.adv = ZeroAdv
    BY <1>2, OpenedIs
  <1>4. CASE found
    <2>1. Reads(disk', orig')
      BY <1>2, <1>3, <1>4 DEF Reads
    <2> QED
      BY <1>2, <1>3, <2>1 DEF Remembers
  <1>5. CASE ~found
    <2> HIDE DEF found
    <2>1. view' = "MBR" /\ cur'.adv = ZeroAdv
      BY <1>3, <1>5
    <2>2. NeverRead'
      BY <1>2, <2>1 DEF NeverRead
    <2> QED
      BY <1>2, <1>3, <2>2 DEF Remembers
  <1> QED
    BY <1>4, <1>5

LEMMA MenuKeyRemembered ==
  ASSUME Inv, Remembers, MenuKey
  PROVE  Remembers'
  <1>1. PICK adv \in Adv : /\ adv.signed = cur.adv.signed
                           /\ \A x \in Rows : adv.part[x].type = cur.adv.part[x].type
                           /\ Key(adv)
    BY MenuKeyEdits DEF EditsMenu
  <1>2. /\ menu.open # "no" /\ cur' = [cur EXCEPT !.adv = adv]
        /\ UNCHANGED <<disk, orig, view, preview, menu, spoilt>>
    BY <1>1 DEF Key, Table
  <1>3. view = "ADV"
    BY <1>2 DEF Remembers
  <1>4. cur'.adv = adv /\ cur'.mbr = cur.mbr
    BY <1>2, ShownTable, MemoryParts
  <1>5. Stays(cur.adv, adv)
    BY <1>1, SameTypesStay DEF Stays
  <1> QED
    BY <1>2, <1>3, <1>4, <1>5, EditsRemembered

LEMMA OpenRemembered ==
  ASSUME Inv, Remembers, NEW r \in Rows, OpenBySpace(r) \/ OpenByEnter(r)
  PROVE  Remembers'
  <1>1. cur.adv \in Adv /\ UniqueTags(cur.adv.part)
    BY ShownTable DEF Part
  <1>2. CASE OpenBySpace(r)
    <2> DEFINE adv == ItemFor(cur.adv, r)
    <2>1. /\ view = "ADV" /\ cur' = [cur EXCEPT !.adv = adv]
          /\ menu' = [open |-> "space", held |-> << >>]
          /\ UNCHANGED <<disk, orig, view, preview, spoilt>>
      BY <1>2 DEF OpenBySpace, InAdv, MenuOpened
    <2>2. /\ adv \in Adv /\ adv.signed = cur.adv.signed
          /\ \A x \in Rows : adv.part[x].type = cur.adv.part[x].type
      BY <1>1, ItemForKeeps
    <2> HIDE DEF adv
    <2>3. cur'.adv = adv /\ cur'.mbr = cur.mbr
      BY <2>1, <2>2, ShownTable, MemoryParts
    <2>4. Stays(cur.adv, adv)
      BY <2>2, SameTypesStay DEF Stays
    <2> QED
      BY <2>1, <2>3, <2>4, EditsRemembered
  <1>3. CASE OpenByEnter(r)
    <2>1. PICK adv \in OptionsOf(cur.adv) : MenuOpened("enter", adv, Part)
      BY <1>3 DEF OpenByEnter
    <2>2. /\ view = "ADV" /\ cur' = [cur EXCEPT !.adv = adv]
          /\ menu'.held = cur.adv.part
          /\ UNCHANGED <<disk, orig, view, preview, spoilt>>
      BY <1>3, <2>1 DEF OpenByEnter, InAdv, MenuOpened, Part
    <2>3. adv \in Adv /\ adv.part = cur.adv.part /\ adv.signed = cur.adv.signed
      BY <1>1, OptionsType
    <2>4. cur'.adv = adv /\ cur'.mbr = cur.mbr
      BY <2>2, <2>3, ShownTable, MemoryParts
    <2>5. Stays(cur.adv, adv)
      BY <2>3 DEF Stays
    <2> QED
      BY <2>2, <2>4, <2>5, EditsRemembered
  <1> QED
    BY <1>2, <1>3

LEMMA CleanTagsType ==
  ASSUME NEW adv \in Adv
  PROVE  /\ CleanTags(adv) \in [Rows -> Row]
         /\ \A r \in Rows : CleanTags(adv)[r].type = adv.part[r].type
  <1> DEFINE tag(r) == IF \E a \in Items : adv.menu[a].tag = adv.part[r].tag
                       THEN adv.part[r].tag ELSE 0
             clean == [r \in Rows |-> [adv.part[r] EXCEPT !.tag = tag(r)]]
  <1>1. CleanTags(adv) = clean
    BY DEF CleanTags
  <1>2. ASSUME NEW r \in Rows
        PROVE  /\ [adv.part[r] EXCEPT !.tag = tag(r)] \in Row
               /\ [adv.part[r] EXCEPT !.tag = tag(r)].type = adv.part[r].type
    <2>1. adv.part[r] \in Row
      BY AdvParts
    <2>2. tag(r) \in Nat
      BY <2>1, RowFields
    <2> HIDE DEF tag
    <2> QED
      BY <2>1, <2>2, RowFields DEF Row
  <1> HIDE DEF tag
  <1> QED
    BY <1>1, <1>2
LEMMA CloseMenuRemembered ==
  ASSUME Inv, Remembers, CloseMenu
  PROVE  Remembers'
  <1> DEFINE clean == CleanTags(cur.adv)
             p == IF menu.open = "enter" THEN menu.held ELSE Arranged(clean)
  <1>1. cur \in Memory /\ cur.adv \in Adv
    BY ShownTable
  <1>2. /\ cur' = [cur EXCEPT !.adv.part = p] /\ menu'.open = "no" /\ menu.open # "no"
        /\ UNCHANGED <<disk, orig, view, preview, spoilt>>
    BY DEF CloseMenu, Closed, Table
  <1>3. clean \in [Rows -> Row] /\ (HasManager(cur.adv.part) => HasManager(clean))
    BY <1>1, CleanTagsType, SameTypesStay
  <1> HIDE DEF clean
  <1>4. Arranged(clean) \in [Rows -> Row]
        /\ (HasManager(cur.adv.part) => HasManager(Arranged(clean)))
    BY <1>3, ArrangedTable, ArrangedManager
  <1>5. p \in [Rows -> Row]
    BY <1>4, ShownTable
  <1>6. view = "ADV"
    BY <1>2 DEF Remembers
  <1>7. menu.open = "enter" => p = menu.held
    OBVIOUS
  <1>8. menu.open # "enter" => p = Arranged(clean)
    OBVIOUS
  <1> HIDE DEF p
  <1>9. /\ cur'.adv.part = p /\ cur'.mbr = cur.mbr
        /\ cur'.adv.signed = cur.adv.signed
    BY <1>1, <1>2, <1>5, MemoryParts
  <1>10. ASSUME NeverRead PROVE Marked(cur'.adv)
    <2>1. CASE menu.open = "enter"
      BY <1>7, <1>9, <1>10, <2>1 DEF NeverRead, Marked
    <2>2. CASE menu.open # "enter"
      BY <1>4, <1>6, <1>8, <1>9, <1>10, <2>2 DEF NeverRead, Marked
    <2> QED
      BY <2>1, <2>2
  <1>11. ASSUME NeverRead PROVE NeverRead'
    BY <1>2, <1>10, <1>11 DEF NeverRead, Marked
  <1> QED
    BY <1>2, <1>9, <1>11, StaysUnsaved

LEMMA InstallRemembered ==
  ASSUME Inv, Remembers, Install
  PROVE  Remembers'
  <1>1. /\ cur'.adv.signed = TRUE
        /\ cur'.mbr.at = cur.mbr.at /\ cur'.mbr.magic = cur.mbr.magic
        /\ UNCHANGED <<disk, orig, preview, spoilt>>
        /\ menu.open = "no" /\ view = "MBR"
        /\ \/ UNCHANGED <<view, menu>>
           \/ view' = "ADV" /\ UNCHANGED menu
           \/ view' = "ADV" /\ menu' = [open |-> "space", held |-> << >>]
    BY InstallSteps DEF Install, InMbr, Table
  <1>2. (menu'.open # "no" => view' = "ADV") /\ menu'.open # "enter"
    BY <1>1
  <1>3. ASSUME NeverRead PROVE NeverRead'
    BY <1>1, <1>2, <1>3 DEF NeverRead, Marked
  <1> QED
    BY <1>1, <1>2, <1>3, StaysUnsaved
LEMMA UninstallRemembered ==
  ASSUME Inv, Remembers, UninstallAdvanced
  PROVE  Remembers'
  <1>1. /\ view = "ADV" /\ menu.open = "no" /\ cur \in Memory
        /\ UNCHANGED <<disk, orig, preview, menu, spoilt>>
    BY UninstallSteps, ShownTable DEF UninstallAdvanced, InAdv, Table
  <1>2. CASE cur' = Initialized(cur, view) /\ UNCHANGED view
    <2>1. cur'.mbr = cur.mbr /\ Stays(cur.adv, cur'.adv)
      BY <1>1, <1>2, InitializedMarks DEF Stays
    <2> QED
      BY <1>1, <1>2, <2>1, EditsRemembered
  <1>3. ASSUME NEW m \in MbrSector, m.at = cur.mbr.at \/ m.magic = FALSE,
               m.magic => cur.mbr.magic, view' = "MBR", cur' = [cur EXCEPT !.mbr = m]
        PROVE  Remembers'
    <2>1. cur'.adv = cur.adv /\ cur'.mbr = m
      BY <1>1, <1>3, MemoryParts
    <2>2. ASSUME NeverRead PROVE NeverRead'
      BY <1>1, <1>3, <2>1, <2>2 DEF NeverRead
    <2> QED
      BY <1>1, <1>3, <2>1, <2>2, StaysUnsaved
  <1> QED
    BY <1>2, <1>3, UninstallSteps

LEMMA SaveAdvRemembered ==
  ASSUME Inv, Remembers, SaveAdv
  PROVE  Remembers'
  <1> DEFINE at == Part[ManagerRow(Part)].rel
             mbr == AdvancedMbr(AllHidden)
             part == IF cur.adv.ignore THEN Compacted(Part) ELSE Part
             adv == [cur.adv EXCEPT !.part = part, !.signed = TRUE]
             next == [cur.adv EXCEPT !.signed = TRUE, !.part = Arranged(@)]
  <1>1. /\ Part \in [Rows -> Row] /\ UniqueTags(Part) /\ cur.adv \in Adv
        /\ ValidTable(Part) /\ ManagerRow(Part) # 0 /\ menu.open = "no"
    BY ShownTable DEF SaveAdv, InAdv, Table, Valid, Part
  <1>2. PICK written \in 0 .. 3 :
          /\ Fails(written = 3)
          /\ disk' = [mbr |-> IF written = 3 THEN mbr ELSE disk.mbr,
                      data |-> IF written = 0 THEN disk.data
                               ELSE Overwritten(disk.data, mbr.at,
                                      Stored(adv, written > 1 \/ HasCode(mbr.at)))]
    BY DEF SaveAdv
  <1>3. /\ cur' = [mbr |-> mbr, adv |-> next] /\ orig' = cur'
        /\ UNCHANGED <<view, preview, menu>>
    BY DEF SaveAdv
  <1>4. at \in Places /\ at \in Numbers /\ Part[ManagerRow(Part)].num >= AdvSize
    BY <1>1, ManagerHasPlace
  <1>5. mbr.at = at
    BY DEF AdvancedMbr
  <1>6. part \in {Part, Compacted(Part)}
    OBVIOUS
  <1>7. part \in [Rows -> Row] /\ UniqueTags(part)
    <2> HIDE DEF part
    <2> QED
      BY <1>1, <1>6, SavedPart
  <1> HIDE DEF part, mbr
  <1>8. /\ adv \in Adv /\ adv.part = part /\ adv.signed = TRUE
        /\ adv.menu = cur.adv.menu /\ adv.ignore = cur.adv.ignore
    BY <1>1, <1>7 DEF Adv
  <1>9. Arranged(Part) \in [Rows -> Row] /\ Arranged(part) \in [Rows -> Row]
    BY <1>1, <1>7, ArrangedTable
  <1>10. /\ next \in Adv /\ next.part = Arranged(Part) /\ next.signed = TRUE
         /\ next.menu = cur.adv.menu /\ next.ignore = cur.adv.ignore
    BY <1>1, <1>9 DEF Adv, Part
  <1> HIDE DEF adv, next
  <1> DEFINE shown == [adv EXCEPT !.part = Arranged(part)]
  <1>11. /\ shown \in Adv /\ shown.part = Arranged(part) /\ shown.signed = TRUE
         /\ shown.menu = cur.adv.menu /\ shown.ignore = cur.adv.ignore
    BY <1>8, <1>9 DEF Adv
  <1>12. shown = [adv EXCEPT !.part = Arranged(@)]
    BY <1>8
  <1> HIDE DEF shown
  <1>13. \A r \in Rows : Seen(shown.part[r]) = Seen(next.part[r])
    BY <1>1, <1>4, <1>6, <1>10, <1>11, SavedShown
  <1>14. OnScreen(shown) = OnScreen(next)
    BY <1>10, <1>11, <1>13, ShownAlike
  <1>15. spoilt' \/ written = 3
    BY <1>2 DEF Fails
  <1>16. CASE spoilt'
    BY <1>1, <1>3, <1>16 DEF Remembers
  <1>17. CASE written = 3
    <2>1. disk.data \in [Places -> Data] /\ DataApart(disk.data)
      BY DEF Inv, TypeOK, TagsApart, DataApart, Disk
    <2> DEFINE code == written > 1 \/ HasCode(mbr.at)
    <2>2. code \in BOOLEAN /\ code
      BY <1>17
    <2>3. disk' = [mbr |-> mbr, data |-> Overwritten(disk.data, at, Stored(adv, code))]
      BY <1>2, <1>5, <1>17
    <2> HIDE DEF code
    <2>4. disk' = [mbr |-> mbr, data |-> Overwritten(disk.data, at, Stored(adv, TRUE))]
      BY <2>2, <2>3
    <2>5. Overwritten(disk.data, at, Stored(adv, TRUE))[at] = Stored(adv, TRUE)
      BY <1>4, <1>7, <1>8, <2>1, StoredData
    <2>6. DataAt(disk') = Stored(adv, TRUE)
      BY <1>4, <1>5, <2>4, <2>5 DEF DataAt
    <2>7. DataAt(disk') # NoData /\ DataAt(disk').adv = adv
      BY <2>6 DEF Stored, NoData
    <2>8. orig'.adv = next /\ orig'.mbr = mbr /\ disk'.mbr = mbr
      BY <1>3, <2>4
    <2>9. Reads(disk', orig')
      BY <1>12, <1>14, <2>7, <2>8 DEF Reads
    <2> QED
      BY <1>1, <1>3, <2>8, <2>9 DEF Remembers
  <1> QED
    BY <1>15, <1>16, <1>17

LEMMA SaveMbrRemembered ==
  ASSUME Inv, Remembers, SaveMbr
  PROVE  Remembers'
  <1>1. PICK written \in BOOLEAN :
          /\ Fails(written)
          /\ disk' = IF written THEN [disk EXCEPT !.mbr = cur.mbr] ELSE disk
    BY DEF SaveMbr
  <1>2. /\ menu.open = "no" /\ orig' = [orig EXCEPT !.mbr = cur.mbr]
        /\ UNCHANGED <<cur, view, preview, menu>>
    BY DEF SaveMbr, InMbr, Table
  <1>3. orig \in Memory /\ cur.mbr \in MbrSector /\ disk \in Disk
    BY ShownTable DEF Inv, TypeOK
  <1>4. orig'.mbr = cur.mbr /\ orig'.adv = orig.adv
    BY <1>2, <1>3, MemoryParts
  <1>5. /\ menu'.open # "no" => view' = "ADV"
        /\ cur'.mbr.magic => orig'.mbr.magic /\ cur'.mbr.at = orig'.mbr.at
    BY <1>2, <1>4
  <1>6. spoilt' \/ (written /\ ~spoilt)
    BY <1>1 DEF Fails
  <1>7. CASE spoilt'
    BY <1>5, <1>7 DEF Remembers
  <1>8. CASE written /\ ~spoilt
    <2>1. disk'.mbr = cur.mbr /\ disk'.data = disk.data
      BY <1>1, <1>3, <1>8 DEF Disk
    <2>2. ASSUME orig'.mbr.magic PROVE Reads(disk', orig') \/ NeverRead'
      <3>1. /\ orig.mbr.magic /\ cur.mbr.at = orig.mbr.at /\ orig.mbr = disk.mbr
            /\ Reads(disk, orig) \/ NeverRead
        BY <1>4, <1>8, <2>2 DEF Remembers
      <3>2. DataAt(disk') = DataAt(disk)
        BY <2>1, <3>1 DEF DataAt
      <3>3. Reads(disk, orig) => Reads(disk', orig')
        BY <1>4, <3>2 DEF Reads
      <3>4. NeverRead => NeverRead'
        BY <1>2, <1>4 DEF NeverRead
      <3> QED
        BY <3>1, <3>3, <3>4
    <2> QED
      BY <1>4, <1>5, <2>1, <2>2 DEF Remembers
  <1> QED
    BY <1>6, <1>7, <1>8

LEMMA ReadRemembered ==
  ASSUME NEW readable \in BOOLEAN,
         cur = Opened(disk, readable).data, orig = cur,
         view = Opened(disk, readable).view, menu.open = "no", preview = FALSE
  PROVE  Remembers
  <1> DEFINE found == disk.mbr.magic /\ readable /\ DataAt(disk) # NoData
  <1>1. /\ cur.mbr = disk.mbr
        /\ found => cur.adv = [DataAt(disk).adv EXCEPT !.part = Arranged(@)]
        /\ ~found => view = "MBR" /\ cur.adv = ZeroAdv
    BY OpenedIs
  <1>2. CASE found
    <2>1. Reads(disk, orig)
      BY <1>1, <1>2 DEF Reads
    <2> QED
      BY <1>1, <2>1 DEF Remembers
  <1>3. CASE ~found
    <2> HIDE DEF found
    <2>1. view = "MBR" /\ cur.adv = ZeroAdv
      BY <1>1, <1>3
    <2>2. NeverRead
      BY <2>1 DEF NeverRead
    <2> QED
      BY <1>1, <2>2 DEF Remembers
  <1> QED
    BY <1>2, <1>3
LEMMA InitRemembers ==
  Init => Remembers
  <1> SUFFICES ASSUME Init PROVE Remembers
    OBVIOUS
  <1>1. /\ cur = Opened(disk, TRUE).data /\ orig = cur
        /\ view = Opened(disk, TRUE).view /\ preview = FALSE /\ menu.open = "no"
    BY DEF Init, Closed
  <1> QED
    BY <1>1, ReadRemembered

LEMMA NextRemembers ==
  ASSUME Inv, Remembers, Next
  PROVE  Remembers'
  <1>1. CASE \E r \in Rows : \/ Delete(r) \/ EditField(r)
                             \/ OpenBySpace(r) \/ OpenByEnter(r)
                             \/ \E type \in NewTypes : Insert(r, type)
    BY <1>1, RowEditsRemembered, OpenRemembered
  <1>2. CASE \/ \E k \in Slots : Activate(k) \/ Deactivate(k)
             \/ Uninstall \/ InstallIpl
    BY <1>2, MbrKeysRemembered
  <1>3. CASE Preview \/ EndPreview
    BY <1>3, SwitchRemembered
  <1>4. CASE Undo \/ SaveAdv \/ SaveMbr \/ Quit \/ OtherDisk
    BY <1>4, UndoRemembered, SaveAdvRemembered, SaveMbrRemembered, LeaveRemembered
  <1>5. CASE MenuKey \/ CloseMenu \/ Install \/ UninstallAdvanced
    BY <1>5, MenuKeyRemembered, CloseMenuRemembered, InstallRemembered,
       UninstallRemembered
  <1> QED
    BY <1>1, <1>2, <1>3, <1>4, <1>5 DEF Next
LEMMA AlwaysRemembers ==
  Spec => []Remembers
  <1>1. ASSUME Remembers, UNCHANGED vars
        PROVE  Remembers'
    BY <1>1 DEF vars, Remembers, Reads, NeverRead, DataAt
  <1>2. Inv /\ Remembers /\ [Next]_vars => Remembers'
    BY <1>1, NextRemembers
  <1> QED
    BY <1>2, InitRemembers, InvHolds, PTL DEF Spec

LEMMA LeavingStep ==
  ASSUME Inv, Remembers, Quit \/ OtherDisk, left' = left
  PROVE  spoilt \/ SameNextTime
  <1>1. /\ ~Changed /\ cur' = Opened(disk, TRUE).data
        /\ view' = Opened(disk, TRUE).view
    <2>1. ~Step
      BY ShownTable DEF Step
    <2>2. Leave(Opened(disk, TRUE))
      BY <2>1 DEF Quit, OtherDisk
    <2> QED
      BY <2>2 DEF Leave, Showing
  <1>2. SUFFICES ASSUME ~spoilt PROVE SameNextTime
    OBVIOUS
  <1>3. orig.mbr = disk.mbr /\ (orig.mbr.magic => Reads(disk, orig) \/ NeverRead)
    BY <1>2 DEF Remembers
  <1>4. cur.mbr = orig.mbr /\ (view = "ADV" => cur = orig)
    BY <1>1 DEF Changed
  <1>5. cur'.mbr = cur.mbr
    BY <1>1, <1>3, <1>4, OpenedIs
  <1>6. ASSUME view = "ADV", cur.mbr.magic
        PROVE  view' = "ADV" /\ OnScreen(cur'.adv) = OnScreen(cur.adv)
    <2>1. ~NeverRead
      BY <1>4, <1>6, NewTableGetsManager DEF NeverRead, Marked
    <2>2. Reads(disk, orig)
      BY <1>3, <1>4, <1>6, <2>1
    <2>3. /\ view' = "ADV"
          /\ cur'.adv = [DataAt(disk).adv EXCEPT !.part = Arranged(@)]
      BY <1>1, <1>3, <1>4, <1>6, <2>2, OpenedIs DEF Reads
    <2> QED
      BY <1>4, <1>6, <2>2, <2>3 DEF Reads
  <1> QED
    BY <1>5, <1>6 DEF SameNextTime

(* Who leaves a table that does not count as changed finds it on the disk  *)
(* the next time, as it was on the screen: whatever was edited, packed,    *)
(* unpacked, undone, installed and removed before, and whether the disk    *)
(* could be read or the table is one that was never read at all.           *)
THEOREM LeavingKeeps == Spec => LeavingLosesNothing
  <1> DEFINE A == (Quit \/ OtherDisk) /\ left' = left => spoilt \/ SameNextTime
  <1>1. Inv /\ Remembers /\ [Next]_vars => [A]_vars
    BY LeavingStep
  <1>2. Spec => [][A]_vars
    <2> HIDE DEF A
    <2> QED
      BY <1>1, InvHolds, AlwaysRemembers, PTL DEF Spec
  <1> QED
    BY <1>2, PTL DEF LeavingLosesNothing
===============================================================================
