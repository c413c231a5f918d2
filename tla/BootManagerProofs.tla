--------------------------- MODULE BootManagerProofs ---------------------------
(***************************************************************************)
(* Proofs about the boot manager.  Most of the module is about operators:  *)
(* what sorting, adjusting and compacting do to a table, what an import    *)
(* does, and which entries MAKE_PART_TAB makes of the rows it shows.  The  *)
(* code works in loops, so each of these operators is a recursive function *)
(* or a fold; a lemma says what holds after each turn, and the last turn   *)
(* gives what the operator returns.                                        *)
(*                                                                         *)
(* The invariants:                                                         *)
(*   Base       types, sound tables (each has a manager with room for its  *)
(*              files, its used rows are on the disk), a sound MBR         *)
(*   Remembers  adv_act_menu is the item that was entered last             *)
(*   InLine     the rows in use follow each other without a gap            *)
(*   Neat       the tables are in order while nothing is to be reviewed    *)
(*   Covered    the MBR covers the partitions that live, and they are      *)
(*              apart from each other                                      *)
(***************************************************************************)
EXTENDS BootManager, FiniteSetTheorems, TLAPS

(* Quotient and remainder of any integer: sums that wrap.                  *)
LEMMA ModRange ==
  ASSUME NEW t \in Nat \ {0}, NEW n \in Int
  PROVE  /\ n = t * (n \div t) + (n % t)
         /\ n \div t \in Int /\ n % t \in 0 .. t - 1
  OBVIOUS

(* A set of natural numbers has a least member.                            *)
LEMMA LeastExists ==
  ASSUME NEW S, S \subseteq Nat, S # {}
  PROVE  \E x \in S : \A y \in S : x <= y
  <1>1. \E x \in S : \A y \in S : ~(<<y, x>> \in OpToRel(<, Nat))
    BY WFMin, NatLessThanWellFounded
  <1>2. \A x, y \in S : ~(<<y, x>> \in OpToRel(<, Nat)) => x <= y
    BY DEF OpToRel
  <1> QED
    BY <1>1, <1>2

(* A bounded one has a greatest member.                                    *)
LEMMA GreatestExists ==
  ASSUME NEW S, S \subseteq Nat, S # {}, NEW n \in Nat, \A x \in S : x <= n
  PROVE  \E x \in S : \A y \in S : x >= y
  <1> DEFINE T == {n - x : x \in S}
  <1>0. \A x \in S : x \in Nat /\ x <= n /\ n - x \in Nat
    OBVIOUS
  <1>1. T \subseteq Nat /\ T # {}
    BY <1>0
  <1>2. PICK t \in T : \A u \in T : t <= u
    <2> HIDE DEF T
    <2> QED
      BY <1>1, LeastExists
  <1>3. PICK x \in S : t = n - x
    OBVIOUS
  <1>4. ASSUME NEW y \in S PROVE x >= y
    <2>1. t <= n - y
      BY <1>2
    <2> QED
      BY <1>0, <1>3, <2>1
  <1> QED
    BY <1>4

(* A loop from 1 to n makes a value of another, f being its body: h exists *)
(* and has values of that type.                                            *)
IsLoop(h, b, n, f) ==
  \A i \in 0 .. n : h[i] = IF i = 0 THEN b ELSE f[<<h[i - 1], i>>]

(* A loop has its values after each turn ...                               *)
LEMMA LoopExists ==
  ASSUME NEW S, NEW b \in S, NEW n \in Nat, NEW f \in [S \X (1 .. n) -> S]
  PROVE  \E h \in [0 .. n -> S] : IsLoop(h, b, n, f)
  <1> DEFINE Upto(h, k) ==
               \A i \in 0 .. k : h[i] = IF i = 0 THEN b ELSE f[<<h[i - 1], i>>]
             Missing == {k \in 0 .. n : ~ \E h \in [0 .. k -> S] : Upto(h, k)}
  <1>1. SUFFICES ASSUME Missing # {} PROVE FALSE
    <2>1. n \in 0 .. n
      OBVIOUS
    <2>2. (\E h \in [0 .. n -> S] : Upto(h, n)) \/ n \in Missing
      BY <2>1
    <2> QED
      BY <2>2 DEF IsLoop
  <1>2. PICK m \in Missing : \A y \in Missing : m <= y
    <2>1. Missing \subseteq Nat
      OBVIOUS
    <2> HIDE DEF Missing
    <2> QED
      BY <1>1, <2>1, LeastExists
  <1>3. m \in 0 .. n /\ ~ \E h \in [0 .. m -> S] : Upto(h, m)
    OBVIOUS
  <1>4. CASE m = 0
    <2> DEFINE h == [i \in 0 .. 0 |-> b]
    <2>1. h \in [0 .. m -> S] /\ Upto(h, m)
      BY <1>4
    <2> QED
      BY <1>3, <2>1
  <1>5. CASE m # 0
    <2>1. m \in 1 .. n /\ m - 1 \in 0 .. n
      BY <1>3, <1>5
    <2>2. m - 1 \notin Missing
      <3> HIDE DEF Missing
      <3> QED
        BY <1>2, <2>1
    <2>3. PICK h \in [0 .. m - 1 -> S] : Upto(h, m - 1)
      BY <2>1, <2>2
    <2> DEFINE last == f[<<h[m - 1], m>>]
               g == [i \in 0 .. m |-> IF i = m THEN last ELSE h[i]]
    <2>4. h[m - 1] \in S
      BY <2>1, <2>3
    <2>5. last \in S
      BY <2>1, <2>4
    <2>6. g \in [0 .. m -> S]
      BY <2>1, <2>3, <2>5
    <2>7. ASSUME NEW i \in 0 .. m
          PROVE  g[i] = IF i = 0 THEN b ELSE f[<<g[i - 1], i>>]
      <3>1. CASE i = m
        <4>1. m - 1 \in 0 .. m /\ m - 1 # m /\ m # 0
          BY <2>1
        <4>2. g[m - 1] = h[m - 1] /\ g[m] = last
          BY <4>1
        <4> QED
          BY <3>1, <4>1, <4>2
      <3>2. CASE i # m
        <4>1. i \in 0 .. m - 1 /\ g[i] = h[i] /\ (i # 0 => i - 1 \in 0 .. m /\ i - 1 # m)
          BY <2>1, <3>2
        <4>2. i # 0 => g[i - 1] = h[i - 1]
          BY <4>1
        <4> QED
          BY <2>3, <4>1, <4>2
      <3> QED
        BY <3>1, <3>2
    <2> QED
      BY <1>3, <2>6, <2>7
  <1> QED
    BY <1>4, <1>5

(* ... and what is of a type stays of that type.                           *)
LEMMA LoopType ==
  ASSUME NEW S, NEW n \in Nat, NEW h, h[0] \in S,
         \A i \in 1 .. n : h[i - 1] \in S => h[i] \in S
  PROVE  \A i \in 0 .. n : h[i] \in S
  <1> DEFINE Bad == {k \in 0 .. n : h[k] \notin S}
  <1>1. SUFFICES ASSUME Bad # {} PROVE FALSE
    OBVIOUS
  <1>2. PICK m \in Bad : \A y \in Bad : m <= y
    <2>1. Bad \subseteq Nat
      OBVIOUS
    <2> HIDE DEF Bad
    <2> QED
      BY <1>1, <2>1, LeastExists
  <1>3. m \in 1 .. n /\ m - 1 \in 0 .. n /\ ~(m <= m - 1)
    <2>1. m \in 0 .. n /\ m # 0
      OBVIOUS
    <2> QED
      BY <2>1
  <1>4. m - 1 \notin Bad
    <2> HIDE DEF Bad
    <2> QED
      BY <1>2, <1>3
  <1> QED
    BY <1>3, <1>4

(* What holds at first and is kept by each turn of a loop holds all along. *)
LEMMA Turns ==
  ASSUME NEW n \in Nat, NEW G, 0 \in G,
         \A i \in 1 .. n : i - 1 \in G => i \in G
  PROVE  \A i \in 0 .. n : i \in G
  <1> DEFINE h == [i \in 0 .. n |-> IF i \in G THEN 1 ELSE 0]
             S == {1}
  <1>1. \A i \in 0 .. n : h[i] \in S <=> i \in G
    OBVIOUS
  <1>2. h[0] \in S
    BY <1>1
  <1>3. ASSUME NEW i \in 1 .. n, h[i - 1] \in S PROVE h[i] \in S
    <2>1. i - 1 \in 0 .. n /\ i \in 0 .. n
      OBVIOUS
    <2> HIDE DEF h, S
    <2> QED
      BY <1>1, <1>3, <2>1
  <1>4. \A i \in 0 .. n : h[i] \in S
    <2> HIDE DEF h, S
    <2> QED
      BY <1>2, <1>3, LoopType
  <1> QED
    BY <1>1, <1>4

-------------------------------------------------------------------------------
(* Sorting.  If every two are in order, a ranked sequence has the elements *)
(* of the sequence, each in one place.                                     *)
IsOrder(n, ahead) ==
  /\ ahead \in [1 .. n -> SUBSET (1 .. n)]
  /\ \A i \in 1 .. n : i \notin ahead[i]
  /\ \A i, j \in 1 .. n : i # j => i \in ahead[j] \/ j \in ahead[i]
  /\ \A i, j \in 1 .. n : i \in ahead[j] => ahead[i] \subseteq ahead[j]

IsPermutation(p, n) ==
  /\ p \in [1 .. n -> 1 .. n]
  /\ \A i, j \in 1 .. n : i # j => p[i] # p[j]
  /\ \A j \in 1 .. n : \E i \in 1 .. n : p[i] = j

(* Who is told apart among so many is everyone.                            *)
LEMMA Everyone ==
  ASSUME NEW n \in Nat, NEW p \in [1 .. n -> 1 .. n],
         \A i, j \in 1 .. n : i # j => p[i] # p[j]
  PROVE  IsPermutation(p, n)
  <1>1. p \in Injection(1 .. n, 1 .. n)
    BY DEF Injection, IsInjective
  <1>2. IsFiniteSet(1 .. n)
    BY FS_Interval
  <1>3. p \in Surjection(1 .. n, 1 .. n)
    BY <1>1, <1>2, FS_Injection
  <1> QED
    BY <1>3 DEF Surjection, IsPermutation

(* p says where the elements of the ranked sequence come from.             *)
Ranks(p, n, seq, ahead) ==
  /\ IsPermutation(p, n)
  /\ \A i, j \in 1 .. n : i < j => p[i] \in ahead[p[j]]
  /\ Ranked(seq, ahead) = [k \in 1 .. n |-> seq[p[k]]]
(* Ranking by such an order permutes the sequence.                         *)
LEMMA RankedPermutes ==
  ASSUME NEW n \in Nat, NEW ahead, IsOrder(n, ahead), NEW seq,
         DOMAIN seq = 1 .. n
  PROVE  \E p : Ranks(p, n, seq, ahead)
  <1> DEFINE R == 1 .. n
             c == [i \in R |-> Cardinality(ahead[i]) + 1]
             at(k) == CHOOSE i \in R : c[i] = k
             places == {<<i, Cardinality(ahead[i]) + 1>> : i \in R}
             p == [k \in R |-> at(k)]
  <1>1. IsFiniteSet(R) /\ Cardinality(R) = n
    BY FS_Interval
  <1>2. ASSUME NEW i \in R PROVE IsFiniteSet(ahead[i]) /\ c[i] \in 1 .. n
    <2>1. ahead[i] \in SUBSET R /\ i \in R /\ i \notin ahead[i]
      BY DEF IsOrder
    <2> HIDE DEF R
    <2>2. IsFiniteSet(ahead[i]) /\ Cardinality(ahead[i]) <= n
          /\ (n = Cardinality(ahead[i]) => R = ahead[i])
      BY <1>1, <2>1, FS_Subset
    <2>3. Cardinality(ahead[i]) \in Nat
      BY <2>2, FS_CardinalityType
    <2>4. Cardinality(ahead[i]) # n
      BY <2>1, <2>2
    <2>5. Cardinality(ahead[i]) + 1 \in 1 .. n
      BY <2>2, <2>3, <2>4
    <2> QED
      BY <2>2, <2>5
  <1>3. ASSUME NEW i \in R, NEW j \in R, i \in ahead[j] PROVE c[i] < c[j]
    <2>1. ahead[i] \in SUBSET ahead[j] /\ i \notin ahead[i]
      BY <1>3 DEF IsOrder
    <2>2. IsFiniteSet(ahead[j]) /\ IsFiniteSet(ahead[i])
      BY <1>2
    <2>3. Cardinality(ahead[i]) <= Cardinality(ahead[j])
          /\ (Cardinality(ahead[j]) = Cardinality(ahead[i]) => ahead[j] = ahead[i])
      BY <2>1, <2>2, FS_Subset
    <2>4. Cardinality(ahead[i]) \in Nat /\ Cardinality(ahead[j]) \in Nat
      BY <2>2, FS_CardinalityType
    <2>5. Cardinality(ahead[i]) # Cardinality(ahead[j])
      BY <1>3, <2>1, <2>3
    <2> QED
      BY <2>3, <2>4, <2>5
  <1>4. ASSUME NEW i \in R, NEW j \in R, i # j PROVE c[i] # c[j]
    <2>1. i \in ahead[j] \/ j \in ahead[i]
      BY <1>4 DEF IsOrder
    <2>2. c[i] \in Nat /\ c[j] \in Nat
      BY <1>2
    <2> HIDE DEF c
    <2> QED
      BY <1>3, <2>1, <2>2
  <1>5. IsPermutation(c, n)
    <2>1. c \in [1 .. n -> 1 .. n]
      BY <1>2
    <2> HIDE DEF c
    <2> QED
      BY <1>4, <2>1, Everyone
  <1>6. ASSUME NEW k \in R PROVE at(k) \in R /\ c[at(k)] = k
    <2>1. \E i \in R : c[i] = k
      BY <1>5 DEF IsPermutation
    <2> HIDE DEF c
    <2> QED
      BY <2>1
  <1>7. IsPermutation(p, n)
    <2>1. p \in [1 .. n -> 1 .. n]
      BY <1>6
    <2>2. \A i, j \in R : i # j => p[i] # p[j]
      BY <1>6
    <2> HIDE DEF p
    <2> QED
      BY <2>1, <2>2, Everyone
  <1>8. ASSUME NEW i \in R, NEW j \in R, i < j PROVE p[i] \in ahead[p[j]]
    <2>1. p[i] \in R /\ p[j] \in R /\ c[p[i]] = i /\ c[p[j]] = j
      BY <1>6
    <2>2. p[i] # p[j] /\ ~(c[p[j]] < c[p[i]])
      BY <1>8, <2>1
    <2>3. p[i] \in ahead[p[j]] \/ p[j] \in ahead[p[i]]
      <3> HIDE DEF p, c, R
      <3> QED
        BY <2>1, <2>2 DEF IsOrder, R
    <2> HIDE DEF p, c, R
    <2> QED
      BY <1>3, <2>1, <2>2, <2>3
  <1>9. ASSUME NEW k \in R
        PROVE  (CHOOSE i \in R : <<i, k>> \in places) = p[k]
    <2>1. \A i \in R : <<i, k>> \in places <=> c[i] = k
      OBVIOUS
    <2> HIDE DEF places, c
    <2> QED
      BY <2>1
  <1>10. Ranked(seq, ahead) = [k \in R |-> seq[CHOOSE i \in R : <<i, k>> \in places]]
    BY DEF Ranked
  <1>11. Ranked(seq, ahead) = [k \in R |-> seq[p[k]]]
    <2> HIDE DEF p, R, places
    <2> QED
      BY <1>9, <1>10
  <1> HIDE DEF p
  <1> QED
    BY <1>7, <1>8, <1>11 DEF Ranks
-------------------------------------------------------------------------------
(* Tables.  What the constants say of numbers.                             *)
LEMMA NumberBounds ==
  /\ NumRows \in Nat \ {0} /\ 1 \in Rows /\ NumRows \in Rows
  /\ DiskEnd \in Nat /\ DiskEnd >= 2 /\ AdvSize \in 1 .. DiskEnd
  /\ Numbers \subseteq Nat /\ 0 .. DiskEnd \subseteq Numbers
  /\ \A x \in Nat, y \in Numbers : x <= y => x \in Numbers
  <1> DEFINE top == Half * Half
  <1>1. Half \in Nat /\ top \in Int
    BY TableConstants
  <1>2. DiskEnd \in 2 .. top - 1
    BY TableConstants
  <1>3. Numbers = 0 .. top - 1
    BY DEF Numbers
  <1> HIDE DEF top
  <1> QED
    BY <1>1, <1>2, <1>3, TableConstants DEF Rows

(* What is added up is cut off.                                            *)
LEMMA WrapType ==
  ASSUME NEW n \in Int
  PROVE  Wrap(n) \in Numbers
  <1> DEFINE top == Half * Half
  <1>1. top \in Nat \ {0}
    <2>1. Half \in Nat \ {0}
      BY TableConstants
    <2> QED
      BY <2>1
  <1>2. Wrap(n) = n % top /\ Numbers = 0 .. top - 1
    BY DEF Wrap, Numbers
  <1> HIDE DEF top
  <1> QED
    BY <1>1, <1>2, ModRange

(* The empty row is a row.                                                 *)
LEMMA NoRowType ==
  NoRow \in Row /\ NoRow.tag = 0 /\ NoRow.type = Unused
  BY NumberBounds DEF NoRow, Row, Types

(* A function of the numbers up to n is a sequence of n elements.          *)
LEMMA AsSequence ==
  \A S : \A n \in Nat : \A t \in [1 .. n -> S] :
    t \in Seq(S) /\ Len(t) = n /\ DOMAIN t = 1 .. n
  OBVIOUS

(* What the concatenation of two sequences has at each place.              *)
LEMMA Joined ==
  \A S : \A a, b \in Seq(S) :
    /\ a \o b \in Seq(S) /\ Len(a \o b) = Len(a) + Len(b)
    /\ \A r \in 1 .. Len(a) + Len(b) :
         (a \o b)[r] = IF r <= Len(a) THEN a[r] ELSE b[r - Len(a)]
  OBVIOUS

(* A sorted table has the rows of the table in another order, with the     *)
(* used ones first.                                                        *)
LEMMA SortedPermutes ==
  ASSUME NEW t \in [Rows -> Row]
  PROVE  \E p : /\ IsPermutation(p, NumRows)
                /\ Sorted(t) = [k \in Rows |-> t[p[k]]]
                /\ \A i, j \in Rows : i < j => Precedes(t, p[i], p[j])
  <1> DEFINE ahead == [r \in Rows |-> {q \in Rows : Precedes(t, q, r)}]
  <1>1. Rows = 1 .. NumRows /\ NumRows \in Nat
    BY NumberBounds DEF Rows
  <1>2. \A r \in Rows : t[r].rel \in Nat
    BY NumberBounds DEF Row
  <1>3. IsOrder(NumRows, ahead)
    <2>1. ahead \in [1 .. NumRows -> SUBSET (1 .. NumRows)]
      BY <1>1
    <2>2. \A q, r \in Rows : q \in ahead[r] <=> Precedes(t, q, r)
      OBVIOUS
    <2> HIDE DEF ahead
    <2>3. \A i \in Rows : i \notin ahead[i]
      BY <1>1, <1>2, <2>2 DEF Precedes, StartsBefore
    <2>4. \A i, j \in Rows : i # j => i \in ahead[j] \/ j \in ahead[i]
      BY <1>1, <1>2, <2>2 DEF Precedes, StartsBefore
    <2>5. ASSUME NEW i \in Rows, NEW j \in Rows, NEW q \in Rows,
                 i \in ahead[j], q \in ahead[i]
          PROVE  q \in ahead[j]
      <3>1. Precedes(t, i, j) /\ Precedes(t, q, i)
        BY <2>2, <2>5
      <3>2. Precedes(t, q, j)
        BY <1>1, <1>2, <3>1 DEF Precedes, StartsBefore
      <3> QED
        BY <2>2, <3>2
    <2>6. \A i, j \in 1 .. NumRows : i \in ahead[j] => ahead[i] \subseteq ahead[j]
      BY <1>1, <2>1, <2>5
    <2> QED
      BY <1>1, <2>1, <2>3, <2>4, <2>6 DEF IsOrder
  <1>p. PICK p : Ranks(p, NumRows, t, ahead)
    <2> HIDE DEF ahead
    <2>1. DOMAIN t = 1 .. NumRows
      BY <1>1
    <2> QED
      BY <1>1, <1>3, <2>1, RankedPermutes
  <1>4. /\ IsPermutation(p, NumRows)
        /\ \A i, j \in Rows : i < j => p[i] \in ahead[p[j]]
        /\ Ranked(t, ahead) = [k \in Rows |-> t[p[k]]]
    <2> HIDE DEF ahead
    <2> QED
      BY <1>p DEF Ranks, Rows
  <1>5. Sorted(t) = [k \in Rows |-> t[p[k]]]
    BY <1>4 DEF Sorted
  <1>6. ASSUME NEW i \in Rows, NEW j \in Rows, i < j
        PROVE  Precedes(t, p[i], p[j])
    <2>1. p[i] \in ahead[p[j]] /\ p[j] \in Rows
      BY <1>1, <1>4, <1>6 DEF IsPermutation
    <2> QED
      BY <2>1
  <1> HIDE DEF ahead
  <1> QED
    BY <1>4, <1>5, <1>6

(* How many rows are used, and that they are in front once sorted.         *)
LEMMA UsedFirst ==
  ASSUME NEW t \in [Rows -> Row]
  PROVE  /\ Cardinality(Used(t)) \in 0 .. NumRows
         /\ \A k \in Rows : Sorted(t)[k].type # Unused <=> k <= Cardinality(Used(t))
  <1>0. PICK p : /\ IsPermutation(p, NumRows)
                 /\ Sorted(t) = [k \in Rows |-> t[p[k]]]
                 /\ \A i, j \in Rows : i < j => Precedes(t, p[i], p[j])
    BY SortedPermutes
  <1>1. /\ IsPermutation(p, NumRows)
        /\ Sorted(t) = [k \in Rows |-> t[p[k]]]
        /\ \A i, j \in Rows : i < j /\ t[p[i]].type = Unused =>
                                t[p[j]].type = Unused
    BY <1>0 DEF Precedes
  <1> DEFINE U == {k \in Rows : t[p[k]].type # Unused}
             n == Cardinality(Used(t))
  <1>2. Rows = 1 .. NumRows /\ NumRows \in Nat /\ IsFiniteSet(Rows)
    BY NumberBounds, FS_Interval DEF Rows
  <1>3. /\ Used(t) \subseteq Rows /\ U \subseteq Rows
        /\ IsFiniteSet(U) /\ IsFiniteSet(Used(t))
    <2>1. Used(t) \in SUBSET Rows /\ U \in SUBSET Rows
      BY DEF Used
    <2> QED
      BY <1>2, <2>1, FS_Subset
  <1>4. Cardinality(U) = n
    <2> DEFINE f == [k \in U |-> p[k]]
    <2>1. f \in [U -> Used(t)]
      BY <1>1, <1>2 DEF IsPermutation, Used
    <2>2. \A i, j \in U : f[i] = f[j] => i = j
      BY <1>1, <1>2 DEF IsPermutation
    <2>3. \A r \in Used(t) : \E k \in U : f[k] = r
      BY <1>1, <1>2 DEF IsPermutation, Used
    <2>4. f \in Bijection(U, Used(t))
      <3> HIDE DEF f, U
      <3> QED
        BY <2>1, <2>2, <2>3
        DEF Bijection, Injection, Surjection, IsInjective
    <2>5. ExistsBijection(U, Used(t))
      BY <2>4 DEF ExistsBijection
    <2> QED
      BY <1>3, <2>5, FS_Bijection
  <1>5. n \in Nat
    BY <1>3, FS_CardinalityType
  <1>6. \A i \in U, j \in Rows : j < i => j \in U
    BY <1>1
  <1>7. U = 1 .. n /\ n <= NumRows
    <2>1. CASE U = {}
      <3>1. n = 0
        BY <1>4, <2>1, FS_EmptySet
      <3> QED
        BY <1>2, <2>1, <3>1
    <2>2. CASE U # {}
      <3>1. U \subseteq Nat /\ \A x \in U : x <= NumRows
        BY <1>2, <1>3
      <3>2. PICK m \in U : \A y \in U : m >= y
        <4> HIDE DEF U
        <4> QED
          BY <1>2, <2>2, <3>1, GreatestExists
      <3>3. U = 1 .. m /\ m \in 1 .. NumRows
        <4> HIDE DEF U
        <4>1. m \in 1 .. NumRows
          BY <1>2, <1>3
        <4>2. U \subseteq 1 .. m
          BY <1>2, <1>3, <3>2, <4>1
        <4>3. 1 .. m \subseteq U
          <5> SUFFICES ASSUME NEW j \in 1 .. m PROVE j \in U
            OBVIOUS
          <5>1. j \in Rows /\ (j = m \/ j < m)
            BY <1>2, <4>1
          <5> QED
            BY <1>6, <5>1
        <4> QED
          BY <4>1, <4>2, <4>3
      <3>4. Cardinality(1 .. m) = m
        BY <1>2, <3>3, FS_Interval
      <3>5. n = m
        <4> HIDE DEF U, n
        <4> QED
          BY <1>4, <3>3, <3>4
      <3> QED
        <4> HIDE DEF U, n
        <4> QED
          BY <1>2, <3>3, <3>5
    <2> QED
      BY <2>1, <2>2
  <1>8. \A k \in Rows : Sorted(t)[k].type # Unused <=> k \in U
    BY <1>1
  <1> HIDE DEF U, n
  <1>9. \A k \in Rows : Sorted(t)[k].type # Unused <=> k <= n
    BY <1>2, <1>5, <1>7, <1>8
  <1> QED
    BY <1>5, <1>7, <1>9 DEF n

-------------------------------------------------------------------------------
(* The gaps.  What the loop has made of the first rows: each row comes     *)
(* from one of those, or from an unused row behind spare, as source says.  *)
Filling(n) == [rows : Seq(Row), start : Nat, spare : n .. NumRows,
               full : BOOLEAN]
SameRow(p, q) == p.type = q.type /\ p.tag = q.tag /\ p.orig = q.orig

(* A row that is made a gap has other boundaries and nothing else.         *)
LEMMA GapType ==
  ASSUME NEW p \in Row, NEW from \in Nat, NEW to \in Numbers, from <= to
  PROVE  Gap(p, from, to) \in Row /\ SameRow(Gap(p, from, to), p)
  <1>1. to \in Nat /\ to - from \in Nat /\ to - from <= to
    BY NumberBounds
  <1>2. from \in Numbers /\ to - from \in Numbers
    BY <1>1, NumberBounds
  <1> QED
    BY <1>2 DEF Gap, Row, SameRow

(* One turn keeps the type of what the loop has made.                      *)
LEMMA PlacedType ==
  ASSUME NEW n \in 0 .. NumRows, NEW sorted \in [Rows -> Row],
         NEW acc \in Filling(n), NEW k \in 1 .. n
  PROVE  Placed(acc, sorted, n, k) \in Filling(n)
  <1> DEFINE p == sorted[k]
  <1>1. Rows = 1 .. NumRows /\ NumRows \in Nat
    BY NumberBounds DEF Rows
  <1>2. p \in Row /\ p.rel \in Nat /\ p.num \in Nat /\ p.rel \in Numbers
    <2>1. p \in Row
      BY <1>1
    <2> QED
      BY <2>1, NumberBounds DEF Row
  <1>3. /\ acc.rows \in Seq(Row) /\ acc.start \in Nat /\ acc.spare \in n .. NumRows
        /\ acc.full \in BOOLEAN
        /\ acc = [rows |-> acc.rows, start |-> acc.start, spare |-> acc.spare,
                  full |-> acc.full]
    BY DEF Filling
  <1> HIDE DEF p
  <1>4. CASE acc.full
    <2>1. Placed(acc, sorted, n, k) =
            [rows |-> Append(acc.rows, p), start |-> acc.start,
             spare |-> acc.spare, full |-> acc.full]
      BY <1>3, <1>4 DEF Placed, p
    <2> QED
      BY <1>2, <1>3, <2>1 DEF Filling
  <1>5. CASE ~acc.full /\ p.rel <= acc.start
    <2> DEFINE s == IF acc.start > p.rel + p.num THEN acc.start ELSE p.rel + p.num
    <2>1. Placed(acc, sorted, n, k) =
            [rows |-> Append(acc.rows, p), start |-> s,
             spare |-> acc.spare, full |-> acc.full]
      BY <1>3, <1>5 DEF Placed, p
    <2>2. s \in Nat
      BY <1>2, <1>3
    <2> QED
      BY <1>2, <1>3, <2>1, <2>2 DEF Filling
  <1>6. CASE ~acc.full /\ ~(p.rel <= acc.start) /\ acc.spare = n
    <2> DEFINE q == IF acc.start < DiskEnd THEN Gap(p, acc.start, DiskEnd) ELSE p
    <2>1. Placed(acc, sorted, n, k) =
            [rows |-> Append(acc.rows, q), start |-> acc.start,
             spare |-> acc.spare, full |-> TRUE]
      BY <1>3, <1>6 DEF Placed, p
    <2>2. q \in Row
      <3>1. DiskEnd \in Numbers /\ DiskEnd \in Nat
        BY NumberBounds
      <3> QED
        BY <1>2, <1>3, <3>1, GapType
    <2> QED
      BY <1>2, <1>3, <2>1, <2>2 DEF Filling
  <1>7. CASE ~acc.full /\ ~(p.rel <= acc.start) /\ acc.spare # n
    <2> DEFINE g == Gap(sorted[acc.spare], acc.start, p.rel)
    <2>1. Placed(acc, sorted, n, k) =
            [rows |-> acc.rows \o <<g, p>>, start |-> p.rel + p.num,
             spare |-> acc.spare - 1, full |-> FALSE]
      BY <1>3, <1>7 DEF Placed, p
    <2>2. acc.spare \in Rows /\ acc.spare - 1 \in n .. NumRows
      BY <1>1, <1>3, <1>7
    <2>3. g \in Row
      BY <1>2, <1>3, <1>7, <2>2, GapType
    <2> HIDE DEF g
    <2>4. <<g, p>> \in Seq(Row)
      BY <1>2, <2>3
    <2>5. acc.rows \o <<g, p>> \in Seq(Row) /\ p.rel + p.num \in Nat
      BY <1>2, <1>3, <2>4
    <2> QED
      BY <2>1, <2>2, <2>5 DEF Filling
  <1> QED
    BY <1>4, <1>5, <1>6, <1>7
-------------------------------------------------------------------------------
(* What is looked for in a sequence.                                       *)
LEMMA MinIs ==
  ASSUME NEW I, I \subseteq Nat, I # {}
  PROVE  Min(I) \in I /\ \A y \in I : Min(I) <= y
  <1>1. \E x \in I : \A y \in I : x <= y
    BY LeastExists
  <1> QED
    BY <1>1 DEF Min

(* The first one.                                                          *)
LEMMA FirstIs ==
  ASSUME NEW n \in Nat, NEW I, I \subseteq 1 .. n, NEW k,
         k = IF I # {} THEN Min(I) ELSE 0
  PROVE  /\ k \in 0 .. n /\ (k = 0 <=> I = {}) /\ (k # 0 => k \in I)
         /\ \A y \in I : k <= y
  <1>1. I \subseteq Nat
    OBVIOUS
  <1>2. CASE I # {}
    <2>1. k \in I /\ \A y \in I : k <= y
      BY <1>1, <1>2, MinIs
    <2>2. k \in 1 .. n
      BY <2>1
    <2> QED
      BY <1>2, <2>1, <2>2
  <1>3. CASE I = {}
    BY <1>3
  <1> QED
    BY <1>2, <1>3

(* The last one.                                                           *)
LEMMA LastIs ==
  ASSUME NEW n \in Nat, NEW I, I \subseteq 1 .. n, NEW k,
         k = IF I # {} THEN Max(I) ELSE 0
  PROVE  /\ k \in 0 .. n /\ (k = 0 <=> I = {}) /\ (k # 0 => k \in I)
         /\ \A y \in I : y <= k
  <1>1. I \subseteq Nat /\ \A x \in I : x <= n
    OBVIOUS
  <1>2. I # {} => \E x \in I : \A y \in I : x >= y
    BY <1>1, GreatestExists
  <1>3. CASE I # {}
    <2>1. k \in I /\ \A y \in I : k >= y
      BY <1>2, <1>3 DEF Max
    <2>2. k \in 1 .. n /\ \A y \in I : y \in 1 .. n
      BY <2>1
    <2> QED
      BY <1>3, <2>1, <2>2
  <1>4. CASE I = {}
    BY <1>4
  <1> QED
    BY <1>3, <1>4

(* The first row of the manager.                                           *)
FirstManager(t, k) ==
  /\ k \in Rows /\ t[k].type = Manager
  /\ \A j \in 1 .. k - 1 : t[j].type # Manager

(* It is the row that ManagerRow finds.                                    *)
LEMMA ManagerRowIs ==
  ASSUME NEW t \in [Rows -> Row]
  PROVE  /\ ManagerRow(t) \in Rows \cup {0}
         /\ ManagerRow(t) = 0 <=> \A r \in Rows : t[r].type # Manager
         /\ ManagerRow(t) # 0 => FirstManager(t, ManagerRow(t))
         /\ \A k : FirstManager(t, k) => ManagerRow(t) = k
  <1> DEFINE I == {i \in 1 .. Len(t) : t[i].type = Manager}
             k == ManagerRow(t)
  <1>1. Rows = 1 .. NumRows /\ NumRows \in Nat
    BY NumberBounds DEF Rows
  <1>2. Len(t) = NumRows
    BY <1>1, AsSequence
  <1>3. k = IF I # {} THEN Min(I) ELSE 0
    BY DEF ManagerRow, SelectInSeq
  <1>4. /\ I \subseteq Rows /\ I \subseteq Nat
        /\ \A i \in Rows : i \in I <=> t[i].type = Manager
    BY <1>1, <1>2
  <1> HIDE DEF I, k
  <1>5. I # {} => k \in I /\ \A y \in I : k <= y
    BY <1>3, <1>4, MinIs
  <1>6. k \in Rows \cup {0} /\ (k = 0 <=> I = {})
    <2>1. I = {} => k = 0
      BY <1>3
    <2>2. I # {} => k \in Rows
      BY <1>4, <1>5
    <2>3. 0 \notin Rows
      BY <1>1
    <2> QED
      BY <2>1, <2>2, <2>3
  <1>7. k # 0 => FirstManager(t, k)
    BY <1>1, <1>4, <1>5, <1>6 DEF FirstManager
  <1>8. ASSUME NEW j, FirstManager(t, j) PROVE k = j
    <2>1. j \in I /\ j \in Rows
      BY <1>4, <1>8 DEF FirstManager
    <2>2. k \in I /\ k <= j /\ k \in Rows
      BY <1>4, <1>5, <2>1
    <2>3. ~(k < j)
      BY <1>1, <1>4, <1>8, <2>2 DEF FirstManager
    <2> QED
      BY <1>1, <2>1, <2>2, <2>3
  <1> QED
    BY <1>4, <1>6, <1>7, <1>8 DEF k

(* The loop of the adjustment over the used rows of a sorted table, and    *)
(* the table it ends with: what the loop has made, and the unused rows     *)
(* that are left.                                                          *)
NoneYet == [rows |-> << >>, start |-> 1, spare |-> NumRows, full |-> FALSE]
FillSteps(t, n, after) ==
  /\ n = Cardinality(Used(t)) /\ n \in 0 .. NumRows
  /\ after[0] = NoneYet
  /\ \A k \in 0 .. n : after[k] \in Filling(n)
  /\ \A k \in 1 .. n : after[k] = Placed(after[k - 1], Sorted(t), n, k)
LeftOver(t, n, end, k) ==
  IF k = 1 /\ end.start < DiskEnd
  THEN Gap(Sorted(t)[n + k], end.start, DiskEnd) ELSE Gap(Sorted(t)[n + k], 0, 0)
Completes(new, t, n, end) ==
  /\ new \in [Rows -> Row]
  /\ Len(end.rows) = n + NumRows - end.spare
  /\ \A r \in Rows : r <= Len(end.rows) => new[r] = end.rows[r]
  /\ \A r \in Rows : r > Len(end.rows) =>
       /\ r - Len(end.rows) \in 1 .. end.spare - n
       /\ n + (r - Len(end.rows)) \in Rows
       /\ new[r] = LeftOver(t, n, end, r - Len(end.rows))

(* Each row put in for a gap is taken from the unused ones.                *)
LEMMA PlacedLength ==
  ASSUME NEW n \in 0 .. NumRows, NEW sorted \in [Rows -> Row],
         NEW acc \in Filling(n), NEW k \in 1 .. n,
         Len(acc.rows) = k - 1 + NumRows - acc.spare
  PROVE  Len(Placed(acc, sorted, n, k).rows)
           = k + NumRows - Placed(acc, sorted, n, k).spare
  <1> DEFINE p == sorted[k]
  <1>1. NumRows \in Nat /\ k \in Nat
    BY NumberBounds
  <1>2. acc.rows \in Seq(Row) /\ acc.spare \in Nat
        /\ acc = [rows |-> acc.rows, start |-> acc.start, spare |-> acc.spare,
                  full |-> acc.full]
    BY <1>1 DEF Filling
  <1>3. \A x : Len(Append(acc.rows, x)) = Len(acc.rows) + 1
    BY <1>2
  <1>4. \A x, y : Len(acc.rows \o <<x, y>>) = Len(acc.rows) + 2
    BY <1>2
  <1>5. Len(acc.rows) \in Nat
    BY <1>2
  <1>6. CASE acc.full
    <2>1. Placed(acc, sorted, n, k) =
            [rows |-> Append(acc.rows, p), start |-> acc.start,
             spare |-> acc.spare, full |-> acc.full]
      BY <1>2, <1>6 DEF Placed
    <2> QED
      BY <1>1, <1>2, <1>3, <2>1
  <1>7. CASE ~acc.full /\ p.rel <= acc.start
    <2>1. Placed(acc, sorted, n, k) =
            [rows |-> Append(acc.rows, p),
             start |-> IF acc.start > p.rel + p.num THEN acc.start
                       ELSE p.rel + p.num,
             spare |-> acc.spare, full |-> acc.full]
      BY <1>2, <1>7 DEF Placed
    <2> QED
      BY <1>1, <1>2, <1>3, <2>1
  <1>8. CASE ~acc.full /\ ~(p.rel <= acc.start) /\ acc.spare = n
    <2>1. Placed(acc, sorted, n, k) =
            [rows |-> Append(acc.rows, IF acc.start < DiskEnd
                                       THEN Gap(p, acc.start, DiskEnd) ELSE p),
             start |-> acc.start, spare |-> acc.spare, full |-> TRUE]
      BY <1>2, <1>8 DEF Placed
    <2> QED
      BY <1>1, <1>2, <1>3, <2>1
  <1>9. CASE ~acc.full /\ ~(p.rel <= acc.start) /\ acc.spare # n
    <2>1. Placed(acc, sorted, n, k) =
            [rows |-> acc.rows \o <<Gap(sorted[acc.spare], acc.start, p.rel), p>>,
             start |-> p.rel + p.num, spare |-> acc.spare - 1, full |-> FALSE]
      BY <1>2, <1>9 DEF Placed
    <2> QED
      BY <1>1, <1>2, <1>4, <1>5, <2>1
  <1> QED
    BY <1>6, <1>7, <1>8, <1>9

(* A sorted table is a table.                                              *)
LEMMA SortedType ==
  ASSUME NEW t \in [Rows -> Row]
  PROVE  Sorted(t) \in [Rows -> Row]
  <1>1. PICK p : IsPermutation(p, NumRows) /\ Sorted(t) = [k \in Rows |-> t[p[k]]]
    BY SortedPermutes
  <1>2. \A k \in Rows : p[k] \in Rows
    BY <1>1 DEF IsPermutation, Rows
  <1> QED
    BY <1>1, <1>2

(* The adjustment is that loop and what it leaves over.                    *)
LEMMA AdjustedSteps ==
  ASSUME NEW t \in [Rows -> Row]
  PROVE  \E n, after : FillSteps(t, n, after) /\ Completes(Adjusted(t), t, n, after[n])
  <1> DEFINE sorted == Sorted(t)
             n == Cardinality(Used(t))
             first == [rows |-> << >>, start |-> 1, spare |-> NumRows, full |-> FALSE]
             after == CHOOSE h : h = [k \in 0 .. n |->
                        IF k = 0 THEN first ELSE Placed(h[k - 1], sorted, n, k)]
             end == after[n]
             rest(k, p) == IF k = 1 /\ end.start < DiskEnd
                           THEN Gap(p, end.start, DiskEnd) ELSE Gap(p, 0, 0)
             tail == [k \in 1 .. end.spare - n |-> rest(k, sorted[n + k])]
             S == Filling(n)
             f == [x \in S \X (1 .. n) |-> Placed(x[1], sorted, n, x[2])]
  <1>1. Adjusted(t) = end.rows \o tail
    BY DEF Adjusted
  <1>2. Rows = 1 .. NumRows /\ NumRows \in Nat
    BY NumberBounds DEF Rows
  <1>3. n \in 0 .. NumRows
    BY UsedFirst
  <1>5. sorted \in [Rows -> Row]
    BY SortedType
  <1>s. sorted = Sorted(t) /\ n = Cardinality(Used(t)) /\ first = NoneYet
    BY DEF NoneYet
  <1> HIDE DEF sorted, n
  <1>7. first \in S
    BY <1>2, <1>3 DEF Filling
  <1>8. f \in [S \X (1 .. n) -> S]
    <2> HIDE DEF S
    <2>1. \A acc \in S, k \in 1 .. n : Placed(acc, sorted, n, k) \in S
      BY <1>3, <1>5, PlacedType DEF S
    <2> QED
      BY <2>1
  <1>9. PICK h \in [0 .. n -> S] : IsLoop(h, first, n, f)
    <2> HIDE DEF f, S, first
    <2>1. n \in Nat
      BY <1>3
    <2> QED
      BY <1>7, <1>8, <2>1, LoopExists
  <1> HIDE DEF S, first
  <1>10. ASSUME NEW k \in 0 .. n
         PROVE  h[k] = IF k = 0 THEN first ELSE Placed(h[k - 1], sorted, n, k)
    <2>1. h[k] = IF k = 0 THEN first ELSE f[<<h[k - 1], k>>]
      BY <1>9 DEF IsLoop
    <2>2. CASE k # 0
      <3>1. k \in 1 .. n /\ h[k - 1] \in S
        BY <1>3, <1>9, <2>2
      <3>2. f[<<h[k - 1], k>>] = Placed(h[k - 1], sorted, n, k)
        BY <3>1
      <3> QED
        BY <2>1, <2>2, <3>2
    <2> QED
      BY <2>1, <2>2
  <1>11. /\ after = [k \in 0 .. n |->
                       IF k = 0 THEN first ELSE Placed(after[k - 1], sorted, n, k)]
    <2>1. h = [k \in 0 .. n |->
                 IF k = 0 THEN first ELSE Placed(h[k - 1], sorted, n, k)]
      <3> DEFINE g == [k \in 0 .. n |->
                 IF k = 0 THEN first ELSE Placed(h[k - 1], sorted, n, k)]
      <3>1. \A k \in 0 .. n : h[k] = g[k]
        BY <1>10
      <3>2. DOMAIN h = 0 .. n /\ DOMAIN g = 0 .. n /\ h = [k \in 0 .. n |-> h[k]]
        BY <1>9
      <3>3. g = [k \in 0 .. n |-> g[k]]
        OBVIOUS
      <3> HIDE DEF g
      <3> QED
        BY <3>1, <3>2, <3>3 DEF g
    <2> QED
      BY <2>1
  <1>12. \A k \in 0 .. n :
           after[k] = IF k = 0 THEN first ELSE Placed(after[k - 1], sorted, n, k)
    <2> HIDE DEF after
    <2> QED
      BY <1>11
  <1> HIDE DEF after
  <1> DEFINE G == {k \in 0 .. n : /\ after[k] \in S
                                  /\ Len(after[k].rows) = k + NumRows - after[k].spare}
  <1>13. 0 \in G
    <2>1. 0 \in 0 .. n /\ after[0] = first
      BY <1>3, <1>12
    <2>2. Len(first.rows) = 0 /\ first.spare = NumRows
      BY DEF first
    <2> QED
      BY <1>2, <1>7, <2>1, <2>2
  <1>14. ASSUME NEW k \in 1 .. n, k - 1 \in G PROVE k \in G
    <2>1. after[k - 1] \in S
          /\ Len(after[k - 1].rows) = k - 1 + NumRows - after[k - 1].spare
      BY <1>14
    <2>2. k \in 0 .. n /\ after[k] = Placed(after[k - 1], sorted, n, k)
      <3>1. k \in 0 .. n /\ k # 0
        BY <1>3
      <3> QED
        BY <1>12, <3>1
    <2>3. after[k] \in S
      BY <1>3, <1>5, <2>1, <2>2, PlacedType DEF S
    <2>4. Len(after[k].rows) = k + NumRows - after[k].spare
      BY <1>3, <1>5, <2>1, <2>2, PlacedLength DEF S
    <2> QED
      BY <2>2, <2>3, <2>4
  <1>15. \A k \in 0 .. n : k \in G
    <2> HIDE DEF G
    <2>1. n \in Nat
      BY <1>3
    <2> QED
      BY <1>13, <1>14, <2>1, Turns
  <1>16. \A k \in 0 .. n : /\ after[k] \in S
                           /\ Len(after[k].rows) = k + NumRows - after[k].spare
    BY <1>15
  <1>17. FillSteps(t, n, after)
    <2>1. after[0] = NoneYet
      BY <1>3, <1>12, <1>s
    <2>2. ASSUME NEW k \in 1 .. n PROVE after[k] = Placed(after[k - 1], Sorted(t), n, k)
      <3>1. k \in 0 .. n /\ k # 0
        BY <1>3
      <3> QED
        BY <1>12, <1>s, <3>1
    <2> QED
      BY <1>3, <1>16, <1>s, <2>1, <2>2 DEF FillSteps, S
  <1> DEFINE L == Len(end.rows)
  <1>18. /\ end.rows \in Seq(Row) /\ end.start \in Nat /\ end.spare \in n .. NumRows
         /\ L \in Nat /\ L = n + NumRows - end.spare
    <2>1. n \in 0 .. n
      BY <1>3
    <2>2. end \in S /\ L = n + NumRows - end.spare
      BY <1>16, <2>1
    <2> QED
      BY <2>2 DEF S, Filling
  <1> HIDE DEF end, G
  <1>19. ASSUME NEW k \in 1 .. end.spare - n
         PROVE  n + k \in Rows /\ rest(k, sorted[n + k]) \in Row
    <2>0. n + k \in Rows
      BY <1>2, <1>3, <1>18
    <2>1. sorted[n + k] \in Row
      BY <1>5, <2>0
    <2>2. /\ 0 \in Nat /\ 0 \in Numbers /\ 0 <= 0 /\ DiskEnd \in Numbers
          /\ DiskEnd \in Nat
      BY NumberBounds
    <2>3. Gap(sorted[n + k], 0, 0) \in Row
      BY <2>1, <2>2, GapType
    <2>4. end.start < DiskEnd => Gap(sorted[n + k], end.start, DiskEnd) \in Row
      BY <1>18, <2>1, <2>2, GapType
    <2> QED
      BY <2>0, <2>3, <2>4
  <1>r. \A k \in 1 .. end.spare - n : rest(k, sorted[n + k]) = LeftOver(t, n, end, k)
    BY <1>s DEF LeftOver
  <1> HIDE DEF rest
  <1>20. tail \in Seq(Row) /\ Len(tail) = end.spare - n
         /\ \A k \in 1 .. end.spare - n : tail[k] = rest(k, sorted[n + k])
    <2>1. tail \in [1 .. end.spare - n -> Row]
      BY <1>19
    <2>2. end.spare - n \in Nat
      BY <1>3, <1>18
    <2>3. \A k \in 1 .. end.spare - n : tail[k] = rest(k, sorted[n + k])
      OBVIOUS
    <2> HIDE DEF tail
    <2> QED
      BY <2>1, <2>2, <2>3, AsSequence
  <1> HIDE DEF tail
  <1> DEFINE A == end.rows \o tail
  <1>21. /\ A \in Seq(Row) /\ Len(A) = NumRows
         /\ \A r \in 1 .. L : A[r] = end.rows[r]
         /\ \A r \in Rows : r > L => A[r] = tail[r - L] /\ r - L \in 1 .. end.spare - n
    <2>1. /\ A \in Seq(Row) /\ Len(A) = L + (end.spare - n)
          /\ \A r \in 1 .. L + (end.spare - n) :
               A[r] = IF r <= L THEN end.rows[r] ELSE tail[r - L]
      <3> DEFINE a == end.rows
      <3>1. a \in Seq(Row) /\ tail \in Seq(Row)
        BY <1>18, <1>20
      <3> HIDE DEF a
      <3>2. /\ a \o tail \in Seq(Row) /\ Len(a \o tail) = Len(a) + Len(tail)
            /\ \A r \in 1 .. Len(a) + Len(tail) :
                 (a \o tail)[r] = IF r <= Len(a) THEN a[r] ELSE tail[r - Len(a)]
        BY <3>1, Joined, Zenon
      <3> QED
        BY <1>20, <3>2, Zenon DEF a
    <2> HIDE DEF A, L
    <2>2. L + (end.spare - n) = NumRows /\ L <= NumRows /\ end.spare - n \in Nat
      BY <1>2, <1>3, <1>18
    <2>3. ASSUME NEW r \in 1 .. L PROVE A[r] = end.rows[r]
      <3>1. r \in 1 .. L + (end.spare - n) /\ r <= L
        BY <1>18, <2>2
      <3> QED
        BY <2>1, <3>1
    <2>4. ASSUME NEW r \in Rows, r > L
          PROVE  A[r] = tail[r - L] /\ r - L \in 1 .. end.spare - n
      <3>1. r \in 1 .. L + (end.spare - n) /\ ~(r <= L)
        BY <1>2, <1>18, <2>2, <2>4
      <3>2. r - L \in 1 .. end.spare - n
        BY <1>2, <1>18, <2>2, <3>1
      <3> QED
        BY <2>1, <3>1, <3>2
    <2> QED
      BY <2>1, <2>2, <2>3, <2>4
  <1>22. A \in [Rows -> Row]
    <2> HIDE DEF A, L
    <2> QED
      BY <1>2, <1>21
  <1>23. Completes(A, t, n, end)
    <2> HIDE DEF A
    <2>1. ASSUME NEW r \in Rows, r <= L PROVE A[r] = end.rows[r]
      <3>1. r \in 1 .. L
        BY <1>2, <1>18, <2>1
      <3> QED
        BY <1>21, <3>1
    <2>2. ASSUME NEW r \in Rows, r > L
          PROVE  /\ r - L \in 1 .. end.spare - n /\ n + (r - L) \in Rows
                 /\ A[r] = LeftOver(t, n, end, r - L)
      <3>1. r - L \in 1 .. end.spare - n /\ A[r] = tail[r - L]
        BY <1>21, <2>2
      <3> HIDE DEF L
      <3>2. tail[r - L] = rest(r - L, sorted[n + (r - L)])
        BY <1>20, <3>1
      <3>3. rest(r - L, sorted[n + (r - L)]) = LeftOver(t, n, end, r - L)
            /\ n + (r - L) \in Rows
        BY <1>19, <1>r, <3>1
      <3> QED
        BY <3>1, <3>2, <3>3
    <2> QED
      BY <1>18, <1>22, <2>1, <2>2 DEF Completes
  <1> HIDE DEF A
  <1>24. Completes(Adjusted(t), t, n, after[n])
    BY <1>1, <1>23 DEF A, end
  <1> QED
    BY <1>17, <1>24

(* One turn of the loop: a row, or the gap before it and the row, are      *)
(* appended.                                                               *)
Plus(new, old, x) ==
  /\ Len(new) = Len(old) + 1 /\ new[Len(old) + 1] = x
  /\ \A i \in 1 .. Len(old) : new[i] = old[i]
PlusTwo(new, old, x, y) ==
  /\ Len(new) = Len(old) + 2 /\ new[Len(old) + 1] = x /\ new[Len(old) + 2] = y
  /\ \A i \in 1 .. Len(old) : new[i] = old[i]
Later(x, y) == IF x > y THEN x ELSE y

(* Appending one row, and appending two.                                   *)
LEMMA Longer ==
  ASSUME NEW S, NEW seq \in Seq(S)
  PROVE  /\ \A x : Plus(Append(seq, x), seq, x)
         /\ \A x, y : PlusTwo(seq \o <<x, y>>, seq, x, y)
         /\ Len(seq) \in Nat /\ \A i \in 1 .. Len(seq) : seq[i] \in S
  BY DEF Plus, PlusTwo

Goes(acc, new, p) ==
  /\ acc.full /\ new.full /\ Plus(new.rows, acc.rows, p)
  /\ new.start = acc.start
Joins(acc, new, p) ==
  /\ ~acc.full /\ ~new.full /\ p.rel <= acc.start
  /\ Plus(new.rows, acc.rows, p)
  /\ new.start = Later(acc.start, p.rel + p.num) /\ new.spare = acc.spare
Fills(acc, new, n, p, x) ==
  /\ ~acc.full /\ new.full /\ p.rel > acc.start /\ acc.spare = n
  /\ Plus(new.rows, acc.rows, x)
  /\ new.start = acc.start
LeavesGap(acc, new, n, g, p) ==
  /\ ~acc.full /\ ~new.full /\ p.rel > acc.start /\ acc.spare # n
  /\ PlusTwo(new.rows, acc.rows, g, p)
  /\ new.start = p.rel + p.num /\ new.spare = acc.spare - 1
Filler(acc, p) == IF acc.start < DiskEnd THEN Gap(p, acc.start, DiskEnd) ELSE p
GapBefore(acc, sorted, p) == Gap(sorted[acc.spare], acc.start, p.rel)
Turn(acc, new, sorted, n, k) ==
  \/ Goes(acc, new, sorted[k])
  \/ Joins(acc, new, sorted[k])
  \/ Fills(acc, new, n, sorted[k], Filler(acc, sorted[k]))
  \/ LeavesGap(acc, new, n, GapBefore(acc, sorted, sorted[k]), sorted[k])

(* What one turn does, as three cases: no gap, a gap with an unused row    *)
(* for it, and a gap with none.                                            *)
LEMMA PlacedTurn ==
  ASSUME NEW n \in 0 .. NumRows, NEW sorted \in [Rows -> Row],
         NEW acc \in Filling(n), NEW k \in 1 .. n
  PROVE  Turn(acc, Placed(acc, sorted, n, k), sorted, n, k)
  <1> DEFINE p == sorted[k]
             g == Gap(sorted[acc.spare], acc.start, p.rel)
             new == Placed(acc, sorted, n, k)
  <1>1. acc.rows \in Seq(Row) /\ acc.full \in BOOLEAN /\ acc.start \in Nat
        /\ acc = [rows |-> acc.rows, start |-> acc.start, spare |-> acc.spare,
                  full |-> acc.full]
    BY DEF Filling
  <1>2. p.rel \in Nat
    <2>1. k \in Rows
      BY NumberBounds DEF Rows
    <2>2. p \in Row
      BY <2>1
    <2> QED
      BY <2>2, NumberBounds DEF Row
  <1>3. CASE acc.full
    <2>1. new = [rows |-> Append(acc.rows, p), start |-> acc.start,
                 spare |-> acc.spare, full |-> acc.full]
      BY <1>1, <1>3 DEF Placed
    <2>2. new.full /\ new.rows = Append(acc.rows, p) /\ new.start = acc.start
      BY <1>3, <2>1
    <2> HIDE DEF new, p
    <2>3. Goes(acc, new, p)
      BY <1>1, <1>3, <2>2, Longer DEF Goes
    <2> QED
      BY <2>3 DEF Turn, new, p
  <1>4. CASE ~acc.full /\ p.rel <= acc.start
    <2>1. new = [rows |-> Append(acc.rows, p),
                 start |-> IF acc.start > p.rel + p.num THEN acc.start
                           ELSE p.rel + p.num,
                 spare |-> acc.spare, full |-> acc.full]
      BY <1>1, <1>4 DEF Placed
    <2>2. ~new.full /\ new.rows = Append(acc.rows, p) /\ new.spare = acc.spare
          /\ new.start = Later(acc.start, p.rel + p.num)
      BY <1>4, <2>1 DEF Later
    <2> HIDE DEF new, p
    <2>3. Joins(acc, new, p)
      BY <1>1, <1>4, <2>2, Longer DEF Joins
    <2> QED
      BY <2>3 DEF Turn, new, p
  <1>5. CASE ~acc.full /\ ~(p.rel <= acc.start) /\ acc.spare = n
    <2> DEFINE x == IF acc.start < DiskEnd THEN Gap(p, acc.start, DiskEnd) ELSE p
    <2>1. new = [rows |-> Append(acc.rows, x), start |-> acc.start,
                 spare |-> acc.spare, full |-> TRUE]
      BY <1>1, <1>5 DEF Placed
    <2>2. new.full /\ new.rows = Append(acc.rows, x) /\ new.spare = acc.spare
          /\ new.start = acc.start
      BY <2>1
    <2>3. p.rel > acc.start
      BY <1>1, <1>2, <1>5
    <2>5. x = Filler(acc, p)
      BY DEF Filler
    <2> HIDE DEF new, x, p
    <2>4. Fills(acc, new, n, p, x)
      BY <1>1, <1>5, <2>2, <2>3, Longer DEF Fills
    <2> QED
      BY <2>4, <2>5 DEF Turn, p, new
  <1>6. CASE ~acc.full /\ ~(p.rel <= acc.start) /\ acc.spare # n
    <2>1. new = [rows |-> acc.rows \o <<g, p>>,
                 start |-> p.rel + p.num, spare |-> acc.spare - 1, full |-> FALSE]
      BY <1>1, <1>6 DEF Placed
    <2>2. ~new.full /\ new.rows = acc.rows \o <<g, p>>
          /\ new.start = p.rel + p.num /\ new.spare = acc.spare - 1
      BY <2>1
    <2>3. p.rel > acc.start
      BY <1>1, <1>2, <1>6
    <2>5. g = GapBefore(acc, sorted, p)
      BY DEF GapBefore
    <2> HIDE DEF new, g, p
    <2>4. LeavesGap(acc, new, n, g, p)
      BY <1>1, <1>6, <2>2, <2>3, Longer DEF LeavesGap
    <2> QED
      BY <2>4, <2>5 DEF Turn, p, new
  <1> QED
    BY <1>3, <1>4, <1>5, <1>6

(* What the rows are that the loop has made: used rows are on the disk,    *)
(* and so are the gaps; between two gaps there is a used row.              *)
Arrangeable(sorted, n) ==
  /\ \A q \in 1 .. n : sorted[q].type # Unused /\ OnDisk(sorted[q])
  /\ \A q \in Rows : q > n => sorted[q].type = Unused
Comes(p, sorted) == OnDisk(p) /\ \E q \in Rows : SameRow(p, sorted[q])
Basic(acc, sorted, k) ==
  LET rows == acc.rows
      l == Len(acc.rows)
  IN  /\ acc.start >= 1
      /\ \A i \in 1 .. l : Comes(rows[i], sorted)
      /\ \A q \in 1 .. k : \E i \in 1 .. l : SameRow(rows[i], sorted[q])
      /\ \A i \in 1 .. l - 1 : rows[i].type = Unused => rows[i + 1].type # Unused
      /\ IF k = 0 THEN l = 0 ELSE l > 0 /\ rows[l].type # Unused
      /\ ~acc.full =>
           /\ k # 0 => rows[l] = sorted[k]
           /\ \A i \in 1 .. l : rows[i].type # Unused =>
                                   \E q \in 1 .. k : rows[i] = sorted[q]

(* A gap between two places of the disk is on the disk.                    *)
LEMMA GapOnDisk ==
  ASSUME NEW p \in Row, NEW from \in Nat, NEW to \in Nat, from >= 1, from < to,
         to <= DiskEnd
  PROVE  /\ OnDisk(Gap(p, from, to)) /\ SameRow(Gap(p, from, to), p)
         /\ Gap(p, from, to).rel = from
         /\ Gap(p, from, to).rel + Gap(p, from, to).num = to
  <1>1. /\ Gap(p, from, to).rel = from /\ Gap(p, from, to).num = to - from
        /\ SameRow(Gap(p, from, to), p)
    BY DEF Gap, Row, SameRow
  <1>2. DiskEnd \in Nat
    BY NumberBounds
  <1> QED
    BY <1>1, <1>2 DEF OnDisk

(* The fields of a row.                                                    *)
LEMMA RowFields ==
  ASSUME NEW p \in Row
  PROVE  p.rel \in Nat /\ p.num \in Nat /\ p.rel \in Numbers /\ p.num \in Numbers
         /\ p.type \in Types /\ p.tag \in Nat /\ p.orig \in 0 .. 4
  BY NumberBounds DEF Row

(* All of that is kept by one turn.                                        *)
LEMMA BasicTurns ==
  ASSUME NEW n \in 0 .. NumRows, NEW sorted \in [Rows -> Row],
         Arrangeable(sorted, n), NEW acc \in Filling(n), NEW new \in Filling(n),
         NEW k \in 1 .. n, Basic(acc, sorted, k - 1), Turn(acc, new, sorted, n, k)
  PROVE  Basic(new, sorted, k)
  <1> DEFINE p == sorted[k]
             l == Len(acc.rows)
             g == Gap(sorted[acc.spare], acc.start, p.rel)
  <1>1. Rows = 1 .. NumRows /\ NumRows \in Nat /\ k \in Rows /\ k \in Nat /\ k # 0
    BY NumberBounds DEF Rows
  <1>2. /\ p \in Row /\ p.rel \in Nat /\ p.num \in Nat /\ p.type # Unused /\ OnDisk(p)
    BY <1>1, RowFields DEF Arrangeable
  <1>3. p.rel >= 1 /\ p.num >= 1 /\ p.rel + p.num <= DiskEnd /\ DiskEnd \in Nat
    BY <1>2, NumberBounds DEF OnDisk
  <1>4. /\ acc.rows \in Seq(Row) /\ l \in Nat /\ acc.start \in Nat
        /\ acc.spare \in n .. NumRows /\ new.start \in Nat
    BY <1>1 DEF Filling
  <1>5. Comes(p, sorted)
    BY <1>1, <1>2 DEF Comes, SameRow
  <1>6. /\ acc.start >= 1
        /\ \A i \in 1 .. l : Comes(acc.rows[i], sorted)
        /\ \A q \in 1 .. k - 1 : \E i \in 1 .. l : SameRow(acc.rows[i], sorted[q])
        /\ \A i \in 1 .. l - 1 : acc.rows[i].type = Unused =>
                                  acc.rows[i + 1].type # Unused
        /\ l # 0 => acc.rows[l].type # Unused
        /\ ~acc.full => \A i \in 1 .. l : acc.rows[i].type # Unused =>
                           \E q \in 1 .. k - 1 : acc.rows[i] = sorted[q]
    BY <1>4 DEF Basic
  <1> HIDE DEF p, l, g
  <1>7. ASSUME NEW x, Plus(new.rows, acc.rows, x), Comes(x, sorted),
               SameRow(x, p), new.start >= 1,
               ~new.full => ~acc.full /\ x = p
        PROVE  Basic(new, sorted, k)
    <2>1. /\ Len(new.rows) = l + 1 /\ new.rows[l + 1] = x
          /\ \A i \in 1 .. l : new.rows[i] = acc.rows[i]
      BY <1>7 DEF Plus, l
    <2>2. x.type # Unused
      BY <1>2, <1>7 DEF SameRow
    <2>3. \A i \in 1 .. l + 1 : i = l + 1 \/ i \in 1 .. l
      BY <1>4
    <2>4. \A i \in 1 .. l + 1 : Comes(new.rows[i], sorted)
      BY <1>6, <1>7, <2>1, <2>3
    <2>5. ASSUME NEW q \in 1 .. k
          PROVE  \E i \in 1 .. l + 1 : SameRow(new.rows[i], sorted[q])
      <3>1. CASE q = k
        <4>1. l + 1 \in 1 .. l + 1
          BY <1>4
        <4> QED
          BY <1>7, <2>1, <3>1, <4>1 DEF p
      <3>2. CASE q # k
        <4>1. q \in 1 .. k - 1
          BY <1>1, <3>2
        <4>2. PICK i \in 1 .. l : SameRow(acc.rows[i], sorted[q])
          BY <1>6, <4>1
        <4>3. i \in 1 .. l + 1
          BY <1>4
        <4> QED
          BY <2>1, <4>2, <4>3
      <3> QED
        BY <3>1, <3>2
    <2>6. ASSUME NEW i \in 1 .. (l + 1) - 1, new.rows[i].type = Unused
          PROVE  new.rows[i + 1].type # Unused
      <3>1. i \in 1 .. l /\ new.rows[i] = acc.rows[i] /\ i + 1 \in 1 .. l + 1
        BY <1>4, <2>1
      <3>2. CASE i = l
        BY <2>1, <2>2, <3>2
      <3>3. CASE i # l
        <4>1. i \in 1 .. l - 1 /\ i + 1 \in 1 .. l
          BY <1>4, <3>1, <3>3
        <4> QED
          BY <1>6, <2>1, <2>6, <3>1, <4>1
      <3> QED
        BY <3>2, <3>3
    <2>7. ASSUME ~new.full, NEW i \in 1 .. l + 1, new.rows[i].type # Unused
          PROVE  \E q \in 1 .. k : new.rows[i] = sorted[q]
      <3>1. CASE i = l + 1
        <4>1. k \in 1 .. k
          BY <1>1
        <4> QED
          BY <1>7, <2>1, <2>7, <3>1, <4>1 DEF p
      <3>2. CASE i # l + 1
        <4>1. i \in 1 .. l /\ new.rows[i] = acc.rows[i]
          BY <2>1, <2>3, <3>2
        <4>2. PICK q \in 1 .. k - 1 : acc.rows[i] = sorted[q]
          BY <1>6, <1>7, <2>7, <4>1
        <4>3. q \in 1 .. k
          BY <1>1
        <4> QED
          BY <4>1, <4>2, <4>3
      <3> QED
        BY <3>1, <3>2
    <2>8. l + 1 > 0 /\ (~new.full => new.rows[l + 1] = sorted[k])
      BY <1>4, <1>7, <2>1 DEF p
    <2> QED
      BY <1>1, <1>7, <2>1, <2>2, <2>4, <2>5, <2>6, <2>7, <2>8 DEF Basic
  <1>8. CASE Goes(acc, new, p)
    BY <1>5, <1>6, <1>7, <1>8 DEF SameRow, Goes
  <1>9. CASE Joins(acc, new, p)
    <2>0. Plus(new.rows, acc.rows, p) /\ ~new.full /\ ~acc.full
          /\ new.start = Later(acc.start, p.rel + p.num)
      BY <1>9 DEF Joins
    <2>1. new.start >= 1
      BY <1>2, <1>3, <1>4, <1>6, <2>0 DEF Later
    <2> QED
      BY <1>5, <1>7, <2>0, <2>1 DEF SameRow
  <1>10. CASE Fills(acc, new, n, p, Filler(acc, p))
    <2> DEFINE x == IF acc.start < DiskEnd THEN Gap(p, acc.start, DiskEnd) ELSE p
    <2>0. /\ ~acc.full /\ new.full /\ p.rel > acc.start
          /\ Plus(new.rows, acc.rows, x) /\ new.start = acc.start
      BY <1>10 DEF Fills, Filler
    <2>1. acc.start < DiskEnd /\ DiskEnd <= DiskEnd
      BY <1>2, <1>3, <1>4, <2>0
    <2>2. OnDisk(Gap(p, acc.start, DiskEnd)) /\ SameRow(Gap(p, acc.start, DiskEnd), p)
      BY <1>2, <1>3, <1>4, <1>6, <2>1, GapOnDisk
    <2>3. x = Gap(p, acc.start, DiskEnd)
      BY <2>1
    <2> HIDE DEF x
    <2>5. Comes(x, sorted) /\ SameRow(x, p)
      BY <1>1, <2>2, <2>3 DEF Comes, p
    <2> QED
      BY <1>6, <1>7, <2>0, <2>5
  <1>11. CASE LeavesGap(acc, new, n, GapBefore(acc, sorted, p), p)
    <2>0. /\ ~acc.full /\ ~new.full /\ p.rel > acc.start /\ acc.spare # n
          /\ PlusTwo(new.rows, acc.rows, g, p)
          /\ new.start = p.rel + p.num
      BY <1>11 DEF LeavesGap, GapBefore, g
    <2>1. /\ Len(new.rows) = l + 2 /\ new.rows[l + 1] = g /\ new.rows[l + 2] = p
          /\ \A i \in 1 .. l : new.rows[i] = acc.rows[i]
      BY <2>0 DEF PlusTwo, l
    <2>2. acc.spare \in Rows /\ acc.spare > n
      BY <1>1, <1>4, <2>0
    <2>3. OnDisk(g) /\ SameRow(g, sorted[acc.spare])
      <3>1. sorted[acc.spare] \in Row /\ p.rel <= DiskEnd
        BY <1>2, <1>3, <2>2
      <3> QED
        BY <1>2, <1>4, <1>6, <2>0, <3>1, GapOnDisk DEF g
    <2>4. Comes(g, sorted) /\ g.type = Unused
      BY <2>2, <2>3 DEF Comes, SameRow, Arrangeable
    <2>5. \A i \in 1 .. l + 2 : i = l + 2 \/ i = l + 1 \/ i \in 1 .. l
      BY <1>4
    <2>6. \A i \in 1 .. l + 2 : Comes(new.rows[i], sorted)
      BY <1>5, <1>6, <2>1, <2>4, <2>5
    <2>7. ASSUME NEW q \in 1 .. k
          PROVE  \E i \in 1 .. l + 2 : SameRow(new.rows[i], sorted[q])
      <3>1. CASE q = k
        <4>1. l + 2 \in 1 .. l + 2 /\ SameRow(new.rows[l + 2], sorted[q])
          BY <1>4, <2>1, <3>1 DEF p, SameRow
        <4> QED
          BY <4>1
      <3>2. CASE q # k
        <4>1. q \in 1 .. k - 1
          BY <1>1, <3>2
        <4>2. PICK i \in 1 .. l : SameRow(acc.rows[i], sorted[q])
          BY <1>6, <4>1
        <4>3. i \in 1 .. l + 2
          BY <1>4
        <4> QED
          BY <2>1, <4>2, <4>3
      <3> QED
        BY <3>1, <3>2
    <2>8. ASSUME NEW i \in 1 .. (l + 2) - 1, new.rows[i].type = Unused
          PROVE  new.rows[i + 1].type # Unused
      <3>1. i \in 1 .. l + 1
        BY <1>4
      <3>2. CASE i = l + 1
        <4>1. i + 1 = l + 2
          BY <1>4, <3>2
        <4> QED
          BY <1>2, <2>1, <4>1
      <3>3. CASE i = l
        <4>1. i \in 1 .. l /\ l # 0
          BY <1>4, <3>3
        <4> QED
          BY <1>6, <2>1, <2>8, <3>3, <4>1
      <3>4. CASE i # l + 1 /\ i # l
        <4>1. i \in 1 .. l - 1 /\ i + 1 \in 1 .. l /\ i \in 1 .. l
          BY <1>4, <3>1, <3>4
        <4> QED
          BY <1>6, <2>1, <2>8, <4>1
      <3> QED
        BY <3>2, <3>3, <3>4
    <2>9. ASSUME NEW i \in 1 .. l + 2, new.rows[i].type # Unused
          PROVE  \E q \in 1 .. k : new.rows[i] = sorted[q]
      <3>1. CASE i = l + 2
        <4>1. k \in 1 .. k
          BY <1>1
        <4> QED
          BY <2>1, <3>1, <4>1 DEF p
      <3>2. CASE i # l + 2
        <4>1. i \in 1 .. l /\ new.rows[i] = acc.rows[i]
          BY <2>1, <2>4, <2>5, <2>9, <3>2
        <4>2. PICK q \in 1 .. k - 1 : acc.rows[i] = sorted[q]
          BY <1>6, <2>0, <2>9, <4>1
        <4>3. q \in 1 .. k
          BY <1>1
        <4> QED
          BY <4>1, <4>2, <4>3
      <3> QED
        BY <3>1, <3>2
    <2>10. l + 2 > 0 /\ new.rows[l + 2] = sorted[k] /\ new.rows[l + 2].type # Unused
      BY <1>2, <1>4, <2>1 DEF p
    <2>11. new.start >= 1
      BY <1>3, <2>0, <1>2
    <2> QED
      BY <1>1, <2>1, <2>6, <2>7, <2>8, <2>9, <2>10, <2>11 DEF Basic
  <1> QED
    BY <1>8, <1>9, <1>10, <1>11 DEF Turn, p

(* If what the loop has made are rows apart from each other, it has made   *)
(* them without a gap, from sector 1 on.                                   *)
End(p) == p.rel + p.num
RowsApart(rows) ==
  \A i, j \in 1 .. Len(rows) :
    i # j => ~(rows[i].rel <= rows[j].rel /\ rows[j].rel < End(rows[i]))
Tiling(rows) ==
  /\ Len(rows) > 0 => rows[1].rel = 1
  /\ \A i \in 1 .. Len(rows) - 1 : rows[i + 1].rel = End(rows[i])
  /\ \A i, j \in 1 .. Len(rows) : i < j => End(rows[i]) <= rows[j].rel
Reached(rows) == IF Len(rows) = 0 THEN 1 ELSE End(rows[Len(rows)])
Laid(acc, sorted, k) ==
  LET rows == acc.rows
      l == Len(acc.rows)
  IN  RowsApart(rows) =>
        /\ Tiling(rows)
        /\ ~acc.full => acc.start = Reached(rows)
        /\ acc.full => /\ l > 0 /\ rows[l].rel <= sorted[k].rel
                       /\ End(rows[l]) = DiskEnd
InOrder(sorted, n) ==
  \A i, j \in 1 .. n : i < j => sorted[i].rel <= sorted[j].rel

(* Rows that are apart were apart when there were fewer of them.           *)
LEMMA ApartBefore ==
  ASSUME NEW new \in Seq(Row), NEW old \in Seq(Row), RowsApart(new),
         Len(old) <= Len(new), \A i \in 1 .. Len(old) : new[i] = old[i]
  PROVE  RowsApart(old)
  <1>1. Len(old) \in Nat /\ Len(new) \in Nat
    OBVIOUS
  <1>2. \A i \in 1 .. Len(old) : i \in 1 .. Len(new)
    BY <1>1
  <1> QED
    BY <1>2 DEF RowsApart

(* A row that begins where the last one ends continues the tiling.         *)
LEMMA TilingPlus ==
  ASSUME NEW new \in Seq(Row), NEW old \in Seq(Row), NEW x \in Row,
         Plus(new, old, x), Tiling(old), x.rel = Reached(old)
  PROVE  Tiling(new) /\ Reached(new) = End(x)
  <1> DEFINE l == Len(old)
  <1>1. l \in Nat /\ Len(new) = l + 1 /\ new[l + 1] = x
        /\ \A i \in 1 .. l : new[i] = old[i]
    BY DEF Plus
  <1>2. \A i \in 1 .. l : old[i].rel \in Nat /\ old[i].num \in Nat
    BY RowFields
  <1>3. /\ l > 0 => old[1].rel = 1
        /\ \A i \in 1 .. l - 1 : old[i + 1].rel = End(old[i])
        /\ \A i, j \in 1 .. l : i < j => End(old[i]) <= old[j].rel
        /\ x.rel = IF l = 0 THEN 1 ELSE End(old[l])
    BY DEF Tiling, Reached
  <1> HIDE DEF l
  <1>4. ASSUME NEW i \in 1 .. l PROVE End(old[i]) <= x.rel
    <2>1. x.rel = End(old[l]) /\ l \in 1 .. l
      BY <1>1, <1>3
    <2>2. CASE i = l
      BY <1>2, <2>1, <2>2 DEF End
    <2>3. CASE i # l
      <3>1. i < l
        BY <1>1, <2>3
      <3>2. End(old[i]) <= old[l].rel
        BY <1>3, <2>1, <3>1
      <3>3. /\ old[l].rel \in Nat /\ old[l].num \in Nat
            /\ old[i].rel \in Nat /\ old[i].num \in Nat
        BY <1>2, <2>1
      <3>4. x.rel = old[l].rel + old[l].num /\ End(old[i]) \in Nat
        BY <2>1, <3>3 DEF End
      <3> QED
        BY <3>2, <3>3, <3>4
    <2> QED
      BY <2>2, <2>3
  <1>5. l + 1 > 0 => new[1].rel = 1
    <2>1. CASE l = 0
      BY <1>1, <1>3, <2>1
    <2>2. CASE l # 0
      <3>1. 1 \in 1 .. l /\ l > 0
        BY <1>1, <2>2
      <3> QED
        BY <1>1, <1>3, <3>1
    <2> QED
      BY <2>1, <2>2
  <1>6. ASSUME NEW i \in 1 .. (l + 1) - 1 PROVE new[i + 1].rel = End(new[i])
    <2>1. i \in 1 .. l /\ new[i] = old[i]
      BY <1>1
    <2>2. CASE i = l
      BY <1>1, <1>3, <2>1, <2>2
    <2>3. CASE i # l
      <3>1. i \in 1 .. l - 1 /\ i + 1 \in 1 .. l
        BY <1>1, <2>1, <2>3
      <3> QED
        BY <1>1, <1>3, <2>1, <3>1
    <2> QED
      BY <2>2, <2>3
  <1>7. ASSUME NEW i \in 1 .. l + 1, NEW j \in 1 .. l + 1, i < j
        PROVE  End(new[i]) <= new[j].rel
    <2>1. i \in 1 .. l /\ new[i] = old[i]
      BY <1>1, <1>7
    <2>2. CASE j = l + 1
      BY <1>1, <1>4, <2>1, <2>2
    <2>3. CASE j # l + 1
      <3>1. j \in 1 .. l
        BY <1>1, <2>3
      <3> QED
        BY <1>1, <1>3, <1>7, <2>1, <3>1
    <2> QED
      BY <2>2, <2>3
  <1>8. Tiling(new)
    BY <1>1, <1>5, <1>6, <1>7 DEF Tiling
  <1>9. Reached(new) = End(x)
    BY <1>1 DEF Reached
  <1> QED
    BY <1>8, <1>9

(* The tiling is kept by one turn.                                         *)
LEMMA LaidTurns ==
  ASSUME NEW n \in 0 .. NumRows, NEW sorted \in [Rows -> Row],
         Arrangeable(sorted, n), InOrder(sorted, n),
         NEW acc \in Filling(n), NEW new \in Filling(n), NEW k \in 1 .. n,
         Basic(acc, sorted, k - 1), Laid(acc, sorted, k - 1),
         k = 1 => ~acc.full,
         Turn(acc, new, sorted, n, k)
  PROVE  Laid(new, sorted, k)
  <1> DEFINE p == sorted[k]
             l == Len(acc.rows)
  <1>1. Rows = 1 .. NumRows /\ NumRows \in Nat /\ k \in Rows /\ k \in Nat
    BY NumberBounds DEF Rows
  <1>2. /\ p \in Row /\ p.rel \in Nat /\ p.num \in Nat
        /\ p.rel >= 1 /\ p.num >= 1 /\ p.rel + p.num <= DiskEnd /\ DiskEnd \in Nat
    <2>1. p \in Row /\ OnDisk(p)
      BY <1>1 DEF Arrangeable
    <2> QED
      BY <2>1, RowFields, NumberBounds DEF OnDisk
  <1>3. /\ acc.rows \in Seq(Row) /\ new.rows \in Seq(Row) /\ l \in Nat
        /\ acc.start \in Nat /\ acc.spare \in n .. NumRows
        /\ \A i \in 1 .. l : acc.rows[i].rel \in Nat /\ acc.rows[i].num \in Nat
    BY <1>1, RowFields DEF Filling
  <1>4. SUFFICES ASSUME RowsApart(new.rows)
                 PROVE  /\ Tiling(new.rows)
                        /\ ~new.full => new.start = Reached(new.rows)
                        /\ new.full =>
                             /\ Len(new.rows) > 0
                             /\ new.rows[Len(new.rows)].rel <= sorted[k].rel
                             /\ End(new.rows[Len(new.rows)]) = DiskEnd
    BY DEF Laid
  <1>5. RowsApart(acc.rows)
    <2>1. Len(acc.rows) <= Len(new.rows) /\ \A i \in 1 .. l : new.rows[i] = acc.rows[i]
      BY <1>3
      DEF Turn, Goes, Joins, Fills, LeavesGap, Plus, PlusTwo
    <2> QED
      BY <1>3, <1>4, <2>1, ApartBefore
  <1>6. /\ Tiling(acc.rows)
        /\ ~acc.full => acc.start = Reached(acc.rows)
        /\ acc.full => /\ l > 0 /\ acc.rows[l].rel <= sorted[k - 1].rel
                       /\ End(acc.rows[l]) = DiskEnd
    BY <1>5 DEF Laid
  <1>7. k # 1 => k - 1 \in 1 .. n /\ k - 1 # 0 /\ sorted[k - 1].rel <= p.rel
        /\ sorted[k - 1].rel \in Nat
    <2>1. ASSUME k # 1 PROVE k - 1 \in 1 .. n /\ k - 1 < k /\ k - 1 \in Rows /\ k - 1 # 0
      BY <1>1, <2>1
    <2>2. k # 1 => sorted[k - 1].rel \in Nat
      BY <2>1, RowFields
    <2> QED
      BY <2>1, <2>2 DEF InOrder
  <1>8. /\ k = 1 => l = 0
        /\ k # 1 => l > 0 /\ (~acc.full => acc.rows[l] = sorted[k - 1])
    <2>1. k = 1 => k - 1 = 0
      BY <1>1
    <2> QED
      BY <1>7, <2>1 DEF Basic
  <1> HIDE DEF p, l
  <1>9. CASE Goes(acc, new, p)
    <2>1. /\ acc.full /\ Len(new.rows) = l + 1 /\ new.rows[l + 1] = p
          /\ \A i \in 1 .. l : new.rows[i] = acc.rows[i]
      BY <1>9 DEF Goes, Plus, l
    <2>2. l > 0 /\ acc.rows[l].rel <= p.rel /\ p.rel < End(acc.rows[l]) /\ l \in 1 .. l
      <3>1. l > 0 /\ l \in 1 .. l /\ k # 1
        BY <1>3, <1>6, <2>1
      <3>2. acc.rows[l].rel <= p.rel
        <4>1. acc.rows[l].rel <= sorted[k - 1].rel /\ acc.rows[l].rel \in Nat
          BY <1>3, <1>6, <2>1, <3>1
        <4>2. sorted[k - 1].rel <= p.rel /\ sorted[k - 1].rel \in Nat
          BY <1>7, <3>1
        <4> QED
          BY <1>2, <4>1, <4>2
      <3> QED
        BY <1>2, <1>6, <2>1, <3>1, <3>2
    <2>3. l \in 1 .. l + 1 /\ l + 1 \in 1 .. l + 1 /\ l # l + 1
      BY <1>3, <2>2
    <2>4. ~(new.rows[l].rel <= new.rows[l + 1].rel
            /\ new.rows[l + 1].rel < End(new.rows[l]))
      BY <1>4, <2>1, <2>3 DEF RowsApart
    <2> QED
      BY <2>1, <2>2, <2>4
  <1>10. CASE Joins(acc, new, p)
    <2>1. /\ ~acc.full /\ ~new.full /\ p.rel <= acc.start /\ Plus(new.rows, acc.rows, p)
          /\ new.start = Later(acc.start, p.rel + p.num)
      BY <1>10 DEF Joins
    <2>2. p.rel = acc.start
      <3>1. CASE l = 0
        BY <1>2, <1>3, <1>6, <2>1, <3>1 DEF Reached, l
      <3>2. CASE l # 0
        <4>1. Len(new.rows) = l + 1 /\ new.rows[l + 1] = p
              /\ \A i \in 1 .. l : new.rows[i] = acc.rows[i]
          BY <2>1 DEF Plus, l
        <4>2. l \in 1 .. l /\ l \in 1 .. l + 1 /\ l + 1 \in 1 .. l + 1 /\ l # l + 1
          BY <1>3, <3>2
        <4>3. ~(new.rows[l].rel <= new.rows[l + 1].rel
                /\ new.rows[l + 1].rel < End(new.rows[l]))
          BY <1>4, <4>1, <4>2 DEF RowsApart
        <4>4. acc.rows[l] = sorted[k - 1] /\ sorted[k - 1].rel <= p.rel
          BY <1>7, <1>8, <2>1, <3>2
        <4>5. ~(p.rel < End(acc.rows[l]))
          BY <4>1, <4>2, <4>3, <4>4
        <4>6. acc.start = End(acc.rows[l])
          BY <1>6, <2>1, <3>2 DEF Reached, l
        <4> QED
          BY <1>2, <1>3, <2>1, <4>5, <4>6
      <3> QED
        BY <3>1, <3>2
    <2>3. Tiling(new.rows) /\ Reached(new.rows) = End(p)
      BY <1>2, <1>3, <1>6, <2>1, <2>2, TilingPlus
    <2>4. new.start = End(p)
      BY <1>2, <1>3, <2>1, <2>2 DEF Later, End
    <2> QED
      BY <2>1, <2>3, <2>4
  <1>11. CASE Fills(acc, new, n, p, Filler(acc, p))
    <2> DEFINE x == Filler(acc, p)
    <2>1. /\ ~acc.full /\ new.full /\ p.rel > acc.start /\ Plus(new.rows, acc.rows, x)
      BY <1>11 DEF Fills
    <2>2. acc.start < DiskEnd /\ acc.start >= 1
      BY <1>2, <1>3, <2>1 DEF Basic
    <2>3. x = Gap(p, acc.start, DiskEnd)
      BY <2>2 DEF Filler
    <2>4. x \in Row
      <3>1. DiskEnd \in Numbers /\ acc.start <= DiskEnd
        BY <1>2, <1>3, <2>2, NumberBounds
      <3> QED
        BY <1>2, <1>3, <2>3, <3>1, GapType
    <2>5. x.rel = acc.start /\ End(x) = DiskEnd
      BY <1>2, <1>3, <2>2, <2>3, GapOnDisk DEF End
    <2> HIDE DEF x
    <2>6. Tiling(new.rows) /\ Reached(new.rows) = End(x)
      BY <1>3, <1>6, <2>1, <2>4, <2>5, TilingPlus
    <2>7. Len(new.rows) = l + 1 /\ new.rows[l + 1] = x /\ Len(new.rows) > 0
      BY <1>3, <2>1 DEF Plus, l
    <2> QED
      BY <1>2, <1>3, <2>1, <2>5, <2>6, <2>7 DEF p
  <1>12. CASE LeavesGap(acc, new, n, GapBefore(acc, sorted, p), p)
    <2> DEFINE g == GapBefore(acc, sorted, p)
               mid == Append(acc.rows, g)
    <2>1. /\ ~acc.full /\ ~new.full /\ p.rel > acc.start
          /\ PlusTwo(new.rows, acc.rows, g, p) /\ new.start = p.rel + p.num
          /\ acc.spare # n
      BY <1>12 DEF LeavesGap
    <2>2. acc.start >= 1 /\ acc.spare \in Rows
      BY <1>1, <1>3, <2>1 DEF Basic
    <2>3. g = Gap(sorted[acc.spare], acc.start, p.rel)
      BY DEF GapBefore
    <2>4. g \in Row /\ g.rel = acc.start /\ End(g) = p.rel
      <3>1. sorted[acc.spare] \in Row /\ p.rel <= DiskEnd /\ acc.start <= p.rel
            /\ p.rel \in Numbers
        BY <1>2, <1>3, <2>1, <2>2, RowFields
      <3>2. g \in Row
        BY <1>3, <2>3, <3>1, GapType
      <3> QED
        BY <1>2, <1>3, <2>1, <2>2, <2>3, <3>1, <3>2, GapOnDisk DEF End
    <2> HIDE DEF g
    <2>5. mid \in Seq(Row) /\ Plus(mid, acc.rows, g)
      BY <1>3, <2>4, Longer
    <2>6. Tiling(mid) /\ Reached(mid) = End(g)
      <3> HIDE DEF mid
      <3> QED
        BY <1>3, <1>6, <2>1, <2>4, <2>5, TilingPlus
    <2>7. Plus(new.rows, mid, p)
      <3> HIDE DEF mid
      <3>1. Len(mid) = l + 1 /\ mid[l + 1] = g
            /\ \A i \in 1 .. l : mid[i] = acc.rows[i]
        BY <2>5 DEF Plus, l
      <3>2. Len(new.rows) = l + 2 /\ new.rows[l + 1] = g /\ new.rows[l + 2] = p
            /\ \A i \in 1 .. l : new.rows[i] = acc.rows[i]
        BY <2>1 DEF PlusTwo, l
      <3>3. \A i \in 1 .. l + 1 : i = l + 1 \/ i \in 1 .. l
        BY <1>3
      <3>4. \A i \in 1 .. l + 1 : new.rows[i] = mid[i]
        BY <3>1, <3>2, <3>3
      <3>5. l + 1 + 1 = l + 2
        BY <1>3
      <3> QED
        BY <3>1, <3>2, <3>4, <3>5 DEF Plus
    <2> HIDE DEF mid
    <2>8. Tiling(new.rows) /\ Reached(new.rows) = End(p)
      BY <1>2, <1>3, <2>4, <2>5, <2>6, <2>7, TilingPlus
    <2> QED
      BY <2>1, <2>8 DEF End
  <1> QED
    BY <1>9, <1>10, <1>11, <1>12 DEF Turn, p

(* A sum that is not cut off.                                              *)
LEMMA WrapSmall ==
  ASSUME NEW n \in Numbers
  PROVE  Wrap(n) = n
  <1> DEFINE top == Half * Half
  <1>1. top \in Nat \ {0} /\ n \in 0 .. top - 1
    <2>1. Half \in Nat \ {0}
      BY TableConstants
    <2> QED
      BY <2>1 DEF Numbers
  <1>2. Wrap(n) = n % top
    BY DEF Wrap
  <1> HIDE DEF top
  <1>3. n = top * (n \div top) + (n % top) /\ n \div top \in Int /\ n % top \in 0 .. top - 1
    BY <1>1, ModRange
  <1>4. n \div top = 0
    <2> DEFINE q == n \div top
               m == n % top
    <2>1. n = top * q + m /\ q \in Int /\ m \in 0 .. top - 1
      BY <1>3
    <2> HIDE DEF q, m
    <2>2. q >= 1 => top * q >= top
      BY <1>1, <2>1
    <2>3. q <= -1 => top * q <= -top
      BY <1>1, <2>1
    <2>4. q = 0
      BY <1>1, <2>1, <2>2, <2>3
    <2> QED
      BY <2>4 DEF q
  <1> QED
    BY <1>1, <1>2, <1>3, <1>4

(* Partitions on the disk that a valid table has do not reach each other.  *)
LEMMA SoundApart ==
  ASSUME NEW t \in [Rows -> Row], SoundRows(t), NEW q \in Rows, NEW r \in Rows,
         q # r, OnDisk(t[q]), OnDisk(t[r])
  PROVE  ~(t[q].rel <= t[r].rel /\ t[r].rel < End(t[q]))
  <1>1. /\ t[q].rel \in Nat /\ t[q].num \in Nat /\ t[q].rel >= 1 /\ t[q].num >= 1
        /\ t[q].rel + t[q].num <= DiskEnd /\ t[r].rel \in Nat
        /\ t[r].rel >= 1 /\ DiskEnd \in Nat
    BY RowFields, NumberBounds DEF OnDisk
  <1>2. t[q].rel + t[q].num - 1 \in Numbers
    BY <1>1, NumberBounds
  <1>3. Wrap(t[q].rel + t[q].num - 1) = t[q].rel + t[q].num - 1
    BY <1>2, WrapSmall
  <1>4. ~IsEmpty(t[q]) /\ ~IsEmpty(t[r]) /\ DOMAIN t = Rows
    BY <1>1 DEF IsEmpty
  <1>5. ~Reaches(t[q], t[r].rel)
    BY <1>4 DEF SoundRows
  <1> QED
    BY <1>1, <1>3, <1>5 DEF Reaches, End

(* An arranged table has the rows of the table it is made of, gaps, and at *)
(* the end the unused rows that are left.  If it is valid, it goes from    *)
(* sector 1 to the end of the disk.                                        *)
UsedOnDisk(t) == \A r \in Rows : t[r].type # Unused => OnDisk(t[r])
Shape(new, t, l) ==
  /\ new \in [Rows -> Row] /\ l \in 0 .. NumRows
  /\ \A r \in Rows : \E q \in Rows : SameRow(new[r], t[q])
  /\ \A q \in Rows : t[q].type # Unused =>
       \E r \in Rows : SameRow(new[r], t[q])
  /\ \A r \in Rows : r <= l => OnDisk(new[r])
  /\ \A r \in Rows : r > l =>
       /\ new[r].type = Unused /\ (new[r].num = 0 => new[r].rel = 0)
       /\ new[r].num # 0 => r = l + 1 /\ OnDisk(new[r])
  /\ \A r \in Rows : r + 1 \in Rows /\ new[r].type = Unused
                     /\ new[r + 1].type = Unused => new[r + 1].num = 0
Tiled(t) ==
  /\ t[1].num # 0 => t[1].rel = 1
  /\ \A r \in Rows : r + 1 \in Rows /\ t[r + 1].num # 0 => t[r + 1].rel = End(t[r])
  /\ \A q, r \in Rows : q < r /\ t[r].num # 0 => End(t[q]) <= t[r].rel

(* What a sorted table of partitions on the disk gives to the loop.        *)
LEMMA SortedFacts ==
  ASSUME NEW t \in [Rows -> Row], UsedOnDisk(t)
  PROVE  LET n == Cardinality(Used(t))
         IN  /\ Arrangeable(Sorted(t), n) /\ InOrder(Sorted(t), n)
             /\ \A k \in Rows : \E q \in Rows : Sorted(t)[k] = t[q]
             /\ \A q \in Rows : \E k \in Rows : Sorted(t)[k] = t[q]
  <1> DEFINE n == Cardinality(Used(t))
  <1>1. PICK p : /\ IsPermutation(p, NumRows)
                 /\ Sorted(t) = [k \in Rows |-> t[p[k]]]
                 /\ \A i, j \in Rows : i < j => Precedes(t, p[i], p[j])
    BY SortedPermutes
  <1>2. Rows = 1 .. NumRows /\ NumRows \in Nat
    BY NumberBounds DEF Rows
  <1>3. \A k \in Rows : p[k] \in Rows /\ Sorted(t)[k] = t[p[k]]
    BY <1>1, <1>2 DEF IsPermutation
  <1>4. n \in 0 .. NumRows /\ \A k \in Rows : Sorted(t)[k].type # Unused <=> k <= n
    BY UsedFirst
  <1> HIDE DEF n
  <1>5. Arrangeable(Sorted(t), n)
    <2>1. ASSUME NEW q \in 1 .. n
          PROVE  Sorted(t)[q].type # Unused /\ OnDisk(Sorted(t)[q])
      <3>1. q \in Rows /\ q <= n
        BY <1>2, <1>4
      <3> QED
        BY <1>3, <1>4, <3>1 DEF UsedOnDisk
    <2>2. ASSUME NEW q \in Rows, q > n PROVE Sorted(t)[q].type = Unused
      <3>1. ~(q <= n)
        BY <1>2, <1>4, <2>2
      <3> QED
        BY <1>4, <3>1
    <2> QED
      BY <2>1, <2>2 DEF Arrangeable
  <1>6. InOrder(Sorted(t), n)
    <2>1. ASSUME NEW i \in 1 .. n, NEW j \in 1 .. n, i < j
          PROVE  Sorted(t)[i].rel <= Sorted(t)[j].rel
      <3>1. i \in Rows /\ j \in Rows /\ i <= n /\ j <= n
        BY <1>2, <1>4
      <3>2. t[p[i]].type # Unused /\ t[p[j]].type # Unused /\ Precedes(t, p[i], p[j])
        BY <1>1, <1>3, <1>4, <2>1, <3>1
      <3>3. t[p[i]].rel \in Nat /\ t[p[j]].rel \in Nat
        BY <1>3, <3>1, RowFields
      <3>4. t[p[i]].rel <= t[p[j]].rel
        BY <3>2, <3>3 DEF Precedes, StartsBefore
      <3> QED
        BY <1>3, <3>1, <3>4
    <2> QED
      BY <2>1 DEF InOrder
  <1>7. \A q \in Rows : \E k \in Rows : Sorted(t)[k] = t[q]
    BY <1>1, <1>2, <1>3 DEF IsPermutation
  <1> QED
    BY <1>3, <1>5, <1>6, <1>7 DEF n

(* What is kept by each turn holds after the last one.                     *)
LEMMA BasicAll ==
  ASSUME NEW t \in [Rows -> Row], UsedOnDisk(t), NEW n, NEW after,
         FillSteps(t, n, after)
  PROVE  \A k \in 0 .. n : Basic(after[k], Sorted(t), k) /\ Laid(after[k], Sorted(t), k)
                           /\ (k = 0 => ~after[k].full)
  <1> DEFINE s == Sorted(t)
             G == {k \in 0 .. n : /\ Basic(after[k], s, k) /\ Laid(after[k], s, k)
                                  /\ (k = 0 => ~after[k].full)}
  <1>1. /\ n = Cardinality(Used(t)) /\ n \in 0 .. NumRows /\ n \in Nat
        /\ after[0] = NoneYet
        /\ \A k \in 0 .. n : after[k] \in Filling(n)
        /\ \A k \in 1 .. n : after[k] = Placed(after[k - 1], s, n, k)
    BY NumberBounds DEF FillSteps
  <1>2. s \in [Rows -> Row] /\ Arrangeable(s, n) /\ InOrder(s, n)
    BY <1>1, SortedType, SortedFacts
  <1> HIDE DEF s
  <1>3. 0 \in G
    <2>1. NoneYet.start = 1 /\ Len(NoneYet.rows) = 0 /\ ~NoneYet.full
          /\ NoneYet.full = FALSE
      BY DEF NoneYet
    <2>2. Basic(NoneYet, s, 0)
      BY <2>1 DEF Basic
    <2>3. Laid(NoneYet, s, 0)
      BY <2>1 DEF Laid, Tiling, Reached
    <2>4. 0 \in 0 .. n
      BY <1>1
    <2> QED
      BY <1>1, <2>1, <2>2, <2>3, <2>4
  <1>4. ASSUME NEW k \in 1 .. n, k - 1 \in G PROVE k \in G
    <2>1. k - 1 \in 0 .. n /\ k \in 0 .. n /\ k # 0
      BY <1>1
    <2>2. /\ Basic(after[k - 1], s, k - 1) /\ Laid(after[k - 1], s, k - 1)
          /\ (k - 1 = 0 => ~after[k - 1].full)
      BY <1>4
    <2>3. after[k - 1] \in Filling(n) /\ after[k] \in Filling(n)
      BY <1>1, <2>1
    <2>4. Turn(after[k - 1], after[k], s, n, k)
      BY <1>1, <1>2, <2>3, PlacedTurn
    <2>5. Basic(after[k], s, k)
      BY <1>1, <1>2, <2>2, <2>3, <2>4, BasicTurns
    <2>6. k = 1 => ~after[k - 1].full
      BY <2>2
    <2>7. Laid(after[k], s, k)
      BY <1>1, <1>2, <2>2, <2>3, <2>4, <2>6, LaidTurns
    <2> QED
      BY <2>1, <2>5, <2>7
  <1>5. \A k \in 0 .. n : k \in G
    <2> HIDE DEF G
    <2> QED
      BY <1>1, <1>3, <1>4, Turns
  <1> QED
    BY <1>5 DEF s

(* The shape of an arranged table.                                         *)
LEMMA AdjustedShape ==
  ASSUME NEW t \in [Rows -> Row], UsedOnDisk(t)
  PROVE  /\ \E l : Shape(Adjusted(t), t, l)
         /\ SoundRows(Adjusted(t)) => Tiled(Adjusted(t))
  <1>1. PICK n, after : FillSteps(t, n, after) /\ Completes(Adjusted(t), t, n, after[n])
    BY AdjustedSteps
  <1> DEFINE s == Sorted(t)
             end == after[n]
             new == Adjusted(t)
             l == Len(end.rows)
  <1>2. Rows = 1 .. NumRows /\ NumRows \in Nat
    BY NumberBounds DEF Rows
  <1>3. /\ n \in 0 .. NumRows /\ n \in 0 .. n /\ end \in Filling(n)
        /\ n = Cardinality(Used(t))
    BY <1>1, <1>2 DEF FillSteps
  <1>4. Basic(end, s, n) /\ Laid(end, s, n)
    BY <1>1, <1>3, BasicAll
  <1>5. /\ s \in [Rows -> Row] /\ Arrangeable(s, n)
        /\ \A k \in Rows : \E q \in Rows : s[k] = t[q]
        /\ \A q \in Rows : \E k \in Rows : s[k] = t[q]
    BY <1>3, SortedType, SortedFacts
  <1>6. /\ end.rows \in Seq(Row) /\ end.start \in Nat /\ end.spare \in n .. NumRows
        /\ end.start >= 1 /\ l \in Nat /\ l = n + NumRows - end.spare
        /\ l <= NumRows
    BY <1>1, <1>2, <1>3, <1>4 DEF Filling, Basic, Completes
  <1>7. /\ new \in [Rows -> Row]
        /\ \A r \in Rows : r <= l => new[r] = end.rows[r]
        /\ \A r \in Rows : r > l =>
             /\ r - l \in 1 .. end.spare - n
             /\ n + (r - l) \in Rows
             /\ new[r] = LeftOver(t, n, end, r - l)
    BY <1>1 DEF Completes
  <1>8. /\ \A i \in 1 .. l : Comes(end.rows[i], s)
        /\ \A q \in 1 .. n : \E i \in 1 .. l : SameRow(end.rows[i], s[q])
        /\ \A i \in 1 .. l - 1 : end.rows[i].type = Unused =>
                                  end.rows[i + 1].type # Unused
        /\ n # 0 => l > 0
        /\ l > 0 => end.rows[l].type # Unused
    BY <1>4, <1>6 DEF Basic
  <1>s. s = Sorted(t)
    OBVIOUS
  <1> HIDE DEF s, end, new, l
  <1>9. ASSUME NEW r \in Rows, r > l
        PROVE  /\ new[r].type = Unused
               /\ \E q \in Rows : SameRow(new[r], s[q])
               /\ \/ r = l + 1 /\ OnDisk(new[r]) /\ new[r].rel = end.start
                  \/ new[r].rel = 0 /\ new[r].num = 0
    <2> DEFINE k == r - l
               p == s[n + k]
    <2>0. k \in 1 .. end.spare - n /\ n + k \in Rows
          /\ new[r] = LeftOver(t, n, end, k)
      BY <1>7, <1>9
    <2>m. r \in Nat /\ l \in Nat /\ n \in Nat /\ end.spare \in Nat
      BY <1>2, <1>3, <1>6
    <2>1. k \in 1 .. end.spare - n /\ n + k \in Rows /\ n + k > n
          /\ new[r] = LeftOver(t, n, end, k) /\ (k = 1 <=> r = l + 1)
      <3>1. k >= 1 /\ k \in Int
        BY <2>0, <2>m
      <3>2. n + k > n
        BY <2>m, <3>1
      <3>3. k = 1 <=> r = l + 1
        BY <2>m
      <3> QED
        BY <2>0, <3>2, <3>3
    <2>2. p \in Row /\ p.type = Unused /\ DiskEnd \in Nat
      BY <1>5, <2>1, NumberBounds DEF Arrangeable
    <2>3. CASE k = 1 /\ end.start < DiskEnd
      <3>1. new[r] = Gap(p, end.start, DiskEnd)
        BY <1>s, <2>1, <2>3 DEF LeftOver
      <3>2. /\ OnDisk(new[r]) /\ SameRow(new[r], p) /\ new[r].rel = end.start
        BY <1>6, <2>2, <2>3, <3>1, GapOnDisk
      <3> HIDE DEF k
      <3> QED
        BY <2>1, <2>2, <2>3, <3>2 DEF SameRow
    <2>4. CASE ~(k = 1 /\ end.start < DiskEnd)
      <3>1. new[r] = Gap(p, 0, 0)
        BY <1>s, <2>1, <2>4 DEF LeftOver
      <3>2. new[r].rel = 0 /\ new[r].num = 0 /\ SameRow(new[r], p)
        BY <2>2, <3>1 DEF Gap, Row, SameRow
      <3> HIDE DEF k
      <3> QED
        BY <2>1, <2>2, <3>2 DEF SameRow
    <2> QED
      BY <2>3, <2>4
  <1>10. ASSUME NEW r \in Rows, r <= l
         PROVE  /\ r \in 1 .. l /\ new[r] = end.rows[r] /\ OnDisk(new[r])
                /\ \E q \in Rows : SameRow(new[r], s[q])
    <2>1. r \in 1 .. l
      BY <1>2, <1>6, <1>10
    <2> QED
      BY <1>7, <1>8, <1>10, <2>1 DEF Comes
  <1>11. \A r \in Rows : r <= l \/ r > l
    BY <1>2, <1>6
  <1>12. Shape(new, t, l)
    <2>1. ASSUME NEW r \in Rows PROVE \E q \in Rows : SameRow(new[r], t[q])
      <3>1. PICK k \in Rows : SameRow(new[r], s[k])
        BY <1>9, <1>10, <1>11
      <3> QED
        BY <1>5, <3>1
    <2>2. ASSUME NEW q \in Rows, t[q].type # Unused
          PROVE  \E r \in Rows : SameRow(new[r], t[q])
      <3>1. PICK k \in Rows : s[k] = t[q]
        BY <1>5
      <3>2. k \in 1 .. n
        <4>1. ~(k > n)
          BY <1>5, <2>2, <3>1 DEF Arrangeable
        <4> QED
          BY <1>2, <1>3, <4>1
      <3>3. PICK i \in 1 .. l : SameRow(end.rows[i], s[k])
        BY <1>8, <3>2
      <3>4. i \in Rows /\ i <= l
        BY <1>2, <1>6
      <3> QED
        BY <1>10, <3>1, <3>3, <3>4
    <2>3. ASSUME NEW r \in Rows, r > l
          PROVE  /\ new[r].type = Unused /\ (new[r].num = 0 => new[r].rel = 0)
                 /\ new[r].num # 0 => r = l + 1 /\ OnDisk(new[r])
      <3>1. OnDisk(new[r]) => new[r].num # 0
        BY <1>7, RowFields DEF OnDisk
      <3> QED
        BY <1>9, <2>3, <3>1
    <2>4. ASSUME NEW r \in Rows, r + 1 \in Rows, new[r].type = Unused,
                 new[r + 1].type = Unused
          PROVE  new[r + 1].num = 0
      <3>1. CASE r + 1 <= l
        <4>1. r \in 1 .. l - 1 /\ r + 1 \in 1 .. l /\ r <= l
          BY <1>2, <1>6, <3>1
        <4> QED
          BY <1>8, <1>10, <2>4, <3>1, <4>1
      <3>2. CASE r + 1 > l
        <4>1. CASE r <= l
          <5>1. r = l /\ l > 0
            BY <1>2, <1>6, <3>2, <4>1
          <5> QED
            BY <1>8, <1>10, <2>4, <4>1, <5>1
        <4>2. CASE r > l
          <5>1. r + 1 # l + 1
            BY <1>2, <1>6, <4>2
          <5> QED
            BY <1>9, <2>4, <3>2, <5>1
        <4> QED
          BY <1>11, <4>1, <4>2
      <3> QED
        BY <1>11, <2>4, <3>1, <3>2
    <2>5. l \in 0 .. NumRows
      BY <1>2, <1>6
    <2> QED
      BY <1>7, <1>10, <2>1, <2>2, <2>3, <2>4, <2>5 DEF Shape
  <1>13. ASSUME SoundRows(new) PROVE Tiled(new)
    <2>1. RowsApart(end.rows)
      <3> SUFFICES ASSUME NEW i \in 1 .. l, NEW j \in 1 .. l, i # j
                   PROVE  ~(end.rows[i].rel <= end.rows[j].rel
                            /\ end.rows[j].rel < End(end.rows[i]))
        BY DEF RowsApart, l
      <3>1. i \in Rows /\ j \in Rows /\ i <= l /\ j <= l
        BY <1>2, <1>6
      <3>2. OnDisk(new[i]) /\ OnDisk(new[j])
            /\ new[i] = end.rows[i] /\ new[j] = end.rows[j]
        BY <1>10, <3>1
      <3> QED
        BY <1>7, <1>13, <3>1, <3>2, SoundApart
    <2>2. /\ Tiling(end.rows)
          /\ ~end.full => end.start = Reached(end.rows)
          /\ end.full => l > 0 /\ End(end.rows[l]) = DiskEnd
      BY <1>4, <2>1 DEF Laid, l
    <2>3. /\ l > 0 => end.rows[1].rel = 1
          /\ \A i \in 1 .. l - 1 : end.rows[i + 1].rel = End(end.rows[i])
          /\ \A i, j \in 1 .. l : i < j => End(end.rows[i]) <= end.rows[j].rel
          /\ ~end.full => end.start = IF l = 0 THEN 1 ELSE End(end.rows[l])
      BY <2>2 DEF Tiling, Reached, l
    <2>e. \A r \in Rows : /\ new[r].rel \in Nat /\ new[r].num \in Nat
                          /\ OnDisk(new[r]) => new[r].num # 0
      BY <1>7, RowFields DEF OnDisk
    (* A full table has no row left, so there is no gap at the end.        *)
    <2>4. ASSUME NEW r \in Rows, r > l, new[r].num # 0
          PROVE  /\ r = l + 1 /\ new[r].rel = end.start /\ ~end.full
      <3>1. r = l + 1 /\ OnDisk(new[r]) /\ new[r].rel = end.start
        BY <1>9, <2>4
      <3>2. ~end.full
        <4> SUFFICES ASSUME end.full PROVE FALSE
          OBVIOUS
        <4>1. l > 0 /\ End(end.rows[l]) = DiskEnd
          BY <2>2
        <4>2. l \in Rows /\ l <= l
          BY <1>2, <1>6, <4>1
        <4>3. OnDisk(new[l]) /\ new[l] = end.rows[l]
          BY <1>10, <4>2
        <4>4. ~(new[l].rel <= new[r].rel /\ new[r].rel < End(new[l]))
              /\ ~(new[r].rel <= new[l].rel /\ new[l].rel < End(new[r]))
          <5>1. l # r
            BY <1>6, <3>1
          <5> QED
            BY <1>7, <1>13, <3>1, <4>2, <4>3, <5>1, SoundApart
        <4>5. /\ new[r].rel >= 1 /\ new[r].num >= 1
              /\ new[r].rel + new[r].num <= DiskEnd
              /\ DiskEnd \in Nat
          BY <3>1, NumberBounds DEF OnDisk
        <4>6. /\ new[l].rel \in Nat /\ new[l].num \in Nat
              /\ new[r].rel \in Nat /\ new[r].num \in Nat
          BY <2>e, <4>2
        <4>7. new[l].rel + new[l].num = DiskEnd /\ new[l].num >= 1
          BY <4>1, <4>3 DEF End, OnDisk
        <4>g. LeftOver(t, n, end, 1) = new[r]
          BY <1>6, <1>7, <2>4, <3>1
        <4>8. end.start < DiskEnd /\ End(new[r]) = DiskEnd
          <5>2. n + 1 \in Rows
            BY <1>2, <1>6, <1>7, <2>4, <3>1
          <5>3. s[n + 1] \in Row
            BY <1>5, <5>2
          <5>4. end.start < DiskEnd
            <6>1. ~(end.start < DiskEnd) => new[r] = Gap(s[n + 1], 0, 0)
              BY <1>s, <4>g DEF LeftOver
            <6>2. Gap(s[n + 1], 0, 0).num = 0
              BY <5>3 DEF Gap, Row
            <6> QED
              BY <2>4, <6>1, <6>2
          <5>5. new[r] = Gap(s[n + 1], end.start, DiskEnd)
            BY <1>s, <4>g, <5>4 DEF LeftOver
          <5> QED
            BY <1>6, <4>5, <5>3, <5>4, <5>5, GapOnDisk DEF End
        <4> QED
          BY <4>4, <4>5, <4>6, <4>7, <4>8 DEF End
      <3> QED
        BY <3>1, <3>2
    <2>5. new[1].num # 0 => new[1].rel = 1
      <3>1. 1 \in Rows
        BY NumberBounds
      <3>2. CASE 1 <= l
        BY <1>6, <1>10, <2>3, <3>1, <3>2
      <3>3. CASE 1 > l
        <4>1. l = 0
          BY <1>6, <3>3
        <4> QED
          BY <2>3, <2>4, <3>1, <3>3, <4>1
      <3> QED
        BY <1>11, <3>1, <3>2, <3>3
    <2>6. ASSUME NEW r \in Rows, r + 1 \in Rows, new[r + 1].num # 0
          PROVE  new[r + 1].rel = End(new[r])
      <3>1. CASE r + 1 <= l
        <4>1. r \in 1 .. l - 1 /\ r <= l
          BY <1>2, <1>6, <3>1
        <4> QED
          BY <1>10, <2>3, <2>6, <3>1, <4>1
      <3>2. CASE r + 1 > l
        <4>1. r + 1 = l + 1 /\ new[r + 1].rel = end.start /\ ~end.full
          BY <2>4, <2>6, <3>2
        <4>2. r = l /\ r <= l /\ l # 0
          BY <1>2, <1>6, <4>1
        <4> QED
          BY <1>10, <2>3, <4>1, <4>2
      <3> QED
        BY <1>11, <2>6, <3>1, <3>2
    <2>7. ASSUME NEW q \in Rows, NEW r \in Rows, q < r, new[r].num # 0
          PROVE  End(new[q]) <= new[r].rel
      <3>1. CASE r <= l
        <4>1. q <= l
          BY <1>2, <1>6, <2>7, <3>1
        <4> QED
          BY <1>10, <2>3, <2>7, <3>1, <4>1
      <3>2. CASE r > l
        <4>1. r = l + 1 /\ new[r].rel = end.start /\ ~end.full
          BY <2>4, <2>7, <3>2
        <4>2. q <= l /\ q \in 1 .. l /\ l # 0 /\ l \in 1 .. l /\ l \in Rows
          BY <1>2, <1>6, <2>7, <4>1
        <4>3. new[r].rel = End(end.rows[l]) /\ new[q] = end.rows[q]
              /\ new[l] = end.rows[l]
          BY <1>10, <2>3, <4>1, <4>2
        <4>4. CASE q = l
          <5>1. End(new[q]) \in Nat
            BY <2>e DEF End
          <5> QED
            BY <4>3, <4>4, <5>1
        <4>5. CASE q # l
          <5>3. q \in 1 .. l /\ l \in 1 .. l /\ q < l
            BY <1>6, <4>2, <4>5
          <5>4. \A i, j \in 1 .. l : i < j => End(end.rows[i]) <= end.rows[j].rel
            BY <2>3
          <5>1. End(end.rows[q]) <= end.rows[l].rel
            BY <5>3, <5>4
          <5>2. new[q].rel \in Nat /\ new[q].num \in Nat
                /\ new[l].rel \in Nat /\ new[l].num \in Nat
            BY <2>e, <4>2
          <5> QED
            BY <4>3, <5>1, <5>2 DEF End
        <4> QED
          BY <4>4, <4>5
      <3> QED
        BY <1>11, <3>1, <3>2
    <2> QED
      BY <2>5, <2>6, <2>7 DEF Tiled
  <1> QED
    BY <1>12, <1>13 DEF new

-------------------------------------------------------------------------------
(* Compaction.  One turn removes row i if it is unused.                    *)
Removed(u, i) ==
  IF u[i].type # Unused THEN u
  ELSE [r \in Rows |-> IF r < i THEN u[r]
                       ELSE IF r < NumRows THEN u[r + 1] ELSE NoRow]
CompactSteps(t, after) ==
  /\ after[0] = t
  /\ \A i \in 0 .. NumRows : after[i] \in [Rows -> Row]
  /\ \A i \in 1 .. NumRows : after[i] = Removed(after[i - 1], i)
From(i, r) == IF r < i THEN r ELSE r + 1

(* What removing a row leaves at each place.                               *)
LEMMA RemovedIs ==
  ASSUME NEW u \in [Rows -> Row], NEW i \in Rows, u[i].type = Unused
  PROVE  /\ Removed(u, i) \in [Rows -> Row]
         /\ \A r \in Rows : r # NumRows \/ r < i =>
              From(i, r) \in Rows /\ Removed(u, i)[r] = u[From(i, r)]
         /\ Removed(u, i)[NumRows] = NoRow
  <1> DEFINE v == [r \in Rows |-> IF r < i THEN u[r]
                             ELSE IF r < NumRows THEN u[r + 1] ELSE NoRow]
  <1>1. Rows = 1 .. NumRows /\ NumRows \in Nat /\ NumRows \in Rows
    BY NumberBounds DEF Rows
  <1>2. Removed(u, i) = v
    BY DEF Removed
  <1>3. ASSUME NEW r \in Rows
        PROVE  /\ v[r] \in Row
               /\ (r # NumRows \/ r < i => From(i, r) \in Rows /\ v[r] = u[From(i, r)])
    <2>1. CASE r < i
      BY <2>1 DEF From
    <2>2. CASE ~(r < i) /\ r < NumRows
      <3>1. r + 1 \in Rows
        BY <1>1, <2>2
      <3> QED
        BY <2>2, <3>1 DEF From
    <2>3. CASE ~(r < i) /\ ~(r < NumRows)
      <3>1. r = NumRows
        BY <1>1, <2>3
      <3> QED
        BY <2>3, <3>1, NoRowType
    <2> QED
      BY <2>1, <2>2, <2>3
  <1>4. v[NumRows] = NoRow
    <2>1. ~(NumRows < i) /\ ~(NumRows < NumRows)
      BY <1>1
    <2> QED
      BY <1>1, <2>1
  <1>5. v = [r \in Rows |-> v[r]]
    OBVIOUS
  <1> HIDE DEF v
  <1> QED
    BY <1>2, <1>3, <1>4, <1>5

(* It leaves a table.                                                      *)
LEMMA RemovedType ==
  ASSUME NEW u \in [Rows -> Row], NEW i \in Rows
  PROVE  Removed(u, i) \in [Rows -> Row]
  <1>1. CASE u[i].type # Unused
    BY <1>1 DEF Removed
  <1>2. CASE u[i].type = Unused
    BY <1>2, RemovedIs
  <1> QED
    BY <1>1, <1>2

(* Compaction is a loop of removals.                                       *)
LEMMA CompactedSteps ==
  ASSUME NEW t \in [Rows -> Row]
  PROVE  \E after : CompactSteps(t, after) /\ Compacted(t) = after[NumRows]
  <1> DEFINE S == [Rows -> Row]
             Without(u, i) ==
               IF u[i].type # Unused THEN u
               ELSE [r \in Rows |-> IF r < i THEN u[r]
                                    ELSE IF r < NumRows THEN u[r + 1] ELSE NoRow]
             after == CHOOSE h : h = [i \in 0 .. NumRows |->
                                        IF i = 0 THEN t ELSE Without(h[i - 1], i)]
             f == [x \in S \X (1 .. NumRows) |-> Without(x[1], x[2])]
  <1>1. Compacted(t) = after[NumRows]
    BY DEF Compacted
  <1>2. NumRows \in Nat /\ Rows = 1 .. NumRows
    BY NumberBounds DEF Rows
  <1>3. \A u, i : Without(u, i) = Removed(u, i)
    BY DEF Removed
  <1>4. t \in S
    OBVIOUS
  <1> HIDE DEF Without
  <1>5. f \in [S \X (1 .. NumRows) -> S]
    <2>1. \A u \in S, i \in 1 .. NumRows : Without(u, i) \in S
      BY <1>2, <1>3, RemovedType
    <2> HIDE DEF S
    <2> QED
      BY <2>1
  <1>6. PICK h \in [0 .. NumRows -> S] : IsLoop(h, t, NumRows, f)
    <2> HIDE DEF f, S
    <2> QED
      BY <1>2, <1>4, <1>5, LoopExists
  <1> HIDE DEF S
  <1>7. ASSUME NEW i \in 0 .. NumRows
        PROVE  h[i] = IF i = 0 THEN t ELSE Without(h[i - 1], i)
    <2>1. h[i] = IF i = 0 THEN t ELSE f[<<h[i - 1], i>>]
      BY <1>6 DEF IsLoop
    <2>2. CASE i # 0
      <3>1. i \in 1 .. NumRows /\ h[i - 1] \in S
        BY <1>2, <1>6, <2>2
      <3>2. f[<<h[i - 1], i>>] = Without(h[i - 1], i)
        BY <3>1
      <3> QED
        BY <2>1, <2>2, <3>2
    <2> QED
      BY <2>1, <2>2
  <1>8. h = [i \in 0 .. NumRows |-> IF i = 0 THEN t ELSE Without(h[i - 1], i)]
    <2> DEFINE g == [i \in 0 .. NumRows |-> IF i = 0 THEN t ELSE Without(h[i - 1], i)]
    <2>1. \A i \in 0 .. NumRows : h[i] = g[i]
      BY <1>7
    <2>2. DOMAIN h = 0 .. NumRows /\ h = [i \in 0 .. NumRows |-> h[i]]
      BY <1>6
    <2>3. g = [i \in 0 .. NumRows |-> g[i]]
      OBVIOUS
    <2> HIDE DEF g
    <2>4. h = g
      BY <2>1, <2>2, <2>3
    <2> QED
      BY <2>4 DEF g
  <1>9. after = [i \in 0 .. NumRows |-> IF i = 0 THEN t ELSE Without(after[i - 1], i)]
    BY <1>8
  <1>10. \A i \in 0 .. NumRows :
           after[i] = IF i = 0 THEN t ELSE Without(after[i - 1], i)
    <2> HIDE DEF after
    <2> QED
      BY <1>9
  <1> HIDE DEF after
  <1> DEFINE G == {i \in 0 .. NumRows : after[i] \in S}
  <1>11. 0 \in G
    <2>1. 0 \in 0 .. NumRows /\ after[0] = t
      BY <1>2, <1>10
    <2> QED
      BY <1>4, <2>1
  <1>12. ASSUME NEW i \in 1 .. NumRows, i - 1 \in G PROVE i \in G
    <2>1. after[i - 1] \in S /\ i \in 0 .. NumRows /\ i # 0 /\ i \in Rows
      BY <1>2, <1>12
    <2>2. after[i] = Removed(after[i - 1], i)
      BY <1>3, <1>10, <2>1
    <2>3. after[i] \in S
      BY <2>1, <2>2, RemovedType DEF S
    <2> QED
      BY <2>1, <2>3
  <1>13. \A i \in 0 .. NumRows : i \in G
    <2> HIDE DEF G
    <2> QED
      BY <1>2, <1>11, <1>12, Turns
  <1>14. CompactSteps(t, after)
    <2>1. \A i \in 0 .. NumRows : after[i] \in [Rows -> Row]
      BY <1>13 DEF S
    <2>2. after[0] = t
      <3>1. 0 \in 0 .. NumRows
        BY <1>2
      <3> QED
        BY <1>10, <3>1
    <2>3. ASSUME NEW i \in 1 .. NumRows PROVE after[i] = Removed(after[i - 1], i)
      <3>1. i \in 0 .. NumRows /\ i # 0
        BY <1>2
      <3> QED
        BY <1>3, <1>10, <3>1
    <2> QED
      BY <2>1, <2>2, <2>3 DEF CompactSteps
  <1> QED
    BY <1>1, <1>14

(* What is left has come from the table, in its order, with nothing but    *)
(* unused rows missing; and behind it are empty rows.                      *)
LeftOf(u, t) ==
  /\ \A r \in Rows : u[r] = NoRow \/ \E s \in Rows : u[r] = t[s]
  /\ \A q, r \in Rows : q < r => u[r] = NoRow \/
       \E x, y \in Rows : x < y /\ u[q] = t[x] /\ u[r] = t[y]
  /\ \A s \in Rows : t[s].type # Unused => \E r \in Rows : u[r] = t[s]
(* Of two unused rows that follow each other the second one is empty.      *)
Single(u) ==
  \A r \in Rows : r + 1 \in Rows /\ u[r].type = Unused /\ u[r + 1].type = Unused
                  => u[r + 1].num = 0
CleanUpTo(u, i) == \A r \in Rows : r <= i /\ u[r].type = Unused => u[r].num = 0

(* One removal keeps what is left.                                         *)
LEMMA RemovedLeft ==
  ASSUME NEW t \in [Rows -> Row], NEW u \in [Rows -> Row], NEW i \in Rows,
         LeftOf(u, t)
  PROVE  LeftOf(Removed(u, i), t)
  <1> DEFINE v == Removed(u, i)
  <1>1. Rows = 1 .. NumRows /\ NumRows \in Nat /\ NumRows \in Rows
    BY NumberBounds DEF Rows
  <1>2. CASE u[i].type # Unused
    BY <1>2 DEF Removed
  <1>3. CASE u[i].type = Unused
    <2>1. /\ \A r \in Rows : r # NumRows \/ r < i =>
               From(i, r) \in Rows /\ v[r] = u[From(i, r)]
          /\ v[NumRows] = NoRow
      BY <1>3, RemovedIs
    <2> HIDE DEF v
    <2>2. ASSUME NEW r \in Rows PROVE v[r] = NoRow \/ \E s \in Rows : v[r] = t[s]
      BY <2>1 DEF LeftOf
    <2>3. ASSUME NEW q \in Rows, NEW r \in Rows, q < r
          PROVE  v[r] = NoRow \/ \E x, y \in Rows : x < y /\ v[q] = t[x] /\ v[r] = t[y]
      <3>1. CASE r = NumRows
        BY <2>1, <3>1
      <3>2. CASE r # NumRows
        <4>1. q # NumRows /\ From(i, q) < From(i, r)
          BY <1>1, <2>3, <3>2 DEF From
        <4>2. /\ From(i, q) \in Rows /\ v[q] = u[From(i, q)]
              /\ From(i, r) \in Rows /\ v[r] = u[From(i, r)]
          BY <2>1, <3>2, <4>1
        <4>3. u[From(i, r)] = NoRow \/
              \E x, y \in Rows : x < y /\ u[From(i, q)] = t[x] /\ u[From(i, r)] = t[y]
          BY <4>1, <4>2 DEF LeftOf
        <4> QED
          BY <4>2, <4>3
      <3> QED
        BY <3>1, <3>2
    <2>4. ASSUME NEW s \in Rows, t[s].type # Unused
          PROVE  \E r \in Rows : v[r] = t[s]
      <3>1. PICK r \in Rows : u[r] = t[s]
        BY <2>4 DEF LeftOf
      <3>2. r # i
        BY <1>3, <2>4, <3>1
      <3>3. CASE r < i
        <4>1. From(i, r) = r
          BY <3>3 DEF From
        <4> QED
          BY <2>1, <3>1, <3>3, <4>1
      <3>4. CASE r > i
        <4>1. r - 1 \in Rows /\ r - 1 # NumRows /\ From(i, r - 1) = r
          BY <1>1, <3>4 DEF From
        <4>2. v[r - 1] = t[s]
          BY <2>1, <3>1, <4>1
        <4> QED
          BY <4>1, <4>2
      <3> QED
        BY <1>1, <3>2, <3>3, <3>4
    <2>5. LeftOf(v, t)
      BY <2>2, <2>3, <2>4 DEF LeftOf
    <2> QED
      BY <2>5 DEF v
  <1> QED
    BY <1>2, <1>3

(* Nor does it bring two unused rows together.                             *)
LEMMA RemovedSingle ==
  ASSUME NEW u \in [Rows -> Row], NEW i \in Rows, Single(u), CleanUpTo(u, i - 1)
  PROVE  Single(Removed(u, i)) /\ CleanUpTo(Removed(u, i), i)
  <1> DEFINE v == Removed(u, i)
  <1>1. Rows = 1 .. NumRows /\ NumRows \in Nat /\ NumRows \in Rows
    BY NumberBounds DEF Rows
  <1>2. CASE u[i].type # Unused
    <2>1. v = u
      BY <1>2 DEF Removed
    <2>2. ASSUME NEW r \in Rows, r <= i, u[r].type = Unused PROVE u[r].num = 0
      <3>1. r # i
        BY <1>2, <2>2
      <3>2. r <= i - 1
        BY <1>1, <2>2, <3>1
      <3> QED
        BY <2>2, <3>2 DEF CleanUpTo
    <2> HIDE DEF v
    <2> QED
      BY <2>1, <2>2 DEF CleanUpTo, v
  <1>3. CASE u[i].type = Unused
    <2>1. /\ \A r \in Rows : r # NumRows \/ r < i =>
               From(i, r) \in Rows /\ v[r] = u[From(i, r)]
          /\ v[NumRows] = NoRow
      BY <1>3, RemovedIs
    <2> HIDE DEF v
    <2>2. NoRow.num = 0
      BY DEF NoRow
    <2>3. ASSUME NEW r \in Rows, r + 1 \in Rows, v[r].type = Unused,
                 v[r + 1].type = Unused
          PROVE  v[r + 1].num = 0
      <3>1. CASE r + 1 = NumRows
        BY <2>1, <2>2, <3>1
      <3>2. CASE r + 1 # NumRows
        <4>1. r # NumRows
          BY <1>1, <2>3
        <4>2. /\ From(i, r) \in Rows /\ v[r] = u[From(i, r)]
              /\ From(i, r + 1) \in Rows /\ v[r + 1] = u[From(i, r + 1)]
          BY <2>1, <2>3, <3>2, <4>1
        <4>3. CASE r + 1 = i
          <5>1. From(i, r + 1) = i + 1
            BY <1>1, <4>3 DEF From
          <5> QED
            BY <1>3, <2>3, <4>2, <5>1 DEF Single
        <4>4. CASE r + 1 # i
          <5>1. From(i, r + 1) = From(i, r) + 1
            BY <1>1, <4>4 DEF From
          <5> QED
            BY <2>3, <4>2, <5>1 DEF Single
        <4> QED
          BY <4>3, <4>4
      <3> QED
        BY <3>1, <3>2
    <2>4. ASSUME NEW r \in Rows, r <= i, v[r].type = Unused PROVE v[r].num = 0
      <3>1. CASE r < i
        <4>1. v[r] = u[r] /\ r <= i - 1
          BY <1>1, <2>1, <3>1 DEF From
        <4> QED
          BY <2>4, <4>1 DEF CleanUpTo
      <3>2. CASE r = i /\ i = NumRows
        BY <2>1, <2>2, <3>2
      <3>3. CASE r = i /\ i # NumRows
        <4>1. From(i, r) = i + 1
          BY <1>1, <3>3 DEF From
        <4>2. i + 1 \in Rows /\ v[r] = u[i + 1]
          BY <2>1, <3>3, <4>1
        <4> QED
          BY <1>3, <2>4, <4>2 DEF Single
      <3> QED
        BY <1>1, <2>4, <3>1, <3>2, <3>3
    <2>5. Single(v) /\ CleanUpTo(v, i)
      BY <2>3, <2>4 DEF Single, CleanUpTo
    <2> QED
      BY <2>5 DEF v
  <1> QED
    BY <1>2, <1>3

(* What compaction keeps.                                                  *)
LEMMA CompactedKeeps ==
  ASSUME NEW t \in [Rows -> Row]
  PROVE  /\ Compacted(t) \in [Rows -> Row] /\ LeftOf(Compacted(t), t)
         /\ Single(t) => CleanUpTo(Compacted(t), NumRows)
  <1>1. PICK after : CompactSteps(t, after) /\ Compacted(t) = after[NumRows]
    BY CompactedSteps
  <1>2. Rows = 1 .. NumRows /\ NumRows \in Nat
    BY NumberBounds DEF Rows
  <1>3. /\ after[0] = t
        /\ \A i \in 0 .. NumRows : after[i] \in [Rows -> Row]
        /\ \A i \in 1 .. NumRows : after[i] = Removed(after[i - 1], i)
    BY <1>1 DEF CompactSteps
  <1> DEFINE G == {i \in 0 .. NumRows :
                     /\ LeftOf(after[i], t)
                     /\ Single(t) => Single(after[i]) /\ CleanUpTo(after[i], i)}
  <1>4. 0 \in G
    <2>1. LeftOf(t, t) /\ CleanUpTo(t, 0)
      BY <1>2 DEF LeftOf, CleanUpTo
    <2>2. 0 \in 0 .. NumRows
      BY <1>2
    <2> QED
      BY <1>3, <2>1, <2>2
  <1>5. ASSUME NEW i \in 1 .. NumRows, i - 1 \in G PROVE i \in G
    <2>1. i - 1 \in 0 .. NumRows /\ i \in 0 .. NumRows /\ i \in Rows
      BY <1>2
    <2>2. /\ LeftOf(after[i - 1], t)
          /\ Single(t) => Single(after[i - 1]) /\ CleanUpTo(after[i - 1], i - 1)
      BY <1>5
    <2>3. after[i - 1] \in [Rows -> Row] /\ after[i] = Removed(after[i - 1], i)
      BY <1>3, <2>1
    <2>4. LeftOf(after[i], t)
      BY <2>1, <2>2, <2>3, RemovedLeft
    <2>5. Single(t) => Single(after[i]) /\ CleanUpTo(after[i], i)
      BY <2>1, <2>2, <2>3, RemovedSingle
    <2> QED
      BY <2>1, <2>4, <2>5
  <1>6. \A i \in 0 .. NumRows : i \in G
    <2> HIDE DEF G
    <2> QED
      BY <1>2, <1>4, <1>5, Turns
  <1>7. NumRows \in 0 .. NumRows
    BY <1>2
  <1> QED
    BY <1>1, <1>3, <1>6, <1>7

-------------------------------------------------------------------------------
(* What is known of a table at any time.  Used rows are on the disk, unused *)
(* ones have no tag, there is no tag behind the first empty row, and the   *)
(* manager has room.                                                       *)
HasManager(t) == \E k : FirstManager(t, k) /\ t[k].num >= AdvSize
Untagged(t) == \A r \in Rows : t[r].type = Unused => t[r].tag = 0
TagsFirst(t) == \A q, r \in Rows : q < r /\ t[q].num = 0 => t[r].tag = 0
Sound(t) == UsedOnDisk(t) /\ Untagged(t) /\ TagsFirst(t) /\ HasManager(t)

(* The first row of the manager stays the first one when other rows        *)
(* change.                                                                 *)
LEMMA ManagerStays ==
  ASSUME NEW t \in [Rows -> Row], HasManager(t)
  PROVE  WithManager(t) = t
  <1>1. PICK k : FirstManager(t, k) /\ t[k].num >= AdvSize
    BY DEF HasManager
  <1>2. ManagerRow(t) = k /\ k # 0
    BY <1>1, ManagerRowIs, NumberBounds DEF FirstManager, Rows
  <1> QED
    BY <1>1, <1>2 DEF WithManager

(* Where there is a row of the manager there is a first one.               *)
LEMMA SomeManager ==
  ASSUME NEW t \in [Rows -> Row], NEW r \in Rows, t[r].type = Manager
  PROVE  \E k \in Rows : FirstManager(t, k) /\ k <= r
  <1>1. ManagerRow(t) \in Rows /\ FirstManager(t, ManagerRow(t))
    BY ManagerRowIs
  <1>2. ManagerRow(t) <= r
    BY <1>1, NumberBounds DEF FirstManager, Rows
  <1> QED
    BY <1>1, <1>2

(* A valid table has a first row of the manager, with room for the files.  *)
LEMMA ValidManager ==
  ASSUME NEW t \in [Rows -> Row], ValidTable(t), NEW r \in Rows,
         t[r].type = Manager
  PROVE  HasManager(t)
  <1>1. PICK k \in Rows : FirstManager(t, k)
    BY SomeManager
  <1>2. ManagerRow(t) = k /\ k # 0
    BY <1>1, ManagerRowIs, NumberBounds DEF Rows
  <1>3. t[k].num >= AdvSize
    BY <1>2 DEF ValidTable
  <1> QED
    BY <1>1, <1>3 DEF HasManager

(* Arranging a table keeps that, if the result is valid.                   *)
LEMMA AdjustedSound ==
  ASSUME NEW t \in [Rows -> Row], UsedOnDisk(t), Untagged(t), HasManager(t),
         ValidTable(Adjusted(t))
  PROVE  Adjusted(t) \in [Rows -> Row] /\ Sound(Adjusted(t))
  <1> DEFINE A == Adjusted(t)
  <1>1. PICK l : Shape(A, t, l)
    BY AdjustedShape
  <1>v. ValidTable(A)
    OBVIOUS
  <1> HIDE DEF A
  <1>2. Rows = 1 .. NumRows /\ NumRows \in Nat
    BY NumberBounds DEF Rows
  <1>3. /\ A \in [Rows -> Row] /\ l \in 0 .. NumRows
        /\ \A r \in Rows : \E q \in Rows : SameRow(A[r], t[q])
        /\ \A q \in Rows : t[q].type # Unused =>
             \E r \in Rows : SameRow(A[r], t[q])
        /\ \A r \in Rows : r <= l => OnDisk(A[r])
        /\ \A r \in Rows : r > l => A[r].type = Unused
    BY <1>1 DEF Shape
  <1>4. UsedOnDisk(A)
    <2> SUFFICES ASSUME NEW r \in Rows, A[r].type # Unused PROVE OnDisk(A[r])
      BY DEF UsedOnDisk
    <2>1. r <= l
      BY <1>2, <1>3
    <2> QED
      BY <1>3, <2>1
  <1>5. Untagged(A)
    BY <1>3 DEF Untagged, SameRow
  <1>6. TagsFirst(A)
    <2> SUFFICES ASSUME NEW q \in Rows, NEW r \in Rows, q < r, A[q].num = 0
                 PROVE  A[r].tag = 0
      BY DEF TagsFirst
    <2>1. ~OnDisk(A[q])
      BY NumberBounds DEF OnDisk
    <2>2. r > l
      BY <1>2, <1>3, <2>1
    <2> QED
      BY <1>3, <1>5, <2>2 DEF Untagged
  <1>7. HasManager(A)
    <2>1. PICK k : FirstManager(t, k)
      BY DEF HasManager
    <2>2. k \in Rows /\ t[k].type = Manager
      BY <2>1 DEF FirstManager
    <2>3. t[k].type # Unused
      BY <2>2 DEF Manager, Unused
    <2>4. PICK r \in Rows : SameRow(A[r], t[k])
      BY <1>3, <2>2, <2>3
    <2> QED
      BY <1>3, <1>v, <2>2, <2>4, ValidManager DEF SameRow
  <1> QED
    BY <1>3, <1>4, <1>5, <1>6, <1>7 DEF A, Sound

(* So does compaction.  A valid table has two rows of the manager at two   *)
(* places, so the first one stays the first one.                           *)
LEMMA CompactedSound ==
  ASSUME NEW t \in [Rows -> Row], Sound(t), SoundRows(t)
  PROVE  Compacted(t) \in [Rows -> Row] /\ Sound(Compacted(t))
  <1> DEFINE u == Compacted(t)
  <1>1. u \in [Rows -> Row] /\ LeftOf(u, t)
    BY CompactedKeeps
  <1> HIDE DEF u
  <1>2. Rows = 1 .. NumRows /\ NumRows \in Nat
    BY NumberBounds DEF Rows
  <1>3. /\ \A r \in Rows : u[r] = NoRow \/ \E s \in Rows : u[r] = t[s]
        /\ \A q, r \in Rows : q < r => u[r] = NoRow \/
             \E x, y \in Rows : x < y /\ u[q] = t[x] /\ u[r] = t[y]
        /\ \A s \in Rows : t[s].type # Unused => \E r \in Rows : u[r] = t[s]
    BY <1>1 DEF LeftOf
  <1>4. NoRow.type = Unused /\ NoRow.tag = 0 /\ NoRow.num = 0
    BY DEF NoRow
  <1>5. UsedOnDisk(u) /\ Untagged(u)
    BY <1>3, <1>4 DEF Sound, UsedOnDisk, Untagged
  <1>6. TagsFirst(u)
    BY <1>3, <1>4 DEF Sound, TagsFirst
  <1>7. HasManager(u)
    <2>1. PICK k \in Rows : FirstManager(t, k) /\ t[k].num >= AdvSize
      BY DEF Sound, HasManager, FirstManager
    <2>2. t[k].type = Manager /\ t[k].type # Unused /\ OnDisk(t[k])
      BY <2>1 DEF FirstManager, Manager, Unused, Sound, UsedOnDisk
    <2>3. PICK r \in Rows : u[r] = t[k]
      BY <1>3, <2>2
    <2>4. PICK f \in Rows : FirstManager(u, f) /\ f <= r
      BY <1>1, <2>2, <2>3, SomeManager
    <2>5. f = r
      <3> SUFFICES ASSUME f < r PROVE FALSE
        BY <1>2, <2>4
      <3>1. u[r] # NoRow
        BY <1>4, <2>2, <2>3
      <3>2. PICK x \in Rows, y \in Rows : x < y /\ u[f] = t[x] /\ u[r] = t[y]
        BY <1>3, <3>1
      <3>3. t[x].type = Manager /\ t[y] = t[k]
        BY <2>3, <2>4, <3>2 DEF FirstManager
      <3>4. y = k
        <4> SUFFICES ASSUME y # k PROVE FALSE
          OBVIOUS
        <4>1. ~(t[y].rel <= t[k].rel /\ t[k].rel < End(t[y]))
          BY <2>2, <3>3, SoundApart
        <4>2. t[k].rel \in Nat /\ t[k].num \in Nat /\ t[k].num >= 1
          BY <2>2, RowFields DEF OnDisk
        <4> QED
          BY <3>3, <4>1, <4>2 DEF End
      <3>5. x \in 1 .. k - 1
        BY <1>2, <3>2, <3>4
      <3> QED
        BY <2>1, <3>3, <3>5 DEF FirstManager
    <2> QED
      BY <2>1, <2>3, <2>4, <2>5 DEF HasManager
  <1> QED
    BY <1>1, <1>5, <1>6, <1>7 DEF u, Sound

(* So does saving, which does one after the other.                         *)
LEMMA SavedSound ==
  ASSUME NEW t \in [Rows -> Row], UsedOnDisk(t), Untagged(t), HasManager(t),
         ValidTable(Arranged(t)), NEW ignore \in BOOLEAN
  PROVE  Saved(t, ignore) \in [Rows -> Row] /\ Sound(Saved(t, ignore))
  <1>1. Arranged(t) = Adjusted(t)
    BY ManagerStays DEF Arranged
  <1>2. Adjusted(t) \in [Rows -> Row] /\ Sound(Adjusted(t))
    BY <1>1, AdjustedSound
  <1>3. SoundRows(Adjusted(t))
    BY <1>1 DEF ValidTable
  <1>4. CASE ignore
    BY <1>1, <1>2, <1>3, <1>4, CompactedSound DEF Saved
  <1>5. CASE ~ignore
    BY <1>1, <1>2, <1>5 DEF Saved
  <1> QED
    BY <1>4, <1>5

(* What is installed, and what is kept in a review, are such tables.       *)
LEMMA InstalledSound ==
  ASSUME NEW x \in Setups
  PROVE  /\ Installed(x.rows) \in [Rows -> Row] /\ UsedOnDisk(Installed(x.rows))
         /\ Untagged(Installed(x.rows)) /\ HasManager(Installed(x.rows))
         /\ ValidTable(Arranged(Installed(x.rows)))
  <1> DEFINE t == Installed(x.rows)
  <1>1. Rows = 1 .. NumRows /\ NumRows \in Nat
    BY NumberBounds DEF Rows
  <1>2. x.rows \in Seq(Row) /\ Len(x.rows) <= NumRows
    BY BootConstants
  <1>3. /\ \A i \in DOMAIN x.rows :
             /\ x.rows[i].type # Unused /\ OnDisk(x.rows[i])
             /\ x.rows[i].type = Manager => x.rows[i].num >= AdvSize
        /\ \E i \in DOMAIN x.rows : x.rows[i].type = Manager
        /\ ValidTable(Arranged(t))
    BY SetupsValid
  <1>4. Len(x.rows) \in Nat /\ DOMAIN x.rows = 1 .. Len(x.rows)
    BY <1>2
  <1>5. \A r \in Rows : t[r] = IF r <= Len(x.rows) THEN x.rows[r] ELSE NoRow
    BY <1>1 DEF Installed, Padded
  <1>6. t \in [Rows -> Row]
    <2>1. \A r \in Rows : r <= Len(x.rows) => x.rows[r] \in Row
      BY <1>1, <1>2, <1>4
    <2>2. \A r \in Rows : t[r] \in Row
      BY <1>5, <2>1, NoRowType
    <2>3. t = [r \in Rows |-> t[r]]
      BY <1>1 DEF Installed, Padded
    <2> HIDE DEF t
    <2> QED
      BY <2>2, <2>3
  <1> HIDE DEF t
  <1>7. \A r \in Rows : r <= Len(x.rows) => r \in DOMAIN x.rows
    BY <1>1, <1>4
  <1>8. NoRow.type = Unused /\ NoRow.tag = 0
    BY DEF NoRow
  <1>9. UsedOnDisk(t) /\ Untagged(t)
    BY <1>3, <1>5, <1>7, <1>8 DEF UsedOnDisk, Untagged
  <1>10. HasManager(t)
    <2>1. PICK i \in DOMAIN x.rows : x.rows[i].type = Manager
      BY <1>3
    <2>2. i \in Rows /\ t[i].type = Manager
      BY <1>1, <1>2, <1>4, <1>5, <2>1
    <2>3. PICK k \in Rows : FirstManager(t, k)
      BY <1>6, <2>2, SomeManager
    <2>4. t[k].type = Manager /\ Manager # Unused
      BY <2>3 DEF FirstManager, Manager, Unused
    <2>5. k \in DOMAIN x.rows /\ t[k] = x.rows[k]
      BY <1>5, <1>7, <1>8, <2>4
    <2> QED
      BY <1>3, <2>3, <2>4, <2>5 DEF HasManager
  <1> QED
    BY <1>3, <1>6, <1>9, <1>10 DEF t

Kept(t, drop) == [r \in Rows |-> IF r \in drop THEN NoRow ELSE t[r]]
(* Giving up a row that is not the first one of the manager keeps it as    *)
(* well.                                                                   *)
LEMMA KeptSound ==
  ASSUME NEW t \in [Rows -> Row], Sound(t), NEW drop,
         drop \in SUBSET {r \in Rows : t[r].type \in OsTypes}
  PROVE  /\ Kept(t, drop) \in [Rows -> Row] /\ UsedOnDisk(Kept(t, drop))
         /\ Untagged(Kept(t, drop)) /\ HasManager(Kept(t, drop))
  <1>1. \A r \in Rows : Kept(t, drop)[r] = IF r \in drop THEN NoRow ELSE t[r]
    BY DEF Kept
  <1>2. NoRow.type = Unused /\ NoRow.tag = 0 /\ Manager # Unused
    BY DEF NoRow, Manager, Unused
  <1>3. Kept(t, drop) \in [Rows -> Row]
    BY NoRowType DEF Kept
  <1>4. PICK k \in Rows : FirstManager(t, k) /\ t[k].num >= AdvSize
    BY DEF Sound, HasManager, FirstManager
  <1>5. k \notin drop
    BY <1>4, TypesApart DEF FirstManager
  <1>6. \A j \in 1 .. k - 1 : j \in Rows
    BY <1>4, NumberBounds DEF Rows
  <1>7. FirstManager(Kept(t, drop), k) /\ Kept(t, drop)[k].num >= AdvSize
    BY <1>1, <1>2, <1>4, <1>5, <1>6 DEF FirstManager
  <1> QED
    BY <1>1, <1>2, <1>3, <1>7 DEF Sound, UsedOnDisk, Untagged, HasManager

-------------------------------------------------------------------------------
(* Importing one entry of the MBR.  It changes the type of the first row   *)
(* at its place, or it takes the last unused row.                          *)
NewRow(e, k) == [type |-> e.type, tag |-> 0, orig |-> k, rel |-> e.rel, num |-> e.num]
Retypes(t, u, e, r) ==
  /\ t[r].type # Manager /\ t[r].rel = e.rel /\ t[r].num = e.num
  /\ u = [t EXCEPT ![r].type = e.type]
LastUnused(t, r) ==
  /\ t[r].type = Unused
  /\ \A q \in Rows : q > r => t[q].type # Unused
Adds(t, u, e, k, r) == LastUnused(t, r) /\ u = [t EXCEPT ![r] = NewRow(e, k)]
Imports(t, u, e, k) ==
  \/ u = t
  \/ Importable(e) /\ \E r \in Rows : Retypes(t, u, e, r) \/ Adds(t, u, e, k, r)

(* The row that an entry of the MBR is looked for with.                    *)
LEMMA StartingIs ==
  ASSUME NEW t \in [Rows -> Row], NEW e
  PROVE  /\ Starting(t, e) \in Rows \cup {0}
         /\ Starting(t, e) # 0 => t[Starting(t, e)].rel = e.rel
  <1> DEFINE I == {i \in 1 .. Len(t) : t[i].rel = e.rel}
             k == Starting(t, e)
  <1>1. Rows = 1 .. NumRows /\ NumRows \in Nat
    BY NumberBounds DEF Rows
  <1>2. Len(t) = NumRows
    BY <1>1, AsSequence
  <1>3. k = IF I # {} THEN Min(I) ELSE 0
    BY DEF Starting, SelectInSeq
  <1>4. I \subseteq 1 .. NumRows /\ \A i \in I : t[i].rel = e.rel
    BY <1>2
  <1> HIDE DEF I, k
  <1>5. k \in 0 .. NumRows /\ (k # 0 => k \in I)
    BY <1>1, <1>3, <1>4, FirstIs
  <1> QED
    BY <1>1, <1>4, <1>5 DEF k

(* The row that a new partition takes.                                     *)
LEMMA FreeRowIs ==
  ASSUME NEW t \in [Rows -> Row]
  PROVE  /\ FreeRow(t) \in Rows \cup {0}
         /\ FreeRow(t) = 0 <=> \A r \in Rows : t[r].type # Unused
         /\ FreeRow(t) # 0 => LastUnused(t, FreeRow(t))
  <1> DEFINE I == {i \in 1 .. Len(t) : t[i].type = Unused}
             k == FreeRow(t)
  <1>1. Rows = 1 .. NumRows /\ NumRows \in Nat
    BY NumberBounds DEF Rows
  <1>2. Len(t) = NumRows
    BY <1>1, AsSequence
  <1>3. k = IF I # {} THEN Max(I) ELSE 0
    BY DEF FreeRow, SelectLastInSeq
  <1>4. I \subseteq 1 .. NumRows /\ \A i \in Rows : i \in I <=> t[i].type = Unused
    BY <1>1, <1>2
  <1> HIDE DEF I, k
  <1>5. /\ k \in 0 .. NumRows /\ (k = 0 <=> I = {}) /\ (k # 0 => k \in I)
        /\ \A y \in I : y <= k
    BY <1>1, <1>3, <1>4, LastIs
  <1>6. k # 0 => LastUnused(t, k)
    BY <1>1, <1>4, <1>5 DEF LastUnused
  <1> QED
    BY <1>1, <1>4, <1>5, <1>6 DEF k

(* The three outcomes of an import.                                        *)
LEMMA ImportEntryIs ==
  ASSUME NEW t \in [Rows -> Row], NEW e \in Entry, NEW k \in Slots
  PROVE  /\ ImportEntry(t, e, k) \in [Rows -> Row]
         /\ Imports(t, ImportEntry(t, e, k), e, k)
  <1> DEFINE u == ImportEntry(t, e, k)
             s == Starting(t, e)
             f == FreeRow(t)
  <1>1. s \in Rows \cup {0} /\ (s # 0 => t[s].rel = e.rel)
    BY StartingIs
  <1>2. /\ f \in Rows \cup {0} /\ (f # 0 => LastUnused(t, f))
    BY FreeRowIs
  <1>3. 0 \notin Rows
    BY NumberBounds DEF Rows
  <1>4. /\ e.type \in Types /\ e.rel \in Numbers /\ e.num \in Numbers
    BY DEF Entry, Types
  <1>5. CASE ~Importable(e)
    <2>1. u = t
      BY <1>5 DEF ImportEntry
    <2> QED
      BY <2>1 DEF Imports
  <1>6. CASE Importable(e) /\ IsKnown(t, e)
    <2>1. s # 0 /\ t[s].num = e.num /\ t[s].type # Manager
      BY <1>6 DEF IsKnown
    <2>2. u = [t EXCEPT ![s].type = e.type]
      BY <1>6 DEF ImportEntry
    <2>3. s \in Rows
      BY <1>1, <2>1
    <2> HIDE DEF u, s
    <2>4. t[s] \in Row
      BY <2>3
    <2>5. [t[s] EXCEPT !.type = e.type] \in Row
      BY <1>4, <2>4 DEF Row
    <2>6. u \in [Rows -> Row]
      BY <2>2, <2>5
    <2>7. Retypes(t, u, e, s)
      BY <1>1, <2>1, <2>2 DEF Retypes
    <2> QED
      BY <1>6, <2>3, <2>6, <2>7 DEF Imports, u
  <1>7. CASE Importable(e) /\ ~IsKnown(t, e) /\ f = 0
    <2>1. u = t
      BY <1>7 DEF ImportEntry
    <2> QED
      BY <2>1 DEF Imports
  <1>8. CASE Importable(e) /\ ~IsKnown(t, e) /\ f # 0
    <2>1. u = [t EXCEPT ![f] = NewRow(e, k)]
      BY <1>8 DEF ImportEntry, NewRow
    <2>2. f \in Rows /\ LastUnused(t, f)
      BY <1>2, <1>8
    <2> HIDE DEF u, f
    <2>3. NewRow(e, k) \in Row
      BY <1>4 DEF NewRow, Row, Slots
    <2>4. u \in [Rows -> Row]
      BY <2>1, <2>3
    <2>5. Adds(t, u, e, k, f)
      BY <2>1, <2>2 DEF Adds
    <2> QED
      BY <1>8, <2>2, <2>4, <2>5 DEF Imports, u
  <1> QED
    BY <1>5, <1>6, <1>7, <1>8

(* What is imported is on the disk.                                        *)
VisibleOnDisk(e) == e.type \in OsTypes => OnDisk(e)
ImportableType(e) == e.type \in OsTypes /\ e.type # Unused /\ e.type # Manager
                     /\ e.type # Hidden

(* Which entries are imported.                                             *)
LEMMA ImportableIs ==
  ASSUME NEW e \in Entry, Importable(e)
  PROVE  ImportableType(e) /\ e.rel \in Nat \ {0} /\ e.num \in Nat
  <1>1. e.type \in OsTypes /\ e.rel \in Numbers /\ e.num \in Numbers /\ e.rel # 0
    BY DEF Importable, Entry
  <1> QED
    BY <1>1, TypesApart, NumberBounds DEF ImportableType

(* What a table has at each row after one entry has been imported.         *)
TakesType(p, q, e) ==
  /\ ImportableType(e) /\ p.type # Manager /\ q.type = e.type /\ q.tag = p.tag
  /\ q.rel = e.rel /\ q.num = e.num /\ p.rel = e.rel /\ p.num = e.num
IsNew(p, q, e) ==
  /\ ImportableType(e) /\ p.type = Unused /\ q.type = e.type /\ q.tag = 0
  /\ q.rel = e.rel /\ q.num = e.num

(* A row after an import is as before, or has the type of the entry, or is *)
(* new.                                                                    *)
LEMMA ImportedRows ==
  ASSUME NEW t \in [Rows -> Row], NEW u \in [Rows -> Row], NEW e \in Entry,
         NEW k \in Slots, Imports(t, u, e, k), NEW r \in Rows
  PROVE  \/ u[r] = t[r]
         \/ TakesType(t[r], u[r], e)
         \/ LastUnused(t, r) /\ IsNew(t[r], u[r], e)
  <1>1. CASE u = t
    BY <1>1
  <1>2. ASSUME Importable(e), NEW s \in Rows, Retypes(t, u, e, s)
        PROVE  u[r] = t[r] \/ TakesType(t[r], u[r], e)
    <2>1. ImportableType(e)
      BY <1>2, ImportableIs
    <2>2. /\ t[s].type # Manager /\ t[s].rel = e.rel /\ t[s].num = e.num
          /\ u = [t EXCEPT ![s].type = e.type]
      BY <1>2 DEF Retypes
    <2>3. CASE r # s
      BY <2>2, <2>3
    <2>4. CASE r = s
      <3>1. t[s] \in Row /\ u[s] = [t[s] EXCEPT !.type = e.type]
        BY <1>2, <2>2
      <3>2. u[s].type = e.type /\ u[s].tag = t[s].tag /\ u[s].rel = t[s].rel
            /\ u[s].num = t[s].num
        BY <3>1 DEF Row
      <3> QED
        BY <2>1, <2>2, <2>4, <3>2 DEF TakesType
    <2> QED
      BY <2>3, <2>4
  <1>3. ASSUME Importable(e), NEW s \in Rows, Adds(t, u, e, k, s)
        PROVE  u[r] = t[r] \/ (LastUnused(t, r) /\ IsNew(t[r], u[r], e))
    <2>1. ImportableType(e)
      BY <1>3, ImportableIs
    <2>2. LastUnused(t, s) /\ u = [t EXCEPT ![s] = NewRow(e, k)]
      BY <1>3 DEF Adds
    <2>3. CASE r # s
      BY <2>2, <2>3
    <2>4. CASE r = s
      <3>1. u[s] = NewRow(e, k)
        BY <2>2
      <3> QED
        BY <2>1, <2>2, <2>4, <3>1 DEF IsNew, NewRow, LastUnused
    <2> QED
      BY <2>3, <2>4
  <1> QED
    BY <1>1, <1>2, <1>3 DEF Imports

(* An import keeps a table sound.                                          *)
LEMMA ImportsSound ==
  ASSUME NEW t \in [Rows -> Row], NEW u \in [Rows -> Row], NEW e \in Entry,
         NEW k \in Slots, Imports(t, u, e, k), VisibleOnDisk(e), Sound(t)
  PROVE  Sound(u)
  <1>1. \A r \in Rows : u[r] = t[r] \/ TakesType(t[r], u[r], e)
                         \/ IsNew(t[r], u[r], e)
    BY ImportedRows
  <1>2. ImportableType(e) => OnDisk(e)
    BY DEF ImportableType, VisibleOnDisk
  <1>3. UsedOnDisk(u)
    <2> SUFFICES ASSUME NEW r \in Rows, u[r].type # Unused PROVE OnDisk(u[r])
      BY DEF UsedOnDisk
    <2>1. CASE u[r] = t[r]
      BY <2>1 DEF Sound, UsedOnDisk
    <2>2. CASE u[r].rel = e.rel /\ u[r].num = e.num /\ ImportableType(e)
      BY <1>2, <2>2 DEF OnDisk
    <2> QED
      BY <1>1, <2>1, <2>2 DEF TakesType, IsNew
  <1>4. ASSUME NEW r \in Rows
        PROVE  /\ u[r].tag = t[r].tag
               /\ u[r].type = Unused => t[r].type = Unused
               /\ u[r].num = 0 => t[r].num = 0
               /\ t[r].type = Manager => u[r] = t[r]
               /\ u[r].type = Manager => u[r] = t[r]
    <2>1. t[r].type = Unused => t[r].tag = 0
      BY DEF Sound, Untagged
    <2>3. ImportableType(e) => e.type # Unused /\ e.type # Manager /\ e.num # 0
      <3>1. e.num \in Nat
        BY NumberBounds DEF Entry
      <3> QED
        BY <1>2, <3>1 DEF ImportableType, OnDisk
    <2>4. Unused # Manager
      BY DEF Unused, Manager
    <2>5. CASE u[r] = t[r]
      BY <2>1, <2>5
    <2>6. CASE TakesType(t[r], u[r], e)
      BY <2>3, <2>6 DEF TakesType
    <2>7. CASE IsNew(t[r], u[r], e)
      BY <2>1, <2>3, <2>4, <2>7 DEF IsNew
    <2> QED
      BY <1>1, <2>5, <2>6, <2>7
  <1>5. Untagged(u) /\ TagsFirst(u)
    BY <1>4 DEF Sound, Untagged, TagsFirst
  <1>6. HasManager(u)
    <2>1. PICK m \in Rows : FirstManager(t, m) /\ t[m].num >= AdvSize
      BY DEF Sound, HasManager, FirstManager
    <2>2. \A j \in 1 .. m - 1 : j \in Rows
      BY <2>1, NumberBounds DEF Rows
    <2>3. FirstManager(u, m) /\ u[m].num >= AdvSize
      BY <1>4, <2>1, <2>2 DEF FirstManager
    <2> QED
      BY <2>3 DEF HasManager
  <1> QED
    BY <1>3, <1>5, <1>6 DEF Sound

(* The four entries, one after the other.                                  *)
ImportsAll(t, rows, u) ==
  \E t1, t2, t3 \in [Rows -> Row] :
    /\ t1 = ImportEntry(t, rows[1], 1) /\ t2 = ImportEntry(t1, rows[2], 2)
    /\ t3 = ImportEntry(t2, rows[3], 3) /\ u = ImportEntry(t3, rows[4], 4)
    /\ Imports(t, t1, rows[1], 1) /\ Imports(t1, t2, rows[2], 2)
    /\ Imports(t2, t3, rows[3], 3) /\ Imports(t3, u, rows[4], 4)

(* The import of the MBR is a sequence of four imports.                    *)
LEMMA ImportedIs ==
  ASSUME NEW t \in [Rows -> Row], NEW rows \in [Slots -> Entry]
  PROVE  /\ Imported(t, rows) \in [Rows -> Row]
         /\ ImportsAll(t, rows, Imported(t, rows))
  <1>1. /\ 1 \in Slots /\ 2 \in Slots /\ 3 \in Slots /\ 4 \in Slots
        /\ rows[1] \in Entry /\ rows[2] \in Entry /\ rows[3] \in Entry
        /\ rows[4] \in Entry
    BY DEF Slots
  <1> DEFINE t1 == ImportEntry(t, rows[1], 1)
             t2 == ImportEntry(t1, rows[2], 2)
             t3 == ImportEntry(t2, rows[3], 3)
             t4 == ImportEntry(t3, rows[4], 4)
  <1>2. Imported(t, rows) = t4
    BY DEF Imported
  <1>3. t1 \in [Rows -> Row] /\ Imports(t, t1, rows[1], 1) /\ t1 = ImportEntry(t, rows[1], 1)
    BY <1>1, ImportEntryIs
  <1> HIDE DEF t1
  <1>4. t2 \in [Rows -> Row] /\ Imports(t1, t2, rows[2], 2) /\ t2 = ImportEntry(t1, rows[2], 2)
    BY <1>1, <1>3, ImportEntryIs
  <1> HIDE DEF t2
  <1>5. t3 \in [Rows -> Row] /\ Imports(t2, t3, rows[3], 3) /\ t3 = ImportEntry(t2, rows[3], 3)
    BY <1>1, <1>4, ImportEntryIs
  <1> HIDE DEF t3
  <1>6. t4 \in [Rows -> Row] /\ Imports(t3, t4, rows[4], 4) /\ t4 = ImportEntry(t3, rows[4], 4)
    BY <1>1, <1>5, ImportEntryIs
  <1> HIDE DEF t4
  <1> QED
    BY <1>2, <1>3, <1>4, <1>5, <1>6 DEF ImportsAll

MbrSound(m) ==
  /\ \A k \in Slots : VisibleOnDisk(m.rows[k])
  /\ \A k \in Slots : m.rows[k].type = Unused => m.rows[k] = NoEntry

(* It keeps a table sound.                                                 *)
LEMMA ImportedSound ==
  ASSUME NEW t \in [Rows -> Row], NEW m \in Mbr, MbrSound(m), Sound(t)
  PROVE  Sound(Imported(t, m.rows))
  <1>1. m.rows \in [Slots -> Entry]
    BY DEF Mbr
  <1>2. /\ 1 \in Slots /\ 2 \in Slots /\ 3 \in Slots /\ 4 \in Slots
    BY DEF Slots
  <1>3. \A k \in Slots : m.rows[k] \in Entry /\ VisibleOnDisk(m.rows[k])
    BY <1>1 DEF MbrSound
  <1> DEFINE rows == m.rows
             u == Imported(t, m.rows)
  <1>4. u \in [Rows -> Row] /\ ImportsAll(t, rows, u)
    BY <1>1, ImportedIs
  <1> HIDE DEF u
  <1>5. PICK t1 \in [Rows -> Row], t2 \in [Rows -> Row], t3 \in [Rows -> Row] :
          /\ Imports(t, t1, rows[1], 1) /\ Imports(t1, t2, rows[2], 2)
          /\ Imports(t2, t3, rows[3], 3) /\ Imports(t3, u, rows[4], 4)
    BY <1>4 DEF ImportsAll
  <1>6. Sound(t1)
    BY <1>2, <1>3, <1>5, ImportsSound
  <1>7. Sound(t2)
    BY <1>2, <1>3, <1>5, <1>6, ImportsSound
  <1>8. Sound(t3)
    BY <1>2, <1>3, <1>5, <1>7, ImportsSound
  <1>9. Sound(u)
    BY <1>2, <1>3, <1>4, <1>5, <1>8, ImportsSound
  <1> QED
    BY <1>9 DEF u

-------------------------------------------------------------------------------
(* The menu and the rows it shows.                                         *)
LEMMA PartNumIs ==
  ASSUME NEW t \in [Rows -> Row], NEW tag
  PROVE  /\ PartNumByTag(t, tag) \in Rows \cup {0}
         /\ PartNumByTag(t, tag) # 0 =>
              tag # 0 /\ t[PartNumByTag(t, tag)].tag = tag
  <1> DEFINE I == {i \in 1 .. Len(t) : t[i].tag = tag}
             k == SelectInSeq(t, LAMBDA p : p.tag = tag)
  <1>1. Rows = 1 .. NumRows /\ NumRows \in Nat
    BY NumberBounds DEF Rows
  <1>2. Len(t) = NumRows
    BY <1>1, AsSequence
  <1>3. k = IF I # {} THEN Min(I) ELSE 0
    BY DEF SelectInSeq
  <1>4. I \subseteq 1 .. NumRows /\ \A i \in I : t[i].tag = tag
    BY <1>2
  <1>5. PartNumByTag(t, tag) = IF tag = 0 THEN 0 ELSE k
    BY DEF PartNumByTag
  <1> HIDE DEF I, k
  <1>6. k \in 0 .. NumRows /\ (k # 0 => k \in I)
    BY <1>1, <1>3, <1>4, FirstIs
  <1> QED
    BY <1>1, <1>4, <1>5, <1>6

(* The last row before the first empty one.                                *)
LEMMA LastRowIs ==
  ASSUME NEW t \in [Rows -> Row]
  PROVE  /\ LastRow(t) \in 0 .. NumRows
         /\ \A r \in Rows : r <= LastRow(t) => t[r].num # 0
         /\ LastRow(t) < NumRows => t[LastRow(t) + 1].num = 0
  <1> DEFINE I == {i \in 1 .. Len(t) : t[i].num = 0}
             k == SelectInSeq(t, LAMBDA p : p.num = 0)
  <1>1. Rows = 1 .. NumRows /\ NumRows \in Nat
    BY NumberBounds DEF Rows
  <1>2. Len(t) = NumRows
    BY <1>1, AsSequence
  <1>3. k = IF I # {} THEN Min(I) ELSE 0
    BY DEF SelectInSeq
  <1>4. I \subseteq 1 .. NumRows /\ \A i \in Rows : i \in I <=> t[i].num = 0
    BY <1>1, <1>2
  <1>5. LastRow(t) = IF k = 0 THEN NumRows ELSE k - 1
    BY DEF LastRow
  <1> HIDE DEF I, k
  <1>6. k \in 0 .. NumRows /\ (k = 0 <=> I = {}) /\ (k # 0 => k \in I)
        /\ \A y \in I : k <= y
    BY <1>1, <1>3, <1>4, FirstIs
  <1>7. CASE k = 0
    BY <1>1, <1>4, <1>5, <1>6, <1>7
  <1>8. CASE k # 0
    <2>1. LastRow(t) = k - 1 /\ k \in Rows /\ t[k].num = 0 /\ k - 1 + 1 = k
      BY <1>1, <1>4, <1>5, <1>6, <1>8
    <2>2. \A r \in Rows : r <= k - 1 => r \notin I
      BY <1>1, <1>6, <2>1
    <2>3. LastRow(t) + 1 = k
      BY <2>1
    <2> QED
      BY <1>1, <1>4, <2>1, <2>2, <2>3
  <1> QED
    BY <1>7, <1>8

(* A row with a tag is used, and it is not behind the last row.            *)
LEMMA TaggedIs ==
  ASSUME NEW t \in [Rows -> Row], Sound(t), NEW r \in Rows, t[r].tag # 0
  PROVE  r \in 1 .. LastRow(t) /\ t[r].type # Unused /\ OnDisk(t[r])
  <1>1. Rows = 1 .. NumRows /\ NumRows \in Nat
    BY NumberBounds DEF Rows
  <1>2. t[r].type # Unused /\ OnDisk(t[r])
    BY DEF Sound, Untagged, UsedOnDisk
  <1>3. t[r].num # 0
    BY <1>2, RowFields DEF OnDisk
  <1> DEFINE l == LastRow(t)
  <1>4. l \in 0 .. NumRows /\ (l < NumRows => t[l + 1].num = 0)
    BY LastRowIs
  <1> HIDE DEF l
  <1>5. ~(r > l)
    <2> SUFFICES ASSUME r > l PROVE FALSE
      OBVIOUS
    <2>1. l + 1 \in Rows /\ t[l + 1].num = 0
      BY <1>1, <1>4
    <2>2. l + 1 = r \/ l + 1 < r
      BY <1>1, <1>4
    <2> QED
      BY <1>3, <2>1, <2>2 DEF Sound, TagsFirst
  <1> QED
    BY <1>1, <1>2, <1>4, <1>5 DEF l

(* The items of the list can be booted.                                    *)
ItemsOf(t) == {i \in 1 .. Len(setup.menu) : Bootable(t, setup.menu[i])}
(* The list has the numbers of the bootable items, in order, and no other. *)
LEMMA MenuListIs ==
  ASSUME NEW t, Len(setup.menu) \in Nat
  PROVE  MenuList(t) \in Seq(ItemsOf(t))
  <1> DEFINE n == Len(setup.menu)
             Next1(l, i) == IF Bootable(t, setup.menu[i]) THEN Append(l, i) ELSE l
             S == Seq(ItemsOf(t))
             f == [x \in S \X (1 .. n) |-> Next1(x[1], x[2])]
             list == CHOOSE h : h = [i \in 0 .. n |->
                        IF i = 0 THEN << >>
                        ELSE IF Bootable(t, setup.menu[i]) THEN Append(h[i - 1], i)
                        ELSE h[i - 1]]
  <1>1. MenuList(t) = list[n]
    BY DEF MenuList
  <1>2. ASSUME NEW l \in S, NEW i \in 1 .. n PROVE Next1(l, i) \in S
    <2>1. CASE Bootable(t, setup.menu[i])
      <3>1. i \in ItemsOf(t)
        BY <2>1 DEF ItemsOf
      <3> DEFINE T == ItemsOf(t)
      <3> HIDE DEF T
      <3>2. Append(l, i) \in Seq(T)
        BY <3>1 DEF T
      <3> QED
        BY <2>1, <3>2 DEF T
    <2> QED
      BY <2>1
  <1>3. << >> \in S
    OBVIOUS
  <1>n. n \in Nat
    OBVIOUS
  <1>4. f \in [S \X (1 .. n) -> S]
    <2> HIDE DEF S, Next1, n
    <2> QED
      BY <1>2
  <1>5. PICK h \in [0 .. n -> S] : IsLoop(h, << >>, n, f)
    <2> HIDE DEF f, S, n
    <2> QED
      BY <1>3, <1>4, <1>n, LoopExists
  <1>6. ASSUME NEW i \in 0 .. n
        PROVE  h[i] = IF i = 0 THEN << >> ELSE Next1(h[i - 1], i)
    <2>1. h[i] = IF i = 0 THEN << >> ELSE f[<<h[i - 1], i>>]
      BY <1>5 DEF IsLoop
    <2>2. CASE i # 0
      <3>0. i \in 1 .. n /\ i - 1 \in 0 .. n
        <4> HIDE DEF n
        <4> QED
          BY <1>n, <2>2
      <3>1. i \in 1 .. n /\ h[i - 1] \in S
        <4> HIDE DEF S, n
        <4> QED
          BY <1>5, <3>0
      <3>2. f[<<h[i - 1], i>>] = Next1(h[i - 1], i)
        <4> HIDE DEF S, Next1, n
        <4> QED
          BY <3>1
      <3> QED
        BY <2>1, <2>2, <3>2
    <2> QED
      BY <2>1, <2>2
  <1>7. h = [i \in 0 .. n |-> IF i = 0 THEN << >> ELSE Next1(h[i - 1], i)]
    <2> DEFINE g == [i \in 0 .. n |-> IF i = 0 THEN << >> ELSE Next1(h[i - 1], i)]
    <2>1. \A i \in 0 .. n : h[i] = g[i]
      <3> HIDE DEF Next1, n, f
      <3> QED
        BY <1>6
    <2>2. DOMAIN h = 0 .. n /\ h = [i \in 0 .. n |-> h[i]]
      BY <1>5
    <2>3. g = [i \in 0 .. n |-> g[i]]
      OBVIOUS
    <2> HIDE DEF g, n
    <2>4. h = g
      BY <2>1, <2>2, <2>3
    <2> QED
      BY <2>4 DEF g
  <1>8. list = [i \in 0 .. n |->
                  IF i = 0 THEN << >>
                  ELSE IF Bootable(t, setup.menu[i]) THEN Append(list[i - 1], i)
                  ELSE list[i - 1]]
    <2>1. h = [i \in 0 .. n |->
                  IF i = 0 THEN << >>
                  ELSE IF Bootable(t, setup.menu[i]) THEN Append(h[i - 1], i)
                  ELSE h[i - 1]]
      BY <1>7
    <2> HIDE DEF n
    <2> QED
      BY <2>1
  <1>9. \A i \in 0 .. n : list[i] = IF i = 0 THEN << >> ELSE Next1(list[i - 1], i)
    <2> HIDE DEF list, n
    <2> QED
      BY <1>8
  <1> HIDE DEF list, n, Next1
  <1>10. list[0] \in S
    <2>1. 0 \in 0 .. n
      BY <1>n
    <2> HIDE DEF S
    <2> QED
      BY <1>3, <1>9, <2>1
  <1>11. ASSUME NEW i \in 1 .. n, list[i - 1] \in S PROVE list[i] \in S
    <2>1. i \in 0 .. n /\ i # 0
      BY <1>n
    <2>2. list[i] = Next1(list[i - 1], i)
      BY <1>9, <2>1
    <2> HIDE DEF S
    <2> QED
      BY <1>2, <1>11, <2>2
  <1>12. \A i \in 0 .. n : list[i] \in S
    <2> HIDE DEF S
    <2> QED
      BY <1>n, <1>10, <1>11, LoopType
  <1> QED
    BY <1>1, <1>12, <1>n

(* The cursor starts on an item of the list.                               *)
LEMMA PreselectedIs ==
  ASSUME NEW t, Len(setup.menu) \in Nat, NEW act
  PROVE  /\ Preselected(t, act) \in Nat
         /\ \A k \in 1 .. Len(MenuList(t)) :
              MenuList(t)[k] - 1 = act =>
                /\ Preselected(t, act) \in 1 .. Len(MenuList(t))
                /\ MenuList(t)[Preselected(t, act)] - 1 = act
  <1> DEFINE list == MenuList(t)
             I == {i \in 1 .. Len(list) : list[i] - 1 = act}
             k == SelectInSeq(list, LAMBDA i : i - 1 = act)
  <1>1. Len(list) \in Nat
    BY MenuListIs
  <1>2. k = IF I # {} THEN Min(I) ELSE 0
    BY DEF SelectInSeq
  <1>3. I \subseteq 1 .. Len(list) /\ \A i \in 1 .. Len(list) : i \in I <=> list[i] - 1 = act
    OBVIOUS
  <1>4. Preselected(t, act) = IF k = 0 THEN 1 ELSE k
    BY DEF Preselected
  <1> HIDE DEF I, k, list
  <1>5. k \in 0 .. Len(list) /\ (k = 0 <=> I = {}) /\ (k # 0 => k \in I)
    BY <1>1, <1>2, <1>3, FirstIs
  <1>6. ASSUME NEW j \in 1 .. Len(list), list[j] - 1 = act
        PROVE  Preselected(t, act) \in 1 .. Len(list)
               /\ list[Preselected(t, act)] - 1 = act
    <2>1. k # 0 /\ k \in 1 .. Len(list) /\ k \in I
      BY <1>1, <1>3, <1>5, <1>6
    <2> QED
      BY <1>3, <1>4, <2>1
  <1> QED
    BY <1>1, <1>4, <1>5, <1>6 DEF list

-------------------------------------------------------------------------------
(* Which rows are shown with row a: it is one of them, and none is behind  *)
(* the last row.                                                           *)
OneOf(list, a, last) ==
  \/ list = <<a>>
  \/ a < last /\ list = <<a, a + 1>>
  \/ a > 1 /\ list = <<a - 1, a>>
  \/ a < last /\ list = <<a, last>>
  \/ last >= 3 /\ a >= last - 2 /\ list = <<last - 2, last - 1, last>>

(* The rows that are shown together with a row.                            *)
LEMMA TogetherIs ==
  ASSUME NEW last \in Rows, NEW a \in 1 .. last, NEW show
  PROVE  OneOf(Together(a, last, show), a, last)
  <1>1. last \in Nat /\ a \in Nat /\ a >= 1 /\ a <= last
    BY NumberBounds DEF Rows
  <1>2. \/ show = "Next" /\ a # last /\ Together(a, last, show) = <<a, a + 1>>
        \/ show = "Prev" /\ a # 1 /\ Together(a, last, show) = <<a - 1, a>>
        \/ show = "Last3" /\ last >= 3 /\ a >= last - 2
           /\ Together(a, last, show) = <<last - 2, last - 1, last>>
        \/ show \in {"Last", "Last3"} /\ a # last
           /\ Together(a, last, show) = <<a, last>>
        \/ Together(a, last, show) = <<a>>
    BY DEF Together
  <1> QED
    BY <1>1, <1>2 DEF OneOf

(* ... or what "H" shows, an unused row, or nothing.                       *)
Shown(list, t, a) ==
  \/ list = << >> /\ a = 0
  \/ \E r \in Rows : list = <<r>> /\ t[r].type = Unused /\ t[r].num # 0 /\ a = 0
  \/ LastRow(t) \in Rows /\ a \in 1 .. LastRow(t) /\ t[a].type # Unused
     /\ OneOf(list, a, LastRow(t))

(* The first row that is not used.                                         *)
LEMMA FirstFreeIs ==
  ASSUME NEW t \in [Rows -> Row]
  PROVE  Shown(FirstFree(t), t, 0)
  <1> DEFINE I == {i \in 1 .. Len(t) : t[i].type = Unused /\ t[i].num > MinFree}
             k == SelectInSeq(t, LAMBDA p : p.type = Unused /\ p.num > MinFree)
  <1>1. Rows = 1 .. NumRows /\ NumRows \in Nat
    BY NumberBounds DEF Rows
  <1>2. Len(t) = NumRows
    BY <1>1, AsSequence
  <1>3. k = IF I # {} THEN Min(I) ELSE 0
    BY DEF SelectInSeq
  <1>4. I \subseteq 1 .. NumRows
        /\ \A i \in I : t[i].type = Unused /\ t[i].num > MinFree
    BY <1>2
  <1>5. FirstFree(t) = IF k = 0 THEN << >> ELSE <<k>>
    BY DEF FirstFree
  <1> HIDE DEF I, k
  <1>6. k \in 0 .. NumRows /\ (k # 0 => k \in I)
    BY <1>1, <1>3, <1>4, FirstIs
  <1>7. k # 0 => k \in Rows /\ t[k].type = Unused /\ t[k].num # 0
    <2>1. k # 0 => k \in Rows /\ t[k].type = Unused /\ t[k].num > MinFree
      BY <1>1, <1>4, <1>6
    <2>2. MinFree \in Nat
      BY TableConstants
    <2>3. \A r \in Rows : t[r].num > MinFree => t[r].num # 0
      BY <2>2
    <2> QED
      BY <2>1, <2>3
  <1> QED
    BY <1>5, <1>7 DEF Shown

(* The row of the chosen item is a used one.                               *)
LEMMA ChosenRowIs ==
  ASSUME ram.table \in [Rows -> Row], Sound(ram.table), NEW k
  PROVE  /\ ChosenRow(k) \in Rows \cup {0}
         /\ ChosenRow(k) # 0 => /\ ChosenRow(k) \in 1 .. LastRow(ram.table)
                                /\ ram.table[ChosenRow(k)].type # Unused
  <1> DEFINE t == ram.table
             r == PartNumByTag(t, setup.menu[Items[k]].tag)
  <1>1. r \in Rows \cup {0} /\ (r # 0 => t[r].tag # 0)
    BY PartNumIs
  <1>2. 0 \notin Rows
    BY NumberBounds DEF Rows
  <1>3. ChosenRow(k) = r \/ ChosenRow(k) = 0
    BY DEF ChosenRow
  <1> HIDE DEF r
  <1>4. r # 0 => r \in 1 .. LastRow(t) /\ t[r].type # Unused
    BY <1>1, <1>2, TaggedIs
  <1> QED
    BY <1>1, <1>3, <1>4

(* The rows that are shown for an item.                                    *)
LEMMA ShownRowsAre ==
  ASSUME ram.table \in [Rows -> Row], Sound(ram.table), NEW k \in Int, k >= -1
  PROVE  \/ Shown(ShownRows(k), ram.table, ChosenRow(k))
         \/ ShownRows(k) = << >>
  <1> DEFINE t == ram.table
             last == LastRow(t)
             a == ChosenRow(k)
  <1>1. last \in 0 .. NumRows /\ NumRows \in Nat /\ Rows = 1 .. NumRows
    BY LastRowIs, NumberBounds DEF Rows
  <1>2. a # 0 => a \in 1 .. last /\ t[a].type # Unused
    BY ChosenRowIs
  <1>3. \/ ShownRows(k) = << >>
        \/ k = -1 /\ ShownRows(k) = FirstFree(t)
        \/ /\ last # 0 /\ a # 0
           /\ ShownRows(k) = Together(a, last, setup.menu[Items[k]].show)
    BY DEF ShownRows
  <1>4. k = -1 => a = 0
    BY DEF ChosenRow
  <1> HIDE DEF a, last
  <1>5. CASE k = -1 /\ ShownRows(k) = FirstFree(t)
    <2>1. Shown(FirstFree(t), t, 0)
      BY FirstFreeIs
    <2> QED
      BY <1>4, <1>5, <2>1 DEF a
  <1>6. ASSUME last # 0, a # 0,
               ShownRows(k) = Together(a, last, setup.menu[Items[k]].show)
        PROVE  Shown(ShownRows(k), t, a)
    <2>1. last \in Rows /\ a \in 1 .. last
      BY <1>1, <1>2, <1>6
    <2> DEFINE show == setup.menu[Items[k]].show
    <2> HIDE DEF show
    <2>2. OneOf(Together(a, last, show), a, last)
      BY <2>1, TogetherIs
    <2>3. ShownRows(k) = Together(a, last, show)
      BY <1>6 DEF show
    <2> QED
      BY <1>2, <1>6, <2>1, <2>2, <2>3 DEF Shown, last
  <1> QED
    BY <1>3, <1>5, <1>6 DEF a

(* The rows that are shown are rows, at most three of them.                *)
LEMMA ShownTypes ==
  ASSUME NEW t \in [Rows -> Row], NEW a, NEW list,
         Shown(list, t, a) \/ list = << >>
  PROVE  /\ list \in Seq(Rows) /\ Len(list) \in 0 .. 3
         /\ \A i \in 1 .. Len(list) : list[i] \in Rows
  <1> DEFINE last == LastRow(t)
  <1>1. last \in 0 .. NumRows /\ NumRows \in Nat /\ Rows = 1 .. NumRows
    BY LastRowIs, NumberBounds DEF Rows
  <1> HIDE DEF last
  <1>2. CASE list = << >>
    BY <1>2
  <1>3. ASSUME NEW r \in Rows, list = <<r>> PROVE list \in Seq(Rows) /\ Len(list) = 1
    BY <1>3
  <1>4. ASSUME NEW q \in Rows, NEW r \in Rows, list = <<q, r>>
        PROVE  list \in Seq(Rows) /\ Len(list) = 2
    BY <1>4
  <1>5. ASSUME NEW q \in Rows, NEW r \in Rows, NEW s \in Rows, list = <<q, r, s>>
        PROVE  list \in Seq(Rows) /\ Len(list) = 3
    BY <1>5
  <1>6. ASSUME last \in Rows, a \in 1 .. last, OneOf(list, a, last)
        PROVE  \/ \E r \in Rows : list = <<r>>
               \/ \E q, r \in Rows : list = <<q, r>>
               \/ \E q, r, s \in Rows : list = <<q, r, s>>
    <2>1. a \in Rows /\ a \in Nat /\ last \in Nat
      BY <1>1, <1>6
    <2>2. CASE list = <<a>>
      BY <2>1, <2>2
    <2>3. CASE a < last /\ list = <<a, a + 1>>
      <3>1. a + 1 \in Rows
        BY <1>1, <1>6, <2>1, <2>3
      <3> QED
        BY <2>1, <2>3, <3>1
    <2>4. CASE a > 1 /\ list = <<a - 1, a>>
      <3>1. a - 1 \in Rows
        BY <1>1, <1>6, <2>1, <2>4
      <3> QED
        BY <2>1, <2>4, <3>1
    <2>5. CASE a < last /\ list = <<a, last>>
      BY <1>6, <2>1, <2>5
    <2>6. CASE last >= 3 /\ list = <<last - 2, last - 1, last>>
      <3>1. last - 2 \in Rows /\ last - 1 \in Rows
        BY <1>1, <1>6, <2>1, <2>6
      <3> QED
        BY <1>6, <2>6, <3>1
    <2> QED
      BY <1>6, <2>2, <2>3, <2>4, <2>5, <2>6 DEF OneOf
  <1>7. list \in Seq(Rows) /\ Len(list) \in 0 .. 3
    <2>1. \/ list = << >>
          \/ \E r \in Rows : list = <<r>>
          \/ \E q, r \in Rows : list = <<q, r>>
          \/ \E q, r, s \in Rows : list = <<q, r, s>>
      BY <1>6 DEF Shown, last
    <2> QED
      BY <1>2, <1>3, <1>4, <1>5, <2>1
  <1>8. \A i \in 1 .. Len(list) : list[i] \in Rows
    BY <1>7
  <1> QED
    BY <1>7, <1>8

-------------------------------------------------------------------------------
(* The pieces.  There is room for four; a fifth one is dropped.            *)
PieceSet == [type : Types, orig : 0 .. 4, rel : Numbers, num : Numbers,
             active : BOOLEAN]
FourOf(S) == {seq \in Seq(S) : Len(seq) <= 4}
Pushed(new, old, x) ==
  IF Len(old) = 4 THEN new = old
  ELSE /\ Len(new) = Len(old) + 1 /\ new[Len(old) + 1] = x
       /\ \A i \in 1 .. Len(old) : new[i] = old[i]

(* A sequence of at most four pieces has one of these lengths.             *)
LEMMA UpToFour ==
  ASSUME NEW n \in Nat
  PROVE  /\ n <= 4 => (IF n < 4 THEN n ELSE 4) = n
         /\ n > 4 => (IF n < 4 THEN n ELSE 4) = 4
         /\ n <= 4 => n < 4 \/ n = 4
  OBVIOUS

(* Appending to four pieces makes five.                                    *)
LEMMA FiveOf ==
  ASSUME NEW n \in Nat, NEW m, m = n + 1, n <= 4, m > 4
  PROVE  n = 4 /\ m = 5
  OBVIOUS

(* Cutting to four leaves a short sequence alone, ...                      *)
LEMMA First4Short ==
  ASSUME NEW S, NEW seq \in Seq(S), Len(seq) <= 4
  PROVE  First4(seq) = seq
  <1>1. Len(seq) \in Nat
    OBVIOUS
  <1> DEFINE m == IF Len(seq) < 4 THEN Len(seq) ELSE 4
  <1>2. First4(seq) = SubSeq(seq, 1, m) /\ m = Len(seq)
    <2>1. First4(seq) = SubSeq(seq, 1, m)
      BY DEF First4
    <2>2. m = Len(seq)
      BY <1>1, UpToFour
    <2> QED
      BY <2>1, <2>2
  <1> HIDE DEF m
  <1>3. SubSeq(seq, 1, Len(seq)) = seq
    OBVIOUS
  <1> QED
    BY <1>2, <1>3

(* ... and drops what is behind the fourth one.                            *)
LEMMA First4Long ==
  ASSUME NEW S, NEW seq \in Seq(S), Len(seq) > 4
  PROVE  /\ First4(seq) \in Seq(S) /\ Len(First4(seq)) = 4
         /\ \A i \in 1 .. 4 : First4(seq)[i] = seq[i]
  <1>1. Len(seq) \in Nat
    OBVIOUS
  <1> DEFINE m == IF Len(seq) < 4 THEN Len(seq) ELSE 4
  <1>2. First4(seq) = SubSeq(seq, 1, 4)
    <2>1. First4(seq) = SubSeq(seq, 1, m)
      BY DEF First4
    <2>2. m = 4
      BY <1>1, UpToFour
    <2> QED
      BY <2>1, <2>2
  <1>3. /\ SubSeq(seq, 1, 4) \in Seq(S) /\ Len(SubSeq(seq, 1, 4)) = 4
        /\ \A i \in 1 .. 4 : SubSeq(seq, 1, 4)[i] = seq[i]
    BY <1>1
  <1> QED
    BY <1>2, <1>3

(* Two sequences with the same elements are the same.                      *)
LEMMA SameSeq ==
  ASSUME NEW S, NEW a \in Seq(S), NEW b \in Seq(S), Len(a) = Len(b),
         \A i \in 1 .. Len(a) : a[i] = b[i]
  PROVE  a = b
  OBVIOUS

(* Pushing one piece, ...                                                  *)
LEMMA PushOne ==
  ASSUME NEW S, NEW old \in FourOf(S), NEW x \in S
  PROVE  /\ First4(old \o <<x>>) \in FourOf(S)
         /\ Pushed(First4(old \o <<x>>), old, x)
  <1> DEFINE seq == old \o <<x>>
  <1>1. old \in Seq(S) /\ Len(old) \in Nat /\ Len(old) <= 4
    BY DEF FourOf
  <1>2. /\ seq \in Seq(S) /\ Len(seq) = Len(old) + 1 /\ seq[Len(old) + 1] = x
        /\ \A i \in 1 .. Len(old) : seq[i] = old[i]
    BY <1>1
  <1> HIDE DEF seq
  <1>3. CASE Len(old) < 4
    <2>1. First4(seq) = seq
      BY <1>1, <1>2, <1>3, First4Short
    <2> QED
      BY <1>1, <1>2, <1>3, <2>1 DEF FourOf, Pushed, seq
  <1>4. CASE Len(old) = 4
    <2>1. /\ First4(seq) \in Seq(S) /\ Len(First4(seq)) = 4
          /\ \A i \in 1 .. 4 : First4(seq)[i] = seq[i]
      <3>1. Len(seq) > 4
        BY <1>2, <1>4
      <3> QED
        BY <1>2, <3>1, First4Long
    <2>2. First4(seq) = old
      BY <1>1, <1>2, <1>4, <2>1, SameSeq
    <2> QED
      BY <1>4, <2>2 DEF FourOf, Pushed, seq
  <1>5. Len(old) < 4 \/ Len(old) = 4
    BY <1>1, UpToFour
  <1> QED
    BY <1>3, <1>4, <1>5

(* ... and a hidden area and the piece behind it.                          *)
LEMMA PushTwo ==
  ASSUME NEW S, NEW old \in FourOf(S), NEW x \in S, NEW y \in S
  PROVE  \E mid \in FourOf(S) :
           /\ Pushed(mid, old, x) /\ First4(old \o <<x>> \o <<y>>) \in FourOf(S)
           /\ Pushed(First4(old \o <<x>> \o <<y>>), mid, y)
  <1> DEFINE one == old \o <<x>>
             mid == First4(one)
             two == one \o <<y>>
  <1>1. old \in Seq(S) /\ Len(old) \in Nat /\ Len(old) <= 4
    BY DEF FourOf
  <1>2. /\ one \in Seq(S) /\ Len(one) = Len(old) + 1
    BY <1>1
  <1>3. mid \in FourOf(S) /\ Pushed(mid, old, x)
    BY PushOne
  <1>4. CASE Len(one) <= 4
    <2>1. mid = one
      <3> HIDE DEF one
      <3> QED
        BY <1>2, <1>4, First4Short DEF mid
    <2>2. one \in FourOf(S)
      BY <1>2, <1>4 DEF FourOf
    <2>3. First4(two) \in FourOf(S) /\ Pushed(First4(two), one, y)
      <3> HIDE DEF one
      <3> QED
        BY <2>2, PushOne DEF two
    <2> QED
      BY <1>3, <2>1, <2>3
  <1>5. CASE Len(one) > 4
    <2>1. Len(old) = 4 /\ Len(one) = 5
      <3> HIDE DEF one
      <3> QED
        BY <1>1, <1>2, <1>5, FiveOf
    <2>2. mid = old
      BY <1>3, <2>1 DEF Pushed
    <2>3. /\ \A i \in 1 .. 4 : one[i] = old[i]
      BY <1>1, <2>1
    <2> HIDE DEF one
    <2>4. /\ two \in Seq(S) /\ Len(two) = 6
          /\ \A i \in 1 .. 4 : two[i] = one[i]
      <3> DEFINE z == one
      <3>1. z \in Seq(S) /\ Len(z) = 5
        BY <1>2, <2>1
      <3> HIDE DEF z
      <3> DEFINE w == <<y>>
      <3>2. w \in Seq(S) /\ Len(w) = 1
        OBVIOUS
      <3> HIDE DEF w
      <3>3. /\ z \o w \in Seq(S) /\ Len(z \o w) = Len(z) + Len(w)
            /\ \A r \in 1 .. Len(z) + Len(w) :
                 (z \o w)[r] = IF r <= Len(z) THEN z[r] ELSE w[r - Len(z)]
        BY <3>1, <3>2, Joined
      <3>4. Len(z \o w) = 6 /\ \A i \in 1 .. 4 : (z \o w)[i] = z[i]
        BY <3>1, <3>2, <3>3
      <3> QED
        BY <3>3, <3>4 DEF z, w
    <2> HIDE DEF two
    <2>5. /\ First4(two) \in Seq(S) /\ Len(First4(two)) = 4
          /\ \A i \in 1 .. 4 : First4(two)[i] = two[i]
      <3>1. Len(two) > 4
        BY <2>4
      <3> QED
        BY <2>4, <3>1, First4Long
    <2>6. First4(two) = old
      BY <1>1, <2>1, <2>3, <2>4, <2>5, SameSeq
    <2> QED
      BY <1>3, <2>1, <2>2, <2>6 DEF Pushed, FourOf, two, one
  <1>6. Len(one) <= 4 \/ Len(one) > 4
    <2> HIDE DEF one
    <2> QED
      BY <1>1, <1>2
  <1> QED
    BY <1>4, <1>5, <1>6

(* Showing one row.                                                        *)
ShowState == [out : FourOf(PieceSet), cur : Numbers, prev : Rows \cup {0}]
Skips(acc, r, ignore) == ignore /\ acc.prev # 0 /\ acc.prev = r - 1
ShowsRow(acc, new, t, r, a, ignore) ==
  /\ new.cur = Wrap(t[r].rel + t[r].num) /\ new.prev = r
  /\ \/ /\ ~Behind(t[r].rel, acc.cur) \/ Skips(acc, r, ignore)
        /\ Pushed(new.out, acc.out, Piece(t[r], r = a))
     \/ /\ Behind(t[r].rel, acc.cur) /\ ~Skips(acc, r, ignore)
        /\ \E mid \in FourOf(PieceSet) :
             /\ Pushed(mid, acc.out, HiddenPiece(acc.cur, t[r].rel, FALSE))
             /\ Pushed(new.out, mid, Piece(t[r], r = a))

(* What is made of a row is a piece, ...                                   *)
LEMMA PieceType ==
  ASSUME NEW p \in Row, NEW act \in BOOLEAN
  PROVE  Piece(p, act) \in PieceSet
  BY DEF Piece, PieceSet, Row

(* ... and so is a hidden area.                                            *)
LEMMA HiddenType ==
  ASSUME NEW from \in Numbers, NEW to \in Numbers, NEW act \in BOOLEAN
  PROVE  HiddenPiece(from, to, act) \in PieceSet
  <1>1. Wrap(to - from) \in Numbers
    <2>1. to - from \in Int
      BY NumberBounds
    <2> QED
      BY <2>1, WrapType
  <1>2. Hidden \in Types
    BY DEF Types
  <1> QED
    BY <1>1, <1>2 DEF HiddenPiece, PieceSet

(* What showing a row does to the pieces.                                  *)
LEMMA WithRowShows ==
  ASSUME NEW t \in [Rows -> Row], NEW acc \in ShowState, NEW r \in Rows, NEW a,
         NEW ignore \in BOOLEAN
  PROVE  /\ WithRow(acc, t, r, a, ignore) \in ShowState
         /\ ShowsRow(acc, WithRow(acc, t, r, a, ignore), t, r, a, ignore)
  <1> DEFINE p == t[r]
             act == r = a
             h == HiddenPiece(acc.cur, p.rel, FALSE)
             b == Behind(p.rel, acc.cur) /\ ~Skips(acc, r, ignore)
             gap == IF b THEN <<h>> ELSE << >>
             new == WithRow(acc, t, r, a, ignore)
  <1>1. p \in Row /\ p.rel \in Numbers /\ p.rel + p.num \in Int
    <2>1. p.rel \in Nat /\ p.num \in Nat /\ p.rel \in Numbers
      BY RowFields
    <2> QED
      BY <2>1
  <1>2. acc.out \in FourOf(PieceSet) /\ acc.cur \in Numbers
    BY DEF ShowState
  <1>3. new = [out |-> First4(acc.out \o gap \o <<Piece(p, act)>>),
               cur |-> Wrap(p.rel + p.num), prev |-> r]
    BY DEF WithRow, Skips
  <1>4. Piece(p, act) \in PieceSet /\ h \in PieceSet
    BY <1>1, <1>2, PieceType, HiddenType
  <1>5. Wrap(p.rel + p.num) \in Numbers
    BY <1>1, WrapType
  <1>6. acc.out \in Seq(PieceSet)
    BY <1>2 DEF FourOf
  <1> HIDE DEF h, p, act, new
  <1>7. CASE b
    <2>1. gap = <<h>>
      BY <1>7
    <2> HIDE DEF gap
    <2> DEFINE out == First4(acc.out \o <<h>> \o <<Piece(p, act)>>)
    <2>2. PICK mid \in FourOf(PieceSet) :
             /\ Pushed(mid, acc.out, h) /\ out \in FourOf(PieceSet)
             /\ Pushed(out, mid, Piece(p, act))
      BY <1>2, <1>4, PushTwo
    <2>3. new = [out |-> out, cur |-> Wrap(p.rel + p.num), prev |-> r]
      BY <1>3, <2>1
    <2> HIDE DEF out
    <2>4. new \in ShowState /\ new.out = out /\ new.cur = Wrap(p.rel + p.num)
          /\ new.prev = r
      BY <1>5, <2>2, <2>3 DEF ShowState
    <2>5. ShowsRow(acc, new, t, r, a, ignore)
      BY <1>7, <2>2, <2>4 DEF ShowsRow, h, p, act
    <2> QED
      BY <2>4, <2>5 DEF new
  <1>8. CASE ~b
    <2>1. gap = << >>
      BY <1>8
    <2>2. acc.out \o << >> = acc.out
      BY <1>6
    <2> HIDE DEF gap
    <2> DEFINE out == First4(acc.out \o <<Piece(p, act)>>)
    <2>3. out \in FourOf(PieceSet) /\ Pushed(out, acc.out, Piece(p, act))
      BY <1>2, <1>4, PushOne
    <2>4. new = [out |-> out, cur |-> Wrap(p.rel + p.num), prev |-> r]
      BY <1>3, <2>1, <2>2
    <2> HIDE DEF out
    <2>5. new \in ShowState /\ new.out = out /\ new.cur = Wrap(p.rel + p.num)
          /\ new.prev = r
      BY <1>5, <2>3, <2>4 DEF ShowState
    <2>6. ShowsRow(acc, new, t, r, a, ignore)
      BY <1>8, <2>3, <2>5 DEF ShowsRow, p, act
    <2> QED
      BY <2>5, <2>6 DEF new
  <1> QED
    BY <1>7, <1>8

ShowSteps(s, t, list, a, ignore) ==
  /\ s \in [0 .. 3 -> ShowState]
  /\ s[0].out = << >> /\ s[0].cur = t[1].rel /\ s[0].prev = 0
  /\ \A k \in 1 .. 3 :
       IF k > Len(list) THEN s[k] = s[k - 1]
       ELSE ShowsRow(s[k - 1], s[k], t, list[k], a, ignore)

(* The pieces of a list of rows are made one row after the other.          *)
LEMMA PiecesSteps ==
  ASSUME NEW t \in [Rows -> Row], NEW list, Len(list) \in 0 .. 3,
         \A i \in 1 .. Len(list) : list[i] \in Rows, NEW a, NEW ignore \in BOOLEAN
  PROVE  \E s : /\ ShowSteps(s, t, list, a, ignore)
                /\ Pieces(t, list, a, ignore) = s[3]
  <1> DEFINE start == [out |-> << >>, cur |-> t[1].rel, prev |-> 0]
             Show(acc, k) == IF k > Len(list) THEN acc
                             ELSE WithRow(acc, t, list[k], a, ignore)
             s1 == Show(start, 1)
             s2 == Show(s1, 2)
             s3 == Show(s2, 3)
             s == [k \in 0 .. 3 |-> IF k = 0 THEN start ELSE IF k = 1 THEN s1
                                    ELSE IF k = 2 THEN s2 ELSE s3]
  <1>1. Pieces(t, list, a, ignore) = s3
    BY DEF Pieces
  <1>2. start \in ShowState
    <2>1. t[1].rel \in Numbers
      BY NumberBounds, RowFields
    <2>2. << >> \in FourOf(PieceSet)
      BY DEF FourOf
    <2> QED
      BY <2>1, <2>2 DEF ShowState
  <1>3. ASSUME NEW acc \in ShowState, NEW k \in 1 .. 3
        PROVE  /\ Show(acc, k) \in ShowState
               /\ IF k > Len(list) THEN Show(acc, k) = acc
                  ELSE ShowsRow(acc, Show(acc, k), t, list[k], a, ignore)
    <2>1. CASE k > Len(list)
      BY <2>1
    <2>2. CASE ~(k > Len(list))
      <3>1. k \in 1 .. Len(list)
        BY <2>2
      <3>2. list[k] \in Rows
        BY <3>1
      <3>3. /\ WithRow(acc, t, list[k], a, ignore) \in ShowState
            /\ ShowsRow(acc, WithRow(acc, t, list[k], a, ignore), t, list[k], a, ignore)
        BY <3>2, WithRowShows
      <3> QED
        BY <2>2, <3>3
    <2> QED
      BY <2>1, <2>2
  <1>s. start.out = << >> /\ start.cur = t[1].rel /\ start.prev = 0
    OBVIOUS
  <1> HIDE DEF start, Show
  <1>4. s1 \in ShowState /\ s2 \in ShowState /\ s3 \in ShowState
    <2>1. s1 \in ShowState
      BY <1>2, <1>3
    <2> HIDE DEF s1
    <2>2. s2 \in ShowState
      BY <1>3, <2>1
    <2> HIDE DEF s2
    <2>3. s3 \in ShowState
      BY <1>3, <2>2
    <2> QED
      BY <2>1, <2>2, <2>3
  <1>5. /\ IF 1 > Len(list) THEN s1 = start
           ELSE ShowsRow(start, s1, t, list[1], a, ignore)
        /\ IF 2 > Len(list) THEN s2 = s1
           ELSE ShowsRow(s1, s2, t, list[2], a, ignore)
        /\ IF 3 > Len(list) THEN s3 = s2
           ELSE ShowsRow(s2, s3, t, list[3], a, ignore)
    <2>1. 1 \in 1 .. 3 /\ 2 \in 1 .. 3 /\ 3 \in 1 .. 3
      OBVIOUS
    <2>2. IF 1 > Len(list) THEN s1 = start
          ELSE ShowsRow(start, s1, t, list[1], a, ignore)
      BY <1>2, <1>3, <2>1
    <2>3. IF 2 > Len(list) THEN s2 = s1
          ELSE ShowsRow(s1, s2, t, list[2], a, ignore)
      <3> HIDE DEF s1
      <3> QED
        BY <1>3, <1>4, <2>1
    <2>4. IF 3 > Len(list) THEN s3 = s2
          ELSE ShowsRow(s2, s3, t, list[3], a, ignore)
      <3> HIDE DEF s2
      <3> QED
        BY <1>3, <1>4, <2>1
    <2> QED
      BY <2>2, <2>3, <2>4
  <1> HIDE DEF s1, s2, s3
  <1>6. s[0] = start /\ s[1] = s1 /\ s[2] = s2 /\ s[3] = s3
        /\ s \in [0 .. 3 -> ShowState]
    BY <1>2, <1>4
  <1> HIDE DEF s
  <1>7. ASSUME NEW k \in 1 .. 3
        PROVE  IF k > Len(list) THEN s[k] = s[k - 1]
               ELSE ShowsRow(s[k - 1], s[k], t, list[k], a, ignore)
    <2>1. CASE k = 1
      BY <1>5, <1>6, <2>1
    <2>2. CASE k = 2
      BY <1>5, <1>6, <2>2
    <2>3. CASE k = 3
      BY <1>5, <1>6, <2>3
    <2> QED
      BY <2>1, <2>2, <2>3
  <1>8. ShowSteps(s, t, list, a, ignore)
    BY <1>6, <1>7, <1>s DEF ShowSteps
  <1> QED
    BY <1>1, <1>6, <1>8

(* The rest of the disk is the last piece, if there is room for it.        *)
Rest(end) == HiddenPiece(end.cur, CylEnd, end.out = << >>)
Filling4(f, end, out) ==
  /\ out \in FourOf(PieceSet)
  /\ \/ (Len(end.out) = 4 \/ Rest(end).num = 0) /\ out = end.out
     \/ Len(end.out) # 4 /\ Rest(end).num # 0 /\ Pushed(out, end.out, Rest(end))
  /\ f \in [Slots -> PieceSet]
  /\ \A i \in Slots : f[i] = IF i <= Len(out) THEN out[i] ELSE NoPiece

(* The four slots before they are rearranged.                              *)
LEMMA FilledIs ==
  ASSUME NEW t \in [Rows -> Row], NEW list, Len(list) \in 0 .. 3,
         \A i \in 1 .. Len(list) : list[i] \in Rows, NEW a, NEW ignore \in BOOLEAN
  PROVE  \E s, out : /\ ShowSteps(s, t, list, a, ignore)
                     /\ Filling4(Filled(t, list, a, ignore), s[3], out)
  <1>1. PICK s : /\ ShowSteps(s, t, list, a, ignore)
                 /\ Pieces(t, list, a, ignore) = s[3]
    BY PiecesSteps
  <1> DEFINE end == s[3]
             rest == Rest(end)
             out == IF Len(end.out) = 4 \/ rest.num = 0 THEN end.out
                    ELSE Append(end.out, rest)
             f == [i \in 1 .. 4 |-> IF i <= Len(out) THEN out[i] ELSE NoPiece]
  <1>2. end \in ShowState
    BY <1>1 DEF ShowSteps
  <1>3. Filled(t, list, a, ignore) = f
    BY <1>1 DEF Filled, Rest, Padded
  <1> HIDE DEF end
  <1>4. end.out \in FourOf(PieceSet) /\ end.cur \in Numbers /\ end.out \in Seq(PieceSet)
        /\ Len(end.out) \in Nat /\ Len(end.out) <= 4
    BY <1>2 DEF ShowState, FourOf
  <1>5. rest \in PieceSet
    <2>1. CylEnd \in Numbers
      BY TableConstants DEF Numbers
    <2> QED
      BY <1>4, <2>1, HiddenType DEF Rest
  <1> HIDE DEF rest
  <1>6. /\ out \in FourOf(PieceSet)
        /\ \/ (Len(end.out) = 4 \/ rest.num = 0) /\ out = end.out
           \/ Len(end.out) # 4 /\ rest.num # 0 /\ Pushed(out, end.out, rest)
    <2>1. CASE Len(end.out) = 4 \/ rest.num = 0
      BY <1>4, <2>1
    <2>2. CASE ~(Len(end.out) = 4 \/ rest.num = 0)
      <3> DEFINE old == end.out
      <3>1. old \in Seq(PieceSet) /\ Len(old) \in Nat /\ Len(old) <= 4 /\ Len(old) # 4
        BY <1>4, <2>2
      <3> HIDE DEF old
      <3>2. Append(old, rest) \in Seq(PieceSet) /\ Plus(Append(old, rest), old, rest)
        BY <1>5, <3>1, Longer
      <3>3. Len(Append(old, rest)) = Len(old) + 1
        BY <3>2 DEF Plus
      <3> DEFINE n == Len(old)
      <3>4. n + 1 <= 4
        <4>1. n \in Nat /\ n <= 4 /\ n # 4
          BY <3>1
        <4> HIDE DEF n
        <4> QED
          BY <4>1
      <3>5. out = Append(old, rest)
        BY <2>2 DEF old
      <3>6. Append(old, rest) \in FourOf(PieceSet) /\ Pushed(Append(old, rest), old, rest)
        BY <3>1, <3>2, <3>3, <3>4 DEF FourOf, Pushed, Plus
      <3> QED
        BY <2>2, <3>5, <3>6 DEF old
    <2> QED
      BY <2>1, <2>2
  <1> HIDE DEF out
  <1>7. NoPiece \in PieceSet
    BY NoRowType, PieceType DEF NoPiece
  <1>8. \A i \in Slots : i <= Len(out) => out[i] \in PieceSet
    <2>1. out \in Seq(PieceSet) /\ Len(out) \in Nat
      BY <1>6 DEF FourOf
    <2> QED
      BY <2>1 DEF Slots
  <1>9. f \in [Slots -> PieceSet]
        /\ \A i \in Slots : f[i] = IF i <= Len(out) THEN out[i] ELSE NoPiece
    BY <1>7, <1>8 DEF Slots
  <1> HIDE DEF f
  <1>10. Filling4(f, end, out)
    BY <1>6, <1>9 DEF Filling4, rest
  <1> QED
    BY <1>1, <1>3, <1>10 DEF end

-------------------------------------------------------------------------------
(* The slots are rearranged.                                               *)
SamePiece(x, y) ==
  x.type = y.type /\ x.rel = y.rel /\ x.num = y.num /\ x.active = y.active
Rearranges(p, new, old) ==
  IsPermutation(p, 4) /\ \A i \in Slots : SamePiece(new[i], old[p[i]])

(* One swap rearranges the slots.                                          *)
LEMMA SettledOnce ==
  ASSUME NEW old \in [Slots -> PieceSet]
  PROVE  Settled(old) \in [Slots -> PieceSet] /\ \E p : Rearranges(p, Settled(old), old)
  <1> DEFINE I == {i \in 1 .. Len(old) : old[i].orig # 0}
             k == SelectInSeq(old, LAMBDA x : x.orig # 0)
             to == old[k].orig
             new == [i \in Slots |-> IF i = to THEN [old[k] EXCEPT !.orig = 0]
                                     ELSE IF i = k THEN old[to] ELSE old[i]]
             p == [i \in Slots |-> IF k = 0 THEN i ELSE IF i = to THEN k
                                   ELSE IF i = k THEN to ELSE i]
  <1>1. Slots = 1 .. 4 /\ Len(old) = 4
    <2>1. old \in [1 .. 4 -> PieceSet] /\ 4 \in Nat
      BY DEF Slots
    <2> QED
      BY <2>1, AsSequence DEF Slots
  <1>2. k = IF I # {} THEN Min(I) ELSE 0
    BY DEF SelectInSeq
  <1>3. I \subseteq 1 .. 4 /\ \A i \in I : i \in Slots /\ old[i].orig # 0
    BY <1>1
  <1>4. Settled(old) = IF k = 0 THEN old ELSE new
    BY DEF Settled
  <1>5. k \in 0 .. 4 /\ (k # 0 => k \in I)
    <2> HIDE DEF I, k
    <2> QED
      BY <1>2, <1>3, FirstIs
  <1>6. k # 0 => k \in Slots /\ to \in Slots /\ old[k] \in PieceSet
    <2> HIDE DEF I, k
    <2>1. k # 0 => k \in Slots /\ old[k].orig # 0 /\ old[k] \in PieceSet
      BY <1>3, <1>5
    <2> QED
      BY <1>1, <2>1 DEF PieceSet
  <1> HIDE DEF k, I
  <1>7. IsPermutation(p, 4)
    <2>1. p \in [Slots -> Slots]
      BY <1>6
    <2>2. \A i, j \in Slots : i # j => p[i] # p[j]
      BY <1>6
    <2> HIDE DEF p
    <2>3. 4 \in Nat
      OBVIOUS
    <2> QED
      BY <1>1, <2>1, <2>2, <2>3, Everyone
  <1>8. CASE k = 0
    <2>1. \A i \in Slots : SamePiece(old[i], old[p[i]])
      BY <1>8 DEF SamePiece
    <2> HIDE DEF p
    <2> QED
      BY <1>4, <1>7, <1>8, <2>1 DEF Rearranges
  <1>9. CASE k # 0
    <2> DEFINE moved == [old[k] EXCEPT !.orig = 0]
    <2>1. moved \in PieceSet /\ SamePiece(moved, old[k])
      BY <1>6, <1>9 DEF PieceSet, SamePiece
    <2> HIDE DEF moved, to
    <2>2. new = [i \in Slots |-> IF i = to THEN moved
                                 ELSE IF i = k THEN old[to] ELSE old[i]]
      BY DEF moved
    <2>3. new \in [Slots -> PieceSet]
      <3> HIDE DEF new
      <3> QED
        BY <1>6, <1>9, <2>1, <2>2
    <2>4. ASSUME NEW i \in Slots PROVE SamePiece(new[i], old[p[i]])
      <3>1. new[i] = IF i = to THEN moved ELSE IF i = k THEN old[to] ELSE old[i]
        BY <2>2
      <3>2. p[i] = IF i = to THEN k ELSE IF i = k THEN to ELSE i
        BY <1>9
      <3> HIDE DEF new, p
      <3>3. new[i] = old[p[i]] \/ (new[i] = moved /\ p[i] = k)
        BY <3>1, <3>2
      <3> QED
        BY <2>1, <3>3 DEF SamePiece
    <2> HIDE DEF new, p
    <2> QED
      BY <1>4, <1>7, <1>9, <2>3, <2>4 DEF Rearranges
  <1> QED
    BY <1>8, <1>9

(* Two swaps one after the other rearrange them too.                       *)
LEMMA RearrangedTwice ==
  ASSUME NEW a, NEW b, NEW c, NEW p, NEW q, Rearranges(p, b, a), Rearranges(q, c, b)
  PROVE  \E r : Rearranges(r, c, a)
  <1> DEFINE r == [i \in Slots |-> p[q[i]]]
  <1>1. Slots = 1 .. 4
    BY DEF Slots
  <1>2. /\ p \in [Slots -> Slots] /\ q \in [Slots -> Slots]
        /\ \A i, j \in Slots : i # j => p[i] # p[j]
        /\ \A i, j \in Slots : i # j => q[i] # q[j]
    BY <1>1 DEF Rearranges, IsPermutation
  <1>3. r \in [Slots -> Slots] /\ \A i, j \in Slots : i # j => r[i] # r[j]
    BY <1>2
  <1>4. \A i \in Slots : SamePiece(c[i], a[r[i]])
    <2> SUFFICES ASSUME NEW i \in Slots PROVE SamePiece(c[i], a[p[q[i]]])
      OBVIOUS
    <2>1. q[i] \in Slots
      BY <1>2
    <2>2. SamePiece(c[i], b[q[i]]) /\ SamePiece(b[q[i]], a[p[q[i]]])
      BY <2>1 DEF Rearranges
    <2> QED
      BY <2>2 DEF SamePiece
  <1> HIDE DEF r
  <1>5. IsPermutation(r, 4)
    <2>1. 4 \in Nat
      OBVIOUS
    <2> QED
      BY <1>1, <1>3, <2>1, Everyone
  <1> QED
    BY <1>4, <1>5 DEF Rearranges

(* Putting pieces back into the slots they came from only rearranges them. *)
LEMMA SettledIs ==
  ASSUME NEW f \in [Slots -> PieceSet]
  PROVE  LET g == Settled(Settled(Settled(Settled(f))))
         IN  g \in [Slots -> PieceSet] /\ \E p : Rearranges(p, g, f)
  <1> DEFINE a == Settled(f)
             b == Settled(a)
             c == Settled(b)
             d == Settled(c)
  <1>1. a \in [Slots -> PieceSet] /\ \E p : Rearranges(p, a, f)
    BY SettledOnce
  <1> HIDE DEF a
  <1>2. b \in [Slots -> PieceSet] /\ \E p : Rearranges(p, b, a)
    BY <1>1, SettledOnce
  <1> HIDE DEF b
  <1>3. c \in [Slots -> PieceSet] /\ \E p : Rearranges(p, c, b)
    BY <1>2, SettledOnce
  <1> HIDE DEF c
  <1>4. d \in [Slots -> PieceSet] /\ \E p : Rearranges(p, d, c)
    BY <1>3, SettledOnce
  <1> HIDE DEF d
  <1>5. \E p : Rearranges(p, b, f)
    BY <1>1, <1>2, RearrangedTwice
  <1>6. \E p : Rearranges(p, c, f)
    BY <1>3, <1>5, RearrangedTwice
  <1>7. \E p : Rearranges(p, d, f)
    BY <1>4, <1>6, RearrangedTwice
  <1> QED
    BY <1>4, <1>7 DEF a, b, c, d

(* The rows of the new MBR are the slots.                                  *)
MadeOf(p, rows, f) ==
  /\ IsPermutation(p, 4) /\ rows \in [Slots -> Entry]
  /\ \A i \in Slots :
       IF f[p[i]].type = Unused THEN rows[i] = NoEntry
       ELSE /\ rows[i].type = IF f[p[i]].type = Manager THEN Hidden ELSE f[p[i]].type
            /\ rows[i].rel = f[p[i]].rel /\ rows[i].num = f[p[i]].num
            /\ rows[i].active = f[p[i]].active

(* The MBR is made of the filled slots, rearranged.                        *)
LEMMA MadeIs ==
  ASSUME NEW t \in [Rows -> Row], NEW list, Len(list) \in 0 .. 3,
         \A i \in 1 .. Len(list) : list[i] \in Rows, NEW a, NEW ignore \in BOOLEAN
  PROVE  \E s, out, p : /\ ShowSteps(s, t, list, a, ignore)
                        /\ Filling4(Filled(t, list, a, ignore), s[3], out)
                        /\ MadeOf(p, MadePartTab(t, list, a, ignore),
                                  Filled(t, list, a, ignore))
  <1> DEFINE f == Filled(t, list, a, ignore)
             g == Settled(Settled(Settled(Settled(f))))
             rows == MadePartTab(t, list, a, ignore)
  <1>1. PICK s, out : ShowSteps(s, t, list, a, ignore) /\ Filling4(f, s[3], out)
    BY FilledIs
  <1>2. rows = [k \in Slots |-> MbrEntry(g[k])]
    BY DEF MadePartTab
  <1>3. f \in [Slots -> PieceSet]
    BY <1>1 DEF Filling4
  <1> HIDE DEF f
  <1>4. g \in [Slots -> PieceSet] /\ \E p : Rearranges(p, g, f)
    BY <1>3, SettledIs
  <1>5. PICK p : Rearranges(p, g, f)
    BY <1>4
  <1> HIDE DEF g, rows
  <1>6. ASSUME NEW x \in PieceSet
        PROVE  /\ MbrEntry(x) \in Entry
               /\ IF x.type = Unused THEN MbrEntry(x) = NoEntry
                  ELSE /\ MbrEntry(x).type = IF x.type = Manager THEN Hidden ELSE x.type
                       /\ MbrEntry(x).rel = x.rel /\ MbrEntry(x).num = x.num
                       /\ MbrEntry(x).active = x.active
    <2>1. 0 \in Numbers
      BY NumberBounds
    <2> QED
      BY <2>1 DEF MbrEntry, NoEntry, Entry, PieceSet, Types
  <1>7. rows \in [Slots -> Entry]
    BY <1>2, <1>4, <1>6
  <1>8. ASSUME NEW i \in Slots
        PROVE  IF f[p[i]].type = Unused THEN rows[i] = NoEntry
               ELSE /\ rows[i].type = IF f[p[i]].type = Manager THEN Hidden
                                      ELSE f[p[i]].type
                    /\ rows[i].rel = f[p[i]].rel /\ rows[i].num = f[p[i]].num
                    /\ rows[i].active = f[p[i]].active
    <2>1. g[i] \in PieceSet /\ rows[i] = MbrEntry(g[i])
      BY <1>2, <1>4
    <2>2. SamePiece(g[i], f[p[i]])
      BY <1>5 DEF Rearranges
    <2> QED
      BY <1>6, <2>1, <2>2 DEF SamePiece
  <1>9. MadeOf(p, rows, f)
    BY <1>5, <1>7, <1>8 DEF MadeOf, Rearranges
  <1> QED
    BY <1>1, <1>9 DEF f, rows

(* What all pieces have that are pushed, all pieces have.                  *)
AllIn(seq, G) == \A i \in 1 .. Len(seq) : seq[i] \in G
(* A push keeps what all pieces have.                                      *)
LEMMA PushedAll ==
  ASSUME NEW old \in FourOf(PieceSet), NEW new \in FourOf(PieceSet), NEW x, NEW G,
         Pushed(new, old, x), AllIn(old, G), x \in G
  PROVE  AllIn(new, G)
  <1>1. Len(old) \in Nat /\ Len(new) \in Nat
    BY DEF FourOf
  <1>2. CASE Len(old) = 4
    BY <1>2 DEF Pushed
  <1>3. CASE Len(old) # 4
    <2>1. /\ Len(new) = Len(old) + 1 /\ new[Len(old) + 1] = x
          /\ \A i \in 1 .. Len(old) : new[i] = old[i]
      BY <1>3 DEF Pushed
    <2> DEFINE n == Len(old)
    <2>2. n \in Nat /\ Len(new) = n + 1 /\ new[n + 1] = x
          /\ \A i \in 1 .. n : new[i] = old[i] /\ old[i] \in G
      BY <1>1, <2>1 DEF AllIn
    <2> HIDE DEF n
    <2>3. ASSUME NEW i \in 1 .. n + 1 PROVE new[i] \in G
      <3>1. i = n + 1 \/ i \in 1 .. n
        BY <2>2
      <3> QED
        BY <2>2, <3>1
    <2> QED
      BY <2>2, <2>3 DEF AllIn
  <1> QED
    BY <1>2, <1>3

(* Partitions that are shown are those of the table.                       *)
VisibleFrom(t, e) ==
  e.type \in OsTypes =>
    \E r \in Rows : t[r].type = e.type /\ t[r].rel = e.rel /\ t[r].num = e.num
GoodPieces(t) == {x \in PieceSet : VisibleFrom(t, x)}
(* A hidden area shows no partition.                                       *)
LEMMA HiddenGood ==
  ASSUME NEW t, NEW from \in Numbers, NEW to \in Numbers, NEW act \in BOOLEAN
  PROVE  HiddenPiece(from, to, act) \in GoodPieces(t)
  <1>1. HiddenPiece(from, to, act) \in PieceSet
    BY HiddenType
  <1>2. HiddenPiece(from, to, act).type = Hidden
    BY DEF HiddenPiece
  <1> QED
    BY <1>1, <1>2, TypesApart DEF GoodPieces, VisibleFrom

(* Nor does showing a row show another one than that row.                  *)
LEMMA ShowsGood ==
  ASSUME NEW t \in [Rows -> Row], NEW acc \in ShowState,
         NEW new \in ShowState, NEW r \in Rows, NEW a, NEW ignore,
         ShowsRow(acc, new, t, r, a, ignore), AllIn(acc.out, GoodPieces(t))
  PROVE  AllIn(new.out, GoodPieces(t))
  <1>1. acc.out \in FourOf(PieceSet) /\ new.out \in FourOf(PieceSet)
        /\ acc.cur \in Numbers /\ t[r] \in Row /\ t[r].rel \in Numbers
    BY RowFields DEF ShowState
  <1>2. Piece(t[r], r = a) \in GoodPieces(t)
    <2>1. Piece(t[r], r = a) \in PieceSet
      BY <1>1, PieceType
    <2>2. VisibleFrom(t, Piece(t[r], r = a))
      <3>1. /\ Piece(t[r], r = a).type = t[r].type /\ Piece(t[r], r = a).rel = t[r].rel
            /\ Piece(t[r], r = a).num = t[r].num
        BY DEF Piece
      <3> QED
        BY <3>1 DEF VisibleFrom
    <2> QED
      BY <2>1, <2>2 DEF GoodPieces
  <1>3. HiddenPiece(acc.cur, t[r].rel, FALSE) \in GoodPieces(t)
    BY <1>1, HiddenGood
  <1>4. CASE Pushed(new.out, acc.out, Piece(t[r], r = a))
    BY <1>1, <1>2, <1>4, PushedAll
  <1>5. ASSUME NEW mid \in FourOf(PieceSet),
               Pushed(mid, acc.out, HiddenPiece(acc.cur, t[r].rel, FALSE)),
               Pushed(new.out, mid, Piece(t[r], r = a))
        PROVE  AllIn(new.out, GoodPieces(t))
    <2>1. AllIn(mid, GoodPieces(t))
      BY <1>1, <1>3, <1>5, PushedAll
    <2> QED
      BY <1>1, <1>2, <1>5, <2>1, PushedAll
  <1> QED
    BY <1>4, <1>5 DEF ShowsRow

(* So what the MBR shows is in the table.                                  *)
LEMMA MadeFrom ==
  ASSUME NEW t \in [Rows -> Row], NEW list, Len(list) \in 0 .. 3,
         \A i \in 1 .. Len(list) : list[i] \in Rows, NEW a, NEW ignore \in BOOLEAN
  PROVE  LET rows == MadePartTab(t, list, a, ignore)
         IN  /\ rows \in [Slots -> Entry]
             /\ \A i \in Slots : /\ VisibleFrom(t, rows[i])
                                 /\ rows[i].type = Unused => rows[i] = NoEntry
  <1> DEFINE f == Filled(t, list, a, ignore)
             rows == MadePartTab(t, list, a, ignore)
  <1>1. PICK s, out, p : /\ ShowSteps(s, t, list, a, ignore)
                         /\ Filling4(f, s[3], out) /\ MadeOf(p, rows, f)
    BY MadeIs
  <1> HIDE DEF f, rows
  <1>2. /\ s \in [0 .. 3 -> ShowState] /\ s[0].out = << >>
        /\ \A k \in 1 .. 3 : IF k > Len(list) THEN s[k] = s[k - 1]
             ELSE ShowsRow(s[k - 1], s[k], t, list[k], a, ignore)
    BY <1>1 DEF ShowSteps
  <1> DEFINE G == {k \in 0 .. 3 : AllIn(s[k].out, GoodPieces(t))}
  <1>3. 0 \in G
    <2>1. AllIn(<< >>, GoodPieces(t))
      BY DEF AllIn
    <2> QED
      BY <1>2, <2>1
  <1>4. ASSUME NEW k \in 1 .. 3, k - 1 \in G PROVE k \in G
    <2>1. s[k - 1] \in ShowState /\ s[k] \in ShowState /\ AllIn(s[k - 1].out, GoodPieces(t))
      BY <1>2, <1>4
    <2>2. CASE k > Len(list)
      BY <1>2, <2>1, <2>2
    <2>3. CASE ~(k > Len(list))
      <3>1. list[k] \in Rows
        BY <2>3
      <3>2. ShowsRow(s[k - 1], s[k], t, list[k], a, ignore)
        BY <1>2, <2>3
      <3>3. AllIn(s[k].out, GoodPieces(t))
        BY <2>1, <3>1, <3>2, ShowsGood
      <3> QED
        BY <3>3
    <2> QED
      BY <2>2, <2>3
  <1>5. \A k \in 0 .. 3 : k \in G
    <2> HIDE DEF G
    <2>1. 3 \in Nat
      OBVIOUS
    <2> QED
      BY <1>3, <1>4, <2>1, Turns
  <1> DEFINE end == s[3]
  <1>6. end \in ShowState /\ AllIn(end.out, GoodPieces(t))
    BY <1>2, <1>5
  <1>7. end.out \in FourOf(PieceSet) /\ end.cur \in Numbers
    BY <1>6 DEF ShowState
  <1> HIDE DEF end
  <1>8. Rest(end) \in GoodPieces(t)
    <2>1. CylEnd \in Numbers
      BY TableConstants DEF Numbers
    <2> QED
      BY <1>7, <2>1, HiddenGood DEF Rest
  <1>9. AllIn(out, GoodPieces(t))
    <2>1. out = end.out \/ Pushed(out, end.out, Rest(end))
      BY <1>1 DEF Filling4, end
    <2>2. out \in FourOf(PieceSet)
      BY <1>1 DEF Filling4
    <2> QED
      BY <1>6, <1>7, <1>8, <2>1, <2>2, PushedAll
  <1>10. \A i \in Slots : f[i] \in GoodPieces(t)
    <2>1. NoPiece \in GoodPieces(t)
      <3>1. NoPiece \in PieceSet
        BY NoRowType, PieceType DEF NoPiece
      <3>2. NoPiece.type = Unused
        BY DEF NoPiece, Piece, NoRow
      <3> QED
        BY <3>1, <3>2, TypesApart DEF GoodPieces, VisibleFrom
    <2>2. /\ out \in FourOf(PieceSet)
          /\ \A i \in Slots : f[i] = IF i <= Len(out) THEN out[i] ELSE NoPiece
      BY <1>1 DEF Filling4
    <2>3. Len(out) \in Nat
      BY <2>2 DEF FourOf
    <2>4. \A i \in Slots : i <= Len(out) => i \in 1 .. Len(out)
      BY <2>3 DEF Slots
    <2> QED
      BY <1>9, <2>1, <2>2, <2>4 DEF AllIn
  <1>11. \A i \in Slots : p[i] \in Slots
    BY <1>1 DEF MadeOf, IsPermutation, Slots
  <1>12. rows \in [Slots -> Entry]
    BY <1>1 DEF MadeOf
  <1>13. ASSUME NEW i \in Slots
         PROVE  /\ VisibleFrom(t, rows[i])
                /\ rows[i].type = Unused => rows[i] = NoEntry
    <2>1. IF f[p[i]].type = Unused THEN rows[i] = NoEntry
          ELSE /\ rows[i].type = IF f[p[i]].type = Manager THEN Hidden
                                 ELSE f[p[i]].type
               /\ rows[i].rel = f[p[i]].rel /\ rows[i].num = f[p[i]].num
      BY <1>1 DEF MadeOf
    <2>2. VisibleFrom(t, f[p[i]])
      BY <1>10, <1>11 DEF GoodPieces
    <2>3. Unused \notin OsTypes /\ Hidden \notin OsTypes /\ Hidden # Unused
          /\ NoEntry.type = Unused
      BY TypesApart DEF Hidden, Unused, NoEntry
    <2>4. CASE f[p[i]].type = Unused
      BY <2>1, <2>3, <2>4 DEF VisibleFrom
    <2>5. CASE f[p[i]].type # Unused
      BY <2>1, <2>2, <2>3, <2>5 DEF VisibleFrom, OnDisk
    <2> QED
      BY <2>4, <2>5
  <1> QED
    BY <1>12, <1>13 DEF rows

(* The MBR that is made is one the table editor accepts.                   *)
LEMMA MadeSound ==
  ASSUME NEW t \in [Rows -> Row], UsedOnDisk(t), NEW list, Len(list) \in 0 .. 3,
         \A i \in 1 .. Len(list) : list[i] \in Rows, NEW a, NEW ignore \in BOOLEAN,
         NEW act \in Nat
  PROVE  LET new == [rows |-> MadePartTab(t, list, a, ignore), act |-> act]
         IN  new \in Mbr /\ MbrSound(new)
  <1> DEFINE rows == MadePartTab(t, list, a, ignore)
  <1>1. /\ rows \in [Slots -> Entry]
        /\ \A i \in Slots : /\ VisibleFrom(t, rows[i])
                            /\ rows[i].type = Unused => rows[i] = NoEntry
    BY MadeFrom
  <1> HIDE DEF rows
  <1>2. ASSUME NEW i \in Slots PROVE VisibleOnDisk(rows[i])
    <2>1. ASSUME rows[i].type \in OsTypes PROVE OnDisk(rows[i])
      <3>1. PICK r \in Rows : /\ t[r].type = rows[i].type /\ t[r].rel = rows[i].rel
                              /\ t[r].num = rows[i].num
        BY <1>1, <2>1 DEF VisibleFrom
      <3>2. OnDisk(t[r])
        BY <2>1, <3>1, TypesApart DEF UsedOnDisk
      <3> QED
        BY <3>1, <3>2 DEF OnDisk
    <2> QED
      BY <2>1 DEF VisibleOnDisk
  <1>14. [rows |-> rows, act |-> act] \in Mbr
    BY <1>1 DEF Mbr
  <1>15. MbrSound([rows |-> rows, act |-> act])
    BY <1>1, <1>2 DEF MbrSound
  <1> QED
    BY <1>14, <1>15 DEF rows

-------------------------------------------------------------------------------
(* What is always true of the boot manager.                                *)
Ready ==
  /\ pc = "menu" => ram.table \in {table, Imported(table, mbr.rows)}
  /\ pc # "menu" => ram.table = table
Base ==
  /\ TypeOK /\ setup \in Setups
  /\ Sound(table) /\ Sound(ram.table)
  /\ MbrSound(mbr) /\ MbrSound(ram.mbr)
  /\ Ready

(* The fields of the setup.                                                *)
LEMMA SetupTypes ==
  ASSUME setup \in Setups
  PROVE  /\ setup.menu \in Seq(Item) /\ Len(setup.menu) \in Nat
         /\ setup.fixed \in 0 .. Len(setup.menu) /\ setup.ignore \in BOOLEAN
  <1>1. setup.menu \in Seq(Item) /\ setup.fixed \in 0 .. Len(setup.menu)
        /\ setup.ignore \in BOOLEAN
    BY BootConstants
  <1> QED
    BY <1>1

(* The items of the list are items of the menu.                            *)
LEMMA ItemsAre ==
  ASSUME setup \in Setups
  PROVE  /\ Items \in Seq(ItemsOf(ram.table)) /\ Len(Items) \in Nat
         /\ \A k \in 1 .. Len(Items) :
              Items[k] \in 1 .. Len(setup.menu) /\ Remembered(k) \in Nat
  <1>1. Len(setup.menu) \in Nat
    BY SetupTypes
  <1>2. MenuList(ram.table) \in Seq(ItemsOf(ram.table))
    BY <1>1, MenuListIs
  <1> DEFINE list == MenuList(ram.table)
             S == ItemsOf(ram.table)
  <1> HIDE DEF list, S
  <1>3. list \in Seq(S) /\ Len(list) \in Nat /\ \A k \in 1 .. Len(list) : list[k] \in S
    BY <1>2 DEF list, S
  <1>4. \A x \in S : x \in 1 .. Len(setup.menu) /\ x - 1 \in Nat
    BY <1>1 DEF S, ItemsOf
  <1>5. Items = list
    BY DEF Items, list
  <1>6. \A k \in 1 .. Len(list) : list[k] \in 1 .. Len(setup.menu) /\ list[k] - 1 \in Nat
    BY <1>3, <1>4
  <1> QED
    BY <1>3, <1>5, <1>6 DEF Remembered, S

(* The MBR that is made for a choice.                                      *)
NewMbr(k, act) == [rows |-> RowsFor(k), act |-> act]
(* It is sound.                                                            *)
LEMMA NewMbrSound ==
  ASSUME Base, NEW k \in Int, k >= -1, NEW act \in Nat
  PROVE  NewMbr(k, act) \in Mbr /\ MbrSound(NewMbr(k, act))
  <1> DEFINE t == ram.table
             list == ShownRows(k)
             a == ChosenRow(k)
  <1>1. t \in [Rows -> Row] /\ Sound(t) /\ UsedOnDisk(t) /\ setup.ignore \in BOOLEAN
    BY SetupTypes DEF Base, TypeOK, Sound
  <1>2. Shown(list, t, a) \/ list = << >>
    BY <1>1, ShownRowsAre
  <1> HIDE DEF t, list, a
  <1>3. Len(list) \in 0 .. 3 /\ \A i \in 1 .. Len(list) : list[i] \in Rows
    BY <1>1, <1>2, ShownTypes
  <1>4. LET new == [rows |-> MadePartTab(t, list, a, setup.ignore), act |-> act]
        IN  new \in Mbr /\ MbrSound(new)
    BY <1>1, <1>3, MadeSound
  <1> QED
    BY <1>4 DEF NewMbr, RowsFor, t, list, a

(* What booting does.                                                      *)
Choice(k, act) ==
  /\ k \in Int /\ k >= -1 /\ act \in Nat
  /\ act = ram.mbr.act \/ (k \in 1 .. Len(Items) /\ act = Remembered(k))
BootSteps(k, act) ==
  \/ Stays(NewMbr(k, act), k)
  \/ \E what \in ActMbrRec(RowsFor(k)) : Starts(NewMbr(k, act), k, what, TRUE)
  \/ \E what \in Devices, written \in BOOLEAN :
       Starts(NewMbr(k, act), k, what, written)
  \/ Ignored(NewMbr(k, act), k) /\ k \in 1 .. Len(Items)

(* Booting is one of the choices and its steps.                            *)
LEMMA BootIs ==
  ASSUME setup \in Setups, ram.mbr \in Mbr, Boot
  PROVE  \E k, act : Choice(k, act) /\ BootSteps(k, act)
  <1>1. Len(Items) \in Nat /\ \A k \in 1 .. Len(Items) : Remembered(k) \in Nat
    BY ItemsAre
  <1>2. ram.mbr.act \in Nat
    BY DEF Mbr
  <1>3. \A k : NewMbr(k, 0).rows = RowsFor(k)
    BY DEF NewMbr
  <1>4. ASSUME NEW k, NEW act, NEW disk \in Devices,
               BootDisk(NewMbr(k, act), k, disk)
        PROVE  BootSteps(k, act)
    BY <1>4 DEF BootDisk, BootSteps
  <1>5. ASSUME NEW k \in 1 .. Len(Items), NEW act, BootItem(NewMbr(k, act), k)
        PROVE  BootSteps(k, act)
    <2>1. Disk("Floppy") \in Devices /\ Disk("Next disk") \in Devices
      BY DEF Devices
    <2>2. NewMbr(k, act).rows = RowsFor(k)
      BY DEF NewMbr
    <2>3. \/ BootPart(NewMbr(k, act), k)
          \/ BootDisk(NewMbr(k, act), k, Disk("Floppy"))
          \/ BootDisk(NewMbr(k, act), k, Disk("Next disk"))
          \/ Ignored(NewMbr(k, act), k)
      BY <1>5 DEF BootItem
    <2>4. CASE BootPart(NewMbr(k, act), k)
      BY <2>2, <2>4 DEF BootPart, BootSteps
    <2>5. CASE Ignored(NewMbr(k, act), k)
      BY <2>5 DEF BootSteps
    <2> QED
      BY <1>4, <2>1, <2>3, <2>4, <2>5
  <1>6. \/ \E k \in 1 .. Len(Items) :
             \/ Enter(k) \/ Escape(k)
             \/ \E disk \in Devices : BootOther(k, disk)
        \/ BootOther(-1, Disk("Floppy"))
        \/ \E disk \in Devices : BootOther(0, disk)
    BY DEF Boot
  <1>7. ASSUME NEW k \in 1 .. Len(Items), Enter(k)
        PROVE  Choice(k, Remembered(k)) /\ BootSteps(k, Remembered(k))
    <2>1. BootItem(NewMbr(k, Remembered(k)), k)
      BY <1>7 DEF Enter, NewMbr
    <2>2. Choice(k, Remembered(k))
      BY <1>1 DEF Choice
    <2> QED
      BY <1>5, <2>1, <2>2
  <1>8. ASSUME NEW k \in 1 .. Len(Items), Escape(k)
        PROVE  Choice(k, ram.mbr.act) /\ BootSteps(k, ram.mbr.act)
    <2>1. BootItem(NewMbr(k, ram.mbr.act), k)
      BY <1>8 DEF Escape, NewMbr
    <2>2. Choice(k, ram.mbr.act)
      BY <1>1, <1>2 DEF Choice
    <2> QED
      BY <1>5, <2>1, <2>2
  <1>9. ASSUME NEW k \in Int, k >= -1, NEW disk \in Devices, BootOther(k, disk)
        PROVE  Choice(k, ram.mbr.act) /\ BootSteps(k, ram.mbr.act)
    <2>1. BootDisk(NewMbr(k, ram.mbr.act), k, disk)
      BY <1>9 DEF BootOther, NewMbr
    <2>2. Choice(k, ram.mbr.act)
      BY <1>2, <1>9 DEF Choice
    <2> QED
      BY <1>4, <2>1, <2>2
  <1>10. /\ Disk("Floppy") \in Devices /\ -1 \in Int /\ 0 \in Int /\ 0 >= -1 /\ -1 >= -1
         /\ \A k \in 1 .. Len(Items) : k \in Int /\ k >= -1
    BY <1>1 DEF Devices
  <1> QED
    BY <1>6, <1>7, <1>8, <1>9, <1>10

(* The entry that the new boot sector starts.                              *)
LEMMA ActiveIs ==
  ASSUME NEW rows \in [Slots -> Entry]
  PROVE  /\ Active(rows) \in Slots \cup {0}
         /\ Active(rows) = 0 <=> \A k \in Slots : ~rows[k].active
         /\ Active(rows) # 0 => rows[Active(rows)].active
  <1> DEFINE I == {i \in 1 .. Len(rows) : rows[i].active}
             k == Active(rows)
  <1>1. Slots = 1 .. 4 /\ 4 \in Nat
    BY DEF Slots
  <1>2. Len(rows) = 4
    BY <1>1, AsSequence
  <1>3. k = IF I # {} THEN Max(I) ELSE 0
    BY DEF Active, SelectLastInSeq
  <1>4. I \subseteq 1 .. 4 /\ \A i \in Slots : i \in I <=> rows[i].active
    BY <1>1, <1>2
  <1> HIDE DEF I, k
  <1>5. k \in 0 .. 4 /\ (k = 0 <=> I = {}) /\ (k # 0 => k \in I)
    BY <1>1, <1>3, <1>4, LastIs
  <1>6. k \in Slots \cup {0}
    BY <1>1, <1>5
  <1>7. k = 0 <=> \A j \in Slots : ~rows[j].active
    BY <1>1, <1>4, <1>5
  <1>8. k # 0 => rows[k].active
    BY <1>1, <1>4, <1>5
  <1> QED
    BY <1>6, <1>7, <1>8 DEF k

(* ACT_MBR_REC is an entry or nothing.                                     *)
LEMMA ActMbrRecType ==
  ASSUME NEW rows \in [Slots -> Entry], NEW what \in ActMbrRec(rows)
  PROVE  what \in Entry \cup Devices
  <1>1. Active(rows) \in Slots \cup {0}
    BY ActiveIs
  <1>2. Active(rows) # 0 => rows[Active(rows)] \in Entry
    BY <1>1
  <1>3. \A k \in Slots : rows[k] \in Entry
    OBVIOUS
  <1> QED
    BY <1>2, <1>3 DEF ActMbrRec

(* The empty entry shows nothing.                                          *)
LEMMA NoEntryType == NoEntry \in Entry /\ VisibleOnDisk(NoEntry)
  <1>1. 0 \in Numbers
    BY NumberBounds
  <1> QED
    BY <1>1, TypesApart DEF NoEntry, Entry, VisibleOnDisk

(* The MBR that hides the whole disk, ...                                  *)
LEMMA AllHiddenIs ==
  /\ AllHidden \in [Slots -> Entry]
  /\ AllHidden[1].type = Hidden /\ AllHidden[1].rel = 1
  /\ AllHidden[1].num = DiskEnd - 1
  /\ \A k \in Slots : k # 1 => AllHidden[k] = NoEntry
  <1> DEFINE e == [type |-> Hidden, rel |-> 1, num |-> DiskEnd - 1, active |-> TRUE]
  <1>1. \A k \in Slots : AllHidden[k] = IF k = 1 THEN e ELSE NoEntry
    <2> DEFINE seq == <<e>>
    <2>1. Len(seq) = 1 /\ seq[1] = e
      OBVIOUS
    <2>2. AllHidden = [k \in Slots |-> IF k <= Len(seq) THEN seq[k] ELSE NoEntry]
      BY DEF AllHidden, Padded, Slots
    <2> HIDE DEF seq, e
    <2> TAKE k \in Slots
    <2>3. k \in Nat /\ k >= 1
      BY DEF Slots
    <2>4. AllHidden[k] = IF k <= Len(seq) THEN seq[k] ELSE NoEntry
      BY <2>2
    <2>5. CASE k = 1
      BY <2>1, <2>4, <2>5
    <2>6. CASE k # 1
      BY <2>1, <2>3, <2>4, <2>6
    <2> QED
      BY <2>5, <2>6
  <1>2. e \in Entry
    <2>1. DiskEnd \in Nat /\ DiskEnd >= 2 /\ DiskEnd \in Numbers
      BY NumberBounds
    <2>2. 1 \in Numbers /\ DiskEnd - 1 \in Numbers
      <3>1. 1 \in Nat /\ 1 <= DiskEnd /\ DiskEnd - 1 \in Nat /\ DiskEnd - 1 <= DiskEnd
        BY <2>1
      <3> QED
        BY <2>1, <3>1, NumberBounds
    <2> QED
      BY <2>2 DEF Entry
  <1>3. AllHidden = [k \in Slots |-> AllHidden[k]]
    BY DEF AllHidden, Padded, Slots
  <1>e. e.type = Hidden /\ e.rel = 1 /\ e.num = DiskEnd - 1
    OBVIOUS
  <1>s. 1 \in Slots
    BY DEF Slots
  <1> DEFINE a == AllHidden
  <1> HIDE DEF e, a
  <1>4. a \in [Slots -> Entry]
    BY <1>1, <1>2, <1>3, NoEntryType DEF a
  <1> QED
    BY <1>1, <1>4, <1>e, <1>s DEF a

(* ... which shows no partition.                                           *)
LEMMA AllHiddenSound ==
  ASSUME NEW act \in Nat, NEW m, m.rows = AllHidden, m.act = act,
         m = [rows |-> m.rows, act |-> m.act]
  PROVE  m \in Mbr /\ MbrSound(m)
  <1>1. m \in Mbr
    BY AllHiddenIs DEF Mbr
  <1>2. Hidden \notin OsTypes /\ Hidden # Unused
    BY TypesApart DEF Hidden, Unused
  <1>3. MbrSound(m)
    BY <1>2, AllHiddenIs, NoEntryType DEF MbrSound, VisibleOnDisk
  <1> QED
    BY <1>1, <1>3

(* The states of the memory of the manager.                                *)
LEMMA MemoryIs ==
  \A t, m, sel : /\ Memory(t, m, sel).table = t /\ Memory(t, m, sel).mbr = m
                 /\ Memory(t, m, sel).sel = sel
  BY DEF Memory

(* Nothing has been started.                                               *)
LEMMA NothingType == Nothing.what \in Entry \cup Devices
  BY NoEntryType DEF Nothing

(* It is true at first ...                                                 *)
LEMMA InitBase ==
  ASSUME Init
  PROVE  Base
  <1> DEFINE t == Installed(setup.rows)
  <1>1. setup \in Setups /\ setup.ignore \in BOOLEAN
    BY SetupTypes DEF Init
  <1>2. /\ t \in [Rows -> Row] /\ UsedOnDisk(t) /\ Untagged(t) /\ HasManager(t)
        /\ ValidTable(Arranged(t))
    BY <1>1, InstalledSound
  <1>3. table = Saved(t, setup.ignore)
    BY DEF Init
  <1> HIDE DEF t
  <1>4. table \in [Rows -> Row] /\ Sound(table)
    BY <1>1, <1>2, <1>3, SavedSound
  <1>5. mbr \in Mbr /\ MbrSound(mbr)
    <2>1. mbr = [rows |-> AllHidden, act |-> 0]
      BY DEF Init
    <2>2. mbr.rows = AllHidden /\ mbr.act = 0 /\ mbr = [rows |-> mbr.rows, act |-> mbr.act]
      BY <2>1
    <2> QED
      BY <2>2, AllHiddenSound
  <1>6. ram.table = table /\ ram.mbr = mbr /\ ram.sel = 0
    BY MemoryIs DEF Init
  <1>7. pc = "off" /\ started.what \in Entry \cup Devices
    BY NothingType DEF Init
  <1>8. TypeOK
    BY <1>4, <1>5, <1>6, <1>7 DEF TypeOK
  <1> QED
    BY <1>1, <1>4, <1>5, <1>6, <1>7, <1>8 DEF Base, Ready

(* (a backup of a sound table is sound)                                    *)
LEMMA BackupSound ==
  ASSUME Base
  PROVE  Backup \in Mbr /\ MbrSound(Backup) /\ Backup.act \in Nat
         /\ Backup.rows = mbr.rows
         /\ Backup.act = IF setup.fixed = 0 THEN mbr.act ELSE setup.fixed - 1
  <1>1. mbr \in Mbr /\ MbrSound(mbr) /\ setup.fixed \in 0 .. Len(setup.menu)
        /\ Len(setup.menu) \in Nat
    BY SetupTypes DEF Base, TypeOK
  <1>2. CASE setup.fixed = 0
    BY <1>1, <1>2 DEF Backup, Mbr
  <1>3. CASE setup.fixed # 0
    <2>1. setup.fixed - 1 \in Nat
      BY <1>1, <1>3
    <2> DEFINE n == setup.fixed - 1
    <2> HIDE DEF n
    <2>2. Backup = [mbr EXCEPT !.act = n]
      BY <1>3 DEF Backup, n
    <2>3. Backup.rows = mbr.rows /\ Backup.act = n /\ Backup \in Mbr
      BY <1>1, <2>1, <2>2 DEF Mbr, n
    <2> QED
      BY <1>1, <1>3, <2>1, <2>3 DEF MbrSound, n
  <1> QED
    BY <1>2, <1>3

(* ... and each step keeps it: power on, ...                               *)
LEMMA PowerOnBase ==
  ASSUME Base, PowerOn
  PROVE  Base'
  <1> DEFINE t == Imported(table, mbr.rows)
  <1>1. /\ table \in [Rows -> Row] /\ mbr \in Mbr /\ MbrSound(mbr) /\ Sound(table)
        /\ setup \in Setups
    BY DEF Base, TypeOK
  <1>2. t \in [Rows -> Row] /\ Sound(t)
    <2>1. mbr.rows \in [Slots -> Entry]
      BY <1>1 DEF Mbr
    <2> QED
      BY <1>1, <2>1, ImportedIs, ImportedSound
  <1> HIDE DEF t
  <1>3. /\ ram' = Memory(t, Backup, Preselected(t, Backup.act))
        /\ table' = t \/ table' = table
        /\ pc' = "menu" /\ started' = Nothing /\ mbr' = mbr /\ setup' = setup
    BY DEF PowerOn, t
  <1>4. Backup \in Mbr /\ MbrSound(Backup)
    BY BackupSound
  <1>5. Preselected(t, Backup.act) \in Nat
    BY <1>1, SetupTypes, PreselectedIs
  <1>6. /\ ram'.table = t /\ ram'.mbr = Backup
        /\ ram'.sel = Preselected(t, Backup.act)
    BY <1>3, MemoryIs
  <1>7. TypeOK'
    BY <1>1, <1>2, <1>3, <1>4, <1>5, <1>6, NothingType DEF TypeOK
  <1>8. Ready'
    <2>1. CASE table' = table
      BY <1>3, <1>6, <2>1 DEF Ready, t
    <2>2. CASE table' = t
      BY <1>3, <1>6, <2>2 DEF Ready
    <2> QED
      BY <1>3, <2>1, <2>2
  <1>9. Sound(table') /\ Sound(ram'.table) /\ MbrSound(mbr') /\ MbrSound(ram'.mbr)
    BY <1>1, <1>2, <1>3, <1>4, <1>6
  <1> QED
    BY <1>1, <1>3, <1>7, <1>8, <1>9 DEF Base

(* ... booting, ...                                                        *)
LEMMA BootBase ==
  ASSUME Base, Boot
  PROVE  Base'
  <1>1. /\ setup \in Setups /\ ram.mbr \in Mbr /\ MbrSound(ram.mbr) /\ mbr \in Mbr
        /\ MbrSound(mbr) /\ table \in [Rows -> Row] /\ Sound(table)
        /\ ram.table \in [Rows -> Row] /\ Sound(ram.table) /\ ram.sel \in Nat
        /\ started.what \in Entry \cup Devices /\ pc = "menu"
    BY DEF Base, TypeOK, Boot
  <1>2. PICK k, act : Choice(k, act) /\ BootSteps(k, act)
    BY <1>1, BootIs
  <1>3. k \in Int /\ k >= -1 /\ act \in Nat
    BY <1>2 DEF Choice
  <1> DEFINE new == NewMbr(k, act)
  <1>4. new \in Mbr /\ MbrSound(new) /\ new.rows = RowsFor(k) /\ new.act = act
    BY <1>3, NewMbrSound DEF NewMbr
  <1> HIDE DEF new
  <1>5. CASE Stays(new, k)
    <2>1. /\ ram' = Memory(ram.table, new, IF k < 1 THEN ram.sel ELSE k)
          /\ UNCHANGED <<table, mbr, pc, setup, started>>
      BY <1>5 DEF Stays
    <2>2. /\ ram'.table = ram.table /\ ram'.mbr = new
          /\ ram'.sel \in Nat
      <3>1. (IF k < 1 THEN ram.sel ELSE k) \in Nat
        BY <1>1, <1>3
      <3> QED
        BY <2>1, <3>1, MemoryIs
    <2>3. TypeOK'
      BY <1>1, <1>4, <2>1, <2>2 DEF TypeOK
    <2>4. Ready'
      BY <2>1, <2>2 DEF Base, Ready
    <2>5. Sound(table') /\ Sound(ram'.table) /\ MbrSound(mbr') /\ MbrSound(ram'.mbr)
      BY <1>1, <1>4, <2>1, <2>2
    <2> QED
      BY <1>1, <2>1, <2>3, <2>4, <2>5 DEF Base
  <1>6. ASSUME NEW what \in Entry \cup Devices, NEW written, Starts(new, k, what, written)
        PROVE  Base'
    <2>1. /\ mbr' = new \/ mbr' = mbr
          /\ ram' = Memory(table, mbr', 0)
          /\ pc' = "os" /\ started' = [item |-> k, what |-> what]
          /\ UNCHANGED <<table, setup>>
      BY <1>6 DEF Starts
    <2>2. ram'.table = table /\ ram'.mbr = mbr' /\ ram'.sel = 0 /\ started'.what = what
      BY <2>1, MemoryIs
    <2>3. mbr' \in Mbr /\ MbrSound(mbr')
      BY <1>1, <1>4, <2>1
    <2>4. TypeOK'
      BY <1>1, <1>6, <2>1, <2>2, <2>3 DEF TypeOK
    <2>5. Ready'
      BY <2>1, <2>2 DEF Ready
    <2>6. Sound(table') /\ Sound(ram'.table) /\ MbrSound(ram'.mbr)
      BY <1>1, <2>1, <2>2, <2>3
    <2> QED
      BY <1>1, <2>1, <2>3, <2>4, <2>5, <2>6 DEF Base
  <1>7. CASE Ignored(new, k) /\ k \in 1 .. Len(Items)
    <2>1. /\ ram' = Memory(ram.table, [ram.mbr EXCEPT !.act = new.act], k)
          /\ UNCHANGED <<table, mbr, pc, setup, started>>
      BY <1>7 DEF Ignored
    <2> DEFINE m == [ram.mbr EXCEPT !.act = new.act]
    <2>2. m \in Mbr /\ m.rows = ram.mbr.rows
      BY <1>1, <1>3, <1>4 DEF Mbr
    <2> HIDE DEF m
    <2>9. ram' = Memory(ram.table, m, k)
      BY <2>1 DEF m
    <2>3. /\ ram'.table = ram.table /\ ram'.mbr \in Mbr /\ ram'.mbr.rows = ram.mbr.rows
          /\ ram'.sel \in Nat
      <3>1. k \in Nat
        BY <1>3, <1>7
      <3> QED
        BY <2>2, <2>9, <3>1, MemoryIs
    <2>4. TypeOK'
      BY <1>1, <2>1, <2>3 DEF TypeOK
    <2>5. Ready'
      BY <2>1, <2>3 DEF Base, Ready
    <2>6. Sound(table') /\ Sound(ram'.table) /\ MbrSound(mbr') /\ MbrSound(ram'.mbr)
      BY <1>1, <2>1, <2>3 DEF MbrSound
    <2> QED
      BY <1>1, <2>1, <2>4, <2>5, <2>6 DEF Base
  <1>8. ASSUME NEW what \in ActMbrRec(RowsFor(k)), Starts(new, k, what, TRUE)
        PROVE  Base'
    <2>1. what \in Entry \cup Devices
      BY <1>4, ActMbrRecType DEF Mbr
    <2> QED
      BY <1>6, <1>8, <2>1
  <1> QED
    BY <1>2, <1>5, <1>6, <1>7, <1>8 DEF BootSteps, new

(* ... switching off, ...                                                  *)
LEMMA OffBase ==
  ASSUME Base, Off
  PROVE  Base'
  <1>1. /\ ram' = Memory(table, mbr, 0) /\ pc' = "off" /\ started' = Nothing
        /\ UNCHANGED <<table, mbr, setup>>
    BY DEF Off
  <1>2. ram'.table = table /\ ram'.mbr = mbr /\ ram'.sel = 0
    BY <1>1, MemoryIs
  <1>3. TypeOK'
    BY <1>1, <1>2, NothingType DEF Base, TypeOK
  <1> QED
    BY <1>1, <1>2, <1>3 DEF Base, Ready

(* What fdisk writes are entries of partitions on the disk.                *)
LEMMA ChangedBase ==
  ASSUME Base, NEW rows \in [Slots -> Entry], Changed(rows),
         \A k \in Slots : /\ VisibleOnDisk(rows[k])
                          /\ rows[k].type = Unused => rows[k] = NoEntry
  PROVE  Base'
  <1>1. /\ mbr' = [mbr EXCEPT !.rows = rows] /\ ram' = Memory(table, mbr', 0)
        /\ UNCHANGED <<table, pc, setup, started>> /\ pc = "os"
    BY DEF Changed
  <1>2. mbr' \in Mbr /\ mbr'.rows = rows
    BY <1>1 DEF Base, TypeOK, Mbr
  <1>3. ram'.table = table /\ ram'.mbr = mbr' /\ ram'.sel = 0
    BY <1>1, MemoryIs
  <1>4. MbrSound(mbr')
    BY <1>2 DEF MbrSound
  <1>5. TypeOK'
    BY <1>1, <1>2, <1>3 DEF Base, TypeOK
  <1> QED
    BY <1>1, <1>3, <1>4, <1>5 DEF Base, Ready

(* A partition that fdisk creates, ...                                     *)
LEMMA FdiskCreateIs ==
  ASSUME Base, FdiskCreate
  PROVE  \E k \in Slots, e \in Entry :
           /\ e.type \in OsTypes /\ OnDisk(e) /\ Free(k)
           /\ \A j \in Slots : Free(j) \/ Area(mbr.rows[j]) \cap Area(e) = {}
           /\ Changed([mbr.rows EXCEPT ![k] = e])
           /\ careless' = (careless \/ unreviewed) /\ gone' = gone \ {Place(e)}
           /\ behind' = behind \cup {s \in Area(e) : s >= CylEnd}
  <1> DEFINE I == {i \in 1 .. Len(mbr.rows) : mbr.rows[i].type = Unused}
             k == SelectInSeq(mbr.rows, LAMBDA e : e.type = Unused)
  <1>1. PICK x \in NewPartitions, rel \in 1 .. DiskEnd - 1 :
          LET e == [type |-> x.type, rel |-> rel, num |-> x.num, active |-> FALSE]
          IN  /\ k # 0 /\ rel + x.num <= DiskEnd
              /\ \A j \in Slots : Free(j) \/ Area(mbr.rows[j]) \cap Area(e) = {}
              /\ Changed([mbr.rows EXCEPT ![k] = e])
              /\ careless' = (careless \/ unreviewed) /\ gone' = gone \ {Place(e)}
              /\ behind' = behind \cup {s \in Area(e) : s >= CylEnd}
    BY DEF FdiskCreate
  <1> DEFINE e == [type |-> x.type, rel |-> rel, num |-> x.num, active |-> FALSE]
  <1>2. Slots = 1 .. 4 /\ 4 \in Nat /\ mbr.rows \in [Slots -> Entry]
    BY DEF Slots, Base, TypeOK, Mbr
  <1>3. Len(mbr.rows) = 4
    BY <1>2, AsSequence
  <1>4. k = IF I # {} THEN Min(I) ELSE 0
    BY DEF SelectInSeq
  <1>5. I \subseteq 1 .. 4 /\ \A i \in I : mbr.rows[i].type = Unused
    BY <1>3
  <1>6. k \in Slots /\ Free(k)
    <2> HIDE DEF I, k
    <2>1. k \in 0 .. 4 /\ (k # 0 => k \in I)
      BY <1>2, <1>4, <1>5, FirstIs
    <2> QED
      BY <1>1, <1>2, <1>5, <2>1 DEF Free
  <1>7. e \in Entry /\ OnDisk(e)
    <2>1. x.type \in OsTypes /\ x.num \in Nat \ {0}
      BY BootConstants
    <2>2. DiskEnd \in Nat /\ rel \in Nat /\ rel >= 1 /\ rel + x.num <= DiskEnd
      BY <1>1, NumberBounds
    <2>3. rel \in Numbers /\ x.num \in Numbers
      <3>1. rel <= DiskEnd /\ x.num <= DiskEnd /\ x.num \in Nat /\ rel \in Nat
        BY <2>1, <2>2
      <3> QED
        BY <3>1, NumberBounds
    <2> QED
      BY <2>1, <2>2, <2>3 DEF Entry, OnDisk
  <1>8. e.type \in OsTypes
    BY BootConstants
  <1> HIDE DEF k, I
  <1>9. /\ \A j \in Slots : Free(j) \/ Area(mbr.rows[j]) \cap Area(e) = {}
        /\ Changed([mbr.rows EXCEPT ![k] = e])
        /\ careless' = (careless \/ unreviewed) /\ gone' = gone \ {Place(e)}
        /\ behind' = behind \cup {s \in Area(e) : s >= CylEnd}
    BY <1>1
  <1> HIDE DEF e
  <1> QED
    BY <1>6, <1>7, <1>8, <1>9

(* ... and the steps of fdisk.                                             *)
LEMMA FdiskBase ==
  ASSUME Base, FdiskCreate \/ FdiskDelete \/ FdiskRetype
  PROVE  Base'
  <1>1. mbr.rows \in [Slots -> Entry] /\ MbrSound(mbr)
    BY DEF Base, TypeOK, Mbr
  <1>2. Unused \notin OsTypes
    BY TypesApart
  <1>3. CASE FdiskCreate
    <2>1. PICK k \in Slots, e \in Entry :
            /\ e.type \in OsTypes /\ OnDisk(e)
            /\ Changed([mbr.rows EXCEPT ![k] = e])
      BY <1>3, FdiskCreateIs
    <2> DEFINE rows == [mbr.rows EXCEPT ![k] = e]
    <2>2. rows \in [Slots -> Entry]
      BY <1>1
    <2>3. \A j \in Slots : /\ VisibleOnDisk(rows[j])
                           /\ rows[j].type = Unused => rows[j] = NoEntry
      BY <1>1, <1>2, <2>1 DEF MbrSound, VisibleOnDisk
    <2> HIDE DEF rows
    <2> QED
      BY <2>1, <2>2, <2>3, ChangedBase DEF rows
  <1>4. CASE FdiskDelete
    <2>1. PICK k \in Slots : Changed([mbr.rows EXCEPT ![k] = NoEntry])
      BY <1>4 DEF FdiskDelete
    <2> DEFINE rows == [mbr.rows EXCEPT ![k] = NoEntry]
    <2>2. rows \in [Slots -> Entry]
      BY <1>1, NoEntryType
    <2>3. \A j \in Slots : /\ VisibleOnDisk(rows[j])
                           /\ rows[j].type = Unused => rows[j] = NoEntry
      BY <1>1, NoEntryType DEF MbrSound
    <2> HIDE DEF rows
    <2> QED
      BY <2>1, <2>2, <2>3, ChangedBase DEF rows
  <1>5. CASE FdiskRetype
    <2>1. PICK k \in Slots, type \in OsTypes :
            Visible(k) /\ Changed([mbr.rows EXCEPT ![k].type = type])
      BY <1>5 DEF FdiskRetype
    <2> DEFINE rows == [mbr.rows EXCEPT ![k].type = type]
               e == [mbr.rows[k] EXCEPT !.type = type]
    <2>2. mbr.rows[k] \in Entry /\ mbr.rows[k].type \in OsTypes
      BY <1>1, <2>1 DEF Visible, Entry
    <2>3. /\ e \in Entry /\ e.type = type /\ e.rel = mbr.rows[k].rel
          /\ e.num = mbr.rows[k].num
      BY <2>2 DEF Entry
    <2>4. \A j \in Slots : rows[j] = IF j = k THEN e ELSE mbr.rows[j]
      BY <1>1
    <2>5. rows \in [Slots -> Entry]
      <3> HIDE DEF e
      <3>1. rows = [mbr.rows EXCEPT ![k] = e]
        BY DEF e
      <3> QED
        BY <1>1, <2>3, <3>1
    <2> HIDE DEF rows, e
    <2>6. OnDisk(e)
      BY <1>1, <2>2, <2>3 DEF MbrSound, VisibleOnDisk, OnDisk
    <2>7. \A j \in Slots : /\ VisibleOnDisk(rows[j])
                           /\ rows[j].type = Unused => rows[j] = NoEntry
      BY <1>1, <1>2, <2>3, <2>4, <2>6 DEF MbrSound, VisibleOnDisk
    <2> QED
      BY <2>1, <2>5, <2>7, ChangedBase DEF rows
  <1> QED
    BY <1>3, <1>4, <1>5

(* So does a review with PART.EXE.                                         *)
LEMMA ReviewBase ==
  ASSUME Base, Review
  PROVE  Base'
  <1>1. PICK drop \in SUBSET {r \in Rows : table[r].type \in OsTypes},
             written \in BOOLEAN :
          /\ ValidTable(Arranged(Kept(table, drop)))
          /\ table' = Saved(Kept(table, drop), setup.ignore)
          /\ mbr' = IF written THEN [mbr EXCEPT !.rows = AllHidden] ELSE mbr
    BY DEF Review, Kept
  <1>2. /\ table \in [Rows -> Row] /\ Sound(table) /\ setup \in Setups
        /\ setup.ignore \in BOOLEAN /\ mbr \in Mbr /\ MbrSound(mbr)
    BY SetupTypes DEF Base, TypeOK
  <1>3. /\ Kept(table, drop) \in [Rows -> Row] /\ UsedOnDisk(Kept(table, drop))
        /\ Untagged(Kept(table, drop)) /\ HasManager(Kept(table, drop))
    BY <1>2, KeptSound
  <1>4. table' \in [Rows -> Row] /\ Sound(table')
    BY <1>1, <1>2, <1>3, SavedSound
  <1>5. mbr' \in Mbr /\ MbrSound(mbr')
    <2>1. CASE written
      <3> DEFINE m == [mbr EXCEPT !.rows = AllHidden]
      <3>1. m.rows = AllHidden /\ m.act = mbr.act /\ m.act \in Nat
            /\ m = [rows |-> m.rows, act |-> m.act]
        BY <1>2 DEF Mbr
      <3> HIDE DEF m
      <3>2. m \in Mbr /\ MbrSound(m)
        BY <3>1, AllHiddenSound
      <3> QED
        BY <1>1, <2>1, <3>2 DEF m
    <2>2. CASE ~written
      BY <1>1, <1>2, <2>2
    <2> QED
      BY <2>1, <2>2
  <1>6. /\ ram' = Memory(table', mbr', 0) /\ pc = "os"
        /\ UNCHANGED <<pc, setup, started>>
    BY DEF Review
  <1>7. ram'.table = table' /\ ram'.mbr = mbr' /\ ram'.sel = 0
    BY <1>6, MemoryIs
  <1>8. TypeOK'
    BY <1>4, <1>5, <1>6, <1>7 DEF Base, TypeOK
  <1> QED
    BY <1>2, <1>4, <1>5, <1>6, <1>7, <1>8 DEF Base, Ready

(* All steps together.                                                     *)
LEMMA BaseStep ==
  ASSUME Base, [Next]_vars
  PROVE  Base'
  <1>1. CASE UNCHANGED vars
    <2>1. UNCHANGED <<table, mbr, ram, pc, setup, started>>
      BY <1>1 DEF vars
    <2> QED
      BY <2>1 DEF Base, TypeOK, Ready
  <1> QED
    BY <1>1, PowerOnBase, BootBase, OffBase, FdiskBase, ReviewBase DEF Next

(* Base is an invariant.                                                   *)
LEMMA BaseAlways == Spec => []Base
  BY InitBase, BaseStep, PTL DEF Spec

(* The variables stay in their types: no boot, import or review makes an   *)
(* entry, a row or a setup that the types of PART.H do not have.           *)
THEOREM TypeAlways == Spec => []TypeOK
  <1>1. Base => TypeOK
    BY DEF Base
  <1> QED
    BY <1>1, BaseAlways, PTL

-------------------------------------------------------------------------------
(* adv_act_menu on the disk is the item that was booted last with Enter.   *)
Remembers == setup.fixed = 0 => entered = 0 \/ mbr.act = entered - 1

(* What booting writes.                                                    *)
LEMMA BootWrites ==
  ASSUME NEW new, NEW k
  PROVE  BootItem(new, k) \/ (\E disk : BootDisk(new, k, disk)) =>
           /\ (mbr' = new /\ pc' = "os") \/ mbr' = mbr
           /\ setup' = setup
  <1>1. ASSUME Stays(new, k)
        PROVE  mbr' = mbr /\ setup' = setup
    BY <1>1 DEF Stays
  <1>2. ASSUME NEW what, NEW written, Starts(new, k, what, written)
        PROVE  /\ (mbr' = new /\ pc' = "os") \/ mbr' = mbr
               /\ setup' = setup
    BY <1>2 DEF Starts
  <1>3. ASSUME Ignored(new, k)
        PROVE  mbr' = mbr /\ setup' = setup
    BY <1>3 DEF Ignored
  <1>4. ASSUME NEW disk, BootDisk(new, k, disk)
        PROVE  /\ (mbr' = new /\ pc' = "os") \/ mbr' = mbr
               /\ setup' = setup
    BY <1>1, <1>2, <1>4 DEF BootDisk
  <1>5. ASSUME BootPart(new, k)
        PROVE  /\ (mbr' = new /\ pc' = "os") \/ mbr' = mbr
               /\ setup' = setup
    BY <1>1, <1>2, <1>5 DEF BootPart
  <1>6. BootItem(new, k) => \/ BootPart(new, k) \/ Ignored(new, k)
                            \/ \E disk : BootDisk(new, k, disk)
    BY DEF BootItem
  <1> QED
    BY <1>3, <1>4, <1>5, <1>6

(* Leaving the menu without Enter writes what was there.                   *)
LEMMA LeftRemembers ==
  ASSUME Base, Remembers, NEW new, new.act = ram.mbr.act, Left,
         (mbr' = new /\ pc' = "os") \/ mbr' = mbr, setup' = setup
  PROVE  Remembers'
  <1>1. ram.mbr.act \in Nat
    BY DEF Base, TypeOK, Mbr
  <1> DEFINE a == ram.mbr.act
  <1>2. entered' = IF (pc' = "os" /\ mbr'.act = a) /\ a # mbr.act
                   THEN a + 1 ELSE entered
    BY DEF Left, Saves
  <1>3. new.act = a /\ a \in Nat
    BY <1>1
  <1> HIDE DEF a
  <1>4. CASE mbr' = new /\ pc' = "os"
    <2>1. mbr'.act = a
      BY <1>3, <1>4
    <2>2. CASE a # mbr.act
      <3>1. entered' = a + 1 /\ a + 1 - 1 = a
        BY <1>2, <1>3, <1>4, <2>1, <2>2
      <3>2. mbr'.act = entered' - 1
        BY <1>3, <2>1, <3>1
      <3> QED
        BY <3>2 DEF Remembers
    <2>3. CASE a = mbr.act
      <3>1. entered' = entered /\ mbr'.act = mbr.act
        BY <1>2, <2>1, <2>3
      <3> QED
        BY <3>1 DEF Remembers
    <2> QED
      BY <2>2, <2>3
  <1>5. CASE mbr' = mbr
    <2>1. entered' = entered /\ mbr'.act = mbr.act
      BY <1>2, <1>5
    <2> QED
      BY <2>1 DEF Remembers
  <1> QED
    BY <1>4, <1>5

(* A boot keeps adv_act_menu in step with the item that was entered, ...   *)
LEMMA BootRemembers ==
  ASSUME Base, Remembers, Boot
  PROVE  Remembers'
  <1>1. Len(Items) \in Nat /\ setup \in Setups
        /\ \A k \in 1 .. Len(Items) : Items[k] \in 1 .. Len(setup.menu)
    BY ItemsAre DEF Base
  <1>2. \/ \E k \in 1 .. Len(Items) :
             \/ Enter(k) \/ Escape(k)
             \/ \E disk \in Devices : BootOther(k, disk)
        \/ BootOther(-1, Disk("Floppy"))
        \/ \E disk \in Devices : BootOther(0, disk)
    BY DEF Boot
  <1>3. ASSUME NEW k, NEW disk, BootOther(k, disk)
        PROVE  Remembers'
    <2> DEFINE new == [rows |-> RowsFor(k), act |-> ram.mbr.act]
    <2>1. BootDisk(new, k, disk) /\ Left /\ new.act = ram.mbr.act
      BY <1>3 DEF BootOther
    <2> HIDE DEF new
    <2> QED
      BY <2>1, BootWrites, LeftRemembers
  <1>4. ASSUME NEW k, Escape(k)
        PROVE  Remembers'
    <2> DEFINE new == [rows |-> RowsFor(k), act |-> ram.mbr.act]
    <2>1. BootItem(new, k) /\ Left /\ new.act = ram.mbr.act
      BY <1>4 DEF Escape
    <2> HIDE DEF new
    <2> QED
      BY <2>1, BootWrites, LeftRemembers
  <1>5. ASSUME NEW k \in 1 .. Len(Items), Enter(k)
        PROVE  Remembers'
    <2> DEFINE new == [rows |-> RowsFor(k), act |-> Remembered(k)]
               i == Items[k]
    <2>1. BootItem(new, k) /\ new.act = i - 1
      BY <1>5 DEF Enter, Remembered
    <2>2. i \in Int
      BY <1>1
    <2>3. entered' = IF pc' = "os" /\ mbr'.act = i - 1 THEN i ELSE entered
      BY <1>5 DEF Enter, Saves, Remembered
    <2> HIDE DEF new, i
    <2>4. ((mbr' = new /\ pc' = "os") \/ mbr' = mbr) /\ setup' = setup
      BY <2>1, BootWrites
    <2>5. CASE pc' = "os" /\ mbr'.act = i - 1
      BY <2>3, <2>5 DEF Remembers
    <2>6. CASE ~(pc' = "os" /\ mbr'.act = i - 1)
      <3>1. mbr' = mbr /\ entered' = entered
        BY <2>1, <2>3, <2>4, <2>6
      <3> QED
        BY <2>4, <3>1 DEF Remembers
    <2> QED
      BY <2>5, <2>6
  <1> QED
    BY <1>2, <1>3, <1>4, <1>5

(* ... and no other step changes either.                                   *)
LEMMA RemembersStep ==
  ASSUME Base, Remembers, [Next]_vars
  PROVE  Remembers'
  <1>1. CASE Boot
    BY <1>1, BootRemembers
  <1>2. ASSUME NEW rows, Changed(rows)
        PROVE  Remembers'
    <2>1. mbr' = [mbr EXCEPT !.rows = rows] /\ UNCHANGED <<setup, entered>>
      BY <1>2 DEF Changed
    <2>2. mbr'.act = mbr.act
      BY <2>1 DEF Base, TypeOK, Mbr
    <2> QED
      BY <2>1, <2>2 DEF Remembers
  <1>3. CASE FdiskCreate \/ FdiskDelete \/ FdiskRetype
    BY <1>2, <1>3 DEF FdiskCreate, FdiskDelete, FdiskRetype
  <1>4. CASE PowerOn \/ Off \/ UNCHANGED vars
    <2>1. UNCHANGED <<mbr, setup, entered>>
      BY <1>4 DEF PowerOn, Off, vars
    <2> QED
      BY <2>1 DEF Remembers
  <1>5. CASE Review
    <2>1. /\ mbr' = mbr \/ mbr' = [mbr EXCEPT !.rows = AllHidden]
          /\ UNCHANGED <<setup, entered>>
      BY <1>5 DEF Review
    <2>2. mbr'.act = mbr.act
      BY <2>1 DEF Base, TypeOK, Mbr
    <2> QED
      BY <2>1, <2>2 DEF Remembers
  <1> QED
    BY <1>1, <1>3, <1>4, <1>5 DEF Next

(* The cursor is on the item of adv_act_menu when the menu appears.        *)
LEMMA CursorComesBack ==
  ASSUME Base, Remembers, PowerOn
  PROVE  LET list == MenuList(ram'.table)
             item == IF setup.fixed = 0 THEN entered ELSE setup.fixed
         IN  Contains(list, item) => list[ram'.sel] = item
  <1> DEFINE t == Imported(table, mbr.rows)
             list == MenuList(t)
             act == Backup.act
             item == IF setup.fixed = 0 THEN entered ELSE setup.fixed
             sel == Preselected(t, act)
  <1>1. setup \in Setups /\ Len(setup.menu) \in Nat /\ setup.fixed \in Nat
    BY SetupTypes DEF Base
  <1>2. ram' = Memory(t, Backup, Preselected(t, act))
    BY DEF PowerOn
  <1>3. ram'.table = t /\ ram'.sel = sel
    BY <1>2, MemoryIs
  <1>4. list \in Seq(ItemsOf(t)) /\ Len(list) \in Nat
    BY <1>1, MenuListIs
  <1>5. \A i \in ItemsOf(t) : i \in Nat /\ i # 0
    BY <1>1 DEF ItemsOf
  <1>6. \A i \in 1 .. Len(list) : list[i] \in Nat /\ list[i] # 0
    BY <1>4, <1>5
  <1>7. act = IF setup.fixed = 0 THEN mbr.act ELSE setup.fixed - 1
    BY BackupSound
  <1>8. item # 0 => act = item - 1
    BY <1>1, <1>7 DEF Remembers
  <1>9. \A k \in 1 .. Len(list) :
          list[k] - 1 = act => sel \in 1 .. Len(list) /\ list[sel] - 1 = act
    BY <1>1, PreselectedIs
  <1> HIDE DEF list, item, act, sel
  <1>10. ASSUME NEW k \in 1 .. Len(list), list[k] = item
         PROVE  list[sel] = item
    <2>1. list[k] - 1 = act
      BY <1>6, <1>8, <1>10
    <2>2. sel \in 1 .. Len(list) /\ list[sel] - 1 = act
      BY <1>9, <2>1
    <2>3. list[sel] \in Nat /\ list[k] \in Nat
      BY <1>6, <2>2
    <2>4. list[sel] = list[k]
      BY <2>1, <2>2, <2>3
    <2> QED
      BY <1>10, <2>4
  <1>11. Contains(list, item) => list[sel] = item
    BY <1>10 DEF Contains
  <1> QED
    BY <1>3, <1>11 DEF list, item, sel

(* PowerOn is the only step that opens the menu.                           *)
LEMMA MenuOpens ==
  ASSUME [Next]_vars, pc = "off", pc' = "menu"
  PROVE  PowerOn
  <1>1. ASSUME NEW rows, Changed(rows)
        PROVE  FALSE
    BY <1>1 DEF Changed
  <1>2. ~FdiskCreate /\ ~FdiskDelete /\ ~FdiskRetype
    BY <1>1 DEF FdiskCreate, FdiskDelete, FdiskRetype
  <1> QED
    BY <1>2 DEF Next, Boot, Off, Review, vars

(* The menu opens with the cursor on the item that was booted last with    *)
(* Enter, unless the setup fixes another one (adv_act_menu in MAIN_MENU    *)
(* and PREP_BOOT_SECT).                                                    *)
THEOREM RememberedAlways == Spec => RememberedComesBack
  <1>1. Init => Remembers
    BY DEF Init, Remembers
  <1>2. Base /\ Remembers /\ [Next]_vars => Remembers'
    BY RemembersStep
  <1>3. Spec => [](Base /\ Remembers)
    BY <1>1, <1>2, InitBase, BaseStep, PTL DEF Spec
  <1>4. Base /\ Remembers /\ [Next]_vars =>
          ((pc = "off" /\ pc' = "menu") =>
             LET list == MenuList(ram'.table)
                 item == IF setup.fixed = 0 THEN entered ELSE setup.fixed
             IN  Contains(list, item) => list[ram'.sel] = item)
    BY MenuOpens, CursorComesBack
  <1> QED
    BY <1>3, <1>4, PTL DEF Spec, RememberedComesBack

-------------------------------------------------------------------------------
(* A partition of the MBR is in the table as soon as it has been imported, *)
(* and stays there unless an entry for the same place comes later.         *)
Holds(t, e) == \E r \in Rows : Place(t[r]) = Place(e) /\ t[r].type = e.type
HasUnused(t) == \E r \in Rows : t[r].type = Unused

(* An entry that is imported is in the table afterwards, if a row is       *)
(* unused.                                                                 *)
LEMMA ImportHolds ==
  ASSUME NEW t \in [Rows -> Row], NEW e \in Entry, NEW k \in Slots, Importable(e),
         HasUnused(ImportEntry(t, e, k))
  PROVE  Holds(ImportEntry(t, e, k), e)
  <1> DEFINE u == ImportEntry(t, e, k)
             s == Starting(t, e)
             f == FreeRow(t)
  <1>1. s \in Rows \cup {0} /\ (s # 0 => t[s].rel = e.rel)
    BY StartingIs
  <1>2. /\ f \in Rows \cup {0} /\ (f = 0 <=> \A r \in Rows : t[r].type # Unused)
    BY FreeRowIs
  <1>3. CASE IsKnown(t, e)
    <2>1. s # 0 /\ t[s].num = e.num /\ t[s].type # Manager
      BY <1>3 DEF IsKnown
    <2>2. u = [t EXCEPT ![s].type = e.type]
      BY <1>3 DEF ImportEntry
    <2>3. s \in Rows /\ t[s].rel = e.rel
      BY <1>1, <2>1
    <2> HIDE DEF u, s
    <2>4. t[s] \in Row /\ u[s] = [t[s] EXCEPT !.type = e.type]
      BY <2>2, <2>3
    <2>5. u[s].type = e.type /\ u[s].rel = e.rel /\ u[s].num = e.num
      BY <2>1, <2>3, <2>4 DEF Row
    <2> QED
      BY <2>3, <2>5 DEF Holds, Place, u
  <1>4. CASE ~IsKnown(t, e) /\ f = 0
    <2>1. u = t
      BY <1>4 DEF ImportEntry
    <2> QED
      BY <1>2, <1>4, <2>1 DEF HasUnused
  <1>5. CASE ~IsKnown(t, e) /\ f # 0
    <2>1. u = [t EXCEPT ![f] = NewRow(e, k)]
      BY <1>5 DEF ImportEntry, NewRow
    <2>2. f \in Rows
      BY <1>2, <1>5
    <2> HIDE DEF u, f
    <2>3. u[f] = NewRow(e, k)
      BY <2>1, <2>2
    <2>4. u[f].type = e.type /\ u[f].rel = e.rel /\ u[f].num = e.num
      BY <2>3 DEF NewRow
    <2> QED
      BY <2>2, <2>4 DEF Holds, Place, u
  <1> QED
    BY <1>3, <1>4, <1>5

(* The place of a row or of an entry.                                      *)
LEMMA PlacesAre ==
  \A x, y : x.rel = y.rel /\ x.num = y.num => Place(x) = Place(y)
  BY DEF Place

(* A later import keeps it, unless it is of the same place.                *)
LEMMA ImportKeeps ==
  ASSUME NEW t \in [Rows -> Row], NEW u \in [Rows -> Row], NEW e \in Entry,
         NEW k \in Slots, Imports(t, u, e, k), HasUnused(u)
  PROVE  /\ HasUnused(t)
         /\ \A x : Holds(t, x) /\ x.type # Unused /\ Place(e) # Place(x) => Holds(u, x)
  <1>1. HasUnused(t)
    <2>1. PICK r \in Rows : u[r].type = Unused
      BY DEF HasUnused
    <2>2. u[r] = t[r]
      BY <2>1, ImportedRows DEF TakesType, IsNew, ImportableType
    <2> QED
      BY <2>1, <2>2 DEF HasUnused
  <1>2. ASSUME NEW x, Holds(t, x), x.type # Unused, Place(e) # Place(x)
        PROVE  Holds(u, x)
    <2>1. PICK r \in Rows : Place(t[r]) = Place(x) /\ t[r].type = x.type
      BY <1>2 DEF Holds
    <2>2. \/ u[r] = t[r]
          \/ TakesType(t[r], u[r], e)
          \/ LastUnused(t, r) /\ IsNew(t[r], u[r], e)
      BY ImportedRows
    <2>3. ~TakesType(t[r], u[r], e)
      BY <1>2, <2>1, PlacesAre DEF TakesType
    <2>4. ~IsNew(t[r], u[r], e)
      BY <1>2, <2>1 DEF IsNew
    <2> QED
      BY <2>1, <2>2, <2>3, <2>4 DEF Holds
  <1> QED
    BY <1>1, <1>2

(* After all four imports the table holds each visible partition.          *)
LEMMA ImportedHolds ==
  ASSUME NEW t \in [Rows -> Row], NEW rows \in [Slots -> Entry],
         HasUnused(Imported(t, rows)), NEW k \in Slots, Importable(rows[k]),
         \A j \in Slots : j > k => Place(rows[j]) # Place(rows[k])
  PROVE  Holds(Imported(t, rows), rows[k])
  <1> DEFINE u == Imported(t, rows)
             e == rows[k]
  <1>1. u \in [Rows -> Row] /\ ImportsAll(t, rows, u)
    BY ImportedIs
  <1> HIDE DEF u, e
  <1>2. PICK t1, t2, t3 \in [Rows -> Row] :
          /\ t1 = ImportEntry(t, rows[1], 1) /\ t2 = ImportEntry(t1, rows[2], 2)
          /\ t3 = ImportEntry(t2, rows[3], 3) /\ u = ImportEntry(t3, rows[4], 4)
          /\ Imports(t, t1, rows[1], 1) /\ Imports(t1, t2, rows[2], 2)
          /\ Imports(t2, t3, rows[3], 3) /\ Imports(t3, u, rows[4], 4)
    BY <1>1 DEF ImportsAll
  <1>3. /\ 1 \in Slots /\ 2 \in Slots /\ 3 \in Slots /\ 4 \in Slots
        /\ k = 1 \/ k = 2 \/ k = 3 \/ k = 4
    BY DEF Slots
  <1>4. e.type # Unused
    BY DEF Importable, e
  <1>5. HasUnused(u)
    BY DEF u
  <1>6. HasUnused(t3) /\ (Holds(t3, e) /\ Place(rows[4]) # Place(e) => Holds(u, e))
    BY <1>1, <1>2, <1>3, <1>4, <1>5, ImportKeeps
  <1>7. HasUnused(t2) /\ (Holds(t2, e) /\ Place(rows[3]) # Place(e) => Holds(t3, e))
    BY <1>2, <1>3, <1>4, <1>6, ImportKeeps
  <1>8. HasUnused(t1) /\ (Holds(t1, e) /\ Place(rows[2]) # Place(e) => Holds(t2, e))
    BY <1>2, <1>3, <1>4, <1>7, ImportKeeps
  <1>9. /\ k = 1 => Holds(t1, e)
        /\ k = 2 => Holds(t2, e)
        /\ k = 3 => Holds(t3, e)
        /\ k = 4 => Holds(u, e)
    BY <1>2, <1>3, <1>5, <1>6, <1>7, <1>8, ImportHolds DEF e
  <1>10. \A j \in Slots : j > k => Place(rows[j]) # Place(e)
    BY DEF e
  <1>11. k = 1 => Place(rows[2]) # Place(e) /\ Place(rows[3]) # Place(e)
                  /\ Place(rows[4]) # Place(e)
    BY <1>3, <1>10
  <1>12. k = 2 => Place(rows[3]) # Place(e) /\ Place(rows[4]) # Place(e)
    BY <1>3, <1>10
  <1>13. k = 3 => Place(rows[4]) # Place(e)
    BY <1>3, <1>10
  <1>14. Holds(u, e)
    BY <1>3, <1>6, <1>7, <1>8, <1>9, <1>11, <1>12, <1>13
  <1> QED
    BY <1>14 DEF u, e

(* PowerOn, the step that imports, loses none of them.                     *)
LEMMA NothingLost ==
  ASSUME Base, PowerOn, FreeRow(ram'.table) # 0, NEW k \in Slots,
         Importable(mbr.rows[k]), ~Overruled(k)
  PROVE  \E r \in Rows : /\ Place(ram'.table[r]) = Place(mbr.rows[k])
                         /\ ram'.table[r].type = mbr.rows[k].type
  <1> DEFINE t == Imported(table, mbr.rows)
  <1>1. ram'.table = t
    BY MemoryIs DEF PowerOn
  <1>2. table \in [Rows -> Row] /\ mbr.rows \in [Slots -> Entry]
    BY DEF Base, TypeOK, Mbr
  <1>3. t \in [Rows -> Row]
    BY <1>2, ImportedIs
  <1>4. HasUnused(t)
    BY <1>1, <1>3, FreeRowIs DEF HasUnused
  <1>5. \A j \in Slots : j > k => Place(mbr.rows[j]) # Place(mbr.rows[k])
    BY DEF Overruled
  <1>6. Holds(t, mbr.rows[k])
    BY <1>2, <1>4, <1>5, ImportedHolds
  <1> QED
    BY <1>1, <1>6 DEF Holds

(* Importing the MBR before the menu appears loses no visible partition,   *)
(* as long as a row is unused and no two entries are of one place          *)
(* (IMPORT_MBR).                                                           *)
THEOREM ForgottenNever == Spec => NothingForgotten
  <1>1. Base /\ [Next]_vars =>
          ((pc = "off" /\ pc' = "menu" /\ FreeRow(ram'.table) # 0) =>
             \A k \in Slots : Importable(mbr.rows[k]) /\ ~Overruled(k) =>
                \E r \in Rows : /\ Place(ram'.table[r]) = Place(mbr.rows[k])
                                /\ ram'.table[r].type = mbr.rows[k].type)
    BY MenuOpens, NothingLost
  <1> QED
    BY <1>1, BaseAlways, PTL DEF Spec, NothingForgotten

-------------------------------------------------------------------------------
(* Without ADV_OPT_IGN_UNUSED the rows before the first empty one follow   *)
(* each other without a gap.  Imports keep that as long as there is an     *)
(* empty row.                                                              *)
HasZero(t) == \E r \in Rows : t[r].num = 0
Straight(t) ==
  \A r \in Rows : r + 1 \in Rows /\ (\A q \in Rows : q <= r + 1 => t[q].num # 0)
                  => t[r + 1].rel = End(t[r])
Lined(t) == HasZero(t) => Straight(t)
SamePlaces(t, u) == \A r \in Rows : t[r].rel = u[r].rel /\ t[r].num = u[r].num

(* Whether rows follow each other is a matter of their places.             *)
LEMMA SameStraight ==
  ASSUME NEW t, NEW u, SamePlaces(t, u), Straight(t)
  PROVE  Straight(u)
  <1>1. ASSUME NEW r \in Rows, r + 1 \in Rows,
               \A q \in Rows : q <= r + 1 => u[q].num # 0
        PROVE  u[r + 1].rel = End(u[r])
    <2>1. \A q \in Rows : q <= r + 1 => t[q].num # 0
      BY <1>1 DEF SamePlaces
    <2>2. t[r + 1].rel = End(t[r])
      BY <1>1, <2>1 DEF Straight
    <2> QED
      BY <1>1, <2>2 DEF SamePlaces, End
  <1> QED
    BY <1>1 DEF Straight

(* One import leaves the rows in line, ...                                 *)
LEMMA ImportsLine ==
  ASSUME NEW t \in [Rows -> Row], NEW u \in [Rows -> Row], NEW e \in Entry,
         NEW k \in Slots, Imports(t, u, e, k), VisibleOnDisk(e), UsedOnDisk(t),
         Lined(t)
  PROVE  Lined(u)
  <1> SUFFICES ASSUME NEW z \in Rows, u[z].num = 0, NEW r \in Rows, r + 1 \in Rows,
                      \A q \in Rows : q <= r + 1 => u[q].num # 0
               PROVE  u[r + 1].rel = End(u[r])
    BY DEF Lined, HasZero, Straight
  <1>1. Rows = 1 .. NumRows /\ NumRows \in Nat
    BY NumberBounds DEF Rows
  <1>2. ImportableType(e) => e.num # 0
    <2>1. e.num \in Nat /\ DiskEnd \in Nat
      BY NumberBounds DEF Entry, Numbers
    <2> QED
      BY <2>1 DEF ImportableType, VisibleOnDisk, OnDisk
  <1>3. u[z] = t[z]
    BY <1>2, ImportedRows DEF TakesType, IsNew
  <1>4. t[z].num = 0 /\ t[z].type = Unused
    <2>1. t[z].num = 0
      BY <1>3
    <2>2. t[z].type # Unused => t[z].num >= 1
      BY DEF UsedOnDisk, OnDisk
    <2> QED
      BY <2>1, <2>2
  <1>5. \A q \in Rows : q < z => u[q].rel = t[q].rel /\ u[q].num = t[q].num
    <2> TAKE q \in Rows
    <2>1. \/ u[q] = t[q] \/ TakesType(t[q], u[q], e)
          \/ LastUnused(t, q)
      BY ImportedRows
    <2>2. q < z => ~LastUnused(t, q)
      BY <1>4 DEF LastUnused
    <2> QED
      BY <2>1, <2>2 DEF TakesType
  <1>6. r + 1 < z /\ r < z
    BY <1>1
  <1>7. \A q \in Rows : q <= r + 1 => t[q].num # 0
    <2> TAKE q \in Rows
    <2>1. q <= r + 1 => q < z
      BY <1>1, <1>6
    <2> QED
      BY <1>5, <2>1
  <1>8. t[r + 1].rel = End(t[r])
    BY <1>4, <1>7 DEF Lined, HasZero, Straight
  <1> QED
    BY <1>5, <1>6, <1>8 DEF End

(* ... and so do four.                                                     *)
LEMMA ImportedLines ==
  ASSUME NEW t \in [Rows -> Row], NEW m \in Mbr, MbrSound(m), Sound(t), Lined(t)
  PROVE  Lined(Imported(t, m.rows))
  <1> DEFINE u == Imported(t, m.rows)
             e == m.rows
  <1>1. e \in [Slots -> Entry] /\ \A k \in Slots : VisibleOnDisk(e[k])
    BY DEF Mbr, MbrSound
  <1>2. u \in [Rows -> Row] /\ ImportsAll(t, e, u)
    BY <1>1, ImportedIs
  <1> HIDE DEF u, e
  <1>3. PICK t1, t2, t3 \in [Rows -> Row] :
          /\ Imports(t, t1, e[1], 1) /\ Imports(t1, t2, e[2], 2)
          /\ Imports(t2, t3, e[3], 3) /\ Imports(t3, u, e[4], 4)
    BY <1>2 DEF ImportsAll
  <1>4. 1 \in Slots /\ 2 \in Slots /\ 3 \in Slots /\ 4 \in Slots
    BY DEF Slots
  <1>5. Sound(t1) /\ Lined(t1)
    <2>1. e[1] \in Entry /\ VisibleOnDisk(e[1])
      BY <1>1, <1>4
    <2> QED
      BY <1>3, <1>4, <2>1, ImportsSound, ImportsLine DEF Sound
  <1>6. Sound(t2) /\ Lined(t2)
    <2>1. e[2] \in Entry /\ VisibleOnDisk(e[2])
      BY <1>1, <1>4
    <2> QED
      BY <1>3, <1>4, <1>5, <2>1, ImportsSound, ImportsLine DEF Sound
  <1>7. Sound(t3) /\ Lined(t3)
    <2>1. e[3] \in Entry /\ VisibleOnDisk(e[3])
      BY <1>1, <1>4
    <2> QED
      BY <1>3, <1>4, <1>6, <2>1, ImportsSound, ImportsLine DEF Sound
  <1>8. Lined(u)
    <2>1. e[4] \in Entry /\ VisibleOnDisk(e[4])
      BY <1>1, <1>4
    <2> QED
      BY <1>2, <1>3, <1>4, <1>7, <2>1, ImportsLine DEF Sound
  <1> QED
    BY <1>8 DEF u, e

(* What PART.EXE saves is in one piece.                                    *)
LEMMA SavedStraight ==
  ASSUME NEW t \in [Rows -> Row], UsedOnDisk(t), HasManager(t),
         ValidTable(Arranged(t))
  PROVE  Straight(Saved(t, FALSE))
  <1>1. Saved(t, FALSE) = Adjusted(t) /\ Arranged(t) = Adjusted(t)
    BY ManagerStays DEF Saved, Arranged
  <1>2. SoundRows(Adjusted(t))
    BY <1>1 DEF ValidTable
  <1>3. Tiled(Adjusted(t))
    BY <1>2, AdjustedShape
  <1>4. ASSUME NEW r \in Rows, r + 1 \in Rows,
               \A q \in Rows : q <= r + 1 => Adjusted(t)[q].num # 0
        PROVE  Adjusted(t)[r + 1].rel = End(Adjusted(t)[r])
    <2>1. r + 1 <= r + 1
      BY <1>4, NumberBounds DEF Rows
    <2> QED
      BY <1>3, <1>4, <2>1 DEF Tiled
  <1> QED
    BY <1>1, <1>4 DEF Straight

InLine ==
  ~setup.ignore => /\ Lined(table) /\ Lined(ram.table)
                   /\ ~unreviewed => Straight(table) /\ Straight(ram.table)

(* The rows are in line at first.                                          *)
LEMMA InitInLine ==
  ASSUME Init
  PROVE  InLine
  <1> DEFINE t == Installed(setup.rows)
  <1>1. setup \in Setups
    BY DEF Init
  <1>2. /\ t \in [Rows -> Row] /\ UsedOnDisk(t) /\ HasManager(t)
        /\ ValidTable(Arranged(t))
    BY <1>1, InstalledSound
  <1>3. table = Saved(t, setup.ignore) /\ ram.table = table
    BY MemoryIs DEF Init
  <1>4. setup.ignore \in BOOLEAN
    BY <1>1, SetupTypes
  <1> HIDE DEF t
  <1>5. ~setup.ignore => Straight(table)
    <2>1. ~setup.ignore => setup.ignore = FALSE
      BY <1>4
    <2> QED
      BY <1>2, <1>3, <2>1, SavedStraight
  <1> QED
    BY <1>3, <1>5 DEF InLine, Lined

(* What is imported at power on is at places of the disk.                  *)
LEMMA PowerOnPlaces ==
  ASSUME Base, PowerOn, ~unreviewed'
  PROVE  /\ ~unreviewed /\ SamePlaces(table, Imported(table, mbr.rows))
  <1> DEFINE t == Imported(table, mbr.rows)
  <1>1. ~unreviewed /\ \A r \in Rows : Place(t[r]) = Place(table[r])
    BY DEF PowerOn
  <1>2. \A x, y : Place(x) = Place(y) => x.rel = y.rel /\ x.num = y.num
    BY DEF Place
  <1> QED
    BY <1>1, <1>2 DEF SamePlaces

(* The table in memory is the one of the disk with the imports.            *)
LEMMA PowerOnTables ==
  ASSUME PowerOn
  PROVE  /\ ram'.table = Imported(table, mbr.rows)
         /\ table' = table \/ table' = Imported(table, mbr.rows)
         /\ mbr' = mbr /\ setup' = setup /\ careless' = careless /\ gone' = gone
         /\ behind' = behind
  BY MemoryIs DEF PowerOn

(* Power on keeps the rows in line.                                        *)
LEMMA PowerOnInLine ==
  ASSUME Base, InLine, PowerOn
  PROVE  InLine'
  <1> DEFINE t == Imported(table, mbr.rows)
  <1>1. /\ ram'.table = t /\ (table' = table \/ table' = t) /\ setup' = setup
    BY PowerOnTables
  <1>2. /\ table \in [Rows -> Row] /\ mbr \in Mbr /\ MbrSound(mbr) /\ Sound(table)
    BY DEF Base, TypeOK
  <1>3. CASE setup.ignore
    BY <1>1, <1>3 DEF InLine
  <1>4. CASE ~setup.ignore
    <2>1. Lined(table) /\ Lined(t)
      BY <1>2, <1>4, ImportedLines DEF InLine
    <2>2. ~unreviewed' => Straight(table) /\ Straight(t)
      BY <1>4, PowerOnPlaces, SameStraight DEF InLine
    <2> HIDE DEF t
    <2> QED
      BY <1>1, <2>1, <2>2 DEF InLine
  <1> QED
    BY <1>3, <1>4

(* Booting changes neither table, but for that the one in memory is not    *)
(* needed any more.                                                        *)
LEMMA BootKeepsTables ==
  ASSUME Base, Boot
  PROVE  /\ table' = table /\ setup' = setup /\ unreviewed' = unreviewed
         /\ careless' = careless /\ gone' = gone /\ behind' = behind
         /\ ram'.table = ram.table \/ ram'.table = table
  <1>1. PICK k, act : Choice(k, act) /\ BootSteps(k, act)
    BY BootIs DEF Base, TypeOK
  <1> DEFINE new == NewMbr(k, act)
  <1> HIDE DEF new
  <1>2. CASE Stays(new, k)
    BY <1>2, MemoryIs DEF Stays, history
  <1>3. ASSUME NEW what, NEW written, Starts(new, k, what, written)
        PROVE  /\ table' = table /\ setup' = setup /\ unreviewed' = unreviewed
               /\ careless' = careless /\ gone' = gone /\ behind' = behind
               /\ ram'.table = ram.table \/ ram'.table = table
    BY <1>3, MemoryIs DEF Starts, history
  <1>4. CASE Ignored(new, k)
    BY <1>4, MemoryIs DEF Ignored, history
  <1> QED
    BY <1>1, <1>2, <1>3, <1>4 DEF BootSteps, new

(* A review saves both tables, or leaves the one on the disk with at most  *)
(* one row given up.                                                       *)
LEMMA ReviewIs ==
  ASSUME Base, Review
  PROVE  \E drop \in SUBSET {r \in Rows : table[r].type \in OsTypes},
            written \in BOOLEAN :
           LET kept == Kept(table, drop)
               t == Adjusted(kept)
               places == {Place(t[r]) : r \in {q \in Rows : t[q].type # Unused}}
               lost == {Place(table[r]) : r \in drop}
                       \cup {Place(mbr.rows[k]) : k \in {j \in Slots : Visible(j)}}
           IN  /\ kept \in [Rows -> Row] /\ UsedOnDisk(kept) /\ Untagged(kept)
               /\ HasManager(kept) /\ Arranged(kept) = t /\ ValidTable(t)
               /\ Cardinality(drop) <= 1
               /\ table' = Saved(kept, setup.ignore) /\ ram'.table = table'
               /\ mbr' = IF written THEN [mbr EXCEPT !.rows = AllHidden] ELSE mbr
               /\ gone' = IF written THEN (gone \cup lost) \ places
                          ELSE gone \cup (lost \ places)
               /\ unreviewed' = (unreviewed /\ ~written)
               /\ careless' = (careless /\ ~written)
               /\ behind' = IF written THEN {} ELSE behind
               /\ setup' = setup
  <1>1. PICK drop \in SUBSET {r \in Rows : table[r].type \in OsTypes},
             written \in BOOLEAN :
          LET kept == Kept(table, drop)
              t == Arranged(kept)
              places == {Place(t[r]) : r \in {q \in Rows : t[q].type # Unused}}
              lost == {Place(table[r]) : r \in drop}
                      \cup {Place(mbr.rows[k]) : k \in {j \in Slots : Visible(j)}}
          IN  /\ ValidTable(t) /\ Cardinality(drop) <= 1
              /\ table' = Saved(kept, setup.ignore)
              /\ mbr' = IF written THEN [mbr EXCEPT !.rows = AllHidden] ELSE mbr
              /\ gone' = IF written THEN (gone \cup lost) \ places
                         ELSE gone \cup (lost \ places)
              /\ unreviewed' = (unreviewed /\ ~written)
              /\ careless' = (careless /\ ~written)
              /\ behind' = IF written THEN {} ELSE behind
    BY DEF Review, Kept
  <1>2. table \in [Rows -> Row] /\ Sound(table)
    BY DEF Base, TypeOK
  <1>3. /\ Kept(table, drop) \in [Rows -> Row] /\ UsedOnDisk(Kept(table, drop))
        /\ Untagged(Kept(table, drop)) /\ HasManager(Kept(table, drop))
    BY <1>2, KeptSound
  <1>4. Arranged(Kept(table, drop)) = Adjusted(Kept(table, drop))
    BY <1>3, ManagerStays DEF Arranged
  <1>5. ram' = Memory(table', mbr', 0) /\ setup' = setup
    BY DEF Review
  <1>6. ram'.table = table'
    BY <1>5, MemoryIs
  <1> QED
    BY <1>1, <1>3, <1>4, <1>5, <1>6

(* Each step keeps the rows in line.                                       *)
LEMMA InLineStep ==
  ASSUME Base, InLine, [Next]_vars
  PROVE  InLine'
  <1>1. CASE PowerOn
    BY <1>1, PowerOnInLine
  <1>2. CASE Boot
    <2>1. /\ table' = table /\ setup' = setup /\ unreviewed' = unreviewed
          /\ ram'.table = ram.table \/ ram'.table = table
      BY <1>2, BootKeepsTables
    <2> QED
      BY <2>1 DEF InLine
  <1>3. ASSUME NEW rows, Changed(rows)
        PROVE  InLine'
    <2>1. ram'.table = table /\ UNCHANGED <<table, setup, unreviewed>>
      BY <1>3, MemoryIs DEF Changed
    <2> QED
      BY <2>1 DEF InLine
  <1>4. CASE FdiskCreate \/ FdiskDelete \/ FdiskRetype
    BY <1>3, <1>4 DEF FdiskCreate, FdiskDelete, FdiskRetype
  <1>5. CASE Off
    <2>1. ram'.table = table /\ UNCHANGED <<table, setup, unreviewed>>
      BY <1>5, MemoryIs DEF Off, history
    <2> QED
      BY <2>1 DEF InLine
  <1>6. CASE Review
    <2>1. PICK drop :
            LET kept == Kept(table, drop)
            IN  /\ kept \in [Rows -> Row] /\ UsedOnDisk(kept) /\ HasManager(kept)
                /\ ValidTable(Arranged(kept))
                /\ table' = Saved(kept, setup.ignore) /\ ram'.table = table'
                /\ setup' = setup
      BY <1>6, ReviewIs
    <2>2. ~setup.ignore => setup.ignore = FALSE
      BY SetupTypes DEF Base
    <2>3. ~setup.ignore => Straight(table')
      BY <2>1, <2>2, SavedStraight
    <2> QED
      BY <2>1, <2>3 DEF InLine, Lined
  <1>7. CASE UNCHANGED vars
    <2>1. UNCHANGED <<table, ram, setup, unreviewed>>
      BY <1>7 DEF vars
    <2> QED
      BY <2>1 DEF InLine
  <1> QED
    BY <1>1, <1>2, <1>4, <1>5, <1>6, <1>7 DEF Next

-------------------------------------------------------------------------------
(* The chosen row is the only active piece, if there is room for it.       *)
NoneActive(out) == \A j \in 1 .. Len(out) : ~out[j].active
OneActive(out, x) ==
  \E i \in 1 .. Len(out) :
    out[i] = x /\ \A j \in 1 .. Len(out) : out[j].active <=> j = i

(* How many pieces there are after a push.                                 *)
LEMMA PushedLength ==
  ASSUME NEW S, NEW old \in FourOf(S), NEW new \in FourOf(S), NEW x,
         Pushed(new, old, x)
  PROVE  /\ Len(old) \in Nat /\ Len(new) \in Nat /\ Len(new) <= Len(old) + 1
         /\ Len(new) <= 4
  BY DEF FourOf, Pushed

(* Pushing what is not active activates nothing.                           *)
LEMMA PushInactive ==
  ASSUME NEW old \in FourOf(PieceSet), NEW new \in FourOf(PieceSet), NEW x,
         Pushed(new, old, x), ~x.active
  PROVE  /\ NoneActive(old) => NoneActive(new)
         /\ \A y : OneActive(old, y) => OneActive(new, y)
  <1>1. CASE new = old
    BY <1>1
  <1>2. CASE new # old
    <2> DEFINE n == Len(old)
    <2>1. n \in Nat
      BY DEF FourOf
    <2>2. Len(new) = n + 1 /\ new[n + 1] = x /\ \A i \in 1 .. n : new[i] = old[i]
      BY <1>2 DEF Pushed
    <2>3. NoneActive(old) <=> \A j \in 1 .. n : ~old[j].active
      BY DEF NoneActive
    <2>4. \A y : OneActive(old, y) <=>
                   \E i \in 1 .. n : old[i] = y /\ \A j \in 1 .. n : old[j].active <=> j = i
      BY DEF OneActive
    <2> HIDE DEF n
    <2>5. \A j \in 1 .. Len(new) : j \in 1 .. n \/ j = n + 1
      BY <2>1, <2>2
    <2>6. NoneActive(old) => NoneActive(new)
      BY <2>2, <2>3, <2>5 DEF NoneActive
    <2>7. ASSUME NEW y, NEW i \in 1 .. n, old[i] = y,
                 \A j \in 1 .. n : old[j].active <=> j = i
          PROVE  OneActive(new, y)
      <3>1. i \in 1 .. Len(new) /\ i # n + 1
        BY <2>1, <2>2
      <3>2. new[i] = y
        BY <2>2, <2>7
      <3>3. \A j \in 1 .. Len(new) : new[j].active <=> j = i
        BY <2>2, <2>5, <2>7, <3>1
      <3> QED
        BY <3>1, <3>2, <3>3 DEF OneActive
    <2> QED
      BY <2>4, <2>6, <2>7
  <1> QED
    BY <1>1, <1>2

(* The chosen row is active if it was not pushed too late.                 *)
LEMMA PushActive ==
  ASSUME NEW old \in FourOf(PieceSet), NEW new \in FourOf(PieceSet), NEW x,
         Pushed(new, old, x), x.active, Len(old) <= 3, NoneActive(old)
  PROVE  OneActive(new, x)
  <1> DEFINE n == Len(old)
  <1>0. n \in Nat /\ n <= 3
    BY DEF FourOf
  <1>1. n \in Nat /\ n # 4
    <2> HIDE DEF n
    <2> QED
      BY <1>0
  <1>2. Len(new) = n + 1 /\ new[n + 1] = x /\ \A i \in 1 .. n : new[i] = old[i]
    BY <1>1 DEF Pushed
  <1>3. \A j \in 1 .. n : ~old[j].active
    BY DEF NoneActive
  <1> HIDE DEF n
  <1>4. \A j \in 1 .. Len(new) : (j \in 1 .. n /\ j # n + 1) \/ j = n + 1
    BY <1>1, <1>2
  <1>5. n + 1 \in 1 .. Len(new)
    BY <1>1, <1>2
  <1>6. \A j \in 1 .. Len(new) : new[j].active <=> j = n + 1
    BY <1>2, <1>3, <1>4
  <1> QED
    BY <1>2, <1>5, <1>6 DEF OneActive

NoGap(acc, t, r, ignore) == ~Behind(t[r].rel, acc.cur) \/ Skips(acc, r, ignore)

(* A row without a gap before it takes one piece.                          *)
LEMMA ShowLength ==
  ASSUME NEW t, NEW acc \in ShowState, NEW new \in ShowState, NEW r, NEW a,
         NEW ignore, ShowsRow(acc, new, t, r, a, ignore)
  PROVE  /\ Len(acc.out) \in 0 .. 4 /\ Len(new.out) \in 0 .. 4
         /\ Len(new.out) <= Len(acc.out) + 2
         /\ NoGap(acc, t, r, ignore) => Len(new.out) <= Len(acc.out) + 1
  <1>1. acc.out \in FourOf(PieceSet) /\ new.out \in FourOf(PieceSet)
    BY DEF ShowState
  <1>2. Len(acc.out) \in 0 .. 4 /\ Len(new.out) \in 0 .. 4
    <2>1. \A seq \in FourOf(PieceSet) : Len(seq) \in Nat /\ Len(seq) <= 4
      BY DEF FourOf
    <2>2. \A n \in Nat : n <= 4 => n \in 0 .. 4
      OBVIOUS
    <2> QED
      BY <1>1, <2>1, <2>2
  <1>3. CASE NoGap(acc, t, r, ignore)
    <2>1. Pushed(new.out, acc.out, Piece(t[r], r = a))
      BY <1>3 DEF ShowsRow, NoGap
    <2>2. Len(new.out) <= Len(acc.out) + 1
      BY <1>1, <2>1, PushedLength
    <2> QED
      BY <1>2, <2>2
  <1>4. CASE ~NoGap(acc, t, r, ignore)
    <2>1. PICK mid \in FourOf(PieceSet) :
             /\ Pushed(mid, acc.out, HiddenPiece(acc.cur, t[r].rel, FALSE))
             /\ Pushed(new.out, mid, Piece(t[r], r = a))
      BY <1>4 DEF ShowsRow, NoGap
    <2>2. Len(mid) <= Len(acc.out) + 1 /\ Len(mid) \in Nat
      BY <1>1, <2>1, PushedLength
    <2>3. Len(new.out) <= Len(mid) + 1
      BY <1>1, <2>1, PushedLength
    <2> QED
      BY <1>2, <1>4, <2>2, <2>3
  <1> QED
    BY <1>3, <1>4

(* An active piece is the one of the chosen row.                           *)
LEMMA ActiveFields ==
  /\ \A p : Piece(p, TRUE).active /\ ~Piece(p, FALSE).active
  /\ \A from, to : ~HiddenPiece(from, to, FALSE).active
  /\ ~NoPiece.active
  BY DEF Piece, HiddenPiece, NoPiece

(* Showing another row activates nothing, ...                              *)
LEMMA ShowOther ==
  ASSUME NEW t, NEW acc \in ShowState, NEW new \in ShowState, NEW r, NEW a, r # a,
         NEW ignore, ShowsRow(acc, new, t, r, a, ignore)
  PROVE  /\ NoneActive(acc.out) => NoneActive(new.out)
         /\ \A y : OneActive(acc.out, y) => OneActive(new.out, y)
  <1>1. acc.out \in FourOf(PieceSet) /\ new.out \in FourOf(PieceSet)
    BY DEF ShowState
  <1> DEFINE x == Piece(t[r], FALSE)
             g == HiddenPiece(acc.cur, t[r].rel, FALSE)
  <1>2. (r = a) = FALSE
    OBVIOUS
  <1>3. \/ Pushed(new.out, acc.out, x)
        \/ \E mid \in FourOf(PieceSet) : Pushed(mid, acc.out, g) /\ Pushed(new.out, mid, x)
    BY <1>2 DEF ShowsRow
  <1>4. ~x.active /\ ~g.active
    BY ActiveFields
  <1> HIDE DEF x, g
  <1>5. CASE Pushed(new.out, acc.out, x)
    BY <1>1, <1>4, <1>5, PushInactive
  <1>6. ASSUME NEW mid \in FourOf(PieceSet), Pushed(mid, acc.out, g),
               Pushed(new.out, mid, x)
        PROVE  /\ NoneActive(acc.out) => NoneActive(new.out)
               /\ \A y : OneActive(acc.out, y) => OneActive(new.out, y)
    <2>1. /\ NoneActive(acc.out) => NoneActive(mid)
          /\ \A y : OneActive(acc.out, y) => OneActive(mid, y)
      BY <1>1, <1>4, <1>6, PushInactive
    <2>2. /\ NoneActive(mid) => NoneActive(new.out)
          /\ \A y : OneActive(mid, y) => OneActive(new.out, y)
      BY <1>1, <1>4, <1>6, PushInactive
    <2> QED
      BY <2>1, <2>2
  <1> QED
    BY <1>3, <1>5, <1>6

(* ... and showing the chosen one activates it.                            *)
LEMMA ShowChosen ==
  ASSUME NEW t, NEW acc \in ShowState, NEW new \in ShowState, NEW r,
         NEW ignore, ShowsRow(acc, new, t, r, r, ignore), NoneActive(acc.out),
         \/ Len(acc.out) <= 2
         \/ Len(acc.out) <= 3 /\ NoGap(acc, t, r, ignore)
  PROVE  OneActive(new.out, Piece(t[r], TRUE))
  <1>1. acc.out \in FourOf(PieceSet) /\ new.out \in FourOf(PieceSet)
        /\ Len(acc.out) \in Nat
    BY DEF ShowState, FourOf
  <1> DEFINE x == Piece(t[r], TRUE)
             g == HiddenPiece(acc.cur, t[r].rel, FALSE)
  <1>2. (r = r) = TRUE
    OBVIOUS
  <1>3. \/ NoGap(acc, t, r, ignore) /\ Pushed(new.out, acc.out, x)
        \/ ~NoGap(acc, t, r, ignore)
           /\ \E mid \in FourOf(PieceSet) : Pushed(mid, acc.out, g) /\ Pushed(new.out, mid, x)
    BY <1>2 DEF ShowsRow, NoGap
  <1>4. x.active /\ ~g.active
    BY ActiveFields
  <1> HIDE DEF x, g
  <1>5. CASE Pushed(new.out, acc.out, x)
    <2>1. Len(acc.out) <= 3
      BY <1>1
    <2> QED
      BY <1>1, <1>4, <1>5, <2>1, PushActive DEF x
  <1>6. ASSUME NEW mid \in FourOf(PieceSet), Pushed(mid, acc.out, g),
               Pushed(new.out, mid, x), Len(acc.out) <= 2
        PROVE  OneActive(new.out, x)
    <2>1. NoneActive(mid)
      BY <1>1, <1>4, <1>6, PushInactive
    <2>2. Len(mid) <= Len(acc.out) + 1 /\ Len(mid) \in Nat
      BY <1>1, <1>6, PushedLength
    <2>3. Len(mid) <= 3
      BY <1>1, <1>6, <2>2
    <2> QED
      BY <1>1, <1>4, <1>6, <2>1, <2>3, PushActive
  <1> QED
    BY <1>3, <1>5, <1>6 DEF x

(* Rows that follow each other are shown without a gap between them.       *)
Follows(t, q, r, ignore) == r = q + 1 /\ (ignore \/ t[r].rel = End(t[q]))

(* That is what following each other means.                                *)
LEMMA FollowsNoGap ==
  ASSUME NEW t \in [Rows -> Row], NEW q \in Rows, NEW r \in Rows,
         NEW ignore \in BOOLEAN, Follows(t, q, r, ignore), NEW acc,
         acc.cur = Wrap(t[q].rel + t[q].num), acc.prev = q
  PROVE  NoGap(acc, t, r, ignore)
  <1>1. q \in Nat /\ q # 0 /\ r = q + 1
    BY NumberBounds DEF Rows, Follows
  <1>2. CASE ignore
    BY <1>1, <1>2 DEF NoGap, Skips
  <1>3. CASE ~ignore
    <2>1. t[r].rel = t[q].rel + t[q].num /\ t[r].rel \in Numbers /\ t[r].rel \in Nat
      BY <1>3, RowFields DEF Follows, End
    <2>2. acc.cur = t[r].rel
      BY <2>1, WrapSmall
    <2>3. Half \in Nat \ {0}
      BY TableConstants
    <2>4. \A x \in Nat : ~Behind(x, x)
      BY <2>3 DEF Behind
    <2> QED
      BY <2>1, <2>2, <2>4 DEF NoGap
  <1> QED
    BY <1>2, <1>3

(* Of the rows shown for an item one is active, the chosen one.            *)
LEMMA ShownOne ==
  ASSUME NEW t \in [Rows -> Row], NEW list, Len(list) \in 1 .. 3,
         \A i \in 1 .. Len(list) : list[i] \in Rows, NEW m \in 1 .. Len(list),
         \A i \in 1 .. Len(list) : i # m => list[i] # list[m],
         NEW ignore \in BOOLEAN, NEW s, ShowSteps(s, t, list, list[m], ignore),
         m = 3 => /\ Follows(t, list[1], list[2], ignore)
                  /\ Follows(t, list[2], list[3], ignore)
  PROVE  OneActive(s[3].out, Piece(t[list[m]], TRUE))
  <1> DEFINE a == list[m]
             x == Piece(t[list[m]], TRUE)
             n == Len(list)
  <1>1. /\ n \in 1 .. 3 /\ m \in 1 .. n /\ (m = 1 \/ m = 2 \/ m = 3)
        /\ (n = 1 \/ n = 2 \/ n = 3) /\ m <= n
    OBVIOUS
  <1>2. /\ s[0] \in ShowState /\ s[1] \in ShowState /\ s[2] \in ShowState
        /\ s[3] \in ShowState /\ s[0].out = << >>
    <2>1. 0 \in 0 .. 3 /\ 1 \in 0 .. 3 /\ 2 \in 0 .. 3 /\ 3 \in 0 .. 3
      OBVIOUS
    <2> QED
      BY <2>1 DEF ShowSteps
  <1>3. \A k \in 1 .. 3 : IF k > n THEN s[k] = s[k - 1]
                          ELSE ShowsRow(s[k - 1], s[k], t, list[k], a, ignore)
    BY DEF ShowSteps
  <1>4. \A i \in 1 .. n : i # m => list[i] # a
    OBVIOUS
  <1>5. \A i \in 1 .. n : list[i] \in Rows
    OBVIOUS
  <1>6. m = 3 => Follows(t, list[1], list[2], ignore) /\ Follows(t, list[2], list[3], ignore)
    OBVIOUS
  <1>7. list[m] = a /\ x = Piece(t[a], TRUE)
    OBVIOUS
  <1> HIDE DEF a, x, n
  <1>8. ShowsRow(s[0], s[1], t, list[1], a, ignore)
    BY <1>1, <1>3
  <1>9. n >= 2 => ShowsRow(s[1], s[2], t, list[2], a, ignore)
    BY <1>1, <1>3
  <1>10. n = 3 => ShowsRow(s[2], s[3], t, list[3], a, ignore)
    BY <1>1, <1>3
  <1>11. n < 2 => s[2] = s[1]
    BY <1>1, <1>3
  <1>12. n < 3 => s[3] = s[2]
    BY <1>1, <1>3
  <1>13. NoneActive(s[0].out) /\ Len(s[0].out) = 0 /\ Len(s[0].out) <= 2
    BY <1>2 DEF NoneActive
  <1>14. Len(s[1].out) \in 0 .. 4 /\ Len(s[1].out) <= 2
    BY <1>2, <1>8, <1>13, ShowLength
  <1>15. /\ m = 1 => OneActive(s[1].out, x)
         /\ m # 1 => NoneActive(s[1].out)
    <2>1. CASE m = 1
      <3>1. ShowsRow(s[0], s[1], t, a, a, ignore)
        BY <1>7, <1>8, <2>1
      <3>2. OneActive(s[1].out, Piece(t[a], TRUE))
        BY <1>2, <1>13, <3>1, ShowChosen
      <3> QED
        BY <1>7, <2>1, <3>2
    <2>2. CASE m # 1
      <3>1. list[1] # a
        BY <1>1, <1>4, <2>2
      <3> QED
        BY <1>2, <1>8, <1>13, <2>2, <3>1, ShowOther
    <2> QED
      BY <2>1, <2>2
  <1>25. ASSUME NEW b, NEW c, b \in ShowState, c \in ShowState, NEW r, r # a,
                ShowsRow(b, c, t, r, a, ignore)
         PROVE  /\ NoneActive(b.out) => NoneActive(c.out)
                /\ OneActive(b.out, x) => OneActive(c.out, x)
    <2>1. NoneActive(b.out) => NoneActive(c.out)
      BY <1>25, ShowOther
    <2>2. \A y : OneActive(b.out, y) => OneActive(c.out, y)
      BY <1>25, ShowOther
    <2> QED
      BY <2>1, <2>2
  <1>20. list[2] # a /\ n >= 2 /\ OneActive(s[1].out, x) => OneActive(s[2].out, x)
    BY <1>2, <1>9, <1>25
  <1>21. list[2] # a /\ n >= 2 /\ NoneActive(s[1].out) => NoneActive(s[2].out)
    BY <1>2, <1>9, <1>25
  <1>22. 2 # 1 /\ 2 # 3 /\ 3 # 1 /\ 3 # 2
    OBVIOUS
  <1>16. n >= 2 /\ m = 1 => OneActive(s[2].out, x)
    <2> SUFFICES ASSUME n >= 2, m = 1 PROVE OneActive(s[2].out, x)
      OBVIOUS
    <2>1. list[2] # a
      BY <1>1, <1>4
    <2> QED
      BY <1>15, <1>20, <2>1
  <1>23. n >= 2 /\ m = 2 => OneActive(s[2].out, x)
    <2> SUFFICES ASSUME n >= 2, m = 2 PROVE OneActive(s[2].out, x)
      OBVIOUS
    <2>1. ShowsRow(s[1], s[2], t, a, a, ignore)
      BY <1>7, <1>9
    <2>2. NoneActive(s[1].out)
      BY <1>15, <1>22
    <2>3. Len(s[1].out) <= 2
      BY <1>14
    <2>4. OneActive(s[2].out, Piece(t[a], TRUE))
      BY <1>2, <2>1, <2>2, <2>3, ShowChosen
    <2> QED
      BY <1>7, <2>4
  <1>24. n >= 2 /\ m = 3 => NoneActive(s[2].out)
    <2> SUFFICES ASSUME n >= 2, m = 3 PROVE NoneActive(s[2].out)
      OBVIOUS
    <2>1. list[2] # a
      BY <1>1, <1>4
    <2> QED
      BY <1>15, <1>21, <1>22, <2>1
  <1>17. n = 3 => OneActive(s[3].out, x)
    <2> HAVE n = 3
    <2>1. CASE m # 3
      <3>1. list[3] # a
        BY <1>1, <1>4, <2>1
      <3>2. OneActive(s[2].out, x)
        BY <1>1, <1>16, <1>23, <2>1
      <3>3. ShowsRow(s[2], s[3], t, list[3], a, ignore)
        BY <1>10
      <3>4. OneActive(s[2].out, x) => OneActive(s[3].out, x)
        BY <1>2, <1>25, <3>1, <3>3
      <3> QED
        BY <3>2, <3>4
    <2>2. CASE m = 3
      <3>1. list[1] \in Rows /\ list[2] \in Rows /\ list[3] \in Rows
        BY <1>1, <1>5
      <3>2. s[1].cur = Wrap(t[list[1]].rel + t[list[1]].num) /\ s[1].prev = list[1]
        BY <1>8 DEF ShowsRow
      <3>3. NoGap(s[1], t, list[2], ignore)
        BY <1>6, <2>2, <3>1, <3>2, FollowsNoGap
      <3>4. Len(s[2].out) \in 0 .. 4 /\ Len(s[2].out) <= Len(s[1].out) + 1
        BY <1>2, <1>9, <3>3, ShowLength
      <3>5. Len(s[2].out) <= 3
        BY <1>14, <3>4
      <3>6. s[2].cur = Wrap(t[list[2]].rel + t[list[2]].num) /\ s[2].prev = list[2]
        BY <1>9 DEF ShowsRow
      <3>7. NoGap(s[2], t, list[3], ignore)
        BY <1>6, <2>2, <3>1, <3>6, FollowsNoGap
      <3>8. NoneActive(s[2].out)
        BY <1>1, <1>24, <2>2
      <3>9. ShowsRow(s[2], s[3], t, a, a, ignore) /\ NoGap(s[2], t, a, ignore)
        BY <1>7, <1>10, <2>2, <3>7
      <3>10. OneActive(s[3].out, Piece(t[a], TRUE))
        BY <1>2, <3>5, <3>8, <3>9, ShowChosen
      <3> QED
        BY <1>7, <3>10
    <2> QED
      BY <2>1, <2>2
  <1>18. n = 1 => OneActive(s[3].out, x)
    BY <1>1, <1>11, <1>12, <1>15
  <1>19. n = 2 => OneActive(s[3].out, x)
    BY <1>1, <1>12, <1>16, <1>23
  <1> QED
    BY <1>1, <1>17, <1>18, <1>19 DEF x

(* So is the entry that is made of it.                                     *)
OneFilled(f, x) == \E i \in Slots : f[i] = x /\ \A j \in Slots : f[j].active <=> j = i
(* The last piece is not active.                                           *)
LEMMA FilledOne ==
  ASSUME NEW f, NEW end \in ShowState, NEW out, Filling4(f, end, out), NEW x,
         OneActive(end.out, x)
  PROVE  OneFilled(f, x)
  <1>1. end.out \in FourOf(PieceSet) /\ out \in FourOf(PieceSet)
    BY DEF ShowState, Filling4
  <1>2. end.out # << >>
    BY DEF OneActive
  <1>3. ~Rest(end).active
    <2>1. (end.out = << >>) = FALSE
      BY <1>2
    <2> QED
      BY <2>1, ActiveFields DEF Rest
  <1>4. OneActive(out, x)
    <2>1. CASE out = end.out
      BY <2>1
    <2>2. CASE Pushed(out, end.out, Rest(end))
      BY <1>1, <1>3, <2>2, PushInactive
    <2> QED
      BY <2>1, <2>2 DEF Filling4
  <1>5. PICK i \in 1 .. Len(out) :
          out[i] = x /\ \A j \in 1 .. Len(out) : out[j].active <=> j = i
    BY <1>4 DEF OneActive
  <1>6. Len(out) \in Nat /\ Len(out) <= 4
    BY <1>1 DEF FourOf
  <1>7. i \in Slots /\ i <= Len(out)
    BY <1>6 DEF Slots
  <1>8. \A j \in Slots : f[j] = IF j <= Len(out) THEN out[j] ELSE NoPiece
    BY DEF Filling4
  <1>9. \A j \in Slots : j <= Len(out) => j \in 1 .. Len(out)
    BY <1>6 DEF Slots
  <1>10. f[i] = x
    BY <1>5, <1>7, <1>8
  <1>11. \A j \in Slots : f[j].active <=> j = i
    <2> TAKE j \in Slots
    <2>1. CASE j <= Len(out)
      BY <1>5, <1>8, <1>9, <2>1
    <2>2. CASE ~(j <= Len(out))
      BY <1>7, <1>8, <2>2, ActiveFields
    <2> QED
      BY <2>1, <2>2
  <1> QED
    BY <1>7, <1>10, <1>11 DEF OneFilled

(* Nor does rearranging change that there is one.                          *)
LEMMA MadeOne ==
  ASSUME NEW p, NEW rows, NEW f, MadeOf(p, rows, f), NEW x, x.type # Unused,
         NEW i \in Slots, f[i] = x, \A j \in Slots : f[j].active <=> j = i
  PROVE  \E j \in Slots : /\ rows[j].rel = x.rel /\ rows[j].num = x.num
                          /\ \A h \in Slots : rows[h].active <=> h = j
  <1>1. Slots = 1 .. 4
    BY DEF Slots
  <1>2. /\ \A h \in Slots : p[h] \in Slots
        /\ \A h, j \in Slots : h # j => p[h] # p[j]
        /\ \E j \in Slots : p[j] = i
    BY <1>1 DEF MadeOf, IsPermutation
  <1>3. PICK j \in Slots : p[j] = i
    BY <1>2
  <1>4. \A h \in Slots :
          IF f[p[h]].type = Unused THEN rows[h] = NoEntry
          ELSE /\ rows[h].rel = f[p[h]].rel /\ rows[h].num = f[p[h]].num
               /\ rows[h].active = f[p[h]].active
    BY DEF MadeOf
  <1>5. f[i].active
    OBVIOUS
  <1>6. rows[j].rel = x.rel /\ rows[j].num = x.num /\ rows[j].active
    BY <1>3, <1>4, <1>5
  <1>7. ASSUME NEW h \in Slots, h # j
        PROVE  ~rows[h].active
    <2>1. p[h] \in Slots /\ p[h] # i
      BY <1>2, <1>3, <1>7
    <2>2. ~f[p[h]].active /\ ~NoEntry.active
      BY <2>1 DEF NoEntry
    <2> QED
      BY <1>4, <2>2
  <1> QED
    BY <1>6, <1>7

(* Where the chosen row is among those that are shown.                     *)
Among(list, a, m, last) ==
  /\ Len(list) \in 1 .. 3 /\ m \in 1 .. Len(list) /\ list[m] = a
  /\ \A i \in 1 .. Len(list) : list[i] \in 1 .. last /\ (i # m => list[i] # a)
  /\ m = 3 => list[2] = list[1] + 1 /\ list[3] = list[2] + 1

(* All lists have the chosen row at a place where there is room for it.    *)
LEMMA OneOfAmong ==
  ASSUME NEW last \in Nat, NEW a \in 1 .. last, NEW list, OneOf(list, a, last)
  PROVE  \E m : Among(list, a, m, last)
  <1>1. a \in Nat /\ a >= 1 /\ a <= last
    OBVIOUS
  <1>2. ASSUME list = <<a>>
        PROVE  Among(list, a, 1, last)
    <2>1. Len(list) = 1 /\ list[1] = a
      BY <1>2
    <2> QED
      BY <1>1, <2>1 DEF Among
  <1>3. ASSUME NEW b \in 1 .. last, b # a, list = <<a, b>>
        PROVE  Among(list, a, 1, last)
    <2>1. Len(list) = 2 /\ list[1] = a /\ list[2] = b
      BY <1>3
    <2> QED
      BY <1>1, <1>3, <2>1 DEF Among
  <1>4. ASSUME a > 1, list = <<a - 1, a>>
        PROVE  Among(list, a, 2, last)
    <2>1. Len(list) = 2 /\ list[1] = a - 1 /\ list[2] = a
      BY <1>4
    <2> QED
      BY <1>1, <1>4, <2>1 DEF Among
  <1>5. ASSUME last >= 3, a >= last - 2, list = <<last - 2, last - 1, last>>
        PROVE  \E m : Among(list, a, m, last)
    <2>1. Len(list) = 3 /\ list[1] = last - 2 /\ list[2] = last - 1 /\ list[3] = last
      BY <1>5
    <2>2. a = last - 2 \/ a = last - 1 \/ a = last
      BY <1>1, <1>5
    <2>3. CASE a = last - 2
      <3>1. Among(list, a, 1, last)
        BY <1>1, <1>5, <2>1, <2>3 DEF Among
      <3> QED
        BY <3>1
    <2>4. CASE a = last - 1
      <3>1. Among(list, a, 2, last)
        BY <1>1, <1>5, <2>1, <2>4 DEF Among
      <3> QED
        BY <3>1
    <2>5. CASE a = last
      <3>1. Among(list, a, 3, last)
        BY <1>1, <1>5, <2>1, <2>5 DEF Among
      <3> QED
        BY <3>1
    <2> QED
      BY <2>2, <2>3, <2>4, <2>5
  <1>6. a < last => a + 1 \in 1 .. last /\ a + 1 # a /\ last \in 1 .. last /\ last # a
    BY <1>1
  <1> QED
    BY <1>2, <1>3, <1>4, <1>5, <1>6 DEF OneOf

(* So the MBR made for an item has that partition active, and no other.    *)
LEMMA ChosenMade ==
  ASSUME NEW t \in [Rows -> Row], NEW a \in 1 .. LastRow(t), t[a].type # Unused,
         NEW list, OneOf(list, a, LastRow(t)), NEW ignore \in BOOLEAN,
         ignore \/ Straight(t)
  PROVE  \E j \in Slots :
           LET rows == MadePartTab(t, list, a, ignore)
           IN  /\ rows[j].rel = t[a].rel /\ rows[j].num = t[a].num
               /\ \A h \in Slots : rows[h].active <=> h = j
  <1> DEFINE last == LastRow(t)
             x == Piece(t[a], TRUE)
  <1>1. /\ last \in Nat /\ last <= NumRows /\ Rows = 1 .. NumRows /\ NumRows \in Nat
        /\ \A r \in Rows : r <= last => t[r].num # 0
    BY LastRowIs, NumberBounds DEF Rows
  <1> HIDE DEF last
  <1>2. PICK m : Among(list, a, m, last)
    BY <1>1, OneOfAmong DEF last
  <1>3. /\ Len(list) \in 1 .. 3 /\ m \in 1 .. Len(list) /\ list[m] = a
        /\ \A i \in 1 .. Len(list) : list[i] \in Rows /\ list[i] <= last
        /\ \A i \in 1 .. Len(list) : i # m => list[i] # list[m]
    BY <1>1, <1>2 DEF Among
  <1>4. Len(list) \in 0 .. 3 /\ \A i \in 1 .. Len(list) : list[i] \in Rows
    BY <1>3
  <1>5. ASSUME NEW q \in Rows, NEW r \in Rows, r = q + 1, r <= last
        PROVE  Follows(t, q, r, ignore)
    <2>1. \A h \in Rows : h <= q + 1 => t[h].num # 0
      BY <1>1, <1>5
    <2>2. Straight(t) => t[r].rel = End(t[q])
      BY <1>5, <2>1 DEF Straight
    <2> QED
      BY <1>5, <2>2 DEF Follows
  <1>6. m = 3 => /\ Follows(t, list[1], list[2], ignore)
                 /\ Follows(t, list[2], list[3], ignore)
    <2> HAVE m = 3
    <2>1. 1 \in 1 .. Len(list) /\ 2 \in 1 .. Len(list) /\ 3 \in 1 .. Len(list)
      BY <1>3
    <2>2. list[2] = list[1] + 1 /\ list[3] = list[2] + 1
      BY <1>2 DEF Among
    <2> QED
      BY <1>3, <1>5, <2>1, <2>2
  <1>7. PICK s, out, p : /\ ShowSteps(s, t, list, a, ignore)
                         /\ Filling4(Filled(t, list, a, ignore), s[3], out)
                         /\ MadeOf(p, MadePartTab(t, list, a, ignore),
                                   Filled(t, list, a, ignore))
    BY <1>4, MadeIs
  <1>8. OneActive(s[3].out, x)
    <2>1. ShowSteps(s, t, list, list[m], ignore)
      BY <1>3, <1>7
    <2>2. OneActive(s[3].out, Piece(t[list[m]], TRUE))
      BY <1>3, <1>6, <2>1, ShownOne
    <2> QED
      BY <1>3, <2>2
  <1>9. s[3] \in ShowState
    <2>1. 3 \in 0 .. 3
      OBVIOUS
    <2> QED
      BY <1>7, <2>1 DEF ShowSteps
  <1>10. x.type = t[a].type /\ x.rel = t[a].rel /\ x.num = t[a].num
    BY DEF Piece
  <1> DEFINE f == Filled(t, list, a, ignore)
             rows == MadePartTab(t, list, a, ignore)
  <1>11. Filling4(f, s[3], out) /\ MadeOf(p, rows, f)
    BY <1>7
  <1> HIDE DEF f, rows, x
  <1>14. OneFilled(f, x)
    <2> DEFINE end == s[3]
    <2>1. end \in ShowState /\ Filling4(f, end, out) /\ OneActive(end.out, x)
      BY <1>8, <1>9, <1>11
    <2> HIDE DEF end
    <2> QED
      BY <2>1, FilledOne
  <1>12. PICK i \in Slots : f[i] = x /\ \A j \in Slots : f[j].active <=> j = i
    BY <1>14 DEF OneFilled
  <1>13. \E j \in Slots : /\ rows[j].rel = x.rel /\ rows[j].num = x.num
                          /\ \A h \in Slots : rows[h].active <=> h = j
    BY <1>10, <1>11, <1>12, MadeOne
  <1> QED
    BY <1>10, <1>13 DEF rows

(* Only the boot manager starts something, and but for the disks it is the *)
(* partition of the chosen item.                                           *)
Chooses(new, k, what) ==
  /\ k \in 1 .. Len(Items) /\ setup.menu[Items[k]].kind = "part"
  /\ new.rows = RowsFor(k) /\ what \in ActMbrRec(new.rows)
  /\ Starts(new, k, what, TRUE)

(* What a boot starts is what its choice says.                             *)
LEMMA Started ==
  ASSUME NEW new, NEW k, NEW what, NEW written, Starts(new, k, what, written)
  PROVE  started'.what = what /\ started'.item = k
  BY DEF Starts

(* The outcomes of a choice.                                               *)
LEMMA StartsIs ==
  ASSUME [Next]_vars, pc = "menu", pc' = "os", started'.what \notin Devices
  PROVE  \E new, k, what : Chooses(new, k, what)
  <1>1. ~(\E rows : Changed(rows))
    BY DEF Changed
  <1>2. Boot
    BY <1>1 DEF Next, PowerOn, Off, FdiskCreate, FdiskDelete, FdiskRetype, Review, vars
  <1>3. ASSUME NEW new, NEW k, NEW disk \in Devices, BootDisk(new, k, disk)
        PROVE  FALSE
    <2>1. ~Stays(new, k)
      BY DEF Stays
    <2>2. PICK written : Starts(new, k, disk, written)
      BY <1>3, <2>1 DEF BootDisk
    <2> QED
      BY <2>2, Started
  <1>4. Disk("Floppy") \in Devices /\ Disk("Next disk") \in Devices
    BY DEF Devices
  <1>5. \A k, disk : ~(disk \in Devices /\ BootOther(k, disk))
    BY <1>3 DEF BootOther
  <1>6. PICK k \in 1 .. Len(Items) : Enter(k) \/ Escape(k)
    BY <1>2, <1>4, <1>5 DEF Boot
  <1>7. ASSUME NEW act, BootItem([rows |-> RowsFor(k), act |-> act], k)
        PROVE  \E new, what : Chooses(new, k, what)
    <2> DEFINE new == [rows |-> RowsFor(k), act |-> act]
    <2>1. new.rows = RowsFor(k)
      OBVIOUS
    <2>2. BootItem(new, k)
      BY <1>7
    <2> HIDE DEF new
    <2>3. ~Stays(new, k) /\ ~Ignored(new, k)
      BY DEF Stays, Ignored
    <2>4. setup.menu[Items[k]].kind = "part" /\ BootPart(new, k)
      BY <1>3, <1>4, <2>2, <2>3 DEF BootItem
    <2>5. PICK what \in ActMbrRec(new.rows) : Starts(new, k, what, TRUE)
      BY <2>3, <2>4 DEF BootPart
    <2> QED
      BY <2>1, <2>4, <2>5 DEF Chooses
  <1> QED
    BY <1>6, <1>7 DEF Enter, Escape

(* A boot starts the partition of the chosen item.                         *)
LEMMA StartsChosen ==
  ASSUME Base, InLine, [Next]_vars, pc = "menu", pc' = "os",
         started'.what \notin Devices, ~FilledUp
  PROVE  LET row == mbr'.rows[Active(mbr'.rows)]
         IN  /\ Place(row) = Place(ram.table[ChosenRow(started'.item)])
             /\ started'.what = row
             /\ {k \in Slots : mbr'.rows[k].active} = {Active(mbr'.rows)}
  <1>1. PICK new, k, what : Chooses(new, k, what)
    BY StartsIs
  <1> DEFINE t == ram.table
             a == ChosenRow(k)
             last == LastRow(ram.table)
             rows == RowsFor(k)
  <1>2. /\ t \in [Rows -> Row] /\ Sound(t) /\ setup \in Setups
        /\ setup.ignore \in BOOLEAN /\ mbr \in Mbr
    BY SetupTypes DEF Base, TypeOK
  <1>3. /\ k \in 1 .. Len(Items) /\ Len(Items) \in Nat /\ k \in Nat /\ k >= 1
        /\ Items[k] \in ItemsOf(t)
    BY <1>1, <1>2, ItemsAre DEF Chooses
  <1>4. a = PartNumByTag(t, setup.menu[Items[k]].tag) /\ a # 0
    <2>1. Bootable(t, setup.menu[Items[k]])
      BY <1>3 DEF ItemsOf
    <2>2. PartNumByTag(t, setup.menu[Items[k]].tag) # 0
      BY <1>1, <2>1 DEF Bootable, Chooses
    <2>3. ~(k < 1)
      BY <1>3
    <2> QED
      BY <2>2, <2>3 DEF ChosenRow
  <1>5. a \in 1 .. last /\ t[a].type # Unused
    BY <1>2, <1>4, ChosenRowIs
  <1>6. last \in Nat /\ last <= NumRows /\ last # 0 /\ last \in Rows
    <2>1. last \in 0 .. NumRows /\ NumRows \in Nat
      BY <1>2, LastRowIs, NumberBounds
    <2> HIDE DEF last, a
    <2>2. last # 0 /\ last \in Nat
      BY <1>5, <2>1
    <2> QED
      BY <2>1, <2>2 DEF Rows
  <1>7. ShownRows(k) = Together(a, last, setup.menu[Items[k]].show)
    <2>1. Items # << >> /\ k # -1
      BY <1>3
    <2> QED
      BY <1>4, <1>6, <2>1 DEF ShownRows
  <1>8. OneOf(ShownRows(k), a, last)
    <2> HIDE DEF a, last
    <2> QED
      BY <1>5, <1>6, <1>7, TogetherIs
  <1>9. setup.ignore \/ Straight(t)
    <2>1. CASE ~unreviewed
      BY <2>1 DEF InLine
    <2>2. CASE last # NumRows
      <3>1. last < NumRows /\ last + 1 \in Rows
        <4> HIDE DEF last
        <4> QED
          BY <1>6, <2>2, NumberBounds DEF Rows
      <3>2. t[last + 1].num = 0
        BY <1>2, <3>1, LastRowIs
      <3>3. HasZero(t)
        BY <3>1, <3>2 DEF HasZero
      <3> QED
        BY <3>3 DEF InLine, Lined
    <2> QED
      BY <2>1, <2>2 DEF FilledUp
  <1>10. \E j \in Slots : /\ rows[j].rel = t[a].rel /\ rows[j].num = t[a].num
                          /\ \A h \in Slots : rows[h].active <=> h = j
    <2>1. rows = MadePartTab(t, ShownRows(k), a, setup.ignore)
      BY DEF RowsFor
    <2> HIDE DEF t, a, rows
    <2>2. last = LastRow(t)
      BY DEF t
    <2> HIDE DEF last
    <2> QED
      BY <1>2, <1>5, <1>8, <1>9, <2>1, <2>2, ChosenMade
  <1>11. mbr'.rows = rows /\ started'.what = what /\ started'.item = k
         /\ what \in ActMbrRec(rows)
    <2>1. new.rows = rows /\ Starts(new, k, what, TRUE) /\ what \in ActMbrRec(rows)
      BY <1>1 DEF Chooses
    <2>2. mbr' = new \/ (new = Backup /\ mbr' = mbr)
      BY <2>1 DEF Starts
    <2>3. Backup.rows = mbr.rows
      BY BackupSound
    <2>4. mbr'.rows = rows
      BY <2>1, <2>2, <2>3
    <2> QED
      BY <2>1, <2>4, Started
  <1>12. rows \in [Slots -> Entry]
    <2>1. NewMbr(k, 0) \in Mbr /\ NewMbr(k, 0).rows = rows
      <3>1. k \in Int /\ k >= -1 /\ 0 \in Nat
        BY <1>3
      <3> QED
        BY <3>1, NewMbrSound DEF NewMbr
    <2> QED
      BY <2>1 DEF Mbr
  <1> HIDE DEF t, a, last, rows
  <1>13. PICK j \in Slots : /\ rows[j].rel = t[a].rel /\ rows[j].num = t[a].num
                            /\ \A h \in Slots : rows[h].active <=> h = j
    BY <1>10
  <1>14. Active(rows) = j
    <2>1. Active(rows) # 0 /\ Active(rows) \in Slots
      BY <1>12, <1>13, ActiveIs
    <2>2. rows[Active(rows)].active
      BY <1>12, <2>1, ActiveIs
    <2> QED
      BY <1>13, <2>1, <2>2
  <1>15. what = rows[j]
    <2>1. j # 0
      BY DEF Slots
    <2> QED
      BY <1>11, <1>14, <2>1 DEF ActMbrRec
  <1>16. Place(rows[j]) = Place(t[a])
    BY <1>13, PlacesAre
  <1>17. {h \in Slots : rows[h].active} = {j}
    BY <1>13
  <1>18. t[a] = ram.table[ChosenRow(k)]
    BY DEF t, a
  <1> QED
    BY <1>11, <1>14, <1>15, <1>16, <1>17, <1>18

(* The boot sector that gets control is the one of the chosen item:        *)
(* MAKE_PART_TAB leaves one entry active, and it is that partition.        *)
THEOREM ChosenStarts == Spec => StartsWhatWasChosen
  <1>1. Spec => [](Base /\ InLine)
    BY InitBase, BaseStep, InitInLine, InLineStep, PTL DEF Spec
  <1>2. Base /\ InLine /\ [Next]_vars =>
          ((pc = "menu" /\ pc' = "os" /\ started'.what \notin Devices /\ ~FilledUp) =>
             LET row == mbr'.rows[Active(mbr'.rows)]
             IN  /\ Place(row) = Place(ram.table[ChosenRow(started'.item)])
                 /\ started'.what = row
                 /\ {k \in Slots : mbr'.rows[k].active} = {Active(mbr'.rows)})
    BY StartsChosen
  <1> QED
    BY <1>1, <1>2, PTL DEF Spec, StartsWhatWasChosen

-------------------------------------------------------------------------------
(* A row after an import is what it was, or a partition of the MBR.        *)
Given(p, q, rows) ==
  q = p \/ \E j \in Slots : /\ ImportableType(rows[j]) /\ q.type = rows[j].type
                            /\ q.rel = rows[j].rel /\ q.num = rows[j].num

(* One import, ...                                                         *)
LEMMA ImportsGiven ==
  ASSUME NEW t \in [Rows -> Row], NEW u \in [Rows -> Row], NEW rows,
         NEW k \in Slots, rows[k] \in Entry, Imports(t, u, rows[k], k),
         NEW r \in Rows, NEW p, Given(p, t[r], rows)
  PROVE  Given(p, u[r], rows)
  <1> DEFINE e == rows[k]
  <1>1. e \in Entry /\ Imports(t, u, e, k)
    OBVIOUS
  <1> HIDE DEF e
  <1>2. \/ u[r] = t[r]
        \/ TakesType(t[r], u[r], e)
        \/ IsNew(t[r], u[r], e)
    BY <1>1, ImportedRows
  <1>3. CASE u[r] = t[r]
    BY <1>3
  <1>4. CASE TakesType(t[r], u[r], e) \/ IsNew(t[r], u[r], e)
    <2>1. /\ ImportableType(e) /\ u[r].type = e.type
          /\ u[r].rel = e.rel /\ u[r].num = e.num
      BY <1>4 DEF TakesType, IsNew
    <2> QED
      BY <2>1 DEF Given, e
  <1> QED
    BY <1>2, <1>3, <1>4

(* ... and all four.                                                       *)
LEMMA ImportedGiven ==
  ASSUME NEW t \in [Rows -> Row], NEW rows \in [Slots -> Entry], NEW r \in Rows
  PROVE  Given(t[r], Imported(t, rows)[r], rows)
  <1> DEFINE u == Imported(t, rows)
  <1>1. u \in [Rows -> Row] /\ ImportsAll(t, rows, u)
    BY ImportedIs
  <1> HIDE DEF u
  <1>2. PICK t1, t2, t3 \in [Rows -> Row] :
          /\ Imports(t, t1, rows[1], 1) /\ Imports(t1, t2, rows[2], 2)
          /\ Imports(t2, t3, rows[3], 3) /\ Imports(t3, u, rows[4], 4)
    BY <1>1 DEF ImportsAll
  <1>3. /\ 1 \in Slots /\ 2 \in Slots /\ 3 \in Slots /\ 4 \in Slots
        /\ rows[1] \in Entry /\ rows[2] \in Entry /\ rows[3] \in Entry
        /\ rows[4] \in Entry
    BY DEF Slots
  <1>4. Given(t[r], t[r], rows)
    BY DEF Given
  <1>5. Given(t[r], t1[r], rows)
    BY <1>2, <1>3, <1>4, ImportsGiven
  <1>6. Given(t[r], t2[r], rows)
    BY <1>2, <1>3, <1>5, ImportsGiven
  <1>7. Given(t[r], t3[r], rows)
    BY <1>2, <1>3, <1>6, ImportsGiven
  <1>8. Given(t[r], u[r], rows)
    BY <1>1, <1>2, <1>3, <1>7, ImportsGiven
  <1> QED
    BY <1>8 DEF u

-------------------------------------------------------------------------------
(* A table whose rows are in order.  Holes are the beginnings of used rows *)
(* that no used row ends at: PART.EXE needs an unused row for each.        *)
Begins(t) == {t[r].rel : r \in Used(t)}
Holes(t) == {x \in Begins(t) : x # 1 /\ \A q \in Used(t) : End(t[q]) # x}
FitsIn(t) == Cardinality(Begins(t)) + Cardinality(Holes(t)) <= NumRows
Ordered(t) ==
  /\ \A r \in Rows : t[r].num # 0 => OnDisk(t[r])
  /\ \A q, r \in Rows : q < r /\ t[r].num # 0 => t[q].num # 0 /\ End(t[q]) <= t[r].rel
Tidy(t, ignore) ==
  /\ Ordered(t)
  /\ IF ignore THEN FitsIn(t) /\ \A r \in Rows : t[r].type = Unused => t[r].num = 0
     ELSE Tiled(t)

(* The used rows are finitely many.                                        *)
LEMMA UsedFinite ==
  ASSUME NEW t
  PROVE  /\ IsFiniteSet(Used(t)) /\ IsFiniteSet(Rows \ Used(t))
         /\ Used(t) \subseteq Rows
         /\ Cardinality(Used(t)) \in Nat /\ Cardinality(Rows \ Used(t)) \in Nat
         /\ Cardinality(Used(t)) + Cardinality(Rows \ Used(t)) = NumRows
  <1>1. NumRows \in Nat /\ Rows = 1 .. NumRows
    BY NumberBounds DEF Rows
  <1>2. IsFiniteSet(Rows) /\ Cardinality(Rows) = NumRows
    <2>1. 1 \in Int /\ NumRows \in Int
      BY <1>1
    <2>2. IsFiniteSet(1 .. NumRows)
          /\ Cardinality(1 .. NumRows) = IF 1 > NumRows THEN 0 ELSE NumRows - 1 + 1
      BY <2>1, FS_Interval
    <2>3. NumRows >= 1
      BY TableConstants
    <2> QED
      BY <1>1, <2>2, <2>3
  <1>3. Used(t) \subseteq Rows
    BY DEF Used
  <1>4. IsFiniteSet(Used(t)) /\ IsFiniteSet(Rows \ Used(t))
    BY <1>2, <1>3, FS_Subset
  <1>5. Rows \cap Used(t) = Used(t)
    BY <1>3
  <1>6. Cardinality(Rows \ Used(t)) = Cardinality(Rows) - Cardinality(Rows \cap Used(t))
    BY <1>2, FS_Difference
  <1>7. Cardinality(Used(t)) \in Nat /\ Cardinality(Rows \ Used(t)) \in Nat
    BY <1>4, FS_CardinalityType
  <1> DEFINE u == Cardinality(Used(t))
             v == Cardinality(Rows \ Used(t))
  <1>8. v = NumRows - u /\ u \in Nat /\ v \in Nat
    BY <1>2, <1>5, <1>6, <1>7
  <1> HIDE DEF u, v
  <1>9. u + v = NumRows
    BY <1>1, <1>8
  <1> QED
    BY <1>3, <1>4, <1>7, <1>9 DEF u, v

(* There are not more values than what they are the values of.             *)
LEMMA ValuesOf ==
  ASSUME NEW S, IsFiniteSet(S), NEW f, NEW T, T \subseteq {f[x] : x \in S}
  PROVE  /\ IsFiniteSet(T) /\ Cardinality(T) \in Nat
         /\ Cardinality(T) <= Cardinality(S)
  <1> DEFINE V == {f[x] : x \in S}
             g == [x \in S |-> f[x]]
  <1>1. g \in Surjection(S, V)
    <2>1. g \in [S -> V]
      OBVIOUS
    <2>2. \A y \in V : \E x \in S : g[x] = y
      OBVIOUS
    <2> QED
      BY <2>1, <2>2 DEF Surjection
  <1> HIDE DEF g
  <1>2. IsFiniteSet(V) /\ Cardinality(V) <= Cardinality(S)
    BY <1>1, FS_Surjection
  <1>3. T \in SUBSET V
    OBVIOUS
  <1> HIDE DEF V
  <1>4. IsFiniteSet(T) /\ Cardinality(T) <= Cardinality(V)
    BY <1>2, <1>3, FS_Subset
  <1>5. Cardinality(T) \in Nat /\ Cardinality(V) \in Nat /\ Cardinality(S) \in Nat
    BY <1>2, <1>4, FS_CardinalityType
  <1> QED
    BY <1>2, <1>4, <1>5

(* So are the beginnings, and the holes.                                   *)
LEMMA StartsFinite ==
  ASSUME NEW t
  PROVE  /\ IsFiniteSet(Begins(t)) /\ IsFiniteSet(Holes(t))
         /\ Cardinality(Begins(t)) \in Nat /\ Cardinality(Holes(t)) \in Nat
         /\ Cardinality(Begins(t)) <= Cardinality(Used(t))
  <1> DEFINE f == [r \in Used(t) |-> t[r].rel]
  <1>1. Begins(t) \subseteq {f[r] : r \in Used(t)}
    BY DEF Begins
  <1> HIDE DEF f
  <1>2. IsFiniteSet(Begins(t)) /\ Cardinality(Begins(t)) \in Nat
        /\ Cardinality(Begins(t)) <= Cardinality(Used(t))
    BY <1>1, UsedFinite, ValuesOf
  <1>3. Holes(t) \in SUBSET Begins(t)
    BY DEF Holes
  <1>4. IsFiniteSet(Holes(t))
    BY <1>2, <1>3, FS_Subset
  <1>5. Cardinality(Holes(t)) \in Nat
    BY <1>4, FS_CardinalityType
  <1> QED
    BY <1>2, <1>4, <1>5

(* Where the gaps have rows of their own, there is a row for each hole.    *)
LEMMA TiledFits ==
  ASSUME NEW t \in [Rows -> Row], Tiled(t), UsedOnDisk(t)
  PROVE  FitsIn(t)
  <1> DEFINE S == Rows \ Used(t)
             f == [r \in S |-> End(t[r])]
  <1>1. Rows = 1 .. NumRows /\ NumRows \in Nat
    BY NumberBounds DEF Rows
  <1>2. ASSUME NEW x \in Holes(t)
        PROVE  \E y \in S : f[y] = x
    <2>1. PICK r \in Used(t) : t[r].rel = x
      BY DEF Holes, Begins
    <2>2. r \in Rows /\ t[r].num # 0
      BY <2>1 DEF Used, UsedOnDisk, OnDisk
    <2>3. x # 1 /\ \A q \in Used(t) : End(t[q]) # x
      BY DEF Holes
    <2>4. r # 1
      BY <2>1, <2>2, <2>3 DEF Tiled
    <2>5. r - 1 \in Rows /\ (r - 1) + 1 = r
      BY <1>1, <2>2, <2>4
    <2>6. t[r].rel = End(t[r - 1])
      BY <2>2, <2>5 DEF Tiled
    <2>7. r - 1 \in S
      BY <2>1, <2>3, <2>5, <2>6
    <2>8. f[r - 1] = x
      BY <2>1, <2>6, <2>7
    <2> QED
      BY <2>7, <2>8
  <1>3. Holes(t) \subseteq {f[y] : y \in S}
    BY <1>2
  <1>4. IsFiniteSet(S)
    BY UsedFinite
  <1> HIDE DEF f
  <1>5. Cardinality(Holes(t)) <= Cardinality(S)
    BY <1>3, <1>4, ValuesOf
  <1> DEFINE a == Cardinality(Begins(t))
             b == Cardinality(Holes(t))
             c == Cardinality(Used(t))
             d == Cardinality(S)
  <1>6. a \in Nat /\ b \in Nat /\ c \in Nat /\ d \in Nat /\ a <= c /\ b <= d
        /\ c + d = NumRows
    BY <1>5, StartsFinite, UsedFinite
  <1> HIDE DEF a, b, c, d
  <1>7. a + b <= NumRows
    BY <1>1, <1>6
  <1> QED
    BY <1>7 DEF FitsIn, a, b

(* Tables with the same used rows have the same holes.                     *)
UsedIn(t, u) ==
  \A r \in Used(t) : \E s \in Used(u) : u[s].rel = t[r].rel /\ u[s].num = t[r].num

(* ... and the same order, if the places are the same.                     *)
LEMMA SameHoles ==
  ASSUME NEW t, NEW u, UsedIn(t, u), UsedIn(u, t)
  PROVE  Begins(t) = Begins(u) /\ Holes(t) = Holes(u)
  <1>1. ASSUME NEW a, NEW b, UsedIn(a, b), NEW x \in Begins(a)
        PROVE  x \in Begins(b)
    <2>1. PICK r \in Used(a) : a[r].rel = x
      BY <1>1 DEF Begins
    <2>2. PICK s \in Used(b) : b[s].rel = a[r].rel
      BY <1>1 DEF UsedIn
    <2> QED
      BY <2>1, <2>2 DEF Begins
  <1>2. ASSUME NEW a, NEW b, UsedIn(a, b), UsedIn(b, a), NEW x \in Holes(a)
        PROVE  x \in Holes(b)
    <2>1. x \in Begins(b) /\ x # 1 /\ \A q \in Used(a) : End(a[q]) # x
      BY <1>1, <1>2 DEF Holes
    <2>2. ASSUME NEW q \in Used(b) PROVE End(b[q]) # x
      <3>1. PICK r \in Used(a) : a[r].rel = b[q].rel /\ a[r].num = b[q].num
        BY <1>2 DEF UsedIn
      <3>2. End(a[r]) = End(b[q])
        BY <3>1 DEF End
      <3> QED
        BY <2>1, <3>2
    <2> QED
      BY <2>1, <2>2 DEF Holes
  <1>3. Begins(t) \subseteq Begins(u) /\ Begins(u) \subseteq Begins(t)
    BY <1>1
  <1>4. Holes(t) \subseteq Holes(u) /\ Holes(u) \subseteq Holes(t)
    BY <1>2
  <1> QED
    BY <1>3, <1>4

(* Compaction keeps a table in order.                                      *)
LEMMA CompactedTidy ==
  ASSUME NEW t \in [Rows -> Row], UsedOnDisk(t), Ordered(t), Tiled(t), Single(t)
  PROVE  Tidy(Compacted(t), TRUE)
  <1> DEFINE u == Compacted(t)
  <1>1. u \in [Rows -> Row] /\ LeftOf(u, t) /\ CleanUpTo(u, NumRows)
    BY CompactedKeeps
  <1>n. NoRow.type = Unused /\ NoRow.num = 0
    BY DEF NoRow
  <1> HIDE DEF u
  <1>2. Ordered(u)
    <2>1. ASSUME NEW r \in Rows, u[r].num # 0 PROVE OnDisk(u[r])
      BY <1>1, <1>n, <2>1 DEF LeftOf, Ordered
    <2>2. ASSUME NEW q \in Rows, NEW r \in Rows, q < r, u[r].num # 0
          PROVE  u[q].num # 0 /\ End(u[q]) <= u[r].rel
      <3>1. u[r] # NoRow
        BY <1>n, <2>2
      <3>2. PICK x, y \in Rows : x < y /\ u[q] = t[x] /\ u[r] = t[y]
        BY <1>1, <2>2, <3>1 DEF LeftOf
      <3> QED
        BY <2>2, <3>2 DEF Ordered
    <2> QED
      BY <2>1, <2>2 DEF Ordered
  <1>3. UsedIn(t, u)
    BY <1>1 DEF UsedIn, LeftOf, Used
  <1>4. UsedIn(u, t)
    BY <1>1, <1>n DEF UsedIn, LeftOf, Used
  <1>5. FitsIn(u)
    <2>1. FitsIn(t)
      BY TiledFits
    <2> QED
      BY <1>3, <1>4, <2>1, SameHoles DEF FitsIn
  <1>6. \A r \in Rows : u[r].type = Unused => u[r].num = 0
    BY <1>1 DEF CleanUpTo, Rows
  <1> QED
    BY <1>2, <1>5, <1>6 DEF Tidy, u

(* An arranged table is in order.                                          *)
LEMMA AdjustedOrdered ==
  ASSUME NEW t \in [Rows -> Row], UsedOnDisk(t), SoundRows(Adjusted(t))
  PROVE  /\ Adjusted(t) \in [Rows -> Row]
         /\ Ordered(Adjusted(t)) /\ Tiled(Adjusted(t)) /\ Single(Adjusted(t))
         /\ UsedOnDisk(Adjusted(t))
  <1> DEFINE u == Adjusted(t)
  <1>1. PICK l : Shape(u, t, l)
    BY AdjustedShape
  <1>2. Tiled(u)
    BY AdjustedShape
  <1> HIDE DEF u
  <1>3. /\ u \in [Rows -> Row] /\ l \in 0 .. NumRows /\ Rows = 1 .. NumRows
        /\ NumRows \in Nat /\ \A r \in Rows : r <= l \/ r > l
    BY <1>1, NumberBounds DEF Rows, Shape
  <1>4. ASSUME NEW r \in Rows, u[r].num # 0 \/ u[r].type # Unused
        PROVE  OnDisk(u[r]) /\ r <= l + 1
    <2>1. CASE r <= l
      BY <1>1, <1>3, <2>1 DEF Shape
    <2>2. CASE r > l
      <3>1. u[r].num # 0
        BY <1>1, <1>4, <2>2 DEF Shape
      <3>2. r = l + 1 /\ OnDisk(u[r])
        BY <1>1, <2>2, <3>1 DEF Shape
      <3> QED
        BY <1>3, <3>2
    <2> QED
      BY <1>3, <2>1, <2>2
  <1>5. ASSUME NEW q \in Rows, NEW r \in Rows, q < r, u[r].num # 0
        PROVE  u[q].num # 0 /\ End(u[q]) <= u[r].rel
    <2>1. r <= l + 1
      BY <1>4, <1>5
    <2>2. q <= l
      BY <1>3, <1>5, <2>1
    <2>3. OnDisk(u[q])
      BY <1>1, <2>2 DEF Shape
    <2>4. u[q].num # 0
      BY <1>3, <2>3, RowFields DEF OnDisk
    <2> QED
      BY <1>2, <1>5, <2>4 DEF Tiled
  <1>6. Ordered(u)
    BY <1>4, <1>5 DEF Ordered
  <1>7. Single(u)
    BY <1>1 DEF Shape, Single
  <1>8. UsedOnDisk(u)
    BY <1>4 DEF UsedOnDisk
  <1> QED
    BY <1>2, <1>3, <1>6, <1>7, <1>8 DEF u

(* What PART.EXE saves is in order.                                        *)
LEMMA SavedTidy ==
  ASSUME NEW t \in [Rows -> Row], UsedOnDisk(t), HasManager(t),
         ValidTable(Arranged(t)), NEW ignore \in BOOLEAN
  PROVE  Tidy(Saved(t, ignore), ignore)
  <1>1. Arranged(t) = Adjusted(t)
    BY ManagerStays DEF Arranged
  <1>2. SoundRows(Adjusted(t))
    BY <1>1 DEF ValidTable
  <1> DEFINE u == Adjusted(t)
  <1>3. /\ u \in [Rows -> Row] /\ Ordered(u) /\ Tiled(u) /\ Single(u)
        /\ UsedOnDisk(u)
    BY <1>2, AdjustedOrdered
  <1> HIDE DEF u
  <1>4. Saved(t, ignore) = IF ignore THEN Compacted(u) ELSE u
    BY <1>1 DEF Saved, u
  <1>5. CASE ignore
    <2>1. Tidy(Compacted(u), TRUE)
      BY <1>3, CompactedTidy
    <2> QED
      BY <1>4, <1>5, <2>1
  <1>6. CASE ~ignore
    BY <1>3, <1>4, <1>6 DEF Tidy
  <1> QED
    BY <1>5, <1>6

-------------------------------------------------------------------------------
(* If there is an unused row for each hole, no row is given another place. *)
Roomy(acc, s, t, k) ==
  /\ ~acc.full /\ acc.start >= 1
  /\ \A q \in 1 .. k : End(s[q]) <= acc.start
  /\ \E G \in SUBSET Holes(t) : /\ Cardinality(G) = NumRows - acc.spare
                                /\ \A x \in G : x < acc.start
Fits2(t) == Cardinality(Used(t)) + Cardinality(Holes(t)) <= NumRows
SortedAs(s, n, t) ==
  /\ s \in [Rows -> Row] /\ Arrangeable(s, n) /\ InOrder(s, n)
  /\ \A q \in 1 .. n : \E r \in Used(t) : s[q] = t[r]
  /\ \A r \in Used(t) : \E q \in 1 .. n : s[q] = t[r]

(* The loop meets a gap only at a hole.                                    *)
LEMMA AtHole ==
  ASSUME NEW t, NEW n \in 0 .. NumRows, NEW s, SortedAs(s, n, t), NEW acc,
         NEW k \in 1 .. n, acc.start \in Nat, Roomy(acc, s, t, k - 1),
         s[k].rel > acc.start
  PROVE  s[k].rel \in Holes(t)
  <1>1. k \in Rows /\ s[k].rel \in Nat /\ 1 .. n \subseteq Rows
    <2>1. 1 .. n \subseteq Rows
      BY NumberBounds DEF Rows
    <2> QED
      BY <2>1, RowFields DEF SortedAs
  <1>2. s[k].rel \in Begins(t)
    BY DEF SortedAs, Begins
  <1>3. s[k].rel # 1
    BY <1>1 DEF Roomy
  <1>4. ASSUME NEW r \in Used(t) PROVE End(t[r]) # s[k].rel
    <2>1. PICK q \in 1 .. n : s[q] = t[r]
      BY DEF SortedAs
    <2>2. q \in Rows /\ s[q].rel \in Nat /\ s[q].num \in Nat /\ s[q].num >= 1
      BY <1>1, RowFields DEF SortedAs, Arrangeable, OnDisk
    <2>3. CASE q < k
      <3>1. q \in 1 .. k - 1
        BY <2>3
      <3>2. End(s[q]) <= acc.start
        BY <3>1 DEF Roomy
      <3> QED
        BY <1>1, <2>1, <2>2, <3>2 DEF End
    <2>4. CASE ~(q < k)
      <3>1. s[k].rel <= s[q].rel
        <4>1. CASE q = k
          BY <2>2, <4>1
        <4>2. CASE q # k
          <5>1. k < q
            BY <2>4, <4>2
          <5> QED
            BY <5>1 DEF SortedAs, InOrder
        <4> QED
          BY <4>1, <4>2
      <3> QED
        BY <1>1, <2>1, <2>2, <3>1 DEF End
    <2> QED
      BY <2>3, <2>4
  <1> QED
    BY <1>2, <1>3, <1>4 DEF Holes

(* One turn takes no more unused rows than there are holes.                *)
LEMMA RoomyTurn ==
  ASSUME NEW t, Fits2(t), NEW n, n = Cardinality(Used(t)), n \in 0 .. NumRows,
         NEW s, SortedAs(s, n, t), NEW acc \in Filling(n), NEW new \in Filling(n),
         NEW k \in 1 .. n, Roomy(acc, s, t, k - 1), Turn(acc, new, s, n, k)
  PROVE  Roomy(new, s, t, k)
  <1> DEFINE p == s[k]
             h == Cardinality(Holes(t))
  <1>1. /\ acc.start \in Nat /\ acc.spare \in n .. NumRows /\ new.start \in Nat
        /\ NumRows \in Nat /\ n \in Nat /\ acc.spare \in Nat
    BY NumberBounds DEF Filling
  <1>2. p.rel \in Nat /\ p.num \in Nat /\ p.num >= 1
    <2>1. k \in Rows
      BY NumberBounds DEF Rows
    <2> QED
      BY <2>1, RowFields DEF SortedAs, Arrangeable, OnDisk
  <1>3. PICK G \in SUBSET Holes(t) : /\ Cardinality(G) = NumRows - acc.spare
                                     /\ \A x \in G : x < acc.start
    BY DEF Roomy
  <1>4. \A q \in 1 .. k - 1 : End(s[q]) <= acc.start /\ End(s[q]) \in Nat
    <2> TAKE q \in 1 .. k - 1
    <2>1. q \in Rows
      BY NumberBounds DEF Rows
    <2>2. End(s[q]) \in Nat
      BY <2>1, RowFields DEF SortedAs, End
    <2> QED
      BY <2>2 DEF Roomy
  <1>5. \A q \in 1 .. k : q \in 1 .. k - 1 \/ q = k
    OBVIOUS
  <1>6. IsFiniteSet(Holes(t)) /\ h \in Nat /\ n + h <= NumRows
    BY StartsFinite DEF Fits2
  <1>7. \A x \in G : x \in Nat
    <2>1. \A r \in Used(t) : t[r].rel \in Nat
      <3>1. 1 .. n \subseteq Rows
        BY NumberBounds DEF Rows
      <3> QED
        BY <3>1, RowFields DEF SortedAs
    <2> QED
      BY <2>1 DEF Holes, Begins
  <1>8. ~acc.full /\ acc.start >= 1
    BY DEF Roomy
  <1>9. End(p) = p.rel + p.num /\ Holes(t) = Holes(t)
    BY DEF End
  <1> HIDE DEF h
  <1>10. CASE Joins(acc, new, s[k])
    <2>1. /\ ~new.full /\ new.spare = acc.spare
          /\ new.start = Later(acc.start, p.rel + p.num)
      BY <1>10 DEF Joins
    <2> HIDE DEF p
    <2>2. new.start >= acc.start /\ new.start >= End(p)
      BY <1>1, <1>2, <1>9, <2>1 DEF Later
    <2>3. \A q \in 1 .. k : End(s[q]) <= new.start
      BY <1>1, <1>4, <1>5, <2>2 DEF p
    <2>4. \A x \in G : x < new.start
      BY <1>1, <1>3, <1>7, <2>2
    <2>5. new.start >= 1
      BY <1>1, <1>8, <2>2
    <2> QED
      BY <1>3, <2>1, <2>3, <2>4, <2>5 DEF Roomy
  <1>11. ASSUME p.rel > acc.start
         PROVE  /\ acc.spare # n
                /\ \E H \in SUBSET Holes(t) :
                     /\ Cardinality(H) = NumRows - (acc.spare - 1)
                     /\ \A x \in H : x <= p.rel
    <2>1. p.rel \in Holes(t)
      BY <1>1, <1>11, AtHole
    <2> DEFINE H == G \cup {p.rel}
    <2>2. p.rel \notin G
      BY <1>1, <1>2, <1>3, <1>7, <1>11
    <2>3. IsFiniteSet(G)
      BY <1>6, FS_Subset
    <2>4. Cardinality(H) = Cardinality(G) + 1
      BY <2>2, <2>3, FS_AddElement
    <2>5. H \in SUBSET Holes(t)
      BY <2>1
    <2>6. \A x \in H : x <= p.rel
      BY <1>1, <1>2, <1>3, <1>7, <1>11
    <2> HIDE DEF H
    <2>7. Cardinality(H) <= h
      BY <1>6, <2>5, FS_Subset DEF h
    <2>8. Cardinality(H) = NumRows - (acc.spare - 1)
      BY <1>1, <1>3, <2>4
    <2>9. acc.spare # n
      <3> DEFINE c == Cardinality(H)
      <3>1. c <= h /\ c = NumRows - (acc.spare - 1)
        BY <2>7, <2>8
      <3> HIDE DEF c
      <3> QED
        BY <1>1, <1>6, <3>1
    <2> QED
      BY <2>5, <2>6, <2>8, <2>9
  <1>12. ~Goes(acc, new, s[k])
    BY <1>8 DEF Goes
  <1>13. ~Fills(acc, new, n, s[k], Filler(acc, s[k]))
    BY <1>11 DEF Fills
  <1>14. CASE LeavesGap(acc, new, n, GapBefore(acc, s, s[k]), s[k])
    <2>1. /\ ~new.full /\ p.rel > acc.start /\ new.start = p.rel + p.num
          /\ new.spare = acc.spare - 1
      BY <1>14 DEF LeavesGap
    <2>2. PICK H \in SUBSET Holes(t) : /\ Cardinality(H) = NumRows - (acc.spare - 1)
                                       /\ \A x \in H : x <= p.rel
      BY <1>11, <2>1
    <2>3. \A x \in H : x \in Nat
      <3>1. \A r \in Used(t) : t[r].rel \in Nat
        <4>1. 1 .. n \subseteq Rows
          BY NumberBounds DEF Rows
        <4> QED
          BY <4>1, RowFields DEF SortedAs
      <3> QED
        BY <3>1 DEF Holes, Begins
    <2> HIDE DEF p
    <2>4. \A x \in H : x < new.start
      BY <1>2, <2>1, <2>2, <2>3
    <2>5. \A q \in 1 .. k : End(s[q]) <= new.start
      <3> TAKE q \in 1 .. k
      <3>1. CASE q = k
        BY <1>1, <1>2, <1>9, <2>1, <3>1 DEF p
      <3>2. CASE q # k
        BY <1>1, <1>2, <1>4, <1>5, <2>1, <3>2
      <3> QED
        BY <3>1, <3>2
    <2>6. new.start >= 1
      BY <1>1, <1>2, <2>1
    <2>7. Cardinality(H) = NumRows - new.spare
      BY <2>1, <2>2
    <2> QED
      BY <2>1, <2>4, <2>5, <2>6, <2>7 DEF Roomy
  <1> QED
    BY <1>10, <1>12, <1>13, <1>14 DEF Turn

(* A sorted table has the used rows in order.                              *)
LEMMA SortedIsAs ==
  ASSUME NEW t \in [Rows -> Row], UsedOnDisk(t)
  PROVE  SortedAs(Sorted(t), Cardinality(Used(t)), t)
  <1> DEFINE s == Sorted(t)
             n == Cardinality(Used(t))
  <1>1. /\ s \in [Rows -> Row] /\ Arrangeable(s, n) /\ InOrder(s, n)
        /\ \A k \in Rows : \E q \in Rows : s[k] = t[q]
        /\ \A q \in Rows : \E k \in Rows : s[k] = t[q]
    BY SortedType, SortedFacts
  <1>2. n \in 0 .. NumRows /\ \A k \in Rows : s[k].type # Unused <=> k <= n
    BY UsedFirst
  <1> HIDE DEF s, n
  <1>3. Rows = 1 .. NumRows /\ NumRows \in Nat
    BY NumberBounds DEF Rows
  <1>4. \A q \in 1 .. n : \E r \in Used(t) : s[q] = t[r]
    <2> TAKE q \in 1 .. n
    <2>1. q \in Rows /\ q <= n
      BY <1>2, <1>3
    <2>2. PICK r \in Rows : s[q] = t[r]
      BY <1>1, <2>1
    <2>3. r \in Used(t)
      BY <1>2, <2>1, <2>2 DEF Used
    <2> QED
      BY <2>2, <2>3
  <1>5. \A r \in Used(t) : \E q \in 1 .. n : s[q] = t[r]
    <2> TAKE r \in Used(t)
    <2>1. r \in Rows /\ t[r].type # Unused
      BY DEF Used
    <2>2. PICK q \in Rows : s[q] = t[r]
      BY <1>1, <2>1
    <2>3. q <= n
      BY <1>2, <2>1, <2>2
    <2>4. q \in 1 .. n
      BY <1>2, <1>3, <2>2, <2>3
    <2> QED
      BY <2>2, <2>4
  <1> QED
    BY <1>1, <1>4, <1>5 DEF SortedAs, s, n

(* With rows for all gaps the adjustment moves and resizes no used row.    *)
LEMMA StaysPut ==
  ASSUME NEW t \in [Rows -> Row], UsedOnDisk(t), Fits2(t), NEW r \in Rows,
         Adjusted(t)[r].type # Unused
  PROVE  \E q \in Rows : Adjusted(t)[r] = t[q]
  <1>1. PICK n, after : FillSteps(t, n, after) /\ Completes(Adjusted(t), t, n, after[n])
    BY AdjustedSteps
  <1> DEFINE s == Sorted(t)
             G == {k \in 0 .. n : Roomy(after[k], s, t, k)}
  <1>2. /\ n = Cardinality(Used(t)) /\ n \in 0 .. NumRows /\ n \in Nat
        /\ after[0] = NoneYet
        /\ \A k \in 0 .. n : after[k] \in Filling(n)
        /\ \A k \in 1 .. n : after[k] = Placed(after[k - 1], s, n, k)
    BY <1>1, NumberBounds DEF FillSteps
  <1>3. SortedAs(s, n, t) /\ s \in [Rows -> Row]
    BY <1>2, SortedIsAs DEF SortedAs
  <1>4. Basic(after[n], s, n)
    BY <1>1, <1>2, BasicAll
  <1> HIDE DEF s
  <1>5. 0 \in G
    <2>1. NoneYet.start = 1 /\ ~NoneYet.full /\ NoneYet.spare = NumRows
          /\ NoneYet.full = FALSE
      BY DEF NoneYet
    <2>2. {} \in SUBSET Holes(t) /\ Cardinality({}) = NumRows - NumRows
      BY FS_EmptySet, NumberBounds
    <2>3. Roomy(NoneYet, s, t, 0)
      BY <2>1, <2>2 DEF Roomy
    <2> QED
      BY <1>2, <2>3
  <1>6. ASSUME NEW k \in 1 .. n, k - 1 \in G PROVE k \in G
    <2>1. k - 1 \in 0 .. n /\ k \in 0 .. n
      BY <1>2
    <2>2. Roomy(after[k - 1], s, t, k - 1)
      BY <1>6
    <2>3. after[k - 1] \in Filling(n) /\ after[k] \in Filling(n)
      BY <1>2, <2>1
    <2>4. Turn(after[k - 1], after[k], s, n, k)
      BY <1>2, <1>3, <2>3, PlacedTurn
    <2>5. Roomy(after[k], s, t, k)
      BY <1>2, <1>3, <2>2, <2>3, <2>4, RoomyTurn
    <2> QED
      BY <2>1, <2>5
  <1> HIDE DEF G
  <1>7. \A i \in 0 .. n : i \in G
    BY <1>2, <1>5, <1>6, Turns
  <1>8. ~after[n].full
    <2>1. n \in G
      BY <1>2, <1>7
    <2> QED
      BY <2>1 DEF Roomy, G
  <1> DEFINE end == after[n]
             u == Adjusted(t)
  <1>9. \A i \in 1 .. Len(end.rows) : end.rows[i].type # Unused =>
             \E q \in 1 .. n : end.rows[i] = s[q]
    BY <1>4, <1>8 DEF Basic
  <1>10. end \in Filling(n) /\ Completes(u, t, n, end)
    BY <1>1, <1>2
  <1> HIDE DEF end
  <1>11. CASE r <= Len(end.rows)
    <2>1. u[r] = end.rows[r]
      BY <1>10, <1>11 DEF Completes
    <2>2. Len(end.rows) \in Nat
      BY <1>10 DEF Filling
    <2>3. r \in 1 .. Len(end.rows)
      BY <1>11, <2>2, NumberBounds DEF Rows
    <2>4. PICK q \in 1 .. n : end.rows[r] = s[q]
      BY <1>9, <2>1, <2>3
    <2>5. PICK x \in Used(t) : s[q] = t[x]
      BY <1>3 DEF SortedAs
    <2> QED
      BY <2>1, <2>4, <2>5 DEF Used
  <1>12. CASE ~(r <= Len(end.rows))
    <2>1. Len(end.rows) \in Nat /\ r \in Nat
      BY <1>10, NumberBounds DEF Filling, Rows
    <2> DEFINE k == r - Len(end.rows)
    <2>2. r > Len(end.rows)
      BY <1>12, <2>1
    <2>3. k \in 1 .. end.spare - n /\ n + k \in Rows /\ u[r] = LeftOver(t, n, end, k)
      BY <1>10, <2>2 DEF Completes
    <2>4. k >= 1
      BY <2>3
    <2> HIDE DEF k
    <2>5. s[n + k].type = Unused
      <3>1. n + k > n
        BY <1>2, <2>3, <2>4
      <3> QED
        BY <1>3, <2>3, <3>1 DEF SortedAs, Arrangeable
    <2>6. \A a, b : Gap(s[n + k], a, b).type = Unused
      <3>1. s[n + k] \in Row
        BY <1>3, <2>3
      <3> QED
        BY <2>5, <3>1 DEF Gap, Row
    <2>7. u[r].type = Unused
      BY <2>3, <2>6 DEF LeftOver, s
    <2> QED
      BY <2>7
  <1> QED
    BY <1>11, <1>12

(* Of rows that are in order no two begin at the same place, ...           *)
LEMMA OrderedStarts ==
  ASSUME NEW t \in [Rows -> Row], Ordered(t), UsedOnDisk(t)
  PROVE  Cardinality(Used(t)) <= Cardinality(Begins(t))
  <1> DEFINE f == [r \in Used(t) |-> t[r].rel]
  <1>1. f \in [Used(t) -> Begins(t)]
    BY DEF Begins
  <1>2. ASSUME NEW q \in Used(t), NEW r \in Used(t), f[q] = f[r]
        PROVE  q = r
    <2>1. /\ q \in Rows /\ r \in Rows /\ t[q].num >= 1 /\ t[r].num >= 1
          /\ t[q].rel = t[r].rel /\ q \in Nat /\ r \in Nat
          /\ t[q].rel \in Nat /\ t[q].num \in Nat /\ t[r].num \in Nat
      BY <1>2, RowFields, NumberBounds DEF Used, UsedOnDisk, OnDisk, Rows
    <2>2. ASSUME q < r PROVE FALSE
      <3>1. t[r].num # 0
        BY <2>1
      <3>2. End(t[q]) <= t[r].rel
        BY <2>1, <2>2, <3>1 DEF Ordered
      <3> QED
        BY <2>1, <3>2 DEF End
    <2>3. ASSUME r < q PROVE FALSE
      <3>1. t[q].num # 0
        BY <2>1
      <3>2. End(t[r]) <= t[q].rel
        BY <2>1, <2>3, <3>1 DEF Ordered
      <3> QED
        BY <2>1, <3>2 DEF End
    <2> QED
      BY <2>1, <2>2, <2>3
  <1> HIDE DEF f
  <1>3. f \in Injection(Used(t), Begins(t))
    BY <1>1, <1>2 DEF Injection, IsInjective
  <1> QED
    BY <1>3, FS_Injection, StartsFinite

(* ... and so there are rows for all gaps when a partition is given up.    *)
LEMMA KeptFits ==
  ASSUME NEW t \in [Rows -> Row], Ordered(t), UsedOnDisk(t), FitsIn(t), NEW drop,
         drop \in SUBSET {r \in Rows : t[r].type \in OsTypes}, Cardinality(drop) <= 1
  PROVE  Fits2(Kept(t, drop))
  <1> DEFINE u == Kept(t, drop)
             H == Holes(t)
             a == Cardinality(Used(t))
             b == Cardinality(Begins(t))
             h == Cardinality(H)
  <1>1. a <= b /\ b + h <= NumRows /\ a \in Nat /\ b \in Nat /\ h \in Nat
        /\ NumRows \in Nat
    BY OrderedStarts, StartsFinite, UsedFinite, NumberBounds DEF FitsIn
  <1>2. IsFiniteSet(drop) /\ Cardinality(drop) \in Nat
    <2>1. drop \in SUBSET Rows /\ IsFiniteSet(Rows)
      BY NumberBounds, FS_Interval DEF Rows
    <2> QED
      BY <2>1, FS_Subset, FS_CardinalityType
  <1>3. \A r \in Rows : u[r] = IF r \in drop THEN NoRow ELSE t[r]
    BY DEF Kept
  <1>4. NoRow.type = Unused
    BY NoRowType
  <1>5. Used(u) = Used(t) \ drop
    BY <1>3, <1>4 DEF Used
  <1>6. drop \subseteq Used(t)
    BY TypesApart DEF Used
  <1>7. \A r \in Used(u) : u[r] = t[r] /\ r \in Used(t)
    BY <1>3, <1>5 DEF Used
  <1> HIDE DEF u
  <1>8. Begins(u) \subseteq Begins(t)
    BY <1>7 DEF Begins
  <1>9. CASE drop = {}
    <2>1. Used(u) = Used(t)
      BY <1>5, <1>9
    <2>2. Holes(u) = Holes(t)
      <3>1. \A r \in Used(t) : u[r] = t[r]
        BY <1>7, <2>1
      <3> QED
        BY <2>1, <3>1 DEF Holes, Begins
    <2> HIDE DEF a, b, h
    <2>3. a + h <= NumRows
      BY <1>1
    <2> QED
      BY <2>1, <2>2, <2>3 DEF Fits2, u, a, h
  <1>10. CASE drop # {}
    <2>1. PICK d : drop = {d}
      <3>1. PICK d : d \in drop
        BY <1>10
      <3>2. Cardinality({d}) = 1 /\ IsFiniteSet({d})
        BY FS_Singleton
      <3>3. drop = {d}
        <4>1. {d} \in SUBSET drop
          BY <3>1
        <4>2. Cardinality({d}) = Cardinality(drop) => {d} = drop
          BY <1>2, <4>1, FS_Subset
        <4>3. Cardinality({d}) <= Cardinality(drop)
          BY <1>2, <4>1, FS_Subset
        <4> QED
          BY <1>2, <3>2, <4>2, <4>3
      <3> QED
        BY <3>3
    <2>2. d \in Used(t) /\ IsFiniteSet(Used(t)) /\ Used(u) = Used(t) \ {d}
      BY <1>5, <1>6, <2>1, UsedFinite
    <2>3. Cardinality(Used(u)) = a - 1
      BY <2>2, FS_RemoveElement
    <2>4. Holes(u) \subseteq H \cup {End(t[d])}
      <3>1. ASSUME NEW x \in Holes(u), x # End(t[d])
            PROVE  x \in H
        <4>1. x \in Begins(t) /\ x # 1
          BY <1>8 DEF Holes
        <4>2. ASSUME NEW q \in Used(t) PROVE End(t[q]) # x
          <5>1. CASE q = d
            BY <3>1, <5>1
          <5>2. CASE q # d
            <6>1. q \in Used(u) /\ u[q] = t[q]
              BY <1>7, <2>2, <5>2
            <6> QED
              BY <6>1 DEF Holes
          <5> QED
            BY <5>1, <5>2
        <4> QED
          BY <4>1, <4>2 DEF Holes
      <3> QED
        BY <3>1
    <2> DEFINE K == H \cup {End(t[d])}
               c == Cardinality(Holes(u))
    <2>5. IsFiniteSet(H)
      BY StartsFinite
    <2>6. IsFiniteSet(K) /\ (Cardinality(K) = h \/ Cardinality(K) = h + 1)
      BY <2>5, FS_AddElement
    <2>7. IsFiniteSet(K)
      BY <2>5, FS_AddElement
    <2>8. Holes(u) \in SUBSET K
      BY <2>4
    <2> HIDE DEF K
    <2>9. c <= Cardinality(K) /\ c \in Nat
      BY <2>7, <2>8, FS_Subset, StartsFinite
    <2> DEFINE k == Cardinality(K)
    <2>10. c <= k /\ (k = h \/ k = h + 1)
      BY <2>6, <2>9
    <2> HIDE DEF a, b, h, c, k
    <2>11. (a - 1) + c <= NumRows
      BY <1>1, <2>9, <2>10
    <2> QED
      BY <2>3, <2>11 DEF Fits2, c, u
  <1> QED
    BY <1>9, <1>10

-------------------------------------------------------------------------------
(* A row lies inside a piece of the MBR, ...                               *)
Inside(x, p) == p.type # Unused /\ p.rel <= x.rel /\ End(x) <= End(p)
InSome(x, out) == \E i \in 1 .. Len(out) : Inside(x, out[i])

(* ... and as far as they have been shown, the used rows all do.           *)
CoversTo(acc, t) ==
  /\ acc.prev = 0 => acc.cur = t[1].rel
  /\ acc.prev # 0 => t[acc.prev].num # 0 /\ acc.cur = End(t[acc.prev])
  /\ \A q \in Used(t) : q <= acc.prev => InSome(t[q], acc.out)

(* A push that has room keeps what is covered.                             *)
LEMMA PushedSome ==
  ASSUME NEW old \in FourOf(PieceSet), NEW new \in FourOf(PieceSet), NEW p,
         Pushed(new, old, p), NEW x
  PROVE  /\ InSome(x, old) => InSome(x, new)
         /\ Len(old) # 4 /\ Inside(x, p) => InSome(x, new)
  <1> DEFINE n == Len(old)
  <1>1. n \in Nat
    BY DEF FourOf
  <1>2. CASE new = old /\ n = 4
    BY <1>2
  <1>3. CASE n # 4
    <2>1. Len(new) = n + 1 /\ new[n + 1] = p /\ \A i \in 1 .. n : new[i] = old[i]
      BY <1>3 DEF Pushed
    <2> HIDE DEF n
    <2>2. n + 1 \in 1 .. Len(new) /\ 1 .. n \subseteq 1 .. Len(new)
      BY <1>1, <2>1
    <2>3. Inside(x, p) => InSome(x, new)
      BY <2>1, <2>2 DEF InSome
    <2>4. InSome(x, old) => InSome(x, new)
      BY <2>1, <2>2 DEF InSome, n
    <2> QED
      BY <2>3, <2>4
  <1> QED
    BY <1>2, <1>3 DEF Pushed

(* Without a gap before it a row begins where the last one ends.           *)
LEMMA NotBehind ==
  ASSUME NEW x \in Nat, NEW y \in Nat, ~Behind(x, y)
  PROVE  x <= y
  <1>1. Half \in Nat \ {0}
    BY TableConstants
  <1> DEFINE a == x \div Half
             b == y \div Half
             c == x % Half
             d == y % Half
  <1>2. x = Half * a + c /\ y = Half * b + d /\ a \in Int /\ b \in Int
        /\ c \in 0 .. Half - 1 /\ d \in 0 .. Half - 1
    BY <1>1, ModRange
  <1>3. a <= b /\ c <= d
    <2>1. ~(a > b) /\ ~(c > d)
      BY DEF Behind
    <2> HIDE DEF a, b, c, d
    <2> QED
      BY <1>1, <1>2, <2>1
  <1> HIDE DEF a, b, c, d
  <1>4. Half * a <= Half * b
    BY <1>1, <1>2, <1>3
  <1>5. Half * a \in Int /\ Half * b \in Int
    BY <1>1, <1>2
  <1> QED
    BY <1>1, <1>2, <1>3, <1>4, <1>5

(* A row behind those that are shown does not begin before their end.      *)
LEMMA Ahead ==
  ASSUME NEW t \in [Rows -> Row], Ordered(t), NEW acc \in ShowState,
         CoversTo(acc, t), NEW r \in Rows, r > acc.prev, t[r].num # 0
  PROVE  acc.cur \in Nat /\ acc.cur <= t[r].rel /\ OnDisk(t[r])
         /\ t[r].rel \in Nat /\ t[r].num \in Nat /\ t[r].num >= 1
  <1>1. acc.cur \in Nat /\ acc.prev \in Rows \cup {0} /\ r \in Nat /\ 1 \in Rows
        /\ \A q \in Rows : q \in Nat /\ q >= 1
    <2>1. /\ acc.cur \in Numbers /\ acc.prev \in Rows \cup {0}
      BY DEF ShowState
    <2>2. \A q \in Rows : q \in Nat /\ q >= 1
      BY NumberBounds DEF Rows
    <2> QED
      BY <2>1, <2>2, NumberBounds
  <1>2. OnDisk(t[r]) /\ t[r].rel \in Nat /\ t[r].num \in Nat /\ t[r].num >= 1
    BY RowFields DEF Ordered, OnDisk
  <1>3. CASE acc.prev = 0
    <2>1. acc.cur = t[1].rel
      BY <1>3 DEF CoversTo
    <2>2. CASE r = 1
      BY <1>1, <1>2, <2>1, <2>2
    <2>3. CASE r # 1
      <3>1. End(t[1]) <= t[r].rel
        BY <1>1, <2>3 DEF Ordered
      <3>2. t[1].rel \in Nat /\ t[1].num \in Nat
        BY <1>1, RowFields
      <3> QED
        BY <1>1, <1>2, <2>1, <3>1, <3>2 DEF End
    <2> QED
      BY <2>2, <2>3
  <1>4. CASE acc.prev # 0
    <2>1. acc.cur = End(t[acc.prev]) /\ acc.prev \in Rows
      BY <1>1, <1>4 DEF CoversTo
    <2>2. End(t[acc.prev]) <= t[r].rel
      BY <2>1 DEF Ordered
    <2> QED
      BY <1>1, <1>2, <2>1, <2>2
  <1> QED
    BY <1>3, <1>4

(* What is shown of a row, and of the gap before it, covers the used rows  *)
(* up to it.                                                               *)
LEMMA CoverStep ==
  ASSUME NEW t \in [Rows -> Row], Ordered(t), UsedOnDisk(t),
         NEW acc \in ShowState, NEW new \in ShowState, CoversTo(acc, t),
         NEW r \in Rows, r > acc.prev, t[r].num # 0, NEW a, NEW ignore,
         ShowsRow(acc, new, t, r, a, ignore),
         Len(acc.out) <= 2 \/ (Len(acc.out) <= 3 /\ NoGap(acc, t, r, ignore))
  PROVE  CoversTo(new, t) /\ new.prev = r
  <1> DEFINE x == t[r]
             p == Piece(t[r], r = a)
             g == HiddenPiece(acc.cur, t[r].rel, FALSE)
  <1>1. /\ acc.cur \in Nat /\ acc.cur <= x.rel /\ OnDisk(x) /\ x.rel \in Nat
        /\ x.num \in Nat /\ x.num >= 1
    BY Ahead
  <1>2. /\ acc.out \in FourOf(PieceSet) /\ new.out \in FourOf(PieceSet)
        /\ acc.cur \in Numbers
    BY DEF ShowState
  <1>3. End(x) \in Numbers /\ End(x) = x.rel + x.num
    <2>1. End(x) \in Nat /\ End(x) <= DiskEnd /\ DiskEnd \in Numbers
      BY <1>1, NumberBounds DEF End, OnDisk
    <2> QED
      BY <2>1, NumberBounds DEF End
  <1>4. new.cur = End(x) /\ new.prev = r
    <2>1. new.cur = Wrap(x.rel + x.num) /\ new.prev = r
      BY DEF ShowsRow
    <2> QED
      BY <1>3, <2>1, WrapSmall
  <1>5. p.type = x.type /\ p.rel = x.rel /\ p.num = x.num
    BY DEF Piece
  <1>6. g.type = Hidden /\ g.rel = acc.cur /\ g.num = x.rel - acc.cur
    <2>1. g.type = Hidden /\ g.rel = acc.cur /\ g.num = Wrap(x.rel - acc.cur)
      BY DEF HiddenPiece
    <2>2. x.rel - acc.cur \in Nat /\ x.rel - acc.cur <= x.rel /\ x.rel \in Numbers
      BY <1>1, RowFields
    <2>3. x.rel - acc.cur \in Numbers
      BY <2>2, NumberBounds
    <2> QED
      BY <2>1, <2>3, WrapSmall
  <1>7. r \in Nat /\ acc.prev \in Nat /\ \A q \in Rows : q \in Nat
    BY NumberBounds DEF ShowState, Rows
  <1>8. ASSUME NEW q \in Used(t), q < r, q > acc.prev
        PROVE  /\ acc.cur <= t[q].rel /\ End(t[q]) <= x.rel /\ t[q].num >= 1
               /\ t[q].rel \in Nat /\ t[q].num \in Nat
    <2>1. q \in Rows /\ t[q].num # 0
      BY DEF Used, UsedOnDisk, OnDisk
    <2>2. acc.cur <= t[q].rel /\ t[q].num >= 1 /\ t[q].rel \in Nat /\ t[q].num \in Nat
      BY <1>8, <2>1, Ahead
    <2>3. End(t[q]) <= x.rel
      BY <1>8, <2>1 DEF Ordered
    <2> QED
      BY <2>2, <2>3
  <1>9. r \in Used(t) => Inside(x, p)
    BY <1>1, <1>5 DEF Inside, End, Used
  <1>10. \A q \in Used(t) : q <= acc.prev => InSome(t[q], acc.out)
    BY DEF CoversTo
  <1>15. Len(acc.out) \in Nat /\ Len(acc.out) # 4
    <2> DEFINE n == Len(acc.out)
    <2>1. n \in Nat /\ (n <= 2 \/ n <= 3)
      BY <1>2 DEF FourOf
    <2> HIDE DEF n
    <2>2. n # 4
      BY <2>1
    <2> QED
      BY <2>1, <2>2 DEF n
  <1> HIDE DEF p, g
  <1>11. CASE Pushed(new.out, acc.out, p) /\ NoGap(acc, t, r, ignore)
    <2>1. Len(acc.out) # 4
      BY <1>15
    <2>2. ASSUME NEW q \in Used(t), q < r, q > acc.prev
          PROVE  FALSE
      <3>1. /\ acc.cur <= t[q].rel /\ End(t[q]) <= x.rel /\ t[q].num >= 1
            /\ t[q].rel \in Nat /\ t[q].num \in Nat /\ q \in Nat
        BY <1>7, <1>8, <2>2 DEF Used
      <3>2. ~Skips(acc, r, ignore)
        BY <1>7, <2>2, <3>1 DEF Skips
      <3>3. ~Behind(x.rel, acc.cur)
        BY <1>11, <3>2 DEF NoGap
      <3>4. x.rel <= acc.cur
        BY <1>1, <3>3, NotBehind
      <3> HIDE DEF x
      <3> QED
        BY <1>1, <3>1, <3>4 DEF End
    <2>3. \A q \in Used(t) : q <= r => InSome(t[q], new.out)
      <3> TAKE q \in Used(t)
      <3> HAVE q <= r
      <3>1. CASE q = r
        BY <1>2, <1>9, <1>11, <2>1, <3>1, PushedSome
      <3>2. CASE q # r
        <4>1. q < r /\ q \in Nat
          BY <1>7, <3>2 DEF Used
        <4>2. q <= acc.prev
          BY <1>7, <2>2, <4>1
        <4>3. InSome(t[q], acc.out)
          BY <1>10, <4>2
        <4> QED
          BY <1>2, <1>11, <4>3, PushedSome
      <3> QED
        BY <3>1, <3>2
    <2> QED
      BY <1>1, <1>4, <1>7, <2>3 DEF CoversTo
  <1>12. ASSUME NEW mid \in FourOf(PieceSet), Pushed(mid, acc.out, g),
                Pushed(new.out, mid, p), Len(acc.out) <= 2
         PROVE  CoversTo(new, t)
    <2>1. Len(acc.out) # 4 /\ Len(mid) # 4
      <3> DEFINE m == Len(mid)
      <3>1. m = Len(acc.out) + 1
        BY <1>12, <1>15 DEF Pushed
      <3> HIDE DEF m
      <3>2. m # 4
        BY <1>12, <1>15, <3>1
      <3> QED
        BY <1>15, <3>2 DEF m
    <2>2. \A q \in Used(t) : q <= r => InSome(t[q], new.out)
      <3> TAKE q \in Used(t)
      <3> HAVE q <= r
      <3>1. CASE q = r
        BY <1>2, <1>9, <1>12, <2>1, <3>1, PushedSome
      <3>2. CASE q # r /\ q <= acc.prev
        <4>1. InSome(t[q], acc.out)
          BY <1>10, <3>2
        <4>2. InSome(t[q], mid)
          BY <1>2, <1>12, <4>1, PushedSome
        <4> QED
          BY <1>2, <1>12, <4>2, PushedSome
      <3>3. CASE q # r /\ ~(q <= acc.prev)
        <4>1. q < r /\ q > acc.prev
          BY <1>7, <3>3 DEF Used
        <4>2. acc.cur <= t[q].rel /\ End(t[q]) <= x.rel
          BY <1>8, <4>1
        <4>3. End(g) = x.rel
          BY <1>1, <1>6 DEF End
        <4>4. Inside(t[q], g)
          BY <1>6, <4>2, <4>3 DEF Inside, Hidden, Unused
        <4>5. InSome(t[q], mid)
          BY <1>2, <1>12, <2>1, <4>4, PushedSome
        <4> QED
          BY <1>2, <1>12, <4>5, PushedSome
      <3> QED
        BY <3>1, <3>2, <3>3
    <2> QED
      BY <1>1, <1>4, <1>7, <2>2 DEF CoversTo
  <1>13. CASE NoGap(acc, t, r, ignore)
    <2>1. Pushed(new.out, acc.out, p)
      BY <1>13 DEF ShowsRow, NoGap, p
    <2> QED
      BY <1>4, <1>11, <1>13, <2>1
  <1>14. CASE ~NoGap(acc, t, r, ignore)
    <2>1. \E mid \in FourOf(PieceSet) : Pushed(mid, acc.out, g) /\ Pushed(new.out, mid, p)
      BY <1>14 DEF ShowsRow, NoGap, p, g
    <2> QED
      BY <1>4, <1>12, <1>14, <2>1
  <1> QED
    BY <1>13, <1>14

(* The lists of rows whose pieces leave none out but at the end.           *)
Coverable(list, t, ignore, last) ==
  /\ Len(list) \in 0 .. 3
  /\ \A i \in 1 .. Len(list) : list[i] \in Rows /\ t[list[i]].num # 0
  /\ Len(list) = 2 =>
       list[1] < list[2] /\ (Follows(t, list[1], list[2], ignore) \/ list[2] = last)
  /\ Len(list) = 3 => /\ Follows(t, list[1], list[2], ignore)
                      /\ Follows(t, list[2], list[3], ignore) /\ list[3] = last

(* The pieces of such a list cover the rows up to its last one.            *)
LEMMA ListCovers ==
  ASSUME NEW t \in [Rows -> Row], Ordered(t), UsedOnDisk(t), NEW list, NEW last,
         NEW ignore \in BOOLEAN, Coverable(list, t, ignore, last), NEW a, NEW s,
         ShowSteps(s, t, list, a, ignore)
  PROVE  /\ s[3] \in ShowState /\ CoversTo(s[3], t)
         /\ Len(s[3].out) = 4 => s[3].prev = last
  <1> DEFINE n == Len(list)
  <1>1. n \in 0 .. 3 /\ (n = 0 \/ n = 1 \/ n = 2 \/ n = 3)
    BY DEF Coverable
  <1>2. /\ s[0] \in ShowState /\ s[1] \in ShowState /\ s[2] \in ShowState
        /\ s[3] \in ShowState
        /\ s[0].out = << >> /\ s[0].cur = t[1].rel /\ s[0].prev = 0
    <2>1. 0 \in 0 .. 3 /\ 1 \in 0 .. 3 /\ 2 \in 0 .. 3 /\ 3 \in 0 .. 3
      OBVIOUS
    <2> QED
      BY <2>1 DEF ShowSteps
  <1>3. \A k \in 1 .. 3 : IF k > n THEN s[k] = s[k - 1]
                          ELSE ShowsRow(s[k - 1], s[k], t, list[k], a, ignore)
    BY DEF ShowSteps
  <1>4. \A i \in 1 .. n : list[i] \in Rows /\ t[list[i]].num # 0
    BY DEF Coverable
  <1>5. n = 2 => list[1] < list[2]
                 /\ (Follows(t, list[1], list[2], ignore) \/ list[2] = last)
    BY DEF Coverable
  <1>6. n = 3 => /\ Follows(t, list[1], list[2], ignore)
                 /\ Follows(t, list[2], list[3], ignore) /\ list[3] = last
    BY DEF Coverable
  <1> HIDE DEF n
  <1>7. n >= 1 => ShowsRow(s[0], s[1], t, list[1], a, ignore)
    BY <1>1, <1>3
  <1>8. n >= 2 => ShowsRow(s[1], s[2], t, list[2], a, ignore)
    BY <1>1, <1>3
  <1>9. n = 3 => ShowsRow(s[2], s[3], t, list[3], a, ignore)
    BY <1>1, <1>3
  <1>10. n < 1 => s[1] = s[0]
    BY <1>1, <1>3
  <1>11. n < 2 => s[2] = s[1]
    BY <1>1, <1>3
  <1>12. n < 3 => s[3] = s[2]
    BY <1>1, <1>3
  <1>13. CoversTo(s[0], t) /\ Len(s[0].out) = 0 /\ Len(s[0].out) <= 2
    <2>1. \A q \in Used(t) : ~(q <= 0)
      BY NumberBounds DEF Used, Rows
    <2> QED
      BY <1>2, <2>1 DEF CoversTo
  <1>14. \A r \in Rows : r \in Nat /\ r > 0
    BY NumberBounds DEF Rows
  <1>15. n >= 1 => /\ CoversTo(s[1], t) /\ s[1].prev = list[1]
                   /\ Len(s[1].out) \in 0 .. 4 /\ Len(s[1].out) <= 2
    <2> HAVE n >= 1
    <2>1. list[1] \in Rows /\ t[list[1]].num # 0 /\ list[1] > s[0].prev
      BY <1>1, <1>2, <1>4, <1>14
    <2>2. ShowsRow(s[0], s[1], t, list[1], a, ignore)
      BY <1>7
    <2>3. CoversTo(s[1], t) /\ s[1].prev = list[1]
      BY <1>2, <1>13, <2>1, <2>2, CoverStep
    <2> QED
      BY <1>2, <1>13, <2>2, <2>3, ShowLength
  <1>16. n >= 2 => list[1] < list[2] /\ list[1] \in Rows /\ list[2] \in Rows
    <2> HAVE n >= 2
    <2>1. list[1] \in Rows /\ list[2] \in Rows
      BY <1>1, <1>4
    <2>2. CASE n = 2
      BY <1>5, <2>1, <2>2
    <2>3. CASE n = 3
      BY <1>6, <1>14, <2>1, <2>3 DEF Follows
    <2> QED
      BY <1>1, <2>1, <2>2, <2>3
  <1>17. ASSUME NEW i \in 1 .. 2, n >= i + 1, s[i].prev = list[i], i >= 1,
                Follows(t, list[i], list[i + 1], ignore)
         PROVE  NoGap(s[i], t, list[i + 1], ignore)
    <2>1. list[i] \in Rows /\ list[i + 1] \in Rows
      BY <1>1, <1>4, <1>17
    <2>2. s[i].cur = Wrap(t[list[i]].rel + t[list[i]].num)
      <3>1. ShowsRow(s[i - 1], s[i], t, list[i], a, ignore)
        BY <1>1, <1>3, <1>17
      <3> QED
        BY <3>1 DEF ShowsRow
    <2> QED
      BY <1>17, <2>1, <2>2, FollowsNoGap
  <1>18. n >= 2 => /\ CoversTo(s[2], t) /\ s[2].prev = list[2]
                   /\ Len(s[2].out) \in 0 .. 4
                   /\ Follows(t, list[1], list[2], ignore) => Len(s[2].out) <= 3
    <2> HAVE n >= 2
    <2>1. /\ list[2] \in Rows /\ t[list[2]].num # 0 /\ list[2] > s[1].prev
          /\ CoversTo(s[1], t) /\ s[1].prev = list[1]
          /\ Len(s[1].out) \in 0 .. 4 /\ Len(s[1].out) <= 2
      BY <1>1, <1>4, <1>14, <1>15, <1>16
    <2>2. ShowsRow(s[1], s[2], t, list[2], a, ignore)
      BY <1>8
    <2>3. CoversTo(s[2], t) /\ s[2].prev = list[2]
      BY <1>2, <2>1, <2>2, CoverStep
    <2>4. Len(s[2].out) \in 0 .. 4
      BY <1>2, <2>2, ShowLength
    <2>5. Follows(t, list[1], list[2], ignore) => Len(s[2].out) <= 3
      <3> HAVE Follows(t, list[1], list[2], ignore)
      <3>1. NoGap(s[1], t, list[2], ignore)
        <4>1. /\ 1 \in 1 .. 2 /\ n >= 1 + 1 /\ 1 >= 1 /\ 1 + 1 = 2
          BY <1>1
        <4>2. Follows(t, list[1], list[1 + 1], ignore)
          BY <4>1
        <4>3. NoGap(s[1], t, list[1 + 1], ignore)
          BY <1>17, <2>1, <4>1, <4>2
        <4> QED
          BY <4>1, <4>3
      <3>2. Len(s[2].out) <= Len(s[1].out) + 1
        BY <1>2, <2>2, <3>1, ShowLength
      <3> QED
        BY <2>1, <2>4, <3>2
    <2> QED
      BY <2>3, <2>4, <2>5
  <1>19. n = 3 => CoversTo(s[3], t) /\ s[3].prev = list[3]
    <2> HAVE n = 3
    <2>1. /\ Follows(t, list[1], list[2], ignore) /\ Follows(t, list[2], list[3], ignore)
          /\ n >= 2
      BY <1>1, <1>6
    <2>2. /\ CoversTo(s[2], t) /\ s[2].prev = list[2] /\ Len(s[2].out) <= 3
          /\ list[3] \in Rows /\ t[list[3]].num # 0 /\ list[2] \in Rows
      BY <1>1, <1>4, <1>16, <1>18, <2>1
    <2>3. list[3] > s[2].prev
      BY <1>14, <2>1, <2>2 DEF Follows
    <2>4. NoGap(s[2], t, list[3], ignore)
      <3>1. 2 \in 1 .. 2 /\ n >= 2 + 1 /\ 2 >= 1 /\ 2 + 1 = 3
        BY <1>1
      <3>2. Follows(t, list[2], list[2 + 1], ignore)
        BY <2>1, <3>1
      <3>3. NoGap(s[2], t, list[2 + 1], ignore)
        BY <1>17, <2>2, <3>1, <3>2
      <3> QED
        BY <3>1, <3>3
    <2>5. ShowsRow(s[2], s[3], t, list[3], a, ignore)
      BY <1>9
    <2> QED
      BY <1>2, <2>2, <2>3, <2>4, <2>5, CoverStep
  <1>20. CASE n = 0
    <2>1. s[3] = s[0]
      BY <1>10, <1>11, <1>12, <1>20
    <2>2. Len(s[3].out) # 4 /\ CoversTo(s[3], t)
      BY <1>13, <2>1
    <2> QED
      BY <1>2, <2>2
  <1>21. CASE n = 1
    <2>1. s[3] = s[1] /\ n >= 1
      BY <1>11, <1>12, <1>21
    <2> DEFINE m == Len(s[1].out)
    <2>2. m \in 0 .. 4 /\ m <= 2 /\ CoversTo(s[1], t)
      BY <1>15, <2>1
    <2> HIDE DEF m
    <2>3. m # 4
      BY <2>2
    <2>4. Len(s[3].out) # 4
      BY <2>1, <2>3 DEF m
    <2> QED
      BY <1>2, <2>1, <2>2, <2>4
  <1>22. CASE n = 2
    <2>1. s[3] = s[2] /\ n >= 2
      BY <1>12, <1>22
    <2>2. Follows(t, list[1], list[2], ignore) => Len(s[2].out) # 4
      BY <1>18, <2>1
    <2>3. s[2].prev = list[2] /\ CoversTo(s[2], t)
      BY <1>18, <2>1
    <2> QED
      BY <1>2, <1>5, <1>22, <2>1, <2>2, <2>3
  <1>23. CASE n = 3
    BY <1>2, <1>6, <1>19, <1>23
  <1> QED
    BY <1>1, <1>20, <1>21, <1>22, <1>23

(* Those are the lists that MAKE_PART_TAB makes of a table in order.       *)
LEMMA ShownCoverable ==
  ASSUME NEW t \in [Rows -> Row], NEW ignore \in BOOLEAN, Tidy(t, ignore), NEW a,
         NEW list, Shown(list, t, a) \/ list = << >>
  PROVE  Coverable(list, t, ignore, LastRow(t))
  <1> DEFINE last == LastRow(t)
  <1>1. /\ last \in 0 .. NumRows /\ last \in Nat
        /\ \A r \in Rows : r <= last => t[r].num # 0
        /\ NumRows \in Nat /\ Rows = 1 .. NumRows
    BY LastRowIs, NumberBounds DEF Rows
  <1> HIDE DEF last
  <1>2. ASSUME NEW q \in 1 .. last, q + 1 \in 1 .. last
        PROVE  Follows(t, q, q + 1, ignore)
    <2>1. q \in Rows /\ q + 1 \in Rows /\ q + 1 <= last /\ q \in Nat
      BY <1>1, <1>2
    <2>2. t[q + 1].num # 0
      BY <1>1, <2>1
    <2>3. CASE ignore
      BY <2>1, <2>3 DEF Follows
    <2>4. CASE ~ignore
      <3>1. t[q + 1].rel = End(t[q])
        BY <2>1, <2>2, <2>4 DEF Tidy, Tiled
      <3> QED
        BY <3>1 DEF Follows
    <2> QED
      BY <2>3, <2>4
  <1>3. \A r \in 1 .. last : r \in Rows /\ t[r].num # 0
    BY <1>1
  <1>4. CASE list = << >>
    BY <1>4 DEF Coverable
  <1>5. ASSUME NEW r \in Rows, t[r].num # 0, list = <<r>>
        PROVE  Coverable(list, t, ignore, last)
    <2>1. Len(list) = 1 /\ list[1] = r /\ \A i \in 1 .. 1 : i = 1
      BY <1>5
    <2> QED
      BY <1>5, <2>1 DEF Coverable
  <1>6. ASSUME NEW q \in 1 .. last, NEW r \in 1 .. last, q < r,
               r = q + 1 \/ r = last, list = <<q, r>>
        PROVE  Coverable(list, t, ignore, last)
    <2>1. /\ Len(list) = 2 /\ list[1] = q /\ list[2] = r
          /\ \A i \in 1 .. 2 : i = 1 \/ i = 2
      BY <1>6
    <2>2. Follows(t, q, r, ignore) \/ r = last
      BY <1>2, <1>6
    <2> QED
      BY <1>3, <1>6, <2>1, <2>2 DEF Coverable
  <1>7. ASSUME last >= 3, list = <<last - 2, last - 1, last>>
        PROVE  Coverable(list, t, ignore, last)
    <2>1. /\ Len(list) = 3 /\ list[1] = last - 2 /\ list[2] = last - 1
          /\ list[3] = last /\ \A i \in 1 .. 3 : i = 1 \/ i = 2 \/ i = 3
      BY <1>7
    <2>2. /\ last - 2 \in 1 .. last /\ last - 1 \in 1 .. last /\ last \in 1 .. last
          /\ (last - 2) + 1 = last - 1 /\ (last - 1) + 1 = last
      BY <1>1, <1>7
    <2>3. Follows(t, last - 2, last - 1, ignore) /\ Follows(t, last - 1, last, ignore)
      <3>1. Follows(t, last - 2, (last - 2) + 1, ignore)
        BY <1>2, <2>2
      <3>2. Follows(t, last - 1, (last - 1) + 1, ignore)
        BY <1>2, <2>2
      <3> QED
        BY <2>2, <3>1, <3>2
    <2> QED
      BY <1>3, <2>1, <2>2, <2>3 DEF Coverable
  <1>8. ASSUME Shown(list, t, a), list # << >>
        PROVE  Coverable(list, t, ignore, last)
    <2>1. CASE \E r \in Rows : list = <<r>> /\ t[r].type = Unused /\ t[r].num # 0
      BY <1>5, <2>1
    <2>2. CASE a \in 1 .. last /\ OneOf(list, a, last)
      <3>1. a \in Nat /\ a >= 1 /\ a <= last
        BY <1>1, <2>2
      <3>2. CASE list = <<a>>
        BY <1>3, <1>5, <2>2, <3>2
      <3>3. CASE a < last /\ list = <<a, a + 1>>
        <4>1. a + 1 \in 1 .. last /\ a < a + 1
          BY <1>1, <3>1, <3>3
        <4> QED
          BY <1>6, <2>2, <3>3, <4>1
      <3>4. CASE a > 1 /\ list = <<a - 1, a>>
        <4>1. a - 1 \in 1 .. last /\ a - 1 < a /\ a = (a - 1) + 1
          BY <1>1, <3>1, <3>4
        <4> QED
          BY <1>6, <2>2, <3>4, <4>1
      <3>5. CASE a < last /\ list = <<a, last>>
        <4>1. last \in 1 .. last
          BY <1>1, <3>1, <3>5
        <4> QED
          BY <1>6, <2>2, <3>5, <4>1
      <3>6. CASE last >= 3 /\ list = <<last - 2, last - 1, last>>
        BY <1>7, <3>6
      <3> QED
        BY <2>2, <3>2, <3>3, <3>4, <3>5, <3>6 DEF OneOf
    <2> QED
      BY <1>8, <2>1, <2>2 DEF Shown, last
  <1> QED
    BY <1>4, <1>8 DEF last

(* ... up to the last one.                                                 *)
LEMMA UpToLast ==
  ASSUME NEW t \in [Rows -> Row], Ordered(t), UsedOnDisk(t), NEW r \in Used(t)
  PROVE  r <= LastRow(t)
  <1> DEFINE l == LastRow(t)
  <1>1. /\ l \in 0 .. NumRows /\ (l < NumRows => t[l + 1].num = 0)
        /\ Rows = 1 .. NumRows /\ NumRows \in Nat
    BY LastRowIs, NumberBounds DEF Rows
  <1>2. r \in Rows /\ t[r].num # 0
    BY DEF Used, UsedOnDisk, OnDisk
  <1> HIDE DEF l
  <1>3. ASSUME ~(r <= l) PROVE FALSE
    <2>1. l + 1 \in Rows /\ l < NumRows /\ l + 1 <= r
      BY <1>1, <1>2, <1>3
    <2>2. CASE r = l + 1
      BY <1>1, <1>2, <2>1, <2>2
    <2>3. CASE r # l + 1
      <3>1. l + 1 < r
        BY <1>1, <1>2, <2>1, <2>3
      <3>2. t[l + 1].num # 0
        BY <1>2, <2>1, <3>1 DEF Ordered
      <3> QED
        BY <1>1, <2>1, <3>2
    <2> QED
      BY <2>2, <2>3
  <1> QED
    BY <1>3 DEF l

(* A piece from here to the end of the geometry covers what a row that     *)
(* begins behind it has below that end, and without such a piece the row   *)
(* has nothing there.                                                      *)
LEMMA RestReaches ==
  ASSUME NEW x, x.rel \in Nat, x.num \in Nat, NEW from \in Numbers, from <= x.rel,
         NEW g, g.rel = from, g.num = Wrap(CylEnd - from)
  PROVE  /\ InGeometry(x) \subseteq Area(g)
         /\ g.num = 0 => InGeometry(x) = {}
  <1>1. /\ from \in Nat /\ CylEnd \in Nat /\ CylEnd \in Numbers
        /\ DiskEnd \in Nat
    BY TableConstants, NumberBounds DEF Numbers
  <1> DEFINE a == x.rel
             d == g.num
  <1>2. \A s \in InGeometry(x) : s \in 0 .. DiskEnd - 1 /\ s >= a /\ s < CylEnd
    BY DEF InGeometry, Area
  <1>3. a \in Nat /\ from <= a
    OBVIOUS
  <1>4. CASE from < CylEnd
    <2>1. d = CylEnd - from
      <3>1. CylEnd - from \in Nat /\ CylEnd - from <= CylEnd
        BY <1>1, <1>4
      <3>2. CylEnd - from \in Numbers
        BY <1>1, <3>1, NumberBounds
      <3> QED
        BY <3>2, WrapSmall
    <2> HIDE DEF a, d
    <2>2. \A s \in 0 .. DiskEnd - 1 :
            s >= a /\ s < CylEnd => s >= from /\ s - from < d
      BY <1>1, <1>3, <2>1
    <2>3. Area(g) = {s \in 0 .. DiskEnd - 1 : s >= from /\ s - from < d}
      BY DEF Area, d
    <2>4. d # 0
      BY <1>1, <1>4, <2>1
    <2> QED
      BY <1>2, <2>2, <2>3, <2>4 DEF d
  <1>5. CASE ~(from < CylEnd)
    <2> HIDE DEF a, d
    <2>1. \A s \in 0 .. DiskEnd - 1 : ~(s >= a /\ s < CylEnd)
      BY <1>1, <1>3, <1>5
    <2>2. InGeometry(x) = {}
      BY <1>2, <2>1
    <2> QED
      BY <2>2
  <1> QED
    BY <1>4, <1>5

(* A row inside a piece has its sectors inside it.                         *)
LEMMA AreaWithin ==
  ASSUME NEW x, NEW e, x.rel \in Nat, x.num \in Nat, e.rel \in Nat, e.num \in Nat,
         e.rel <= x.rel, End(x) <= End(e)
  PROVE  Area(x) \subseteq Area(e)
  <1> DEFINE a == x.rel
             b == x.num
             c == e.rel
             d == e.num
  <1>1. /\ a \in Nat /\ b \in Nat /\ c \in Nat /\ d \in Nat
        /\ c <= a /\ a + b <= c + d
    BY DEF End
  <1>2. Area(x) = {s \in 0 .. DiskEnd - 1 : s >= a /\ s - a < b}
    BY DEF Area
  <1>3. Area(e) = {s \in 0 .. DiskEnd - 1 : s >= c /\ s - c < d}
    BY DEF Area
  <1> HIDE DEF a, b, c, d
  <1>4. \A s \in 0 .. DiskEnd - 1 : s >= a /\ s - a < b => s >= c /\ s - c < d
    BY <1>1, NumberBounds
  <1> QED
    BY <1>2, <1>3, <1>4

(* The last piece covers what is behind the rows that are shown, as far as *)
(* the geometry reaches.                                                   *)
LEMMA FilledCovers ==
  ASSUME NEW t \in [Rows -> Row], Ordered(t), UsedOnDisk(t),
         NEW end \in ShowState, CoversTo(end, t),
         Len(end.out) = 4 => end.prev = LastRow(t),
         NEW f, NEW out, Filling4(f, end, out), NEW r \in Used(t)
  PROVE  \/ InGeometry(t[r]) = {}
         \/ \E i \in Slots : f[i].type # Unused /\ InGeometry(t[r]) \subseteq Area(f[i])
  <1> DEFINE g == Rest(end)
  <1>1. /\ out \in FourOf(PieceSet) /\ end.out \in FourOf(PieceSet)
        /\ end.cur \in Numbers /\ end.cur \in Nat /\ end.prev \in Nat
        /\ \A i \in Slots : f[i] = IF i <= Len(out) THEN out[i] ELSE NoPiece
    <2>1. end.prev \in Rows \cup {0} /\ end.cur \in Numbers
      BY DEF ShowState
    <2>2. end.prev \in Nat /\ end.cur \in Nat
      <3>1. Rows \subseteq Nat
        BY NumberBounds DEF Rows
      <3>2. end.prev \in Nat
        <4>1. CASE end.prev \in Rows
          BY <3>1, <4>1
        <4>2. CASE end.prev = 0
          BY <4>2
        <4> QED
          BY <2>1, <4>1, <4>2
      <3>3. end.cur \in Nat
        BY <2>1, NumberBounds
      <3> QED
        BY <3>2, <3>3
    <2> QED
      BY <2>1, <2>2 DEF Filling4, ShowState
  <1>2. r \in Rows /\ r \in Nat /\ t[r].num # 0
    BY NumberBounds DEF Used, UsedOnDisk, OnDisk, Rows
  <1>3. ASSUME NEW i \in 1 .. Len(out), out[i].type # Unused,
               InGeometry(t[r]) \subseteq Area(out[i])
        PROVE  \E j \in Slots : f[j].type # Unused /\ InGeometry(t[r]) \subseteq Area(f[j])
    <2>1. Len(out) \in Nat /\ Len(out) <= 4
      BY <1>1 DEF FourOf
    <2>2. i \in Slots /\ i <= Len(out)
      BY <2>1 DEF Slots
    <2>3. f[i] = out[i]
      BY <1>1, <2>2
    <2> QED
      BY <1>3, <2>2, <2>3
  <1>4. CASE r <= end.prev
    <2>1. InSome(t[r], end.out)
      BY <1>4 DEF CoversTo
    <2>2. out = end.out \/ Pushed(out, end.out, g)
      BY DEF Filling4
    <2> HIDE DEF g
    <2>3. InSome(t[r], out)
      BY <1>1, <2>1, <2>2, PushedSome
    <2>4. PICK i \in 1 .. Len(out) : Inside(t[r], out[i])
      BY <2>3 DEF InSome
    <2>5. out[i] \in PieceSet
      BY <1>1 DEF FourOf
    <2>6. /\ out[i].rel \in Nat /\ out[i].num \in Nat
          /\ t[r].rel \in Nat /\ t[r].num \in Nat
      BY <1>2, <2>5, RowFields, NumberBounds DEF PieceSet
    <2>7. Area(t[r]) \subseteq Area(out[i])
      BY <2>4, <2>6, AreaWithin DEF Inside
    <2>8. InGeometry(t[r]) \subseteq Area(out[i])
      BY <2>7 DEF InGeometry
    <2> QED
      BY <1>3, <2>4, <2>8 DEF Inside
  <1>5. CASE ~(r <= end.prev)
    <2>1. r > end.prev
      BY <1>1, <1>2, <1>5
    <2>2. end.cur <= t[r].rel /\ t[r].rel \in Nat /\ t[r].num \in Nat
      BY <1>2, <2>1, Ahead
    <2>3. g.type = Hidden /\ g.rel = end.cur /\ g.num = Wrap(CylEnd - end.cur)
      BY DEF Rest, HiddenPiece
    <2>4. Len(end.out) # 4
      <3>1. r <= LastRow(t)
        BY UpToLast
      <3> QED
        BY <1>5, <3>1
    <2> HIDE DEF g
    <2>5. /\ InGeometry(t[r]) \subseteq Area(g)
          /\ g.num = 0 => InGeometry(t[r]) = {}
      BY <1>1, <2>2, <2>3, RestReaches
    <2>6. CASE g.num # 0
      <3>1. Pushed(out, end.out, g)
        BY <2>4, <2>6 DEF Filling4, g
      <3>2. /\ Len(out) = Len(end.out) + 1 /\ out[Len(end.out) + 1] = g
            /\ Len(end.out) \in Nat
        BY <1>1, <2>4, <3>1 DEF Pushed, FourOf
      <3>3. Len(end.out) + 1 \in 1 .. Len(out)
        BY <3>2
      <3>4. g.type # Unused
        BY <2>3 DEF Hidden, Unused
      <3> QED
        BY <1>3, <2>5, <3>2, <3>3, <3>4
    <2> QED
      BY <2>5, <2>6
  <1> QED
    BY <1>4, <1>5

(* The MBR that is made of a table in order covers its used rows, as far   *)
(* as the geometry reaches.                                                *)
LEMMA MadeCovers ==
  ASSUME NEW t \in [Rows -> Row], NEW ignore \in BOOLEAN,
         Tidy(t, ignore), UsedOnDisk(t), NEW a, NEW list,
         Shown(list, t, a) \/ list = << >>, NEW r \in Used(t)
  PROVE  \/ InGeometry(t[r]) = {}
         \/ \E h \in Slots :
               InGeometry(t[r]) \subseteq Area(MadePartTab(t, list, a, ignore)[h])
  <1> DEFINE f == Filled(t, list, a, ignore)
             rows == MadePartTab(t, list, a, ignore)
  <1>1. /\ Len(list) \in 0 .. 3 /\ \A i \in 1 .. Len(list) : list[i] \in Rows
    BY ShownTypes
  <1>2. PICK s, out, p : /\ ShowSteps(s, t, list, a, ignore)
                         /\ Filling4(f, s[3], out) /\ MadeOf(p, rows, f)
    BY <1>1, MadeIs
  <1> HIDE DEF f, rows
  <1>3. Ordered(t) /\ Coverable(list, t, ignore, LastRow(t))
    BY ShownCoverable DEF Tidy
  <1> DEFINE end == s[3]
  <1>4. /\ end \in ShowState /\ CoversTo(end, t)
        /\ Len(end.out) = 4 => end.prev = LastRow(t)
    BY <1>2, <1>3, ListCovers
  <1>5. Filling4(f, end, out)
    BY <1>2
  <1> HIDE DEF end
  <1>6. \/ InGeometry(t[r]) = {}
        \/ \E i \in Slots : f[i].type # Unused /\ InGeometry(t[r]) \subseteq Area(f[i])
    BY <1>3, <1>4, <1>5, FilledCovers
  <1>7. ASSUME NEW i \in Slots, f[i].type # Unused,
               InGeometry(t[r]) \subseteq Area(f[i])
        PROVE  \E h \in Slots : InGeometry(t[r]) \subseteq Area(rows[h])
    <2>1. PICK h \in Slots : p[h] = i
      BY <1>2 DEF MadeOf, IsPermutation, Slots
    <2>2. rows[h].rel = f[i].rel /\ rows[h].num = f[i].num
      <3>1. f[p[h]].type # Unused
        BY <1>7, <2>1
      <3> QED
        BY <1>2, <2>1, <3>1 DEF MadeOf
    <2>3. Area(rows[h]) = Area(f[i])
      BY <2>2 DEF Area
    <2> QED
      BY <1>7, <2>3
  <1> QED
    BY <1>6, <1>7 DEF rows

(* Importing what does not change the places keeps a table in order.       *)
LEMMA SameTidy ==
  ASSUME NEW t \in [Rows -> Row], NEW u \in [Rows -> Row], NEW ignore \in BOOLEAN,
         SamePlaces(t, u), UsedOnDisk(u), Used(t) \subseteq Used(u), Tidy(t, ignore)
  PROVE  Tidy(u, ignore)
  <1>1. \A r \in Rows : t[r].rel = u[r].rel /\ t[r].num = u[r].num /\ End(t[r]) = End(u[r])
    BY DEF SamePlaces, End
  <1>2. Ordered(u)
    <2>1. Ordered(t)
      BY DEF Tidy
    <2>2. \A r \in Rows : OnDisk(t[r]) <=> OnDisk(u[r])
      BY <1>1 DEF OnDisk
    <2> QED
      BY <1>1, <2>1, <2>2 DEF Ordered
  <1>3. CASE ignore
    <2>1. FitsIn(t) /\ \A r \in Rows : t[r].type = Unused => t[r].num = 0
      BY <1>3 DEF Tidy
    <2>2. ASSUME NEW r \in Used(u) PROVE r \in Used(t)
      <3>1. r \in Rows /\ OnDisk(u[r])
        BY DEF Used, UsedOnDisk
      <3>2. u[r].num # 0
        BY <3>1, RowFields DEF OnDisk
      <3>3. t[r].num # 0
        BY <1>1, <3>1, <3>2
      <3> QED
        BY <2>1, <3>1, <3>3 DEF Used
    <2>3. Used(u) = Used(t)
      BY <2>2
    <2>4. UsedIn(t, u) /\ UsedIn(u, t)
      <3>1. \A r \in Used(t) : r \in Used(u) /\ u[r].rel = t[r].rel /\ u[r].num = t[r].num
        BY <1>1 DEF Used
      <3>2. \A r \in Used(u) : r \in Used(t) /\ u[r].rel = t[r].rel /\ u[r].num = t[r].num
        BY <1>1, <2>2 DEF Used
      <3>3. UsedIn(t, u)
        BY <3>1 DEF UsedIn
      <3>4. UsedIn(u, t)
        BY <3>2 DEF UsedIn
      <3> QED
        BY <3>3, <3>4
    <2>5. FitsIn(u)
      BY <2>1, <2>4, SameHoles DEF FitsIn
    <2>6. \A r \in Rows : u[r].type = Unused => u[r].num = 0
      BY <1>1, <2>1, <2>3 DEF Used
    <2> QED
      BY <1>2, <1>3, <2>5, <2>6 DEF Tidy
  <1>4. CASE ~ignore
    <2>1. Tiled(t)
      BY <1>4 DEF Tidy
    <2>2. 1 \in Rows
      BY NumberBounds
    <2>3. Tiled(u)
      BY <1>1, <2>1, <2>2 DEF Tiled
    <2> QED
      BY <1>2, <1>4, <2>3 DEF Tidy
  <1> QED
    BY <1>3, <1>4

(* Places that stay keep the used rows.                                    *)
LEMMA UsedStays ==
  ASSUME NEW t \in [Rows -> Row], NEW rows \in [Slots -> Entry]
  PROVE  Used(t) \subseteq Used(Imported(t, rows))
  <1> SUFFICES ASSUME NEW r \in Used(t) PROVE r \in Used(Imported(t, rows))
    OBVIOUS
  <1>1. r \in Rows /\ t[r].type # Unused
    BY DEF Used
  <1>2. Given(t[r], Imported(t, rows)[r], rows)
    BY <1>1, ImportedGiven
  <1>3. Imported(t, rows)[r].type # Unused
    BY <1>1, <1>2 DEF Given, ImportableType
  <1> QED
    BY <1>1, <1>3 DEF Used

-------------------------------------------------------------------------------
(* The tables are in order while nothing is to be reviewed: what is in     *)
(* memory is at the places of what is on the disk.                         *)
Neat ==
  ~unreviewed => /\ Tidy(table, setup.ignore) /\ Tidy(ram.table, setup.ignore)
                 /\ SamePlaces(table, ram.table)

(* A table is at its own places.                                           *)
LEMMA SameSelf ==
  ASSUME NEW t
  PROVE  SamePlaces(t, t)
  BY DEF SamePlaces

(* They are at first, ...                                                  *)
LEMMA InitNeat ==
  ASSUME Init
  PROVE  Neat
  <1>1. /\ setup \in Setups /\ table = Saved(Installed(setup.rows), setup.ignore)
        /\ ram = Memory(table, mbr, 0)
    BY DEF Init
  <1>2. setup.ignore \in BOOLEAN
    BY <1>1, SetupTypes
  <1> DEFINE t == Installed(setup.rows)
  <1>3. t \in [Rows -> Row] /\ UsedOnDisk(t) /\ HasManager(t) /\ ValidTable(Arranged(t))
    BY <1>1, InstalledSound
  <1>4. table = Saved(t, setup.ignore) /\ ram.table = table
    BY <1>1, MemoryIs
  <1> HIDE DEF t
  <1>5. Tidy(table, setup.ignore)
    BY <1>2, <1>3, <1>4, SavedTidy
  <1> QED
    BY <1>4, <1>5, SameSelf DEF Neat

(* ... after power on, ...                                                 *)
LEMMA PowerOnNeat ==
  ASSUME Base, Neat, PowerOn
  PROVE  Neat'
  <1> SUFFICES ASSUME ~unreviewed'
               PROVE  /\ Tidy(table', setup'.ignore) /\ Tidy(ram'.table, setup'.ignore)
                      /\ SamePlaces(table', ram'.table)
    BY DEF Neat
  <1> DEFINE t == Imported(table, mbr.rows)
  <1>1. /\ ram'.table = t /\ (table' = table \/ table' = t) /\ setup' = setup
    BY PowerOnTables
  <1>2. ~unreviewed /\ SamePlaces(table, t)
    BY PowerOnPlaces
  <1>3. /\ table \in [Rows -> Row] /\ mbr \in Mbr /\ MbrSound(mbr) /\ Sound(table)
        /\ setup.ignore \in BOOLEAN
    BY SetupTypes DEF Base, TypeOK
  <1>4. mbr.rows \in [Slots -> Entry]
    BY <1>3 DEF Mbr
  <1>5. t \in [Rows -> Row] /\ Used(table) \subseteq Used(t) /\ UsedOnDisk(t)
    BY <1>3, <1>4, ImportedIs, UsedStays, ImportedSound DEF Sound
  <1> HIDE DEF t
  <1>6. Tidy(table, setup.ignore)
    BY <1>2 DEF Neat
  <1>7. Tidy(t, setup.ignore)
    BY <1>2, <1>3, <1>5, <1>6, SameTidy
  <1> QED
    BY <1>1, <1>2, <1>6, <1>7, SameSelf

(* ... and after each step.                                                *)
LEMMA NeatStep ==
  ASSUME Base, Neat, [Next]_vars
  PROVE  Neat'
  <1>1. CASE PowerOn
    BY <1>1, PowerOnNeat
  <1>2. CASE Boot
    <2>1. /\ table' = table /\ setup' = setup /\ unreviewed' = unreviewed
          /\ ram'.table = ram.table \/ ram'.table = table
      BY <1>2, BootKeepsTables
    <2> QED
      BY <2>1, SameSelf DEF Neat
  <1>3. ASSUME ram'.table = table, UNCHANGED <<table, setup, unreviewed>>
        PROVE  Neat'
    BY <1>3, SameSelf DEF Neat
  <1>4. CASE FdiskCreate \/ FdiskDelete \/ FdiskRetype
    <2>1. ASSUME NEW rows, Changed(rows)
          PROVE  Neat'
      <3>1. ram'.table = table /\ UNCHANGED <<table, setup, unreviewed>>
        BY <2>1, MemoryIs DEF Changed
      <3> QED
        BY <1>3, <3>1
    <2> QED
      BY <1>4, <2>1 DEF FdiskCreate, FdiskDelete, FdiskRetype
  <1>5. CASE Off
    <2>1. ram'.table = table /\ UNCHANGED <<table, setup, unreviewed>>
      BY <1>5, MemoryIs DEF Off, history
    <2> QED
      BY <1>3, <2>1
  <1>6. CASE Review
    <2>1. PICK drop :
            LET kept == Kept(table, drop)
            IN  /\ kept \in [Rows -> Row] /\ UsedOnDisk(kept) /\ HasManager(kept)
                /\ ValidTable(Arranged(kept))
                /\ table' = Saved(kept, setup.ignore) /\ ram'.table = table'
                /\ setup' = setup
      BY <1>6, ReviewIs
    <2>2. setup.ignore \in BOOLEAN
      BY SetupTypes DEF Base
    <2>3. Tidy(table', setup.ignore)
      BY <2>1, <2>2, SavedTidy
    <2> QED
      BY <2>1, <2>3, SameSelf DEF Neat
  <1>7. CASE UNCHANGED vars
    <2>1. UNCHANGED <<table, ram, setup, unreviewed>>
      BY <1>7 DEF vars
    <2> QED
      BY <2>1 DEF Neat
  <1> QED
    BY <1>1, <1>2, <1>4, <1>5, <1>6, <1>7 DEF Next

-------------------------------------------------------------------------------
(* The places of the live and of the visible partitions.                   *)
LivePlaces == {Place(table[r]) : r \in Live}
VisiblePlaces == {Place(mbr.rows[k]) : k \in {j \in Slots : Visible(j)}}
Apart(S) == \A x, y \in S : x # y => Area(x) \cap Area(y) = {}
ApartBut(S, but) == \A x, y \in S : x # y => Area(x) \cap Area(y) \subseteq but

(* While nothing is to be reviewed they are apart, those given up with     *)
(* fdisk or only half given up in a review too, if they are still visible, *)
(* but for sectors that were given away behind the geometry; and the MBR   *)
(* covers those that live as far as the geometry reaches.                  *)
Covered ==
  /\ \A s \in behind : s >= CylEnd
  /\ ~unreviewed => /\ ApartBut(LivePlaces \cup VisiblePlaces, behind)
                    /\ \A x \in LivePlaces : InGeometry(x) \subseteq Mentioned

(* Equal places are equal sectors.                                         *)
LEMMA PlaceAreas ==
  \A x : /\ Place(x).rel = x.rel /\ Place(x).num = x.num
         /\ Area(Place(x)) = Area(x) /\ InGeometry(Place(x)) = InGeometry(x)
  BY DEF Place, Area, InGeometry

(* Fewer areas are apart too.                                              *)
LEMMA FewerApart ==
  ASSUME NEW S, NEW T, S \subseteq T
  PROVE  /\ Apart(T) => Apart(S)
         /\ \A but : /\ Apart(S) => ApartBut(S, but)
                     /\ ApartBut(T, but) => ApartBut(S, but)
  BY DEF Apart, ApartBut

(* What is reached of a partition is some of its sectors.                  *)
LEMMA ReachedArea ==
  \A x : InGeometry(x) \subseteq Area(x)
  BY DEF InGeometry

(* It is none of the sectors behind the geometry.                          *)
LEMMA NoneBehind ==
  ASSUME Covered, NEW x, NEW s \in InGeometry(x)
  PROVE  s \notin behind
  <1>1. s \in 0 .. DiskEnd - 1 /\ s < CylEnd /\ DiskEnd \in Nat /\ CylEnd \in Nat
    BY TableConstants, NumberBounds DEF InGeometry, Area
  <1>2. s \in behind => s >= CylEnd
    BY DEF Covered
  <1> QED
    BY <1>1, <1>2

(* The partitions on the disk are the live and the visible ones.           *)
LEMMA AllPartitions ==
  /\ Partitions = LivePlaces \cup (VisiblePlaces \ gone)
  /\ Partitions' = LivePlaces' \cup (VisiblePlaces' \ gone')
  BY DEF Partitions, LivePlaces, VisiblePlaces

(* A live partition is mentioned ...                                       *)
LEMMA IsMentioned ==
  ASSUME NEW k \in Slots
  PROVE  Area(mbr.rows[k]) \subseteq Mentioned
  BY DEF Mentioned

(* ... and so is a visible one.                                            *)
LEMMA VisibleMentioned ==
  ASSUME NEW x \in VisiblePlaces
  PROVE  Area(x) \subseteq Mentioned /\ InGeometry(x) \subseteq Mentioned
  <1>1. PICK k \in Slots : x = Place(mbr.rows[k])
    BY DEF VisiblePlaces
  <1>2. Area(x) = Area(mbr.rows[k])
    BY <1>1, PlaceAreas
  <1> QED
    BY <1>2, IsMentioned, ReachedArea

(* What the MBR covers is occupied on the disk.                            *)
LEMMA CoversOccupied ==
  ASSUME Covered
  PROVE  OccupiedCovered
  <1>1. ASSUME ~unreviewed, NEW r \in Live
        PROVE  InGeometry(table[r]) \subseteq Mentioned
    <2>1. Place(table[r]) \in LivePlaces
      BY DEF LivePlaces
    <2>2. InGeometry(Place(table[r])) \subseteq Mentioned
      BY <1>1, <2>1 DEF Covered
    <2> QED
      BY <2>2, PlaceAreas
  <1> QED
    BY <1>1 DEF OccupiedCovered

(* What the rows of a table in order describe is apart.                    *)
LEMMA OrderedApart ==
  ASSUME NEW t \in [Rows -> Row], Ordered(t), UsedOnDisk(t), NEW S,
         S \subseteq {Place(t[r]) : r \in Used(t)}
  PROVE  Apart(S)
  <1>1. ASSUME NEW q \in Used(t), NEW r \in Used(t), q < r
        PROVE  Area(t[q]) \cap Area(t[r]) = {}
    <2>1. q \in Rows /\ r \in Rows /\ t[r].num # 0
      BY DEF Used, UsedOnDisk, OnDisk
    <2>2. /\ t[q].rel \in Nat /\ t[q].num \in Nat /\ t[r].rel \in Nat
          /\ t[r].num \in Nat
      BY <2>1, RowFields
    <2>3. t[q].rel + t[q].num <= t[r].rel
      BY <1>1, <2>1 DEF Ordered, End
    <2> DEFINE a == t[q].rel
               b == t[q].num
               c == t[r].rel
    <2>4. \A s \in Area(t[q]) : s \in Nat /\ s - a < b
      BY NumberBounds DEF Area
    <2>5. \A s \in Area(t[r]) : s \in Nat /\ s >= c
      BY NumberBounds DEF Area
    <2>6. a \in Nat /\ b \in Nat /\ c \in Nat /\ a + b <= c
      BY <2>2, <2>3
    <2> HIDE DEF a, b, c
    <2>7. \A s \in Nat : ~(s - a < b /\ s >= c)
      BY <2>6
    <2> QED
      BY <2>4, <2>5, <2>7
  <1>2. ASSUME NEW x \in S, NEW y \in S, x # y
        PROVE  Area(x) \cap Area(y) = {}
    <2>1. PICK q \in Used(t) : x = Place(t[q])
      OBVIOUS
    <2>2. PICK r \in Used(t) : y = Place(t[r])
      OBVIOUS
    <2>3. q # r /\ q \in Nat /\ r \in Nat
      BY <1>2, <2>1, <2>2, NumberBounds DEF Used, Rows
    <2>4. Area(t[q]) \cap Area(t[r]) = {}
      <3>1. q < r \/ r < q
        BY <2>3
      <3> QED
        BY <1>1, <3>1
    <2> QED
      BY <2>1, <2>2, <2>4, PlaceAreas
  <1> QED
    BY <1>2 DEF Apart

(* A live partition is a used row.                                         *)
LEMMA LiveUsed ==
  LivePlaces \subseteq {Place(table[r]) : r \in Used(table)}
  <1>1. Live \subseteq Used(table)
    BY TypesApart DEF Live, Used
  <1> QED
    BY <1>1 DEF LivePlaces

(* A used row of an operating system that has not been given up lives.     *)
LEMMA LiveIs ==
  ASSUME NEW r \in Rows, table[r].type \in OsTypes, Place(table[r]) \notin gone
  PROVE  Place(table[r]) \in LivePlaces
  BY DEF LivePlaces, Live

(* The hidden disk covers every used row.                                  *)
LEMMA AllHiddenCovers ==
  ASSUME NEW t \in [Rows -> Row], UsedOnDisk(t), NEW r \in Used(t)
  PROVE  Area(t[r]) \subseteq Area(AllHidden[1])
  <1>1. OnDisk(t[r]) /\ t[r].rel \in Nat /\ t[r].num \in Nat
    BY RowFields DEF Used, UsedOnDisk
  <1>2. AllHidden[1].rel = 1 /\ AllHidden[1].num = DiskEnd - 1
    BY AllHiddenIs
  <1> DEFINE a == t[r].rel
  <1>3. \A s \in Area(t[r]) : s \in 0 .. DiskEnd - 1 /\ s >= a
    BY DEF Area
  <1>4. a >= 1 /\ a \in Nat
    BY <1>1 DEF OnDisk
  <1> HIDE DEF a
  <1>5. \A s \in 0 .. DiskEnd - 1 : s >= a => s >= 1 /\ s - 1 < DiskEnd - 1
    BY <1>4, NumberBounds
  <1> QED
    BY <1>2, <1>3, <1>5 DEF Area

-------------------------------------------------------------------------------
(* At first all rows are apart and covered.                                *)
LEMMA InitCovered ==
  ASSUME Init
  PROVE  Covered /\ PartitionsApart
  <1>1. table \in [Rows -> Row] /\ UsedOnDisk(table) /\ Ordered(table)
    <2>1. Base /\ Neat /\ ~unreviewed
      BY InitBase, InitNeat DEF Init
    <2> QED
      BY <2>1 DEF Base, TypeOK, Sound, Neat, Tidy
  <1>2. VisiblePlaces = {}
    <2>1. mbr.rows = AllHidden
      BY DEF Init
    <2>2. \A k \in Slots : ~Visible(k)
      <3>1. \A k \in Slots : mbr.rows[k].type \in {Unused, Hidden}
        <4>1. NoEntry.type = Unused
          BY DEF NoEntry
        <4> QED
          BY <2>1, <4>1, AllHiddenIs
      <3> QED
        BY <3>1 DEF Visible
    <2> QED
      BY <2>2 DEF VisiblePlaces
  <1>3. Apart(LivePlaces)
    BY <1>1, LiveUsed, OrderedApart
  <1>4. ASSUME NEW x \in LivePlaces PROVE InGeometry(x) \subseteq Mentioned
    <2>1. PICK r \in Used(table) : x = Place(table[r])
      BY LiveUsed
    <2>2. Area(table[r]) \subseteq Area(mbr.rows[1])
      BY <1>1, AllHiddenCovers DEF Init
    <2>3. Area(mbr.rows[1]) \subseteq Mentioned
      BY IsMentioned DEF Slots
    <2> QED
      BY <2>1, <2>2, <2>3, PlaceAreas, ReachedArea
  <1>5. ApartBut(LivePlaces \cup VisiblePlaces, behind)
    BY <1>2, <1>3, FewerApart
  <1>6. ApartBut(Partitions, behind)
    <2>1. Partitions \subseteq LivePlaces \cup VisiblePlaces
      BY AllPartitions
    <2> QED
      BY <1>5, <2>1, FewerApart
  <1>7. behind = {}
    BY DEF Init
  <1> QED
    BY <1>4, <1>5, <1>6, <1>7 DEF Covered, PartitionsApart, ApartBut

(* Imports add to the table only what is visible in the MBR.               *)
LEMMA ImportedPlaces ==
  ASSUME Base, NEW r \in Rows, Imported(table, mbr.rows)[r].type \in OsTypes,
         Place(Imported(table, mbr.rows)[r]) \notin gone
  PROVE  Place(Imported(table, mbr.rows)[r]) \in LivePlaces \cup (VisiblePlaces \ gone)
  <1> DEFINE t == Imported(table, mbr.rows)
  <1>1. table \in [Rows -> Row] /\ mbr.rows \in [Slots -> Entry]
    BY DEF Base, TypeOK, Mbr
  <1>2. Given(table[r], t[r], mbr.rows)
    BY <1>1, ImportedGiven
  <1>3. t[r].type \in OsTypes /\ Place(t[r]) \notin gone
    OBVIOUS
  <1> HIDE DEF t
  <1>4. CASE t[r] = table[r]
    BY <1>3, <1>4, LiveIs DEF t
  <1>5. ASSUME NEW j \in Slots, ImportableType(mbr.rows[j]),
               t[r].rel = mbr.rows[j].rel, t[r].num = mbr.rows[j].num
        PROVE  Place(t[r]) \in VisiblePlaces
    <2>1. Visible(j)
      BY <1>5 DEF ImportableType, Visible
    <2>2. Place(t[r]) = Place(mbr.rows[j])
      BY <1>5, PlacesAre
    <2> QED
      BY <2>1, <2>2 DEF VisiblePlaces
  <1>6. CASE t[r] # table[r]
    <2>1. PICK j \in Slots : /\ ImportableType(mbr.rows[j])
                             /\ t[r].rel = mbr.rows[j].rel /\ t[r].num = mbr.rows[j].num
      BY <1>2, <1>6 DEF Given
    <2>2. Place(t[r]) \in VisiblePlaces
      BY <1>5, <2>1
    <2> QED
      BY <1>3, <2>2 DEF t
  <1> QED
    BY <1>4, <1>6 DEF t

(* Power on does not make a partition of what was not one.                 *)
LEMMA PowerOnPartitions ==
  ASSUME Base, PowerOn
  PROVE  /\ LivePlaces' \subseteq LivePlaces \cup (VisiblePlaces \ gone)
         /\ VisiblePlaces' = VisiblePlaces /\ Mentioned' = Mentioned
         /\ gone' = gone /\ careless' = careless /\ behind' = behind
  <1> DEFINE t == Imported(table, mbr.rows)
  <1>1. /\ table' = table \/ table' = t
        /\ mbr' = mbr /\ careless' = careless /\ gone' = gone
        /\ behind' = behind
    BY PowerOnTables
  <1>2. table \in [Rows -> Row] /\ mbr.rows \in [Slots -> Entry]
    BY DEF Base, TypeOK, Mbr
  <1>3. VisiblePlaces' = VisiblePlaces /\ Mentioned' = Mentioned
    BY <1>1 DEF VisiblePlaces, Visible, Mentioned
  <1>4. ASSUME NEW r \in Rows, t[r].type \in OsTypes, Place(t[r]) \notin gone
        PROVE  Place(t[r]) \in LivePlaces \cup (VisiblePlaces \ gone)
    <2>1. Imported(table, mbr.rows)[r].type \in OsTypes
      BY <1>4
    <2>2. Place(Imported(table, mbr.rows)[r]) \notin gone
      BY <1>4
    <2> HIDE DEF t
    <2>3. Place(Imported(table, mbr.rows)[r]) \in LivePlaces \cup (VisiblePlaces \ gone)
      BY <2>1, <2>2, ImportedPlaces
    <2> QED
      BY <2>3 DEF t
  <1>5. CASE table' = table
    <2>1. LivePlaces' = LivePlaces
      BY <1>1, <1>5 DEF LivePlaces, Live
    <2> QED
      BY <1>1, <1>3, <2>1
  <1>6. CASE table' = t
    <2> HIDE DEF t
    <2>1. LivePlaces' = {Place(t[r]) : r \in {q \in Rows : t[q].type \in OsTypes
                                                /\ Place(t[q]) \notin gone}}
      BY <1>1, <1>6 DEF LivePlaces, Live
    <2>2. LivePlaces' \subseteq LivePlaces \cup (VisiblePlaces \ gone)
      BY <1>4, <2>1
    <2> QED
      BY <1>1, <1>3, <2>2
  <1> QED
    BY <1>1, <1>5, <1>6

(* It keeps what is covered.                                               *)
LEMMA PowerOnCovered ==
  ASSUME Base, Covered, PartitionsApart, PowerOn
  PROVE  Covered' /\ PartitionsApart'
  <1>1. /\ LivePlaces' \subseteq LivePlaces \cup (VisiblePlaces \ gone)
        /\ VisiblePlaces' = VisiblePlaces /\ Mentioned' = Mentioned
        /\ gone' = gone /\ careless' = careless /\ behind' = behind
        /\ Covered => \A s \in behind' : s >= CylEnd
    BY PowerOnPartitions DEF Covered
  <1>2. Covered'
    <2> SUFFICES ASSUME ~unreviewed'
                 PROVE  /\ ApartBut(LivePlaces' \cup VisiblePlaces', behind')
                        /\ \A x \in LivePlaces' : InGeometry(x) \subseteq Mentioned'
      BY <1>1 DEF Covered, ApartBut
    <2>1. ~unreviewed
      BY PowerOnPlaces
    <2>2. /\ ApartBut(LivePlaces \cup VisiblePlaces, behind)
          /\ \A x \in LivePlaces : InGeometry(x) \subseteq Mentioned
      BY <2>1 DEF Covered
    <2>3. LivePlaces' \cup VisiblePlaces' \subseteq LivePlaces \cup VisiblePlaces
      BY <1>1
    <2>4. ApartBut(LivePlaces' \cup VisiblePlaces', behind')
      BY <1>1, <2>2, <2>3, FewerApart
    <2>5. \A x \in LivePlaces' : InGeometry(x) \subseteq Mentioned'
      BY <1>1, <2>2, VisibleMentioned
    <2> QED
      BY <2>4, <2>5
  <1>3. PartitionsApart'
    <2>1. Partitions' \subseteq Partitions
      BY <1>1, AllPartitions
    <2>2. careless \/ ApartBut(Partitions, behind)
      BY DEF PartitionsApart, ApartBut
    <2>3. careless' \/ ApartBut(Partitions', behind')
      BY <1>1, <2>1, <2>2, FewerApart
    <2> QED
      BY <2>3 DEF PartitionsApart, ApartBut
  <1> QED
    BY <1>2, <1>3

(* The MBR of a boot is the one before or is made of the table in memory.  *)
LEMMA BootMbr ==
  ASSUME Base, Boot
  PROVE  mbr' = mbr \/ \E k \in Int : k >= -1 /\ mbr'.rows = RowsFor(k)
  <1>1. PICK k, act : Choice(k, act) /\ BootSteps(k, act)
    BY BootIs DEF Base, TypeOK
  <1>2. k \in Int /\ k >= -1
    BY <1>1 DEF Choice
  <1> DEFINE new == NewMbr(k, act)
  <1>3. new.rows = RowsFor(k)
    BY DEF NewMbr
  <1> HIDE DEF new
  <1>4. ASSUME NEW what, NEW written, Starts(new, k, what, written)
        PROVE  mbr' = mbr \/ mbr'.rows = RowsFor(k)
    BY <1>3, <1>4 DEF Starts
  <1>5. ASSUME Stays(new, k) \/ Ignored(new, k)
        PROVE  mbr' = mbr
    BY <1>5 DEF Stays, Ignored
  <1>6. mbr' = mbr \/ mbr'.rows = RowsFor(k)
    <2>1. ASSUME NEW what \in ActMbrRec(RowsFor(k)), Starts(new, k, what, TRUE)
          PROVE  mbr' = mbr \/ mbr'.rows = RowsFor(k)
      BY <1>4, <2>1
    <2>2. ASSUME NEW what \in Devices, NEW written \in BOOLEAN,
                 Starts(new, k, what, written)
          PROVE  mbr' = mbr \/ mbr'.rows = RowsFor(k)
      BY <1>4, <2>2
    <2> QED
      BY <1>1, <1>5, <2>1, <2>2 DEF BootSteps, new
  <1> QED
    BY <1>2, <1>6

(* What boots show of the table is in it.                                  *)
LEMMA ShownPlaces ==
  ASSUME Base, NEW k \in Int, k >= -1
  PROVE  /\ RowsFor(k) \in [Slots -> Entry]
         /\ \A h \in Slots : VisibleFrom(ram.table, RowsFor(k)[h])
  <1>1. /\ ram.table \in [Rows -> Row] /\ Sound(ram.table) /\ setup.ignore \in BOOLEAN
    BY SetupTypes DEF Base, TypeOK
  <1> DEFINE list == ShownRows(k)
             a == ChosenRow(k)
  <1>2. Shown(list, ram.table, a) \/ list = << >>
    BY <1>1, ShownRowsAre
  <1>3. RowsFor(k) = MadePartTab(ram.table, list, a, setup.ignore)
    BY DEF RowsFor
  <1> HIDE DEF list, a
  <1>4. Len(list) \in 0 .. 3 /\ \A i \in 1 .. Len(list) : list[i] \in Rows
    BY <1>1, <1>2, ShownTypes
  <1> QED
    BY <1>1, <1>3, <1>4, MadeFrom

(* What a boot makes visible is in the table in memory.                    *)
LEMMA BootVisible ==
  ASSUME Base, Boot, NEW k \in Int, k >= -1, mbr'.rows = RowsFor(k),
         NEW x \in VisiblePlaces'
  PROVE  \E r \in Rows : ram.table[r].type \in OsTypes /\ x = Place(ram.table[r])
  <1> DEFINE rows == RowsFor(k)
  <1>1. rows \in [Slots -> Entry] /\ \A h \in Slots : VisibleFrom(ram.table, rows[h])
    BY ShownPlaces
  <1>2. mbr'.rows = rows
    OBVIOUS
  <1> HIDE DEF rows
  <1>3. PICK h \in Slots : /\ rows[h].type \notin {Unused, Hidden}
                           /\ x = Place(rows[h])
    BY <1>2 DEF VisiblePlaces, Visible
  <1>4. rows[h].type \in OsTypes
    BY <1>1, <1>3 DEF Entry
  <1>5. PICK r \in Rows : /\ ram.table[r].type = rows[h].type
                          /\ ram.table[r].rel = rows[h].rel
                          /\ ram.table[r].num = rows[h].num
    BY <1>1, <1>4 DEF VisibleFrom
  <1>6. x = Place(ram.table[r])
    BY <1>3, <1>5, PlacesAre
  <1> QED
    BY <1>4, <1>5, <1>6

(* A boot gives no partition up.                                           *)
LEMMA BootLive ==
  ASSUME Base, Boot
  PROVE  /\ LivePlaces' = LivePlaces /\ gone' = gone /\ careless' = careless
         /\ unreviewed' = unreviewed /\ behind' = behind
  <1>1. /\ table' = table /\ gone' = gone /\ careless' = careless
        /\ unreviewed' = unreviewed /\ behind' = behind
    BY BootKeepsTables
  <1> QED
    BY <1>1 DEF LivePlaces, Live

(* Without a change of the MBR the visible partitions stay.                *)
LEMMA SameMbr ==
  ASSUME mbr' = mbr
  PROVE  VisiblePlaces' = VisiblePlaces /\ Mentioned' = Mentioned
  BY DEF VisiblePlaces, Visible, Mentioned

(* A boot makes visible only what the table has, or has imported.          *)
LEMMA BootApart ==
  ASSUME Base, PartitionsApart, Boot
  PROVE  PartitionsApart'
  <1>1. /\ LivePlaces' = LivePlaces /\ gone' = gone /\ careless' = careless
        /\ behind' = behind
    BY BootLive
  <1>2. VisiblePlaces' \ gone \subseteq LivePlaces \cup (VisiblePlaces \ gone)
    <2>1. CASE mbr' = mbr
      BY <2>1, SameMbr
    <2>2. ASSUME NEW k \in Int, k >= -1, mbr'.rows = RowsFor(k),
                 NEW x \in VisiblePlaces', x \notin gone
          PROVE  x \in LivePlaces \cup (VisiblePlaces \ gone)
      <3>1. PICK r \in Rows : ram.table[r].type \in OsTypes /\ x = Place(ram.table[r])
        BY <2>2, BootVisible
      <3>2. ram.table \in {table, Imported(table, mbr.rows)}
        BY DEF Base, Ready, Boot
      <3>3. CASE ram.table = table
        BY <2>2, <3>1, <3>3, LiveIs
      <3>4. CASE ram.table = Imported(table, mbr.rows)
        BY <2>2, <3>1, <3>4, ImportedPlaces
      <3> QED
        BY <3>2, <3>3, <3>4
    <2> QED
      BY <2>1, <2>2, BootMbr
  <1>3. Partitions' \subseteq Partitions
    BY <1>1, <1>2, AllPartitions
  <1>4. careless \/ ApartBut(Partitions, behind)
    BY DEF PartitionsApart, ApartBut
  <1>5. careless' \/ ApartBut(Partitions', behind')
    BY <1>1, <1>3, <1>4, FewerApart
  <1> QED
    BY <1>5 DEF PartitionsApart, ApartBut

(* The places in memory and on the disk are the same.                      *)
LEMMA RamUsed ==
  ASSUME Base, pc = "menu"
  PROVE  Used(table) \subseteq Used(ram.table)
  <1>1. ram.table \in {table, Imported(table, mbr.rows)}
    BY DEF Base, Ready
  <1>2. table \in [Rows -> Row] /\ mbr.rows \in [Slots -> Entry]
    BY DEF Base, TypeOK, Mbr
  <1> QED
    BY <1>1, <1>2, UsedStays

(* The MBR of a boot covers all used rows of the table, as far as the      *)
(* geometry reaches.                                                       *)
LEMMA BootCovered ==
  ASSUME Base, Neat, Covered, Boot
  PROVE  Covered'
  <1> SUFFICES ASSUME ~unreviewed'
               PROVE  /\ ApartBut(LivePlaces' \cup VisiblePlaces', behind')
                      /\ \A x \in LivePlaces' : InGeometry(x) \subseteq Mentioned'
    BY BootLive DEF Covered, ApartBut
  <1>1. LivePlaces' = LivePlaces /\ unreviewed' = unreviewed /\ behind' = behind
    BY BootLive
  <1>2. /\ ApartBut(LivePlaces \cup VisiblePlaces, behind)
        /\ \A x \in LivePlaces : InGeometry(x) \subseteq Mentioned
    BY <1>1 DEF Covered
  <1>3. CASE mbr' = mbr
    <2>1. VisiblePlaces' = VisiblePlaces /\ Mentioned' = Mentioned
      BY <1>3, SameMbr
    <2> QED
      BY <1>1, <1>2, <2>1
  <1>4. ASSUME NEW k \in Int, k >= -1, mbr'.rows = RowsFor(k)
        PROVE  /\ ApartBut(LivePlaces' \cup VisiblePlaces', behind')
               /\ \A x \in LivePlaces' : InGeometry(x) \subseteq Mentioned'
    <2> DEFINE t == ram.table
               list == ShownRows(k)
               a == ChosenRow(k)
    <2>1. /\ t \in [Rows -> Row] /\ Sound(t) /\ UsedOnDisk(t)
          /\ setup.ignore \in BOOLEAN /\ pc = "menu"
      BY SetupTypes DEF Base, TypeOK, Sound, Boot
    <2>2. /\ Tidy(t, setup.ignore) /\ SamePlaces(table, t)
          /\ Used(table) \subseteq Used(t)
      BY <1>1, <2>1, RamUsed DEF Neat
    <2>3. Shown(list, t, a) \/ list = << >>
      BY <1>4, <2>1, ShownRowsAre
    <2>4. mbr'.rows = MadePartTab(t, list, a, setup.ignore)
      BY <1>4 DEF RowsFor
    <2>5. \A x \in VisiblePlaces' : \E r \in Rows : t[r].type \in OsTypes /\ x = Place(t[r])
      BY <1>4, BootVisible
    <2> HIDE DEF list, a, t
    <2>6. ASSUME NEW x \in LivePlaces
          PROVE  \E r \in Used(t) : x = Place(t[r])
      <3>1. PICK r \in Used(table) : x = Place(table[r])
        BY LiveUsed
      <3>2. r \in Used(t) /\ r \in Rows
        BY <2>2, <3>1 DEF Used
      <3>3. x = Place(t[r])
        BY <2>2, <3>1, <3>2, PlacesAre DEF SamePlaces
      <3> QED
        BY <3>2, <3>3
    <2>7. ASSUME NEW x \in VisiblePlaces'
          PROVE  \E r \in Used(t) : x = Place(t[r])
      <3>1. PICK r \in Rows : t[r].type \in OsTypes /\ x = Place(t[r])
        BY <2>5
      <3>2. r \in Used(t)
        BY <3>1, TypesApart DEF Used
      <3> QED
        BY <3>1, <3>2
    <2>8. LivePlaces' \cup VisiblePlaces' \subseteq {Place(t[r]) : r \in Used(t)}
      BY <1>1, <2>6, <2>7
    <2>9. ApartBut(LivePlaces' \cup VisiblePlaces', behind')
      <3>1. Apart(LivePlaces' \cup VisiblePlaces')
        BY <2>1, <2>2, <2>8, OrderedApart DEF Tidy
      <3> QED
        BY <3>1, FewerApart
    <2>10. ASSUME NEW x \in LivePlaces'
           PROVE  InGeometry(x) \subseteq Mentioned'
      <3>1. PICK r \in Used(t) : x = Place(t[r])
        BY <1>1, <2>6
      <3>2. \/ InGeometry(t[r]) = {}
            \/ \E h \in Slots : InGeometry(t[r]) \subseteq Area(mbr'.rows[h])
        <4>1. \/ InGeometry(t[r]) = {}
              \/ \E h \in Slots : InGeometry(t[r]) \subseteq
                                Area(MadePartTab(t, list, a, setup.ignore)[h])
          BY <2>1, <2>2, <2>3, MadeCovers
        <4> QED
          BY <2>4, <4>1
      <3>3. \A h \in Slots : Area(mbr'.rows[h]) \subseteq Mentioned'
        BY DEF Mentioned
      <3>4. InGeometry(x) = InGeometry(t[r])
        BY <3>1, PlaceAreas
      <3> QED
        BY <3>2, <3>3, <3>4
    <2> QED
      BY <2>9, <2>10
  <1> QED
    BY <1>3, <1>4, BootMbr

(* Of the MBR only the entry that fdisk changes is another one.            *)
LEMMA ChangedRows ==
  ASSUME mbr \in Mbr, NEW rows, Changed(rows)
  PROVE  /\ mbr'.rows = rows /\ table' = table /\ unreviewed' = unreviewed
         /\ setup' = setup
  BY DEF Changed, Mbr

(* An empty entry has no sectors.                                          *)
LEMMA EmptyArea ==
  Area(NoEntry) = {}
  <1>1. NoEntry.num = 0 /\ NoEntry.rel = 0
    BY DEF NoEntry
  <1>2. \A s \in 0 .. DiskEnd - 1 : ~(s >= 0 /\ s - 0 < 0)
    BY NumberBounds
  <1> QED
    BY <1>1, <1>2 DEF Area

(* Only what nobody has in sight may take space that is in use; ...        *)
LEMMA CreateCovered ==
  ASSUME Base, Covered, FdiskCreate
  PROVE  Covered'
  <1>1. PICK k \in Slots, e \in Entry :
          /\ e.type \in OsTypes /\ OnDisk(e) /\ Free(k)
          /\ \A j \in Slots : Free(j) \/ Area(mbr.rows[j]) \cap Area(e) = {}
          /\ Changed([mbr.rows EXCEPT ![k] = e])
          /\ careless' = (careless \/ unreviewed) /\ gone' = gone \ {Place(e)}
          /\ behind' = behind \cup {s \in Area(e) : s >= CylEnd}
    BY FdiskCreateIs
  <1> DEFINE rows == [mbr.rows EXCEPT ![k] = e]
  <1>2. /\ mbr \in Mbr /\ mbr.rows \in [Slots -> Entry] /\ MbrSound(mbr)
    BY DEF Base, TypeOK, Mbr
  <1>3. /\ mbr'.rows = rows /\ table' = table /\ unreviewed' = unreviewed
    BY <1>1, <1>2, ChangedRows
  <1>4. \A j \in Slots : rows[j] = IF j = k THEN e ELSE mbr.rows[j]
    BY <1>2
  <1>5. \A j \in Slots : Free(j) => Area(mbr.rows[j]) = {}
    BY <1>2, EmptyArea DEF MbrSound, Free
  <1> HIDE DEF rows
  <1>17. \A s \in behind' : s >= CylEnd
    BY <1>1 DEF Covered
  <1> SUFFICES ASSUME ~unreviewed'
               PROVE  /\ ApartBut(LivePlaces' \cup VisiblePlaces', behind')
                      /\ \A x \in LivePlaces' : InGeometry(x) \subseteq Mentioned'
    BY <1>17 DEF Covered
  <1>6. /\ ApartBut(LivePlaces \cup VisiblePlaces, behind)
        /\ \A x \in LivePlaces : InGeometry(x) \subseteq Mentioned
    BY <1>3 DEF Covered
  <1>7. LivePlaces' \subseteq LivePlaces \cup {Place(e)}
    BY <1>1, <1>3 DEF LivePlaces, Live
  <1>8. VisiblePlaces' \subseteq VisiblePlaces \cup {Place(e)}
    <2>1. VisiblePlaces' = {Place(rows[j]) : j \in {i \in Slots :
                                rows[i].type \notin {Unused, Hidden}}}
      BY <1>3 DEF VisiblePlaces, Visible
    <2> QED
      BY <1>4, <2>1 DEF VisiblePlaces, Visible
  <1>9. Mentioned \cap Area(e) = {}
    BY <1>1, <1>5 DEF Mentioned
  <1>10. \A x \in LivePlaces \cup VisiblePlaces : InGeometry(x) \subseteq Mentioned
    BY <1>6, VisibleMentioned
  <1>11. Mentioned' = UNION {Area(rows[j]) : j \in Slots}
    BY <1>3 DEF Mentioned
  <1>12. Area(e) \subseteq Mentioned'
    BY <1>1, <1>4, <1>11
  <1>13. Mentioned \subseteq Mentioned'
    <2>1. ASSUME NEW j \in Slots PROVE Area(mbr.rows[j]) \subseteq Mentioned'
      <3>1. CASE j = k
        BY <1>1, <1>5, <3>1
      <3>2. CASE j # k
        BY <1>4, <1>11, <3>2
      <3> QED
        BY <3>1, <3>2
    <2> QED
      BY <2>1 DEF Mentioned
  <1>14. Area(Place(e)) = Area(e)
    BY PlaceAreas
  <1>15. ApartBut(LivePlaces' \cup VisiblePlaces', behind')
    <2> DEFINE S == LivePlaces \cup VisiblePlaces
    <2>1. ApartBut(S, behind) /\ \A x \in S : InGeometry(x) \subseteq Mentioned
      BY <1>6, <1>10
    <2>2. LivePlaces' \cup VisiblePlaces' \subseteq S \cup {Place(e)}
      BY <1>7, <1>8
    <2> HIDE DEF S
    <2>3. ASSUME NEW x \in S PROVE Area(x) \cap Area(Place(e)) \subseteq behind'
      <3>1. ASSUME NEW s \in Area(x), s \in Area(e) PROVE s \in behind'
        <4>1. s \notin InGeometry(x)
          BY <1>9, <2>1, <3>1
        <4>2. /\ ~(s < CylEnd) /\ s \in 0 .. DiskEnd - 1 /\ DiskEnd \in Nat
              /\ CylEnd \in Nat
          BY <4>1, TableConstants, NumberBounds DEF InGeometry, Area
        <4>3. s >= CylEnd
          BY <4>2
        <4> QED
          BY <1>1, <3>1, <4>3
      <3> QED
        BY <1>14, <3>1
    <2>4. behind \subseteq behind'
      BY <1>1
    <2>5. ApartBut(S \cup {Place(e)}, behind')
      BY <2>1, <2>3, <2>4 DEF ApartBut
    <2> QED
      BY <2>2, <2>5, FewerApart
  <1>16. ASSUME NEW x \in LivePlaces'
         PROVE  InGeometry(x) \subseteq Mentioned'
    <2>1. CASE x = Place(e)
      BY <1>12, <1>14, <2>1, ReachedArea
    <2>2. CASE x # Place(e)
      <3>1. x \in LivePlaces
        BY <1>7, <2>2
      <3> QED
        BY <1>6, <1>13, <3>1
    <2> QED
      BY <2>1, <2>2
  <1> QED
    BY <1>15, <1>16

(* ... and all partitions stay apart.                                      *)
LEMMA CreateApart ==
  ASSUME Base, Covered, FdiskCreate
  PROVE  PartitionsApart'
  <1>1. /\ unreviewed' = unreviewed /\ careless' = (careless \/ unreviewed)
    BY FdiskCreateIs, ChangedRows DEF Base, TypeOK
  <1>2. CASE unreviewed
    BY <1>1, <1>2 DEF PartitionsApart
  <1>3. CASE ~unreviewed
    <2>1. ApartBut(LivePlaces' \cup VisiblePlaces', behind')
      BY <1>1, <1>3, CreateCovered DEF Covered
    <2>2. Partitions' \subseteq LivePlaces' \cup VisiblePlaces'
      BY AllPartitions
    <2>3. ApartBut(Partitions', behind')
      BY <2>1, <2>2, FewerApart
    <2> QED
      BY <2>3 DEF PartitionsApart, ApartBut
  <1> QED
    BY <1>2, <1>3

(* ... and what is deleted or retyped takes none.                          *)
LEMMA DeleteCovered ==
  ASSUME Base, Covered, PartitionsApart, FdiskDelete
  PROVE  Covered' /\ PartitionsApart'
  <1>1. PICK k \in Slots : /\ Visible(k)
                           /\ Changed([mbr.rows EXCEPT ![k] = NoEntry])
                           /\ gone' = gone \cup {Place(mbr.rows[k])}
                           /\ careless' = careless /\ behind' = behind
    BY DEF FdiskDelete
  <1> DEFINE rows == [mbr.rows EXCEPT ![k] = NoEntry]
             p == Place(mbr.rows[k])
  <1>2. mbr \in Mbr /\ mbr.rows \in [Slots -> Entry]
    BY DEF Base, TypeOK, Mbr
  <1>3. mbr'.rows = rows /\ table' = table /\ unreviewed' = unreviewed
    BY <1>1, <1>2, ChangedRows
  <1>4. \A j \in Slots : rows[j] = IF j = k THEN NoEntry ELSE mbr.rows[j]
    BY <1>2
  <1> HIDE DEF rows
  <1>5. LivePlaces' \subseteq LivePlaces /\ p \notin LivePlaces'
    BY <1>1, <1>3 DEF LivePlaces, Live
  <1>6. VisiblePlaces' \subseteq VisiblePlaces
    <2>1. VisiblePlaces' = {Place(rows[j]) : j \in {i \in Slots :
                                rows[i].type \notin {Unused, Hidden}}}
      BY <1>3 DEF VisiblePlaces, Visible
    <2>2. NoEntry.type = Unused
      BY DEF NoEntry
    <2> QED
      BY <1>4, <2>1, <2>2 DEF VisiblePlaces, Visible
  <1>7. p \in VisiblePlaces /\ Area(p) = Area(mbr.rows[k])
    BY <1>1, PlaceAreas DEF VisiblePlaces
  <1>8. Mentioned' = UNION {Area(rows[j]) : j \in Slots}
    BY <1>3 DEF Mentioned
  <1>9. Mentioned \subseteq Mentioned' \cup Area(p)
    <2>1. ASSUME NEW j \in Slots
          PROVE  Area(mbr.rows[j]) \subseteq Mentioned' \cup Area(p)
      <3>1. CASE j = k
        BY <1>7, <3>1
      <3>2. CASE j # k
        BY <1>4, <1>8, <3>2
      <3> QED
        BY <3>1, <3>2
    <2> QED
      BY <2>1 DEF Mentioned
  <1> HIDE DEF p
  <1>10. Covered'
    <2> SUFFICES ASSUME ~unreviewed'
                 PROVE  /\ ApartBut(LivePlaces' \cup VisiblePlaces', behind')
                        /\ \A x \in LivePlaces' : InGeometry(x) \subseteq Mentioned'
      BY <1>1 DEF Covered
    <2>1. /\ ApartBut(LivePlaces \cup VisiblePlaces, behind)
          /\ \A x \in LivePlaces : InGeometry(x) \subseteq Mentioned
      BY <1>3 DEF Covered
    <2>2. LivePlaces' \cup VisiblePlaces' \subseteq LivePlaces \cup VisiblePlaces
      BY <1>5, <1>6
    <2>3. ApartBut(LivePlaces' \cup VisiblePlaces', behind')
      BY <1>1, <2>1, <2>2, FewerApart
    <2>4. ASSUME NEW x \in LivePlaces' PROVE InGeometry(x) \subseteq Mentioned'
      <3>1. x \in LivePlaces /\ x # p
        BY <1>5
      <3>2. InGeometry(x) \cap Area(p) = {}
        BY <1>7, <2>1, <3>1, NoneBehind, ReachedArea DEF ApartBut
      <3>3. InGeometry(x) \subseteq Mentioned
        BY <2>1, <3>1
      <3> QED
        BY <1>9, <3>2, <3>3
    <2> QED
      BY <2>3, <2>4
  <1>11. PartitionsApart'
    <2>1. gone \subseteq gone'
      BY <1>1
    <2>2. Partitions' \subseteq Partitions
      BY <1>5, <1>6, <2>1, AllPartitions
    <2>3. careless \/ ApartBut(Partitions, behind)
      BY DEF PartitionsApart, ApartBut
    <2>4. careless' \/ ApartBut(Partitions', behind')
      BY <1>1, <2>2, <2>3, FewerApart
    <2> QED
      BY <2>4 DEF PartitionsApart, ApartBut
  <1> QED
    BY <1>10, <1>11

(* Of what the invariants are about nothing has changed.                   *)
LEMMA SameCovered ==
  ASSUME Covered, PartitionsApart, LivePlaces' = LivePlaces,
         VisiblePlaces' = VisiblePlaces, Mentioned' = Mentioned,
         UNCHANGED <<gone, careless, unreviewed, behind>>
  PROVE  Covered' /\ PartitionsApart'
  <1>1. Partitions' = Partitions
    BY AllPartitions
  <1> QED
    BY <1>1 DEF Covered, PartitionsApart, ApartBut

(* Retyping an entry changes the place of none.                            *)
LEMMA RetypeCovered ==
  ASSUME Base, Covered, PartitionsApart, FdiskRetype
  PROVE  Covered' /\ PartitionsApart'
  <1>1. PICK k \in Slots, type \in OsTypes :
          /\ Visible(k) /\ Changed([mbr.rows EXCEPT ![k].type = type])
          /\ UNCHANGED <<careless, behind, gone>>
    BY DEF FdiskRetype
  <1> DEFINE rows == [mbr.rows EXCEPT ![k].type = type]
  <1>2. mbr \in Mbr /\ mbr.rows \in [Slots -> Entry]
    BY DEF Base, TypeOK, Mbr
  <1>3. mbr'.rows = rows /\ table' = table /\ unreviewed' = unreviewed
    BY <1>1, <1>2, ChangedRows
  <1>4. \A j \in Slots : /\ rows[j].rel = mbr.rows[j].rel
                         /\ rows[j].num = mbr.rows[j].num
                         /\ j # k => rows[j].type = mbr.rows[j].type
                         /\ j = k => rows[j].type = type
    <2> TAKE j \in Slots
    <2>1. mbr.rows[j] \in Entry
      BY <1>2
    <2>2. rows[j] = IF j = k THEN [mbr.rows[j] EXCEPT !.type = type] ELSE mbr.rows[j]
      BY <1>2
    <2> HIDE DEF rows
    <2> QED
      BY <2>1, <2>2 DEF Entry
  <1> HIDE DEF rows
  <1>5. \A j \in Slots : Area(rows[j]) = Area(mbr.rows[j]) /\ Place(rows[j]) = Place(mbr.rows[j])
    BY <1>4 DEF Area, Place
  <1>6. \A j \in Slots : rows[j].type \notin {Unused, Hidden}
                         <=> mbr.rows[j].type \notin {Unused, Hidden}
    BY <1>1, <1>4, TypesApart DEF Visible
  <1>7. VisiblePlaces' = VisiblePlaces
    <2>1. VisiblePlaces' = {Place(rows[j]) : j \in {i \in Slots :
                                rows[i].type \notin {Unused, Hidden}}}
      BY <1>3 DEF VisiblePlaces, Visible
    <2> QED
      BY <1>5, <1>6, <2>1 DEF VisiblePlaces, Visible
  <1>8. Mentioned' = Mentioned
    <2>1. Mentioned' = UNION {Area(rows[j]) : j \in Slots}
      BY <1>3 DEF Mentioned
    <2> QED
      BY <1>5, <2>1 DEF Mentioned
  <1>9. LivePlaces' = LivePlaces
    BY <1>1, <1>3 DEF LivePlaces, Live
  <1> QED
    BY <1>1, <1>3, <1>7, <1>8, <1>9, SameCovered

(* What a review saves comes from the table before.                        *)
LEMMA SavedFrom ==
  ASSUME NEW t \in [Rows -> Row], Adjusted(t) \in [Rows -> Row],
         Arranged(t) = Adjusted(t), NEW ignore \in BOOLEAN, NEW r \in Rows,
         Saved(t, ignore)[r].type # Unused
  PROVE  \E s \in Used(Adjusted(t)) : Saved(t, ignore)[r] = Adjusted(t)[s]
  <1> DEFINE u == Adjusted(t)
  <1>1. Saved(t, ignore) = IF ignore THEN Compacted(u) ELSE u
    BY DEF Saved
  <1>2. u \in [Rows -> Row] /\ Saved(t, ignore)[r].type # Unused
    OBVIOUS
  <1> HIDE DEF u
  <1>3. CASE ignore
    <2>1. LeftOf(Compacted(u), u)
      BY <1>2, CompactedKeeps
    <2>2. Compacted(u)[r] # NoRow
      BY <1>1, <1>2, <1>3, NoRowType
    <2>3. PICK s \in Rows : Compacted(u)[r] = u[s]
      BY <2>1, <2>2 DEF LeftOf
    <2>4. s \in Used(u)
      BY <1>1, <1>2, <1>3, <2>3 DEF Used
    <2> QED
      BY <1>1, <1>3, <2>3, <2>4 DEF u
  <1>4. CASE ~ignore
    <2>1. Saved(t, ignore)[r] = u[r] /\ r \in Used(u)
      BY <1>1, <1>2, <1>4 DEF Used
    <2> QED
      BY <2>1 DEF u
  <1> QED
    BY <1>3, <1>4

(* A review that only half succeeds moves nothing that was in order.       *)
LEMMA ReviewStays ==
  ASSUME Base, Neat, ~unreviewed, NEW drop,
         drop \in SUBSET {r \in Rows : table[r].type \in OsTypes},
         Cardinality(drop) <= 1, NEW s \in Used(Adjusted(Kept(table, drop)))
  PROVE  \E q \in Rows : Adjusted(Kept(table, drop))[s] = table[q]
  <1> DEFINE kept == Kept(table, drop)
  <1>1. /\ table \in [Rows -> Row] /\ Sound(table) /\ UsedOnDisk(table)
        /\ Tidy(table, setup.ignore) /\ Ordered(table)
    BY DEF Base, TypeOK, Sound, Neat, Tidy
  <1>2. FitsIn(table)
    <2>1. CASE setup.ignore
      BY <1>1, <2>1 DEF Tidy
    <2>2. CASE ~setup.ignore
      <3>1. Tiled(table)
        BY <1>1, <2>2 DEF Tidy
      <3> QED
        BY <1>1, <3>1, TiledFits
    <2> QED
      BY <2>1, <2>2
  <1>3. Fits2(kept)
    BY <1>1, <1>2, KeptFits
  <1>4. kept \in [Rows -> Row] /\ UsedOnDisk(kept)
    BY <1>1, KeptSound
  <1>5. s \in Rows /\ Adjusted(kept)[s].type # Unused
    BY DEF Used
  <1>6. \A q \in Rows : kept[q] = IF q \in drop THEN NoRow ELSE table[q]
    BY DEF Kept
  <1> HIDE DEF kept
  <1>7. PICK q \in Rows : Adjusted(kept)[s] = kept[q]
    BY <1>3, <1>4, <1>5, StaysPut
  <1>8. kept[q] = table[q]
    BY <1>5, <1>6, <1>7, NoRowType
  <1> QED
    BY <1>7, <1>8 DEF kept

(* So a review keeps what is covered, and what is apart.                   *)
LEMMA ReviewCovered ==
  ASSUME Base, Neat, Covered, Review
  PROVE  Covered' /\ PartitionsApart'
  <1>1. PICK drop \in SUBSET {r \in Rows : table[r].type \in OsTypes},
             written \in BOOLEAN :
          LET kept == Kept(table, drop)
              t == Adjusted(kept)
              places == {Place(t[r]) : r \in {q \in Rows : t[q].type # Unused}}
              lost == {Place(table[r]) : r \in drop}
                      \cup {Place(mbr.rows[k]) : k \in {j \in Slots : Visible(j)}}
          IN  /\ kept \in [Rows -> Row] /\ UsedOnDisk(kept)
              /\ Arranged(kept) = t /\ ValidTable(t)
              /\ Cardinality(drop) <= 1
              /\ table' = Saved(kept, setup.ignore)
              /\ mbr' = IF written THEN [mbr EXCEPT !.rows = AllHidden] ELSE mbr
              /\ gone' = IF written THEN (gone \cup lost) \ places
                         ELSE gone \cup (lost \ places)
              /\ unreviewed' = (unreviewed /\ ~written)
              /\ behind' = IF written THEN {} ELSE behind
    BY ReviewIs
  <1> DEFINE kept == Kept(table, drop)
             t == Adjusted(kept)
             places == {Place(t[r]) : r \in Used(t)}
             dropped == {Place(table[r]) : r \in drop}
  <1>2. /\ kept \in [Rows -> Row] /\ UsedOnDisk(kept)
        /\ Arranged(kept) = t /\ ValidTable(t) /\ Cardinality(drop) <= 1
        /\ table' = Saved(kept, setup.ignore)
        /\ mbr' = IF written THEN [mbr EXCEPT !.rows = AllHidden] ELSE mbr
        /\ unreviewed' = (unreviewed /\ ~written)
        /\ behind' = IF written THEN {} ELSE behind
    BY <1>1
  <1>3. ~written => gone' = gone \cup ((dropped \cup VisiblePlaces) \ places)
    BY <1>1 DEF VisiblePlaces, Used
  <1>4. mbr \in Mbr /\ setup.ignore \in BOOLEAN
    BY SetupTypes DEF Base, TypeOK
  <1> HIDE DEF kept, t, dropped
  <1>5. t \in [Rows -> Row] /\ Ordered(t) /\ UsedOnDisk(t)
    <2>1. SoundRows(Adjusted(kept))
      BY <1>2 DEF ValidTable, t
    <2> QED
      BY <1>2, <2>1, AdjustedOrdered DEF t
  <1>6. \A S : S \subseteq places => Apart(S)
    BY <1>5, OrderedApart
  <1>7. ASSUME NEW r \in Rows, table'[r].type \in OsTypes
        PROVE  \E s \in Used(t) : table'[r] = t[s]
    <2>1. Saved(kept, setup.ignore)[r].type # Unused
      BY <1>2, <1>7, TypesApart
    <2>2. \E s \in Used(Adjusted(kept)) : Saved(kept, setup.ignore)[r] = Adjusted(kept)[s]
      BY <1>2, <1>4, <1>5, <2>1, SavedFrom DEF t
    <2> QED
      BY <1>2, <2>2 DEF t
  <1>8. LivePlaces' \subseteq places
    <2>1. ASSUME NEW r \in Rows, table'[r].type \in OsTypes
          PROVE  Place(table'[r]) \in places
      BY <1>7, <2>1
    <2> HIDE DEF places
    <2> QED
      BY <2>1 DEF LivePlaces, Live
  <1> HIDE DEF places
  <1>11. \A s \in behind' : s >= CylEnd
    BY <1>2 DEF Covered
  <1>9. CASE written
    <2>1. mbr'.rows = AllHidden
      BY <1>2, <1>4, <1>9 DEF Mbr
    <2>2. VisiblePlaces' = {}
      <3>1. \A k \in Slots : AllHidden[k].type \in {Unused, Hidden}
        <4>1. NoEntry.type = Unused
          BY DEF NoEntry
        <4> QED
          BY <4>1, AllHiddenIs
      <3> QED
        BY <2>1, <3>1 DEF VisiblePlaces, Visible
    <2>3. Apart(LivePlaces')
      BY <1>6, <1>8
    <2>4. ASSUME NEW x \in LivePlaces' PROVE InGeometry(x) \subseteq Mentioned'
      <3>1. PICK r \in Used(t) : x = Place(t[r])
        BY <1>8 DEF places
      <3>2. Area(t[r]) \subseteq Area(AllHidden[1])
        BY <1>5, AllHiddenCovers
      <3>3. Area(AllHidden[1]) \subseteq Mentioned'
        BY <2>1 DEF Mentioned, Slots
      <3> QED
        BY <3>1, <3>2, <3>3, PlaceAreas, ReachedArea
    <2>5. ApartBut(LivePlaces' \cup VisiblePlaces', behind')
      BY <2>2, <2>3, FewerApart
    <2>6. ApartBut(Partitions', behind')
      <3>1. Partitions' \subseteq LivePlaces' \cup VisiblePlaces'
        BY AllPartitions
      <3> QED
        BY <2>5, <3>1, FewerApart
    <2> QED
      BY <1>11, <2>4, <2>5, <2>6 DEF Covered, PartitionsApart, ApartBut
  <1>10. CASE ~written
    <2>1. mbr' = mbr /\ (~unreviewed' => ~unreviewed) /\ behind' = behind
      BY <1>2, <1>10
    <2>2. VisiblePlaces' = VisiblePlaces /\ Mentioned' = Mentioned
      BY <2>1, SameMbr
    <2>3. PartitionsApart'
      <3>1. VisiblePlaces' \ gone' \subseteq places
        BY <1>3, <1>10, <2>2
      <3>2. Partitions' \subseteq places
        BY <1>8, <3>1, AllPartitions
      <3>3. ApartBut(Partitions', behind')
        BY <1>6, <3>2, FewerApart
      <3> QED
        BY <3>3 DEF PartitionsApart, ApartBut
    <2>4. Covered'
      <3> SUFFICES ASSUME ~unreviewed'
                   PROVE  /\ ApartBut(LivePlaces' \cup VisiblePlaces', behind')
                          /\ \A x \in LivePlaces' : InGeometry(x) \subseteq Mentioned'
        BY <1>11 DEF Covered
      <3>1. /\ ApartBut(LivePlaces \cup VisiblePlaces, behind)
            /\ \A x \in LivePlaces : InGeometry(x) \subseteq Mentioned
        BY <2>1 DEF Covered
      <3>2. ASSUME NEW r \in Rows, table'[r].type \in OsTypes,
                   Place(table'[r]) \notin gone'
            PROVE  Place(table'[r]) \in LivePlaces
        <4>1. PICK s \in Used(t) : table'[r] = t[s]
          BY <1>7, <3>2
        <4>2. \E q \in Rows : t[s] = table[q]
          BY <1>2, <2>1, ReviewStays DEF t, kept
        <4>3. PICK q \in Rows : table'[r] = table[q]
          BY <4>1, <4>2
        <4>4. Place(table[q]) \notin gone /\ table[q].type \in OsTypes
          BY <1>3, <1>10, <3>2, <4>3
        <4> QED
          BY <4>3, <4>4, LiveIs
      <3>3. LivePlaces' \subseteq LivePlaces
        BY <3>2 DEF LivePlaces, Live
      <3>4. ApartBut(LivePlaces' \cup VisiblePlaces', behind')
        <4>1. LivePlaces' \cup VisiblePlaces' \subseteq LivePlaces \cup VisiblePlaces
          BY <2>2, <3>3
        <4> QED
          BY <2>1, <3>1, <4>1, FewerApart
      <3> QED
        BY <2>2, <3>1, <3>3, <3>4
    <2> QED
      BY <2>3, <2>4
  <1> QED
    BY <1>9, <1>10

-------------------------------------------------------------------------------
(* All steps keep both.                                                    *)
LEMMA CoveredStep ==
  ASSUME Base, Neat, Covered, PartitionsApart, [Next]_vars
  PROVE  Covered' /\ PartitionsApart'
  <1>1. CASE PowerOn
    BY <1>1, PowerOnCovered
  <1>2. CASE Boot
    BY <1>2, BootCovered, BootApart
  <1>3. CASE FdiskCreate
    BY <1>3, CreateCovered, CreateApart
  <1>4. CASE FdiskDelete
    BY <1>4, DeleteCovered
  <1>5. CASE FdiskRetype
    BY <1>5, RetypeCovered
  <1>6. CASE Review
    BY <1>6, ReviewCovered
  <1>7. CASE Off \/ UNCHANGED vars
    <2>1. UNCHANGED <<table, mbr, gone, careless, unreviewed, behind>>
      BY <1>7 DEF Off, vars, history
    <2>2. LivePlaces' = LivePlaces
      BY <2>1 DEF LivePlaces, Live
    <2> QED
      BY <2>1, <2>2, SameMbr, SameCovered
  <1> QED
    BY <1>1, <1>2, <1>3, <1>4, <1>5, <1>6, <1>7 DEF Next

(* Covered and PartitionsApart are invariants, with Base and Neat.         *)
LEMMA CoveredAlways ==
  Spec => [](OccupiedCovered /\ PartitionsApart)
  <1> DEFINE IInv == Base /\ Neat /\ Covered /\ PartitionsApart
  <1>1. Init => IInv
    BY InitBase, InitNeat, InitCovered
  <1>2. IInv /\ [Next]_vars => IInv'
    BY BaseStep, NeatStep, CoveredStep
  <1>3. IInv => OccupiedCovered /\ PartitionsApart
    BY CoversOccupied
  <1> HIDE DEF IInv
  <1> QED
    BY <1>1, <1>2, <1>3, PTL DEF Spec

(* While no review is due, every sector of a partition of the table that   *)
(* is below the end of the geometry of the BIOS (MANAGE.ASM:297) belongs   *)
(* to an entry of the MBR, shown or hidden (MAKE_PART_TAB), so that no     *)
(* other system takes it for free; whatever the end of the disk is.        *)
THEOREM OccupiedAlways ==
  Spec => []OccupiedCovered
  BY CoveredAlways, PTL

(* Partitions never share a sector, be they in the table or only in the    *)
(* MBR, whatever is booted, created, deleted and reviewed, unless one is   *)
(* created while a review is due; excepted are only sectors behind the     *)
(* geometry that another system has given to a partition since the last    *)
(* review, none at all on a disk the geometry reaches the end of.          *)
THEOREM ApartAlways ==
  Spec => []PartitionsApart
  BY CoveredAlways, PTL
===============================================================================
