---------------------------- MODULE FatFormatProofs ----------------------------
(***************************************************************************)
(* For all layouts, sector and disk sizes, sets of unreadable sectors and  *)
(* any number of formats, edits of the row and failing transfers: what     *)
(* format_fat and its two cache blocks write, and which bad-cluster marks  *)
(* the FAT copies carry.                                                   *)
(***************************************************************************)
EXTENDS FatFormat, FiniteSetTheorems, TLAPS

(* Quotient and remainder of natural numbers.                              *)
LEMMA DivMod ==
  ASSUME NEW a \in Nat, NEW t \in Nat \ {0}
  PROVE  /\ a = t * (a \div t) + (a % t)
         /\ a \div t \in Nat /\ a % t \in 0 .. t - 1
  OBVIOUS

(* Division is monotonic.                                                  *)
LEMMA DivMonotonic ==
  ASSUME NEW a \in Nat, NEW b \in Nat, NEW t \in Nat \ {0}, a <= b
  PROVE  a \div t <= b \div t
  <1>1. PICK p \in Nat, r \in 0 .. t - 1 : a = t * p + r /\ a \div t = p
    BY DivMod
  <1>2. PICK q \in Nat, s \in 0 .. t - 1 : b = t * q + s /\ b \div t = q
    BY DivMod
  <1>3. CASE q < p
    <2>1. t * q + t <= t * p
      BY <1>3
    <2> QED
      BY <1>1, <1>2, <2>1
  <1> QED
    BY <1>1, <1>2, <1>3

(* A set of natural numbers has a least member.                            *)
LEMMA LeastExists ==
  ASSUME NEW S, S \subseteq Nat, S # {}
  PROVE  \E x \in S : \A y \in S : x <= y
  <1>1. \E x \in S : \A y \in S : ~(<<y, x>> \in OpToRel(<, Nat))
    BY WFMin, NatLessThanWellFounded
  <1>2. \A x, y \in S : ~(<<y, x>> \in OpToRel(<, Nat)) => x <= y
    BY DEF OpToRel
  <1> QED
    BY <1>1, <1>2

(* A bounded one has a greatest member.                                    *)
LEMMA GreatestExists ==
  ASSUME NEW S, S \subseteq Nat, S # {}, NEW n \in Nat, \A x \in S : x <= n
  PROVE  \E x \in S : \A y \in S : x >= y
  <1> DEFINE T == {n - x : x \in S}
  <1>0. \A x \in S : x \in Nat /\ x <= n /\ n - x \in Nat
    OBVIOUS
  <1>1. T \subseteq Nat /\ T # {}
    BY <1>0
  <1>2. PICK t \in T : \A u \in T : t <= u
    <2> HIDE DEF T
    <2> QED
      BY <1>1, LeastExists
  <1>3. PICK x \in S : t = n - x
    OBVIOUS
  <1>4. ASSUME NEW y \in S PROVE x >= y
    <2>1. t <= n - y
      BY <1>2
    <2> QED
      BY <1>0, <1>3, <2>1
  <1> QED
    BY <1>4

-------------------------------------------------------------------------------
(* Geometry.                                                               *)

(* What FormatConstants and LayoutConstants say of one layout.             *)
LEMMA LayoutFacts ==
  ASSUME NEW L \in Layouts
  PROVE  /\ L.base \in Nat /\ L.total \in Nat /\ L.width \in {3, 4, 8}
         /\ L.res \in Nat /\ L.fat \in Nat /\ L.root \in Nat
         /\ L.clust \in Nat \ {0}
         /\ \A s \in 0..L.total - 1 : L.base + s \in Disk
         /\ NonData(L) = L.res + 2 * L.fat + L.root
         /\ NonData(L) \in Nat /\ NonData(L) < L.total
         /\ ClusterCount(L) \in Nat
         /\ L.width * (ClusterCount(L) + 3) <= L.fat * SectNibbles
         /\ IF Fat32(L) THEN L.res > 8 /\ L.root = 0 /\ ClusterCount(L) > 0
            ELSE L.res > 0 /\ L.root > 0
  <1>1. L \in Layout /\ Inside(L) \subseteq Disk /\ NonData(L) < L.total
        /\ L.width * (ClusterCount(L) + 3) <= L.fat * SectNibbles
        /\ IF Fat32(L) THEN L.res > 8 /\ L.root = 0 /\ ClusterCount(L) > 0
           ELSE L.res > 0 /\ L.root > 0
    BY LayoutConstants
  <1>2. L.base \in Nat /\ L.total \in Nat /\ L.width \in {3, 4, 8}
        /\ L.res \in Nat /\ L.fat \in Nat /\ L.root \in Nat
        /\ L.clust \in Nat \ {0}
    BY <1>1 DEF Layout
  <1>3. NonData(L) = L.res + 2 * L.fat + L.root /\ NonData(L) \in Nat
    BY <1>2 DEF NonData
  <1>4. \A s \in 0..L.total - 1 : L.base + s \in Disk
    BY <1>1, <1>2 DEF Inside
  <1>5. ClusterCount(L) \in Nat
    <2>1. L.total - NonData(L) \in Nat
      BY <1>1, <1>2, <1>3
    <2> QED
      BY <1>2, <2>1, DivMod DEF ClusterCount
  <1> QED
    BY <1>1, <1>2, <1>3, <1>4, <1>5

(* The sectors of a FAT copy, relative to the row.                         *)
CopySectors(L, copy) == FatStart(L, copy) .. FatStart(L, copy) + L.fat - 1

(* The copies lie in the FAT area, apart from each other, on the disk.     *)
LEMMA CopyFacts ==
  ASSUME NEW L \in Layouts, NEW copy \in Copies, NEW s \in CopySectors(L, copy)
  PROVE  /\ s \in Nat /\ s \in L.res .. L.res + 2 * L.fat - 1
         /\ s < NonData(L)
         /\ L.base + s \in FatArea(L) /\ L.base + s \in Disk
         /\ s \in 0..DiskSize
         /\ \A k \in Copies : k # copy => s \notin CopySectors(L, k)
  <1>1. copy = 0 \/ copy = 1
    BY DEF Copies
  <1>2. FatStart(L, 0) = L.res /\ FatStart(L, 1) = L.res + L.fat
    BY LayoutFacts DEF FatStart
  <1>3. s \in Nat /\ s \in L.res .. L.res + 2 * L.fat - 1
    BY <1>1, <1>2, LayoutFacts DEF CopySectors
  <1>4. s < NonData(L) /\ s \in 0..L.total - 1
    BY <1>3, LayoutFacts
  <1>5. L.base + s \in FatArea(L) /\ L.base + s \in Disk
    BY <1>3, <1>4, LayoutFacts DEF FatArea
  <1>6. s \in 0..DiskSize
    BY <1>3, <1>5, LayoutFacts, FormatConstants DEF Disk
  <1>7. \A k \in Copies : k # copy => s \notin CopySectors(L, k)
    BY <1>1, <1>2, LayoutFacts DEF CopySectors, Copies
  <1> QED
    BY <1>3, <1>4, <1>5, <1>6, <1>7

(* The data sectors, the root directory and the boot sectors of a row lie  *)
(* inside it and outside its FATs.                                         *)
LEMMA RootFacts ==
  ASSUME NEW L \in Layouts
  PROVE  /\ RootSectors(L) # {}
         /\ \A s \in RootSectors(L) : s \in L.res + 2 * L.fat .. L.total - 1
  <1>1. CASE Fat32(L)
    <2>1. ClusterToSector(L, 2) = NonData(L)
      BY LayoutFacts DEF ClusterToSector
    <2>2. L.clust <= L.total - NonData(L)
      <3>1. L.total - NonData(L) \in Nat /\ L.clust \in Nat \ {0}
        BY LayoutFacts
      <3>2. PICK r \in 0 .. L.clust - 1 :
              L.total - NonData(L) = L.clust * ClusterCount(L) + r
        BY <3>1, DivMod DEF ClusterCount
      <3>3. L.clust * ClusterCount(L) >= L.clust
        BY <1>1, <3>1, LayoutFacts
      <3> QED
        BY <3>1, <3>2, <3>3, LayoutFacts
    <2>3. NonData(L) = L.res + 2 * L.fat
      BY <1>1, LayoutFacts
    <2>4. RootSectors(L) = {NonData(L) + i : i \in 0 .. L.clust - 1}
      BY <1>1, <2>1 DEF RootSectors
    <2> QED
      BY <2>2, <2>3, <2>4, LayoutFacts
  <1>2. CASE ~Fat32(L)
    <2>1. RootSectors(L) = {L.res + 2 * L.fat + i : i \in 0 .. L.root - 1}
      BY <1>2 DEF RootSectors
    <2> QED
      BY <1>2, <2>1, LayoutFacts
  <1> QED
    BY <1>1, <1>2

LEMMA BootFacts ==
  ASSUME NEW L \in Layouts, NEW s \in BootSectors(L)
  PROVE  s \in 0 .. L.total - 1
  <1>1. s \in 0..8 /\ (~Fat32(L) => s = 0)
    BY DEF BootSectors
  <1> QED
    BY <1>1, LayoutFacts

(* A sector below the end of the row belongs to a cluster whose entry      *)
(* fat_set_table_entry accepts.                                            *)
LEMMA ClusterFacts ==
  ASSUME NEW L \in Layouts, NEW s \in NonData(L) .. L.total - 1
  PROVE  SectorToCluster(L, s) \in 2 .. ClusterCount(L) + 2
  <1>1. s - NonData(L) \in Nat /\ L.total - NonData(L) \in Nat
        /\ s - NonData(L) <= L.total - NonData(L) /\ L.clust \in Nat \ {0}
    BY LayoutFacts
  <1>2. (s - NonData(L)) \div L.clust <= ClusterCount(L)
    BY <1>1, DivMonotonic DEF ClusterCount
  <1>3. (s - NonData(L)) \div L.clust \in Nat
    BY <1>1, DivMod
  <1> QED
    BY <1>2, <1>3, LayoutFacts DEF SectorToCluster

(* The sectors an entry lies in: one, or two neighbours; all in the FAT.   *)
LEMMA EntryFacts ==
  ASSUME NEW L \in Layouts, NEW c \in 2 .. ClusterCount(L) + 2
  PROVE  /\ EntrySectors(L, c) # {}
         /\ \A s \in EntrySectors(L, c) : s \in 0 .. L.fat - 1
         /\ \E q \in Nat : EntrySectors(L, c) \subseteq {q, q + 1}
  <1> DEFINE T == SectNibbles
             w == L.width
             q == (w * c) \div T
  <1>1. T \in Nat \ {0} /\ T >= 8 /\ w \in {3, 4, 8} /\ c \in Nat
        /\ L.fat \in Nat /\ ClusterCount(L) \in Nat
    BY LayoutFacts, FormatConstants
  <1>2. w * c \in Nat /\ w * c + w <= L.fat * T
    <2>1. w * (ClusterCount(L) + 3) <= L.fat * T
      BY LayoutFacts
    <2>2. w * c + w <= w * (ClusterCount(L) + 3)
      BY <1>1
    <2>3. L.fat * T \in Nat /\ w * (ClusterCount(L) + 3) \in Nat
      BY <1>1
    <2> QED
      BY <1>1, <2>1, <2>2, <2>3
  <1>3. q \in Nat /\ w * c = T * q + ((w * c) % T)
        /\ (w * c) % T \in 0 .. T - 1
    BY <1>1, <1>2, DivMod
  <1>4. EntryNibbles(L, c) = w * c .. w * c + w - 1
    BY DEF EntryNibbles
  <1> HIDE DEF T, w, q
  <1>5. ASSUME NEW n \in EntryNibbles(L, c)
        PROVE  /\ n \div T \in {q, q + 1}
               /\ n \div T \in 0 .. L.fat - 1
    <2> DEFINE p == n \div T
    <2>1. n \in Nat /\ w * c <= n /\ n < w * c + T /\ n < L.fat * T
      BY <1>1, <1>2, <1>4, <1>5
    <2>2. n = T * p + (n % T) /\ p \in Nat /\ n % T \in 0 .. T - 1
      BY <1>1, <2>1, DivMod
    <2> HIDE DEF p
    <2>3. q <= p
      <3>1. CASE p < q
        <4>1. T * p + T <= T * q
          BY <1>1, <1>3, <2>2, <3>1
        <4> QED
          BY <1>1, <1>3, <2>1, <2>2, <4>1
      <3> QED
        BY <1>3, <2>2, <3>1
    <2>4. p <= q + 1
      <3>1. CASE p > q + 1
        <4>1. T * q + 2 * T <= T * p
          BY <1>1, <1>3, <2>2, <3>1
        <4> QED
          BY <1>1, <1>3, <2>1, <2>2, <4>1
      <3> QED
        BY <1>3, <2>2, <3>1
    <2>5. p < L.fat
      <3>1. CASE p >= L.fat
        <4>1. T * L.fat <= T * p
          BY <1>1, <2>2, <3>1
        <4> QED
          BY <1>1, <2>1, <2>2, <4>1
      <3> QED
        BY <1>1, <2>2, <3>1
    <2>6. p \in {q, q + 1} /\ p \in 0 .. L.fat - 1
      BY <1>1, <1>3, <2>2, <2>3, <2>4, <2>5
    <2> QED
      BY <2>6 DEF p
  <1>6. w * c \in EntryNibbles(L, c)
    BY <1>1, <1>2, <1>4
  <1>7. EntrySectors(L, c) = {n \div T : n \in EntryNibbles(L, c)}
    BY DEF EntrySectors, T
  <1> QED
    BY <1>3, <1>5, <1>6, <1>7

(* The sectors fat_set_table_entry visits are those of the entry.          *)
LEMMA VisitedSectors ==
  ASSUME NEW L \in Layouts, NEW c \in 2 .. ClusterCount(L) + 2
  PROVE  LET S == EntrySectors(L, c) IN
         /\ Min(S) \in S /\ Max(S) \in S
         /\ S = {Min(S), Max(S)}
         /\ Cardinality(S) = 1 => S = {Min(S)}
  <1> DEFINE S == EntrySectors(L, c)
  <1>1. S # {} /\ \A s \in S : s \in 0 .. L.fat - 1
    BY EntryFacts
  <1>2. PICK q \in Nat : S \subseteq {q, q + 1}
    BY EntryFacts
  <1>3. S \subseteq Nat /\ L.fat \in Nat /\ \A s \in S : s <= L.fat
    BY <1>1, LayoutFacts
  <1> HIDE DEF S
  <1>4. Min(S) \in S /\ \A y \in S : Min(S) <= y
    <2>1. \E x \in S : \A y \in S : x <= y
      BY <1>1, <1>3, LeastExists
    <2> QED
      BY <2>1 DEF Min
  <1>5. Max(S) \in S /\ \A y \in S : Max(S) >= y
    <2>1. \E x \in S : \A y \in S : x >= y
      BY <1>1, <1>3, GreatestExists
    <2> QED
      BY <2>1 DEF Max
  <1>6. S = {Min(S), Max(S)}
    <2>1. ASSUME NEW m \in S, NEW n \in S, NEW y \in S, m <= y, n >= y
          PROVE  y \in {m, n}
      BY <1>2, <2>1
    <2>2. \A y \in S : y \in {Min(S), Max(S)}
      BY <1>4, <1>5, <2>1
    <2> QED
      BY <1>4, <1>5, <2>2
  <1>7. ASSUME Cardinality(S) = 1 PROVE S = {Min(S)}
    <2>1. IsFiniteSet(0 .. L.fat)
      BY <1>3, FS_Interval
    <2>2. S \in SUBSET (0 .. L.fat)
      BY <1>3
    <2>3. IsFiniteSet(S)
      BY <2>1, <2>2, FS_Subset
    <2> QED
      BY <1>4, <1>7, <2>3, FS_Singleton
  <1> QED
    BY <1>4, <1>5, <1>6, <1>7 DEF S

(* Marks are nibbles of a sector, and an entry leaves none elsewhere.      *)
LEMMA MarkFacts ==
  ASSUME NEW L \in Layouts, NEW c \in 2 .. ClusterCount(L) + 2, NEW s
  PROVE  /\ NibblesIn(L, c, s) \in SUBSET Nibbles
         /\ s \notin EntrySectors(L, c) => NibblesIn(L, c, s) = {}
  <1>1. \A n \in EntryNibbles(L, c) : n \in Nat
    BY LayoutFacts DEF EntryNibbles
  <1>2. \A n \in Nat : n % SectNibbles \in Nibbles
    BY FormatConstants, DivMod DEF Nibbles
  <1> QED
    BY <1>1, <1>2 DEF NibblesIn, EntrySectors

-------------------------------------------------------------------------------
(* What the cache routines do to an io record.                             *)
IoRecords == [disk : [Disk -> SUBSET Nibbles],
              cache : [Copies -> Block({Row}, 0..DiskSize, SUBSET Nibbles)],
              faults : 0..MaxFaults, wrote : SUBSET Disk, ok : BOOLEAN]

(* A changed block belongs to the FAT copy whose block it is.              *)
Own(o, L) ==
  \A copy \in Copies :
    o.cache[copy].dirty => o.cache[copy].sector \in CopySectors(L, copy)

(* FAT sector s of a copy, on disk and in the cache, has the marks lo and  *)
(* no others than up.                                                      *)
Carries(o, L, copy, s, lo, up) ==
  LET b == o.cache[copy]
      a == L.base + s
  IN  /\ InCache(b, Row, s) => lo \subseteq b.data /\ b.data \subseteq up
      /\ ~(InCache(b, Row, s) /\ b.dirty) => lo \subseteq o.disk[a]
      /\ o.disk[a] \subseteq up

(* A routine that goes from o to f: transfers that have failed stay        *)
(* counted, and it writes the row's FATs only.                             *)
Moves(o, f, L) ==
  /\ f \in IoRecords /\ o.faults <= f.faults
  /\ Own(o, L) => Own(f, L) /\ f.wrote \subseteq o.wrote \cup FatArea(L)

LEMMA MovesOn ==
  ASSUME NEW L, NEW o \in IoRecords, NEW f, NEW g,
         Moves(o, f, L), Moves(f, g, L)
  PROVE  Moves(o, g, L)
  <1>1. o.faults \in Nat /\ f.faults \in Nat /\ g.faults \in Nat
    BY FormatConstants DEF Moves, IoRecords
  <1>2. o.faults <= g.faults
    BY <1>1 DEF Moves
  <1> QED
    BY <1>2 DEF Moves

(* A run without a failed transfer had none before.                        *)
LEMMA NoFaultBefore ==
  ASSUME NEW L, NEW o \in IoRecords, NEW f, Moves(o, f, L), f.faults = 0
  PROVE  o.faults = 0
  <1>1. o.faults \in Nat /\ o.faults <= 0
    BY FormatConstants DEF Moves, IoRecords
  <1> QED
    BY <1>1

(* Fields of an io record.                                                 *)
LEMMA IoFacts ==
  ASSUME NEW o \in IoRecords
  PROVE  /\ o.disk \in [Disk -> SUBSET Nibbles]
         /\ o.cache \in [Copies -> Block({Row}, 0..DiskSize, SUBSET Nibbles)]
         /\ o.faults \in Nat /\ o.faults <= MaxFaults
         /\ o.wrote \in SUBSET Disk /\ o.ok \in BOOLEAN
         /\ \A copy \in Copies :
              /\ o.cache[copy] \in Block({Row}, 0..DiskSize, SUBSET Nibbles)
              /\ o.cache[copy].part \in {Row, None}
              /\ o.cache[copy].sector \in 0..DiskSize
              /\ o.cache[copy].data \in SUBSET Nibbles
              /\ o.cache[copy].dirty \in BOOLEAN
  <1>1. o.cache \in [Copies -> Block({Row}, 0..DiskSize, SUBSET Nibbles)]
    BY DEF IoRecords
  <1>2. \A b \in Block({Row}, 0..DiskSize, SUBSET Nibbles) :
          /\ b.part \in {Row, None} /\ b.sector \in 0..DiskSize
          /\ b.data \in SUBSET Nibbles /\ b.dirty \in BOOLEAN
    BY DEF Block
  <1>3. o.faults \in Nat /\ o.faults <= MaxFaults
    BY FormatConstants DEF IoRecords
  <1>4. o.disk \in [Disk -> SUBSET Nibbles] /\ o.wrote \in SUBSET Disk
        /\ o.ok \in BOOLEAN
    BY DEF IoRecords
  <1> QED
    BY <1>1, <1>2, <1>3, <1>4

LEMMA MayFailFacts ==
  ASSUME NEW o \in IoRecords, FALSE \in MayFail(o)
  PROVE  o.faults + 1 \in 0..MaxFaults
  <1>1. o.faults < MaxFaults
    BY DEF MayFail
  <1>2. o.faults \in Nat
    BY IoFacts
  <1> QED
    BY <1>1, <1>2, FormatConstants

(* cache_flush: what is left of the block, and what failed.                *)
LEMMA FlushStep ==
  ASSUME NEW L \in Layouts, NEW o \in IoRecords, NEW copy \in Copies,
         NEW f \in FlushOutcomes(o, L, copy)
  PROVE  /\ Moves(o, f, L)
         /\ f.cache[copy].part = o.cache[copy].part
         /\ f.cache[copy].sector = o.cache[copy].sector
         /\ f.cache[copy].data = o.cache[copy].data
         /\ f.cache[copy].dirty => o.cache[copy].dirty
         /\ \A k \in Copies : k # copy => f.cache[k] = o.cache[k]
         /\ Own(o, L) /\ f.faults = 0
              => /\ f.ok /\ ~NeedsWrite(f.cache[copy])
                 /\ f.disk = FlushDisk(o.disk, o.cache[copy],
                                       L.base + o.cache[copy].sector, TRUE)
                 /\ NeedsWrite(o.cache[copy])
                      => o.cache[copy].sector \in CopySectors(L, copy)
  <1> DEFINE b == o.cache[copy]
             a == L.base + b.sector
             d == f.cache[copy]
             BlockSet == Block({Row}, 0..DiskSize, SUBSET Nibbles)
  <1>1. PICK ok \in FlushResults(o, copy, a) : f = FlushTo(o, copy, a, ok)
    BY DEF FlushOutcomes
  <1>2. /\ f.disk = FlushDisk(o.disk, b, a, ok)
        /\ f.cache = [o.cache EXCEPT ![copy] = FlushBlock(b, ok)]
        /\ f.faults = o.faults + (IF ok \/ a \notin Disk THEN 0 ELSE 1)
        /\ f.wrote = o.wrote \cup (IF NeedsWrite(b) /\ ok THEN {a} ELSE {})
        /\ f.ok = ok
        /\ f = [disk |-> f.disk, cache |-> f.cache, faults |-> f.faults,
                wrote |-> f.wrote, ok |-> f.ok]
    BY <1>1 DEF FlushTo
  <1>3. ok \in BOOLEAN /\ b \in BlockSet
        /\ (~NeedsWrite(b) => ok)
        /\ (NeedsWrite(b) /\ ok => a \in Disk)
        /\ (~ok /\ a \in Disk => o.faults + 1 \in 0..MaxFaults)
    <2>1. ok \in BOOLEAN
      BY DEF FlushResults, MayFail
    <2>2. ~NeedsWrite(b) => ok
      BY DEF FlushResults
    <2>3. NeedsWrite(b) /\ ok => a \in Disk
      BY DEF FlushResults
    <2>4. ~ok /\ a \in Disk => FALSE \in MayFail(o)
      BY <2>1 DEF FlushResults
    <2> QED
      BY <2>1, <2>2, <2>3, <2>4, MayFailFacts, IoFacts
  <1>4. FlushBlock(b, ok) \in BlockSet
        /\ FlushBlock(b, ok).part = b.part
        /\ FlushBlock(b, ok).sector = b.sector
        /\ FlushBlock(b, ok).data = b.data
        /\ FlushBlock(b, ok).dirty = (b.dirty /\ ~(NeedsWrite(b) /\ ok))
    BY <1>3 DEF FlushBlock, Block
  <1>5. d = FlushBlock(b, ok) /\ \A k \in Copies : k # copy => f.cache[k] = o.cache[k]
    BY <1>2, IoFacts
  <1>6. f \in IoRecords
    <2>0. b.data \in SUBSET Nibbles /\ o.disk \in [Disk -> SUBSET Nibbles]
      BY IoFacts
    <2>1. f.disk \in [Disk -> SUBSET Nibbles]
      BY <1>2, <2>0 DEF FlushDisk
    <2>2. f.cache \in [Copies -> BlockSet]
      BY <1>2, <1>4, IoFacts
    <2>3. f.faults \in 0..MaxFaults
      BY <1>2, <1>3, IoFacts, FormatConstants
    <2>4. f.wrote \in SUBSET Disk
      BY <1>2, <1>3, IoFacts
    <2>5. f.ok \in BOOLEAN
      BY <1>2, <1>3
    <2> QED
      BY <1>2, <2>1, <2>2, <2>3, <2>4, <2>5 DEF IoRecords
  <1>7. o.faults <= f.faults
    BY <1>2, IoFacts
  <1>8. ASSUME Own(o, L)
        PROVE  /\ Own(f, L) /\ f.wrote \subseteq o.wrote \cup FatArea(L)
               /\ NeedsWrite(b) => b.sector \in CopySectors(L, copy)
    <2>1. NeedsWrite(b) => b.sector \in CopySectors(L, copy)
      BY <1>8 DEF Own, NeedsWrite
    <2>2. NeedsWrite(b) => a \in FatArea(L)
      BY <2>1, CopyFacts
    <2>3. f.wrote \subseteq o.wrote \cup FatArea(L)
      BY <1>2, <2>2
    <2>4. Own(f, L)
      BY <1>4, <1>5, <1>8 DEF Own
    <2> QED
      BY <2>1, <2>3, <2>4
  <1>9. ASSUME Own(o, L), f.faults = 0
        PROVE  f.ok /\ ~NeedsWrite(d) /\ f.disk = FlushDisk(o.disk, b, a, TRUE)
    <2>1. NeedsWrite(b) => a \in Disk
      BY <1>8, <1>9, CopyFacts
    <2>2. ok
      BY <1>2, <1>3, <1>9, <2>1, IoFacts
    <2> QED
      BY <1>2, <1>4, <1>5, <2>2 DEF NeedsWrite
  <1>10. Moves(o, f, L)
    BY <1>6, <1>7, <1>8 DEF Moves
  <1>11. d.part = b.part /\ d.sector = b.sector /\ d.data = b.data
         /\ (d.dirty => b.dirty)
    BY <1>4, <1>5
  <1> QED
    BY <1>5, <1>8, <1>9, <1>10, <1>11

(* Without failures cache_flush changes no mark, in the cache or on disk.  *)
LEMMA FlushCarries ==
  ASSUME NEW L \in Layouts, NEW o \in IoRecords, NEW copy \in Copies,
         NEW f \in FlushOutcomes(o, L, copy), Own(o, L), f.faults = 0,
         NEW k \in Copies, NEW s \in CopySectors(L, k), NEW lo, NEW up,
         Carries(o, L, k, s, lo, up)
  PROVE  Carries(f, L, k, s, lo, up)
  <1> DEFINE b == o.cache[copy]
             d == f.cache[copy]
             a == L.base + b.sector
  <1>1. /\ d.part = b.part /\ d.sector = b.sector /\ d.data = b.data
        /\ d.dirty => b.dirty
        /\ k # copy => f.cache[k] = o.cache[k]
        /\ ~NeedsWrite(d)
        /\ f.disk = FlushDisk(o.disk, b, a, TRUE)
        /\ NeedsWrite(b) => b.sector \in CopySectors(L, copy)
    <2>1. d.part = b.part /\ d.sector = b.sector /\ d.data = b.data
      BY FlushStep
    <2>2. d.dirty => b.dirty
      BY FlushStep, Zenon
    <2>3. k # copy => f.cache[k] = o.cache[k]
      BY FlushStep
    <2>4. ~NeedsWrite(d)
      BY FlushStep
    <2>5. f.disk = FlushDisk(o.disk, b, a, TRUE)
      BY FlushStep
    <2>6. NeedsWrite(b) => b.sector \in CopySectors(L, copy)
      BY FlushStep
    <2> QED
      BY <2>1, <2>2, <2>3, <2>4, <2>5, <2>6
  <1>2. b.sector \in Nat /\ s \in Nat /\ L.base \in Nat /\ L.base + s \in Disk
    BY IoFacts, CopyFacts, LayoutFacts
  <1>3. CASE NeedsWrite(b) /\ b.sector = s
    <2>1. k = copy
      BY <1>1, <1>3, CopyFacts
    <2>2. f.disk[L.base + s] = b.data
      BY <1>1, <1>2, <1>3, IoFacts DEF FlushDisk
    <2>3. InCache(b, Row, s)
      BY <1>3, IoFacts DEF InCache, NeedsWrite
    <2> QED
      BY <1>1, <2>1, <2>2, <2>3 DEF Carries
  <1>4. CASE ~(NeedsWrite(b) /\ b.sector = s)
    <2>1. f.disk[L.base + s] = o.disk[L.base + s]
      BY <1>1, <1>2, <1>4, IoFacts DEF FlushDisk
    <2>2. InCache(b, Row, s) => ~b.dirty
      BY <1>4, FormatConstants DEF InCache, NeedsWrite
    <2>3. InCache(d, Row, s) <=> InCache(b, Row, s)
      BY <1>1 DEF InCache
    <2>4. CASE k # copy
      BY <1>1, <2>1, <2>4 DEF Carries
    <2>5. CASE k = copy
      BY <1>1, <2>1, <2>2, <2>3, <2>5 DEF Carries
    <2> QED
      BY <2>4, <2>5
  <1> QED
    BY <1>3, <1>4

(* From o to f only the block of one copy has been replaced.               *)
Holds(o, f, copy, b) ==
  /\ f \in IoRecords
  /\ f.disk = o.disk /\ f.faults = o.faults /\ f.wrote = o.wrote
  /\ f.cache = [o.cache EXCEPT ![copy] = b]

LEMMA HoldsFacts ==
  ASSUME NEW o \in IoRecords, NEW copy \in Copies, NEW b, NEW f,
         Holds(o, f, copy, b)
  PROVE  /\ f \in IoRecords /\ f.cache[copy] = b
         /\ f.disk = o.disk /\ f.faults = o.faults /\ f.wrote = o.wrote
         /\ \A k \in Copies : k # copy => f.cache[k] = o.cache[k]
  BY IoFacts DEF Holds

(* A record with another block.                                            *)
LEMMA BlockReplaced ==
  ASSUME NEW o \in IoRecords, NEW copy \in Copies,
         NEW b \in Block({Row}, 0..DiskSize, SUBSET Nibbles)
  PROVE  /\ Holds(o, [o EXCEPT !.cache = [@ EXCEPT ![copy] = b]], copy, b)
         /\ [o EXCEPT !.cache = [@ EXCEPT ![copy] = b]].ok = o.ok
         /\ Holds(o, [o EXCEPT !.ok = TRUE,
                               !.cache = [@ EXCEPT ![copy] = b]], copy, b)
         /\ [o EXCEPT !.ok = TRUE, !.cache = [@ EXCEPT ![copy] = b]].ok = TRUE
  <1> DEFINE c == [o.cache EXCEPT ![copy] = b]
             f == [o EXCEPT !.cache = c]
             g == [o EXCEPT !.ok = TRUE, !.cache = c]
  <1>1. c \in [Copies -> Block({Row}, 0..DiskSize, SUBSET Nibbles)]
    BY IoFacts
  <1>2. f = [o EXCEPT !.cache = [@ EXCEPT ![copy] = b]]
        /\ g = [o EXCEPT !.ok = TRUE, !.cache = [@ EXCEPT ![copy] = b]]
    BY DEF IoRecords
  <1> HIDE DEF c
  <1>3. f \in IoRecords /\ f.disk = o.disk /\ f.faults = o.faults
        /\ f.wrote = o.wrote /\ f.cache = c /\ f.ok = o.ok
    BY <1>1 DEF IoRecords
  <1>4. g \in IoRecords /\ g.disk = o.disk /\ g.faults = o.faults
        /\ g.wrote = o.wrote /\ g.cache = c /\ g.ok = TRUE
    BY <1>1 DEF IoRecords
  <1> HIDE DEF f, g
  <1>5. Holds(o, f, copy, b) /\ Holds(o, g, copy, b)
    BY <1>3, <1>4 DEF Holds, c
  <1> QED
    BY <1>2, <1>3, <1>4, <1>5

(* A block that changes only within its own copy moves on.                 *)
LEMMA HoldsMoves ==
  ASSUME NEW L \in Layouts, NEW o \in IoRecords, NEW copy \in Copies,
         NEW f, NEW b, Holds(o, f, copy, b),
         \/ b.sector \in CopySectors(L, copy)
         \/ b.sector = o.cache[copy].sector /\ b.dirty = o.cache[copy].dirty
  PROVE  Moves(o, f, L)
  <1>1. f \in IoRecords /\ f.cache[copy] = b /\ f.faults = o.faults
        /\ f.wrote = o.wrote
        /\ \A k \in Copies : k # copy => f.cache[k] = o.cache[k]
    BY HoldsFacts
  <1>2. ASSUME Own(o, L) PROVE Own(f, L)
    <2>1. ASSUME NEW k \in Copies, f.cache[k].dirty
          PROVE  f.cache[k].sector \in CopySectors(L, k)
      BY <1>1, <1>2, <2>1 DEF Own
    <2> QED
      BY <2>1 DEF Own
  <1>3. o.faults <= f.faults
    BY <1>1, IoFacts
  <1> QED
    BY <1>1, <1>2, <1>3 DEF Moves

LEMMA CountFacts ==
  ASSUME NEW o \in IoRecords, FALSE \in MayFail(o)
  PROVE  /\ Count(o, FALSE) \in IoRecords
         /\ Count(o, FALSE).disk = o.disk /\ Count(o, FALSE).cache = o.cache
         /\ Count(o, FALSE).wrote = o.wrote
         /\ Count(o, FALSE).faults = o.faults + 1
         /\ Count(o, FALSE).ok = FALSE
         /\ \A L : Moves(o, Count(o, FALSE), L)
  <1> DEFINE c == Count(o, FALSE)
  <1>1. o.faults + 1 \in 0..MaxFaults /\ o.faults \in Nat
    BY MayFailFacts, IoFacts
  <1>2. c = [o EXCEPT !.faults = o.faults + 1, !.ok = FALSE]
    BY DEF Count, IoRecords
  <1>3. c \in IoRecords /\ c.disk = o.disk /\ c.cache = o.cache
        /\ c.wrote = o.wrote /\ c.faults = o.faults + 1 /\ c.ok = FALSE
    BY <1>1, <1>2 DEF IoRecords
  <1> HIDE DEF c
  <1>4. o.faults <= c.faults
    BY <1>1, <1>3
  <1>5. \A L : Moves(o, c, L)
    BY <1>3, <1>4 DEF Moves, Own
  <1> QED
    BY <1>3, <1>5 DEF c

(* cache_read of a sector of its copy's FAT.                               *)
LEMMA LookupStep ==
  ASSUME NEW L \in Layouts, NEW o \in IoRecords, NEW copy \in Copies,
         NEW s \in CopySectors(L, copy), NEW f \in LookupOutcomes(o, L, copy, s)
  PROVE  /\ Moves(o, f, L)
         /\ \A k \in Copies : k # copy => f.cache[k] = o.cache[k]
         /\ f.ok => InCache(f.cache[copy], Row, s)
         /\ f.faults = 0 => f.ok
         /\ f.faults = 0
              => \/ /\ InCache(o.cache[copy], Row, s)
                    /\ f.cache = o.cache /\ f.disk = o.disk
                 \/ \E g \in FlushOutcomes(o, L, copy) :
                      Holds(g, f, copy, FetchedBlock(g.cache[copy], Row, s,
                                                     g.disk[L.base + s]))
  <1> DEFINE BlockSet == Block({Row}, 0..DiskSize, SUBSET Nibbles)
             b(g) == g.cache[copy]
  <1>1. CASE InCache(o.cache[copy], Row, s)
    <2>1. f = [o EXCEPT !.ok = TRUE]
      BY <1>1 DEF LookupOutcomes
    <2>2. f \in IoRecords /\ f.cache = o.cache /\ f.faults = o.faults
          /\ f.wrote = o.wrote /\ f.disk = o.disk /\ f.ok
      BY <2>1 DEF IoRecords
    <2>3. o.faults <= f.faults
      BY <2>2, IoFacts
    <2>4. Moves(o, f, L)
      BY <2>2, <2>3 DEF Moves, Own
    <2> QED
      BY <1>1, <2>2, <2>4
  <1>2. CASE ~InCache(o.cache[copy], Row, s)
    <2>1. PICK g \in FlushOutcomes(o, L, copy) :
            f = [g EXCEPT !.ok = TRUE, !.cache = [@ EXCEPT ![copy] =
                   FetchedBlock(b(g), Row, s, g.disk[L.base + s])]]
            \/ /\ FALSE \in MayFail(g)
               /\ \E junk \in {b(g).data, Garbage} :
                    f = [Count(g, FALSE) EXCEPT !.cache = [@ EXCEPT ![copy] =
                           SpoiltBlock(b(g), Row, junk)]]
      BY <1>2, Zenon DEF LookupOutcomes
    <2>2. /\ Moves(o, g, L) /\ g \in IoRecords
          /\ \A k \in Copies : k # copy => g.cache[k] = o.cache[k]
      BY FlushStep DEF Moves
    <2>3. b(g) \in BlockSet /\ s \in 0..DiskSize
          /\ g.disk[L.base + s] \in SUBSET Nibbles
      BY <2>2, IoFacts, CopyFacts
    <2>4. CASE f = [g EXCEPT !.ok = TRUE, !.cache = [@ EXCEPT ![copy] =
                      FetchedBlock(b(g), Row, s, g.disk[L.base + s])]]
      <3> DEFINE n == FetchedBlock(b(g), Row, s, g.disk[L.base + s])
      <3>1. n \in BlockSet /\ n.part = Row /\ n.sector = s
        BY <2>3 DEF FetchedBlock, Block
      <3> HIDE DEF n
      <3>2. f = [g EXCEPT !.ok = TRUE, !.cache = [@ EXCEPT ![copy] = n]]
        BY <2>4 DEF n
      <3>3. Holds(g, f, copy, n) /\ f.ok = TRUE
        BY <2>2, <3>1, <3>2, BlockReplaced
      <3>4. f.cache[copy] = n
            /\ \A k \in Copies : k # copy => f.cache[k] = g.cache[k]
        BY <2>2, <3>3, HoldsFacts
      <3>5. Moves(g, f, L)
        BY <2>2, <3>1, <3>3, HoldsMoves
      <3>6. Moves(o, f, L)
        BY <2>2, <3>5, MovesOn
      <3> QED
        BY <2>2, <3>1, <3>3, <3>4, <3>6 DEF InCache, n
    <2>5. ASSUME FALSE \in MayFail(g), NEW junk \in {b(g).data, Garbage},
                 f = [Count(g, FALSE) EXCEPT !.cache = [@ EXCEPT ![copy] =
                        SpoiltBlock(b(g), Row, junk)]]
          PROVE  /\ Moves(o, f, L) /\ f.ok = FALSE /\ f.faults # 0
                 /\ \A k \in Copies : k # copy => f.cache[k] = o.cache[k]
      <3> DEFINE n == SpoiltBlock(b(g), Row, junk)
                 c == Count(g, FALSE)
      <3>1. junk \in SUBSET Nibbles
        BY <2>2, IoFacts DEF Garbage
      <3>2. n \in BlockSet /\ n.sector = b(g).sector /\ n.dirty = b(g).dirty
        BY <2>3, <3>1 DEF SpoiltBlock, Block
      <3>3. c \in IoRecords /\ c.cache = g.cache /\ c.faults = g.faults + 1
            /\ c.ok = FALSE /\ Moves(g, c, L)
        BY <2>2, <2>5, CountFacts
      <3> HIDE DEF n, c
      <3>4. f = [c EXCEPT !.cache = [@ EXCEPT ![copy] = n]]
        BY <2>5 DEF n, c
      <3>5. Holds(c, f, copy, n) /\ f.ok = c.ok
        <4>1. n \in BlockSet /\ c \in IoRecords
          BY <3>2, <3>3
        <4>2. f.ok = c.ok
          BY <3>4, <4>1 DEF IoRecords
        <4> QED
          BY <3>4, <4>1, <4>2, BlockReplaced, Zenon
      <3>6. f.faults = c.faults
            /\ \A k \in Copies : k # copy => f.cache[k] = c.cache[k]
        BY <3>3, <3>5, HoldsFacts
      <3>7. Moves(c, f, L)
        BY <3>2, <3>3, <3>5, HoldsMoves
      <3>8. Moves(o, f, L)
        BY <2>2, <3>3, <3>7, MovesOn
      <3>9. f.faults # 0
        BY <2>2, <3>3, <3>6, IoFacts
      <3> QED
        BY <2>2, <3>3, <3>5, <3>6, <3>8, <3>9
    <2>6. CASE /\ FALSE \in MayFail(g)
               /\ \E junk \in {b(g).data, Garbage} :
                    f = [Count(g, FALSE) EXCEPT !.cache = [@ EXCEPT ![copy] =
                           SpoiltBlock(b(g), Row, junk)]]
      BY <2>5, <2>6
    <2> QED
      BY <2>1, <2>4, <2>6
  <1> QED
    BY <1>1, <1>2

(* Without failures cache_read changes no mark.                            *)
LEMMA LookupCarries ==
  ASSUME NEW L \in Layouts, NEW o \in IoRecords, NEW copy \in Copies,
         NEW s \in CopySectors(L, copy), NEW f \in LookupOutcomes(o, L, copy, s),
         Own(o, L), f.faults = 0,
         NEW k \in Copies, NEW t \in CopySectors(L, k), NEW lo, NEW up,
         Carries(o, L, k, t, lo, up)
  PROVE  Carries(f, L, k, t, lo, up)
  <1>1. CASE f.cache = o.cache /\ f.disk = o.disk
    BY <1>1 DEF Carries
  <1>2. ASSUME NEW g \in FlushOutcomes(o, L, copy),
               Holds(g, f, copy, FetchedBlock(g.cache[copy], Row, s,
                                              g.disk[L.base + s]))
        PROVE  Carries(f, L, k, t, lo, up)
    <2> DEFINE b == g.cache[copy]
               n == FetchedBlock(b, Row, s, g.disk[L.base + s])
    <2>1. g \in IoRecords
      BY FlushStep DEF Moves
    <2>2. f.disk = g.disk /\ f.faults = g.faults /\ f.cache[copy] = n
          /\ (k # copy => f.cache[k] = g.cache[k])
      BY <1>2, <2>1, HoldsFacts
    <2>3. Carries(g, L, k, t, lo, up)
      BY <2>2, FlushCarries
    <2>4. CASE k # copy
      BY <2>2, <2>3, <2>4 DEF Carries
    <2>5. CASE k = copy
      <3>1. ~NeedsWrite(b)
        BY <2>2, FlushStep
      <3>2. ~(InCache(b, Row, t) /\ b.dirty)
        BY <3>1, FormatConstants DEF NeedsWrite, InCache
      <3>3. lo \subseteq g.disk[L.base + t] /\ g.disk[L.base + t] \subseteq up
        BY <2>3, <2>5, <3>2 DEF Carries
      <3>4. n.part = Row /\ n.sector = s /\ n.data = g.disk[L.base + s]
        BY <2>1, IoFacts DEF FetchedBlock, Block
      <3>5. InCache(n, Row, t) => t = s
        BY <3>4 DEF InCache
      <3> HIDE DEF n
      <3> QED
        BY <2>2, <2>5, <3>3, <3>4, <3>5 DEF Carries
    <2> QED
      BY <2>4, <2>5
  <1>3. (f.cache = o.cache /\ f.disk = o.disk)
        \/ \E g \in FlushOutcomes(o, L, copy) :
             Holds(g, f, copy, FetchedBlock(g.cache[copy], Row, s,
                                            g.disk[L.base + s]))
    BY LookupStep
  <1> QED
    BY <1>1, <1>2, <1>3

(* A store of marks into the sector of an entry.                           *)
LEMMA MarkStep ==
  ASSUME NEW L \in Layouts, NEW o \in IoRecords, NEW copy \in Copies,
         NEW c \in 2 .. ClusterCount(L) + 2, NEW s \in 0 .. L.fat - 1,
         NEW f \in MarkOutcomes(o, L, copy, c, s)
  PROVE  /\ Moves(o, f, L)
         /\ f.faults = 0 => f.ok
         /\ \A k \in Copies : k # copy => f.cache[k] = o.cache[k]
         /\ f.faults = 0
              => \E l \in LookupOutcomes(o, L, copy, FatStart(L, copy) + s) :
                   Holds(l, f, copy, DirtyBlock(l.cache[copy],
                           l.cache[copy].data \cup NibblesIn(L, c, s)))
  <1> DEFINE S == FatStart(L, copy) + s
             N == NibblesIn(L, c, s)
  <1>1. S \in CopySectors(L, copy)
    <2>1. FatStart(L, copy) \in Nat /\ L.fat \in Nat
      BY LayoutFacts DEF FatStart, Copies
    <2> QED
      BY <2>1 DEF CopySectors
  <1>2. PICK l \in LookupOutcomes(o, L, copy, S) :
          f = IF l.ok
              THEN [l EXCEPT !.cache = [@ EXCEPT ![copy] =
                      DirtyBlock(l.cache[copy], l.cache[copy].data \cup N)]]
              ELSE l
    BY DEF MarkOutcomes
  <1>3. l \in IoRecords /\ Moves(o, l, L)
    BY <1>1, LookupStep DEF Moves
  <1>4. /\ l.ok => InCache(l.cache[copy], Row, S)
        /\ l.faults = 0 => l.ok
    BY <1>1, LookupStep, Zenon
  <1>5. \A k \in Copies : k # copy => l.cache[k] = o.cache[k]
    BY <1>1, LookupStep
  <1>6. CASE ~l.ok
    BY <1>2, <1>3, <1>4, <1>5, <1>6
  <1>7. CASE l.ok
    <2> DEFINE n == DirtyBlock(l.cache[copy], l.cache[copy].data \cup N)
    <2>0. l.cache[copy] \in Block({Row}, 0..DiskSize, SUBSET Nibbles)
          /\ l.cache[copy].data \cup N \in SUBSET Nibbles
      BY <1>3, IoFacts, MarkFacts
    <2>1. n \in Block({Row}, 0..DiskSize, SUBSET Nibbles)
          /\ n.sector = l.cache[copy].sector
      BY <2>0 DEF DirtyBlock, Block
    <2>2. n.sector = S
      BY <1>4, <1>7, <2>1 DEF InCache
    <2> HIDE DEF n
    <2>3. f = [l EXCEPT !.cache = [@ EXCEPT ![copy] = n]]
      BY <1>2, <1>7 DEF n
    <2>4. Holds(l, f, copy, n)
      BY <1>3, <2>1, <2>3, BlockReplaced
    <2>5. f.ok
      BY <1>3, <1>7, <2>3 DEF IoRecords
    <2>6. Moves(l, f, L)
      BY <1>1, <1>3, <2>2, <2>4, HoldsMoves
    <2>7. Moves(o, f, L)
      BY <1>3, <2>6, MovesOn
    <2>8. \A k \in Copies : k # copy => f.cache[k] = l.cache[k]
      BY <1>3, <2>4, HoldsFacts
    <2> QED
      BY <1>5, <2>4, <2>5, <2>7, <2>8 DEF n
  <1> QED
    BY <1>6, <1>7

(* The marks that storing into sector s of a copy adds to sector t of k.   *)
Added(L, copy, c, s, k, t) ==
  IF k = copy /\ t = FatStart(L, copy) + s THEN NibblesIn(L, c, s) ELSE {}

LEMMA MarkCarries ==
  ASSUME NEW L \in Layouts, NEW o \in IoRecords, NEW copy \in Copies,
         NEW c \in 2 .. ClusterCount(L) + 2, NEW s \in 0 .. L.fat - 1,
         NEW f \in MarkOutcomes(o, L, copy, c, s), Own(o, L), f.faults = 0,
         NEW k \in Copies, NEW t \in CopySectors(L, k), NEW lo, NEW up,
         Carries(o, L, k, t, lo, up)
  PROVE  Carries(f, L, k, t, lo \cup Added(L, copy, c, s, k, t),
                             up \cup Added(L, copy, c, s, k, t))
  <1> DEFINE S == FatStart(L, copy) + s
             N == NibblesIn(L, c, s)
  <1>1. S \in CopySectors(L, copy)
    <2>1. FatStart(L, copy) \in Nat /\ L.fat \in Nat
      BY LayoutFacts DEF FatStart, Copies
    <2> QED
      BY <2>1 DEF CopySectors
  <1>2. PICK l \in LookupOutcomes(o, L, copy, S) :
          Holds(l, f, copy, DirtyBlock(l.cache[copy], l.cache[copy].data \cup N))
    BY MarkStep
  <1>3. l \in IoRecords
    BY <1>1, LookupStep DEF Moves
  <1> DEFINE b == l.cache[copy]
             n == DirtyBlock(b, b.data \cup N)
  <1>4. f.disk = l.disk /\ l.faults = 0 /\ f.cache[copy] = n
        /\ (k # copy => f.cache[k] = l.cache[k])
    BY <1>2, <1>3, HoldsFacts
  <1>5. Carries(l, L, k, t, lo, up)
    BY <1>1, <1>4, LookupCarries
  <1>6. InCache(b, Row, S)
    BY <1>1, <1>4, LookupStep, Zenon
  <1>7. n.part = Row /\ n.sector = S /\ n.data = b.data \cup N /\ n.dirty
    BY <1>3, <1>6, IoFacts DEF DirtyBlock, Block, InCache
  <1> HIDE DEF n, b, S, N
  <1>8. CASE k = copy /\ t = S
    <2>1. Added(L, copy, c, s, k, t) = N
      BY <1>8 DEF Added, S, N
    <2> QED
      BY <1>4, <1>5, <1>6, <1>7, <1>8, <2>1 DEF Carries, InCache, b
  <1>9. CASE k = copy /\ t # S
    <2>1. Added(L, copy, c, s, k, t) = {}
      BY <1>9 DEF Added, S
    <2> QED
      BY <1>4, <1>5, <1>6, <1>7, <1>9, <2>1 DEF Carries, InCache, b
  <1>10. CASE k # copy
    <2>1. Added(L, copy, c, s, k, t) = {}
      BY <1>10 DEF Added
    <2>2. Carries(f, L, k, t, lo, up)
      BY <1>4, <1>5, <1>10 DEF Carries
    <2>3. lo \cup {} = lo /\ up \cup {} = up
      OBVIOUS
    <2> QED
      BY <2>1, <2>2, <2>3
  <1> QED
    BY <1>8, <1>9, <1>10

LEMMA Loosen ==
  ASSUME NEW o, NEW L, NEW k, NEW t, NEW lo, NEW up, NEW lo2, NEW up2,
         Carries(o, L, k, t, lo, up), lo2 \subseteq lo, up \subseteq up2
  PROVE  Carries(o, L, k, t, lo2, up2)
  BY DEF Carries

-------------------------------------------------------------------------------
(* Marking a bad cluster.                                                  *)

(* fat_set_table_entry ends after the one sector of the entry, or after    *)
(* the second.                                                             *)
LEMMA EntryCases ==
  ASSUME NEW L \in Layouts, NEW o, NEW copy, NEW c \in 2 .. ClusterCount(L) + 2,
         NEW f \in SetEntryOutcomes(o, L, copy, c)
  PROVE  LET S == EntrySectors(L, c) IN
         \E g \in MarkOutcomes(o, L, copy, c, Min(S)) :
            \/ f = g /\ (Cardinality(S) = 1 \/ ~g.ok)
            \/ f \in MarkOutcomes(g, L, copy, c, Max(S))
  <1> DEFINE S == EntrySectors(L, c)
  <1>1. ~(ClusterCount(L) + 2 < c)
    BY LayoutFacts
  <1>2. CASE Cardinality(S) = 1
    BY <1>1, <1>2 DEF SetEntryOutcomes
  <1>3. CASE Cardinality(S) # 1
    BY <1>1, <1>3, Zenon DEF SetEntryOutcomes
  <1> QED
    BY <1>2, <1>3

LEMMA EntryStep ==
  ASSUME NEW L \in Layouts, NEW o \in IoRecords, NEW copy \in Copies,
         NEW c \in 2 .. ClusterCount(L) + 2,
         NEW f \in SetEntryOutcomes(o, L, copy, c)
  PROVE  /\ Moves(o, f, L)
         /\ f.faults = 0 => f.ok
  <1> DEFINE S == EntrySectors(L, c)
  <1>1. PICK g \in MarkOutcomes(o, L, copy, c, Min(S)) :
            \/ f = g /\ (Cardinality(S) = 1 \/ ~g.ok)
            \/ f \in MarkOutcomes(g, L, copy, c, Max(S))
    BY EntryCases
  <1>2. Min(S) \in 0 .. L.fat - 1 /\ Max(S) \in 0 .. L.fat - 1
    BY EntryFacts, VisitedSectors
  <1>3. Moves(o, g, L) /\ g \in IoRecords /\ (g.faults = 0 => g.ok)
    BY <1>2, MarkStep DEF Moves
  <1>4. CASE f \in MarkOutcomes(g, L, copy, c, Max(S))
    <2>1. Moves(g, f, L) /\ (f.faults = 0 => f.ok)
      BY <1>2, <1>3, <1>4, MarkStep
    <2> QED
      BY <1>3, <2>1, MovesOn
  <1> QED
    BY <1>1, <1>3, <1>4

(* Without failures exactly the entry's marks come to its copy: in sector  *)
(* i of the copy those that NibblesIn gives.                               *)
EntryMarks(L, copy, c, k, i) == IF k = copy THEN NibblesIn(L, c, i) ELSE {}

LEMMA EntryCarries ==
  ASSUME NEW L \in Layouts, NEW o \in IoRecords, NEW copy \in Copies,
         NEW c \in 2 .. ClusterCount(L) + 2,
         NEW f \in SetEntryOutcomes(o, L, copy, c), Own(o, L), f.faults = 0,
         NEW k \in Copies, NEW i \in 0 .. L.fat - 1, NEW lo, NEW up,
         Carries(o, L, k, FatStart(L, k) + i, lo, up)
  PROVE  Carries(f, L, k, FatStart(L, k) + i,
                 lo \cup EntryMarks(L, copy, c, k, i),
                 up \cup EntryMarks(L, copy, c, k, i))
  <1> DEFINE S == EntrySectors(L, c)
             t == FatStart(L, k) + i
             X == EntryMarks(L, copy, c, k, i)
             A(s) == Added(L, copy, c, s, k, t)
  <1>1. PICK g \in MarkOutcomes(o, L, copy, c, Min(S)) :
            \/ f = g /\ (Cardinality(S) = 1 \/ ~g.ok)
            \/ f \in MarkOutcomes(g, L, copy, c, Max(S))
    BY EntryCases
  <1>2. Min(S) \in 0 .. L.fat - 1 /\ Max(S) \in 0 .. L.fat - 1
    BY EntryFacts, VisitedSectors
  <1>3. Moves(o, g, L) /\ g \in IoRecords /\ (g.faults = 0 => g.ok) /\ Own(g, L)
    BY <1>2, MarkStep DEF Moves
  <1>4. t \in CopySectors(L, k)
    <2>1. FatStart(L, k) \in Nat /\ L.fat \in Nat
      BY LayoutFacts DEF FatStart, Copies
    <2> QED
      BY <2>1 DEF CopySectors
  <1>5. \A s \in 0 .. L.fat - 1 : A(s) = IF i = s THEN X ELSE {}
    <2>1. ASSUME NEW s \in 0 .. L.fat - 1, k = copy
          PROVE  t = FatStart(L, copy) + s <=> i = s
      <3>1. FatStart(L, k) \in Nat /\ L.fat \in Nat
        BY LayoutFacts DEF FatStart, Copies
      <3> QED
        BY <2>1, <3>1
    <2> HIDE DEF t
    <2> QED
      BY <2>1 DEF Added, EntryMarks
  <1>6. i \notin S => X = {}
    BY MarkFacts DEF EntryMarks
  <1>7. CASE f = g /\ (Cardinality(S) = 1 \/ ~g.ok)
    <2>1. Carries(f, L, k, t, lo \cup A(Min(S)), up \cup A(Min(S)))
      BY <1>2, <1>4, <1>7, MarkCarries
    <2>2. S = {Min(S)}
      BY <1>3, <1>7, VisitedSectors
    <2>3. A(Min(S)) = X
      BY <1>2, <1>5, <1>6, <2>2
    <2> QED
      BY <2>1, <2>3
  <1>8. CASE f \in MarkOutcomes(g, L, copy, c, Max(S))
    <2>1. Moves(g, f, L)
      BY <1>2, <1>3, <1>8, MarkStep
    <2>2. g.faults = 0
      BY <1>3, <2>1, NoFaultBefore
    <2>3. Carries(g, L, k, t, lo \cup A(Min(S)), up \cup A(Min(S)))
      BY <1>2, <1>4, <2>2, MarkCarries
    <2>4. Carries(f, L, k, t, (lo \cup A(Min(S))) \cup A(Max(S)),
                              (up \cup A(Min(S))) \cup A(Max(S)))
      BY <1>2, <1>3, <1>4, <1>8, <2>3, MarkCarries
    <2>5. S = {Min(S), Max(S)}
      BY VisitedSectors
    <2>6. A(Min(S)) \cup A(Max(S)) = X
      BY <1>2, <1>5, <1>6, <2>5
    <2>7. (lo \cup A(Min(S))) \cup A(Max(S)) = lo \cup X
          /\ (up \cup A(Min(S))) \cup A(Max(S)) = up \cup X
      <3> HIDE DEF A, X
      <3> QED
        BY <2>6
    <2> QED
      BY <2>4, <2>7
  <1> QED
    BY <1>1, <1>7, <1>8

(* fat_bbt_track.                                                          *)
LEMMA TrackStep ==
  ASSUME NEW L \in Layouts, NEW o \in IoRecords,
         NEW s \in NonData(L) .. L.total - 1, NEW f \in TrackOutcomes(o, L, s)
  PROVE  Moves(o, f, L)
  <1> DEFINE c == SectorToCluster(L, s)
  <1>1. c \in 2 .. ClusterCount(L) + 2 /\ 0 \in Copies /\ 1 \in Copies
    BY ClusterFacts DEF Copies
  <1>2. PICK g \in SetEntryOutcomes(o, L, 0, c) : f \in SetEntryOutcomes(g, L, 1, c)
    BY DEF TrackOutcomes
  <1>3. Moves(o, g, L) /\ g \in IoRecords
    BY <1>1, EntryStep DEF Moves
  <1>4. Moves(g, f, L)
    BY <1>1, <1>2, <1>3, EntryStep
  <1> QED
    BY <1>3, <1>4, MovesOn

LEMMA TrackCarries ==
  ASSUME NEW L \in Layouts, NEW o \in IoRecords,
         NEW s \in NonData(L) .. L.total - 1, NEW f \in TrackOutcomes(o, L, s),
         Own(o, L), f.faults = 0,
         NEW k \in Copies, NEW i \in 0 .. L.fat - 1, NEW lo, NEW up,
         Carries(o, L, k, FatStart(L, k) + i, lo, up)
  PROVE  Carries(f, L, k, FatStart(L, k) + i,
                 lo \cup NibblesIn(L, SectorToCluster(L, s), i),
                 up \cup NibblesIn(L, SectorToCluster(L, s), i))
  <1> DEFINE c == SectorToCluster(L, s)
             t == FatStart(L, k) + i
             N == NibblesIn(L, c, i)
             X == EntryMarks(L, 0, c, k, i)
             Y == EntryMarks(L, 1, c, k, i)
  <1>1. c \in 2 .. ClusterCount(L) + 2 /\ 0 \in Copies /\ 1 \in Copies
    BY ClusterFacts DEF Copies
  <1>2. PICK g \in SetEntryOutcomes(o, L, 0, c) : f \in SetEntryOutcomes(g, L, 1, c)
    BY DEF TrackOutcomes
  <1>3. Moves(o, g, L) /\ g \in IoRecords /\ Own(g, L)
    BY <1>1, EntryStep DEF Moves
  <1>4. g.faults = 0
    <2>1. Moves(g, f, L)
      BY <1>1, <1>2, <1>3, EntryStep
    <2> QED
      BY <1>3, <2>1, NoFaultBefore
  <1> HIDE DEF c
  <1>5. Carries(g, L, k, t, lo \cup X, up \cup X)
    BY <1>1, <1>4, EntryCarries
  <1>6. Carries(f, L, k, t, (lo \cup X) \cup Y, (up \cup X) \cup Y)
    BY <1>1, <1>2, <1>3, <1>5, EntryCarries
  <1>7. X \cup Y = N
    BY DEF EntryMarks, Copies
  <1>8. (lo \cup X) \cup Y = lo \cup N /\ (up \cup X) \cup Y = up \cup N
    <2> HIDE DEF X, Y, N
    <2> QED
      BY <1>7
  <1> QED
    BY <1>6, <1>8 DEF c

(* fat_flush: without failures the block of the second copy is left alone. *)
LEMMA FatFlushStep ==
  ASSUME NEW L \in Layouts, NEW o \in IoRecords, NEW f \in FatFlushOutcomes(o, L)
  PROVE  /\ Moves(o, f, L)
         /\ Own(o, L) /\ f.faults = 0 => f \in FlushOutcomes(o, L, 0)
  <1>1. PICK g \in FlushOutcomes(o, L, 0) :
          f \in IF g.ok THEN {g} ELSE FlushOutcomes(g, L, 1)
    BY DEF FatFlushOutcomes
  <1>2. 0 \in Copies /\ 1 \in Copies
    BY DEF Copies
  <1>3. Moves(o, g, L) /\ g \in IoRecords
    BY <1>2, FlushStep DEF Moves
  <1>4. CASE g.ok
    BY <1>1, <1>3, <1>4
  <1>5. CASE ~g.ok
    <2>1. f \in FlushOutcomes(g, L, 1)
      BY <1>1, <1>5
    <2>2. Moves(g, f, L)
      BY <1>2, <1>3, <2>1, FlushStep
    <2>3. Moves(o, f, L)
      BY <1>3, <2>2, MovesOn
    <2>4. ASSUME Own(o, L), f.faults = 0 PROVE FALSE
      <3>1. g.faults = 0
        BY <1>3, <2>2, <2>4, NoFaultBefore
      <3>2. g.ok
        BY <1>2, <2>4, <3>1, FlushStep
      <3> QED
        BY <1>5, <3>2
    <2> QED
      BY <2>3, <2>4
  <1> QED
    BY <1>4, <1>5

-------------------------------------------------------------------------------
(* Writes past the cache.                                                  *)
LEMMA BlankStep ==
  ASSUME NEW L \in Layouts, NEW o \in IoRecords,
         NEW S \in SUBSET (0 .. L.total - 1)
  PROVE  /\ Blank(o, L, S) \in IoRecords
         /\ Blank(o, L, S).cache = o.cache
         /\ Blank(o, L, S).faults = o.faults /\ Blank(o, L, S).ok = o.ok
         /\ Blank(o, L, S).wrote = o.wrote \cup {L.base + s : s \in S}
         /\ \A s \in 0 .. L.total - 1 :
              Blank(o, L, S).disk[L.base + s]
                = IF s \in S THEN {} ELSE o.disk[L.base + s]
  <1> DEFINE A == {L.base + s : s \in S}
             D == [d \in Disk |-> IF d \in A THEN {} ELSE o.disk[d]]
             f == Blank(o, L, S)
  <1>1. A \subseteq Disk
    BY LayoutFacts
  <1>2. D \in [Disk -> SUBSET Nibbles]
    BY IoFacts
  <1>3. \A s \in 0 .. L.total - 1 :
          D[L.base + s] = IF s \in S THEN {} ELSE o.disk[L.base + s]
    <2>1. ASSUME NEW s \in 0 .. L.total - 1 PROVE L.base + s \in A <=> s \in S
      <3>1. L.base \in Nat /\ s \in Nat /\ \A x \in S : x \in Nat
        BY LayoutFacts
      <3>2. ASSUME NEW x \in S, L.base + s = L.base + x PROVE s \in S
        <4>1. s = x
          BY <3>1, <3>2
        <4> QED
          BY <4>1
      <3>3. s \in S => L.base + s \in A
        OBVIOUS
      <3> QED
        BY <3>2, <3>3
    <2>2. \A s \in 0 .. L.total - 1 : L.base + s \in Disk
      BY LayoutFacts
    <2> HIDE DEF A
    <2> QED
      BY <2>1, <2>2
  <1>4. f = [o EXCEPT !.disk = D, !.wrote = o.wrote \cup A]
    BY DEF Blank, IoRecords
  <1> HIDE DEF A, D, f
  <1>5. f \in IoRecords /\ f.cache = o.cache /\ f.faults = o.faults
        /\ f.wrote = o.wrote \cup A /\ f.disk = D
    BY <1>1, <1>2, <1>4 DEF IoRecords
  <1>6. f.ok = o.ok
    BY <1>4 DEF IoRecords
  <1> QED
    BY <1>3, <1>5, <1>6 DEF A, f

LEMMA FreshStep ==
  ASSUME NEW o \in IoRecords
  PROVE  /\ Fresh(o) \in IoRecords
         /\ Fresh(o).disk = o.disk /\ Fresh(o).cache = o.cache
         /\ Fresh(o).faults = o.faults /\ Fresh(o).wrote = {}
         /\ Fresh(o).ok = TRUE
  BY DEF Fresh, IoRecords

(* What only depends on disk and cache.                                    *)
LEMMA SameCache ==
  ASSUME NEW o, NEW f, NEW L, f.cache = o.cache
  PROVE  Own(o, L) <=> Own(f, L)
  BY DEF Own

LEMMA SameMarks ==
  ASSUME NEW o, NEW f, NEW L, NEW k, NEW s, NEW lo, NEW up,
         f.cache = o.cache, f.disk[L.base + s] = o.disk[L.base + s],
         Carries(o, L, k, s, lo, up)
  PROVE  Carries(f, L, k, s, lo, up)
  BY DEF Carries

(* Blanking sectors outside the FATs changes no mark.                      *)
LEMMA BlankCarries ==
  ASSUME NEW L \in Layouts, NEW o \in IoRecords,
         NEW S \in SUBSET (L.res + 2 * L.fat .. L.total - 1),
         NEW k \in Copies, NEW s \in CopySectors(L, k), NEW lo, NEW up,
         Carries(o, L, k, s, lo, up)
  PROVE  Carries(Blank(o, L, S), L, k, s, lo, up)
  <1> DEFINE f == Blank(o, L, S)
  <1>1. S \in SUBSET (0 .. L.total - 1)
    BY LayoutFacts
  <1>2. s \in 0 .. L.total - 1 /\ s \notin S
    BY CopyFacts, LayoutFacts
  <1>3. f.cache = o.cache
    BY <1>1, BlankStep
  <1>4. f.disk[L.base + s] = o.disk[L.base + s]
    BY <1>1, <1>2, BlankStep
  <1> HIDE DEF f
  <1>5. Carries(f, L, k, s, lo, up)
    BY <1>3, <1>4, SameMarks
  <1> QED
    BY <1>5 DEF f

-------------------------------------------------------------------------------
(* The stages of a format and whose sectors the blocks hold.               *)
Scanning == stage \in {"scan", "label", "flush"}

(* The blocks can only hold sectors of the row as it is: it has never been *)
(* edited, or the first format has come past the root directory.           *)
Current == edits = 0 \/ (formats = 1 /\ Scanning)

NoBlocks == \A copy \in Copies : io.cache[copy].part = None
                                 /\ io.cache[copy].dirty = FALSE

Staged ==
  /\ TypeOK
  /\ Scanning => pos \in NonData(lay) .. lay.total
  /\ formats = 0 => stage = "idle"
  /\ formats = 0 \/ (formats = 1 /\ stage \in {"tables", "root"}) => NoBlocks
  /\ Current => Own(io, lay)

LEMMA TypeFacts ==
  ASSUME TypeOK
  PROVE  /\ io \in IoRecords /\ lay \in Layouts
         /\ formats \in Nat /\ edits \in Nat /\ lay.total <= DiskSize
         /\ Fresh(io) \in IoRecords
  <1>1. io \in IoRecords /\ lay \in Layouts /\ formats \in Nat /\ edits \in Nat
    <2>1. io \in IoRecords /\ lay \in Layouts
      BY DEF TypeOK, IoRecords
    <2>2. formats \in 0..MaxFormats /\ edits \in 0..MaxEdits
      BY DEF TypeOK
    <2> QED
      BY <2>1, <2>2, FormatConstants
  <1>2. lay.total - 1 \in 0 .. lay.total - 1
    BY <1>1, LayoutFacts
  <1>3. lay.base + (lay.total - 1) \in Disk
    BY <1>1, <1>2, LayoutFacts
  <1>4. lay.total <= DiskSize
    BY <1>1, <1>3, LayoutFacts, FormatConstants DEF Disk
  <1> QED
    BY <1>1, <1>4, FreshStep

(* What the steps before the surface scan write.                           *)
LEMMA BootStep ==
  ASSUME TypeOK, WriteBoot
  PROVE  /\ io' \in IoRecords /\ io'.cache = io.cache /\ io.faults <= io'.faults
         /\ \/ stage' = "tables" /\ result' = "NONE"
            \/ stage' = "idle" /\ result' = "FAILED"
  <1> DEFINE o == Fresh(io)
  <1>1. o \in IoRecords /\ lay \in Layouts
        /\ o.cache = io.cache /\ o.faults = io.faults
        /\ BootSectors(lay) \in SUBSET (0 .. lay.total - 1)
    BY TypeFacts, FreshStep, BootFacts
  <1>2. MayFail(io) = MayFail(o)
    BY <1>1 DEF MayFail
  <1> HIDE DEF o
  <1>0. io.faults \in Nat
    BY TypeFacts, IoFacts
  <1>6. \/ stage' = "tables" /\ result' = "NONE"
        \/ stage' = "idle" /\ result' = "FAILED"
    BY DEF WriteBoot, Return
  <1>3. CASE io' = Blank(o, lay, BootSectors(lay))
    <2>1. io' \in IoRecords /\ io'.cache = io.cache /\ io'.faults = io.faults
      BY <1>1, <1>3, BlankStep
    <2> QED
      BY <1>0, <1>6, <2>1
  <1>4. CASE FALSE \in MayFail(o) /\ io' = Count(o, FALSE)
    <2>1. io' \in IoRecords /\ io'.cache = io.cache
          /\ io'.faults = io.faults + 1
      BY <1>1, <1>4, CountFacts
    <2> QED
      BY <1>0, <1>6, <2>1
  <1>5. \/ io' = Blank(o, lay, BootSectors(lay))
        \/ FALSE \in MayFail(o) /\ io' = Count(o, FALSE)
    <2>1. \A ok \in MayFail(io) : ok = TRUE \/ ok = FALSE
      BY DEF MayFail
    <2> QED
      BY <1>2, <2>1, Zenon DEF WriteBoot, o
  <1> QED
    BY <1>3, <1>4, <1>5, <1>6

LEMMA TablesStep ==
  ASSUME TypeOK, InitializeTables
  PROVE  /\ io' \in IoRecords /\ io'.cache = io.cache /\ io.faults <= io'.faults
         /\ \/ /\ stage' = "root" /\ result' = result
               /\ \A copy \in Copies : \A s \in CopySectors(lay, copy) :
                    io'.disk[lay.base + s] = {}
            \/ stage' = "idle" /\ result' \in {"FAILED", "CANCEL"}
  <1> DEFINE o == Fresh(io)
             S(n) == {lay.res + i : i \in 0..n - 1}
             all  == 2 * lay.fat
  <1>1. o \in IoRecords /\ lay \in Layouts
        /\ o.cache = io.cache /\ o.faults = io.faults
    BY TypeFacts, FreshStep
  <1>2. all \in Nat /\ \A n \in 0..all : S(n) \in SUBSET (0 .. lay.total - 1)
    BY <1>1, LayoutFacts
  <1>3. \A n \in 0..all : /\ Blank(o, lay, S(n)) \in IoRecords
                          /\ Blank(o, lay, S(n)).cache = io.cache
                          /\ Blank(o, lay, S(n)).faults = io.faults
    BY <1>1, <1>2, BlankStep
  <1>4. MayFail(io) = MayFail(o)
    BY <1>1 DEF MayFail
  <1>5. io.faults \in Nat
    BY TypeFacts, IoFacts
  <1>6. CASE io' = Blank(o, lay, S(all)) /\ stage' = "root" /\ result' = result
    <2>1. io' \in IoRecords /\ io'.cache = io.cache /\ io.faults <= io'.faults
      BY <1>2, <1>3, <1>5, <1>6
    <2>2. ASSUME NEW copy \in Copies, NEW s \in CopySectors(lay, copy)
          PROVE  io'.disk[lay.base + s] = {}
      <3>1. s \in lay.res .. lay.res + 2 * lay.fat - 1
            /\ s \in 0 .. lay.total - 1
        BY <1>1, CopyFacts, LayoutFacts
      <3>2. s \in S(all)
        <4>1. s - lay.res \in 0 .. all - 1 /\ s = lay.res + (s - lay.res)
          BY <1>1, <3>1, LayoutFacts
        <4> QED
          BY <4>1
      <3>3. S(all) \in SUBSET (0 .. lay.total - 1)
        BY <1>2
      <3> HIDE DEF S, all
      <3> QED
        BY <1>1, <1>6, <3>1, <3>2, <3>3, BlankStep
    <2> QED
      BY <1>6, <2>1, <2>2
  <1>7. ASSUME NEW n \in 0 .. all - 1, FALSE \in MayFail(io),
               io' = Count(Blank(o, lay, S(n)), FALSE)
        PROVE  io' \in IoRecords /\ io'.cache = io.cache
               /\ io.faults <= io'.faults
    <2> DEFINE b == Blank(o, lay, S(n))
    <2>1. b \in IoRecords /\ b.cache = io.cache /\ b.faults = io.faults
      BY <1>2, <1>3
    <2> HIDE DEF b
    <2>2. FALSE \in MayFail(b) /\ io' = Count(b, FALSE)
      BY <1>7, <2>1 DEF MayFail, b
    <2>3. io' \in IoRecords /\ io'.cache = b.cache
          /\ io'.faults = b.faults + 1
      BY <2>1, <2>2, CountFacts
    <2> QED
      BY <1>5, <2>1, <2>3
  <1>8. ASSUME NEW n \in 1 .. all, io' = Blank(o, lay, S(n))
        PROVE  io' \in IoRecords /\ io'.cache = io.cache
               /\ io.faults <= io'.faults
    BY <1>2, <1>3, <1>5, <1>8
  <1>9. \/ io' = Blank(o, lay, S(all)) /\ stage' = "root" /\ result' = result
        \/ /\ \E n \in 0 .. all - 1 : FALSE \in MayFail(io)
                                     /\ io' = Count(Blank(o, lay, S(n)), FALSE)
           /\ stage' = "idle" /\ result' = "FAILED"
        \/ /\ \E n \in 1 .. all : io' = Blank(o, lay, S(n))
           /\ stage' = "idle" /\ result' = "CANCEL"
    BY Zenon DEF InitializeTables, Return
  <1> QED
    BY <1>6, <1>7, <1>8, <1>9

LEMMA RootStep ==
  ASSUME TypeOK, InitializeRoot
  PROVE  /\ io' \in IoRecords /\ io'.cache = io.cache /\ io.faults <= io'.faults
         /\ rootClear' \in BOOLEAN
         /\ \A copy \in Copies : \A s \in CopySectors(lay, copy) :
              io'.disk[lay.base + s] = io.disk[lay.base + s]
  <1> DEFINE o == Fresh(io)
             S == RootSectors(lay)
  <1>1. o \in IoRecords /\ lay \in Layouts
        /\ o.cache = io.cache /\ o.faults = io.faults /\ o.disk = io.disk
    BY TypeFacts, FreshStep
  <1>2. S \in SUBSET (0 .. lay.total - 1)
        /\ \A copy \in Copies : \A s \in CopySectors(lay, copy) :
             s \in 0 .. lay.total - 1 /\ s \notin S
    <2>1. \A s \in S : s \in lay.res + 2 * lay.fat .. lay.total - 1
      BY <1>1, RootFacts
    <2>2. \A copy \in Copies : \A s \in CopySectors(lay, copy) :
            s \in Nat /\ s <= lay.res + 2 * lay.fat - 1 /\ s < NonData(lay)
      BY <1>1, CopyFacts
    <2> HIDE DEF S
    <2> QED
      BY <1>1, <2>1, <2>2, LayoutFacts
  <1>3. MayFail(io) = MayFail(o)
    BY <1>1 DEF MayFail
  <1>4. rootClear' \in BOOLEAN
    BY DEF InitializeRoot, MayFail
  <1> HIDE DEF o, S
  <1>0. io.faults \in Nat
    BY TypeFacts, IoFacts
  <1>5. CASE io' = Blank(o, lay, S)
    <2>1. io' \in IoRecords /\ io'.cache = io.cache /\ io'.faults = io.faults
      BY <1>1, <1>2, <1>5, BlankStep
    <2>2. \A copy \in Copies : \A s \in CopySectors(lay, copy) :
            io'.disk[lay.base + s] = io.disk[lay.base + s]
      BY <1>1, <1>2, <1>5, BlankStep
    <2> QED
      BY <1>0, <1>4, <2>1, <2>2
  <1>6. CASE FALSE \in MayFail(o) /\ io' = Count(o, FALSE)
    <2>1. io' \in IoRecords /\ io'.cache = io.cache
          /\ io'.faults = io.faults + 1 /\ io'.disk = io.disk
      BY <1>1, <1>6, CountFacts
    <2> QED
      BY <1>0, <1>4, <2>1
  <1>7. \/ io' = Blank(o, lay, S)
        \/ FALSE \in MayFail(o) /\ io' = Count(o, FALSE)
    <2>1. \A ok \in MayFail(io) : ok = TRUE \/ ok = FALSE
      BY DEF MayFail
    <2> QED
      BY <1>3, <2>1, Zenon DEF InitializeRoot, o, S
  <1> QED
    BY <1>5, <1>6, <1>7

(* What one step of the surface scan starts from.                          *)
Tested == IF form = "destructive" /\ lay.base + pos \notin media
          THEN Blank(Fresh(io), lay, {pos}) ELSE Fresh(io)

LEMMA TestedFacts ==
  ASSUME Staged, ScanSector
  PROVE  /\ pos \in NonData(lay) .. lay.total - 1
         /\ pos \in lay.res + 2 * lay.fat .. lay.total - 1
         /\ Tested \in IoRecords /\ Tested.cache = io.cache
         /\ Tested.faults = io.faults
         /\ Tested.wrote \subseteq UnderTest
         /\ IF lay.base + pos \in media
            THEN io' \in TrackOutcomes(Tested, lay, pos) /\ bad' = bad \cup {pos}
            ELSE io' = Tested /\ bad' = bad
  <1>1. io \in IoRecords /\ lay \in Layouts /\ Fresh(io) \in IoRecords
    BY TypeFacts DEF Staged
  <1>2. pos \in NonData(lay) .. lay.total - 1
    BY <1>1, LayoutFacts DEF Staged, Scanning, ScanSector
  <1>3. pos \in lay.res + 2 * lay.fat .. lay.total - 1
        /\ pos \in 0 .. lay.total - 1
    BY <1>1, <1>2, LayoutFacts
  <1>4. IF lay.base + pos \in media
        THEN io' \in TrackOutcomes(Tested, lay, pos) /\ bad' = bad \cup {pos}
        ELSE io' = Tested /\ bad' = bad
    BY DEF ScanSector, Tested
  <1>5. CASE form = "destructive" /\ lay.base + pos \notin media
    <2>1. Tested = Blank(Fresh(io), lay, {pos})
      BY <1>5 DEF Tested
    <2>2. Tested \in IoRecords /\ Tested.cache = Fresh(io).cache
          /\ Tested.faults = Fresh(io).faults
          /\ Tested.wrote = Fresh(io).wrote \cup {lay.base + s : s \in {pos}}
      BY <1>1, <1>3, <2>1, BlankStep
    <2>3. UnderTest = {lay.base + pos}
      BY <1>5 DEF UnderTest
    <2> QED
      BY <1>1, <1>2, <1>3, <1>4, <2>2, <2>3, FreshStep
  <1>6. CASE ~(form = "destructive" /\ lay.base + pos \notin media)
    <2>1. Tested = Fresh(io)
      BY <1>6 DEF Tested
    <2> QED
      BY <1>1, <1>2, <1>3, <1>4, <2>1, FreshStep
  <1> QED
    BY <1>5, <1>6

LEMMA ScanStep ==
  ASSUME Staged, ScanSector
  PROVE  /\ Moves(Tested, io', lay)
         /\ io' \in IoRecords /\ io.faults <= io'.faults
         /\ Own(io, lay) => Own(io', lay)
                            /\ io'.wrote \subseteq FatArea(lay) \cup UnderTest
  <1>1. io \in IoRecords /\ lay \in Layouts /\ Tested \in IoRecords
        /\ Tested.cache = io.cache /\ Tested.faults = io.faults
        /\ Tested.wrote \subseteq UnderTest
        /\ pos \in NonData(lay) .. lay.total - 1
    BY TestedFacts, TypeFacts DEF Staged
  <1>2. Moves(Tested, io', lay)
    <2>1. CASE lay.base + pos \in media
      BY <1>1, <2>1, TestedFacts, TrackStep
    <2>2. CASE lay.base + pos \notin media
      <3>1. io' = Tested
        BY <2>2, TestedFacts
      <3>2. Tested.faults <= Tested.faults
        BY <1>1, IoFacts
      <3> QED
        BY <1>1, <3>1, <3>2 DEF Moves
    <2> QED
      BY <2>1, <2>2
  <1>3. Own(io, lay) => Own(Tested, lay)
    BY <1>1, SameCache
  <1> QED
    BY <1>1, <1>2, <1>3 DEF Moves

(* The scan adds the marks of the sector under test if it is unreadable,   *)
(* to both copies, and no other marks.                                     *)
LEMMA ScanCarries ==
  ASSUME Staged, ScanSector, Own(io, lay), io'.faults = 0,
         NEW k \in Copies, NEW i \in 0 .. lay.fat - 1, NEW lo, NEW up,
         Carries(io, lay, k, FatStart(lay, k) + i, lo, up)
  PROVE  IF lay.base + pos \in media
         THEN Carries(io', lay, k, FatStart(lay, k) + i,
                lo \cup NibblesIn(lay, SectorToCluster(lay, pos), i),
                up \cup NibblesIn(lay, SectorToCluster(lay, pos), i))
         ELSE Carries(io', lay, k, FatStart(lay, k) + i, lo, up)
  <1> DEFINE t == FatStart(lay, k) + i
  <1>1. io \in IoRecords /\ lay \in Layouts /\ Tested \in IoRecords
        /\ Tested.cache = io.cache /\ Fresh(io) \in IoRecords
        /\ pos \in NonData(lay) .. lay.total - 1
        /\ {pos} \in SUBSET (lay.res + 2 * lay.fat .. lay.total - 1)
    BY TestedFacts, TypeFacts DEF Staged
  <1>2. t \in CopySectors(lay, k)
    <2>1. FatStart(lay, k) \in Nat /\ lay.fat \in Nat
      BY <1>1, LayoutFacts DEF FatStart, Copies
    <2> QED
      BY <2>1 DEF CopySectors
  <1> HIDE DEF t
  <1>3. Carries(Fresh(io), lay, k, t, lo, up)
    <2>1. Carries(io, lay, k, t, lo, up)
      BY DEF t
    <2>2. Fresh(io).cache = io.cache /\ Fresh(io).disk = io.disk
      BY <1>1, FreshStep
    <2> QED
      BY <2>1, <2>2, SameMarks
  <1>4. Carries(Tested, lay, k, t, lo, up)
    <2>1. Carries(Blank(Fresh(io), lay, {pos}), lay, k, t, lo, up)
      BY <1>1, <1>2, <1>3, BlankCarries
    <2> QED
      BY <1>3, <2>1 DEF Tested
  <1>5. Own(Tested, lay)
    BY <1>1, SameCache
  <1>6. CASE lay.base + pos \in media
    <2>1. io' \in TrackOutcomes(Tested, lay, pos)
      BY <1>6, TestedFacts
    <2>2. Carries(Tested, lay, k, FatStart(lay, k) + i, lo, up)
      BY <1>4 DEF t
    <2> QED
      BY <1>1, <1>5, <1>6, <2>1, <2>2, TrackCarries
  <1>7. CASE lay.base + pos \notin media
    BY <1>4, <1>7, TestedFacts DEF t
  <1> QED
    BY <1>6, <1>7

(* The entry of the root cluster is looked at, then a sector of the root   *)
(* directory is written.                                                   *)
LEMMA LabelCases ==
  ASSUME TypeOK, UpdateLabel
  PROVE  \E o :
           /\ \/ o = Fresh(io)
              \/ \E s \in CopySectors(lay, 0) :
                   o \in LookupOutcomes(Fresh(io), lay, 0, s)
           /\ \/ /\ \E S \in SUBSET RootSectors(lay) : io' = Blank(o, lay, S)
                 /\ stage' = "flush" /\ result' = result
              \/ /\ \/ io' = o /\ ~o.ok
                    \/ FALSE \in MayFail(o) /\ io' = Count(o, FALSE)
                 /\ stage' = "idle" /\ result' = "FAILED"
  <1> DEFINE s0 == FatStart(lay, 0) + Min(EntrySectors(lay, 2))
             looked == IF Fat32(lay) THEN LookupOutcomes(Fresh(io), lay, 0, s0)
                       ELSE {Fresh(io)}
             target == IF rootClear THEN {{Min(RootSectors(lay))}}
                       ELSE {{}} \cup {{s} : s \in RootSectors(lay)}
  <1>1. lay \in Layouts
    BY TypeFacts
  <1>2. s0 \in CopySectors(lay, 0)
    <2>1. 2 \in 2 .. ClusterCount(lay) + 2
      BY <1>1, LayoutFacts
    <2>2. Min(EntrySectors(lay, 2)) \in 0 .. lay.fat - 1
      BY <1>1, <2>1, EntryFacts, VisitedSectors
    <2>3. FatStart(lay, 0) \in Nat /\ lay.fat \in Nat
      BY <1>1, LayoutFacts DEF FatStart
    <2> QED
      BY <2>2, <2>3 DEF CopySectors
  <1>3. \A S \in target : S \in SUBSET RootSectors(lay)
    <2>1. RootSectors(lay) # {} /\ \A s \in RootSectors(lay) : s \in Nat
      BY <1>1, RootFacts, LayoutFacts
    <2>2. Min(RootSectors(lay)) \in RootSectors(lay)
      BY <2>1, LeastExists DEF Min
    <2> QED
      BY <2>2
  <1> HIDE DEF s0, target
  <1>4. PICK o \in looked :
          \/ /\ o.ok
             /\ \E S \in target : io' = Blank(o, lay, S)
             /\ stage' = "flush" /\ UNCHANGED result
          \/ /\ FALSE \in MayFail(o) \/ ~o.ok
             /\ io' = IF o.ok THEN Count(o, FALSE) ELSE o
             /\ Return("FAILED")
    BY Zenon DEF UpdateLabel, s0, target
  <1>5. \/ o = Fresh(io)
        \/ \E s \in CopySectors(lay, 0) :
             o \in LookupOutcomes(Fresh(io), lay, 0, s)
    BY <1>2
  <1>6. \/ /\ \E S \in SUBSET RootSectors(lay) : io' = Blank(o, lay, S)
           /\ stage' = "flush" /\ result' = result
        \/ /\ \/ io' = o /\ ~o.ok
              \/ FALSE \in MayFail(o) /\ io' = Count(o, FALSE)
           /\ stage' = "idle" /\ result' = "FAILED"
    BY <1>3, <1>4 DEF Return
  <1> QED
    BY <1>5, <1>6

LEMMA LookedStep ==
  ASSUME Staged, NEW o,
         \/ o = Fresh(io)
         \/ \E s \in CopySectors(lay, 0) :
              o \in LookupOutcomes(Fresh(io), lay, 0, s)
  PROVE  /\ o \in IoRecords /\ io.faults <= o.faults
         /\ Own(io, lay) => Own(o, lay)
  <1>1. io \in IoRecords /\ lay \in Layouts /\ Fresh(io) \in IoRecords
        /\ Fresh(io).cache = io.cache /\ Fresh(io).faults = io.faults
        /\ io.faults \in Nat
    BY TypeFacts, FreshStep, IoFacts DEF Staged
  <1>2. Own(io, lay) => Own(Fresh(io), lay)
    BY <1>1, SameCache
  <1>3. CASE o = Fresh(io)
    BY <1>1, <1>2, <1>3
  <1>4. ASSUME NEW s \in CopySectors(lay, 0),
               o \in LookupOutcomes(Fresh(io), lay, 0, s)
        PROVE  Moves(Fresh(io), o, lay)
    <2>1. 0 \in Copies
      BY DEF Copies
    <2> QED
      BY <1>1, <1>4, <2>1, LookupStep
  <1> QED
    BY <1>1, <1>2, <1>3, <1>4 DEF Moves

LEMMA LabelStep ==
  ASSUME Staged, UpdateLabel
  PROVE  /\ io' \in IoRecords /\ io.faults <= io'.faults
         /\ Own(io, lay) => Own(io', lay)
         /\ \/ stage' = "flush" /\ result' = result
            \/ stage' = "idle" /\ result' = "FAILED"
  <1>1. PICK o :
           /\ \/ o = Fresh(io)
              \/ \E s \in CopySectors(lay, 0) :
                   o \in LookupOutcomes(Fresh(io), lay, 0, s)
           /\ \/ /\ \E S \in SUBSET RootSectors(lay) : io' = Blank(o, lay, S)
                 /\ stage' = "flush" /\ result' = result
              \/ /\ \/ io' = o /\ ~o.ok
                    \/ FALSE \in MayFail(o) /\ io' = Count(o, FALSE)
                 /\ stage' = "idle" /\ result' = "FAILED"
    BY LabelCases DEF Staged
  <1>2. o \in IoRecords /\ io.faults <= o.faults /\ (Own(io, lay) => Own(o, lay))
    BY <1>1, LookedStep
  <1>3. io.faults \in Nat /\ o.faults \in Nat /\ lay \in Layouts
    BY <1>2, TypeFacts, IoFacts DEF Staged
  <1>4. ASSUME NEW S \in SUBSET RootSectors(lay), io' = Blank(o, lay, S)
        PROVE  io' \in IoRecords /\ io'.cache = o.cache /\ io'.faults = o.faults
    <2>1. S \in SUBSET (0 .. lay.total - 1)
      BY <1>3, RootFacts, LayoutFacts
    <2> QED
      BY <1>2, <1>3, <1>4, <2>1, BlankStep
  <1>5. ASSUME FALSE \in MayFail(o), io' = Count(o, FALSE)
        PROVE  io' \in IoRecords /\ io'.cache = o.cache
               /\ io'.faults = o.faults + 1
    BY <1>2, <1>5, CountFacts
  <1>6. /\ io' \in IoRecords /\ io'.cache = o.cache
        /\ io'.faults \in {o.faults, o.faults + 1}
    BY <1>1, <1>2, <1>4, <1>5
  <1>7. io.faults <= io'.faults
    BY <1>2, <1>3, <1>6
  <1>8. Own(o, lay) => Own(io', lay)
    BY <1>6, SameCache
  <1> QED
    BY <1>1, <1>2, <1>6, <1>7, <1>8

LEMMA LabelCarries ==
  ASSUME Staged, UpdateLabel, Own(io, lay), io'.faults = 0,
         NEW k \in Copies, NEW t \in CopySectors(lay, k), NEW lo, NEW up,
         Carries(io, lay, k, t, lo, up)
  PROVE  Carries(io', lay, k, t, lo, up) /\ stage' = "flush" /\ result' = result
  <1>1. PICK o :
           /\ \/ o = Fresh(io)
              \/ \E s \in CopySectors(lay, 0) :
                   o \in LookupOutcomes(Fresh(io), lay, 0, s)
           /\ \/ /\ \E S \in SUBSET RootSectors(lay) : io' = Blank(o, lay, S)
                 /\ stage' = "flush" /\ result' = result
              \/ /\ \/ io' = o /\ ~o.ok
                    \/ FALSE \in MayFail(o) /\ io' = Count(o, FALSE)
                 /\ stage' = "idle" /\ result' = "FAILED"
    BY LabelCases DEF Staged
  <1>2. o \in IoRecords /\ o.faults \in Nat
    BY <1>1, LookedStep, IoFacts
  <1>3. lay \in Layouts /\ io \in IoRecords /\ Fresh(io) \in IoRecords
        /\ 0 \in Copies /\ Own(Fresh(io), lay) /\ Fresh(io).ok = TRUE
    <2>1. lay \in Layouts /\ io \in IoRecords /\ Fresh(io) \in IoRecords
      BY TypeFacts DEF Staged
    <2>2. Fresh(io).cache = io.cache /\ Fresh(io).ok = TRUE
      BY <2>1, FreshStep
    <2>3. Own(Fresh(io), lay)
      BY <2>2, SameCache
    <2> QED
      BY <2>1, <2>2, <2>3 DEF Copies
  <1>4. Carries(Fresh(io), lay, k, t, lo, up)
    <2>1. Fresh(io).cache = io.cache /\ Fresh(io).disk = io.disk
      BY <1>3, FreshStep
    <2> QED
      BY <2>1, SameMarks
  <1>5. ASSUME o.faults = 0
        PROVE  o.ok /\ Carries(o, lay, k, t, lo, up)
    <2>1. CASE o = Fresh(io)
      BY <1>3, <1>4, <2>1
    <2>2. ASSUME NEW s \in CopySectors(lay, 0),
                 o \in LookupOutcomes(Fresh(io), lay, 0, s)
          PROVE  o.ok /\ Carries(o, lay, k, t, lo, up)
      <3>1. o.ok
        BY <1>3, <1>5, <2>2, LookupStep, Zenon
      <3>2. Carries(o, lay, k, t, lo, up)
        BY <1>3, <1>4, <1>5, <2>2, LookupCarries
      <3> QED
        BY <3>1, <3>2
    <2> QED
      BY <1>1, <2>1, <2>2
  <1>6. ASSUME NEW S \in SUBSET RootSectors(lay), io' = Blank(o, lay, S)
        PROVE  Carries(io', lay, k, t, lo, up)
    <2>1. S \in SUBSET (lay.res + 2 * lay.fat .. lay.total - 1)
          /\ S \in SUBSET (0 .. lay.total - 1)
      BY <1>3, RootFacts, LayoutFacts
    <2>2. o.faults = 0
      <3>1. Blank(o, lay, S).faults = o.faults
        BY <1>2, <1>3, <2>1, BlankStep
      <3> QED
        BY <1>6, <3>1
    <2> QED
      BY <1>2, <1>3, <1>5, <1>6, <2>1, <2>2, BlankCarries
  <1>7. CASE io' = o /\ ~o.ok
    BY <1>5, <1>7
  <1>8. CASE FALSE \in MayFail(o) /\ io' = Count(o, FALSE)
    <2>1. io'.faults = o.faults + 1
      BY <1>2, <1>8, CountFacts
    <2> QED
      BY <1>2, <2>1
  <1> QED
    BY <1>1, <1>6, <1>7, <1>8

LEMMA FinishStep ==
  ASSUME Staged, Finish
  PROVE  /\ io' \in IoRecords /\ io.faults <= io'.faults
         /\ Own(io, lay) => /\ Own(io', lay)
                            /\ io'.wrote \subseteq FatArea(lay)
                            /\ io'.faults = 0
                                 => io' \in FlushOutcomes(Fresh(io), lay, 0)
  <1>1. io \in IoRecords /\ lay \in Layouts /\ Fresh(io) \in IoRecords
        /\ Fresh(io).cache = io.cache /\ Fresh(io).faults = io.faults
        /\ Fresh(io).wrote = {}
    BY TypeFacts, FreshStep DEF Staged
  <1>2. io' \in FatFlushOutcomes(Fresh(io), lay)
    BY DEF Finish
  <1>3. Moves(Fresh(io), io', lay)
    BY <1>1, <1>2, FatFlushStep
  <1>4. Own(io, lay) => Own(Fresh(io), lay)
    BY <1>1, SameCache
  <1>5. Own(io, lay) /\ io'.faults = 0 => io' \in FlushOutcomes(Fresh(io), lay, 0)
    BY <1>1, <1>2, <1>4, FatFlushStep
  <1> QED
    BY <1>1, <1>3, <1>4, <1>5 DEF Moves

(* Without failures the flush brings the first copy to the disk.           *)
LEMMA FinishCarries ==
  ASSUME Staged, Finish, Own(io, lay), io'.faults = 0,
         NEW t \in CopySectors(lay, 0), NEW lo, NEW up,
         Carries(io, lay, 0, t, lo, up)
  PROVE  /\ Carries(io', lay, 0, t, lo, up)
         /\ lo \subseteq io'.disk[lay.base + t]
         /\ io'.disk[lay.base + t] \subseteq up
  <1>1. io' \in FlushOutcomes(Fresh(io), lay, 0) /\ 0 \in Copies
    BY FinishStep DEF Copies
  <1>2. io \in IoRecords /\ lay \in Layouts /\ Fresh(io) \in IoRecords
        /\ Fresh(io).cache = io.cache /\ Fresh(io).disk = io.disk
    BY TypeFacts, FreshStep DEF Staged
  <1>3. Own(Fresh(io), lay) /\ Carries(Fresh(io), lay, 0, t, lo, up)
    BY <1>2, SameCache, SameMarks
  <1>4. Carries(io', lay, 0, t, lo, up)
    BY <1>1, <1>2, <1>3, FlushCarries
  <1>5. ~NeedsWrite(io'.cache[0])
    BY <1>1, <1>2, <1>3, FlushStep
  <1>6. ~(InCache(io'.cache[0], Row, t) /\ io'.cache[0].dirty)
    BY <1>5, FormatConstants DEF InCache, NeedsWrite
  <1> QED
    BY <1>4, <1>6 DEF Carries

-------------------------------------------------------------------------------
(* Staged is an invariant.                                                 *)
Others ==
  /\ lay \in Layouts /\ media \in MediaFaults
  /\ form \in {"verify", "destructive"}
  /\ stage \in {"idle", "tables", "root", "scan", "label", "flush"}
  /\ pos \in 0..DiskSize /\ bad \subseteq 0..DiskSize
  /\ rootClear \in BOOLEAN
  /\ result \in {"NONE", "OK", "WARN", "FAILED", "CANCEL"}
  /\ formats \in 0..MaxFormats /\ edits \in 0..MaxEdits

LEMMA TypeParts ==
  /\ TypeOK <=> io \in IoRecords /\ Others
  /\ TypeOK' <=> io' \in IoRecords /\ Others'
  BY Zenon DEF TypeOK, IoRecords, Others

LEMMA StagedInit == Init => Staged
  <1> SUFFICES ASSUME Init PROVE Staged
    OBVIOUS
  <1> DEFINE b == EmptyBlock(0, {})
             d == [x \in Disk |-> Garbage]
             c == [x \in Copies |-> b]
  <1>1. b \in Block({Row}, 0..DiskSize, SUBSET Nibbles)
        /\ b.part = None /\ b.dirty = FALSE
    BY FormatConstants DEF EmptyBlock, Block
  <1>2. c \in [Copies -> Block({Row}, 0..DiskSize, SUBSET Nibbles)]
        /\ \A copy \in Copies : c[copy] = b
    BY <1>1
  <1>3. d \in [Disk -> SUBSET Nibbles]
    BY DEF Garbage
  <1> HIDE DEF b, c, d
  <1>4. io = [disk |-> d, cache |-> c, faults |-> 0, wrote |-> {}, ok |-> TRUE]
    BY DEF Init, b, c, d
  <1>5. io \in IoRecords /\ io.cache = c
    <2>1. 0 \in 0..MaxFaults /\ {} \in SUBSET Disk
      BY FormatConstants
    <2>2. [disk |-> d, cache |-> c, faults |-> 0, wrote |-> {}, ok |-> TRUE]
            \in IoRecords
      BY <1>2, <1>3, <2>1 DEF IoRecords
    <2>3. io.cache = c
      BY <1>4
    <2> QED
      BY <1>4, <2>2, <2>3, Zenon
  <1>6. NoBlocks
    BY <1>1, <1>2, <1>5 DEF NoBlocks
  <1>7. TypeOK
    <2>1. 0 \in 0..DiskSize /\ 0 \in 0..MaxFormats /\ 0 \in 0..MaxEdits
      BY FormatConstants
    <2>2. lay \in Layouts /\ media \in MediaFaults
      BY DEF Init
    <2>3. Others
      BY <2>1, <2>2 DEF Init, Others
    <2> QED
      BY <1>5, <2>3, TypeParts
  <1>8. Own(io, lay)
    BY <1>6 DEF NoBlocks, Own
  <1> QED
    BY <1>6, <1>7, <1>8 DEF Staged, Init, Scanning

LEMMA StagedNext == Staged /\ [Next]_vars => Staged'
  <1> SUFFICES ASSUME Staged, [Next]_vars PROVE Staged'
    OBVIOUS
  <1>0. /\ TypeOK /\ io \in IoRecords /\ lay \in Layouts
        /\ Fresh(io) \in IoRecords /\ Fresh(io).cache = io.cache
        /\ formats \in Nat /\ edits \in Nat
        /\ formats \in 0..MaxFormats /\ edits \in 0..MaxEdits
        /\ NonData(lay) \in Nat /\ lay.total \in Nat
        /\ NonData(lay) < lay.total /\ lay.total <= DiskSize
        /\ Others
    <2>1. TypeOK
      BY DEF Staged
    <2>2. io \in IoRecords /\ lay \in Layouts /\ Fresh(io) \in IoRecords
          /\ formats \in Nat /\ edits \in Nat /\ lay.total <= DiskSize
      BY <2>1, TypeFacts
    <2>3. NonData(lay) \in Nat /\ lay.total \in Nat /\ NonData(lay) < lay.total
      BY <2>2, LayoutFacts
    <2>4. Fresh(io).cache = io.cache
      BY <2>2, FreshStep
    <2>5. formats \in 0..MaxFormats /\ edits \in 0..MaxEdits /\ Others
      BY <2>1, TypeParts DEF TypeOK
    <2> QED
      BY <2>1, <2>2, <2>3, <2>4, <2>5
  <1>1. CASE EditRow
    <2>1. io' = Fresh(io) /\ lay' \in Layouts /\ stage = "idle"
          /\ stage' = stage /\ formats' = formats
          /\ edits' = edits + 1 /\ edits' \in 0..MaxEdits
      BY <1>0, <1>1, FormatConstants DEF EditRow
    <2>2. TypeOK'
      <3>1. Others'
        BY <1>0, <1>1, <2>1 DEF EditRow, Others
      <3> QED
        BY <1>0, <2>1, <3>1, TypeParts
    <2>3. edits' # 0 /\ ~Scanning' /\ formats' \in Nat
      BY <1>0, <2>1 DEF Scanning
    <2>4. NoBlocks => NoBlocks'
      BY <1>0, <2>1 DEF NoBlocks
    <2> QED
      BY <2>1, <2>2, <2>3, <2>4 DEF Staged, Current, Scanning
  <1>2. CASE Refuse
    <2>1. io' = Fresh(io) /\ lay' = lay /\ stage = "idle" /\ stage' = "idle"
          /\ formats' = formats + 1 /\ formats' \in 1..MaxFormats
          /\ edits' = edits
      BY <1>0, <1>2, FormatConstants DEF Refuse, Return
    <2>2. TypeOK'
      <3>1. Others'
        BY <1>0, <1>2, <2>1 DEF Refuse, Return, Others
      <3> QED
        BY <1>0, <2>1, <3>1, TypeParts
    <2>3. Own(io, lay) => Own(io', lay')
      BY <1>0, <2>1, SameCache
    <2> QED
      BY <2>1, <2>2, <2>3 DEF Staged, Current, Scanning
  <1>3. CASE WriteBoot
    <2>1. io' \in IoRecords /\ io'.cache = io.cache /\ lay' = lay
          /\ stage = "idle" /\ stage' \in {"tables", "idle"}
          /\ formats' = formats + 1 /\ formats' \in 1..MaxFormats
          /\ edits' = edits
      <3>1. io' \in IoRecords /\ io'.cache = io.cache
            /\ stage' \in {"tables", "idle"}
        BY <1>0, <1>3, BootStep
      <3>2. lay' = lay /\ stage = "idle" /\ formats' = formats + 1
            /\ edits' = edits /\ formats < MaxFormats
        BY <1>3 DEF WriteBoot
      <3>3. formats' \in 1..MaxFormats
        BY <1>0, <3>2, FormatConstants
      <3> QED
        BY <3>1, <3>2, <3>3
    <2>2. result' \in {"NONE", "FAILED"}
      BY <1>0, <1>3, BootStep
    <2>3. TypeOK'
      <3>0. form' \in {"verify", "destructive"} /\ bad' = {}
            /\ rootClear' \in BOOLEAN /\ media' = media /\ pos' = pos
        BY <1>3 DEF WriteBoot
      <3>1. Others'
        BY <1>0, <2>1, <2>2, <3>0 DEF Others
      <3> QED
        BY <1>0, <2>1, <3>1, TypeParts
    <2>4. Own(io, lay) => Own(io', lay')
      BY <2>1, SameCache
    <2>5. formats' = 1 => NoBlocks'
      BY <1>0, <2>1 DEF NoBlocks, Staged
    <2> QED
      BY <2>1, <2>3, <2>4, <2>5 DEF Staged, Current, Scanning
  <1>4. CASE InitializeTables
    <2>1. io' \in IoRecords /\ io'.cache = io.cache /\ lay' = lay
          /\ stage = "tables" /\ stage' \in {"root", "idle"}
          /\ formats' = formats /\ edits' = edits
      BY <1>0, <1>4, TablesStep DEF InitializeTables
    <2>2. result' \in {result, "FAILED", "CANCEL"}
      BY <1>0, <1>4, TablesStep
    <2>3. TypeOK'
      <3>1. Others'
        BY <1>0, <1>4, <2>1, <2>2 DEF InitializeTables, Others
      <3> QED
        BY <1>0, <2>1, <3>1, TypeParts
    <2>4. Own(io, lay) => Own(io', lay')
      BY <2>1, SameCache
    <2>5. NoBlocks => NoBlocks'
      BY <2>1 DEF NoBlocks
    <2> QED
      BY <2>1, <2>3, <2>4, <2>5 DEF Staged, Current, Scanning
  <1>5. CASE InitializeRoot
    <2>1. io' \in IoRecords /\ io'.cache = io.cache /\ lay' = lay
          /\ stage = "root" /\ stage' = "scan"
          /\ formats' = formats /\ edits' = edits /\ pos' = NonData(lay)
          /\ rootClear' \in BOOLEAN
      BY <1>0, <1>5, RootStep DEF InitializeRoot
    <2>2. pos' \in NonData(lay) .. lay.total /\ pos' \in 0..DiskSize
      BY <1>0, <2>1, FormatConstants
    <2>3. TypeOK'
      <3>1. Others'
        BY <1>0, <1>5, <2>1, <2>2 DEF InitializeRoot, Others
      <3> QED
        BY <1>0, <2>1, <3>1, TypeParts
    <2>4. Own(io, lay) => Own(io', lay')
      BY <2>1, SameCache
    <2>5. formats = 1 => Own(io, lay)
      BY <2>1 DEF Staged, NoBlocks, Own
    <2> QED
      BY <1>0, <2>1, <2>2, <2>3, <2>4, <2>5 DEF Staged, Current, Scanning
  <1>6. CASE ScanSector
    <2>1. io' \in IoRecords /\ (Own(io, lay) => Own(io', lay))
      BY <1>6, ScanStep
    <2>2. lay' = lay /\ stage = "scan" /\ formats' = formats /\ edits' = edits
          /\ stage' \in {"scan", "idle"} /\ result' \in {result, "FAILED"}
          /\ pos' = pos + 1
      BY <1>6 DEF ScanSector, Return
    <2>3. pos' \in NonData(lay) .. lay.total /\ pos' \in 0..DiskSize
          /\ pos \in 0..DiskSize
      <3>1. pos \in NonData(lay) .. lay.total - 1
        BY <1>6, TestedFacts
      <3> QED
        BY <1>0, <2>2, <3>1, FormatConstants
    <2>4. bad' \subseteq 0..DiskSize
      BY <1>0, <1>6, <2>3, TestedFacts DEF Others
    <2>5. TypeOK'
      <3>1. Others'
        BY <1>0, <1>6, <2>1, <2>2, <2>3, <2>4 DEF ScanSector, Others
      <3> QED
        BY <1>0, <2>1, <3>1, TypeParts
    <2> QED
      BY <1>0, <2>1, <2>2, <2>3, <2>5 DEF Staged, Current, Scanning
  <1>7. CASE EndScan
    <2>1. io' = Fresh(io) /\ lay' = lay /\ stage = "scan" /\ stage' = "label"
          /\ formats' = formats /\ edits' = edits /\ pos' = pos
      BY <1>7 DEF EndScan
    <2>2. TypeOK'
      <3>1. Others'
        BY <1>0, <1>7, <2>1 DEF EndScan, Others
      <3> QED
        BY <1>0, <2>1, <3>1, TypeParts
    <2>3. Own(io, lay) => Own(io', lay')
      BY <1>0, <2>1, SameCache
    <2> QED
      BY <2>1, <2>2, <2>3 DEF Staged, Current, Scanning
  <1>8. CASE UpdateLabel
    <2>1. io' \in IoRecords /\ (Own(io, lay) => Own(io', lay))
          /\ stage' \in {"flush", "idle"} /\ result' \in {result, "FAILED"}
      BY <1>8, LabelStep
    <2>2. lay' = lay /\ stage = "label" /\ formats' = formats
          /\ edits' = edits /\ pos' = pos
      BY <1>8 DEF UpdateLabel
    <2>3. TypeOK'
      <3>1. Others'
        BY <1>0, <1>8, <2>1, <2>2 DEF UpdateLabel, Others
      <3> QED
        BY <1>0, <2>1, <3>1, TypeParts
    <2> QED
      BY <2>1, <2>2, <2>3 DEF Staged, Current, Scanning
  <1>9. CASE Finish
    <2>1. io' \in IoRecords /\ (Own(io, lay) => Own(io', lay))
      BY <1>9, FinishStep
    <2>2. lay' = lay /\ stage = "flush" /\ stage' = "idle"
          /\ formats' = formats /\ edits' = edits
          /\ result' \in {"OK", "WARN", "FAILED"}
      BY <1>9 DEF Finish, Return
    <2>3. TypeOK'
      <3>1. Others'
        BY <1>0, <1>9, <2>1, <2>2 DEF Finish, Others
      <3> QED
        BY <1>0, <2>1, <3>1, TypeParts
    <2> QED
      BY <2>1, <2>2, <2>3 DEF Staged, Current, Scanning
  <1>10. CASE UNCHANGED vars
    BY <1>10 DEF vars, Staged, TypeOK, Current, Scanning, NoBlocks, Own,
                 CopySectors
  <1> QED
    BY <1>1, <1>2, <1>3, <1>4, <1>5, <1>6, <1>7, <1>8, <1>9, <1>10 DEF Next

-------------------------------------------------------------------------------
(* The marks on the FAT copies while no transfer has failed.               *)
MarksOf(L, S, i) == UNION {NibblesIn(L, SectorToCluster(L, x), i) : x \in S}
Unreadable == {a - lay.base : a \in media}

ExactMarks(o, L, S) ==
  \A k \in Copies : \A i \in 0 .. L.fat - 1 :
    Carries(o, L, k, FatStart(L, k) + i, MarksOf(L, S, i), MarksOf(L, S, i))
FirstCopyMarks(o, L, S, U) ==
  \A i \in 0 .. L.fat - 1 :
    Carries(o, L, 0, FatStart(L, 0) + i, MarksOf(L, S, i), MarksOf(L, U, i))

(* What a block may still hold from formats before this one.               *)
Leftovers(o, L, U) ==
  \A i \in 0 .. L.fat - 1 :
    InCache(o.cache[0], Row, FatStart(L, 0) + i)
      => o.cache[0].data \subseteq MarksOf(L, U, i)

BlankCopies(o, L) ==
  \A k \in Copies : \A s \in CopySectors(L, k) : o.disk[L.base + s] = {}

MarksInv ==
  /\ stage \in {"tables", "root"} => bad = {}
  /\ stage = "root" => BlankCopies(io, lay)
  /\ io.faults = 0 =>
       /\ formats = 1 /\ Scanning => ExactMarks(io, lay, bad)
       /\ edits = 0 => Leftovers(io, lay, Unreadable)
       /\ edits = 0 /\ Scanning => FirstCopyMarks(io, lay, bad, Unreadable)
       /\ formats = 1 /\ Succeeded =>
            \A i \in 0 .. lay.fat - 1 :
              io.disk[lay.base + (FatStart(lay, 0) + i)] = MarksOf(lay, bad, i)
       /\ edits = 0 /\ Succeeded =>
            \A i \in 0 .. lay.fat - 1 :
              /\ MarksOf(lay, bad, i)
                   \subseteq io.disk[lay.base + (FatStart(lay, 0) + i)]
              /\ io.disk[lay.base + (FatStart(lay, 0) + i)]
                   \subseteq MarksOf(lay, Unreadable, i)

LEMMA InCopy ==
  ASSUME NEW L \in Layouts, NEW k \in Copies, NEW i \in 0 .. L.fat - 1
  PROVE  FatStart(L, k) + i \in CopySectors(L, k)
  <1>1. FatStart(L, k) \in Nat /\ L.fat \in Nat
    BY LayoutFacts DEF FatStart, Copies
  <1> QED
    BY <1>1 DEF CopySectors

LEMMA MarksLeft ==
  ASSUME NEW o, NEW L, NEW S, NEW U, FirstCopyMarks(o, L, S, U)
  PROVE  Leftovers(o, L, U)
  BY DEF FirstCopyMarks, Leftovers, Carries

(* Routines that change no mark.                                           *)
LEMMA MarksMove ==
  ASSUME NEW o, NEW f, NEW L \in Layouts, NEW S, NEW U,
         \A k \in Copies : \A t \in CopySectors(L, k) : \A lo, up :
           Carries(o, L, k, t, lo, up) => Carries(f, L, k, t, lo, up)
  PROVE  /\ ExactMarks(o, L, S) => ExactMarks(f, L, S)
         /\ FirstCopyMarks(o, L, S, U) => FirstCopyMarks(f, L, S, U)
  <1>1. 0 \in Copies
    BY DEF Copies
  <1>2. ExactMarks(o, L, S) => ExactMarks(f, L, S)
    BY InCopy DEF ExactMarks
  <1>3. FirstCopyMarks(o, L, S, U) => FirstCopyMarks(f, L, S, U)
    BY <1>1, InCopy DEF FirstCopyMarks
  <1> QED
    BY <1>2, <1>3

(* The scan begins with blank copies and at most marks of earlier formats  *)
(* in the cache.                                                           *)
LEMMA RootMarks ==
  ASSUME Staged, MarksInv, InitializeRoot, io'.faults = 0
  PROVE  /\ io.faults = 0
         /\ formats = 1 => ExactMarks(io', lay, bad)
         /\ edits = 0 => FirstCopyMarks(io', lay, bad, Unreadable)
  <1>1. io \in IoRecords /\ lay \in Layouts /\ TypeOK /\ stage = "root"
        /\ io.faults \in Nat
    BY TypeFacts, IoFacts DEF Staged, InitializeRoot
  <1>2. io'.cache = io.cache /\ io.faults = 0
        /\ \A k \in Copies : \A s \in CopySectors(lay, k) :
             io'.disk[lay.base + s] = {}
    <2>1. io'.cache = io.cache /\ io.faults <= io'.faults
      BY <1>1, RootStep
    <2>2. \A k \in Copies : \A s \in CopySectors(lay, k) :
            io'.disk[lay.base + s] = io.disk[lay.base + s]
      BY <1>1, RootStep
    <2>3. BlankCopies(io, lay)
      BY <1>1 DEF MarksInv
    <2> QED
      BY <1>1, <2>1, <2>2, <2>3 DEF BlankCopies
  <1>3. \A i : MarksOf(lay, bad, i) = {}
    BY <1>1 DEF MarksInv, MarksOf
  <1>4. ASSUME formats = 1 PROVE ExactMarks(io', lay, bad)
    <2>1. ASSUME NEW k \in Copies, NEW i \in 0 .. lay.fat - 1
          PROVE  Carries(io', lay, k, FatStart(lay, k) + i, {}, {})
      <3>1. io.cache[k].part = None
        BY <1>1, <1>4 DEF Staged, NoBlocks
      <3>2. ~InCache(io'.cache[k], Row, FatStart(lay, k) + i)
        BY <1>2, <3>1, FormatConstants DEF InCache
      <3>3. io'.disk[lay.base + (FatStart(lay, k) + i)] = {}
        BY <1>1, <1>2, InCopy
      <3> QED
        BY <3>2, <3>3 DEF Carries
    <2> QED
      BY <1>3, <2>1 DEF ExactMarks
  <1>5. ASSUME edits = 0
        PROVE  FirstCopyMarks(io', lay, bad, Unreadable)
    <2>1. Leftovers(io, lay, Unreadable) /\ 0 \in Copies
      BY <1>2, <1>5 DEF MarksInv, Copies
    <2>2. ASSUME NEW i \in 0 .. lay.fat - 1
          PROVE  Carries(io', lay, 0, FatStart(lay, 0) + i, {},
                         MarksOf(lay, Unreadable, i))
      <3>1. io'.disk[lay.base + (FatStart(lay, 0) + i)] = {}
        BY <1>1, <1>2, <2>1, InCopy
      <3> QED
        BY <1>2, <2>1, <3>1 DEF Carries, Leftovers
    <2> QED
      BY <1>3, <2>2 DEF FirstCopyMarks
  <1> QED
    BY <1>2, <1>4, <1>5

LEMMA ScanMarks ==
  ASSUME Staged, ScanSector, Own(io, lay), io'.faults = 0
  PROVE  /\ ExactMarks(io, lay, bad) => ExactMarks(io', lay, bad')
         /\ FirstCopyMarks(io, lay, bad, Unreadable)
              => FirstCopyMarks(io', lay, bad', Unreadable)
  <1> DEFINE N(i) == NibblesIn(lay, SectorToCluster(lay, pos), i)
             U == Unreadable
  <1>0. 0 \in Copies /\ lay.base \in Nat /\ pos \in Nat
    <2>1. lay \in Layouts
      BY TypeFacts DEF Staged
    <2>2. pos \in NonData(lay) .. lay.total - 1
      BY TestedFacts
    <2> QED
      BY <2>1, <2>2, LayoutFacts DEF Copies
  <1>1. CASE lay.base + pos \in media
    <2>1. bad' = bad \cup {pos}
      BY <1>1, TestedFacts
    <2>2. \A i : MarksOf(lay, bad', i) = MarksOf(lay, bad, i) \cup N(i)
      BY <2>1 DEF MarksOf
    <2>3. pos \in U
      <3>1. (lay.base + pos) - lay.base = pos
        BY <1>0
      <3> QED
        BY <1>1, <3>1, Zenon DEF Unreadable
    <2>4. \A i : MarksOf(lay, U, i) \cup N(i) = MarksOf(lay, U, i)
      <3> HIDE DEF U
      <3> QED
        BY <2>3 DEF MarksOf
    <2>5. ASSUME NEW k \in Copies, NEW i \in 0 .. lay.fat - 1, NEW lo, NEW up,
                 Carries(io, lay, k, FatStart(lay, k) + i, lo, up)
          PROVE  Carries(io', lay, k, FatStart(lay, k) + i,
                         lo \cup N(i), up \cup N(i))
      BY <1>1, <2>5, ScanCarries
    <2> HIDE DEF N, U
    <2>6. ExactMarks(io, lay, bad) => ExactMarks(io', lay, bad')
      BY <2>2, <2>5 DEF ExactMarks
    <2>7. FirstCopyMarks(io, lay, bad, U) => FirstCopyMarks(io', lay, bad', U)
      <3>1. ASSUME FirstCopyMarks(io, lay, bad, U), NEW i \in 0 .. lay.fat - 1
            PROVE  Carries(io', lay, 0, FatStart(lay, 0) + i,
                           MarksOf(lay, bad, i) \cup N(i),
                           MarksOf(lay, U, i) \cup N(i))
        BY <1>0, <2>5, <3>1 DEF FirstCopyMarks
      <3> QED
        BY <2>2, <2>4, <3>1 DEF FirstCopyMarks
    <2> QED
      BY <2>6, <2>7 DEF U
  <1>2. CASE lay.base + pos \notin media
    <2>1. bad' = bad
      BY <1>2, TestedFacts
    <2>2. ASSUME NEW k \in Copies, NEW i \in 0 .. lay.fat - 1, NEW lo, NEW up,
                 Carries(io, lay, k, FatStart(lay, k) + i, lo, up)
          PROVE  Carries(io', lay, k, FatStart(lay, k) + i, lo, up)
      BY <1>2, <2>2, ScanCarries
    <2>3. ExactMarks(io, lay, bad) => ExactMarks(io', lay, bad)
      BY <2>2 DEF ExactMarks
    <2>4. FirstCopyMarks(io, lay, bad, U) => FirstCopyMarks(io', lay, bad, U)
      BY <1>0, <2>2 DEF FirstCopyMarks
    <2> QED
      BY <2>1, <2>3, <2>4
  <1> QED
    BY <1>1, <1>2

LEMMA LabelMarks ==
  ASSUME Staged, UpdateLabel, Own(io, lay), io'.faults = 0
  PROVE  /\ ExactMarks(io, lay, bad) => ExactMarks(io', lay, bad)
         /\ FirstCopyMarks(io, lay, bad, Unreadable)
              => FirstCopyMarks(io', lay, bad, Unreadable)
  <1>1. lay \in Layouts
    BY TypeFacts DEF Staged
  <1>2. ASSUME NEW k \in Copies, NEW t \in CopySectors(lay, k), NEW lo, NEW up,
               Carries(io, lay, k, t, lo, up)
        PROVE  Carries(io', lay, k, t, lo, up)
    BY <1>2, LabelCarries
  <1> QED
    BY <1>1, <1>2, MarksMove

(* After a flush without failures the first copy on disk has the marks.    *)
LEMMA FinishMarks ==
  ASSUME Staged, Finish, Own(io, lay), io'.faults = 0
  PROVE  /\ ExactMarks(io, lay, bad) =>
              \A i \in 0 .. lay.fat - 1 :
                io'.disk[lay.base + (FatStart(lay, 0) + i)]
                  = MarksOf(lay, bad, i)
         /\ FirstCopyMarks(io, lay, bad, Unreadable) =>
              /\ Leftovers(io', lay, Unreadable)
              /\ \A i \in 0 .. lay.fat - 1 :
                   /\ MarksOf(lay, bad, i)
                        \subseteq io'.disk[lay.base + (FatStart(lay, 0) + i)]
                   /\ io'.disk[lay.base + (FatStart(lay, 0) + i)]
                        \subseteq MarksOf(lay, Unreadable, i)
  <1>1. 0 \in Copies
    BY DEF Copies
  <1>2. \A i \in 0 .. lay.fat - 1 : FatStart(lay, 0) + i \in CopySectors(lay, 0)
    BY <1>1, InCopy, TypeFacts DEF Staged
  <1>3. ASSUME NEW i \in 0 .. lay.fat - 1, NEW lo, NEW up,
               Carries(io, lay, 0, FatStart(lay, 0) + i, lo, up)
        PROVE  /\ Carries(io', lay, 0, FatStart(lay, 0) + i, lo, up)
               /\ lo \subseteq io'.disk[lay.base + (FatStart(lay, 0) + i)]
               /\ io'.disk[lay.base + (FatStart(lay, 0) + i)] \subseteq up
    BY <1>2, <1>3, FinishCarries
  <1>4. ASSUME ExactMarks(io, lay, bad), NEW i \in 0 .. lay.fat - 1
        PROVE  io'.disk[lay.base + (FatStart(lay, 0) + i)]
                 = MarksOf(lay, bad, i)
    <2>1. Carries(io, lay, 0, FatStart(lay, 0) + i,
                  MarksOf(lay, bad, i), MarksOf(lay, bad, i))
      BY <1>1, <1>4 DEF ExactMarks
    <2>2. MarksOf(lay, bad, i)
            \subseteq io'.disk[lay.base + (FatStart(lay, 0) + i)]
          /\ io'.disk[lay.base + (FatStart(lay, 0) + i)]
               \subseteq MarksOf(lay, bad, i)
      BY <1>3, <2>1
    <2> QED
      BY <2>2, Zenon
  <1>5. ASSUME FirstCopyMarks(io, lay, bad, Unreadable),
               NEW i \in 0 .. lay.fat - 1
        PROVE  /\ Carries(io', lay, 0, FatStart(lay, 0) + i,
                          MarksOf(lay, bad, i), MarksOf(lay, Unreadable, i))
               /\ MarksOf(lay, bad, i)
                    \subseteq io'.disk[lay.base + (FatStart(lay, 0) + i)]
               /\ io'.disk[lay.base + (FatStart(lay, 0) + i)]
                    \subseteq MarksOf(lay, Unreadable, i)
    <2>1. Carries(io, lay, 0, FatStart(lay, 0) + i,
                  MarksOf(lay, bad, i), MarksOf(lay, Unreadable, i))
      BY <1>5 DEF FirstCopyMarks
    <2> QED
      BY <1>3, <2>1
  <1>6. FirstCopyMarks(io, lay, bad, Unreadable) => Leftovers(io', lay, Unreadable)
    <2>1. FirstCopyMarks(io, lay, bad, Unreadable)
            => FirstCopyMarks(io', lay, bad, Unreadable)
      BY <1>5 DEF FirstCopyMarks
    <2> QED
      BY <2>1, MarksLeft
  <1> QED
    BY <1>4, <1>5, <1>6

LEMMA MarksInit == Init => MarksInv
  <1> SUFFICES ASSUME Init PROVE MarksInv
    OBVIOUS
  <1>1. stage = "idle" /\ result = "NONE" /\ ~Scanning /\ ~Succeeded
    BY DEF Init, Scanning, Succeeded
  <1>2. io.cache[0].part = None
    BY DEF Init, Copies, EmptyBlock
  <1>3. Leftovers(io, lay, Unreadable)
    BY <1>2, FormatConstants DEF Leftovers, InCache
  <1> QED
    BY <1>1, <1>3 DEF MarksInv

LEMMA MarksNext == Staged /\ MarksInv /\ [Next]_vars => MarksInv'
  <1> SUFFICES ASSUME Staged, MarksInv, [Next]_vars PROVE MarksInv'
    OBVIOUS
  <1>0. /\ TypeOK /\ io \in IoRecords /\ lay \in Layouts
        /\ Fresh(io) \in IoRecords /\ Fresh(io).cache = io.cache
        /\ Fresh(io).disk = io.disk /\ Fresh(io).faults = io.faults
        /\ formats \in Nat /\ edits \in Nat /\ io.faults \in Nat
    BY TypeFacts, FreshStep, IoFacts DEF Staged
  (* A step that ends the format without success, or begins one.           *)
  <1>a. ASSUME ~Scanning', ~Succeeded', stage' # "root",
               stage' = "tables" => bad' = {},
               io'.faults = 0 /\ edits' = 0 => Leftovers(io', lay', Unreadable')
        PROVE  MarksInv'
    BY <1>a DEF MarksInv
  (* The same without touching the cache.                                  *)
  <1>b. ASSUME io'.cache = io.cache, io.faults <= io'.faults,
               lay' = lay, media' = media, edits' = edits
        PROVE  io'.faults = 0 /\ edits' = 0 => Leftovers(io', lay', Unreadable')
    <2>1. Unreadable' = Unreadable
      BY <1>b DEF Unreadable
    <2>2. io'.faults = 0 => io.faults = 0
      BY <1>0, <1>b
    <2> QED
      BY <1>b, <2>1, <2>2 DEF MarksInv, Leftovers
  <1>1. CASE EditRow
    <2>1. stage' = "idle" /\ result' = "NONE" /\ edits' # 0
      BY <1>0, <1>1 DEF EditRow
    <2> QED
      BY <1>a, <2>1 DEF Scanning, Succeeded
  <1>2. CASE Refuse
    <2>1. stage' = "idle" /\ result' = "FAILED" /\ io' = Fresh(io)
          /\ lay' = lay /\ media' = media /\ edits' = edits
      BY <1>2 DEF Refuse, Return
    <2>2. io'.cache = io.cache /\ io.faults <= io'.faults
      BY <1>0, <2>1
    <2> QED
      BY <1>a, <1>b, <2>1, <2>2 DEF Scanning, Succeeded
  <1>3. CASE WriteBoot
    <2>1. lay' = lay /\ media' = media /\ edits' = edits /\ bad' = {}
      BY <1>3 DEF WriteBoot
    <2>2. io'.cache = io.cache /\ io.faults <= io'.faults
          /\ (stage' = "tables" \/ (stage' = "idle" /\ result' = "FAILED"))
      BY <1>0, <1>3, BootStep
    <2> QED
      BY <1>a, <1>b, <2>1, <2>2 DEF Scanning, Succeeded
  <1>4. CASE InitializeTables
    <2>1. lay' = lay /\ media' = media /\ edits' = edits /\ bad' = bad
          /\ stage = "tables"
      BY <1>4 DEF InitializeTables
    <2>2. io'.cache = io.cache /\ io.faults <= io'.faults
      BY <1>0, <1>4, TablesStep
    <2>3. CASE stage' = "idle" /\ result' \in {"FAILED", "CANCEL"}
      BY <1>a, <1>b, <2>1, <2>2, <2>3 DEF Scanning, Succeeded
    <2>4. CASE stage' = "root" /\ BlankCopies(io', lay)
      <3>1. ~Scanning' /\ ~Succeeded' /\ bad' = {}
        BY <2>1, <2>4 DEF Scanning, Succeeded, MarksInv
      <3> QED
        BY <1>b, <2>1, <2>2, <2>4, <3>1 DEF MarksInv
    <2> QED
      BY <1>0, <1>4, <2>3, <2>4, TablesStep DEF BlankCopies
  <1>5. CASE InitializeRoot
    <2>1. lay' = lay /\ media' = media /\ edits' = edits /\ bad' = bad
          /\ stage' = "scan" /\ formats' = formats
      BY <1>5 DEF InitializeRoot
    <2>2. Unreadable' = Unreadable
      BY <2>1 DEF Unreadable
    <2>3. io'.faults = 0 => /\ formats = 1 => ExactMarks(io', lay, bad)
                            /\ edits = 0 => FirstCopyMarks(io', lay, bad, Unreadable)
      BY <1>5, RootMarks
    <2>4. io'.faults = 0 /\ edits = 0 => Leftovers(io', lay, Unreadable)
      BY <2>3, MarksLeft
    <2>5. ~Succeeded'
      BY <2>1 DEF Succeeded
    <2> QED
      BY <2>1, <2>2, <2>3, <2>4, <2>5 DEF MarksInv
  <1>6. CASE ScanSector
    <2>1. lay' = lay /\ media' = media /\ edits' = edits
          /\ formats' = formats /\ stage = "scan"
          /\ (stage' = "scan" \/ (stage' = "idle" /\ result' = "FAILED"))
      BY <1>6 DEF ScanSector, Return
    <2>2. Unreadable' = Unreadable
      BY <2>1 DEF Unreadable
    <2>3. io'.faults = 0 => io.faults = 0
      BY <1>0, <1>6, ScanStep
    <2>4. io'.faults = 0 /\ formats = 1 => ExactMarks(io', lay, bad')
      <3>1. formats = 1 => Own(io, lay)
        BY <2>1 DEF Staged, Current, Scanning
      <3> QED
        BY <1>6, <2>1, <2>3, <3>1, ScanMarks DEF MarksInv, Scanning
    <2>5. io'.faults = 0 /\ edits = 0 => FirstCopyMarks(io', lay, bad', Unreadable)
      <3>1. edits = 0 => Own(io, lay)
        BY DEF Staged, Current
      <3> QED
        BY <1>6, <2>1, <2>3, <3>1, ScanMarks DEF MarksInv, Scanning
    <2>6. io'.faults = 0 /\ edits = 0 => Leftovers(io', lay, Unreadable)
      BY <2>5, MarksLeft
    <2>7. ~Succeeded'
      BY <2>1 DEF Succeeded
    <2> QED
      BY <2>1, <2>2, <2>4, <2>5, <2>6, <2>7 DEF MarksInv
  <1>7. CASE EndScan
    <2>1. lay' = lay /\ media' = media /\ edits' = edits /\ bad' = bad
          /\ formats' = formats /\ stage = "scan" /\ stage' = "label"
          /\ io' = Fresh(io)
      BY <1>7 DEF EndScan
    <2>2. Unreadable' = Unreadable
      BY <2>1 DEF Unreadable
    <2>3. /\ ExactMarks(io, lay, bad) => ExactMarks(io', lay, bad)
          /\ FirstCopyMarks(io, lay, bad, Unreadable)
               => FirstCopyMarks(io', lay, bad, Unreadable)
      <3>1. io'.cache = io.cache /\ io'.disk = io.disk
        BY <1>0, <2>1
      <3>2. \A k \in Copies : \A t \in CopySectors(lay, k) : \A lo, up :
              Carries(io, lay, k, t, lo, up) => Carries(io', lay, k, t, lo, up)
        BY <3>1, SameMarks
      <3> QED
        BY <1>0, <3>2, MarksMove
    <2>4. io'.faults = io.faults /\ Leftovers(io', lay, Unreadable)
                                      = Leftovers(io, lay, Unreadable)
      BY <1>0, <2>1 DEF Leftovers
    <2>5. ~Succeeded'
      BY <2>1 DEF Succeeded
    <2> QED
      BY <2>1, <2>2, <2>3, <2>4, <2>5 DEF MarksInv, Scanning
  <1>8. CASE UpdateLabel
    <2>1. lay' = lay /\ media' = media /\ edits' = edits /\ bad' = bad
          /\ formats' = formats /\ stage = "label"
      BY <1>8 DEF UpdateLabel
    <2>2. Unreadable' = Unreadable
      BY <2>1 DEF Unreadable
    <2>3. io'.faults = 0 => io.faults = 0
      BY <1>0, <1>8, LabelStep
    <2>4. io'.faults = 0 /\ formats = 1 => ExactMarks(io', lay, bad)
      <3>1. formats = 1 => Own(io, lay)
        BY <2>1 DEF Staged, Current, Scanning
      <3> QED
        BY <1>8, <2>1, <2>3, <3>1, LabelMarks DEF MarksInv, Scanning
    <2>5. io'.faults = 0 /\ edits = 0 => FirstCopyMarks(io', lay, bad, Unreadable)
      <3>1. edits = 0 => Own(io, lay)
        BY DEF Staged, Current
      <3> QED
        BY <1>8, <2>1, <2>3, <3>1, LabelMarks DEF MarksInv, Scanning
    <2>6. io'.faults = 0 /\ edits = 0 => Leftovers(io', lay, Unreadable)
      BY <2>5, MarksLeft
    <2>7. stage' = "flush" \/ (stage' = "idle" /\ result' = "FAILED")
      BY <1>8, LabelStep
    <2>8. ~Succeeded'
      BY <2>7 DEF Succeeded
    <2> QED
      BY <2>1, <2>2, <2>4, <2>5, <2>6, <2>7, <2>8 DEF MarksInv
  <1>9. CASE Finish
    <2>1. lay' = lay /\ media' = media /\ edits' = edits /\ bad' = bad
          /\ formats' = formats /\ stage = "flush" /\ stage' = "idle"
      BY <1>9 DEF Finish, Return
    <2>2. Unreadable' = Unreadable
      BY <2>1 DEF Unreadable
    <2>3. io'.faults = 0 => io.faults = 0
      BY <1>0, <1>9, FinishStep
    <2>4. io'.faults = 0 /\ formats = 1 =>
            \A i \in 0 .. lay.fat - 1 :
              io'.disk[lay.base + (FatStart(lay, 0) + i)] = MarksOf(lay, bad, i)
      <3>1. formats = 1 => Own(io, lay)
        BY <2>1 DEF Staged, Current, Scanning
      <3> QED
        BY <1>9, <2>1, <2>3, <3>1, FinishMarks DEF MarksInv, Scanning
    <2>5. io'.faults = 0 /\ edits = 0 =>
            /\ Leftovers(io', lay, Unreadable)
            /\ \A i \in 0 .. lay.fat - 1 :
                 /\ MarksOf(lay, bad, i)
                      \subseteq io'.disk[lay.base + (FatStart(lay, 0) + i)]
                 /\ io'.disk[lay.base + (FatStart(lay, 0) + i)]
                      \subseteq MarksOf(lay, Unreadable, i)
      <3>1. edits = 0 => Own(io, lay)
        BY DEF Staged, Current
      <3> QED
        BY <1>9, <2>1, <2>3, <3>1, FinishMarks DEF MarksInv, Scanning
    <2>6. ~Scanning'
      BY <2>1 DEF Scanning
    <2> QED
      BY <2>1, <2>2, <2>4, <2>5, <2>6 DEF MarksInv
  <1>10. CASE UNCHANGED vars
    BY <1>10 DEF vars, MarksInv, Scanning, Succeeded, Unreadable
  <1> QED
    BY <1>1, <1>2, <1>3, <1>4, <1>5, <1>6, <1>7, <1>8, <1>9, <1>10 DEF Next

-------------------------------------------------------------------------------
(* The theorems.                                                           *)
LEMMA FormatInvariant == Spec => [](Staged /\ MarksInv)
  <1>1. Init => Staged /\ MarksInv
    BY StagedInit, MarksInit
  <1>2. Staged /\ MarksInv /\ [Next]_vars => (Staged /\ MarksInv)'
    BY StagedNext, MarksNext
  <1> QED
    BY <1>1, <1>2, PTL DEF Spec

(* format_fat and its cache blocks stay well typed: blocks remember no     *)
(* other row, writes stay on the disk, and the scan stays in the row.      *)
THEOREM FormatTypeOK == Spec => []TypeOK
  <1>1. Staged => TypeOK
    BY DEF Staged
  <1> QED
    BY <1>1, FormatInvariant, PTL

(* The surface check of an unedited row changes nothing but its FATs and   *)
(* the sector under test, whatever transfers fail: a changed block of      *)
(* either copy is always one of that copy's sectors.                       *)
THEOREM ScanKeepsToTheFats == Spec => ScanWritesOnlyFats
  <1> DEFINE A == edits = 0 =>
                    /\ stage = "scan"
                         => io'.wrote \subseteq FatArea(lay) \cup UnderTest
                    /\ stage = "flush" => io'.wrote \subseteq FatArea(lay)
  <1>1. Staged /\ [Next]_vars => [A]_vars
    <2> SUFFICES ASSUME Staged, Next, edits = 0 PROVE A
      BY DEF A
    <2>1. Own(io, lay)
      BY DEF Staged, Current
    <2>2. CASE ScanSector
      BY <2>1, <2>2, ScanStep DEF ScanSector
    <2>3. CASE Finish
      BY <2>1, <2>3, FinishStep DEF Finish
    <2>4. CASE EndScan
      <3>1. io \in IoRecords /\ io' = Fresh(io) /\ stage = "scan"
        BY <2>4, TypeFacts DEF EndScan, Staged
      <3>2. io'.wrote = {}
        BY <3>1, FreshStep
      <3> QED
        BY <3>1, <3>2
    <2>5. ~(ScanSector \/ Finish \/ EndScan) => stage \notin {"scan", "flush"}
      BY DEF Next, EditRow, Refuse, WriteBoot, InitializeTables,
             InitializeRoot, UpdateLabel
    <2> QED
      BY <2>2, <2>3, <2>4, <2>5
  <1>2. Spec => [][A]_vars
    BY <1>1, FormatInvariant, PTL DEF Spec
  <1> QED
    BY <1>2 DEF ScanWritesOnlyFats

(* MarksOf gives what Marked and Seen are stated with.                     *)
LEMMA StatedMarks ==
  ASSUME NEW S
  PROVE  Marked(S) = [s \in 0..lay.fat - 1 |-> MarksOf(lay, S, s)]
  BY DEF Marked, MarksOf

(* Seen through the cache, both copies carry exactly the marks of the bad  *)
(* sectors found, throughout the first format of a session.                *)
THEOREM CopiesExact == Spec => []CachedCopiesExact
  <1>1. Staged /\ MarksInv => CachedCopiesExact
    <2> SUFFICES ASSUME Staged, MarksInv, formats = 1, io.faults = 0, Scanning,
                        NEW copy \in Copies
                 PROVE  Seen(copy) = Marked(bad)
      BY DEF CachedCopiesExact, Scanning
    <2> DEFINE b == io.cache[copy]
               D(s) == OnDisk(copy)[s]
               In(s) == InCache(b, Row, FatStart(lay, copy) + s)
               V(s) == IF In(s) THEN b.data ELSE D(s)
    <2>1. Seen(copy) = [s \in 0..lay.fat - 1 |-> V(s)]
      BY DEF Seen
    <2>2. ASSUME NEW s \in 0..lay.fat - 1 PROVE V(s) = MarksOf(lay, bad, s)
      <3>1. Carries(io, lay, copy, FatStart(lay, copy) + s,
                    MarksOf(lay, bad, s), MarksOf(lay, bad, s))
        BY DEF MarksInv, ExactMarks
      <3>2. D(s) = io.disk[lay.base + FatStart(lay, copy) + s]
        BY DEF OnDisk
      <3>3. lay.base + FatStart(lay, copy) + s
              = lay.base + (FatStart(lay, copy) + s)
        BY TypeFacts, LayoutFacts DEF Staged, FatStart, Copies
      <3>4. CASE In(s)
        BY <3>1, <3>4, Zenon DEF Carries
      <3>5. CASE ~In(s)
        BY <3>1, <3>2, <3>3, <3>5, Zenon DEF Carries
      <3> QED
        BY <3>4, <3>5
    <2> HIDE DEF V
    <2> QED
      BY <2>1, <2>2, StatedMarks
  <1> QED
    BY <1>1, FormatInvariant, PTL

(* The sectors of a copy on disk, with the addresses of the invariant.     *)
LEMMA StatedDisk ==
  ASSUME Staged
  PROVE  \A s \in 0..lay.fat - 1 :
           OnDisk(0)[s] = io.disk[lay.base + (FatStart(lay, 0) + s)]
  <1>1. ASSUME NEW s \in 0..lay.fat - 1
        PROVE  lay.base + FatStart(lay, 0) + s
                 = lay.base + (FatStart(lay, 0) + s)
    BY TypeFacts, LayoutFacts DEF Staged, FatStart
  <1> QED
    BY <1>1 DEF OnDisk

(* A first format that reports success has left exactly the marks of the   *)
(* bad sectors in the first copy on the disk.                              *)
THEOREM FirstCopyOnDisk == Spec => []FirstCopyExact
  <1>1. Staged /\ MarksInv => FirstCopyExact
    <2> SUFFICES ASSUME Staged, MarksInv, formats = 1, io.faults = 0, Succeeded
                 PROVE  OnDisk(0) = Marked(bad)
      BY DEF FirstCopyExact
    <2>1. \A s \in 0..lay.fat - 1 : OnDisk(0)[s] = MarksOf(lay, bad, s)
      BY StatedDisk DEF MarksInv
    <2>2. OnDisk(0) = [s \in 0..lay.fat - 1 |-> OnDisk(0)[s]]
      BY DEF OnDisk
    <2> QED
      BY <2>1, <2>2, StatedMarks
  <1> QED
    BY <1>1, FormatInvariant, PTL

(* Formatting an unedited row again loses no mark of the last scan from    *)
(* the first copy and marks no cluster without an unreadable sector.       *)
THEOREM ReformatKeeps == Spec => []ReformatKeepsMarks
  <1>1. Staged /\ MarksInv => ReformatKeepsMarks
    <2> SUFFICES ASSUME Staged, MarksInv, edits = 0, io.faults = 0, Succeeded,
                        NEW s \in 0..lay.fat - 1
                 PROVE  /\ Marked(bad)[s] \subseteq OnDisk(0)[s]
                        /\ OnDisk(0)[s] \subseteq
                             Marked({a - lay.base : a \in media})[s]
      BY DEF ReformatKeepsMarks
    <2>1. /\ MarksOf(lay, bad, s) \subseteq OnDisk(0)[s]
          /\ OnDisk(0)[s] \subseteq MarksOf(lay, Unreadable, s)
      BY StatedDisk DEF MarksInv
    <2>2. Marked(bad)[s] = MarksOf(lay, bad, s)
          /\ Marked(Unreadable)[s] = MarksOf(lay, Unreadable, s)
      BY StatedMarks
    <2> QED
      BY <2>1, <2>2 DEF Unreadable
  <1> QED
    BY <1>1, FormatInvariant, PTL
===============================================================================
