-------------------------- MODULE CommandLineProofs --------------------------
(***************************************************************************)
(* Proofs about the commands of PART.EXE (module CommandLine), for disks   *)
(* of every size and with anything in their tables.  The numbers that a    *)
(* command takes from the disk wrap, so most of the work is to show that   *)
(* what it calculates from them is again a number, an address or a row;    *)
(* from this follows that no row that validate_table accepts begins with   *)
(* the MBR, and that the sweeps of verify and erase stay in their row.     *)
(***************************************************************************)
EXTENDS CommandLine, WellFoundedInduction, TLAPS

(* Quotient and remainder of natural numbers.                              *)
LEMMA DivMod ==
  ASSUME NEW a \in Nat, NEW t \in Nat \ {0}
  PROVE  /\ a = t * (a \div t) + (a % t)
         /\ a \div t \in Nat /\ a % t \in 0 .. t - 1
  OBVIOUS

(* Quotient and remainder are the only ones.                               *)
LEMMA DivUnique ==
  ASSUME NEW t \in Nat \ {0}, NEW q \in Nat, NEW r \in 0 .. t - 1
  PROVE  (t * q + r) \div t = q /\ (t * q + r) % t = r
  <1> DEFINE p == (t * q + r) \div t
  <1>1. t * q + r \in Nat
    OBVIOUS
  <1>2. /\ t * q + r = t * p + ((t * q + r) % t)
        /\ p \in Nat /\ (t * q + r) % t \in 0 .. t - 1
    BY <1>1, DivMod
  <1>3. CASE p < q
    <2>1. t * p + t <= t * q
      BY <1>2, <1>3
    <2> QED
      BY <1>2, <2>1
  <1>4. CASE p > q
    <2>1. t * q + t <= t * p
      BY <1>2, <1>4
    <2> QED
      BY <1>2, <2>1
  <1> QED
    BY <1>2, <1>3, <1>4

(* The same of the remainder alone, for any integer: sums that wrap.       *)
LEMMA ModRange ==
  ASSUME NEW t \in Nat \ {0}, NEW n \in Int
  PROVE  /\ n = t * (n \div t) + (n % t)
         /\ n \div t \in Int /\ n % t \in 0 .. t - 1
  OBVIOUS

LEMMA ModUnique ==
  ASSUME NEW t \in Nat \ {0}, NEW q \in Int, NEW r \in 0 .. t - 1
  PROVE  (t * q + r) % t = r
  <1> DEFINE p == (t * q + r) \div t
             s == (t * q + r) % t
  <1>0. t * q + r \in Int
    OBVIOUS
  <1>1. t * q + r = t * p + s /\ p \in Int /\ s \in 0 .. t - 1
    BY <1>0, ModRange
  <1> HIDE DEF p
  <1> HIDE DEF s
  <1>2. CASE p < q
    <2>1. t * p + t <= t * q
      BY <1>1, <1>2
    <2> QED
      BY <1>1, <2>1
  <1>3. CASE p > q
    <2>1. t * q + t <= t * p
      BY <1>1, <1>3
    <2> QED
      BY <1>1, <2>1
  <1>4. CASE p = q
    BY <1>1, <1>4 DEF s
  <1> QED
    BY <1>1, <1>2, <1>3, <1>4

(* A number below n * h * t as a cylinder, a head and a sector: the        *)
(* number of the track within the cylinder is below h.                     *)
LEMMA TrackOf ==
  ASSUME NEW s \in Nat, NEW h \in Nat \ {0}, NEW t \in Nat \ {0}
  PROVE  /\ s \div (h * t) \in Nat /\ s \div (h * t) <= s
         /\ (s % (h * t)) \div t \in 0 .. h - 1
         /\ (s % (h * t)) % t \in 0 .. t - 1
  <1> DEFINE c == h * t
             q == s \div c
             r == s % c
             k == r \div t
  <1>1. c \in Nat \ {0}
    OBVIOUS
  <1> HIDE DEF c
  <1>2. s = c * q + r /\ q \in Nat /\ r \in 0 .. c - 1
    BY <1>1, DivMod
  <1>3. q <= s
    BY <1>1, <1>2
  <1> HIDE DEF q
  <1> HIDE DEF r
  <1>4. r = t * k + (r % t) /\ k \in Nat /\ r % t \in 0 .. t - 1
    <2>1. r \in Nat
      BY <1>1, <1>2
    <2> QED
      BY <2>1, DivMod
  <1> HIDE DEF k
  <1>5. k < h
    <2>1. CASE k >= h
      <3>1. t * k >= h * t
        BY <1>4, <2>1
      <3>2. h * t = c
        BY DEF c
      <3> QED
        BY <1>1, <1>2, <1>4, <3>1, <3>2
    <2> QED
      BY <1>4, <2>1
  <1>6. k \in 0 .. h - 1
    BY <1>4, <1>5
  <1> QED
    BY <1>2, <1>3, <1>4, <1>6 DEF c, q, r, k

(* A set of natural numbers has a least member.                            *)
LEMMA LeastExists ==
  ASSUME NEW S, S \subseteq Nat, S # {}
  PROVE  \E x \in S : \A y \in S : x <= y
  <1>1. \E x \in S : \A y \in S : ~(<<y, x>> \in OpToRel(<, Nat))
    BY WFMin, NatLessThanWellFounded
  <1>2. \A x, y \in S : ~(<<y, x>> \in OpToRel(<, Nat)) => x <= y
    BY DEF OpToRel
  <1> QED
    BY <1>1, <1>2

(* A loop from 1 to n makes a value of another, f being its body: h exists *)
(* and has values of that type.                                            *)
IsLoop(h, b, n, f) ==
  \A i \in 0 .. n : h[i] = IF i = 0 THEN b ELSE f[<<h[i - 1], i>>]

LEMMA LoopExists ==
  ASSUME NEW S, NEW b \in S, NEW n \in Nat, NEW f \in [S \X (1 .. n) -> S]
  PROVE  \E h \in [0 .. n -> S] : IsLoop(h, b, n, f)
  <1> DEFINE Upto(h, k) ==
               \A i \in 0 .. k : h[i] = IF i = 0 THEN b ELSE f[<<h[i - 1], i>>]
             Missing == {k \in 0 .. n : ~ \E h \in [0 .. k -> S] : Upto(h, k)}
  <1>1. SUFFICES ASSUME Missing # {} PROVE FALSE
    <2>1. n \in 0 .. n
      OBVIOUS
    <2>2. (\E h \in [0 .. n -> S] : Upto(h, n)) \/ n \in Missing
      BY <2>1
    <2> QED
      BY <2>2 DEF IsLoop
  <1>2. PICK m \in Missing : \A y \in Missing : m <= y
    <2>1. Missing \subseteq Nat
      OBVIOUS
    <2> HIDE DEF Missing
    <2> QED
      BY <1>1, <2>1, LeastExists
  <1>3. m \in 0 .. n /\ ~ \E h \in [0 .. m -> S] : Upto(h, m)
    OBVIOUS
  <1>4. CASE m = 0
    <2> DEFINE h == [i \in 0 .. 0 |-> b]
    <2>1. h \in [0 .. m -> S] /\ Upto(h, m)
      BY <1>4
    <2> QED
      BY <1>3, <2>1
  <1>5. CASE m # 0
    <2>1. m \in 1 .. n /\ m - 1 \in 0 .. n
      BY <1>3, <1>5
    <2>2. m - 1 \notin Missing
      <3> HIDE DEF Missing
      <3> QED
        BY <1>2, <2>1
    <2>3. PICK h \in [0 .. m - 1 -> S] : Upto(h, m - 1)
      BY <2>1, <2>2
    <2> DEFINE last == f[<<h[m - 1], m>>]
               g == [i \in 0 .. m |-> IF i = m THEN last ELSE h[i]]
    <2>4. h[m - 1] \in S
      BY <2>1, <2>3
    <2>5. last \in S
      BY <2>1, <2>4
    <2>6. g \in [0 .. m -> S]
      BY <2>1, <2>3, <2>5
    <2>7. ASSUME NEW i \in 0 .. m
          PROVE  g[i] = IF i = 0 THEN b ELSE f[<<g[i - 1], i>>]
      <3>1. CASE i = m
        <4>1. m - 1 \in 0 .. m /\ m - 1 # m /\ m # 0
          BY <2>1
        <4>2. g[m - 1] = h[m - 1] /\ g[m] = last
          BY <4>1
        <4> QED
          BY <3>1, <4>1, <4>2
      <3>2. CASE i # m
        <4>1. i \in 0 .. m - 1 /\ g[i] = h[i] /\ (i # 0 => i - 1 \in 0 .. m /\ i - 1 # m)
          BY <2>1, <3>2
        <4>2. i # 0 => g[i - 1] = h[i - 1]
          BY <4>1
        <4> QED
          BY <2>3, <4>1, <4>2
      <3> QED
        BY <3>1, <3>2
    <2> QED
      BY <1>3, <2>6, <2>7
  <1> QED
    BY <1>4, <1>5

LEMMA LoopType ==
  ASSUME NEW S, NEW n \in Nat, NEW h, h[0] \in S,
         \A i \in 1 .. n : h[i - 1] \in S => h[i] \in S
  PROVE  \A i \in 0 .. n : h[i] \in S
  <1> DEFINE Bad == {k \in 0 .. n : h[k] \notin S}
  <1>1. SUFFICES ASSUME Bad # {} PROVE FALSE
    OBVIOUS
  <1>2. PICK m \in Bad : \A y \in Bad : m <= y
    <2>1. Bad \subseteq Nat
      OBVIOUS
    <2> HIDE DEF Bad
    <2> QED
      BY <1>1, <2>1, LeastExists
  <1>3. m \in 1 .. n /\ m - 1 \in 0 .. n /\ ~(m <= m - 1)
    <2>1. m \in 0 .. n /\ m # 0
      OBVIOUS
    <2> QED
      BY <2>1
  <1>4. m - 1 \notin Bad
    <2> HIDE DEF Bad
    <2> QED
      BY <1>2, <1>3
  <1> QED
    BY <1>3, <1>4

-------------------------------------------------------------------------------
(* Numbers that wrap, and the places of sectors.                           *)
LEMMA WrapFacts ==
  ASSUME NEW n \in Int
  PROVE  /\ Wrap(n) \in Numbers
         /\ n \in Numbers => Wrap(n) = n
         /\ (n >= Modulus /\ n < 2 * Modulus) => Wrap(n) = n - Modulus
         /\ (n < 0 /\ n >= -Modulus) => Wrap(n) = n + Modulus
  <1>1. Modulus \in Nat \ {0}
    BY GeometryConstants
  <1>2. n % Modulus \in 0 .. Modulus - 1
    BY <1>1, ModRange
  <1>3. ASSUME n \in Numbers PROVE n % Modulus = n
    <2>1. n \in 0 .. Modulus - 1
      BY <1>3 DEF Numbers
    <2>2. (Modulus * 0 + n) % Modulus = n
      BY <1>1, <2>1, ModUnique
    <2> QED
      BY <1>1, <2>2
  <1>4. ASSUME n >= Modulus, n < 2 * Modulus PROVE n % Modulus = n - Modulus
    <2>1. n - Modulus \in 0 .. Modulus - 1 /\ n = Modulus * 1 + (n - Modulus)
      BY <1>1, <1>4
    <2> QED
      BY <1>1, <2>1, ModUnique
  <1>5. ASSUME n < 0, n >= -Modulus PROVE n % Modulus = n + Modulus
    <2>1. n + Modulus \in 0 .. Modulus - 1 /\ n = Modulus * (-1) + (n + Modulus)
      BY <1>1, <1>5
    <2> QED
      BY <1>1, <2>1, ModUnique
  <1> QED
    BY <1>1, <1>2, <1>3, <1>4, <1>5 DEF Wrap, Numbers

(* The largest place that an entry can name is a sector number.            *)
LEMMA Bounds ==
  /\ Modulus \in Nat \ {0} /\ MaxCyl \in Nat /\ MaxHead \in Nat /\ MaxSect \in Nat \ {0}
  /\ MaxCyl * ((MaxHead + 1) * MaxSect) + (MaxHead + 1) * (MaxSect + 1) <= Modulus
  /\ MaxSect < Modulus /\ MaxHead < Modulus /\ MaxCyl < Modulus
  <1>1. /\ Modulus \in Nat \ {0} /\ MaxCyl \in Nat /\ MaxHead \in Nat
        /\ MaxSect \in Nat \ {0}
        /\ (MaxCyl + 1) * ((MaxHead + 1) * (MaxSect + 1)) <= Modulus
    BY GeometryConstants
  <1> DEFINE h == MaxHead + 1
             q == h * (MaxSect + 1)
  <1>2. h \in Nat \ {0} /\ h * MaxSect \in Nat /\ q = h * MaxSect + h
    BY <1>1
  <1>3. (MaxCyl + 1) * q = MaxCyl * q + q
    BY <1>1, <1>2
  <1>4. MaxCyl * (h * MaxSect) <= MaxCyl * q
    <2>1. q = h * MaxSect + h /\ h \in Nat
      BY <1>2
    <2>2. MaxCyl * q = MaxCyl * (h * MaxSect) + MaxCyl * h /\ MaxCyl * h \in Nat
      BY <1>1, <1>2, <2>1
    <2> QED
      BY <1>1, <1>2, <2>2
  <1>5. MaxSect + 1 <= q /\ h <= q
    BY <1>1, <1>2
  <1>6. MaxCyl + 1 <= (MaxCyl + 1) * q
    BY <1>1, <1>2
  <1> QED
    BY <1>1, <1>2, <1>3, <1>4, <1>5, <1>6

LEMMA CHSType ==
  ASSUME NEW g \in Geometry, g.perCyl = g.heads * g.sects, NEW s \in Numbers
  PROVE  CHS(g, s) \in Position
  <1>1. g.heads \in 1 .. MaxHead + 1 /\ g.sects \in 1 .. MaxSect
    BY DEF Geometry
  <1>2. s \in Nat /\ s < Modulus /\ g.heads \in Nat \ {0} /\ g.sects \in Nat \ {0}
    BY <1>1, Bounds DEF Numbers
  <1>3. /\ s \div g.perCyl \in Nat /\ s \div g.perCyl <= s
        /\ (s % g.perCyl) \div g.sects \in 0 .. g.heads - 1
        /\ (s % g.perCyl) % g.sects \in 0 .. g.sects - 1
    BY <1>2, TrackOf
  <1>4. /\ s \div g.perCyl \in Numbers
        /\ (s % g.perCyl) \div g.sects \in 0 .. MaxHead
        /\ ((s % g.perCyl) % g.sects) + 1 \in 0 .. MaxSect
    BY <1>1, <1>2, <1>3, Bounds DEF Numbers
  <1> QED
    BY <1>4 DEF CHS, Position

LEMMA NoCHSType == NoCHS \in Position /\ NoCHS \in Address /\ NoCHS \in Corner
  BY Bounds DEF NoCHS, Position, Address, Corner, Numbers

LEMMA Addresses ==
  /\ Address \subseteq Position /\ Position \subseteq Corner
  BY Bounds DEF Address, Position, Corner, Numbers

LEMMA AbsType ==
  ASSUME NEW g \in Geometry, NEW c \in Corner
  PROVE  Abs(g, c) \in Numbers
  <1>1. c.cyl * g.perCyl + c.head * g.perTrack + c.sect - 1 \in Int
    BY DEF Geometry, Corner
  <1> QED
    BY <1>1, WrapFacts DEF Abs

-------------------------------------------------------------------------------
(* The geometry.                                                           *)
Sound(g) == g \in Geometry /\ g.perCyl = g.heads * g.sects

LEMMA DriveFacts ==
  ASSUME NEW d \in Drives
  PROVE  /\ d.bios \in Bios
         /\ d.bios.cyls * (d.bios.heads * d.bios.sects) \in Numbers
         /\ d.bios.heads * d.bios.sects \in Nat \ {0}
         /\ d.bios.sects \in Nat \ {0}
  <1>1. d.bios \in Bios /\ d.bios.cyls * (d.bios.heads * d.bios.sects) < Modulus
    BY CommandConstants
  <1>2. d.bios.heads \in Nat \ {0} /\ d.bios.sects \in Nat \ {0} /\ d.bios.cyls \in Nat
    BY <1>1, Bounds DEF Bios
  <1>3. d.bios.heads * d.bios.sects \in Nat \ {0}
    BY <1>2
  <1>4. d.bios.cyls * (d.bios.heads * d.bios.sects) \in Nat
    BY <1>2, <1>3
  <1> QED
    BY <1>1, <1>2, <1>3, <1>4, Bounds DEF Numbers

LEMMA QueriedType ==
  ASSUME NEW d \in Drives
  PROVE  /\ Sound(Queried(d.bios, TRUE, FALSE))
         /\ \A c \in Asked : Sound(Queried(d.bios, c.lba, c.name = "Erase"))
  <1>1. /\ d.bios.cyls \in Nat /\ d.bios.heads \in 1 .. MaxHead + 1
        /\ d.bios.sects \in 1 .. MaxSect /\ d.bios.lba \in BOOLEAN
        /\ d.bios.total \in Numbers
        /\ d.bios.cyls * (d.bios.heads * d.bios.sects) \in Numbers
        /\ d.bios.heads * d.bios.sects \in Nat \ {0}
    BY DriveFacts DEF Bios
  <1>2. Queried(d.bios, TRUE, FALSE) \in Geometry
    BY <1>1 DEF Queried, Geometry, PerCyl
  <1>3. Queried(d.bios, TRUE, FALSE).perCyl
          = Queried(d.bios, TRUE, FALSE).heads * Queried(d.bios, TRUE, FALSE).sects
    BY DEF Queried, PerCyl
  <1>4. ASSUME NEW c \in Asked
        PROVE  Sound(Queried(d.bios, c.lba, c.name = "Erase"))
    <2>1. Queried(d.bios, c.lba, c.name = "Erase") \in Geometry
      BY <1>1 DEF Queried, Geometry, PerCyl
    <2>2. Queried(d.bios, c.lba, c.name = "Erase").perCyl
            = Queried(d.bios, c.lba, c.name = "Erase").heads
              * Queried(d.bios, c.lba, c.name = "Erase").sects
      BY DEF Queried, PerCyl
    <2> QED
      BY <2>1, <2>2 DEF Sound
  <1> QED
    BY <1>2, <1>3, <1>4 DEF Sound

(* The virtual heads are only given to a disk with extensions.             *)
LEMMA WithHeadsType ==
  ASSUME NEW g, Sound(g), NEW f \in ForcedCHS
  PROVE  /\ WithHeads(g, f) \in Geometry
         /\ WithHeads(g, f).lba = g.lba
         /\ ~g.lba => Sound(WithHeads(g, f))
  <1> DEFINE I == {i \in 1 .. Len(VirtualHeads) : g.total > VirtualHeads[i].over}
             k == SelectInSeq(VirtualHeads, LAMBDA v : g.total > v.over)
  <1>1. k = IF I # {} THEN Min(I) ELSE 0
    BY DEF SelectInSeq
  <1>2. ASSUME k # 0 PROVE VirtualHeads[k].heads \in 1 .. MaxHead + 1
    <2>1. I # {} /\ k = Min(I) /\ I \subseteq Nat
      BY <1>1, <1>2
    <2>2. k \in I
      <3>1. \E x \in I : \A y \in I : x <= y
        BY <2>1, LeastExists
      <3> QED
        BY <2>1, <3>1 DEF Min
    <2>3. k \in 1 .. Len(VirtualHeads)
      BY <2>2
    <2>4. VirtualHeads[k] \in [over : Nat, heads : 1 .. MaxHead + 1]
      <3> DEFINE T == [over : Nat, heads : 1 .. MaxHead + 1]
      <3>1. VirtualHeads \in Seq(T)
        BY GeometryConstants
      <3> HIDE DEF T
      <3>2. VirtualHeads[k] \in T
        BY <2>3, <3>1
      <3> QED
        BY <3>2 DEF T
    <2> QED
      BY <2>4
  <1> HIDE DEF k
  <1>3. g \in Geometry
    BY DEF Sound
  <1>4. CASE g.lba /\ g.heads <= FewHeads /\ f.heads = 0 /\ k # 0
    <2>1. WithHeads(g, f) = [g EXCEPT !.heads = VirtualHeads[k].heads]
      BY <1>4 DEF WithHeads, k
    <2>2. [g EXCEPT !.heads = VirtualHeads[k].heads] \in Geometry
      BY <1>2, <1>3, <1>4 DEF Geometry
    <2>3. [g EXCEPT !.heads = VirtualHeads[k].heads].lba = g.lba
      BY <1>3 DEF Geometry
    <2> QED
      BY <1>4, <2>1, <2>2, <2>3
  <1>5. CASE ~(g.lba /\ g.heads <= FewHeads /\ f.heads = 0 /\ k # 0)
    <2>1. WithHeads(g, f) = g
      BY <1>5 DEF WithHeads, k
    <2> QED
      BY <1>3, <2>1
  <1> QED
    BY <1>4, <1>5

LEMMA ForcedType ==
  ASSUME NEW g \in Geometry, ~g.lba => Sound(g), NEW f \in ForcedCHS
  PROVE  Sound(Forced(g, f))
  <1> DEFINE Or(x, y) == IF x # 0 THEN x ELSE y
             h == [g EXCEPT !.sects = Or(f.sects, @), !.heads = Or(f.heads, @),
                            !.cyls = Or(f.cyls, @)]
             per == h.heads * h.sects
  <1>1. /\ g.sects \in 1 .. MaxSect /\ g.heads \in 1 .. MaxHead + 1 /\ g.cyls \in Nat
        /\ f.sects \in 0 .. MaxSect /\ f.heads \in 0 .. MaxHead /\ f.cyls \in Nat
        /\ g.total \in Numbers
    BY DEF Geometry, ForcedCHS
  <1>2. /\ Or(f.sects, g.sects) \in 1 .. MaxSect
        /\ Or(f.heads, g.heads) \in 1 .. MaxHead + 1
        /\ Or(f.cyls, g.cyls) \in Nat
    BY <1>1, Bounds
  <1>3. h \in Geometry
    BY <1>2 DEF Geometry
  <1>4. /\ h.sects = Or(f.sects, g.sects) /\ h.heads = Or(f.heads, g.heads)
        /\ h.cyls = Or(f.cyls, g.cyls) /\ h.total = g.total /\ h.lba = g.lba
        /\ h.perCyl = g.perCyl
    BY DEF Geometry
  <1>5. per \in Nat \ {0}
    <2>1. h.heads \in Nat \ {0} /\ h.sects \in Nat \ {0}
      BY <1>2, <1>4, Bounds
    <2>2. \A m, n \in Nat \ {0} : m * n \in Nat \ {0}
      OBVIOUS
    <2> QED
      BY <2>1, <2>2, Zenon
  <1>6. CASE ~(h.lba \/ f.heads # 0 \/ f.sects # 0)
    <2>1. Forced(g, f) = h
      BY <1>6 DEF Forced
    <2>2. h.heads = g.heads /\ h.sects = g.sects
      BY <1>4, <1>6
    <2>3. ~g.lba
      BY <1>4, <1>6
    <2> QED
      BY <1>3, <1>4, <2>1, <2>2, <2>3 DEF Sound
  <1>7. CASE (h.lba \/ f.heads # 0 \/ f.sects # 0) /\ f.cyls = 0
    <2> DEFINE n == (h.total + per - 1) \div per
    <2>1. Forced(g, f) = [h EXCEPT !.perCyl = per, !.cyls = n]
      BY <1>7 DEF Forced, PerCyl
    <2>2. n \in Nat
      <3>1. h.total + per - 1 \in Nat
        BY <1>1, <1>4, <1>5 DEF Numbers
      <3> QED
        BY <1>5, <3>1, DivMod
    <2> HIDE DEF n
    <2> HIDE DEF per
    <2>3. [h EXCEPT !.perCyl = per, !.cyls = n] \in Geometry
      BY <1>3, <1>5, <2>2 DEF Geometry
    <2>4. /\ [h EXCEPT !.perCyl = per, !.cyls = n].perCyl = per
          /\ [h EXCEPT !.perCyl = per, !.cyls = n].heads = h.heads
          /\ [h EXCEPT !.perCyl = per, !.cyls = n].sects = h.sects
      BY <1>3 DEF Geometry
    <2> QED
      BY <2>1, <2>3, <2>4 DEF Sound, per
  <1>8. CASE (h.lba \/ f.heads # 0 \/ f.sects # 0) /\ f.cyls # 0
    <2> DEFINE n == Wrap(h.cyls * per)
    <2>1. Forced(g, f) = [h EXCEPT !.perCyl = per, !.total = n]
      BY <1>8 DEF Forced, PerCyl
    <2>2. n \in Numbers
      <3>1. h.cyls * per \in Int
        BY <1>2, <1>4, <1>5
      <3> QED
        BY <3>1, WrapFacts
    <2> HIDE DEF n
    <2> HIDE DEF per
    <2>3. [h EXCEPT !.perCyl = per, !.total = n] \in Geometry
      BY <1>3, <1>5, <2>2 DEF Geometry
    <2>4. /\ [h EXCEPT !.perCyl = per, !.total = n].perCyl = per
          /\ [h EXCEPT !.perCyl = per, !.total = n].heads = h.heads
          /\ [h EXCEPT !.perCyl = per, !.total = n].sects = h.sects
      BY <1>3 DEF Geometry
    <2> QED
      BY <2>1, <2>3, <2>4 DEF Sound, per
  <1> QED
    BY <1>6, <1>7, <1>8

-------------------------------------------------------------------------------
(* Rows: what has been unpacked from an entry, and what can contain a row. *)
Unread == [type : RowTypes, active : BOOLEAN, rel : Numbers, num : Numbers,
           from : Position, to : Position]
Parent == [type : RowTypes, active : BOOLEAN, rel : Numbers, num : Numbers,
           from : Corner, to : Corner, in : Container, level : Nat,
           valid : BOOLEAN]
Same(p, e) ==
  p.type = e.type /\ p.active = e.active /\ p.rel = e.rel /\ p.num = e.num
Named(g, p, base) == p.from \in Address \/ p.from = CHS(g, Wrap(base + p.rel))

LEMMA RecalculatedType ==
  ASSUME NEW g, Sound(g), NEW e \in Unread, NEW base \in Numbers
  PROVE  /\ Recalculated(g, e, base) \in Unread
         /\ Same(Recalculated(g, e, base), e)
         /\ Named(g, Recalculated(g, e, base), base)
  <1> DEFINE first == Wrap(base + e.rel)
             a == IF Unplaced(e) THEN NoCHS ELSE CHS(g, first)
             b == IF e.num = 0 THEN NoCHS ELSE CHS(g, Wrap(first + e.num - 1))
  <1>1. e.rel \in Int /\ e.num \in Int /\ base \in Int
    BY Bounds DEF Unread, Numbers
  <1>2. first \in Numbers
    <2>1. base + e.rel \in Int
      BY <1>1
    <2> QED
      BY <2>1, WrapFacts
  <1>3. Wrap(first + e.num - 1) \in Numbers
    <2>1. first + e.num - 1 \in Int
      BY <1>1, <1>2, Bounds DEF Numbers
    <2> QED
      BY <2>1, WrapFacts
  <1>4. CHS(g, first) \in Position /\ CHS(g, Wrap(first + e.num - 1)) \in Position
    BY <1>2, <1>3, CHSType DEF Sound
  <1>5. a \in Position /\ b \in Position
    BY <1>4, NoCHSType
  <1>6. a \in Address \/ a = CHS(g, first)
    BY NoCHSType
  <1>7. Recalculated(g, e, base) = [e EXCEPT !.from = a, !.to = b]
    BY DEF Recalculated
  <1> HIDE DEF a
  <1> HIDE DEF b
  <1>8. [e EXCEPT !.from = a, !.to = b] \in Unread
    BY <1>5 DEF Unread
  <1>9. /\ Same([e EXCEPT !.from = a, !.to = b], e)
        /\ [e EXCEPT !.from = a, !.to = b].from = a
    BY DEF Unread, Same
  <1> QED
    BY <1>6, <1>7, <1>8, <1>9 DEF Named, Same

LEMMA UnpackedType ==
  ASSUME NEW g, Sound(g), NEW e \in Entry, NEW base \in Numbers
  PROVE  /\ Unpacked(g, e, base) \in Unread
         /\ Same(Unpacked(g, e, base), e)
         /\ Named(g, Unpacked(g, e, base), base)
  <1>1. e \in Unread /\ e.from \in Address
    BY Addresses DEF Entry, Unread
  <1>2. Same(e, e)
    BY DEF Same
  <1>3. Unpacked(g, e, base) = Recalculated(g, e, base) \/ Unpacked(g, e, base) = e
    BY DEF Unpacked
  <1> QED
    BY <1>1, <1>2, <1>3, RecalculatedType DEF Named

LEMMA RowInType ==
  ASSUME NEW e \in Unread, NEW c \in Container, NEW level \in Nat
  PROVE  /\ RowIn(e, c, level) \in PartLong
         /\ Same(RowIn(e, c, level), e)
         /\ RowIn(e, c, level).from = e.from /\ RowIn(e, c, level).in = c
         /\ RowIn(e, c, level).level = level
  BY DEF RowIn, PartLong, Unread, Same

LEMMA StartType ==
  ASSUME NEW g, Sound(g), NEW p \in Parent
  PROVE  /\ Start(g, p) \in Numbers /\ AsContainer(g, p) \in Container
         /\ p.in \in Container /\ p.level \in Nat
  <1>1. /\ p.in \in Container /\ p.in.start \in Numbers /\ p.rel \in Numbers
        /\ p.from \in Corner /\ p.to \in Corner /\ p.num \in Numbers /\ p.level \in Nat
    BY DEF Parent, Container
  <1>2. p.in.start + p.rel \in Int
    BY <1>1, Bounds DEF Numbers
  <1>3. Start(g, p) \in Numbers
    BY <1>1, <1>2, WrapFacts, AbsType DEF Start, Sound
  <1> QED
    BY <1>1, <1>3 DEF AsContainer, Container

LEMMA RowsAreParents == PartLong \subseteq Parent
  BY Addresses DEF PartLong, Parent

LEMMA WholeDiskType ==
  ASSUME NEW g, Sound(g)
  PROVE  /\ WholeDisk(g) \in Parent /\ WholeDisk(g).level = 0
         /\ AsContainer(g, WholeDisk(g)).start = 0
         /\ AsContainer(g, WholeDisk(g)).from = [cyl |-> 0, head |-> 0, sect |-> 1]
  <1>1. /\ g.total \in Numbers /\ g.cyls \in Nat /\ g.heads \in Int /\ g.sects \in Int
    BY Bounds DEF Sound, Geometry
  <1>2. 0 \in Numbers /\ "Unused" \in RowTypes
    BY Bounds, GeometryConstants DEF Numbers
  <1>3. CHS(g, Wrap(g.total - 1)) \in Corner
    <2>1. g.total - 1 \in Int
      BY <1>1, Bounds DEF Numbers
    <2> QED
      BY <2>1, WrapFacts, CHSType, Addresses DEF Sound
  <1>4. [cyl |-> g.cyls - 1, head |-> g.heads - 1, sect |-> g.sects] \in Corner
    BY <1>1 DEF Corner
  <1>5. [NoCHS EXCEPT !.sect = 1] = [cyl |-> 0, head |-> 0, sect |-> 1]
    BY DEF NoCHS
  <1>6. [NoCHS EXCEPT !.sect = 1] \in Corner
    BY <1>5 DEF Corner
  <1>7. Nothing \in Container
    BY <1>2, NoCHSType DEF Nothing, Container
  <1>8. WholeDisk(g).to \in Corner
    BY <1>3, <1>4 DEF WholeDisk
  <1> DEFINE to == IF g.mode = "LBA" THEN CHS(g, Wrap(g.total - 1))
                   ELSE [cyl |-> g.cyls - 1, head |-> g.heads - 1, sect |-> g.sects]
  <1>9. to \in Corner
    BY <1>3, <1>4
  <1> DEFINE corner == [NoCHS EXCEPT !.sect = 1]
  <1>10. WholeDisk(g) =
           [type |-> "Unused", active |-> FALSE, rel |-> 0, num |-> g.total,
            from |-> corner, to |-> to, in |-> Nothing, level |-> 0, valid |-> TRUE]
    BY DEF WholeDisk
  <1> HIDE DEF to
  <1> HIDE DEF corner
  <1>11. corner \in Corner
    BY <1>6 DEF corner
  <1>12. WholeDisk(g) \in Parent
    BY <1>1, <1>2, <1>7, <1>9, <1>10, <1>11 DEF Parent
  <1>13. Start(g, WholeDisk(g)) = 0
    <2>1. Start(g, WholeDisk(g)) = Wrap(0 + 0)
      BY <1>10 DEF Start, ByNumbers, Nothing
    <2> QED
      BY <2>1, <1>2, WrapFacts
  <1>14. WholeDisk(g).from = corner /\ WholeDisk(g).level = 0
    BY <1>10
  <1> QED
    BY <1>5, <1>12, <1>13, <1>14 DEF AsContainer, corner

(* validate_table changes nothing but whether a row counts as valid, and a *)
(* valid row that is not empty is consistent and in range.                 *)
AllBut(p, q) ==
  /\ Same(p, q) /\ p.from = q.from /\ p.to = q.to /\ p.in = q.in
  /\ p.level = q.level
LEMMA ValidatedType ==
  ASSUME NEW g, NEW rows \in Seq(PartLong), NEW parent
  PROVE  /\ Validated(g, rows, parent) \in Seq(PartLong)
         /\ Len(Validated(g, rows, parent)) = Len(rows)
         /\ DOMAIN Validated(g, rows, parent) = 1 .. Len(rows)
         /\ \A i \in 1 .. Len(rows) :
              /\ AllBut(Validated(g, rows, parent)[i], rows[i])
              /\ Validated(g, rows, parent)[i].valid /\ ~IsEmpty(rows[i]) =>
                   Consistent(g, rows[i]) /\ InRange(g, rows[i])
  <1> DEFINE sound == {i \in DOMAIN rows : \/ IsEmpty(rows[i])
                  \/ /\ Consistent(g, rows[i]) /\ InRange(g, rows[i])
                     /\ \A j \in DOMAIN rows \ {i} : Apart(g, rows[i], rows[j])}
             checked == [i \in DOMAIN rows |-> [rows[i] EXCEPT !.valid = i \in sound]]
             early == {i \in DOMAIN rows : TooEarly(g, checked[i], parent)}
             v == [i \in DOMAIN rows |->
                     [rows[i] EXCEPT !.valid = i \in sound \ early]]
  <1>1. Validated(g, rows, parent) = v
    BY DEF Validated
  <1>2. \A i \in sound : ~IsEmpty(rows[i]) =>
           Consistent(g, rows[i]) /\ InRange(g, rows[i])
    OBVIOUS
  <1> DEFINE good == sound \ early
  <1>3. \A i \in good : ~IsEmpty(rows[i]) =>
           Consistent(g, rows[i]) /\ InRange(g, rows[i])
    BY <1>2
  <1>4. v = [i \in DOMAIN rows |-> [rows[i] EXCEPT !.valid = i \in good]]
    OBVIOUS
  <1> HIDE DEF good
  <1> HIDE DEF v
  <1>5. DOMAIN rows = 1 .. Len(rows) /\ Len(rows) \in Nat
    OBVIOUS
  <1>6. ASSUME NEW i \in 1 .. Len(rows)
        PROVE  /\ v[i] = [rows[i] EXCEPT !.valid = i \in good]
               /\ rows[i] \in PartLong
    BY <1>4, <1>5
  <1>7. ASSUME NEW i \in 1 .. Len(rows)
        PROVE  /\ v[i] \in PartLong /\ AllBut(v[i], rows[i])
               /\ v[i].valid => i \in good
    <2>1. CASE i \in good
      <3>1. v[i] = [rows[i] EXCEPT !.valid = TRUE] /\ rows[i] \in PartLong
        BY <1>6, <2>1
      <3> QED
        BY <2>1, <3>1 DEF PartLong, AllBut, Same
    <2>2. CASE i \notin good
      <3>0. (i \in good) = FALSE
        BY <2>2
      <3>1. v[i] = [rows[i] EXCEPT !.valid = FALSE] /\ rows[i] \in PartLong
        BY <1>6, <3>0
      <3> QED
        BY <2>2, <3>1 DEF PartLong, AllBut, Same
    <2> QED
      BY <2>1, <2>2
  <1>8. v \in [1 .. Len(rows) -> PartLong]
    BY <1>4, <1>5, <1>7
  <1>9. v \in Seq(PartLong) /\ Len(v) = Len(rows) /\ DOMAIN v = 1 .. Len(rows)
    BY <1>5, <1>8
  <1> QED
    BY <1>1, <1>3, <1>7, <1>9

LEMMA TableInType ==
  ASSUME NEW g, Sound(g), NEW entries \in [1 .. 4 -> Entry], NEW p \in Parent
  PROVE  /\ TableIn(g, entries, p) \in Seq(PartLong)
         /\ Len(TableIn(g, entries, p)) = 4
         /\ \A i \in 1 .. 4 :
              LET row == TableIn(g, entries, p)[i]
              IN  /\ row.level = p.level + 1
                  /\ row.in \in Container /\ Named(g, row, row.in.start)
                  /\ p.level = 0 => row.in = AsContainer(g, p)
                  /\ row.valid /\ ~IsEmpty(row) => Consistent(g, row) /\ InRange(g, row)
  <1> DEFINE Within(e) ==
               IF p.level + 1 > 2 /\ e.type = "Extended" THEN p.in ELSE AsContainer(g, p)
             Read(e) == RowIn(Unpacked(g, e, Within(e).start), Within(e), p.level + 1)
             rows == <<Read(entries[1]), Read(entries[2]),
                       Read(entries[3]), Read(entries[4])>>
  <1>1. TableIn(g, entries, p) = Validated(g, rows, p)
    BY DEF TableIn
  <1>2. p.level \in Nat /\ p.level + 1 \in Nat
    BY StartType
  <1>3. ASSUME NEW e \in Entry
        PROVE  /\ Read(e) \in PartLong /\ Read(e).level = p.level + 1
               /\ Read(e).in \in Container /\ Named(g, Read(e), Read(e).in.start)
               /\ p.level = 0 => Read(e).in = AsContainer(g, p)
    <2> DEFINE w == Within(e)
               u == Unpacked(g, e, w.start)
    <2>1. w \in Container
      BY StartType
    <2>2. w.start \in Numbers
      BY <2>1 DEF Container
    <2>3. p.level = 0 => w = AsContainer(g, p)
      OBVIOUS
    <2> HIDE DEF w
    <2>4. u \in Unread /\ Same(u, e) /\ Named(g, u, w.start)
      BY <2>2, UnpackedType
    <2> HIDE DEF u
    <2> DEFINE r == RowIn(u, w, p.level + 1)
    <2>5. /\ r \in PartLong /\ Same(r, u) /\ r.from = u.from /\ r.in = w
          /\ r.level = p.level + 1
      BY <1>2, <2>1, <2>4, RowInType
    <2>6. Read(e) = r
      BY DEF w, u
    <2> HIDE DEF r
    <2> QED
      BY <2>1, <2>3, <2>4, <2>5, <2>6 DEF Named, Same
  <1> HIDE DEF Read
  <1>4. \A i \in 1 .. 4 : rows[i] = Read(entries[i]) /\ entries[i] \in Entry
    OBVIOUS
  <1>5. rows \in Seq(PartLong) /\ Len(rows) = 4
    BY <1>3
  <1> HIDE DEF rows
  <1> DEFINE v == Validated(g, rows, p)
  <1>6. /\ v \in Seq(PartLong) /\ Len(v) = 4
        /\ \A i \in 1 .. 4 :
              /\ AllBut(v[i], rows[i])
              /\ v[i].valid /\ ~IsEmpty(rows[i]) =>
                   Consistent(g, rows[i]) /\ InRange(g, rows[i])
    BY <1>5, ValidatedType
  <1> HIDE DEF v
  <1>7. ASSUME NEW i \in 1 .. 4
        PROVE  /\ v[i].level = p.level + 1
               /\ v[i].in \in Container /\ Named(g, v[i], v[i].in.start)
               /\ p.level = 0 => v[i].in = AsContainer(g, p)
               /\ v[i].valid /\ ~IsEmpty(v[i]) => Consistent(g, v[i]) /\ InRange(g, v[i])
    <2>1. AllBut(v[i], rows[i])
      BY <1>6
    <2>2. /\ rows[i].level = p.level + 1
          /\ rows[i].in \in Container /\ Named(g, rows[i], rows[i].in.start)
          /\ p.level = 0 => rows[i].in = AsContainer(g, p)
      BY <1>3, <1>4
    <2>3. v[i].valid /\ ~IsEmpty(rows[i]) => Consistent(g, rows[i]) /\ InRange(g, rows[i])
      BY <1>6
    <2>4. /\ IsEmpty(v[i]) = IsEmpty(rows[i]) /\ Consistent(g, v[i]) = Consistent(g, rows[i])
          /\ InRange(g, v[i]) = InRange(g, rows[i])
      BY <2>1 DEF AllBut, Same, IsEmpty, Unplaced, Consistent, InRange, InRangeCHS,
                  InRangeLBA
    <2>5. /\ v[i].level = p.level + 1
          /\ v[i].in \in Container /\ Named(g, v[i], v[i].in.start)
          /\ p.level = 0 => v[i].in = AsContainer(g, p)
      BY <2>1, <2>2 DEF AllBut, Same, Named
    <2> QED
      BY <2>3, <2>4, <2>5
  <1> QED
    BY <1>1, <1>6, <1>7 DEF v

LEMMA AdvancedInType ==
  ASSUME NEW g, Sound(g), NEW entries \in [1 .. NumRows -> AdvEntry]
  PROVE  /\ AdvancedIn(g, entries) \in Seq(PartLong)
         /\ Len(AdvancedIn(g, entries)) = NumRows
         /\ \A i \in 1 .. NumRows :
              LET row == AdvancedIn(g, entries)[i]
              IN  /\ row.level = 1 /\ Named(g, row, 0)
                  /\ row.rel = entries[i].rel /\ row.num = entries[i].num
                  /\ row.in = AsContainer(g, WholeDisk(g))
                  /\ row.valid /\ ~IsEmpty(row) => Consistent(g, row) /\ InRange(g, row)
  <1> DEFINE whole == WholeDisk(g)
             Blanked(e) == [NoEntry EXCEPT !.type = e.type, !.rel = e.rel, !.num = e.num]
             Read(e) == RowIn(Recalculated(g, Blanked(e), 0), AsContainer(g, whole), 1)
             rows == [i \in DOMAIN entries |-> Read(entries[i])]
  <1>1. AdvancedIn(g, entries) = Validated(g, rows, whole)
    BY DEF AdvancedIn
  <1>2. 0 \in Numbers
    BY Bounds DEF Numbers
  <1>2a. NumRows \in Nat
    BY CommandConstants
  <1>3. AsContainer(g, whole) \in Container
    BY WholeDiskType, StartType
  <1> HIDE DEF whole
  <1>4. ASSUME NEW e \in AdvEntry
        PROVE  /\ Read(e) \in PartLong /\ Read(e).level = 1
               /\ Named(g, Read(e), 0) /\ Read(e).in = AsContainer(g, whole)
               /\ Read(e).rel = e.rel /\ Read(e).num = e.num
    <2> DEFINE x == Blanked(e)
               u == Recalculated(g, x, 0)
    <2>1. x \in Unread
      <3>1. e.type \in RowTypes /\ e.rel \in Numbers /\ e.num \in Numbers
        BY DEF AdvEntry
      <3>2. NoEntry \in Unread
        BY <1>2, NoCHSType, GeometryConstants DEF NoEntry, Unread
      <3> QED
        BY <3>1, <3>2 DEF Unread
    <2>1a. x.rel = e.rel /\ x.num = e.num
      BY DEF NoEntry
    <2> HIDE DEF x
    <2>2. u \in Unread /\ Named(g, u, 0) /\ Same(u, x)
      BY <1>2, <2>1, RecalculatedType
    <2> HIDE DEF u
    <2> DEFINE r == RowIn(u, AsContainer(g, whole), 1)
    <2>3. /\ r \in PartLong /\ Same(r, u) /\ r.from = u.from
          /\ r.in = AsContainer(g, whole) /\ r.level = 1
      BY <1>3, <2>2, RowInType
    <2>4. Read(e) = r
      BY DEF x, u
    <2> HIDE DEF r
    <2> QED
      BY <2>1a, <2>2, <2>3, <2>4 DEF Named, Same
  <1> HIDE DEF Read
  <1>5. DOMAIN entries = 1 .. NumRows
    OBVIOUS
  <1>6. \A i \in 1 .. NumRows : rows[i] = Read(entries[i]) /\ entries[i] \in AdvEntry
    BY <1>5
  <1>7. rows \in [1 .. NumRows -> PartLong]
    BY <1>4, <1>5
  <1>8. rows \in Seq(PartLong) /\ Len(rows) = NumRows
    BY <1>2a, <1>7
  <1> HIDE DEF rows
  <1> DEFINE v == Validated(g, rows, whole)
  <1>9. /\ v \in Seq(PartLong) /\ Len(v) = NumRows
        /\ \A i \in 1 .. NumRows :
              /\ AllBut(v[i], rows[i])
              /\ v[i].valid /\ ~IsEmpty(rows[i]) =>
                   Consistent(g, rows[i]) /\ InRange(g, rows[i])
    BY <1>8, ValidatedType
  <1> HIDE DEF v
  <1>10. ASSUME NEW i \in 1 .. NumRows
         PROVE  /\ v[i].level = 1 /\ Named(g, v[i], 0)
                /\ v[i].rel = entries[i].rel /\ v[i].num = entries[i].num
                /\ v[i].in = AsContainer(g, whole)
                /\ v[i].valid /\ ~IsEmpty(v[i]) => Consistent(g, v[i]) /\ InRange(g, v[i])
    <2>1. AllBut(v[i], rows[i])
      BY <1>9
    <2>2. /\ rows[i].level = 1 /\ Named(g, rows[i], 0)
          /\ rows[i].rel = entries[i].rel /\ rows[i].num = entries[i].num
          /\ rows[i].in = AsContainer(g, whole)
      BY <1>4, <1>6
    <2>3. v[i].valid /\ ~IsEmpty(rows[i]) => Consistent(g, rows[i]) /\ InRange(g, rows[i])
      BY <1>9
    <2>4. /\ IsEmpty(v[i]) = IsEmpty(rows[i]) /\ Consistent(g, v[i]) = Consistent(g, rows[i])
          /\ InRange(g, v[i]) = InRange(g, rows[i])
      BY <2>1 DEF AllBut, Same, IsEmpty, Unplaced, Consistent, InRange, InRangeCHS,
                  InRangeLBA
    <2>5. /\ v[i].level = 1 /\ Named(g, v[i], 0) /\ v[i].in = AsContainer(g, whole)
          /\ v[i].rel = entries[i].rel /\ v[i].num = entries[i].num
      BY <2>1, <2>2 DEF AllBut, Same, Named
    <2> QED
      BY <2>3, <2>4, <2>5
  <1> QED
    BY <1>1, <1>9, <1>10 DEF v, whole

(* A valid row of the first level is behind the first sector of the disk.  *)
LEMMA AbsAboveZero ==
  ASSUME NEW g, Sound(g), NEW c \in Address, c.sect >= 1,
         Before([cyl |-> 0, head |-> 0, sect |-> 1], c)
  PROVE  Abs(g, c) # 0
  <1>1. /\ c.cyl \in 0 .. MaxCyl /\ c.head \in 0 .. MaxHead /\ c.sect \in 1 .. MaxSect
    BY Bounds DEF Address
  <1>2. /\ g.heads \in 1 .. MaxHead + 1 /\ g.sects \in 1 .. MaxSect
        /\ g.perTrack \in 1 .. MaxSect /\ g.perCyl = g.heads * g.sects
    BY DEF Sound, Geometry
  <1>3. \A a, b, m, n \in Nat : a <= m /\ b <= n => a * b \in Nat /\ a * b <= m * n
    <2> TAKE a, b, m, n \in Nat
    <2> HAVE a <= m /\ b <= n
    <2>1. a * b <= m * b /\ m * b <= m * n
      OBVIOUS
    <2> QED
      BY <2>1
  <1> DEFINE h == MaxHead + 1
             x == c.cyl * g.perCyl
             y == c.head * g.perTrack
  <1>4. g.perCyl \in Nat \ {0} /\ g.perCyl <= h * MaxSect /\ h * MaxSect \in Nat
    <2>1. g.heads \in Nat \ {0} /\ g.sects \in Nat \ {0} /\ h \in Nat /\ MaxSect \in Nat
          /\ g.heads <= h /\ g.sects <= MaxSect
      BY <1>2, Bounds
    <2>2. g.heads * g.sects <= h * MaxSect
      BY <1>3, <2>1
    <2>3. \A m, n \in Nat \ {0} : m * n \in Nat \ {0}
      OBVIOUS
    <2>4. g.heads * g.sects \in Nat \ {0} /\ h * MaxSect \in Nat
      BY <2>1, <2>3
    <2> QED
      BY <1>2, <2>2, <2>4
  <1>5. /\ c.cyl \in Nat /\ c.head \in Nat /\ c.sect \in Nat /\ g.perTrack \in Nat
        /\ MaxCyl \in Nat /\ MaxHead \in Nat /\ MaxSect \in Nat
        /\ g.perTrack <= MaxSect /\ c.cyl <= MaxCyl /\ c.head <= MaxHead
        /\ c.sect <= MaxSect /\ c.sect >= 1 /\ g.perTrack >= 1
    BY <1>1, <1>2, Bounds
  <1>6. x \in Nat /\ x <= MaxCyl * (h * MaxSect)
    BY <1>3, <1>4, <1>5
  <1>7. y \in Nat /\ y <= MaxHead * MaxSect
    BY <1>3, <1>5
  <1>8. MaxCyl * (h * MaxSect) + h * (MaxSect + 1) <= Modulus /\ Modulus \in Nat
    BY Bounds
  <1>9. h * (MaxSect + 1) = MaxHead * MaxSect + MaxSect + MaxHead + 1
    BY <1>5
  <1>10. MaxCyl * (h * MaxSect) \in Nat /\ MaxHead * MaxSect \in Nat
    BY <1>4, <1>5
  <1>11. c.cyl > 0 => x > 0
    <2>1. \A m, n \in Nat \ {0} : m * n > 0
      OBVIOUS
    <2> QED
      BY <1>4, <1>5, <2>1
  <1>12. c.head > 0 => y > 0
    <2>1. \A m, n \in Nat \ {0} : m * n > 0
      OBVIOUS
    <2> QED
      BY <1>5, <2>1
  <1>13. c.cyl > 0 \/ c.head > 0 \/ c.sect > 1
    BY <1>5 DEF Before
  <1> HIDE DEF x
  <1> HIDE DEF y
  <1> HIDE DEF h
  <1>14. x + y + c.sect - 1 > 0
    BY <1>5, <1>6, <1>7, <1>11, <1>12, <1>13
  <1>15. x + y + c.sect - 1 < Modulus
    BY <1>5, <1>6, <1>7, <1>8, <1>9, <1>10
  <1>16. x + y + c.sect - 1 \in Numbers
    BY <1>5, <1>6, <1>7, <1>8, <1>14, <1>15 DEF Numbers
  <1>17. Abs(g, c) = Wrap(x + y + c.sect - 1)
    BY DEF Abs, x, y
  <1>18. Wrap(x + y + c.sect - 1) = x + y + c.sect - 1
    BY <1>16, WrapFacts, Bounds DEF Numbers
  <1> QED
    BY <1>14, <1>17, <1>18, <1>5, <1>6, <1>7

LEMMA NotAtZero ==
  ASSUME NEW g, Sound(g), NEW p \in PartLong, p.in = AsContainer(g, WholeDisk(g)),
         Named(g, p, 0), p.valid, Consistent(g, p), InRange(g, p)
  PROVE  Start(g, p) # 0
  <1>1. p.in.start = 0 /\ p.in.from = [cyl |-> 0, head |-> 0, sect |-> 1]
    BY WholeDiskType
  <1>2. p.rel \in Numbers /\ p.rel \in Int /\ p.from \in Position
    BY Bounds DEF PartLong, Numbers
  <1>3. Wrap(0 + p.rel) = p.rel
    BY <1>2, WrapFacts
  <1>4. Start(g, p) = p.rel
    BY <1>1, <1>3 DEF Start, ByNumbers
  <1>5. CASE g.mode = "LBA"
    BY <1>4, <1>5 DEF InRange, InRangeLBA
  <1>6. CASE g.mode # "LBA"
    <2>1. Abs(g, p.from) = p.rel
      BY <1>1, <1>3 DEF Consistent
    <2>2. /\ Before([cyl |-> 0, head |-> 0, sect |-> 1], p.from)
          /\ p.from.sect \in 1 .. g.sects
      BY <1>1, <1>6 DEF InRange, InRangeCHS
    <2>3. CASE p.from \in Address
      BY <1>4, <2>1, <2>2, <2>3, AbsAboveZero DEF Sound, Geometry
    <2>4. CASE p.from = CHS(g, p.rel) /\ p.rel = 0
      <3>1. g.perCyl \in Nat \ {0} /\ g.sects \in Nat \ {0}
        BY Bounds DEF Sound, Geometry
      <3>2. 0 \div g.perCyl = 0 /\ 0 % g.perCyl = 0
        <4>1. 0 = g.perCyl * 0 + 0 /\ 0 \in 0 .. g.perCyl - 1
          BY <3>1
        <4> QED
          BY <3>1, <4>1, DivUnique
      <3>3. 0 \div g.sects = 0 /\ 0 % g.sects = 0
        <4>1. 0 = g.sects * 0 + 0 /\ 0 \in 0 .. g.sects - 1
          BY <3>1
        <4> QED
          BY <3>1, <4>1, DivUnique
      <3>4. CHS(g, 0) = [cyl |-> 0, head |-> 0, sect |-> 1]
        BY <3>2, <3>3 DEF CHS
      <3>5. ~Before([cyl |-> 0, head |-> 0, sect |-> 1],
                    [cyl |-> 0, head |-> 0, sect |-> 1])
        BY DEF Before
      <3> QED
        BY <2>2, <2>4, <3>4, <3>5
    <2> QED
      BY <1>3, <1>4, <2>3, <2>4 DEF Named
  <1> QED
    BY <1>5, <1>6

-------------------------------------------------------------------------------
(* The rows of advanced data, and what the removal of row i makes of them. *)
AdvTable == [1 .. NumRows -> AdvEntry]
Removed(u, i) ==
  IF u[i].type # "Unused" THEN u
  ELSE [r \in 1 .. NumRows |-> IF r < i THEN u[r]
                               ELSE IF r < NumRows THEN u[r + 1] ELSE Advanced!NoRow]

LEMMA RemovedType ==
  ASSUME NEW u \in AdvTable, NEW i \in 1 .. NumRows
  PROVE  Removed(u, i) \in AdvTable
  <1>1. NumRows \in Nat
    BY CommandConstants
  <1>2. Advanced!NoRow \in AdvEntry
    BY Bounds, GeometryConstants
    DEF Advanced!NoRow, Advanced!Unused, AdvEntry, Numbers
  <1>3. ASSUME NEW r \in 1 .. NumRows
        PROVE  (IF r < i THEN u[r]
                ELSE IF r < NumRows THEN u[r + 1] ELSE Advanced!NoRow) \in AdvEntry
    <2>1. r < NumRows => r + 1 \in 1 .. NumRows
      BY <1>1
    <2> QED
      BY <1>2, <2>1 DEF AdvTable
  <1> QED
    BY <1>3 DEF Removed, AdvTable

LEMMA CompactedSteps ==
  ASSUME NEW t \in AdvTable
  PROVE  \E h : /\ h[0] = t /\ Advanced!Compacted(t) = h[NumRows]
                /\ \A i \in 1 .. NumRows : h[i] = Removed(h[i - 1], i)
  <1> DEFINE after == CHOOSE h : h = [i \in 0 .. NumRows |->
                                        IF i = 0 THEN t ELSE Removed(h[i - 1], i)]
             f == [x \in AdvTable \X (1 .. NumRows) |-> Removed(x[1], x[2])]
  <1>1. Advanced!Compacted(t) = after[NumRows]
    BY DEF Advanced!Compacted, Advanced!Rows, Advanced!Unused, Removed
  <1>2. NumRows \in Nat
    BY CommandConstants
  <1>5. f \in [AdvTable \X (1 .. NumRows) -> AdvTable]
    BY RemovedType
  <1>6. PICK h \in [0 .. NumRows -> AdvTable] : IsLoop(h, t, NumRows, f)
    <2> HIDE DEF f
    <2> QED
      BY <1>2, <1>5, LoopExists
  <1>7. ASSUME NEW i \in 0 .. NumRows
        PROVE  h[i] = IF i = 0 THEN t ELSE Removed(h[i - 1], i)
    <2>0. h[i] = IF i = 0 THEN t ELSE f[<<h[i - 1], i>>]
      BY <1>6 DEF IsLoop
    <2>1. CASE i = 0
      BY <2>0, <2>1
    <2>2. CASE i # 0
      <3>1. i \in 1 .. NumRows /\ i - 1 \in 0 .. NumRows
        BY <1>2, <2>2
      <3>2. h[i - 1] \in AdvTable
        BY <3>1
      <3>3. <<h[i - 1], i>> \in AdvTable \X (1 .. NumRows)
        BY <3>1, <3>2
      <3>4. f[<<h[i - 1], i>>] = Removed(h[i - 1], i)
        BY <3>3
      <3> QED
        BY <2>0, <2>2, <3>4
    <2> QED
      BY <2>1, <2>2
  <1>8. h = [i \in 0 .. NumRows |-> IF i = 0 THEN t ELSE Removed(h[i - 1], i)]
    BY <1>7
  <1>9. after = [i \in 0 .. NumRows |-> IF i = 0 THEN t ELSE Removed(after[i - 1], i)]
    BY <1>8, Zenon
  <1> HIDE DEF after
  <1>10. after[0] = t /\ \A i \in 1 .. NumRows : after[i] = Removed(after[i - 1], i)
    <2>1. \A i \in 0 .. NumRows :
            after[i] = IF i = 0 THEN t ELSE Removed(after[i - 1], i)
      BY <1>9, Zenon
    <2>2. 0 \in 0 .. NumRows /\ \A i \in 1 .. NumRows : i \in 0 .. NumRows /\ i # 0
      BY <1>2
    <2> QED
      BY <2>1, <2>2, Zenon
  <1> QED
    BY <1>1, <1>10

(* A property of tables that each removal keeps holds when all are done.   *)
LEMMA CompactedIn ==
  ASSUME NEW t \in AdvTable, NEW S, t \in S,
         \A u \in S, i \in 1 .. NumRows : Removed(u, i) \in S
  PROVE  Advanced!Compacted(t) \in S
  <1>1. PICK h : /\ h[0] = t /\ Advanced!Compacted(t) = h[NumRows]
                 /\ \A i \in 1 .. NumRows : h[i] = Removed(h[i - 1], i)
    BY CompactedSteps
  <1>2. NumRows \in Nat
    BY CommandConstants
  <1>3. \A i \in 1 .. NumRows : h[i - 1] \in S => h[i] \in S
    BY <1>1
  <1>4. \A i \in 0 .. NumRows : h[i] \in S
    BY <1>1, <1>2, <1>3, LoopType
  <1>5. NumRows \in 0 .. NumRows
    BY <1>2
  <1> QED
    BY <1>1, <1>4, <1>5

(* What is written is what a sector can hold.                              *)
LEMMA CompactedType ==
  ASSUME NEW t \in [1 .. NumRows -> AdvEntry]
  PROVE  Advanced!Compacted(t) \in [1 .. NumRows -> AdvEntry]
  <1>1. t \in AdvTable
    BY DEF AdvTable
  <1>2. Advanced!Compacted(t) \in AdvTable
    BY <1>1, CompactedIn, RemovedType
  <1> QED
    BY <1>2 DEF AdvTable

LEMMA ContentsFacts ==
  /\ Tables \subseteq Contents /\ AdvData \subseteq Contents
  /\ Blank \in Contents /\ Boot \in Contents /\ Code \in Contents /\ Cut \in Contents
  /\ \A c \in Contents : (c.kind = "table" => c \in Tables)
                       /\ (c.kind = "data" => c \in AdvData)
  /\ \A c \in Tables : c.kind = "table" /\ c.at \in Numbers /\ c.rows \in [1 .. 4 -> Entry]
  /\ \A c \in AdvData : c.kind = "data" /\ c.rows \in [1 .. NumRows -> AdvEntry]
  BY DEF Contents, Tables, AdvData, Blank, Boot, Code, Cut

LEMMA TableOfType ==
  ASSUME NEW place \in Numbers, NEW entries \in [1 .. 4 -> Entry]
  PROVE  /\ TableOf(TRUE, place, entries) \in Tables
         /\ TableOf(FALSE, place, entries) \in Tables
  BY DEF TableOf, Tables

LEMMA NoEntryType == NoEntry \in Entry /\ NoTable \in [1 .. 4 -> Entry]
  <1>1. 0 \in Numbers
    BY Bounds DEF Numbers
  <1>2. NoEntry \in Entry
    BY <1>1, NoCHSType, GeometryConstants DEF NoEntry, Entry
  <1> QED
    BY <1>2 DEF NoTable

LEMMA PackedType ==
  ASSUME NEW p, p.type \in RowTypes, p.active \in BOOLEAN, p.rel \in Numbers,
         p.num \in Numbers, p.from \in Position, p.to \in Position
  PROVE  Packed(p) \in Entry
  <1>1. ASSUME NEW c \in Position, NEW n \in Numbers
        PROVE  PackedAddress(c, n) \in Address
    <2>1. Mark \in Address
      BY GeometryConstants DEF Mark, Address
    <2>2. /\ c.cyl \in Nat /\ c.head \in 0 .. MaxHead /\ c.sect \in 0 .. MaxSect
          /\ MaxCyl + 1 \in Nat \ {0} /\ MaxCyl \in Nat
      BY Bounds DEF Position, Numbers
    <2>3. c.cyl % (MaxCyl + 1) \in 0 .. MaxCyl
      <3>1. c.cyl % (MaxCyl + 1) \in 0 .. (MaxCyl + 1) - 1
        BY <2>2, DivMod
      <3> QED
        BY <2>2, <3>1
    <2> DEFINE k == c.cyl % (MaxCyl + 1)
    <2>4. PackedAddress(c, n) = Mark \/ PackedAddress(c, n) = [c EXCEPT !.cyl = k]
      BY DEF PackedAddress
    <2> HIDE DEF k
    <2>5. k \in 0 .. MaxCyl
      BY <2>3 DEF k
    <2>6. [c EXCEPT !.cyl = k] \in Address
      BY <2>2, <2>5 DEF Position, Address
    <2> QED
      BY <2>1, <2>4, <2>6
  <1>2. PackedAddress(p.from, p.num) \in Address /\ PackedAddress(p.to, p.num) \in Address
    BY <1>1
  <1> QED
    BY <1>2 DEF Packed, Entry

LEMMA AllHiddenType ==
  ASSUME NEW g, Sound(g)
  PROVE  AllHidden(g) \in [1 .. 4 -> Entry]
  <1> DEFINE n == Wrap(g.total - 1)
             x == [NoEntry EXCEPT !.type = "Hidden (0xFF)", !.active = TRUE, !.rel = 1,
                                  !.num = n]
             r == Recalculated(g, x, 0)
  <1>1. 0 \in Numbers /\ 1 \in Numbers
    BY Bounds DEF Numbers
  <1>2. n \in Numbers
    <2>1. g.total - 1 \in Int
      BY Bounds DEF Sound, Geometry, Numbers
    <2> QED
      BY <2>1, WrapFacts
  <1> HIDE DEF n
  <1>3. x \in Unread
    <2>1. "Hidden (0xFF)" \in RowTypes
      BY CommandConstants
    <2>2. NoEntry \in Unread
      BY NoEntryType, Addresses DEF Entry, Unread
    <2> QED
      BY <1>1, <1>2, <2>1, <2>2 DEF Unread
  <1> HIDE DEF x
  <1>4. r \in Unread
    BY <1>1, <1>3, RecalculatedType
  <1>5. AllHidden(g) = [NoTable EXCEPT ![1] = Packed(r)]
    BY DEF AllHidden, n, x
  <1> HIDE DEF r
  <1>6. Packed(r) \in Entry
    BY <1>4, PackedType DEF Unread
  <1> QED
    BY <1>5, <1>6, NoEntryType

LEMMA ConvertedType ==
  ASSUME NEW d \in AdvData
  PROVE  Converted(d) \in AdvData /\ Converted(d).rows = d.rows
  <1>1. Version \in Nat
    BY CommandConstants
  <1>2. /\ [d EXCEPT !.version = Version, !.locked = FALSE] \in AdvData
        /\ [d EXCEPT !.version = Version, !.locked = FALSE].rows = d.rows
    BY <1>1 DEF AdvData
  <1> QED
    BY <1>2 DEF Converted

LEMMA CompactedDataType ==
  ASSUME NEW d \in AdvData
  PROVE  Compacted(d) \in AdvData
  <1>1. d.rows \in [1 .. NumRows -> AdvEntry]
    BY ContentsFacts
  <1> DEFINE r == Advanced!Compacted(d.rows)
  <1>2. r \in [1 .. NumRows -> AdvEntry]
    BY <1>1, CompactedType
  <1>3. Compacted(d) = d \/ Compacted(d) = [d EXCEPT !.rows = r]
    BY DEF Compacted
  <1> HIDE DEF r
  <1>4. [d EXCEPT !.rows = r] \in AdvData
    BY <1>2 DEF AdvData
  <1> QED
    BY <1>3, <1>4
-------------------------------------------------------------------------------
(* The inductive invariant.  The geometry is sound but while its size is   *)
(* still sought; then the disk has extensions.                             *)
GeometryReady ==
  /\ at # "sizes" => Sound(mem.g)
  /\ at = "sizes" => mem.g.lba

(* A command works on rows of the first level, of which none that counts   *)
(* as valid begins with the MBR; "P" on rows of one level.                 *)
RowsReady ==
  /\ at \in {"command", "sweep", "print"} \/ result = "swept" => Len(mem.rows) >= 4
  /\ at = "command" => \A i \in DOMAIN mem.rows :
       /\ mem.rows[i].level = 1
       /\ mem.rows[i].valid /\ ~IsEmpty(mem.rows[i]) => Start(mem.g, mem.rows[i]) # 0
  /\ at = "print" => \A i \in DOMAIN mem.rows : mem.rows[i].level = mem.rows[1].level
  /\ at \in {"info", "sizes", "table", "load", "command"} => seen = {}
  /\ at # "idle" => result # "swept"

(* The sectors of the row that a sweep has passed are those it has seen.   *)
(* A row whose end wraps ends before it begins.                            *)
SweepReady ==
  LET first == Start(mem.g, TheRow)
      past == first + TheRow.num
  IN  /\ at = "sweep" =>
           /\ sweep.sect > 0 /\ sweep.size > 0
           /\ past > Modulus => sweep.sect > sweep.end
           /\ past <= Modulus =>
                /\ sweep.end = past - 1 /\ sweep.sect \in first .. past
                /\ seen = first .. sweep.sect - 1
                /\ seen \cap drive.bad = {}
      /\ result = "swept" /\ past <= Modulus =>
           seen = first .. past - 1 /\ seen \cap drive.bad = {}
Inv == TypeOK /\ GeometryReady /\ RowsReady /\ SweepReady

-------------------------------------------------------------------------------
LEMMA Typed ==
  ASSUME Inv
  PROVE  /\ drive \in Drives /\ cmd \in Asked /\ cmd.row \in 1 .. 4
         /\ cmd.force \in ForcedCHS /\ cmd.lba \in BOOLEAN
         /\ disk \in [Numbers -> Contents] /\ 0 \in Numbers /\ disk[0] \in Tables
         /\ file \in Contents /\ faults \in 0 .. MaxFaults
         /\ mem.g \in Geometry /\ mem.view \in {"MBR", "ADV"}
         /\ mem.image \in Contents /\ mem.rows \in Seq(PartLong)
         /\ pending \in Seq(PartLong)
         /\ sweep.sect \in Numbers /\ sweep.size \in Numbers /\ sweep.end \in Numbers
  <1>1. /\ drive \in Drives /\ cmd \in Asked
        /\ disk \in [Numbers -> Contents] /\ disk[0] \in Tables
        /\ file \in Contents /\ faults \in 0 .. MaxFaults
        /\ mem \in [g : Geometry, view : {"MBR", "ADV"}, image : Contents,
                    rows : Seq(PartLong)]
        /\ sweep \in [sect : Numbers, size : Numbers, end : Numbers]
        /\ pending \in Seq(PartLong)
    BY DEF Inv, TypeOK
  <1>2. cmd.row \in 1 .. 4 /\ cmd.force \in ForcedCHS /\ cmd.lba \in BOOLEAN
    BY <1>1, CommandConstants
  <1>3. 0 \in Numbers
    BY Bounds DEF Numbers
  <1> QED
    BY <1>1, <1>2, <1>3

LEMMA Ready ==
  ASSUME Inv, at # "sizes"
  PROVE  Sound(mem.g)
  BY DEF Inv, GeometryReady

(* A command has ended: what it was doing no longer matters.               *)
LEMMA EndKeeps ==
  ASSUME Inv, at # "sizes", at' = "idle", result' # "swept",
         UNCHANGED <<drive, cmd, mem, sweep, pending, runs>>, file' \in Contents,
         disk' \in [Numbers -> Contents], disk'[0] \in Tables,
         faults' \in 0 .. MaxFaults
  PROVE  Inv'
  <1>1. TypeOK'
    BY DEF Inv, TypeOK
  <1>2. GeometryReady'
    BY Ready DEF GeometryReady
  <1>3. RowsReady'
    BY DEF RowsReady
  <1>4. SweepReady'
    BY DEF SweepReady
  <1> QED
    BY <1>1, <1>2, <1>3, <1>4 DEF Inv

LEMMA RefuseKeeps ==
  ASSUME Inv, at # "sizes", NEW r, r # "swept", Refuse(r)
  PROVE  Inv'
  <1>1. /\ at' = "idle" /\ result' = r
        /\ UNCHANGED <<drive, file, cmd, mem, sweep, pending, runs, disk, faults>>
    BY DEF Refuse, Ends
  <1> QED
    BY <1>1, EndKeeps, Typed

LEMMA FaultsCounted ==
  ASSUME Inv, NEW ok \in MayFail, Counted(ok)
  PROVE  faults' \in 0 .. MaxFaults
  <1>1. MaxFaults \in Nat /\ faults \in 0 .. MaxFaults
    BY Typed, CommandConstants
  <1>2. ok \in BOOLEAN /\ (ok \/ faults < MaxFaults)
    BY <1>1 DEF MayFail
  <1>3. faults' = faults \/ (faults' = faults + 1 /\ faults < MaxFaults)
    BY <1>2 DEF Counted
  <1> QED
    BY <1>1, <1>3
-------------------------------------------------------------------------------
LEMMA InitReady == Init => Inv
  <1> SUFFICES ASSUME Init PROVE Inv
    OBVIOUS
  <1>1. drive \in Drives /\ cmd \in Asked /\ file \in Contents
    BY CommandConstants DEF Init, FileContents, Contents
  <1>2. disk \in [Numbers -> Contents] /\ disk[0] \in Tables
    <2>1. drive.disk \in [Numbers -> Contents] /\ drive.disk[0] \in Tables
      BY <1>1, CommandConstants
    <2> QED
      BY <2>1 DEF Init
  <1> DEFINE g == Queried(drive.bios, TRUE, FALSE)
  <1>3. Sound(g)
    BY <1>1, QueriedType
  <1>4. mem = [g |-> g, view |-> "MBR", image |-> Blank, rows |-> << >>]
    BY DEF Init
  <1> HIDE DEF g
  <1>5. mem \in [g : Geometry, view : {"MBR", "ADV"}, image : Contents,
                 rows : Seq(PartLong)]
    BY <1>3, <1>4, ContentsFacts DEF Sound
  <1>6. mem.rows = << >> /\ pending = << >>
    BY <1>4 DEF Init
  <1>7. 0 \in Numbers /\ MaxCommands \in Nat /\ MaxFaults \in Nat
    <2>1. MaxCommands \in Nat /\ MaxFaults \in Nat
      BY CommandConstants
    <2>2. 0 \in Numbers
      BY Bounds DEF Numbers
    <2> QED
      BY <2>1, <2>2
  <1>8. sweep \in [sect : Numbers, size : Numbers, end : Numbers]
    BY <1>7 DEF Init
  <1>9. at = "idle" /\ result = "none" /\ runs = 0 /\ faults = 0
    BY DEF Init
  <1>10. TypeOK
    BY <1>1, <1>2, <1>5, <1>6, <1>7, <1>8, <1>9 DEF TypeOK
  <1>11. GeometryReady
    BY <1>3, <1>4, <1>9 DEF GeometryReady
  <1>12. RowsReady
    BY <1>9 DEF RowsReady
  <1>13. SweepReady
    BY <1>9 DEF SweepReady
  <1> QED
    BY <1>10, <1>11, <1>12, <1>13 DEF Inv

LEMMA IssueKeeps ==
  ASSUME Inv, NEW c \in Asked, Issue(c)
  PROVE  Inv'
  <1>1. /\ at = "idle" /\ runs < MaxCommands /\ runs' = runs + 1 /\ cmd' = c
        /\ at' = "info" /\ result' = "none" /\ seen' = {} /\ pending' = << >>
        /\ UNCHANGED <<drive, disk, file, mem, sweep, faults>>
    BY DEF Issue
  <1>2. MaxCommands \in Nat
    BY CommandConstants
  <1>3. TypeOK'
    BY <1>1, <1>2 DEF Inv, TypeOK
  <1>4. GeometryReady' /\ RowsReady' /\ SweepReady'
    BY <1>1, Ready DEF GeometryReady, RowsReady, SweepReady
  <1> QED
    BY <1>3, <1>4 DEF Inv

(* get_disk_info has found the geometry.                                   *)
LEMMA GeometryKeeps ==
  ASSUME Inv, at \in {"info", "sizes"}, NEW g \in Geometry, ~g.lba => Sound(g),
         GeometryIs(g),
         UNCHANGED <<drive, disk, file, cmd, sweep, pending, seen, result, runs, faults>>
  PROVE  Inv'
  <1> DEFINE h == Forced(g, cmd.force)
  <1>1. at' \in {"load", "table"} /\ mem' = [mem EXCEPT !.g = h]
    BY DEF GeometryIs, After
  <1>2. Sound(h)
    BY Typed, ForcedType
  <1> HIDE DEF h
  <1>3. mem' \in [g : Geometry, view : {"MBR", "ADV"}, image : Contents,
                  rows : Seq(PartLong)]
        /\ mem'.rows = mem.rows /\ mem'.g = h
    <2>1. mem \in [g : Geometry, view : {"MBR", "ADV"}, image : Contents,
                   rows : Seq(PartLong)]
      BY DEF Inv, TypeOK
    <2> QED
      BY <1>1, <1>2, <2>1 DEF Sound
  <1>4. TypeOK'
    BY <1>1, <1>3 DEF Inv, TypeOK
  <1>5. GeometryReady'
    BY <1>1, <1>2, <1>3 DEF GeometryReady
  <1>6. seen = {} /\ result # "swept"
    BY DEF Inv, RowsReady
  <1>7. RowsReady'
    BY <1>1, <1>6 DEF RowsReady
  <1>8. SweepReady'
    BY <1>1, <1>6 DEF SweepReady
  <1> QED
    BY <1>4, <1>5, <1>7, <1>8 DEF Inv

LEMMA QueryDiskKeeps == ASSUME Inv, QueryDisk PROVE Inv'
  <1> DEFINE q == Queried(drive.bios, cmd.lba, cmd.name = "Erase")
             g == WithHeads(q, cmd.force)
  <1>1. Sound(q)
    BY Typed, QueriedType
  <1> HIDE DEF q
  <1>2. g \in Geometry /\ g.lba = q.lba /\ (~q.lba => Sound(g))
    BY <1>1, Typed, WithHeadsType
  <1>3. /\ at = "info"
        /\ \/ GeometryIs(g)
           \/ g.lba /\ at' = "sizes" /\ mem' = [mem EXCEPT !.g = g]
        /\ UNCHANGED <<drive, disk, file, cmd, sweep, pending, seen, result, runs, faults>>
    BY DEF QueryDisk, q
  <1> HIDE DEF g
  <1>4. CASE GeometryIs(g)
    BY <1>2, <1>3, <1>4, GeometryKeeps
  <1>5. CASE g.lba /\ at' = "sizes" /\ mem' = [mem EXCEPT !.g = g]
    <2>1. mem' \in [g : Geometry, view : {"MBR", "ADV"}, image : Contents,
                    rows : Seq(PartLong)]
          /\ mem'.rows = mem.rows /\ mem'.g = g
      <3>1. mem \in [g : Geometry, view : {"MBR", "ADV"}, image : Contents,
                     rows : Seq(PartLong)]
        BY DEF Inv, TypeOK
      <3> QED
        BY <1>2, <1>5, <3>1
    <2>2. TypeOK'
      BY <1>3, <1>5, <2>1 DEF Inv, TypeOK
    <2>3. seen = {} /\ result # "swept"
      BY <1>3 DEF Inv, RowsReady
    <2>4. GeometryReady' /\ RowsReady' /\ SweepReady'
      BY <1>3, <1>5, <2>1, <2>3 DEF GeometryReady, RowsReady, SweepReady
    <2> QED
      BY <2>2, <2>4 DEF Inv
  <1> QED
    BY <1>3, <1>4, <1>5

LEMMA TrySizeKeeps == ASSUME Inv, TrySize PROVE Inv'
  <1> DEFINE n == TestSizes[1] + 1
             g == [mem.g EXCEPT !.total = n]
  <1>1. at = "sizes" /\ mem.g.lba /\ mem.g \in Geometry
    BY Typed DEF TrySize, Inv, GeometryReady
  <1>2. CASE Passes(TestSizes[1], 1)
    <2>1. TestSizes[1] \in Numbers
      <3>1. TestSizes \in Seq(Numbers) /\ TestSizes # << >>
        BY CommandConstants
      <3>2. \A S : \A t \in Seq(S) : t # << >> => t[1] \in S
        OBVIOUS
      <3> QED
        BY <3>1, <3>2
    <2>2. n \in Numbers
      BY <1>2, <2>1, Bounds DEF Passes, Numbers
    <2>3. GeometryIs(g)
      BY <1>2 DEF TrySize
    <2>4. UNCHANGED <<drive, disk, file, cmd, sweep, pending, seen, result, runs, faults>>
      BY DEF TrySize
    <2> HIDE DEF n
    <2>5. g \in Geometry /\ g.lba
      BY <1>1, <2>2 DEF Geometry
    <2> HIDE DEF g
    <2> QED
      BY <1>1, <2>3, <2>4, <2>5, GeometryKeeps
  <1>3. CASE ~Passes(TestSizes[1], 1)
    <2>1. UNCHANGED vars
      BY <1>3 DEF TrySize, vars
    <2> QED
      BY <2>1 DEF vars, Inv, TypeOK, GeometryReady, RowsReady, SweepReady, TheRow
  <1> QED
    BY <1>2, <1>3
(* The table that a command has read: rows of the first level, none of     *)
(* which counts as valid and begins with the MBR.                          *)
LEMMA RowsFound ==
  ASSUME Inv, at = "table"
  PROVE  LET found == Found(mem.g)
         IN  /\ found \in [g : Geometry, view : {"MBR", "ADV"}, image : Contents,
                           rows : Seq(PartLong)]
             /\ found.g = mem.g /\ Len(found.rows) >= 4
             /\ \A i \in DOMAIN found.rows :
                  /\ found.rows[i].level = 1
                  /\ found.rows[i].valid /\ ~IsEmpty(found.rows[i]) =>
                       Start(mem.g, found.rows[i]) # 0
  <1> DEFINE found == Found(mem.g)
             g == mem.g
             mbr == disk[0]
             adv == mbr.kind = "table" /\ mbr.adv /\ Passes(mbr.at, 1)
                    /\ disk[mbr.at].kind = "data"
             data == Converted(disk[mbr.at])
             whole == WholeDisk(g)
             Good(rows) == \A i \in DOMAIN rows :
                /\ rows[i].level = 1
                /\ rows[i].valid /\ ~IsEmpty(rows[i]) => Start(g, rows[i]) # 0
  <1>1. Sound(g) /\ g \in Geometry
    BY Ready, Typed
  <1>2. whole \in Parent /\ whole.level = 0 /\ AsContainer(g, whole).start = 0
    BY <1>1, WholeDiskType
  <1>3. mbr \in Tables /\ mbr \in Contents /\ mbr.at \in Numbers
        /\ mbr.rows \in [1 .. 4 -> Entry]
    BY Typed, ContentsFacts
  <1>4. found = IF adv THEN [g |-> g, view |-> "ADV", image |-> data,
                             rows |-> AdvancedIn(g, data.rows)]
                ELSE [g |-> g, view |-> "MBR", image |-> mbr,
                      rows |-> TableIn(g, mbr.rows, whole)]
    BY DEF Found, FoundOn
  <1>5. CASE adv
    <2>1. disk[mbr.at] \in AdvData
      BY <1>3, <1>5, Typed, ContentsFacts
    <2>2. data \in AdvData /\ data \in Contents /\ data.rows \in [1 .. NumRows -> AdvEntry]
      BY <2>1, ConvertedType, ContentsFacts
    <2> DEFINE rows == AdvancedIn(g, data.rows)
    <2>3. /\ rows \in Seq(PartLong) /\ Len(rows) = NumRows
          /\ \A i \in 1 .. NumRows :
               /\ rows[i].level = 1 /\ Named(g, rows[i], 0)
               /\ rows[i].in = AsContainer(g, WholeDisk(g))
               /\ rows[i].valid /\ ~IsEmpty(rows[i]) =>
                    Consistent(g, rows[i]) /\ InRange(g, rows[i])
      BY <1>1, <2>2, AdvancedInType
    <2>4. found = [g |-> g, view |-> "ADV", image |-> data, rows |-> rows]
      BY <1>4, <1>5
    <2> HIDE DEF rows, data, found, adv, g
    <2>5. Good(rows)
      <3>1. DOMAIN rows = 1 .. NumRows
        BY <2>3
      <3>2. \A i \in 1 .. NumRows : rows[i] \in PartLong
        BY <2>3, <3>1
      <3> QED
        BY <1>1, <2>3, <3>1, <3>2, NotAtZero
    <2>6. Len(rows) >= 4
      BY <2>3, CommandConstants
    <2> QED
      BY <1>1, <2>2, <2>3, <2>4, <2>5, <2>6 DEF found, g
  <1>6. CASE ~adv
    <2> DEFINE rows == TableIn(g, mbr.rows, whole)
    <2>3. /\ rows \in Seq(PartLong) /\ Len(rows) = 4
          /\ \A i \in 1 .. 4 :
               /\ rows[i].level = 0 + 1 /\ Named(g, rows[i], rows[i].in.start)
               /\ rows[i].in = AsContainer(g, whole)
               /\ rows[i].valid /\ ~IsEmpty(rows[i]) =>
                    Consistent(g, rows[i]) /\ InRange(g, rows[i])
      BY <1>1, <1>2, <1>3, TableInType
    <2>4. found = [g |-> g, view |-> "MBR", image |-> mbr, rows |-> rows]
      BY <1>4, <1>6
    <2>3a. rows \in Seq(PartLong) /\ Len(rows) = 4 /\ DOMAIN rows = 1 .. 4
      <3> HIDE DEF rows
      <3> QED
        BY <2>3
    <2> HIDE DEF rows, found, adv, mbr, g
    <2>5. Good(rows)
      <3>1. \A S : \A t \in Seq(S) : \A i \in DOMAIN t : t[i] \in S
        OBVIOUS
      <3>2. \A i \in 1 .. 4 : rows[i] \in PartLong
        BY <2>3a, <3>1, Zenon
      <3>3. \A i \in 1 .. 4 : rows[i].in.start = 0
        <4> HIDE DEF whole
        <4> QED
          BY <1>2, <2>3
      <3> QED
        BY <1>1, <2>3, <2>3a, <3>2, <3>3, NotAtZero
    <2>6. Len(rows) >= 4 /\ mbr \in Contents
      BY <1>3, <2>3
    <2> HIDE DEF whole
    <2>7. found.g = g /\ found.rows = rows /\ found.image = mbr /\ found.view = "MBR"
      BY <2>4
    <2>8. found \in [g : Geometry, view : {"MBR", "ADV"}, image : Contents,
                    rows : Seq(PartLong)]
      BY <1>1, <2>3a, <2>4, <2>6
    <2> QED
      BY <2>5, <2>6, <2>7, <2>8 DEF found, g
  <1> QED
    BY <1>5, <1>6

LEMMA ReadTableKeeps == ASSUME Inv, ReadTable PROVE Inv'
  <1>1. CASE Refuse("no table")
    BY <1>1, RefuseKeeps DEF ReadTable
  <1>2. CASE /\ mem' = Found(mem.g) /\ at' = "command"
             /\ UNCHANGED <<drive, disk, file, cmd, sweep, pending, seen, result,
                            runs, faults>>
    <2>1. at = "table"
      BY DEF ReadTable
    <2>2. /\ mem' \in [g : Geometry, view : {"MBR", "ADV"}, image : Contents,
                       rows : Seq(PartLong)]
          /\ mem'.g = mem.g /\ Len(mem'.rows) >= 4
          /\ \A i \in DOMAIN mem'.rows :
               /\ mem'.rows[i].level = 1
               /\ mem'.rows[i].valid /\ ~IsEmpty(mem'.rows[i]) =>
                    Start(mem'.g, mem'.rows[i]) # 0
      BY <1>2, <2>1, RowsFound
    <2>3. seen = {} /\ result # "swept"
      BY <2>1 DEF Inv, RowsReady
    <2>4. MaxTables \in Nat
      BY CommandConstants
    <2>5. TypeOK'
      BY <1>2, <2>2, <2>4 DEF Inv, TypeOK
    <2>6. GeometryReady'
      BY <1>2, <2>1, <2>2, Ready DEF GeometryReady
    <2>7. RowsReady'
      BY <1>2, <2>2, <2>3 DEF RowsReady
    <2>8. SweepReady'
      BY <1>2, <2>3 DEF SweepReady
    <2> QED
      BY <2>5, <2>6, <2>7, <2>8 DEF Inv
  <1> QED
    BY <1>1, <1>2 DEF ReadTable

LEMMA RefusalsKeep ==
  ASSUME Inv, Reject \/ NoEffect \/ EmptyRow \/ Compare
  PROVE  Inv'
  <1>1. at # "sizes" /\ \E r \in {"fix the table first", "no effect", "empty",
                                  "the same", "different"} : Refuse(r)
    BY DEF Reject, NoEffect, EmptyRow, Compare, Does
  <1> QED
    BY <1>1, RefuseKeeps

LEMMA SaveKeeps == ASSUME Inv, Save PROVE Inv'
  <1>1. /\ at = "command" /\ at' = "idle" /\ result' # "swept"
        /\ UNCHANGED <<drive, disk, cmd, mem, sweep, pending, runs, faults>>
        /\ file' \in {mem.image, Cut, file}
    BY DEF Save, Does
  <1>2. file' \in Contents
    BY <1>1, Typed, ContentsFacts
  <1> QED
    BY <1>1, <1>2, EndKeeps, Typed

(* The row of the command, once the table has been read.                   *)
LEMMA RowRead ==
  ASSUME Inv, at = "command"
  PROVE  /\ TheRow \in PartLong /\ TheRow.level = 1
         /\ TheRow.valid /\ ~IsEmpty(TheRow) => Start(mem.g, TheRow) # 0
         /\ Whole(mem.rows) /\ ~IsEmpty(TheRow) => TheRow.valid
         /\ Start(mem.g, TheRow) \in Numbers
         /\ \A i \in 1 .. 4 : mem.rows[i] \in PartLong
  <1>1. mem.rows \in Seq(PartLong) /\ Len(mem.rows) >= 4 /\ cmd.row \in 1 .. 4
    BY Typed DEF Inv, RowsReady
  <1>2. DOMAIN mem.rows = 1 .. Len(mem.rows) /\ Len(mem.rows) \in Nat
    BY <1>1
  <1>3. \A i \in 1 .. 4 : i \in DOMAIN mem.rows
    BY <1>1, <1>2
  <1>4. \A i \in 1 .. 4 : mem.rows[i] \in PartLong
    BY <1>1, <1>3
  <1>5. cmd.row \in DOMAIN mem.rows /\ TheRow = mem.rows[cmd.row]
    BY <1>1, <1>3 DEF TheRow
  <1>6. /\ TheRow.level = 1
        /\ TheRow.valid /\ ~IsEmpty(TheRow) => Start(mem.g, TheRow) # 0
    BY <1>5 DEF Inv, RowsReady
  <1>7. Whole(mem.rows) /\ ~IsEmpty(TheRow) => TheRow.valid
    BY <1>5 DEF Whole
  <1>8. TheRow \in PartLong
    BY <1>1, <1>4 DEF TheRow
  <1>9. Start(mem.g, TheRow) \in Numbers
    BY <1>8, Ready, RowsAreParents, StartType
  <1> QED
    BY <1>4, <1>6, <1>7, <1>8, <1>9
LEMMA WriteMbrKeeps ==
  ASSUME Inv, at = "command", NEW rows, WriteMbr(rows),
         \A i \in 1 .. 4 : rows[i] \in PartLong
  PROVE  Inv'
  <1> DEFINE packed == [i \in 1 .. 4 |-> Packed(rows[i])]
  <1>1. packed \in [1 .. 4 -> Entry]
    <2>1. ASSUME NEW i \in 1 .. 4 PROVE Packed(rows[i]) \in Entry
      <3>1. rows[i] \in PartLong
        OBVIOUS
      <3>2. /\ rows[i].type \in RowTypes /\ rows[i].active \in BOOLEAN
            /\ rows[i].rel \in Numbers /\ rows[i].num \in Numbers
            /\ rows[i].from \in Position /\ rows[i].to \in Position
        BY <3>1 DEF PartLong
      <3> QED
        BY <3>2, PackedType
    <2> QED
      BY <2>1
  <1>2. PICK ok \in MayFail :
          /\ Counted(ok)
          /\ disk' = IF ok THEN [disk EXCEPT ![0].rows = packed] ELSE disk
          /\ Ends(IF ok THEN "changed" ELSE "not written")
    BY DEF WriteMbr
  <1> HIDE DEF packed
  <1>3. at' = "idle" /\ result' # "swept"
        /\ UNCHANGED <<drive, file, cmd, mem, sweep, pending, runs>>
    BY <1>2 DEF Ends
  <1>4. faults' \in 0 .. MaxFaults
    BY <1>2, FaultsCounted
  <1>5. disk' \in [Numbers -> Contents] /\ disk'[0] \in Tables
    <2>1. [disk[0] EXCEPT !.rows = packed] \in Tables
      BY <1>1, Typed DEF Tables
    <2>2. [disk[0] EXCEPT !.rows = packed] \in Contents
      BY <2>1, ContentsFacts
    <2>3. disk' = disk \/ disk' = [disk EXCEPT ![0] = [disk[0] EXCEPT !.rows = packed]]
      BY <1>2
    <2> QED
      BY <2>1, <2>2, <2>3, Typed
  <1> QED
    BY <1>3, <1>4, <1>5, EndKeeps, Typed

LEMMA ActivateKeeps == ASSUME Inv, Activate PROVE Inv'
  <1> DEFINE rows == [i \in 1 .. 4 |-> [mem.rows[i] EXCEPT !.active = (i = cmd.row)]]
  <1>1. at = "command" /\ WriteMbr(rows)
    BY DEF Activate, Does
  <1>2. ASSUME NEW i \in 1 .. 4 PROVE rows[i] \in PartLong
    <2>1. mem.rows[i] \in PartLong
      BY <1>1, RowRead
    <2>2. CASE i = cmd.row
      <3>1. rows[i] = [mem.rows[i] EXCEPT !.active = TRUE]
        BY <2>2
      <3> HIDE DEF rows
      <3> QED
        BY <2>1, <3>1 DEF PartLong
    <2>3. CASE i # cmd.row
      <3>1. (i = cmd.row) = FALSE
        BY <2>3
      <3>2. rows[i] = [mem.rows[i] EXCEPT !.active = FALSE]
        BY <3>1
      <3> HIDE DEF rows
      <3> QED
        BY <2>1, <3>2 DEF PartLong
    <2> QED
      BY <2>2, <2>3
  <1> HIDE DEF rows
  <1> QED
    BY <1>1, <1>2, WriteMbrKeeps

LEMMA HideKeeps == ASSUME Inv, Hide PROVE Inv'
  <1> DEFINE t == Toggled(TheRow.type)
             rows == [mem.rows EXCEPT ![cmd.row].type = t]
  <1>1. at = "command"
    BY DEF Hide, Does
  <1>2. CASE /\ TheRow.type \in DOMAIN Hides \cup {Hides[x] : x \in DOMAIN Hides}
             /\ WriteMbr([mem.rows EXCEPT ![cmd.row].type = Toggled(@)])
    <2>1. WriteMbr(rows)
      BY <1>2 DEF TheRow
    <2>2. t \in RowTypes
      <3>1. DOMAIN Hides \subseteq RowTypes /\ \A x \in DOMAIN Hides : Hides[x] \in RowTypes
        BY CommandConstants
      <3>2. CASE TheRow.type \in DOMAIN Hides
        BY <3>1, <3>2 DEF Toggled
      <3>3. CASE TheRow.type \notin DOMAIN Hides
        <4>1. \E x \in DOMAIN Hides : Hides[x] = TheRow.type
          BY <1>2, <3>3
        <4>2. t = CHOOSE x \in DOMAIN Hides : Hides[x] = TheRow.type
          BY <3>3 DEF Toggled
        <4>3. t \in DOMAIN Hides
          BY <4>1, <4>2
        <4> QED
          BY <3>1, <4>3
      <3> QED
        BY <3>2, <3>3
    <2> HIDE DEF t
    <2>3. ASSUME NEW i \in 1 .. 4 PROVE rows[i] \in PartLong
      <3>1. mem.rows[i] \in PartLong /\ cmd.row \in 1 .. 4
        BY <1>1, RowRead, Typed
      <3>2. i \in DOMAIN mem.rows
        <4>1. Len(mem.rows) >= 4 /\ mem.rows \in Seq(PartLong)
          BY <1>1, Typed DEF Inv, RowsReady
        <4> QED
          BY <4>1
      <3>3. rows[i] = mem.rows[i] \/ rows[i] = [mem.rows[i] EXCEPT !.type = t]
        BY <3>2
      <3> HIDE DEF rows
      <3> QED
        BY <2>2, <3>1, <3>3 DEF PartLong
    <2> HIDE DEF rows
    <2> QED
      BY <1>1, <2>1, <2>3, WriteMbrKeeps
  <1>3. CASE Refuse("cannot be hidden")
    BY <1>1, <1>3, RefuseKeeps
  <1> QED
    BY <1>2, <1>3 DEF Hide

LEMMA FormatRowKeeps ==
  ASSUME Inv, at = "command", NEW content \in Contents, NEW may \in BOOLEAN,
         Start(mem.g, TheRow) # 0, FormatRow(content, may)
  PROVE  Inv'
  <1>1. PICK ok \in BOOLEAN, wrote \in BOOLEAN :
          /\ ok \/ may \/ FALSE \in MayFail
          /\ Counted(ok \/ may)
          /\ disk' = IF wrote THEN [disk EXCEPT ![Start(mem.g, TheRow)] = content]
                     ELSE disk
          /\ Ends(IF ok THEN "formatted" ELSE "not formatted")
    BY DEF FormatRow
  <1>2. at' = "idle" /\ result' # "swept"
        /\ UNCHANGED <<drive, file, cmd, mem, sweep, pending, runs>>
    BY <1>1 DEF Ends
  <1>3. faults' \in 0 .. MaxFaults
    <2>1. faults \in 0 .. MaxFaults /\ MaxFaults \in Nat
      BY Typed, CommandConstants
    <2>2. CASE ok \/ may
      <3>1. faults' = faults
        BY <1>1, <2>2, Zenon DEF Counted
      <3> QED
        BY <2>1, <3>1
    <2>3. CASE ~(ok \/ may)
      <3>1. FALSE \in MayFail
        BY <1>1, <2>3
      <3>2. faults < MaxFaults
        BY <3>1 DEF MayFail
      <3>3. faults' = faults + 1
        BY <1>1, <2>3, Zenon DEF Counted
      <3> QED
        BY <2>1, <3>2, <3>3
    <2> QED
      BY <2>2, <2>3
  <1>4. Start(mem.g, TheRow) \in Numbers
    BY RowRead
  <1>5. disk' \in [Numbers -> Contents] /\ disk'[0] \in Tables
    BY <1>1, <1>4, Typed
  <1> QED
    BY <1>2, <1>3, <1>5, EndKeeps, Typed

LEMMA FormatKeeps == ASSUME Inv, Format PROVE Inv'
  <1>1. at = "command" /\ Whole(mem.rows) /\ ~IsEmpty(TheRow)
    BY DEF Format, Does, Checked
  <1>2. Start(mem.g, TheRow) # 0
    BY <1>1, RowRead
  <1>3. TableOf(FALSE, 0, NoTable) \in Contents /\ Boot \in Contents
    BY Typed, NoEntryType, TableOfType, ContentsFacts
  <1>4. \/ FormatRow(TableOf(FALSE, 0, NoTable), FALSE) \/ FormatRow(Boot, TRUE)
        \/ Refuse("no access") \/ Refuse("cannot be formatted")
    BY DEF Format
  <1>5. CASE FormatRow(TableOf(FALSE, 0, NoTable), FALSE)
    BY <1>1, <1>2, <1>3, <1>5, FormatRowKeeps
  <1>6. CASE FormatRow(Boot, TRUE)
    BY <1>1, <1>2, <1>3, <1>6, FormatRowKeeps
  <1> QED
    BY <1>1, <1>4, <1>5, <1>6, RefuseKeeps
-------------------------------------------------------------------------------
(* Verify and erase.                                                       *)
LEMMA BeginSweepKeeps ==
  ASSUME Inv, at = "command", TheRow.valid, ~IsEmpty(TheRow), BeginSweep(TheRow)
  PROVE  Inv'
  <1> DEFINE first == Start(mem.g, TheRow)
             num == TheRow.num
             end == Wrap(first + num - 1)
             size == mem.g.sects - (first % mem.g.sects)
  <1>1. first \in Numbers /\ first # 0 /\ num \in Numbers
    BY RowRead DEF PartLong
  <1>2. Modulus \in Nat \ {0} /\ MaxSect \in Nat /\ MaxSect < Modulus
    BY Bounds
  <1>3. size \in Numbers /\ size > 0
    <2>1. mem.g.sects \in 1 .. MaxSect
      BY Typed DEF Geometry
    <2>2. mem.g.sects \in Nat \ {0} /\ first \in Nat
      BY <1>1, <1>2, <2>1 DEF Numbers
    <2>3. first % mem.g.sects \in 0 .. mem.g.sects - 1
      BY <2>2, DivMod
    <2> QED
      BY <1>2, <2>1, <2>3 DEF Numbers
  <1>4. first + num - 1 \in Int /\ first + num - 1 < 2 * Modulus
        /\ first + num - 1 >= 0
    BY <1>1, <1>2 DEF Numbers
  <1>5. end \in Numbers
    BY <1>4, WrapFacts
  <1>6. first + num <= Modulus => end = first + num - 1
    <2> HIDE DEF first, num
    <2>1. first + num <= Modulus => first + num - 1 \in Numbers
      BY <1>1, <1>2, <1>4 DEF Numbers
    <2> QED
      BY <1>4, <2>1, WrapFacts
  <1>7. first + num > Modulus => end = first + num - 1 - Modulus
    BY <1>1, <1>2, <1>4, WrapFacts DEF Numbers
  <1>8. /\ sweep' = [sect |-> first, end |-> end, size |-> size]
        /\ at' = "sweep"
        /\ UNCHANGED <<drive, disk, file, cmd, mem, pending, seen, result, runs, faults>>
    BY DEF BeginSweep
  <1>9. seen = {} /\ result # "swept" /\ Len(mem.rows) >= 4
    BY DEF Inv, RowsReady
  <1>10. Start(mem'.g, TheRow') = first /\ TheRow'.num = num
    BY <1>8 DEF TheRow
  <1> HIDE DEF first, num, end, size
  <1>11. sweep' \in [sect : Numbers, size : Numbers, end : Numbers]
    BY <1>1, <1>3, <1>5, <1>8
  <1>12. TypeOK'
    BY <1>8, <1>11 DEF Inv, TypeOK
  <1>13. GeometryReady' /\ RowsReady'
    BY <1>8, <1>9, Ready DEF GeometryReady, RowsReady
  <1>14. sweep'.sect = first /\ sweep'.end = end /\ sweep'.size = size
    BY <1>8
  <1>15. first > 0 /\ first \in Int /\ num \in Int /\ num >= 0 /\ num < Modulus
    BY <1>1, <1>2 DEF Numbers
  <1>16. SweepReady'
    <2>1. first + num > Modulus => first > end
      BY <1>2, <1>7, <1>15
    <2>2. first + num <= Modulus =>
            /\ end = first + num - 1 /\ first \in first .. first + num
            /\ {} = first .. first - 1
      BY <1>6, <1>15
    <2>3. seen' = {} /\ result' # "swept"
      BY <1>8, <1>9
    <2> QED
      BY <1>3, <1>10, <1>14, <1>15, <2>1, <2>2, <2>3 DEF SweepReady
  <1> QED
    BY <1>12, <1>13, <1>16 DEF Inv

LEMMA VerifyKeeps == ASSUME Inv, Verify PROVE Inv'
  <1>1. at = "command" /\ Whole(mem.rows) /\ ~IsEmpty(TheRow) /\ BeginSweep(TheRow)
    BY DEF Verify, Does, Checked
  <1> QED
    BY <1>1, RowRead, BeginSweepKeeps

LEMMA EraseKeeps == ASSUME Inv, Erase PROVE Inv'
  <1>1. at = "command" /\ ~IsEmpty(TheRow)
        /\ ((TheRow.valid /\ BeginSweep(TheRow)) \/ Refuse("fix the table first"))
    BY DEF Erase, Does
  <1> QED
    BY <1>1, RefuseKeeps, BeginSweepKeeps

(* A block that passes is in its row, below the last sector number, and    *)
(* has no bad sector.                                                      *)
LEMMA BlockFacts ==
  ASSUME Inv, at = "sweep", sweep.sect <= sweep.end, BlockPasses
  PROVE  /\ Block \in Nat \ {0}
         /\ sweep.sect + Block <= sweep.end + 1 /\ sweep.sect + Block \in Numbers
         /\ BlockArea \cap drive.bad = {}
         /\ BlockArea = sweep.sect .. sweep.sect + Block - 1
  <1>1. /\ sweep.sect \in Numbers /\ sweep.size \in Numbers /\ sweep.end \in Numbers
        /\ sweep.sect > 0 /\ sweep.size > 0 /\ Modulus \in Nat \ {0}
    BY Typed, Bounds DEF Inv, SweepReady
  <1>2. sweep.end - sweep.sect + 1 \in Numbers /\ sweep.end - sweep.sect + 1 > 0
        /\ sweep.end - sweep.sect + 1 \in Int
    BY <1>1 DEF Numbers
  <1>3. Wrap(sweep.end - sweep.sect + 1) = sweep.end - sweep.sect + 1
    BY <1>2, WrapFacts
  <1>4. Block \in {sweep.end - sweep.sect + 1, sweep.size}
        /\ Block <= sweep.end - sweep.sect + 1
    BY <1>1, <1>2, <1>3 DEF Block, Numbers
  <1>5. Block \in Nat \ {0} /\ sweep.sect + Block <= sweep.end + 1
    BY <1>1, <1>2, <1>4 DEF Numbers
  <1>6. BlockArea = sweep.sect .. sweep.sect + Block - 1
    BY DEF BlockArea
  <1>7. CASE Passes(sweep.sect, Block)
    <2>1. sweep.sect + Block < Modulus
          /\ \A x \in sweep.sect .. sweep.sect + Block - 1 : x \notin drive.bad
      BY <1>7 DEF Passes
    <2>2. sweep.sect + Block \in Numbers
      BY <1>1, <1>5, <2>1 DEF Numbers
    <2> QED
      BY <1>5, <1>6, <2>1, <2>2
  <1>8. CASE \A s \in sweep.sect .. sweep.end : Passes(s, 1)
    <2>1. ASSUME NEW s \in sweep.sect .. sweep.end
          PROVE  s + 1 < Modulus /\ s \notin drive.bad
      <3>1. Passes(s, 1)
        BY <1>8
      <3>2. s \in s .. s + 1 - 1
        BY <1>1 DEF Numbers
      <3> QED
        BY <3>1, <3>2 DEF Passes
    <2>2. sweep.end \in sweep.sect .. sweep.end
      BY <1>1 DEF Numbers
    <2>3. sweep.end + 1 < Modulus
      BY <2>1, <2>2
    <2>4. sweep.sect + Block \in Numbers
      BY <1>1, <1>5, <2>3 DEF Numbers
    <2>5. BlockArea \subseteq sweep.sect .. sweep.end
      BY <1>1, <1>5, <1>6 DEF Numbers
    <2> QED
      BY <1>5, <1>6, <2>1, <2>4, <2>5
  <1> QED
    BY <1>7, <1>8 DEF BlockPasses

LEMMA SweepOnKeeps == ASSUME Inv, SweepOn PROVE Inv'
  <1> DEFINE first == Start(mem.g, TheRow)
             past == first + TheRow.num
             next == sweep.sect + Block
  <1>1. at = "sweep" /\ sweep.sect <= sweep.end /\ BlockPasses /\ BlockDone
    BY DEF SweepOn
  <1>2. /\ Block \in Nat \ {0} /\ next <= sweep.end + 1 /\ next \in Numbers
        /\ BlockArea \cap drive.bad = {}
        /\ BlockArea = sweep.sect .. next - 1
    <2>1. /\ Block \in Nat \ {0}
          /\ sweep.sect + Block <= sweep.end + 1 /\ sweep.sect + Block \in Numbers
          /\ BlockArea \cap drive.bad = {}
          /\ BlockArea = sweep.sect .. sweep.sect + Block - 1
      BY <1>1, BlockFacts, Zenon
    <2>2. sweep.sect \in Int
      BY Typed, Bounds DEF Numbers
    <2>3. sweep.sect + Block - 1 = next - 1
      BY <2>1, <2>2
    <2> QED
      BY <2>1, <2>3, Zenon
  <1>3. /\ sweep.sect \in Numbers /\ sweep.size \in Numbers /\ sweep.end \in Numbers
        /\ sweep.sect > 0 /\ Modulus \in Nat \ {0}
    BY <1>1, Typed, Bounds DEF Inv, SweepReady
  <1>4. /\ seen' = seen \cup BlockArea
        /\ disk' \in {disk, [s \in Numbers |-> IF s \in BlockArea THEN Blank ELSE disk[s]]}
    BY <1>1 DEF BlockDone
  <1>5. 0 \notin BlockArea
    BY <1>2, <1>3 DEF Numbers
  <1>6. disk' \in [Numbers -> Contents] /\ disk'[0] \in Tables
    <2> HIDE DEF next
    <2> QED
      BY <1>4, <1>5, Typed, ContentsFacts
  <1>7. CASE Ends("canceled") /\ UNCHANGED faults
    <2>1. at' = "idle" /\ result' # "swept" /\ UNCHANGED faults
          /\ UNCHANGED <<drive, file, cmd, mem, sweep, pending, runs>>
      BY <1>7 DEF Ends
    <2> QED
      BY <1>1, <1>6, <2>1, EndKeeps, Typed
  <1>8. CASE /\ sweep' = [sweep EXCEPT !.sect = Wrap(@ + Block), !.size = mem.g.sects]
             /\ UNCHANGED <<drive, file, cmd, at, mem, pending, result, runs, faults>>
    <2>1. Wrap(next) = next
      <3>1. next \in Int
        BY <1>2, Bounds DEF Numbers
      <3> QED
        BY <1>2, <3>1, WrapFacts
    <2>2. mem.g.sects \in Numbers /\ mem.g.sects > 0
      <3>1. mem.g.sects \in 1 .. MaxSect
        BY Typed DEF Geometry
      <3> QED
        BY <3>1, Bounds DEF Numbers
    <2>3. sweep' = [sweep EXCEPT !.sect = next, !.size = mem.g.sects]
      BY <1>8, <2>1
    <2>4. sweep \in [sect : Numbers, size : Numbers, end : Numbers]
      BY DEF Inv, TypeOK
    <2>5. /\ sweep' \in [sect : Numbers, size : Numbers, end : Numbers]
          /\ sweep'.sect = next /\ sweep'.size = mem.g.sects /\ sweep'.end = sweep.end
      <3> HIDE DEF next
      <3> QED
        BY <1>2, <2>2, <2>3, <2>4
    <2>6. TypeOK'
      BY <1>6, <1>8, <2>5 DEF Inv, TypeOK
    <2>7. GeometryReady' /\ RowsReady'
      BY <1>1, <1>8 DEF Inv, GeometryReady, RowsReady
    <2>8. Start(mem'.g, TheRow') = first /\ TheRow'.num = TheRow.num
      BY <1>8 DEF TheRow
    <2>9. result' # "swept"
      BY <1>1, <1>8 DEF Inv, RowsReady
    <2>10. /\ past > Modulus => sweep.sect > sweep.end
           /\ past <= Modulus =>
                /\ sweep.end = past - 1 /\ sweep.sect \in first .. past
                /\ seen = first .. sweep.sect - 1 /\ seen \cap drive.bad = {}
      BY <1>1 DEF Inv, SweepReady
    <2>11. first \in Numbers /\ TheRow.num \in Numbers
      <3>1. TheRow \in PartLong
        <4>1. mem.rows \in Seq(PartLong) /\ Len(mem.rows) >= 4 /\ cmd.row \in 1 .. 4
          BY <1>1, Typed DEF Inv, RowsReady
        <4> QED
          BY <4>1 DEF TheRow
      <3> QED
        BY <1>1, <3>1, Ready, RowsAreParents, StartType DEF PartLong
    <2>12. past \in Int /\ first \in Int /\ next \in Int /\ sweep.sect \in Int
           /\ sweep.end \in Int
      BY <1>2, <1>3, <2>11, Bounds DEF Numbers
    <2> HIDE DEF first, past
    <2>13. ASSUME past <= Modulus
           PROVE  /\ sweep.end = past - 1 /\ next \in first .. past
                  /\ seen' = first .. next - 1 /\ seen' \cap drive.bad = {}
      <3>1. sweep.end = past - 1 /\ sweep.sect \in first .. past
        BY <2>10, <2>13
      <3>2. next \in first .. past /\ next > sweep.sect
        BY <1>2, <1>3, <2>12, <3>1
      <3>3. seen' = (first .. sweep.sect - 1) \cup (sweep.sect .. next - 1)
        BY <1>2, <1>4, <2>10, <2>13
      <3>4. (first .. sweep.sect - 1) \cup (sweep.sect .. next - 1) = first .. next - 1
        <4> HIDE DEF next
        <4> QED
          BY <2>12, <3>1, <3>2
      <3>5. seen' \cap drive.bad = {}
        BY <1>2, <1>4, <2>10, <2>13
      <3> QED
        BY <3>1, <3>2, <3>3, <3>4, <3>5
    <2>14. past <= Modulus
      BY <1>1, <1>3, <2>10, <2>12
    <2>15. next > 0
      BY <1>2, <1>3, <2>12
    <2>16. SweepReady'
      <3> HIDE DEF next
      <3>1. first + TheRow.num = past
        BY DEF past
      <3>2. drive' = drive /\ TheRow'.num = TheRow.num /\ Start(mem'.g, TheRow') = first
        BY <1>8, <2>8
      <3> QED
        BY <2>2, <2>5, <2>9, <2>13, <2>14, <2>15, <3>1, <3>2, <2>12, Bounds DEF SweepReady
    <2> QED
      BY <2>6, <2>7, <2>16 DEF Inv
  <1> QED
    BY <1>7, <1>8 DEF SweepOn
LEMMA SweepFailsKeeps == ASSUME Inv, SweepFails PROVE Inv'
  <1>1. /\ at = "sweep" /\ at' = "idle" /\ result' # "swept"
        /\ UNCHANGED <<drive, disk, file, cmd, mem, sweep, pending, runs>>
        /\ (faults' = faults \/ (FALSE \in MayFail /\ Counted(FALSE)))
    BY DEF SweepFails, Ends
  <1>2. faults' \in 0 .. MaxFaults
    BY <1>1, FaultsCounted, Typed
  <1> QED
    BY <1>1, <1>2, EndKeeps, Typed

LEMMA SweepEndsKeeps == ASSUME Inv, SweepEnds PROVE Inv'
  <1> DEFINE first == Start(mem.g, TheRow)
             past == first + TheRow.num
  <1>1. /\ at = "sweep" /\ sweep.sect > sweep.end /\ at' = "idle" /\ result' = "swept"
        /\ UNCHANGED <<drive, file, cmd, mem, sweep, pending, runs, disk, seen, faults>>
    BY DEF SweepEnds, Refuse, Ends
  <1>2. TypeOK'
    BY <1>1 DEF Inv, TypeOK
  <1>3. GeometryReady' /\ RowsReady'
    <2>1. Len(mem.rows) >= 4
      BY <1>1 DEF Inv, RowsReady
    <2> QED
      BY <1>1, <2>1, Ready DEF GeometryReady, RowsReady
  <1>4. first \in Int /\ past \in Int /\ sweep.sect \in Int
    <2>1. mem.rows \in Seq(PartLong) /\ Len(mem.rows) >= 4 /\ cmd.row \in 1 .. 4
      BY <1>1, Typed DEF Inv, RowsReady
    <2>2. TheRow \in PartLong
      BY <2>1 DEF TheRow
    <2>3. first \in Numbers /\ TheRow.num \in Numbers
      BY <1>1, <2>2, Ready, RowsAreParents, StartType DEF PartLong
    <2> HIDE DEF first
    <2> QED
      BY <2>3, Typed, Bounds DEF Numbers
  <1>5. past <= Modulus =>
          /\ sweep.end = past - 1 /\ sweep.sect \in first .. past
          /\ seen = first .. sweep.sect - 1 /\ seen \cap drive.bad = {}
    BY <1>1 DEF Inv, SweepReady
  <1>6. Start(mem'.g, TheRow') + TheRow'.num = past /\ Start(mem'.g, TheRow') = first
        /\ drive' = drive /\ seen' = seen
    BY <1>1 DEF TheRow
  <1> HIDE DEF first, past
  <1>7. past <= Modulus => seen = first .. past - 1 /\ seen \cap drive.bad = {}
    <2> SUFFICES ASSUME past <= Modulus
                 PROVE  seen = first .. past - 1 /\ seen \cap drive.bad = {}
      OBVIOUS
    <2>1. sweep.sect = past
      BY <1>1, <1>4, <1>5
    <2> QED
      BY <1>5, <2>1
  <1>8. SweepReady'
    BY <1>1, <1>6, <1>7 DEF SweepReady
  <1> QED
    BY <1>2, <1>3, <1>8 DEF Inv

-------------------------------------------------------------------------------
(* The first row of the manager.                                           *)
LEMMA ManagerRowIs ==
  ASSUME NEW d \in AdvData, ManagerRow(d) # 0
  PROVE  ManagerRow(d) \in 1 .. NumRows /\ d.rows[ManagerRow(d)].type = Manager
  <1> DEFINE r == d.rows
             I == {i \in 1 .. Len(r) : r[i].type = Advanced!Manager}
  <1>1. NumRows \in Nat
    BY CommandConstants
  <1>2. r \in [1 .. NumRows -> AdvEntry]
    BY ContentsFacts
  <1>3. ManagerRow(d) = IF I # {} THEN Min(I) ELSE 0
    BY DEF ManagerRow, Advanced!ManagerRow, Advanced!SelectInSeq, Min, Advanced!Min
  <1> HIDE DEF r
  <1>4. Len(r) = NumRows
    BY <1>1, <1>2
  <1>5. I # {} /\ ManagerRow(d) = Min(I)
    BY <1>3
  <1>6. ManagerRow(d) \in I
    <2>1. I \subseteq Nat
      BY <1>1, <1>4
    <2> HIDE DEF I
    <2>2. \E x \in I : \A y \in I : x <= y
      BY <1>5, <2>1, LeastExists
    <2> QED
      BY <1>5, <2>2 DEF Min
  <1> QED
    BY <1>4, <1>6 DEF r, Manager, Advanced!Manager

(* The manager's row of a valid table is behind the first sector.          *)
LEMMA ManagerPlace ==
  ASSUME Inv, at = "load", NEW d \in AdvData, HasManager(d),
         Whole(AdvancedIn(mem.g, d.rows))
  PROVE  d.rows[ManagerRow(d)].rel \in Numbers /\ d.rows[ManagerRow(d)].rel # 0
  <1> DEFINE k == ManagerRow(d)
             rows == AdvancedIn(mem.g, d.rows)
  <1>1. NumRows \in Nat /\ AdvSize \in Nat \ {0}
    BY CommandConstants
  <1>2. d.rows \in [1 .. NumRows -> AdvEntry]
    BY ContentsFacts
  <1>3. k # 0 /\ d.rows[k].num >= AdvSize
    BY DEF HasManager
  <1>4. k \in 1 .. NumRows
    BY <1>3, ManagerRowIs
  <1> HIDE DEF k
  <1>5. d.rows[k] \in AdvEntry
    BY <1>2, <1>4
  <1>6. Sound(mem.g)
    BY Ready
  <1>7. /\ rows \in Seq(PartLong) /\ Len(rows) = NumRows
        /\ Named(mem.g, rows[k], 0) /\ rows[k].rel = d.rows[k].rel
        /\ rows[k].num = d.rows[k].num
        /\ rows[k].in = AsContainer(mem.g, WholeDisk(mem.g))
        /\ rows[k].valid /\ ~IsEmpty(rows[k]) =>
             Consistent(mem.g, rows[k]) /\ InRange(mem.g, rows[k])
    BY <1>2, <1>4, <1>6, AdvancedInType
  <1>8. Whole(rows)
    OBVIOUS
  <1> HIDE DEF rows
  <1>9. k \in DOMAIN rows /\ rows[k] \in PartLong
    <2>1. rows \in Seq(PartLong) /\ Len(rows) = NumRows
      BY <1>7
    <2> QED
      BY <1>4, <2>1
  <1>10. d.rows[k].num \in Numbers /\ d.rows[k].rel \in Numbers
    BY <1>5 DEF AdvEntry
  <1>11. rows[k].num # 0
    BY <1>1, <1>3, <1>7
  <1>12. ~IsEmpty(rows[k])
    BY <1>11 DEF IsEmpty, Unplaced
  <1>13. rows[k].valid
    BY <1>8, <1>9, <1>12 DEF Whole
  <1>14. Start(mem.g, rows[k]) # 0
    BY <1>6, <1>7, <1>9, <1>12, <1>13, NotAtZero
  <1>15. rows[k].in.start = 0
    BY <1>6, <1>7, WholeDiskType
  <1>16. Start(mem.g, rows[k]) = Wrap(0 + rows[k].rel)
    BY <1>13, <1>15 DEF Start, ByNumbers
  <1>17. d.rows[k].rel \in Int
    BY <1>10, Bounds DEF Numbers
  <1>18. Wrap(0 + rows[k].rel) = rows[k].rel
    <2>1. 0 + rows[k].rel = rows[k].rel
      BY <1>7, <1>17
    <2> QED
      BY <1>7, <1>10, <1>17, <2>1, WrapFacts
  <1>19. d.rows[k].rel # 0
    BY <1>7, <1>14, <1>16, <1>18
  <1> QED
    BY <1>10, <1>19 DEF k

LEMMA LoadAdvancedKeeps ==
  ASSUME Inv, at = "load", NEW d \in AdvData, LoadAdvanced(d)
  PROVE  Inv'
  <1> DEFINE place == d.rows[ManagerRow(d)].rel
             manager == place + 1 .. place + AdvSize - 1
             Written(k) ==
               [s \in Numbers |->
                  IF k = 3 /\ s = 0 THEN TableOf(TRUE, place, AllHidden(mem.g))
                  ELSE IF k >= 2 /\ s \in manager THEN Code
                  ELSE IF k >= 1 /\ s = place THEN Compacted(d) ELSE disk[s]]
             passes == <<Passes(place, 1), Passes(place + 1, AdvSize - 1), Passes(0, 1)>>
             bad == {j \in 1 .. 3 : ~passes[j]}
  <1>1. CASE \E r \in {"fix the table first", "no manager"} : Refuse(r)
    BY <1>1, RefuseKeeps
  <1>2. CASE /\ HasManager(d) /\ Whole(AdvancedIn(mem.g, d.rows))
             /\ \E k \in 0 .. 3 :
                  /\ k = 3 \/ k + 1 \in bad \/ FALSE \in MayFail
                  /\ Counted(k = 3 \/ k + 1 \in bad)
                  /\ disk' = Written(k)
                  /\ Ends(IF k = 3 THEN "loaded" ELSE "not written")
    <2>1. place \in Numbers /\ place # 0
      BY <1>2, ManagerPlace
    <2> HIDE DEF bad
    <2>2. PICK k \in 0 .. 3 :
            /\ k = 3 \/ k + 1 \in bad \/ FALSE \in MayFail
            /\ Counted(k = 3 \/ k + 1 \in bad)
            /\ disk' = Written(k)
            /\ Ends(IF k = 3 THEN "loaded" ELSE "not written")
      BY <1>2
    <2> HIDE DEF place
    <2>3. at' = "idle" /\ result' # "swept"
          /\ UNCHANGED <<drive, file, cmd, mem, sweep, pending, runs>>
      BY <2>2 DEF Ends
    <2>4. faults' \in 0 .. MaxFaults
      <3>1. faults \in 0 .. MaxFaults /\ MaxFaults \in Nat
        BY Typed, CommandConstants
      <3>2. CASE k = 3 \/ k + 1 \in bad
        <4>1. faults' = faults
          BY <2>2, <3>2, Zenon DEF Counted
        <4> QED
          BY <3>1, <4>1
      <3>3. CASE ~(k = 3 \/ k + 1 \in bad)
        <4>1. FALSE \in MayFail
          BY <2>2, <3>3
        <4>2. faults < MaxFaults
          BY <4>1 DEF MayFail
        <4>3. faults' = faults + 1
          BY <2>2, <3>3, Zenon DEF Counted
        <4> QED
          BY <3>1, <4>2, <4>3
      <3> QED
        BY <3>2, <3>3
    <2>5. TableOf(TRUE, place, AllHidden(mem.g)) \in Tables
          /\ TableOf(TRUE, place, AllHidden(mem.g)) \in Contents
      BY <2>1, Ready, AllHiddenType, TableOfType, ContentsFacts
    <2>6. Compacted(d) \in Contents /\ Code \in Contents
      BY CompactedDataType, ContentsFacts
    <2>7. 0 \notin manager /\ 0 # place
      BY <2>1, Bounds DEF Numbers
    <2> HIDE DEF manager
    <2>8. disk' \in [Numbers -> Contents]
      BY <2>2, <2>5, <2>6, Typed
    <2>9. disk'[0] \in {TableOf(TRUE, place, AllHidden(mem.g)), disk[0]}
      BY <2>2, <2>7, Typed
    <2>10. disk'[0] \in Tables
      BY <2>5, <2>9, Typed
    <2> QED
      BY <2>3, <2>4, <2>8, <2>10, EndKeeps, Typed
  <1> QED
    BY <1>1, <1>2 DEF LoadAdvanced

LEMMA LoadKeeps == ASSUME Inv, Load PROVE Inv'
  <1>1. at = "load" /\ file \in Contents
    BY Typed DEF Load
  <1>2. CASE file.kind = "table" /\ LoadMbr
    <2>1. file \in Tables
      BY <1>1, <1>2, ContentsFacts
    <2>2. CASE \E r \in {"fix the table first", "no manager"} : Refuse(r)
      BY <1>1, <2>2, RefuseKeeps
    <2>3. CASE \E ok \in MayFail :
                 /\ Counted(ok)
                 /\ disk' = IF ok THEN [disk EXCEPT ![0] = file] ELSE disk
                 /\ Ends(IF ok THEN "loaded" ELSE "not written")
      <3>1. PICK ok \in MayFail :
              /\ Counted(ok)
              /\ disk' = IF ok THEN [disk EXCEPT ![0] = file] ELSE disk
              /\ Ends(IF ok THEN "loaded" ELSE "not written")
        BY <2>3
      <3>2. at' = "idle" /\ result' # "swept"
            /\ UNCHANGED <<drive, file, cmd, mem, sweep, pending, runs>>
        BY <3>1 DEF Ends
      <3>3. faults' \in 0 .. MaxFaults
        BY <3>1, FaultsCounted
      <3>4. disk' \in [Numbers -> Contents] /\ disk'[0] \in Tables
        BY <2>1, <3>1, Typed
      <3> QED
        BY <1>1, <3>2, <3>3, <3>4, EndKeeps, Typed
    <2> QED
      BY <1>2, <2>2, <2>3 DEF LoadMbr
  <1>3. CASE file.kind = "data" /\ LoadAdvanced(Converted(file))
    <2>1. Converted(file) \in AdvData
      BY <1>1, <1>3, ContentsFacts, ConvertedType
    <2> QED
      BY <1>1, <1>3, <2>1, LoadAdvancedKeeps
  <1>4. CASE Refuse("cannot be loaded")
    BY <1>1, <1>4, RefuseKeeps
  <1>5. \/ file.kind = "table" /\ LoadMbr
        \/ file.kind = "data" /\ LoadAdvanced(Converted(file))
        \/ Refuse("cannot be loaded")
    <2>1. CASE file.kind = "table"
      BY <2>1 DEF Load
    <2>2. CASE file.kind = "data" /\ file.version <= Version
      BY <2>2 DEF Load
    <2>3. CASE file.kind # "table" /\ ~(file.kind = "data" /\ file.version <= Version)
      BY <2>3 DEF Load
    <2> QED
      BY <2>1, <2>2, <2>3
  <1> QED
    BY <1>2, <1>3, <1>4, <1>5
-------------------------------------------------------------------------------
(* P and P -r.                                                             *)
LEMMA PrintTableKeeps == ASSUME Inv, PrintTable PROVE Inv'
  <1>1. /\ at = "command" /\ at' = "print"
        /\ UNCHANGED <<drive, disk, file, cmd, mem, sweep, pending, seen, result,
                       runs, faults>>
    BY DEF PrintTable, Does
  <1>2. TypeOK'
    BY <1>1 DEF Inv, TypeOK
  <1>3. GeometryReady' /\ SweepReady'
    BY <1>1, Ready DEF Inv, RowsReady, GeometryReady, SweepReady
  <1>4. /\ Len(mem.rows) >= 4 /\ result # "swept"
        /\ \A i \in DOMAIN mem.rows : mem.rows[i].level = 1
    BY <1>1 DEF Inv, RowsReady
  <1>5. 1 \in DOMAIN mem.rows
    BY <1>4, Typed
  <1>6. RowsReady'
    BY <1>1, <1>4, <1>5 DEF RowsReady
  <1> QED
    BY <1>2, <1>3, <1>6 DEF Inv

(* The table in a sector, if there is one.                                 *)
LEMMA EntriesType ==
  ASSUME Inv, NEW s \in Numbers
  PROVE  Entries(s) \in [1 .. 4 -> Entry]
  BY Typed, ContentsFacts, NoEntryType DEF Entries

LEMMA PrintLogicalKeeps == ASSUME Inv, PrintLogical PROVE Inv'
  <1> DEFINE I == {i \in 1 .. Len(mem.rows) : mem.rows[i].type = "Extended"}
             k == Link
             p == mem.rows[k]
             first == Start(mem.g, p)
             rows == TableIn(mem.g, Entries(first), Copied(p))
  <1>1. at = "print" /\ Sound(mem.g) /\ mem.rows \in Seq(PartLong)
        /\ Len(mem.rows) >= 4
    BY Typed, Ready DEF PrintLogical, Inv, RowsReady
  <1>2. CASE \E r \in {"too deep", "printed", "no table"} : Refuse(r)
    BY <1>1, <1>2, RefuseKeeps
  <1>3. CASE /\ ~(mem.rows[1].level - 1 > MaxTables) /\ k # 0
             /\ mem' = [mem EXCEPT !.rows = rows]
             /\ UNCHANGED <<drive, disk, file, cmd, at, sweep, pending, result,
                            runs, faults>>
    <2>1. k = IF I # {} THEN Min(I) ELSE 0
      BY DEF Link, SelectInSeq
    <2>2. I # {} /\ k = Min(I) /\ I \subseteq DOMAIN mem.rows /\ I \subseteq Nat
      BY <1>1, <1>3, <2>1
    <2> HIDE DEF I, k
    <2>3. k \in DOMAIN mem.rows
      <3>1. \E x \in I : \A y \in I : x <= y
        BY <2>2, LeastExists
      <3> QED
        BY <2>2, <3>1 DEF Min
    <2>4. p \in PartLong /\ p \in Parent
      BY <1>1, <2>3, RowsAreParents
    <2>5. first \in Numbers /\ AsContainer(mem.g, p) \in Container
      BY <1>1, <2>4, StartType
    <2>6. Entries(first) \in [1 .. 4 -> Entry]
      BY <2>5, EntriesType
    <2> HIDE DEF p
    <2>7. Copied(p) \in Parent /\ Copied(p).level = p.level
      <3> DEFINE c == AsContainer(mem.g, p)
      <3>1. Copied(p) = p \/ Copied(p) = [p EXCEPT !.in = c]
        BY DEF Copied
      <3>2. c \in Container
        BY <2>5
      <3> HIDE DEF c
      <3>3. [p EXCEPT !.in = c] \in Parent /\ [p EXCEPT !.in = c].level = p.level
        BY <2>4, <3>2 DEF Parent
      <3> QED
        BY <2>4, <3>1, <3>3
    <2>8. /\ rows \in Seq(PartLong) /\ Len(rows) = 4
          /\ \A i \in 1 .. 4 : rows[i].level = p.level + 1
      BY <1>1, <2>6, <2>7, TableInType
    <2> HIDE DEF rows, first
    <2>9. mem' \in [g : Geometry, view : {"MBR", "ADV"}, image : Contents,
                    rows : Seq(PartLong)]
          /\ mem'.rows = rows /\ mem'.g = mem.g
      <3>1. mem \in [g : Geometry, view : {"MBR", "ADV"}, image : Contents,
                     rows : Seq(PartLong)]
        BY DEF Inv, TypeOK
      <3> QED
        BY <1>3, <2>8, <3>1
    <2>10. p.level = mem.rows[1].level /\ p.level \in Nat
      BY <1>1, <2>3, <2>4 DEF Inv, RowsReady, p, PartLong
    <2>11. p.level + 1 <= MaxTables + 2
      <3>1. MaxTables \in Nat
        BY CommandConstants
      <3> QED
        BY <1>3, <2>10, <3>1
    <2>12. DOMAIN rows = 1 .. 4
      BY <2>8
    <2>13. TypeOK'
      BY <1>3, <2>8, <2>9, <2>11, <2>12 DEF Inv, TypeOK
    <2>14. GeometryReady'
      BY <1>1, <1>3, <2>9 DEF GeometryReady
    <2>15. result # "swept"
      BY <1>1 DEF Inv, RowsReady
    <2>16. RowsReady'
      <3>1. \A i \in DOMAIN rows : rows[i].level = rows[1].level
        BY <2>8, <2>12
      <3>2. at' = "print" /\ result' # "swept" /\ Len(rows) >= 4
        BY <1>1, <1>3, <2>8, <2>15
      <3> QED
        BY <2>9, <3>1, <3>2 DEF RowsReady
    <2>17. SweepReady'
      BY <1>1, <1>3, <2>15 DEF SweepReady
    <2> QED
      BY <2>13, <2>14, <2>16, <2>17 DEF Inv
  <1> QED
    BY <1>2, <1>3 DEF PrintLogical

LEMMA PrintAllKeeps == ASSUME Inv, PrintAll PROVE Inv'
  <1>1. /\ at = "command" /\ at' = "nested" /\ pending' = mem.rows
        /\ result' \in {result, "errors shown"}
        /\ UNCHANGED <<drive, disk, file, cmd, mem, sweep, seen, runs, faults>>
    BY DEF PrintAll, Does, Showing
  <1>2. /\ result # "swept" /\ \A i \in DOMAIN mem.rows : mem.rows[i].level = 1
    BY <1>1 DEF Inv, RowsReady
  <1>3. MaxLevel \in Nat
    BY CommandConstants
  <1>4. TypeOK'
    <2>1. pending' \in Seq(PartLong)
          /\ \A i \in DOMAIN pending' : pending'[i].level <= MaxLevel + 1
      <3>1. mem.rows \in Seq(PartLong)
        BY Typed
      <3>2. 1 <= MaxLevel + 1
        BY <1>3
      <3>3. \A i \in DOMAIN mem.rows : mem.rows[i].level <= MaxLevel + 1
        BY <1>2, <3>2, Zenon
      <3> QED
        BY <1>1, <3>1, <3>3, Zenon
    <2> QED
      BY <1>1, <2>1 DEF Inv, TypeOK
  <1>5. GeometryReady' /\ RowsReady' /\ SweepReady'
    BY <1>1, <1>2, Ready DEF GeometryReady, RowsReady, SweepReady
  <1> QED
    BY <1>4, <1>5 DEF Inv

LEMMA PendingKeeps ==
  ASSUME Inv, at = "nested", at' = "nested", pending' \in Seq(PartLong),
         \A i \in DOMAIN pending' : pending'[i].level <= MaxLevel + 1,
         result' \in {result, "errors shown"},
         UNCHANGED <<drive, disk, file, cmd, mem, sweep, runs, faults>>
  PROVE  Inv'
  <1>1. result # "swept"
    BY DEF Inv, RowsReady
  <1>2. TypeOK'
    BY DEF Inv, TypeOK
  <1>3. GeometryReady' /\ RowsReady' /\ SweepReady'
    BY <1>1, Ready DEF GeometryReady, RowsReady, SweepReady
  <1> QED
    BY <1>2, <1>3 DEF Inv

LEMMA TailFacts ==
  ASSUME Inv, pending # << >>
  PROVE  /\ Tail(pending) \in Seq(PartLong) /\ Head(pending) \in PartLong
         /\ Head(pending).level <= MaxLevel + 1
         /\ \A i \in DOMAIN Tail(pending) : Tail(pending)[i].level <= MaxLevel + 1
  <1>1. pending \in Seq(PartLong)
        /\ \A i \in DOMAIN pending : pending[i].level <= MaxLevel + 1
    BY DEF Inv, TypeOK
  <1>2. /\ Tail(pending) \in Seq(PartLong) /\ Head(pending) = pending[1]
        /\ 1 \in DOMAIN pending /\ Head(pending) \in PartLong
    BY <1>1
  <1>3. ASSUME NEW i \in DOMAIN Tail(pending)
        PROVE  Tail(pending)[i].level <= MaxLevel + 1
    <2>1. i + 1 \in DOMAIN pending /\ Tail(pending)[i] = pending[i + 1]
      BY <1>1
    <2> QED
      BY <1>1, <2>1
  <1> QED
    BY <1>1, <1>2, <1>3

LEMMA PrintRowKeeps == ASSUME Inv, PrintRow PROVE Inv'
  BY TailFacts, PendingKeeps DEF PrintRow

LEMMA PrintNestedKeeps == ASSUME Inv, PrintNested PROVE Inv'
  <1> DEFINE p == Head(pending)
             rest == Tail(pending)
             first == Start(mem.g, p)
             rows == TableIn(mem.g, Entries(first), p)
  <1>1. at = "nested" /\ pending # << >> /\ Sound(mem.g)
    BY Ready DEF PrintNested
  <1>2. p \in PartLong /\ p \in Parent /\ p.level \in Nat
    BY <1>1, TailFacts, RowsAreParents DEF PartLong
  <1>3. rest \in Seq(PartLong) /\ \A i \in DOMAIN rest : rest[i].level <= MaxLevel + 1
    BY <1>1, TailFacts
  <1>4. first \in Numbers /\ Entries(first) \in [1 .. 4 -> Entry]
    BY <1>1, <1>2, StartType, EntriesType
  <1>5. /\ rows \in Seq(PartLong) /\ Len(rows) = 4
        /\ \A i \in 1 .. 4 : rows[i].level = p.level + 1
    BY <1>1, <1>2, <1>4, TableInType
  <1>6. \/ Refuse("too deep")
        \/ /\ pending' \in {Following(rows, rest), rest}
           /\ pending' = Following(rows, rest) => ~(p.level > MaxLevel) \/ pending' = rest
           /\ result' \in {result, "errors shown"}
           /\ UNCHANGED <<drive, disk, file, cmd, at, mem, sweep, runs, faults>>
    BY DEF PrintNested, Showing
  <1> HIDE DEF rows, rest, first, p
  <1>7. CASE Refuse("too deep")
    BY <1>1, <1>7, RefuseKeeps
  <1>8. CASE /\ pending' = rest /\ result' \in {result, "errors shown"}
             /\ UNCHANGED <<drive, disk, file, cmd, at, mem, sweep, runs, faults>>
    BY <1>1, <1>3, <1>8, PendingKeeps
  <1>9. CASE /\ pending' = rows \o rest /\ ~(p.level > MaxLevel)
             /\ result' \in {result, "errors shown"}
             /\ UNCHANGED <<drive, disk, file, cmd, at, mem, sweep, runs, faults>>
    <2>1. rows \o rest \in Seq(PartLong)
      BY <1>3, <1>5
    <2>2. p.level + 1 <= MaxLevel + 1
      <3>1. MaxLevel \in Nat
        BY CommandConstants
      <3>2. ~(p.level > MaxLevel)
        BY <1>9
      <3>3. \A m, n \in Nat : ~(m > n) => m + 1 <= n + 1
        OBVIOUS
      <3> QED
        BY <1>2, <3>1, <3>2, <3>3, Zenon
    <2>3. ASSUME NEW i \in DOMAIN (rows \o rest)
          PROVE  (rows \o rest)[i].level <= MaxLevel + 1
      <3>1. /\ DOMAIN (rows \o rest) = 1 .. Len(rows) + Len(rest)
            /\ Len(rows) \in Nat /\ Len(rest) \in Nat /\ DOMAIN rest = 1 .. Len(rest)
        <4>1. \A S : \A t, u \in Seq(S) :
                /\ DOMAIN (t \o u) = 1 .. Len(t) + Len(u)
                /\ Len(t) \in Nat /\ DOMAIN t = 1 .. Len(t)
          OBVIOUS
        <4> QED
          BY <1>3, <1>5, <4>1
      <3>2. CASE i <= 4
        <4>1. i \in 1 .. 4 /\ (rows \o rest)[i] = rows[i]
          BY <1>3, <1>5, <3>1, <3>2
        <4> QED
          BY <1>5, <2>2, <4>1
      <3>3. CASE i > 4
        <4>1. i - 4 \in DOMAIN rest /\ (rows \o rest)[i] = rest[i - 4]
          BY <1>3, <1>5, <3>1, <3>3
        <4> QED
          BY <1>3, <4>1
      <3> QED
        BY <3>1, <3>2, <3>3
    <2> QED
      BY <1>1, <1>9, <2>1, <2>3, PendingKeeps
  <1> QED
    BY <1>6, <1>7, <1>8, <1>9 DEF Following

LEMMA PrintEndsKeeps == ASSUME Inv, PrintEnds PROVE Inv'
  <1>1. at = "nested" /\ Refuse(IF result = "none" THEN "printed" ELSE result)
    BY DEF PrintEnds
  <1>2. result # "swept"
    BY <1>1 DEF Inv, RowsReady
  <1> DEFINE r == IF result = "none" THEN "printed" ELSE result
  <1>3. r # "swept" /\ Refuse(r)
    BY <1>1, <1>2
  <1> HIDE DEF r
  <1> QED
    BY <1>1, <1>3, RefuseKeeps

-------------------------------------------------------------------------------
LEMMA NextKeeps == Inv /\ [Next]_vars => Inv'
  <1> SUFFICES ASSUME Inv, [Next]_vars PROVE Inv'
    OBVIOUS
  <1>1. CASE \E c \in Asked : Issue(c)
    BY <1>1, IssueKeeps
  <1>2. CASE Running
    BY <1>2, QueryDiskKeeps, TrySizeKeeps, ReadTableKeeps, RefusalsKeep, SaveKeeps,
       ActivateKeeps, HideKeeps, FormatKeeps, LoadKeeps, VerifyKeeps, EraseKeeps,
       SweepOnKeeps, SweepFailsKeeps, SweepEndsKeeps, PrintTableKeeps,
       PrintLogicalKeeps, PrintAllKeeps, PrintRowKeeps, PrintNestedKeeps,
       PrintEndsKeeps
    DEF Running
  <1>3. CASE UNCHANGED vars
    BY <1>3 DEF vars, Inv, TypeOK, GeometryReady, RowsReady, SweepReady, TheRow
  <1> QED
    BY <1>1, <1>2, <1>3 DEF Next

LEMMA Invariant == Spec => []Inv
  BY InitReady, NextKeeps, PTL DEF Spec

(* The numbers, rows and addresses that a command works with are such as   *)
(* the code can hold, whatever the sectors say: the MBR stays a table, and *)
(* no chain of tables is followed deeper than the limits of the code.      *)
THEOREM CommandTypeOK == Spec => []TypeOK
  <1>1. Inv => TypeOK
    BY DEF Inv
  <1> QED
    BY <1>1, Invariant, PTL

(* generic_verify and generic_clean see no sector but those of their row,  *)
(* and a sweep that ends has seen all of them, none of which is bad.       *)
THEOREM SweepsTheirRow == Spec => []SweptAll
  <1>1. Inv => SweptAll
    <2> DEFINE first == Start(mem.g, TheRow)
               num == TheRow.num
               past == first + num
    <2> SUFFICES ASSUME Inv, at = "sweep" \/ result = "swept", RowArea \subseteq Numbers
                 PROVE  /\ seen \subseteq RowArea
                        /\ result = "swept" => seen = RowArea /\ seen \cap drive.bad = {}
      BY DEF SweptAll
    <2>1. first \in Numbers /\ num \in Numbers
      <3>1. mem.rows \in Seq(PartLong) /\ Len(mem.rows) >= 4 /\ cmd.row \in 1 .. 4
        BY Typed DEF Inv, RowsReady
      <3>2. TheRow \in PartLong
        BY <3>1 DEF TheRow
      <3>3. at # "sizes"
        BY DEF Inv, RowsReady
      <3> QED
        BY <3>2, <3>3, Ready, RowsAreParents, StartType DEF PartLong
    <2>2. /\ at = "sweep" =>
               /\ past > Modulus => sweep.sect > sweep.end
               /\ past <= Modulus =>
                    /\ sweep.sect \in first .. past
                    /\ seen = first .. sweep.sect - 1
          /\ result = "swept" /\ past <= Modulus =>
               seen = first .. past - 1 /\ seen \cap drive.bad = {}
          /\ at = "sweep" => result # "swept"
      BY DEF Inv, RowsReady, SweepReady
    <2> HIDE DEF first, num
    <2>3. RowArea = first .. past - 1
      <3>1. first + num - 1 = past - 1
        BY <2>1, Bounds DEF Numbers
      <3> QED
        BY <3>1 DEF RowArea, first, num
    <2>4. past <= Modulus
      <3> SUFFICES ASSUME past > Modulus PROVE FALSE
        BY <2>1, Bounds DEF Numbers
      <3>1. past - 1 \in first .. past - 1
        BY <2>1, Bounds DEF Numbers
      <3>2. past - 1 \in Numbers
        BY <2>3, <3>1
      <3> QED
        BY <2>1, <3>2, Bounds DEF Numbers
    <2>5. CASE at = "sweep"
      <3>1. seen = first .. sweep.sect - 1 /\ sweep.sect \in first .. past
        BY <2>2, <2>4, <2>5
      <3>2. seen \subseteq first .. past - 1
        BY <2>1, <3>1, Bounds DEF Numbers
      <3> QED
        BY <2>2, <2>3, <2>5, <3>2
    <2>6. CASE result = "swept"
      BY <2>2, <2>3, <2>4, <2>6
    <2> QED
      BY <2>5, <2>6
  <1> QED
    BY <1>1, Invariant, PTL

-------------------------------------------------------------------------------
(* P -r lists every drive.  A chain of tables is a recursive function of    *)
(* the number of its links: one lemma unfolds it once, and the rest follows *)
(* the list the command keeps of the rows it has still to print.            *)

(* What the rows of a table have of their entries.                         *)
LEMMA UnpackedPlace ==
  ASSUME NEW g, Sound(g), NEW e \in Entry, NEW base \in Numbers
  PROVE  Unplaced(e) => Unpacked(g, e, base).from = NoCHS /\ Unpacked(g, e, base).to = NoCHS
  <1> SUFFICES ASSUME Unplaced(e)
               PROVE  Unpacked(g, e, base).from = NoCHS /\ Unpacked(g, e, base).to = NoCHS
    OBVIOUS
  <1>1. Unpacked(g, e, base) = Recalculated(g, e, base)
    BY DEF Unpacked
  <1>2. e.num = 0
    BY DEF Unplaced
  <1> QED
    BY <1>1, <1>2 DEF Recalculated, Entry

Inside(g, e, p) ==
  IF p.level + 1 > 2 /\ e.type = "Extended" THEN p.in ELSE AsContainer(g, p)
(* TableIn keeps of every entry its type, its start and its length.       *)
LEMMA TableInRows ==
  ASSUME NEW g, Sound(g), NEW entries \in [1 .. 4 -> Entry], NEW p \in Parent,
         NEW i \in 1 .. 4
  PROVE  LET row == TableIn(g, entries, p)[i]
         IN  /\ Same(row, entries[i]) /\ row.in = Inside(g, entries[i], p)
             /\ IsEmpty(row) <=> Unplaced(entries[i])
  <1> DEFINE Within(e) ==
               IF p.level + 1 > 2 /\ e.type = "Extended" THEN p.in ELSE AsContainer(g, p)
             Read(e) == RowIn(Unpacked(g, e, Within(e).start), Within(e), p.level + 1)
             rows == <<Read(entries[1]), Read(entries[2]),
                       Read(entries[3]), Read(entries[4])>>
  <1>1. TableIn(g, entries, p) = Validated(g, rows, p)
    BY DEF TableIn
  <1>2. p.level \in Nat /\ p.level + 1 \in Nat
    BY StartType
  <1>3. ASSUME NEW e \in Entry
        PROVE  /\ Read(e) \in PartLong /\ Same(Read(e), e)
               /\ Read(e).in = Inside(g, e, p)
               /\ IsEmpty(Read(e)) <=> Unplaced(e)
    <2> DEFINE w == Within(e)
               u == Unpacked(g, e, w.start)
    <2>1. w \in Container /\ w = Inside(g, e, p)
      BY StartType DEF Inside
    <2>2. w.start \in Numbers
      BY <2>1 DEF Container
    <2> HIDE DEF w
    <2>4. u \in Unread /\ Same(u, e)
      BY <2>2, UnpackedType
    <2>4a. Unplaced(e) => u.from = NoCHS /\ u.to = NoCHS
      BY <2>2, UnpackedPlace
    <2> HIDE DEF u
    <2> DEFINE r == RowIn(u, w, p.level + 1)
    <2>5. /\ r \in PartLong /\ Same(r, u) /\ r.in = w
      BY <1>2, <2>1, <2>4, RowInType
    <2>5a. r.from = u.from /\ r.to = u.to
      BY DEF RowIn
    <2>6. Read(e) = r
      BY DEF w, u
    <2> HIDE DEF r
    <2>7. IsEmpty(r) <=> Unplaced(e)
      BY <2>4, <2>4a, <2>5, <2>5a DEF IsEmpty, Same, Unplaced
    <2> QED
      BY <2>1, <2>4, <2>5, <2>6, <2>7 DEF Same
  <1> HIDE DEF Read
  <1>4. \A j \in 1 .. 4 : rows[j] = Read(entries[j]) /\ entries[j] \in Entry
    OBVIOUS
  <1>5. rows \in Seq(PartLong) /\ Len(rows) = 4
    BY <1>3
  <1> HIDE DEF rows
  <1>6. AllBut(Validated(g, rows, p)[i], rows[i])
    BY <1>5, ValidatedType
  <1>7. /\ Same(rows[i], entries[i]) /\ rows[i].in = Inside(g, entries[i], p)
        /\ IsEmpty(rows[i]) <=> Unplaced(entries[i])
    BY <1>3, <1>4
  <1> QED
    BY <1>1, <1>6, <1>7 DEF AllBut, Same, IsEmpty, Unplaced

(* What AdvancedIn makes of an entry, and of a table of them.              *)
ReadIn(g, e) ==
  RowIn(Recalculated(g, [NoEntry EXCEPT !.type = e.type, !.rel = e.rel, !.num = e.num], 0),
        AsContainer(g, WholeDisk(g)), 1)

LEMMA ReadInType ==
  ASSUME NEW g, Sound(g), NEW e \in AdvEntry
  PROVE  /\ ReadIn(g, e) \in PartLong /\ ReadIn(g, e).type = e.type
         /\ ReadIn(g, e).rel = e.rel /\ ReadIn(g, e).num = e.num
         /\ IsEmpty(ReadIn(g, e)) <=> Unplaced(e)
  <1> DEFINE x == [NoEntry EXCEPT !.type = e.type, !.rel = e.rel, !.num = e.num]
             u == Recalculated(g, x, 0)
             c == AsContainer(g, WholeDisk(g))
             r == RowIn(u, c, 1)
  <1>1. c \in Container /\ 0 \in Numbers
    BY WholeDiskType, StartType, Bounds DEF Numbers
  <1>2. x \in Unread
    <2>1. e.type \in RowTypes /\ e.rel \in Numbers /\ e.num \in Numbers
      BY DEF AdvEntry
    <2>2. NoEntry \in Unread
      BY <1>1, NoCHSType, GeometryConstants DEF NoEntry, Unread
    <2> QED
      BY <2>1, <2>2 DEF Unread
  <1>3. x.rel = e.rel /\ x.num = e.num /\ x.type = e.type
    BY DEF NoEntry
  <1> HIDE DEF x, c
  <1>4. u \in Unread /\ Same(u, x)
    BY <1>1, <1>2, RecalculatedType
  <1>5. Unplaced(x) => u.from = NoCHS /\ u.to = NoCHS
    BY <1>2 DEF Recalculated, Unplaced, Unread
  <1> HIDE DEF u
  <1>6. r \in PartLong /\ Same(r, u)
    BY <1>1, <1>4, RowInType
  <1>7. r.from = u.from /\ r.to = u.to
    BY DEF RowIn
  <1>8. ReadIn(g, e) = r
    BY DEF ReadIn, x, u, c
  <1> HIDE DEF r
  <1>9. Unplaced(x) <=> Unplaced(e)
    BY <1>3 DEF Unplaced
  <1>10. IsEmpty(r) <=> Unplaced(x)
    BY <1>4, <1>5, <1>6, <1>7 DEF IsEmpty, Same, Unplaced
  <1> QED
    BY <1>3, <1>4, <1>6, <1>8, <1>9, <1>10 DEF Same

(* So does AdvancedIn; what has no place is an empty row.                  *)
LEMMA AdvancedInRows ==
  ASSUME NEW g, Sound(g), NEW entries \in [1 .. NumRows -> AdvEntry],
         NEW i \in 1 .. NumRows
  PROVE  LET row == AdvancedIn(g, entries)[i]
         IN  /\ row.type = entries[i].type
             /\ row.rel = entries[i].rel /\ row.num = entries[i].num
             /\ IsEmpty(row) <=> Unplaced(entries[i])
  <1> DEFINE whole == WholeDisk(g)
             rows == [j \in 1 .. NumRows |-> ReadIn(g, entries[j])]
  <1>1. AdvancedIn(g, entries) = Validated(g, rows, whole)
    BY DEF AdvancedIn, ReadIn
  <1>2. NumRows \in Nat
    BY CommandConstants
  <1>3. \A j \in 1 .. NumRows : rows[j] \in PartLong
    BY ReadInType
  <1>4. /\ rows[i].type = entries[i].type
        /\ rows[i].rel = entries[i].rel /\ rows[i].num = entries[i].num
        /\ IsEmpty(rows[i]) <=> Unplaced(entries[i])
    BY ReadInType
  <1>5. rows \in [1 .. NumRows -> PartLong]
    BY <1>3
  <1> HIDE DEF rows, whole
  <1>6. rows \in Seq(PartLong) /\ Len(rows) = NumRows
    BY <1>2, <1>5
  <1>7. AllBut(Validated(g, rows, whole)[i], rows[i])
    BY <1>6, ValidatedType
  <1> QED
    BY <1>1, <1>4, <1>7 DEF AllBut, Same, IsEmpty, Unplaced

(* The drives of a chain, n tables deep, are those of its table and those  *)
(* of the tables its links lead to, n - 1 tables deep.                     *)
Further(F, base, s) ==
  DrivesAt(s) \cup UNION {F[Wrap(base + Entries(s)[i].rel)] : i \in Links(s)}
LEMMA EntryFacts ==
  ASSUME Inv, NEW s \in Numbers, NEW i \in 1 .. 4
  PROVE  /\ Entries(s)[i] \in Entry /\ Entries(s)[i].rel \in Numbers
         /\ Entries(s)[i].num \in Numbers
         /\ \A b \in Numbers : Wrap(b + Entries(s)[i].rel) \in Numbers
  <1>1. Entries(s)[i] \in Entry
    BY EntriesType
  <1>2. Entries(s)[i].rel \in Numbers /\ Entries(s)[i].num \in Numbers
    BY <1>1 DEF Entry
  <1>3. \A b \in Numbers : b + Entries(s)[i].rel \in Int
    BY <1>2, Bounds DEF Numbers
  <1> QED
    BY <1>1, <1>2, <1>3, WrapFacts

LEMMA ChainIs ==
  ASSUME Inv, NEW base \in Numbers
  PROVE  /\ \A s \in Numbers : DrivesFrom(base)[0][s] = {}
         /\ \A n \in 1 .. MaxLevel, s \in Numbers :
              DrivesFrom(base)[n][s] = Further(DrivesFrom(base)[n - 1], base, s)
  <1> DEFINE D == [start : Numbers, num : Numbers]
             S == [Numbers -> SUBSET D]
             b == [s \in Numbers |-> {}]
             Turn(F) == [s \in Numbers |-> Further(F, base, s)]
             drives == CHOOSE h : h = [n \in 0 .. MaxLevel |->
                         [s \in Numbers |-> IF n = 0 THEN {}
                            ELSE DrivesAt(s) \cup UNION {h[n - 1][Wrap(base + Entries(s)[i].rel)] :
                                         i \in Links(s)}]]
             f == [x \in S \X (1 .. MaxLevel) |-> Turn(x[1])]
  <1>1. DrivesFrom(base) = drives
    BY DEF DrivesFrom
  <1>2. MaxLevel \in Nat
    BY CommandConstants
  <1>3. \A s \in Numbers : DrivesAt(s) \in SUBSET D
    <2> SUFFICES ASSUME NEW s \in Numbers, NEW i \in 1 .. 4
                 PROVE  [start |-> Wrap(s + Entries(s)[i].rel),
                         num |-> Entries(s)[i].num] \in D
      BY DEF DrivesAt
    <2> QED
      BY EntryFacts
  <1>4. ASSUME NEW F \in S
        PROVE  Turn(F) \in S
    <2> SUFFICES ASSUME NEW s \in Numbers PROVE Further(F, base, s) \in SUBSET D
      OBVIOUS
    <2>1. \A i \in Links(s) : F[Wrap(base + Entries(s)[i].rel)] \in SUBSET D
      BY EntryFacts DEF Links
    <2> HIDE DEF D
    <2> QED
      BY <1>3, <2>1 DEF Further
  <1>5. f \in [S \X (1 .. MaxLevel) -> S]
    <2> HIDE DEF S, Turn
    <2> QED
      BY <1>4
  <1>6. b \in S
    OBVIOUS
  <1>7. PICK h \in [0 .. MaxLevel -> S] : IsLoop(h, b, MaxLevel, f)
    <2> HIDE DEF f, S, b
    <2> QED
      BY <1>2, <1>5, <1>6, LoopExists
  <1> HIDE DEF S
  <1>8. ASSUME NEW n \in 0 .. MaxLevel
        PROVE  h[n] = [s \in Numbers |-> IF n = 0 THEN {}
                            ELSE DrivesAt(s) \cup UNION {h[n - 1][Wrap(base + Entries(s)[i].rel)] :
                                         i \in Links(s)}]
    <2>0. h[n] = IF n = 0 THEN b ELSE f[<<h[n - 1], n>>]
      BY <1>7 DEF IsLoop
    <2>1. CASE n = 0
      BY <2>0, <2>1
    <2>2. CASE n # 0
      <3>1. n \in 1 .. MaxLevel /\ n - 1 \in 0 .. MaxLevel
        BY <1>2, <2>2
      <3>2. <<h[n - 1], n>> \in S \X (1 .. MaxLevel)
        BY <3>1
      <3>3. f[<<h[n - 1], n>>] = Turn(h[n - 1])
        <4> HIDE DEF Turn
        <4> QED
          BY <3>2
      <3>4. h[n] = Turn(h[n - 1])
        <4> HIDE DEF Turn, f, b
        <4> QED
          BY <2>0, <2>2, <3>3
      <3> HIDE DEF f, b, drives
      <3> QED
        BY <2>2, <3>4 DEF Further
    <2> QED
      BY <2>1, <2>2
  <1>9. h = [n \in 0 .. MaxLevel |->
                         [s \in Numbers |-> IF n = 0 THEN {}
                            ELSE DrivesAt(s) \cup UNION {h[n - 1][Wrap(base + Entries(s)[i].rel)] :
                                         i \in Links(s)}]]
    <2> HIDE DEF f, b, drives, Turn
    <2> QED
      BY <1>8
  <1>10. drives = [n \in 0 .. MaxLevel |->
                         [s \in Numbers |-> IF n = 0 THEN {}
                            ELSE DrivesAt(s) \cup UNION {drives[n - 1][Wrap(base + Entries(s)[i].rel)] :
                                         i \in Links(s)}]]
    BY <1>9, Zenon
  <1> HIDE DEF drives, f, b, Turn, D
  <1>11. \A n \in 0 .. MaxLevel : drives[n] =
                         [s \in Numbers |-> IF n = 0 THEN {}
                            ELSE DrivesAt(s) \cup UNION {drives[n - 1][Wrap(base + Entries(s)[i].rel)] :
                                         i \in Links(s)}]
    BY <1>10, Zenon
  <1>12. \A s \in Numbers : drives[0][s] = {}
    <2>1. 0 \in 0 .. MaxLevel
      BY <1>2
    <2>2. drives[0] = [s \in Numbers |-> IF 0 = 0 THEN {}
                            ELSE DrivesAt(s) \cup UNION {drives[0 - 1][Wrap(base + Entries(s)[i].rel)] :
                                         i \in Links(s)}]
      BY <1>11, <2>1
    <2> QED
      BY <2>2
  <1>13. ASSUME NEW n \in 1 .. MaxLevel, NEW s \in Numbers
         PROVE  drives[n][s] = Further(drives[n - 1], base, s)
    <2>1. n \in 0 .. MaxLevel /\ n # 0
      BY <1>2
    <2>2. drives[n] = [t \in Numbers |-> IF n = 0 THEN {}
                            ELSE DrivesAt(t) \cup UNION {drives[n - 1][Wrap(base + Entries(t)[i].rel)] :
                                         i \in Links(t)}]
      BY <1>11, <2>1
    <2> QED
      BY <2>1, <2>2 DEF Further
  <1> QED
    BY <1>1, <1>12, <1>13

(* What the rows still to be printed lead to.  The sectors of a chain are  *)
(* counted from the partition it begins with.                              *)
Origin(p) == IF p.level = 1 THEN p.rel ELSE p.in.start
Below(p) == DrivesFrom(Origin(p))[MaxLevel + 1 - p.level][Start(mem.g, p)]
BelowAll(rows) == UNION {Below(rows[i]) : i \in {j \in DOMAIN rows : IsLink(rows[j])}}
Rooted(p) == p.level >= 1 /\ (p.level = 1 => p.in.start = 0)

(* The parts of a row, and the sector at which a valid row starts.        *)
LEMMA RowFacts ==
  ASSUME NEW p \in PartLong
  PROVE  /\ p.rel \in Numbers /\ p.num \in Numbers /\ p.in.start \in Numbers
         /\ p.level \in Nat /\ p.valid \in BOOLEAN
  BY DEF PartLong, Container

LEMMA StartValid ==
  ASSUME NEW g, NEW p \in PartLong, p.valid
  PROVE  /\ Start(g, p) = Wrap(p.in.start + p.rel)
         /\ p.in.start = 0 => Start(g, p) = p.rel
  <1>1. Start(g, p) = Wrap(p.in.start + p.rel)
    BY DEF Start, ByNumbers
  <1>2. p.rel \in Int /\ 0 + p.rel = p.rel /\ p.rel \in Numbers
    BY RowFacts, Bounds DEF Numbers
  <1> QED
    BY <1>1, <1>2, WrapFacts

(* Opening a link: what it leads to is the drives of the table it opens   *)
(* and what the links of that table lead to.                              *)
LEMMA BelowOpens ==
  ASSUME Inv, Sound(mem.g), NEW p \in PartLong, IsLink(p), Rooted(p),
         p.level <= MaxLevel, NEW rows,
         rows = TableIn(mem.g, Entries(Start(mem.g, p)), p), Whole(rows)
  PROVE  /\ Below(p) \subseteq DrivesIn(rows) \cup BelowAll(rows)
         /\ \A i \in DOMAIN rows : Rooted(rows[i])
  <1> DEFINE g == mem.g
             s == Start(g, p)
             base == Origin(p)
             n == MaxLevel + 1 - p.level
  <1>1. /\ p \in Parent /\ s \in Numbers /\ Entries(s) \in [1 .. 4 -> Entry]
        /\ p.in.start \in Numbers /\ p.rel \in Numbers /\ p.level \in Nat
    BY RowsAreParents, RowFacts, StartType, EntriesType
  <1>2. base \in Numbers /\ MaxLevel \in Nat /\ n \in 1 .. MaxLevel
    <2>1. \A l, m \in Nat : l >= 1 /\ l <= m => m + 1 - l \in 1 .. m
      OBVIOUS
    <2>2. MaxLevel \in Nat
      BY CommandConstants
    <2>3. p.level >= 1
      BY DEF Rooted
    <2> QED
      BY <1>1, <2>1, <2>2, <2>3 DEF Origin
  <1>3. p.level = 1 => base = s
    BY StartValid DEF Origin, Rooted, IsLink
  <1>4. rows \in Seq(PartLong) /\ Len(rows) = 4 /\ DOMAIN rows = 1 .. 4
    <2>1. rows \in Seq(PartLong) /\ Len(rows) = 4
      BY <1>1, TableInType
    <2> QED
      BY <2>1
  <1>5. ASSUME NEW i \in 1 .. 4
        PROVE  /\ rows[i] \in PartLong /\ rows[i].level = p.level + 1
               /\ Same(rows[i], Entries(s)[i]) /\ rows[i].in = Inside(g, Entries(s)[i], p)
               /\ ~Unplaced(Entries(s)[i]) =>
                    ~IsEmpty(rows[i]) /\ rows[i].valid /\ Consistent(g, rows[i])
    <2>1. rows[i] \in PartLong
      BY <1>4
    <2>2. /\ rows[i].level = p.level + 1
          /\ rows[i].valid /\ ~IsEmpty(rows[i]) => Consistent(g, rows[i])
      BY <1>1, TableInType
    <2>3. /\ Same(rows[i], Entries(s)[i]) /\ rows[i].in = Inside(g, Entries(s)[i], p)
          /\ IsEmpty(rows[i]) <=> Unplaced(Entries(s)[i])
      BY <1>1, TableInRows
    <2>4. IsEmpty(rows[i]) \/ rows[i].valid
      BY <1>4 DEF Whole
    <2> QED
      BY <2>1, <2>2, <2>3, <2>4
  <1>6. \A i \in DOMAIN rows : Rooted(rows[i])
    BY <1>1, <1>4, <1>5 DEF Rooted
  <1>7. DrivesAt(s) \subseteq DrivesIn(rows)
    <2> SUFFICES ASSUME NEW i \in 1 .. 4,
                        Entries(s)[i].type \notin {"Unused", "Extended"},
                        ~Unplaced(Entries(s)[i])
                 PROVE  [start |-> Wrap(s + Entries(s)[i].rel),
                         num |-> Entries(s)[i].num] \in DrivesIn(rows)
      BY DEF DrivesAt
    <2>1. /\ rows[i].type = Entries(s)[i].type /\ rows[i].rel = Entries(s)[i].rel
          /\ rows[i].num = Entries(s)[i].num /\ Consistent(g, rows[i])
      BY <1>5 DEF Same
    <2>2. rows[i].in.start = s
      BY <1>5 DEF Inside, AsContainer
    <2>3. Abs(g, rows[i].from) = Wrap(s + Entries(s)[i].rel)
      BY <2>1, <2>2 DEF Consistent
    <2>4. Printed(rows[i]) = [start |-> Wrap(s + Entries(s)[i].rel),
                              num |-> Entries(s)[i].num]
      BY <2>1, <2>3 DEF Printed
    <2> QED
      BY <1>4, <2>1, <2>4 DEF DrivesIn
  <1>8. ASSUME NEW i \in Links(s)
        PROVE  /\ i \in DOMAIN rows /\ IsLink(rows[i])
               /\ Below(rows[i]) = DrivesFrom(base)[n - 1][Wrap(base + Entries(s)[i].rel)]
    <2>1. i \in 1 .. 4 /\ Entries(s)[i].type = "Extended" /\ ~Unplaced(Entries(s)[i])
      BY DEF Links
    <2>2. /\ rows[i].type = "Extended" /\ rows[i].rel = Entries(s)[i].rel
          /\ rows[i].valid /\ ~IsEmpty(rows[i]) /\ rows[i] \in PartLong
          /\ rows[i].level = p.level + 1
      BY <1>5, <2>1 DEF Same
    <2>3. rows[i].in.start = base
      <3>1. CASE p.level = 1
        <4>1. ~(p.level + 1 > 2)
          BY <3>1
        <4> QED
          BY <1>3, <1>5, <2>1, <3>1, <4>1 DEF Inside, AsContainer
      <3>2. CASE p.level # 1
        <4>1. p.level + 1 > 2
          BY <1>1, <3>2 DEF Rooted
        <4> QED
          BY <1>5, <2>1, <3>2, <4>1 DEF Inside, Origin
      <3> QED
        BY <3>1, <3>2
    <2>4. Origin(rows[i]) = base
      BY <1>1, <2>2, <2>3 DEF Origin, Rooted
    <2>5. Start(g, rows[i]) = Wrap(base + Entries(s)[i].rel)
      BY <2>2, <2>3, StartValid
    <2>6. MaxLevel + 1 - rows[i].level = n - 1
      BY <1>1, <1>2, <2>2
    <2> QED
      BY <1>4, <2>1, <2>2, <2>4, <2>5, <2>6 DEF Below, IsLink
  <1>9. Below(p) = Further(DrivesFrom(base)[n - 1], base, s)
    <2> HIDE DEF n, s, base
    <2>1. DrivesFrom(base)[n][s] = Further(DrivesFrom(base)[n - 1], base, s)
      BY <1>1, <1>2, ChainIs
    <2> QED
      BY <2>1 DEF Below, n, s, base
  <1> HIDE DEF n, s, base
  <1>10. \A i \in Links(s) :
           DrivesFrom(base)[n - 1][Wrap(base + Entries(s)[i].rel)] \subseteq BelowAll(rows)
    BY <1>8 DEF BelowAll
  <1> QED
    BY <1>6, <1>7, <1>9, <1>10 DEF Further

(* The rows of the first level are counted from the start of the disk.     *)
LEMMA FoundRooted ==
  ASSUME Inv, Sound(mem.g)
  PROVE  LET rows == Found(mem.g).rows
         IN  /\ rows \in Seq(PartLong)
             /\ \A i \in DOMAIN rows : rows[i].level = 1 /\ rows[i].in.start = 0
  <1> DEFINE g == mem.g
             mbr == disk[0]
             adv == mbr.kind = "table" /\ mbr.adv /\ Passes(mbr.at, 1)
                    /\ disk[mbr.at].kind = "data"
             data == Converted(disk[mbr.at])
             whole == WholeDisk(g)
             rows == Found(g).rows
  <1>2. whole \in Parent /\ whole.level = 0 /\ AsContainer(g, whole).start = 0
    BY WholeDiskType
  <1>3. mbr \in Tables /\ mbr \in Contents /\ mbr.at \in Numbers
        /\ mbr.rows \in [1 .. 4 -> Entry]
    BY Typed, ContentsFacts
  <1>4. rows = IF adv THEN AdvancedIn(g, data.rows) ELSE TableIn(g, mbr.rows, whole)
    BY DEF Found, FoundOn
  <1>5. CASE adv
    <2>1. disk[mbr.at] \in AdvData
      BY <1>3, <1>5, Typed, ContentsFacts
    <2>2. data.rows \in [1 .. NumRows -> AdvEntry]
      BY <2>1, ConvertedType, ContentsFacts
    <2>3. /\ AdvancedIn(g, data.rows) \in Seq(PartLong)
          /\ Len(AdvancedIn(g, data.rows)) = NumRows
          /\ \A i \in 1 .. NumRows :
               /\ AdvancedIn(g, data.rows)[i].level = 1
               /\ AdvancedIn(g, data.rows)[i].in = AsContainer(g, WholeDisk(g))
      BY <2>2, AdvancedInType
    <2>4. rows = AdvancedIn(g, data.rows)
      BY <1>4, <1>5
    <2> HIDE DEF rows, data, adv, g
    <2>5. rows \in Seq(PartLong) /\ DOMAIN rows = 1 .. NumRows
      BY <2>3, <2>4
    <2> QED
      BY <1>2, <2>3, <2>4, <2>5 DEF rows, g
  <1>6. CASE ~adv
    <2>3. /\ TableIn(g, mbr.rows, whole) \in Seq(PartLong)
          /\ Len(TableIn(g, mbr.rows, whole)) = 4
          /\ \A i \in 1 .. 4 :
               /\ TableIn(g, mbr.rows, whole)[i].level = 0 + 1
               /\ TableIn(g, mbr.rows, whole)[i].in = AsContainer(g, whole)
      BY <1>2, <1>3, TableInType
    <2>4. rows = TableIn(g, mbr.rows, whole)
      BY <1>4, <1>6
    <2> HIDE DEF rows, adv, g, whole
    <2>5. rows \in Seq(PartLong) /\ DOMAIN rows = 1 .. 4
      BY <2>3, <2>4
    <2> QED
      BY <1>2, <2>3, <2>4, <2>5 DEF rows, g
  <1> QED
    BY <1>5, <1>6

(* What P -r begins with.                                                  *)
LEMMA FirstRowsLead ==
  ASSUME Inv, Sound(mem.g), NEW rows, rows = Found(mem.g).rows, Whole(rows)
  PROVE  LogicalDrives \subseteq BelowAll(rows)
  <1>1. /\ rows \in Seq(PartLong)
        /\ \A i \in DOMAIN rows : rows[i].level = 1 /\ rows[i].in.start = 0
    BY FoundRooted
  <1>2. ASSUME NEW i \in DOMAIN rows, rows[i].type = "Extended", ~Unplaced(rows[i])
        PROVE  /\ IsLink(rows[i])
               /\ Below(rows[i]) = DrivesFrom(rows[i].rel)[MaxLevel][rows[i].rel]
    <2>1. rows[i] \in PartLong /\ rows[i].level = 1 /\ rows[i].in.start = 0
      BY <1>1
    <2>2. ~IsEmpty(rows[i]) /\ rows[i].valid
      BY <1>2 DEF IsEmpty, Whole
    <2>3. Start(mem.g, rows[i]) = rows[i].rel
      BY <2>1, <2>2, StartValid
    <2>4. MaxLevel + 1 - 1 = MaxLevel
      <3>1. MaxLevel \in Nat
        BY CommandConstants
      <3> QED
        BY <3>1
    <2> QED
      BY <1>2, <2>1, <2>2, <2>3, <2>4 DEF IsLink, Below, Origin
  <1>3. LogicalDrives = UNION {DrivesFrom(rows[i].rel)[MaxLevel][rows[i].rel] :
               i \in {j \in DOMAIN rows : rows[j].type = "Extended"
                                          /\ ~Unplaced(rows[j])}}
    BY DEF LogicalDrives
  <1> QED
    BY <1>2, <1>3 DEF BelowAll

(* While the disk stays, so does what there is to print.                   *)
LEMMA SameDrives ==
  ASSUME UNCHANGED <<drive, disk, mem>>
  PROVE  /\ LogicalDrives' = LogicalDrives /\ Found(mem.g)' = Found(mem.g)
         /\ \A p : Below(p)' = Below(p)
         /\ \A rows : BelowAll(rows)' = BelowAll(rows)
  BY DEF LogicalDrives, Found, FoundOn, Passes, DrivesFrom, DrivesAt, Links, Entries,
         Below, BelowAll

(* What P -r has shown and what is pending are all drives, as long as no   *)
(* error was shown.                                                        *)
ListReady ==
  /\ at \in {"info", "sizes", "table", "load", "command", "sweep", "print"} =>
       result = "none"
  /\ at = "command" => mem = Found(mem.g)
  /\ at = "print" => cmd.name = "Print"
  /\ at = "nested" => /\ result \in {"none", "errors shown"}
                      /\ \A i \in DOMAIN pending : Rooted(pending[i])
                      /\ result = "none" => \A rows : rows = pending =>
                           LogicalDrives \subseteq seen \cup BelowAll(rows)
  /\ RecursivePrintsEveryDrive

(* While rows are pending, no drive is missing unless an error was shown. *)
LEMMA SeenOrPending ==
  ASSUME ListReady, at = "nested"
  PROVE  /\ result \in {"none", "errors shown"}
         /\ result = "none" => LogicalDrives \subseteq seen \cup BelowAll(pending)
  BY DEF ListReady

(* The other commands end without a word on the drives.                   *)
LEMMA StopsElsewhere ==
  ASSUME at' = "idle", result' # "printed" \/ cmd'.name # "PrintAll"
  PROVE  ListReady'
  BY DEF ListReady, RecursivePrintsEveryDrive, ListIsComplete

LEMMA OtherStops ==
  ASSUME ListReady,
         \/ Reject \/ NoEffect \/ EmptyRow \/ Save \/ Compare \/ Activate \/ Hide
         \/ Format \/ Load \/ SweepFails \/ SweepEnds
  PROVE  at' = "idle" /\ result' # "printed"
  <1>1. CASE Reject \/ NoEffect \/ EmptyRow \/ Save \/ Compare
    BY <1>1 DEF Reject, NoEffect, EmptyRow, Save, Compare, Refuse, Ends
  <1>2. CASE Activate \/ Hide
    BY <1>2 DEF Activate, Hide, WriteMbr, Refuse, Ends
  <1>3. CASE Format
    BY <1>3 DEF Format, FormatRow, Refuse, Ends
  <1>4. CASE Load
    BY <1>4 DEF Load, LoadMbr, LoadAdvanced, Refuse, Ends
  <1>5. CASE SweepFails \/ SweepEnds
    BY <1>5 DEF SweepFails, SweepEnds, Refuse, Ends
  <1> QED
    BY <1>1, <1>2, <1>3, <1>4, <1>5

(* The steps before the rows are listed keep what the list needs.         *)
LEMMA GoesOn ==
  ASSUME ListReady,
         \/ \E c \in Asked : Issue(c)
         \/ QueryDisk \/ TrySize \/ ReadTable \/ Verify \/ Erase \/ SweepOn
         \/ PrintTable \/ PrintLogical
  PROVE  ListReady'
  <1>1. CASE \E c \in Asked : Issue(c)
    BY <1>1 DEF Issue, ListReady, RecursivePrintsEveryDrive, ListIsComplete
  <1>2. CASE QueryDisk \/ TrySize
    BY <1>2 DEF QueryDisk, TrySize, GeometryIs, After, ListReady,
                RecursivePrintsEveryDrive, ListIsComplete
  <1>3. CASE ReadTable
    <2>1. CASE Refuse("no table")
      BY <2>1, StopsElsewhere DEF Refuse, Ends
    <2>2. CASE /\ mem' = Found(mem.g) /\ at' = "command" /\ result' = result
               /\ disk' = disk /\ drive' = drive /\ at = "table"
      <3>1. Found(mem.g).g = mem.g
        BY DEF Found, FoundOn
      <3>2. \A g : Found(g)' = Found(g')
        BY <2>2 DEF Found, FoundOn, Passes
      <3>3. Found(mem.g)' = Found(mem'.g)
        BY <2>2 DEF Found, FoundOn, Passes
      <3>4. mem'.g = mem.g
        BY <2>2, <3>1
      <3> QED
        BY <2>2, <3>3, <3>4 DEF ListReady, RecursivePrintsEveryDrive, ListIsComplete
    <2> QED
      BY <1>3, <2>1, <2>2 DEF ReadTable
  <1>4. CASE Verify \/ Erase
    <2>1. CASE Refuse("fix the table first")
      BY <2>1, StopsElsewhere DEF Refuse, Ends
    <2>2. CASE at = "command" /\ at' = "sweep" /\ result' = result
      BY <2>2 DEF ListReady, RecursivePrintsEveryDrive, ListIsComplete
    <2> QED
      BY <1>4, <2>1, <2>2 DEF Verify, Erase, BeginSweep, Does
  <1>5. CASE SweepOn
    <2>1. CASE Ends("canceled")
      BY <2>1, StopsElsewhere DEF Ends
    <2>2. CASE at = "sweep" /\ at' = at /\ result' = result
      BY <2>2 DEF ListReady, RecursivePrintsEveryDrive, ListIsComplete
    <2> QED
      BY <1>5, <2>1, <2>2 DEF SweepOn
  <1>6. CASE PrintTable
    BY <1>6 DEF PrintTable, Does, ListReady, RecursivePrintsEveryDrive, ListIsComplete
  <1>7. CASE PrintLogical
    <2>1. ASSUME NEW r, Refuse(r)
          PROVE  at' = "idle" /\ cmd' = cmd
      BY <2>1 DEF Refuse, Ends
    <2>2. at = "print" /\ cmd.name = "Print"
      BY <1>7 DEF PrintLogical, ListReady
    <2>3. \/ at' = "idle" /\ cmd' = cmd
          \/ at' = at /\ result' = result /\ cmd' = cmd
      BY <1>7, <2>1 DEF PrintLogical
    <2>4. CASE at' = "idle" /\ cmd' = cmd
      BY <2>2, <2>4, StopsElsewhere
    <2>5. CASE at' = at /\ result' = result /\ cmd' = cmd
      BY <2>2, <2>5 DEF ListReady, RecursivePrintsEveryDrive, ListIsComplete
    <2> QED
      BY <2>3, <2>4, <2>5
  <1> QED
    BY <1>1, <1>2, <1>3, <1>4, <1>5, <1>6, <1>7

(* A step of the list, reduced to the rows it leaves pending.             *)
LEMMA StillComing ==
  ASSUME at' = "nested", result' \in {"none", "errors shown"},
         NEW rows, pending' = rows, \A i \in DOMAIN rows : Rooted(rows[i]),
         result' = "none" => LogicalDrives \subseteq seen' \cup BelowAll(rows),
         UNCHANGED <<drive, disk, mem>>
  PROVE  ListReady'
  <1>1. LogicalDrives' = LogicalDrives /\ BelowAll(rows)' = BelowAll(rows)
    BY SameDrives
  <1>2. (\A i \in DOMAIN pending : Rooted(pending[i]))'
    BY DEF Rooted
  <1>3. (result = "none" => \A r : r = pending => LogicalDrives \subseteq seen \cup BelowAll(r))'
    BY <1>1
  <1> QED
    BY <1>2, <1>3 DEF ListReady, RecursivePrintsEveryDrive, ListIsComplete

(* The list begins with the rows of the disk.                             *)
LEMMA PrintAllList ==
  ASSUME Inv, ListReady, PrintAll
  PROVE  ListReady'
  <1>1. /\ at = "command" /\ Sound(mem.g) /\ at' = "nested" /\ pending' = mem.rows
        /\ result' = IF Whole(mem.rows) THEN result ELSE "errors shown"
        /\ UNCHANGED <<drive, disk, mem, seen>>
    BY Ready DEF PrintAll, Does, Showing
  <1>2. mem = Found(mem.g) /\ result = "none"
    BY <1>1 DEF ListReady
  <1>3. mem.rows = Found(mem.g).rows
    BY <1>2
  <1>4. \A i \in DOMAIN mem.rows : Rooted(mem.rows[i])
    <2>1. \A i \in DOMAIN mem.rows : mem.rows[i].level = 1 /\ mem.rows[i].in.start = 0
      BY <1>1, <1>3, FoundRooted
    <2> QED
      BY <2>1 DEF Rooted
  <1>5. Whole(mem.rows) => LogicalDrives \subseteq BelowAll(mem.rows)
    BY <1>1, <1>3, FirstRowsLead
  <1> QED
    BY <1>1, <1>2, <1>4, <1>5, StillComing

(* The row at the head of the list and the rows after it.                 *)
LEMMA SplitPending ==
  ASSUME Inv, pending # << >>
  PROVE  /\ \A i \in DOMAIN Tail(pending) :
              /\ i + 1 \in DOMAIN pending /\ Tail(pending)[i] = pending[i + 1]
         /\ \A i \in DOMAIN pending : i # 1 =>
              i - 1 \in DOMAIN Tail(pending) /\ pending[i] = Tail(pending)[i - 1]
         /\ 1 \in DOMAIN pending /\ Head(pending) = pending[1]
  <1>1. pending \in Seq(PartLong)
    BY Typed
  <1>2. \A S : \A t \in Seq(S) : t # << >> =>
          /\ \A i \in DOMAIN Tail(t) : i + 1 \in DOMAIN t /\ Tail(t)[i] = t[i + 1]
          /\ \A i \in DOMAIN t : i # 1 => i - 1 \in DOMAIN Tail(t) /\ t[i] = Tail(t)[i - 1]
          /\ 1 \in DOMAIN t /\ Head(t) = t[1]
    OBVIOUS
  <1> QED
    BY <1>1, <1>2, Zenon

LEMMA PendingLeads ==
  ASSUME Inv, ListReady, at = "nested", pending # << >>
  PROVE  /\ Rooted(Head(pending)) /\ \A i \in DOMAIN Tail(pending) : Rooted(Tail(pending)[i])
         /\ BelowAll(pending) \subseteq BelowAll(Tail(pending)) \cup
              (IF IsLink(Head(pending)) THEN Below(Head(pending)) ELSE {})
  <1>1. Rooted(Head(pending)) /\ \A i \in DOMAIN Tail(pending) : Rooted(Tail(pending)[i])
    BY SplitPending DEF ListReady
  <1>2. ASSUME NEW i \in DOMAIN pending, IsLink(pending[i])
        PROVE  Below(pending[i]) \subseteq BelowAll(Tail(pending)) \cup
                 (IF IsLink(Head(pending)) THEN Below(Head(pending)) ELSE {})
    <2>1. CASE i = 1
      BY <1>2, <2>1, SplitPending
    <2>2. CASE i # 1
      <3>1. i - 1 \in DOMAIN Tail(pending) /\ pending[i] = Tail(pending)[i - 1]
        BY <2>2, SplitPending
      <3> QED
        BY <1>2, <3>1 DEF BelowAll
    <2> QED
      BY <2>1, <2>2
  <1>3. BelowAll(pending) \subseteq BelowAll(Tail(pending)) \cup
              (IF IsLink(Head(pending)) THEN Below(Head(pending)) ELSE {})
    BY <1>2 DEF BelowAll
  <1> QED
    BY <1>1, <1>3

(* Rows put before others lead to what either of them leads to.           *)
LEMMA BothLead ==
  ASSUME NEW rows \in Seq(PartLong), NEW rest \in Seq(PartLong)
  PROVE  /\ BelowAll(rows) \subseteq BelowAll(rows \o rest)
         /\ BelowAll(rest) \subseteq BelowAll(rows \o rest)
         /\ (\A i \in DOMAIN rows : Rooted(rows[i])) /\ (\A i \in DOMAIN rest : Rooted(rest[i])) =>
              \A i \in DOMAIN (rows \o rest) : Rooted((rows \o rest)[i])
  <1>1. \A S : \A a, b \in Seq(S) :
          /\ \A i \in DOMAIN a : i \in DOMAIN (a \o b) /\ (a \o b)[i] = a[i]
          /\ \A i \in DOMAIN b : Len(a) + i \in DOMAIN (a \o b) /\ (a \o b)[Len(a) + i] = b[i]
          /\ \A i \in DOMAIN (a \o b) : \/ i \in DOMAIN a /\ (a \o b)[i] = a[i]
                                        \/ i - Len(a) \in DOMAIN b /\ (a \o b)[i] = b[i - Len(a)]
    OBVIOUS
  <1>2. /\ \A i \in DOMAIN rows : i \in DOMAIN (rows \o rest) /\ (rows \o rest)[i] = rows[i]
        /\ \A i \in DOMAIN rest : \E j \in DOMAIN (rows \o rest) : (rows \o rest)[j] = rest[i]
        /\ \A i \in DOMAIN (rows \o rest) :
             \/ \E j \in DOMAIN rows : (rows \o rest)[i] = rows[j]
             \/ \E j \in DOMAIN rest : (rows \o rest)[i] = rest[j]
    <2>1. /\ \A i \in DOMAIN rows : i \in DOMAIN (rows \o rest) /\ (rows \o rest)[i] = rows[i]
          /\ \A i \in DOMAIN rest : /\ Len(rows) + i \in DOMAIN (rows \o rest)
                                     /\ (rows \o rest)[Len(rows) + i] = rest[i]
          /\ \A i \in DOMAIN (rows \o rest) :
               \/ i \in DOMAIN rows /\ (rows \o rest)[i] = rows[i]
               \/ /\ i - Len(rows) \in DOMAIN rest
                  /\ (rows \o rest)[i] = rest[i - Len(rows)]
      BY <1>1
    <2>2. ASSUME NEW i \in DOMAIN rest
          PROVE  \E j \in DOMAIN (rows \o rest) : (rows \o rest)[j] = rest[i]
      <3> WITNESS Len(rows) + i \in DOMAIN (rows \o rest)
      <3> QED
        BY <2>1
    <2>3. ASSUME NEW i \in DOMAIN (rows \o rest)
          PROVE  \/ \E j \in DOMAIN rows : (rows \o rest)[i] = rows[j]
                 \/ \E j \in DOMAIN rest : (rows \o rest)[i] = rest[j]
      BY <2>1
    <2> QED
      BY <2>1, <2>2, <2>3
  <1> DEFINE both == rows \o rest
  <1> HIDE DEF both
  <1>3. /\ \A i \in DOMAIN rows : i \in DOMAIN both /\ both[i] = rows[i]
        /\ \A i \in DOMAIN rest : \E j \in DOMAIN both : both[j] = rest[i]
        /\ \A i \in DOMAIN both :
             \/ \E j \in DOMAIN rows : both[i] = rows[j]
             \/ \E j \in DOMAIN rest : both[i] = rest[j]
    BY <1>2 DEF both
  <1>4. /\ BelowAll(rows) \subseteq BelowAll(both) /\ BelowAll(rest) \subseteq BelowAll(both)
        /\ (\A i \in DOMAIN rows : Rooted(rows[i])) /\ (\A i \in DOMAIN rest : Rooted(rest[i])) =>
              \A i \in DOMAIN both : Rooted(both[i])
    <2>1. BelowAll(rows) \subseteq BelowAll(both)
      BY <1>3 DEF BelowAll
    <2>2. BelowAll(rest) \subseteq BelowAll(both)
      <3> SUFFICES ASSUME NEW i \in DOMAIN rest, IsLink(rest[i])
                   PROVE  Below(rest[i]) \subseteq BelowAll(both)
        BY DEF BelowAll
      <3>1. PICK j \in DOMAIN both : both[j] = rest[i]
        BY <1>3
      <3> QED
        BY <3>1 DEF BelowAll
    <2> QED
      BY <1>3, <2>1, <2>2, Zenon
  <1> QED
    BY <1>4 DEF both

(* Each step of the list keeps the invariant.                             *)
LEMMA PrintRowList ==
  ASSUME Inv, ListReady, PrintRow
  PROVE  ListReady'
  <1>1. /\ at = "nested" /\ pending # << >> /\ ~IsLink(Head(pending))
        /\ pending' = Tail(pending) /\ UNCHANGED <<at, drive, disk, mem, seen, result>>
    BY DEF PrintRow
  <1>2. /\ \A i \in DOMAIN Tail(pending) : Rooted(Tail(pending)[i])
        /\ BelowAll(pending) \subseteq BelowAll(Tail(pending))
    BY <1>1, PendingLeads
  <1>3. /\ result \in {"none", "errors shown"}
        /\ result = "none" => LogicalDrives \subseteq seen \cup BelowAll(pending)
    BY <1>1, SeenOrPending
  <1> QED
    BY <1>1, <1>2, <1>3, StillComing

LEMMA PrintNestedList ==
  ASSUME Inv, ListReady, PrintNested
  PROVE  ListReady'
  <1> DEFINE p == Head(pending)
             rest == Tail(pending)
             first == Start(mem.g, p)
             rows == TableIn(mem.g, Entries(first), p)
  <1>1. at = "nested" /\ pending # << >> /\ IsLink(p) /\ Sound(mem.g)
    BY Ready DEF PrintNested
  <1>2. p \in PartLong /\ p \in Parent /\ p.level \in Nat
    BY <1>1, TailFacts, RowsAreParents DEF PartLong
  <1>3. rest \in Seq(PartLong)
    BY <1>1, TailFacts
  <1>4. rows \in Seq(PartLong)
    <2>1. first \in Numbers /\ Entries(first) \in [1 .. 4 -> Entry]
      BY <1>1, <1>2, StartType, EntriesType
    <2> QED
      BY <1>1, <1>2, <2>1, TableInType
  <1>5. /\ Rooted(p) /\ \A i \in DOMAIN rest : Rooted(rest[i])
        /\ BelowAll(pending) \subseteq BelowAll(rest) \cup Below(p)
    BY <1>1, PendingLeads
  <1>6. /\ result \in {"none", "errors shown"}
        /\ result = "none" => LogicalDrives \subseteq seen \cup BelowAll(pending)
    BY <1>1, SeenOrPending
  <1>7. \/ Refuse("too deep")
        \/ /\ ~(p.level > MaxLevel) /\ pending' = rows \o rest
           /\ seen' = seen \cup DrivesIn(rows)
           /\ result' = IF Whole(rows) THEN result ELSE "errors shown"
           /\ UNCHANGED <<at, drive, disk, mem>>
        \/ /\ pending' = rest /\ result' = "errors shown" /\ UNCHANGED <<at, drive, disk, mem>>
    BY DEF PrintNested, Showing, Following
  <1>8. \A i \in DOMAIN rows : Rooted(rows[i])
    <2>1. /\ Len(rows) = 4 /\ \A i \in 1 .. 4 : rows[i].level = p.level + 1
      <3>1. first \in Numbers /\ Entries(first) \in [1 .. 4 -> Entry]
        BY <1>1, <1>2, StartType, EntriesType
      <3> QED
        BY <1>1, <1>2, <3>1, TableInType
    <2> HIDE DEF rows, p
    <2>2. DOMAIN rows = 1 .. 4
      BY <1>4, <2>1
    <2>3. p.level + 1 >= 1 /\ p.level + 1 # 1
      BY <1>2, <1>5 DEF Rooted
    <2> QED
      BY <2>1, <2>2, <2>3 DEF Rooted
  <1>9. ~(p.level > MaxLevel) /\ Whole(rows) =>
          Below(p) \subseteq DrivesIn(rows) \cup BelowAll(rows)
    <2>1. MaxLevel \in Nat
      BY CommandConstants
    <2>2. ~(p.level > MaxLevel) => p.level <= MaxLevel
      BY <1>2, <2>1
    <2> QED
      BY <1>1, <1>2, <1>5, <2>2, BelowOpens
  <1> HIDE DEF p, rest, first, rows
  <1>10. CASE Refuse("too deep")
    BY <1>10, StopsElsewhere DEF Refuse, Ends
  <1>11. CASE /\ ~(p.level > MaxLevel) /\ pending' = rows \o rest
              /\ seen' = seen \cup DrivesIn(rows)
              /\ result' = IF Whole(rows) THEN result ELSE "errors shown"
              /\ UNCHANGED <<at, drive, disk, mem>>
    <2>1. /\ BelowAll(rows) \subseteq BelowAll(rows \o rest)
          /\ BelowAll(rest) \subseteq BelowAll(rows \o rest)
          /\ \A i \in DOMAIN (rows \o rest) : Rooted((rows \o rest)[i])
      BY <1>3, <1>4, <1>5, <1>8, BothLead
    <2>2. result' = "none" => Whole(rows) /\ result = "none"
      BY <1>6, <1>11
    <2>3. result' = "none" => LogicalDrives \subseteq seen' \cup BelowAll(rows \o rest)
      BY <1>5, <1>6, <1>9, <1>11, <2>1, <2>2
    <2>4. result' \in {"none", "errors shown"} /\ at' = "nested"
      BY <1>1, <1>6, <1>11
    <2>5. \A i \in DOMAIN pending' : Rooted(pending'[i])
      BY <1>11, <2>1
    <2> QED
      BY <1>11, <2>3, <2>4, <2>5, StillComing
  <1>12. CASE /\ pending' = rest /\ result' = "errors shown" /\ UNCHANGED <<at, drive, disk, mem>>
    BY <1>1, <1>5, <1>12, StillComing
  <1> QED
    BY <1>7, <1>10, <1>11, <1>12

LEMMA PrintEndsList ==
  ASSUME Inv, ListReady, PrintEnds
  PROVE  ListReady'
  <1>1. /\ at = "nested" /\ pending = << >> /\ at' = "idle"
        /\ result' = IF result = "none" THEN "printed" ELSE result
        /\ UNCHANGED <<drive, disk, mem, seen, cmd>>
    BY DEF PrintEnds, Refuse, Ends
  <1>2. /\ result \in {"none", "errors shown"}
        /\ result = "none" => LogicalDrives \subseteq seen \cup BelowAll(pending)
    BY <1>1, SeenOrPending
  <1>3. BelowAll(pending) = {}
    BY <1>1 DEF BelowAll
  <1>4. LogicalDrives' = LogicalDrives
    BY <1>1, SameDrives
  <1>5. result' = "printed" => LogicalDrives' \subseteq seen'
    BY <1>1, <1>2, <1>3, <1>4
  <1> QED
    BY <1>1, <1>5 DEF ListReady, RecursivePrintsEveryDrive, ListIsComplete

LEMMA ListStep == Inv /\ ListReady /\ [Next]_vars => ListReady'
  <1> SUFFICES ASSUME Inv, ListReady, [Next]_vars PROVE ListReady'
    OBVIOUS
  <1>1. CASE UNCHANGED vars
    <2>1. UNCHANGED <<drive, disk, mem, at, cmd, result, pending, seen>>
      BY <1>1 DEF vars
    <2>2. LogicalDrives' = LogicalDrives /\ Found(mem.g)' = Found(mem.g)
      BY <2>1, SameDrives
    <2>3. (\A r : r = pending => LogicalDrives \subseteq seen \cup BelowAll(r))' <=>
            \A r : r = pending => LogicalDrives \subseteq seen \cup BelowAll(r)
      BY <2>1, SameDrives
    <2>4. (\A i \in DOMAIN pending : Rooted(pending[i])) =>
            (\A i \in DOMAIN pending : Rooted(pending[i]))'
      BY <2>1 DEF Rooted
    <2> QED
      BY <2>1, <2>2, <2>3, <2>4 DEF ListReady, RecursivePrintsEveryDrive, ListIsComplete
  <1>2. CASE \/ Reject \/ NoEffect \/ EmptyRow \/ Save \/ Compare \/ Activate \/ Hide
             \/ Format \/ Load \/ SweepFails \/ SweepEnds
    BY <1>2, OtherStops, StopsElsewhere
  <1>3. CASE \/ \E c \in Asked : Issue(c)
             \/ QueryDisk \/ TrySize \/ ReadTable \/ Verify \/ Erase \/ SweepOn
             \/ PrintTable \/ PrintLogical
    BY <1>3, GoesOn
  <1>4. CASE PrintAll \/ PrintRow \/ PrintNested \/ PrintEnds
    BY <1>4, PrintAllList, PrintRowList, PrintNestedList, PrintEndsList
  <1> QED
    BY <1>1, <1>2, <1>3, <1>4 DEF Next, Running

(* P -r: where the list ends without an error having been shown, it has    *)
(* every logical drive of every chain of tables, at its place, if a chain  *)
(* has no more links than the command follows.                             *)
THEOREM ListsEveryDrive == Spec => []RecursivePrintsEveryDrive
  <1>1. Init => ListReady
    BY DEF Init, ListReady, RecursivePrintsEveryDrive, ListIsComplete
  <1>2. ListReady => RecursivePrintsEveryDrive
    BY DEF ListReady
  <1> QED
    BY <1>1, <1>2, InitReady, NextKeeps, ListStep, PTL DEF Spec

-------------------------------------------------------------------------------
(* L restores what the file has.                                           *)
(* Compaction keeps the rows that are used, and no row becomes two.        *)
Keeps(t, u) ==
  /\ \A r \in 1 .. NumRows : t[r].type # "Unused" => \E i \in 1 .. NumRows : u[i] = t[r]
  /\ \A i \in 1 .. NumRows : u[i] # Advanced!NoRow => \E r \in 1 .. NumRows : u[i] = t[r]
  /\ \A i, j \in 1 .. NumRows : i # j /\ u[i] # Advanced!NoRow /\ u[j] # Advanced!NoRow =>
       \E r, s \in 1 .. NumRows : r # s /\ u[i] = t[r] /\ u[j] = t[s]

LEMMA RemovedKeeps ==
  ASSUME NEW u \in AdvTable, NEW k \in 1 .. NumRows
  PROVE  Keeps(u, Removed(u, k))
  <1> DEFINE v == Removed(u, k)
             From(i) == IF i < k THEN i ELSE i + 1
  <1>1. NumRows \in Nat
    BY CommandConstants
  <1>2. CASE u[k].type # "Unused"
    BY <1>2 DEF Removed, Keeps
  <1>3. CASE u[k].type = "Unused"
    <2>1. \A i \in 1 .. NumRows : \/ v[i] = Advanced!NoRow
                                  \/ From(i) \in 1 .. NumRows /\ v[i] = u[From(i)]
      <3> SUFFICES ASSUME NEW i \in 1 .. NumRows
                   PROVE  \/ v[i] = Advanced!NoRow
                          \/ From(i) \in 1 .. NumRows /\ v[i] = u[From(i)]
        OBVIOUS
      <3>1. v[i] = IF i < k THEN u[i]
                   ELSE IF i < NumRows THEN u[i + 1] ELSE Advanced!NoRow
        BY <1>3 DEF Removed
      <3>2. i < NumRows => i + 1 \in 1 .. NumRows
        BY <1>1
      <3> QED
        BY <3>1, <3>2
    <2>2. ASSUME NEW r \in 1 .. NumRows, u[r].type # "Unused"
          PROVE  \E i \in 1 .. NumRows : v[i] = u[r]
      <3>1. r # k
        BY <1>3, <2>2
      <3>2. CASE r < k
        <4>1. v[r] = u[r]
          BY <1>3, <3>2 DEF Removed
        <4> QED
          BY <4>1
      <3>3. CASE r > k
        <4>1. r - 1 \in 1 .. NumRows /\ ~(r - 1 < k) /\ r - 1 < NumRows /\ (r - 1) + 1 = r
          BY <1>1, <3>3
        <4>2. v[r - 1] = IF r - 1 < k THEN u[r - 1]
                         ELSE IF r - 1 < NumRows THEN u[(r - 1) + 1] ELSE Advanced!NoRow
          BY <1>3, <4>1 DEF Removed
        <4>3. v[r - 1] = u[r]
          BY <4>1, <4>2
        <4> QED
          BY <4>1, <4>3
      <3> QED
        BY <3>1, <3>2, <3>3
    <2>3. \A i, j \in 1 .. NumRows : i # j => From(i) # From(j)
      OBVIOUS
    <2> HIDE DEF v, From
    <2>4. \A i \in 1 .. NumRows : v[i] # Advanced!NoRow => \E r \in 1 .. NumRows : v[i] = u[r]
      BY <2>1
    <2>5. \A i, j \in 1 .. NumRows : i # j /\ v[i] # Advanced!NoRow /\ v[j] # Advanced!NoRow =>
            \E r, s \in 1 .. NumRows : r # s /\ v[i] = u[r] /\ v[j] = u[s]
      BY <2>1, <2>3
    <2>6. Keeps(u, v)
      BY <2>2, <2>4, <2>5 DEF Keeps
    <2> QED
      BY <2>6 DEF v
  <1> QED
    BY <1>2, <1>3

LEMMA KeepsOn ==
  ASSUME NEW t, NEW u, NEW v, Keeps(t, u), Keeps(u, v)
  PROVE  Keeps(t, v)
  <1>1. \A r \in 1 .. NumRows : t[r].type # "Unused" => \E i \in 1 .. NumRows : v[i] = t[r]
    <2> SUFFICES ASSUME NEW r \in 1 .. NumRows, t[r].type # "Unused"
                 PROVE  \E i \in 1 .. NumRows : v[i] = t[r]
      OBVIOUS
    <2>1. PICK j \in 1 .. NumRows : u[j] = t[r]
      BY DEF Keeps
    <2>2. u[j].type # "Unused"
      BY <2>1
    <2>3. PICK i \in 1 .. NumRows : v[i] = u[j]
      BY <2>2 DEF Keeps
    <2> QED
      BY <2>1, <2>3
  <1>2. \A i \in 1 .. NumRows : v[i] # Advanced!NoRow => \E r \in 1 .. NumRows : v[i] = t[r]
    <2> SUFFICES ASSUME NEW i \in 1 .. NumRows, v[i] # Advanced!NoRow
                 PROVE  \E r \in 1 .. NumRows : v[i] = t[r]
      OBVIOUS
    <2>1. PICK j \in 1 .. NumRows : v[i] = u[j]
      BY DEF Keeps
    <2>2. PICK r \in 1 .. NumRows : u[j] = t[r]
      BY <2>1 DEF Keeps
    <2> QED
      BY <2>1, <2>2
  <1>3. \A i, j \in 1 .. NumRows : i # j /\ v[i] # Advanced!NoRow /\ v[j] # Advanced!NoRow =>
          \E r, s \in 1 .. NumRows : r # s /\ v[i] = t[r] /\ v[j] = t[s]
    <2> SUFFICES ASSUME NEW i \in 1 .. NumRows, NEW j \in 1 .. NumRows, i # j,
                        v[i] # Advanced!NoRow, v[j] # Advanced!NoRow
                 PROVE  \E r, s \in 1 .. NumRows : r # s /\ v[i] = t[r] /\ v[j] = t[s]
      OBVIOUS
    <2>1. PICK p \in 1 .. NumRows, q \in 1 .. NumRows : p # q /\ v[i] = u[p] /\ v[j] = u[q]
      BY DEF Keeps
    <2>2. PICK r \in 1 .. NumRows, s \in 1 .. NumRows : r # s /\ u[p] = t[r] /\ u[q] = t[s]
      BY <2>1 DEF Keeps
    <2> QED
      BY <2>1, <2>2
  <1> QED
    BY <1>1, <1>2, <1>3 DEF Keeps

LEMMA CompactedKeepsRows ==
  ASSUME NEW t \in AdvTable
  PROVE  Keeps(t, Advanced!Compacted(t))
  <1> DEFINE S == {u \in AdvTable : Keeps(t, u)}
  <1>1. t \in S
    BY DEF Keeps
  <1>2. \A u \in S, i \in 1 .. NumRows : Removed(u, i) \in S
    <2> SUFFICES ASSUME NEW u \in AdvTable, Keeps(t, u), NEW i \in 1 .. NumRows
                 PROVE  Removed(u, i) \in S
      OBVIOUS
    <2>1. Removed(u, i) \in AdvTable /\ Keeps(u, Removed(u, i))
      BY RemovedType, RemovedKeeps
    <2> QED
      BY <2>1, KeepsOn
  <1>3. Advanced!Compacted(t) \in S
    <2> HIDE DEF S
    <2> QED
      BY <1>1, <1>2, CompactedIn
  <1> QED
    BY <1>3

(* When the rows of an advanced table are all valid.                       *)
Lies(g, entries, i) ==
  LET p == ReadIn(g, entries[i])
  IN  \/ IsEmpty(p)
      \/ /\ Consistent(g, p) /\ InRange(g, p)
         /\ \A j \in (1 .. NumRows) \ {i} : Apart(g, p, ReadIn(g, entries[j]))

LEMMA WholeAdvanced ==
  ASSUME NEW g, Sound(g), NEW entries \in AdvTable
  PROVE  Whole(AdvancedIn(g, entries)) <=> \A i \in 1 .. NumRows : Lies(g, entries, i)
  <1> DEFINE rows == [i \in 1 .. NumRows |-> ReadIn(g, entries[i])]
             whole == WholeDisk(g)
             sound == {i \in DOMAIN rows : \/ IsEmpty(rows[i])
                        \/ /\ Consistent(g, rows[i]) /\ InRange(g, rows[i])
                           /\ \A j \in DOMAIN rows \ {i} : Apart(g, rows[i], rows[j])}
             checked == [i \in DOMAIN rows |-> [rows[i] EXCEPT !.valid = i \in sound]]
             early == {i \in DOMAIN rows : TooEarly(g, checked[i], whole)}
             good == sound \ early
             v == [i \in DOMAIN rows |-> [rows[i] EXCEPT !.valid = i \in good]]
  <1>1. DOMAIN entries = 1 .. NumRows
    BY DEF AdvTable
  <1>2. AdvancedIn(g, entries) = v
    BY <1>1 DEF AdvancedIn, Validated, ReadIn
  <1>3. early = {}
    <2>1. whole.level = 0
      BY WholeDiskType
    <2>2. ~(whole.level > 1)
      BY <2>1
    <2> HIDE DEF whole, checked, rows
    <2> QED
      BY <2>2 DEF TooEarly
  <1>4. good = sound
    BY <1>3
  <1>5. \A i \in 1 .. NumRows : i \in sound <=> Lies(g, entries, i)
    BY DEF Lies
  <1>6. \A i \in 1 .. NumRows : IsEmpty(rows[i]) => i \in sound
    OBVIOUS
  <1>7. \A i \in 1 .. NumRows : rows[i] \in PartLong
    BY ReadInType DEF AdvTable
  <1> HIDE DEF good, sound, early, checked
  <1>8. \A i \in 1 .. NumRows : /\ IsEmpty(v[i]) <=> IsEmpty(rows[i])
                                /\ v[i].valid <=> i \in good
    <2> SUFFICES ASSUME NEW i \in 1 .. NumRows
                 PROVE  /\ IsEmpty(v[i]) <=> IsEmpty(rows[i])
                        /\ v[i].valid <=> i \in good
      OBVIOUS
    <2> DEFINE p == rows[i]
               b == i \in good
    <2>1. p \in PartLong /\ v[i] = [p EXCEPT !.valid = b]
      BY <1>7
    <2> HIDE DEF p, b
    <2>2. /\ [p EXCEPT !.valid = b].from = p.from /\ [p EXCEPT !.valid = b].to = p.to
          /\ [p EXCEPT !.valid = b].rel = p.rel /\ [p EXCEPT !.valid = b].num = p.num
          /\ [p EXCEPT !.valid = b].valid <=> b
      BY <2>1, Zenon DEF PartLong
    <2>3. IsEmpty([p EXCEPT !.valid = b]) <=> IsEmpty(p)
      BY <2>2 DEF IsEmpty, Unplaced
    <2> QED
      BY <2>1, <2>2, <2>3, Zenon DEF p, b
  <1>9. DOMAIN v = 1 .. NumRows
    OBVIOUS
  <1> HIDE DEF v, rows
  <1> QED
    BY <1>2, <1>4, <1>5, <1>6, <1>8, <1>9 DEF Whole

(* So a table that is whole stays so when it is compacted, and it stays    *)
(* the table of the same partitions.                                       *)
LEMMA CompactedWhole ==
  ASSUME NEW g, Sound(g), NEW t \in AdvTable, NEW u \in AdvTable, Keeps(t, u),
         Whole(AdvancedIn(g, t))
  PROVE  Whole(AdvancedIn(g, u))
  <1>1. \A i \in 1 .. NumRows : Lies(g, t, i)
    BY WholeAdvanced
  <1>2. Advanced!NoRow \in AdvEntry /\ IsEmpty(ReadIn(g, Advanced!NoRow))
    <2>1. Advanced!NoRow \in AdvEntry
      BY Bounds, GeometryConstants
      DEF Advanced!NoRow, Advanced!Unused, AdvEntry, Numbers
    <2>2. Unplaced(Advanced!NoRow)
      BY DEF Advanced!NoRow, Unplaced
    <2> QED
      BY <2>1, <2>2, ReadInType
  <1>3. ASSUME NEW i \in 1 .. NumRows
        PROVE  Lies(g, u, i)
    <2>1. CASE u[i] = Advanced!NoRow
      BY <1>2, <2>1 DEF Lies
    <2>2. CASE u[i] # Advanced!NoRow /\ IsEmpty(ReadIn(g, u[i]))
      BY <2>2 DEF Lies
    <2>3. CASE u[i] # Advanced!NoRow /\ ~IsEmpty(ReadIn(g, u[i]))
      <3> DEFINE p == ReadIn(g, u[i])
      <3>1. PICK r \in 1 .. NumRows : u[i] = t[r]
        BY <2>3 DEF Keeps
      <3>2. Consistent(g, p) /\ InRange(g, p)
        BY <1>1, <2>3, <3>1 DEF Lies
      <3>3. ASSUME NEW j \in (1 .. NumRows) \ {i}
            PROVE  Apart(g, p, ReadIn(g, u[j]))
        <4>1. CASE u[j] = Advanced!NoRow
          BY <1>2, <4>1 DEF Apart
        <4>2. CASE u[j] # Advanced!NoRow
          <5>1. PICK q \in 1 .. NumRows, s \in 1 .. NumRows :
                  q # s /\ u[i] = t[q] /\ u[j] = t[s]
            BY <2>3, <4>2 DEF Keeps
          <5>2. Lies(g, t, q) /\ ~IsEmpty(ReadIn(g, t[q])) /\ s \in (1 .. NumRows) \ {q}
            BY <1>1, <2>3, <5>1
          <5>3. Apart(g, ReadIn(g, t[q]), ReadIn(g, t[s]))
            BY <5>2 DEF Lies
          <5> QED
            BY <5>1, <5>3
        <4> QED
          BY <4>1, <4>2
      <3> QED
        BY <3>2, <3>3 DEF Lies
    <2> QED
      BY <2>1, <2>2, <2>3
  <1> QED
    BY <1>3, WholeAdvanced

(* A row of the table that was read, and its entry.                        *)
Names(row, e) == row.type = e.type /\ row.rel = e.rel /\ row.num = e.num
LEMMA PartitionsAre ==
  ASSUME NEW t \in AdvTable, NEW u \in AdvTable, Keeps(t, u),
         NEW rows, DOMAIN rows = 1 .. NumRows,
         \A i \in 1 .. NumRows : Names(rows[i], u[i])
  PROVE  Partitions(rows) = Partitions(t)
  <1> DEFINE Part(e) == [type |-> e.type, rel |-> e.rel, num |-> e.num]
  <1>1. DOMAIN t = 1 .. NumRows
    BY DEF AdvTable
  <1>2. ASSUME NEW i \in 1 .. NumRows, rows[i].type # "Unused"
        PROVE  Part(rows[i]) \in Partitions(t)
    <2>1. Names(rows[i], u[i]) /\ u[i].type # "Unused"
      BY <1>2 DEF Names
    <2>2. u[i] # Advanced!NoRow
      BY <2>1 DEF Advanced!NoRow, Advanced!Unused
    <2>3. PICK r \in 1 .. NumRows : u[i] = t[r]
      BY <2>2 DEF Keeps
    <2>4. Part(rows[i]) = Part(t[r]) /\ t[r].type # "Unused"
      BY <2>1, <2>3 DEF Names
    <2> QED
      BY <1>1, <2>4 DEF Partitions
  <1>3. ASSUME NEW r \in 1 .. NumRows, t[r].type # "Unused"
        PROVE  Part(t[r]) \in Partitions(rows)
    <2>1. PICK i \in 1 .. NumRows : u[i] = t[r]
      BY <1>3 DEF Keeps
    <2>2. Part(rows[i]) = Part(t[r]) /\ rows[i].type # "Unused"
      BY <1>3, <2>1 DEF Names
    <2> QED
      BY <2>2 DEF Partitions
  <1> QED
    BY <1>1, <1>2, <1>3 DEF Partitions

(* What is on the disk after "L" of advanced data: the sectors of the      *)
(* manager are in its row, and the data can be found.                      *)
LEMMA LoadedAdvanced ==
  ASSUME Inv, at = "load", NEW d \in AdvData, d.version >= Version,
         LoadAdvanced(d), result' = "loaded"
  PROVE  LET place == d.rows[ManagerRow(d)].rel
         IN  /\ HasManager(d) /\ Whole(AdvancedIn(mem.g, d.rows))
             /\ Passes(place, 1) /\ place \in Numbers
             /\ disk' \in [Numbers -> Contents]
             /\ disk'[0] = TableOf(TRUE, place, AllHidden(mem.g))
             /\ disk'[place] = Compacted(d)
             /\ \A s \in Numbers \ {0} : disk'[s] # disk[s] =>
                  s \in place .. place + AdvSize - 1
  <1> DEFINE place == d.rows[ManagerRow(d)].rel
             manager == place + 1 .. place + AdvSize - 1
             Written(k) ==
               [s \in Numbers |->
                  IF k = 3 /\ s = 0 THEN TableOf(TRUE, place, AllHidden(mem.g))
                  ELSE IF k >= 2 /\ s \in manager THEN Code
                  ELSE IF k >= 1 /\ s = place THEN Compacted(d) ELSE disk[s]]
             passes == <<Passes(place, 1), Passes(place + 1, AdvSize - 1), Passes(0, 1)>>
             bad == {j \in 1 .. 3 : ~passes[j]}
  <1>1. /\ HasManager(d) /\ Whole(AdvancedIn(mem.g, d.rows))
        /\ bad \cap 1 .. 3 = {} /\ disk' = Written(3)
    <2>1. ~Refuse("fix the table first") /\ ~Refuse("no manager")
      BY DEF Refuse, Ends
    <2>2. /\ HasManager(d) /\ Whole(AdvancedIn(mem.g, d.rows))
          /\ \E k \in 0 .. 3 : /\ bad \cap 1 .. k = {} /\ disk' = Written(k)
                               /\ result' = IF k = 3 THEN "loaded" ELSE "not written"
      BY <2>1 DEF LoadAdvanced, Ends
    <2> HIDE DEF bad, Written
    <2>3. PICK k \in 0 .. 3 : /\ bad \cap 1 .. k = {} /\ disk' = Written(k)
                              /\ result' = IF k = 3 THEN "loaded" ELSE "not written"
      BY <2>2
    <2>4. k = 3
      BY <2>3
    <2> QED
      BY <2>2, <2>3, <2>4
  <1>2. place \in Numbers /\ place # 0
    BY <1>1, ManagerPlace
  <1>3. Passes(place, 1)
    <2>1. 1 \notin bad
      BY <1>1
    <2> QED
      BY <2>1
  <1>4. disk' \in [Numbers -> Contents]
    <2>1. Inv'
      BY LoadAdvancedKeeps
    <2> QED
      BY <2>1 DEF Inv, TypeOK
  <1>5. 0 \in Numbers /\ AdvSize \in Nat \ {0} /\ place \in Nat
    <2>1. AdvSize \in Nat \ {0}
      BY CommandConstants
    <2> QED
      BY <1>2, <2>1, Bounds DEF Numbers
  <1> HIDE DEF place, bad
  <1>6. place \notin manager /\ 0 \notin manager
    BY <1>5
  <1>7. disk'[0] = TableOf(TRUE, place, AllHidden(mem.g))
    BY <1>1, <1>5
  <1>8. disk'[place] = Compacted(d)
    BY <1>1, <1>2, <1>6
  <1>9. ASSUME NEW s \in Numbers, s # 0, disk'[s] # disk[s]
        PROVE  s \in place .. place + AdvSize - 1
    <2>1. s \in manager \/ s = place
      BY <1>1, <1>9
    <2> QED
      BY <1>5, <2>1
  <1> QED
    BY <1>1, <1>2, <1>3, <1>4, <1>7, <1>8, <1>9 DEF place

(* What compaction and conversion leave of the data.                       *)
LEMMA NoMore ==
  ASSUME NEW d \in AdvData
  PROVE  /\ Compacted(d) \in AdvData /\ Compacted(d).version = d.version
         /\ d.rows \in AdvTable /\ Compacted(d).rows \in AdvTable
         /\ Keeps(d.rows, Compacted(d).rows)
  <1>1. d.rows \in AdvTable
    BY ContentsFacts DEF AdvTable
  <1> DEFINE r == Advanced!Compacted(d.rows)
  <1>2. r \in AdvTable /\ Keeps(d.rows, r)
    BY <1>1, CompactedType, CompactedKeepsRows DEF AdvTable
  <1>3. Compacted(d) = d \/ Compacted(d) = [d EXCEPT !.rows = r]
    BY DEF Compacted
  <1>4. Keeps(d.rows, d.rows)
    BY DEF Keeps
  <1> HIDE DEF r
  <1>5. /\ [d EXCEPT !.rows = r] \in AdvData /\ [d EXCEPT !.rows = r].rows = r
        /\ [d EXCEPT !.rows = r].version = d.version
    BY <1>2 DEF AdvData, AdvTable
  <1> QED
    BY <1>1, <1>2, <1>3, <1>4, <1>5

LEMMA ConvertedIs ==
  ASSUME NEW d \in AdvData
  PROVE  /\ Converted(d) \in AdvData /\ Converted(d).rows = d.rows
         /\ Converted(d).version >= Version
         /\ d.version >= Version => Converted(d) = d
  <1>1. Version \in Nat
    BY CommandConstants
  <1>2. d.version \in Nat
    BY DEF AdvData
  <1>3. [d EXCEPT !.version = Version, !.locked = FALSE].version = Version
    BY DEF AdvData
  <1>4. /\ Converted(d).version >= Version
        /\ d.version >= Version => Converted(d) = d
    BY <1>1, <1>2, <1>3 DEF Converted
  <1> QED
    BY <1>4, ConvertedType

(* What the next command finds of it.                                      *)
LEMMA AdvancedFound ==
  ASSUME Inv, at = "load", NEW d \in AdvData, d.version >= Version,
         LoadAdvanced(d), result' = "loaded"
  PROVE  LET back == FoundOn(disk', mem.g)
         IN  /\ back.view = "ADV" /\ Whole(back.rows)
             /\ Partitions(back.rows) = Partitions(d.rows)
  <1> DEFINE place == d.rows[ManagerRow(d)].rel
             c == Compacted(d)
             rows == AdvancedIn(mem.g, c.rows)
             back == FoundOn(disk', mem.g)
  <1>1. /\ Whole(AdvancedIn(mem.g, d.rows)) /\ Passes(place, 1)
        /\ disk'[0] = TableOf(TRUE, place, AllHidden(mem.g)) /\ disk'[place] = c
    BY LoadedAdvanced
  <1>2. /\ c \in AdvData /\ c.version = d.version
        /\ d.rows \in AdvTable /\ c.rows \in AdvTable /\ Keeps(d.rows, c.rows)
    BY NoMore
  <1>3. c.kind = "data" /\ Converted(c) = c
    BY <1>2, ContentsFacts, ConvertedIs
  <1>4. Sound(mem.g)
    BY Ready
  <1>5. back.view = "ADV" /\ back.rows = rows
    <2>1. disk'[0].kind = "table" /\ disk'[0].adv /\ disk'[0].at = place
      BY <1>1 DEF TableOf
    <2> HIDE DEF c, place
    <2> QED
      BY <1>1, <1>3, <2>1 DEF FoundOn
  <1>6. Whole(rows)
    BY <1>1, <1>2, <1>4, CompactedWhole
  <1>7. DOMAIN rows = 1 .. NumRows
    <2>1. rows \in Seq(PartLong) /\ Len(rows) = NumRows
      BY <1>2, <1>4, AdvancedInType DEF AdvTable
    <2> QED
      BY <2>1
  <1>8. \A i \in 1 .. NumRows : Names(rows[i], c.rows[i])
    BY <1>2, <1>4, AdvancedInRows DEF AdvTable, Names
  <1>9. Partitions(rows) = Partitions(d.rows)
    <2> HIDE DEF rows, c
    <2> QED
      BY <1>2, <1>7, <1>8, PartitionsAre
  <1> QED
    BY <1>5, <1>6, <1>9

(* And of an MBR, if it names no advanced data.                            *)
LEMMA MbrFound ==
  ASSUME Inv, at = "load", file \in Tables, ~file.adv, NEW sectors, sectors[0] = file,
         Whole(TableIn(mem.g, file.rows, WholeDisk(mem.g)))
  PROVE  LET back == FoundOn(sectors, mem.g)
         IN  /\ back.view = "MBR" /\ Whole(back.rows)
             /\ Partitions(back.rows) = Partitions(file.rows)
  <1> DEFINE rows == TableIn(mem.g, file.rows, WholeDisk(mem.g))
             back == FoundOn(sectors, mem.g)
             t == file.rows
  <1>1. back.view = "MBR" /\ back.rows = rows
    BY DEF FoundOn
  <1>2. t \in [1 .. 4 -> Entry] /\ Sound(mem.g) /\ WholeDisk(mem.g) \in Parent
    BY ContentsFacts, Ready, WholeDiskType
  <1>3. \A i \in 1 .. 4 : Names(rows[i], t[i])
    BY <1>2, TableInRows DEF Same, Names
  <1>4. DOMAIN rows = 1 .. 4
    <2>1. rows \in Seq(PartLong) /\ Len(rows) = 4
      BY <1>2, TableInType
    <2> QED
      BY <2>1
  <1>5. DOMAIN t = 1 .. 4
    BY <1>2
  <1> HIDE DEF rows, t
  <1>6. Partitions(rows) = Partitions(t)
    BY <1>3, <1>4, <1>5 DEF Partitions, Names
  <1> QED
    BY <1>1, <1>6 DEF rows, t

(* After L the next command finds the partitions of the file, valid, and   *)
(* in the advanced table if the file has one; and a step that writes them  *)
(* writes, besides the MBR, the partition of the manager only.             *)
THEOREM LoadsTheFile == Spec => LoadRestores
  <1> DEFINE Restored ==
        file.kind = "data" \/ ~file.adv =>
          LET back == FoundOn(disk', mem.g)
          IN  /\ back.view = IF file.kind = "data" THEN "ADV" ELSE "MBR"
              /\ Partitions(back.rows) = Partitions(file.rows)
              /\ Whole(back.rows)
             Beside ==
        \A s \in Numbers \ {0} : disk'[s] # disk[s] =>
          /\ file.kind = "data"
          /\ \E i \in DOMAIN file.rows :
               /\ file.rows[i].type = Manager
               /\ s - file.rows[i].rel \in 0 .. file.rows[i].num - 1
             A == at = "load" /\ result' = "loaded" =>
       /\ file.kind = "data" \/ ~file.adv =>
            LET back == FoundOn(disk', mem.g)
            IN  /\ back.view = IF file.kind = "data" THEN "ADV" ELSE "MBR"
                /\ Partitions(back.rows) = Partitions(file.rows)
                /\ Whole(back.rows)
       /\ \A s \in Numbers \ {0} : disk'[s] # disk[s] =>
            /\ file.kind = "data"
            /\ \E i \in DOMAIN file.rows :
                 /\ file.rows[i].type = Manager
                 /\ s - file.rows[i].rel \in 0 .. file.rows[i].num - 1
  <1>1. ASSUME Inv, Next, at = "load", result' = "loaded"
        PROVE  Restored /\ Beside
    <2>1. file \in Contents /\ disk \in [Numbers -> Contents] /\ 0 \in Numbers
      BY <1>1, Typed
    <2>2. Load
      BY <1>1
      DEF Next, Running, Issue, QueryDisk, TrySize, ReadTable, Reject, NoEffect,
          EmptyRow, Save, Compare, Activate, Hide, Format, Verify, Erase, SweepOn,
          SweepFails, SweepEnds, PrintTable, PrintLogical, PrintAll, PrintRow,
          PrintNested, PrintEnds, Does
    <2>3. CASE file.kind = "table" /\ LoadMbr
      <3>1. file \in Tables
        BY <2>1, <2>3, ContentsFacts
      <3>2. /\ disk' = [disk EXCEPT ![0] = file]
            /\ Whole(TableIn(mem.g, file.rows, WholeDisk(mem.g)))
        BY <1>1, <2>3 DEF LoadMbr, Refuse, Ends
      <3>3. disk'[0] = file /\ \A s \in Numbers \ {0} : disk'[s] = disk[s]
        BY <2>1, <3>2
      <3>4. file.kind # "data"
        BY <2>3
      <3>5. Restored
        BY <1>1, <3>1, <3>2, <3>3, <3>4, MbrFound
      <3> QED
        BY <3>3, <3>5
    <2>4. CASE file.kind = "data" /\ LoadAdvanced(Converted(file))
      <3> DEFINE d == Converted(file)
      <3>1. file \in AdvData /\ d \in AdvData /\ d.rows = file.rows /\ d.version >= Version
        BY <2>1, <2>4, ContentsFacts, ConvertedIs
      <3>2. Restored
        <4> HIDE DEF d
        <4> QED
          BY <1>1, <2>4, <3>1, AdvancedFound DEF d
      <3>3. Beside
        <4> DEFINE k == ManagerRow(d)
        <4>1. /\ HasManager(d)
              /\ \A s \in Numbers \ {0} : disk'[s] # disk[s] =>
                   s \in file.rows[k].rel .. file.rows[k].rel + AdvSize - 1
          BY <1>1, <2>4, <3>1, LoadedAdvanced
        <4>2. k \in 1 .. NumRows /\ file.rows[k].type = Manager
          BY <3>1, <4>1, ManagerRowIs DEF HasManager
        <4>3. file.rows[k].num >= AdvSize
          BY <3>1, <4>1 DEF HasManager
        <4>4. /\ DOMAIN file.rows = 1 .. NumRows
              /\ file.rows[k].rel \in Nat /\ file.rows[k].num \in Nat /\ AdvSize \in Nat
          <5>1. file.rows \in [1 .. NumRows -> AdvEntry]
            BY <3>1, ContentsFacts
          <5>2. file.rows[k] \in AdvEntry /\ DOMAIN file.rows = 1 .. NumRows
            BY <4>2, <5>1
          <5>3. AdvSize \in Nat
            BY CommandConstants
          <5>4. Numbers \subseteq Nat
            BY Bounds DEF Numbers
          <5> QED
            BY <5>2, <5>3, <5>4 DEF AdvEntry
        <4> HIDE DEF k, d
        <4> SUFFICES ASSUME NEW s \in Numbers \ {0}, disk'[s] # disk[s]
                     PROVE  s - file.rows[k].rel \in 0 .. file.rows[k].num - 1
          BY <2>4, <4>2, <4>4
        <4>5. s \in file.rows[k].rel .. file.rows[k].rel + AdvSize - 1 /\ s \in Nat
          BY <4>1, Bounds DEF Numbers
        <4> QED
          BY <4>3, <4>4, <4>5
      <3> QED
        BY <3>2, <3>3
    <2>5. ~Refuse("cannot be loaded")
      BY <1>1 DEF Refuse, Ends
    <2>6. CASE file.kind = "table"
      BY <2>2, <2>3, <2>6 DEF Load
    <2>7. CASE file.kind = "data" /\ file.version <= Version
      BY <2>2, <2>4, <2>7 DEF Load
    <2>8. CASE file.kind # "table" /\ ~(file.kind = "data" /\ file.version <= Version)
      BY <2>2, <2>5, <2>8 DEF Load
    <2> QED
      BY <2>6, <2>7, <2>8
  <1>2. Inv /\ [Next]_vars => [A]_vars
    <2>1. Inv /\ Next => A
      BY <1>1
    <2> QED
      BY <2>1
  <1>3. Spec => [][A]_vars
    <2> HIDE DEF A
    <2> QED
      BY <1>2, Invariant, PTL DEF Spec
  <1> QED
    BY <1>3, PTL DEF LoadRestores

-------------------------------------------------------------------------------
(* A and H: the table that is written is read again.                      *)
(* What makes Unpacked recalculate the addresses of an entry.              *)
Redone(g, e) ==
  LET last == Wrap(e.rel + e.num - 1)
  IN  \/ Unplaced(e)
      \/ (IsMark(e.from) /\ e.rel # Abs(g, e.from))
      \/ (IsMark(e.to) /\ last # Abs(g, e.from))
      \/ IsCut(g, e.from, e.rel) \/ IsCut(g, e.to, last)

LEMMA UnpackedIs ==
  ASSUME NEW g, NEW e, e.rel \in Numbers
  PROVE  Unpacked(g, e, 0) = IF Redone(g, e) THEN Recalculated(g, e, 0) ELSE e
  <1>1. Wrap(0 + e.rel) = e.rel
    <2>1. e.rel \in Int /\ 0 + e.rel = e.rel
      BY Bounds DEF Numbers
    <2> QED
      BY <2>1, WrapFacts
  <1> QED
    BY <1>1 DEF Unpacked, Redone

(* In the MBR, Recalculated takes the addresses from the sector numbers.   *)
LEMMA RecalculatedAt ==
  ASSUME NEW g, NEW e \in Entry
  PROVE  LET u == Recalculated(g, e, 0)
         IN  /\ Same(u, e)
             /\ u.from = IF Unplaced(e) THEN NoCHS ELSE CHS(g, e.rel)
             /\ u.to = IF e.num = 0 THEN NoCHS ELSE CHS(g, Wrap(e.rel + e.num - 1))
  <1>1. e.rel \in Numbers
    BY DEF Entry
  <1>2. Wrap(0 + e.rel) = e.rel
    <2>1. e.rel \in Int /\ 0 + e.rel = e.rel
      BY <1>1, Bounds DEF Numbers
    <2> QED
      BY <1>1, <2>1, WrapFacts
  <1> DEFINE from == IF Unplaced(e) THEN NoCHS ELSE CHS(g, e.rel)
             to == IF e.num = 0 THEN NoCHS ELSE CHS(g, Wrap(e.rel + e.num - 1))
  <1>3. Recalculated(g, e, 0) = [e EXCEPT !.from = from, !.to = to]
    BY <1>2 DEF Recalculated
  <1> HIDE DEF from, to
  <1>4. LET u == [e EXCEPT !.from = from, !.to = to]
        IN  Same(u, e) /\ u.from = from /\ u.to = to
    BY DEF Entry, Same
  <1> QED
    BY <1>3, <1>4 DEF from, to

(* An address that an entry can hold is packed as it is.                   *)
LEMMA PackedFits ==
  ASSUME NEW c \in Position, NEW num \in Numbers, c.cyl <= MaxCyl
  PROVE  PackedAddress(c, num) = c
  <1>1. c.cyl \in 0 .. MaxCyl /\ MaxCyl \in Nat
    BY Bounds DEF Position, Numbers
  <1>2. c.cyl % (MaxCyl + 1) = c.cyl
    <2>1. MaxCyl + 1 \in Nat \ {0} /\ 0 \in Int /\ c.cyl \in 0 .. (MaxCyl + 1) - 1
      BY <1>1
    <2>2. ((MaxCyl + 1) * 0 + c.cyl) % (MaxCyl + 1) = c.cyl
      BY <2>1, ModUnique
    <2>3. (MaxCyl + 1) * 0 + c.cyl = c.cyl
      BY <1>1
    <2> QED
      BY <2>2, <2>3
  <1>3. ~(num > 0 /\ c.cyl > MaxCyl)
    BY <1>1
  <1>4. [c EXCEPT !.cyl = c.cyl] = c
    BY DEF Position
  <1> QED
    BY <1>2, <1>3, <1>4 DEF PackedAddress

(* The last sector of a partition, from its numbers and from its address.  *)
LEMMA LastOf ==
  ASSUME NEW a \in Numbers, NEW b \in Numbers, NEW n \in Numbers,
         Wrap(b - a + 1) = n
  PROVE  /\ Wrap(a + n - 1) = b
         /\ a = b /\ n > 0 => n = 1
  <1>1. Modulus \in Nat \ {0} /\ a \in Int /\ b \in Int /\ n \in Int
    BY Bounds DEF Numbers
  <1>2. 0 <= a /\ a < Modulus /\ 0 <= b /\ b < Modulus /\ 0 <= n /\ n < Modulus
    BY <1>1 DEF Numbers
  <1> DEFINE x == b - a + 1
             y == a + n - 1
  <1>3. x \in Int /\ x >= 2 - Modulus /\ x <= Modulus
    BY <1>1, <1>2
  <1>4. \/ x \in Numbers /\ n = x
        \/ x = Modulus /\ n = 0
        \/ x < 0 /\ n = x + Modulus
    <2>1. CASE x \in Numbers
      BY <2>1, <1>3, WrapFacts
    <2>2. CASE x = Modulus
      <3>1. x >= Modulus /\ x < 2 * Modulus
        BY <1>1, <2>2
      <3>2. Wrap(x) = x - Modulus
        BY <1>3, <3>1, WrapFacts
      <3> QED
        BY <1>1, <2>2, <3>2
    <2>3. CASE x < 0
      <3>1. x < 0 /\ x >= -Modulus
        BY <1>1, <1>3, <2>3
      <3>2. Wrap(x) = x + Modulus
        BY <1>3, <3>1, WrapFacts
      <3> QED
        BY <2>3, <3>2
    <2> QED
      BY <1>1, <1>3, <2>1, <2>2, <2>3 DEF Numbers
  <1>5. y = b \/ y = b - Modulus \/ y = b + Modulus
    BY <1>1, <1>4
  <1>6. y \in Int /\ b \in Numbers
    BY <1>1
  <1>7. Wrap(y) = b
    <2>1. CASE y = b
      BY <1>6, <2>1, WrapFacts
    <2>2. CASE y = b - Modulus
      <3>1. y < 0 /\ y >= -Modulus
        BY <1>1, <1>2, <2>2
      <3>2. Wrap(y) = y + Modulus
        BY <1>6, <3>1, WrapFacts
      <3> QED
        BY <1>1, <2>2, <3>2
    <2>3. CASE y = b + Modulus
      <3>1. y >= Modulus /\ y < 2 * Modulus
        BY <1>1, <1>2, <2>3
      <3>2. Wrap(y) = y - Modulus
        BY <1>6, <3>1, WrapFacts
      <3> QED
        BY <1>1, <2>3, <3>2
    <2> QED
      BY <1>5, <2>1, <2>2, <2>3
  <1>8. a = b /\ n > 0 => n = 1
    BY <1>1, <1>4
  <1> QED
    BY <1>7, <1>8

(* The mark is a mark.                                                     *)
LEMMA MarkIs == IsMark(Mark) /\ Mark.cyl = MaxCyl
  BY GeometryConstants DEF IsMark, Mark

(* The mark names an address, so it is taken for one where the sector has  *)
(* that number.                                                            *)
Marked(g, p) == p.num = 1 /\ p.from.cyl > MaxCyl /\ p.rel = Abs(g, Mark)

(* A row of the MBR that lies where it should comes back from its entry.   *)
LEMMA UnpackedAgain ==
  ASSUME NEW g, Sound(g), NEW e \in Entry, NEW f \in Entry,
         NEW u, u = Unpacked(g, e, 0),
         Abs(g, u.from) = u.rel, Wrap(Abs(g, u.to) - Abs(g, u.from) + 1) = u.num,
         ~Before(u.to, u.from), u.to.sect >= 1, ~Marked(g, u),
         f.rel = u.rel, f.num = u.num,
         f.from = PackedAddress(u.from, u.num), f.to = PackedAddress(u.to, u.num)
  PROVE  LET v == Unpacked(g, f, 0) IN v.from = u.from /\ v.to = u.to
  <1>1. /\ e.rel \in Numbers /\ e.num \in Numbers
        /\ e.from \in Address /\ e.to \in Address
    BY DEF Entry
  <1>2. u = IF Redone(g, e) THEN Recalculated(g, e, 0) ELSE e
    BY <1>1, UnpackedIs
  <1>3. u \in Unread /\ u.rel = e.rel /\ u.num = e.num
    <2>1. 0 \in Numbers
      BY Bounds DEF Numbers
    <2> QED
      BY <2>1, UnpackedType DEF Same
  <1>4. /\ u.from \in Position /\ u.to \in Position
        /\ u.rel \in Numbers /\ u.num \in Numbers
    BY <1>3 DEF Unread
  <1>5. Unpacked(g, f, 0) = IF Redone(g, f) THEN Recalculated(g, f, 0) ELSE f
    BY <1>4, UnpackedIs
  <1>6. ASSUME u.from.cyl <= MaxCyl PROVE f.from = u.from
    BY <1>4, <1>6, PackedFits
  <1>7. ASSUME u.to.cyl <= MaxCyl PROVE f.to = u.to
    BY <1>4, <1>7, PackedFits
  <1>8. /\ u.from.cyl \in Int /\ u.to.cyl \in Int /\ MaxCyl \in Int
        /\ u.num \in Int /\ u.num >= 0
    BY <1>4, Bounds DEF Position, Numbers
  <1>9. CASE ~Redone(g, e)
    <2>1. u = e
      BY <1>2, <1>9
    <2>2. u.from.cyl <= MaxCyl /\ u.to.cyl <= MaxCyl
      BY <1>1, <2>1, Bounds DEF Address
    <2>3. f.from = e.from /\ f.to = e.to /\ f.rel = e.rel /\ f.num = e.num
      BY <1>6, <1>7, <2>1, <2>2
    <2>4. Redone(g, f) <=> Redone(g, e)
      BY <2>3 DEF Redone, Unplaced
    <2> QED
      BY <1>5, <1>9, <2>1, <2>3, <2>4
  <1>10. CASE Redone(g, e)
    <2>1. u = Recalculated(g, e, 0)
      BY <1>2, <1>10
    <2> DEFINE last == Wrap(e.rel + e.num - 1)
    <2>2. /\ u.from = IF Unplaced(e) THEN NoCHS ELSE CHS(g, e.rel)
          /\ u.to = IF e.num = 0 THEN NoCHS ELSE CHS(g, last)
      BY <2>1, RecalculatedAt
    <2>3. e.num # 0
      <3>1. NoCHS.sect = 0
        BY DEF NoCHS
      <3> QED
        BY <2>2, <3>1
    <2>4. ~Unplaced(e) /\ ~Unplaced(f)
      BY <1>3, <2>3 DEF Unplaced
    <2>5. u.from = CHS(g, e.rel) /\ u.to = CHS(g, last)
      BY <2>2, <2>3, <2>4
    <2>6. /\ Abs(g, u.to) \in Numbers /\ Abs(g, u.from) = e.rel
          /\ Wrap(Abs(g, u.to) - e.rel + 1) = e.num
      <3>1. g \in Geometry /\ u.to \in Corner
        BY <1>4, Addresses DEF Sound
      <3> QED
        BY <1>3, <3>1, AbsType
    <2>7. last = Abs(g, u.to) /\ (e.rel = last /\ e.num > 0 => e.num = 1)
      BY <1>1, <2>6, LastOf
    <2>8. e.num > 0
      BY <1>3, <1>8, <2>3
    <2> HIDE DEF last
    <2>9. CASE Redone(g, f)
      <3>1. Unpacked(g, f, 0) = Recalculated(g, f, 0)
        BY <1>5, <2>9
      <3>2. f.rel = e.rel /\ f.num = e.num
        BY <1>3
      <3> QED
        BY <2>3, <2>4, <2>5, <3>1, <3>2, RecalculatedAt DEF last
    <2>10. CASE ~Redone(g, f)
      <3>1. Unpacked(g, f, 0) = f
        BY <1>5, <2>10
      <3>2. /\ IsMark(f.from) => e.rel = Abs(g, f.from)
            /\ IsMark(f.to) => last = Abs(g, f.from)
        BY <1>3, <2>10 DEF Redone, last
      <3>3. u.from.cyl <= MaxCyl
        <4> SUFFICES ASSUME u.from.cyl > MaxCyl PROVE FALSE
          BY <1>8
        <4>1. u.to.cyl > MaxCyl
          <5>1. ~(u.to.cyl < u.from.cyl)
            BY DEF Before
          <5> QED
            BY <1>8, <5>1
        <4>2. f.from = Mark /\ f.to = Mark
          BY <1>3, <2>8, <4>1 DEF PackedAddress
        <4>3. e.rel = Abs(g, Mark) /\ last = Abs(g, Mark)
          BY <3>2, <4>2, MarkIs
        <4>4. e.num = 1
          BY <2>7, <2>8, <4>3
        <4> QED
          BY <1>3, <4>3, <4>4 DEF Marked
      <3>4. f.from = u.from
        BY <1>6, <3>3
      <3>5. u.to.cyl <= MaxCyl
        <4> SUFFICES ASSUME u.to.cyl > MaxCyl PROVE FALSE
          BY <1>8
        <4>1. f.to = Mark
          BY <1>3, <2>8 DEF PackedAddress
        <4>2. last = e.rel
          BY <2>6, <3>2, <3>4, <4>1, MarkIs
        <4>3. u.to = u.from
          BY <2>5, <4>2
        <4> QED
          BY <3>3, <4>3, <1>8
      <3> QED
        BY <1>7, <3>1, <3>4, <3>5
    <2> QED
      BY <2>9, <2>10
  <1> QED
    BY <1>9, <1>10

(* The row that a table read from the MBR has for an entry, before it is   *)
(* checked, and whether it passes.                                         *)
ReadMbr(g, e) == RowIn(Unpacked(g, e, 0), AsContainer(g, WholeDisk(g)), 1)
Passing(g, entries, i) ==
  LET p == ReadMbr(g, entries[i])
  IN  \/ IsEmpty(p)
      \/ /\ Consistent(g, p) /\ InRange(g, p)
         /\ \A j \in (1 .. 4) \ {i} : Apart(g, p, ReadMbr(g, entries[j]))

LEMMA ReadMbrType ==
  ASSUME NEW g, Sound(g), NEW e \in Entry
  PROVE  LET p == ReadMbr(g, e)
             u == Unpacked(g, e, 0)
         IN  /\ p \in PartLong /\ Same(p, e) /\ p.from = u.from /\ p.to = u.to
             /\ p.in = AsContainer(g, WholeDisk(g)) /\ p.in.start = 0
             /\ p.level = 1 /\ p.valid = FALSE
             /\ IsEmpty(p) => Unplaced(e)
  <1> DEFINE u == Unpacked(g, e, 0)
             c == AsContainer(g, WholeDisk(g))
             p == RowIn(u, c, 1)
  <1>1. c \in Container /\ 0 \in Numbers /\ c.start = 0
    BY WholeDiskType, StartType, Bounds DEF Numbers
  <1>2. u \in Unread /\ Same(u, e)
    BY <1>1, UnpackedType
  <1> HIDE DEF u, c
  <1>3. p \in PartLong /\ Same(p, u) /\ p.from = u.from /\ p.in = c /\ p.level = 1
    BY <1>1, <1>2, RowInType
  <1>4. p.to = u.to /\ p.valid = FALSE
    BY DEF RowIn
  <1>5. p = ReadMbr(g, e)
    BY DEF ReadMbr, u, c
  <1> HIDE DEF p
  <1>6. Same(p, e) /\ (IsEmpty(p) => Unplaced(e))
    BY <1>2, <1>3 DEF Same, IsEmpty, Unplaced
  <1> QED
    BY <1>1, <1>3, <1>4, <1>5, <1>6 DEF u, c

(* The table of the MBR as it is read, row by row.                         *)
LEMMA MbrIs ==
  ASSUME NEW g, Sound(g), NEW entries \in [1 .. 4 -> Entry]
  PROVE  LET rows == TableIn(g, entries, WholeDisk(g))
         IN  /\ DOMAIN rows = 1 .. 4
             /\ \A i \in 1 .. 4 :
                  /\ rows[i] \in PartLong /\ AllBut(rows[i], ReadMbr(g, entries[i]))
                  /\ rows[i].valid <=> Passing(g, entries, i)
  <1> DEFINE whole == WholeDisk(g)
             Within(e) == IF whole.level + 1 > 2 /\ e.type = "Extended" THEN whole.in
                          ELSE AsContainer(g, whole)
             Read(e) == RowIn(Unpacked(g, e, Within(e).start), Within(e), whole.level + 1)
             rows == <<Read(entries[1]), Read(entries[2]),
                       Read(entries[3]), Read(entries[4])>>
             sound == {i \in DOMAIN rows : \/ IsEmpty(rows[i])
                        \/ /\ Consistent(g, rows[i]) /\ InRange(g, rows[i])
                           /\ \A j \in DOMAIN rows \ {i} : Apart(g, rows[i], rows[j])}
             checked == [i \in DOMAIN rows |-> [rows[i] EXCEPT !.valid = i \in sound]]
             early == {i \in DOMAIN rows : TooEarly(g, checked[i], whole)}
             good == sound \ early
             v == [i \in DOMAIN rows |-> [rows[i] EXCEPT !.valid = i \in good]]
  <1>1. TableIn(g, entries, whole) = v
    BY DEF TableIn, Validated
  <1>2. whole.level = 0 /\ AsContainer(g, whole).start = 0
    BY WholeDiskType
  <1>3. \A e : Read(e) = ReadMbr(g, e)
    <2> SUFFICES ASSUME NEW e PROVE Read(e) = ReadMbr(g, e)
      OBVIOUS
    <2>1. whole.level + 1 = 1 /\ ~(whole.level + 1 > 2)
      BY <1>2
    <2>2. Within(e) = AsContainer(g, whole) /\ Within(e).start = 0
      BY <1>2, <2>1
    <2> HIDE DEF Within, whole
    <2> QED
      BY <2>1, <2>2 DEF ReadMbr, whole
  <1>4. DOMAIN rows = 1 .. 4
    OBVIOUS
  <1> HIDE DEF Read
  <1>5. \A i \in 1 .. 4 : rows[i] = ReadMbr(g, entries[i])
    BY <1>3
  <1>6. \A i \in 1 .. 4 : rows[i] \in PartLong
    <2>1. \A i \in 1 .. 4 : entries[i] \in Entry
      OBVIOUS
    <2> HIDE DEF rows
    <2> QED
      BY <1>5, <2>1, ReadMbrType
  <1> HIDE DEF rows
  <1>7. early = {}
    <2>1. ~(whole.level > 1)
      BY <1>2
    <2> HIDE DEF whole, checked
    <2> QED
      BY <2>1 DEF TooEarly
  <1>8. good = sound
    BY <1>7
  <1>9. \A i \in 1 .. 4 : i \in sound <=> Passing(g, entries, i)
    BY <1>4, <1>5 DEF Passing
  <1> HIDE DEF good, sound, early, checked, whole
  <1>10. ASSUME NEW i \in 1 .. 4
         PROVE  /\ v[i] \in PartLong /\ AllBut(v[i], rows[i])
                /\ v[i].valid <=> i \in good
    <2> DEFINE p == rows[i]
               b == i \in good
    <2>1. p \in PartLong /\ v[i] = [p EXCEPT !.valid = b]
      BY <1>4, <1>6
    <2>2. CASE i \in good
      <3>1. v[i] = [p EXCEPT !.valid = TRUE]
        BY <2>1, <2>2
      <3> HIDE DEF p, v
      <3>2. v[i] \in PartLong /\ AllBut(v[i], p) /\ v[i].valid = TRUE
        BY <2>1, <3>1 DEF PartLong, AllBut, Same
      <3> QED
        BY <2>2, <3>2 DEF p
    <2>3. CASE i \notin good
      <3>1. (i \in good) = FALSE
        BY <2>3
      <3>2. v[i] = [p EXCEPT !.valid = FALSE]
        BY <2>1, <3>1
      <3> HIDE DEF p, v
      <3>3. v[i] \in PartLong /\ AllBut(v[i], p) /\ v[i].valid = FALSE
        BY <2>1, <3>2 DEF PartLong, AllBut, Same
      <3> QED
        BY <2>3, <3>3 DEF p
    <2> QED
      BY <2>2, <2>3
  <1>11. DOMAIN v = 1 .. 4
    BY <1>4
  <1> HIDE DEF v
  <1> QED
    BY <1>1, <1>5, <1>8, <1>9, <1>10, <1>11 DEF whole

(* Whether a row passes does not depend on its type or on the active mark. *)
Alike(p, q) ==
  /\ p.rel = q.rel /\ p.num = q.num /\ p.from = q.from /\ p.to = q.to
  /\ p.in = q.in /\ p.valid = q.valid

LEMMA AlikePass ==
  ASSUME NEW g, NEW p, NEW q, Alike(p, q)
  PROVE  /\ IsEmpty(p) <=> IsEmpty(q)
         /\ Consistent(g, p) <=> Consistent(g, q)
         /\ InRange(g, p) <=> InRange(g, q)
         /\ First(g, p) = First(g, q) /\ End(g, p) = End(g, q)
  BY DEF Alike, IsEmpty, Unplaced, Consistent, InRange, InRangeLBA, InRangeCHS,
         First, End

LEMMA AlikeApart ==
  ASSUME NEW g, NEW p, NEW q, Alike(p, q), NEW r, NEW s, Alike(r, s)
  PROVE  Apart(g, p, r) <=> Apart(g, q, s)
  BY AlikePass DEF Apart, Meets

LEMMA AlikePassing ==
  ASSUME NEW g, NEW entries, NEW others,
         \A i \in 1 .. 4 : Alike(ReadMbr(g, others[i]), ReadMbr(g, entries[i])),
         NEW i \in 1 .. 4
  PROVE  Passing(g, others, i) <=> Passing(g, entries, i)
  <1> DEFINE p == ReadMbr(g, entries[i])
             q == ReadMbr(g, others[i])
  <1>1. /\ IsEmpty(q) <=> IsEmpty(p)
        /\ Consistent(g, q) <=> Consistent(g, p)
        /\ InRange(g, q) <=> InRange(g, p)
    BY AlikePass
  <1>2. \A j \in 1 .. 4 : Apart(g, q, ReadMbr(g, others[j])) <=>
                            Apart(g, p, ReadMbr(g, entries[j]))
    BY AlikeApart
  <1> HIDE DEF p, q
  <1>3. Passing(g, entries, i) <=> \/ IsEmpty(p)
           \/ /\ Consistent(g, p) /\ InRange(g, p)
              /\ \A j \in (1 .. 4) \ {i} : Apart(g, p, ReadMbr(g, entries[j]))
    BY DEF Passing, p
  <1>4. Passing(g, others, i) <=> \/ IsEmpty(q)
           \/ /\ Consistent(g, q) /\ InRange(g, q)
              /\ \A j \in (1 .. 4) \ {i} : Apart(g, q, ReadMbr(g, others[j]))
    BY DEF Passing, q
  <1> QED
    BY <1>1, <1>2, <1>3, <1>4

(* A whole table, packed with other types and other active marks, is read  *)
(* again as it was.                                                        *)
LEMMA PackedAgain ==
  ASSUME NEW g, Sound(g), g.mode = "CHS", NEW entries \in [1 .. 4 -> Entry],
         NEW rows, rows = TableIn(g, entries, WholeDisk(g)), Whole(rows),
         \A i \in 1 .. 4 : ~Marked(g, rows[i]),
         NEW others \in [1 .. 4 -> Entry],
         \A i \in 1 .. 4 :
           /\ others[i].rel = rows[i].rel /\ others[i].num = rows[i].num
           /\ others[i].from = PackedAddress(rows[i].from, rows[i].num)
           /\ others[i].to = PackedAddress(rows[i].to, rows[i].num)
  PROVE  LET back == TableIn(g, others, WholeDisk(g))
         IN  /\ Whole(back)
             /\ \A i \in 1 .. 4 :
                  /\ back[i] \in PartLong /\ rows[i] \in PartLong
                  /\ back[i].type = others[i].type /\ back[i].active = others[i].active
                  /\ back[i].rel = rows[i].rel /\ back[i].num = rows[i].num
                  /\ back[i].from = rows[i].from /\ back[i].to = rows[i].to
                  /\ back[i].in = rows[i].in /\ back[i].level = rows[i].level
  <1> DEFINE back == TableIn(g, others, WholeDisk(g))
  <1>1. /\ DOMAIN rows = 1 .. 4
        /\ \A i \in 1 .. 4 :
             /\ rows[i] \in PartLong /\ AllBut(rows[i], ReadMbr(g, entries[i]))
             /\ rows[i].valid <=> Passing(g, entries, i)
    BY MbrIs
  <1>2. /\ DOMAIN back = 1 .. 4
        /\ \A i \in 1 .. 4 :
             /\ back[i] \in PartLong /\ AllBut(back[i], ReadMbr(g, others[i]))
             /\ back[i].valid <=> Passing(g, others, i)
    BY MbrIs
  <1> HIDE DEF back
  <1>3. \A i \in 1 .. 4 : entries[i] \in Entry /\ others[i] \in Entry
    OBVIOUS
  <1>4. ASSUME NEW i \in 1 .. 4 PROVE Passing(g, entries, i)
    <2> DEFINE p == ReadMbr(g, entries[i])
    <2>1. IsEmpty(rows[i]) \/ rows[i].valid
      BY <1>1 DEF Whole
    <2>2. CASE IsEmpty(rows[i])
      <3>1. IsEmpty(p)
        BY <1>1, <2>2 DEF AllBut, Same, IsEmpty, Unplaced
      <3> QED
        BY <3>1 DEF Passing
    <2> QED
      BY <1>1, <2>1, <2>2
  <1>5. ASSUME NEW i \in 1 .. 4
        PROVE  Alike(ReadMbr(g, others[i]), ReadMbr(g, entries[i]))
    <2> DEFINE e == entries[i]
               f == others[i]
               p == ReadMbr(g, e)
               q == ReadMbr(g, f)
               u == Unpacked(g, e, 0)
               v == Unpacked(g, f, 0)
    <2>1. e \in Entry /\ f \in Entry
      BY <1>3
    <2>2. /\ p \in PartLong /\ Same(p, e) /\ p.from = u.from /\ p.to = u.to
          /\ p.in = AsContainer(g, WholeDisk(g)) /\ p.in.start = 0
          /\ p.level = 1 /\ p.valid = FALSE /\ (IsEmpty(p) => Unplaced(e))
      BY <2>1, ReadMbrType
    <2>3. /\ q \in PartLong /\ Same(q, f) /\ q.from = v.from /\ q.to = v.to
          /\ q.in = AsContainer(g, WholeDisk(g)) /\ q.valid = FALSE
      BY <2>1, ReadMbrType
    <2>4. /\ f.rel = rows[i].rel /\ f.num = rows[i].num
          /\ f.from = PackedAddress(rows[i].from, rows[i].num)
          /\ f.to = PackedAddress(rows[i].to, rows[i].num)
          /\ ~Marked(g, rows[i]) /\ AllBut(rows[i], p)
      BY <1>1
    <2>5. u \in Unread /\ Same(u, e) /\ 0 \in Numbers
      <3>1. 0 \in Numbers
        BY Bounds DEF Numbers
      <3> QED
        BY <2>1, <3>1, UnpackedType
    <2>6. Passing(g, entries, i)
      BY <1>4
    <2>7. IsEmpty(p) \/ (Consistent(g, p) /\ InRange(g, p))
      BY <2>6 DEF Passing
    <2>8. IsEmpty(p) => Unplaced(f) /\ Unplaced(e)
      BY <2>2, <2>4 DEF AllBut, Same, Unplaced
    <2> HIDE DEF e, f, p, q, u, v
    <2>9. v.from = u.from /\ v.to = u.to
      <3>1. CASE IsEmpty(p)
        BY <2>1, <2>5, <2>8, <3>1, UnpackedPlace DEF u, v
      <3>2. CASE Consistent(g, p) /\ InRange(g, p)
        <4>1. /\ Abs(g, p.from) = Wrap(p.in.start + p.rel)
              /\ Wrap(Abs(g, p.to) - Abs(g, p.from) + 1) = p.num
          BY <3>2 DEF Consistent
        <4>2. Wrap(p.in.start + p.rel) = p.rel
          <5>1. p.rel \in Numbers /\ p.rel \in Int
            BY <2>2, Bounds DEF PartLong, Numbers
          <5>2. p.in.start + p.rel = p.rel
            BY <2>2, <5>1
          <5> QED
            BY <5>1, <5>2, WrapFacts
        <4>3. ~Before(p.to, p.from) /\ p.to.sect >= 1
          <5>1. g.sects \in Nat
            BY DEF Sound, Geometry
          <5>2. InRangeCHS(g, p)
            BY <3>2 DEF InRange
          <5>3. ~Before(p.to, p.from) /\ p.to.sect \in 1 .. g.sects
            BY <5>2 DEF InRangeCHS
          <5> QED
            BY <5>1, <5>3
        <4>4. /\ u.rel = p.rel /\ u.num = p.num /\ rows[i].rel = p.rel
              /\ rows[i].num = p.num /\ rows[i].from = p.from /\ rows[i].to = p.to
          BY <2>2, <2>4, <2>5 DEF AllBut, Same
        <4>5. ~Marked(g, u)
          BY <2>2, <2>4, <4>4 DEF Marked
        <4> QED
          BY <2>1, <2>2, <2>4, <4>1, <4>2, <4>3, <4>4, <4>5, UnpackedAgain DEF u, v
      <3> QED
        BY <2>7, <3>1, <3>2
    <2>10. Alike(q, p)
      BY <2>2, <2>3, <2>4, <2>9 DEF Alike, AllBut, Same
    <2> QED
      BY <2>10 DEF p, q, e, f
  <1>6. \A i \in 1 .. 4 : back[i].valid
    BY <1>2, <1>4, <1>5, AlikePassing
  <1>7. Whole(back)
    BY <1>2, <1>6 DEF Whole
  <1>8. ASSUME NEW i \in 1 .. 4
        PROVE  /\ back[i].type = others[i].type /\ back[i].active = others[i].active
               /\ back[i].rel = rows[i].rel /\ back[i].num = rows[i].num
               /\ back[i].from = rows[i].from /\ back[i].to = rows[i].to
               /\ back[i].in = rows[i].in /\ back[i].level = rows[i].level
    <2> DEFINE p == ReadMbr(g, entries[i])
               q == ReadMbr(g, others[i])
    <2>1. Alike(q, p)
      BY <1>5
    <2>2. Same(q, others[i]) /\ q.level = 1 /\ p.level = 1
      BY <1>3, ReadMbrType
    <2>3. AllBut(rows[i], p) /\ AllBut(back[i], q)
      BY <1>1, <1>2
    <2> HIDE DEF p, q
    <2> QED
      BY <2>1, <2>2, <2>3 DEF AllBut, Same, Alike
  <1> QED
    BY <1>1, <1>2, <1>7, <1>8 DEF back

(* Only the editor works in MODE_LBA, so a command but E has the addresses *)
(* of a row checked; and a sweep belongs to V or E, a file to L.           *)
ModesReady ==
  /\ at \in {"sizes", "table", "load", "command"} /\ cmd.name # "Erase" =>
       mem.g.mode = "CHS"
  /\ at = "sweep" => cmd.name \in {"Verify", "Erase"}
  /\ at = "load" => cmd.name = "Load"

LEMMA ForcedMode ==
  ASSUME NEW g \in Geometry, NEW f
  PROVE  Forced(g, f).mode = g.mode
  BY DEF Forced, Geometry

LEMMA WithHeadsMode ==
  ASSUME NEW g \in Geometry, NEW f
  PROVE  WithHeads(g, f).mode = g.mode
  BY DEF WithHeads, Geometry

LEMMA GeometryModes ==
  ASSUME Inv, NEW g \in Geometry, cmd.name # "Erase" => g.mode = "CHS",
         GeometryIs(g), cmd' = cmd
  PROVE  ModesReady'
  <1>1. mem.g \in Geometry /\ mem' = [mem EXCEPT !.g = Forced(g, cmd.force)] /\ at' = After
    BY Typed DEF GeometryIs
  <1>2. mem'.g = Forced(g, cmd.force)
    <2>1. mem \in [g : Geometry, view : {"MBR", "ADV"}, image : Contents,
                   rows : Seq(PartLong)]
      BY DEF Inv, TypeOK
    <2> QED
      BY <1>1, <2>1
  <1>3. mem'.g.mode = g.mode
    BY <1>2, ForcedMode
  <1> QED
    BY <1>1, <1>3 DEF ModesReady, After

LEMMA QueryDiskModes == ASSUME Inv, QueryDisk PROVE ModesReady'
  <1> DEFINE q == Queried(drive.bios, cmd.lba, cmd.name = "Erase")
             g == WithHeads(q, cmd.force)
  <1>1. drive \in Drives /\ cmd \in Asked /\ cmd.force \in ForcedCHS
    BY Typed
  <1>2. Sound(q) /\ q \in Geometry
    BY <1>1, QueriedType DEF Sound
  <1>3. cmd.name # "Erase" => q.mode = "CHS"
    BY DEF Queried
  <1> HIDE DEF q
  <1>4. g \in Geometry /\ g.mode = q.mode
    BY <1>1, <1>2, WithHeadsType, WithHeadsMode
  <1>5. cmd' = cmd /\ (GeometryIs(g) \/ (at' = "sizes" /\ mem' = [mem EXCEPT !.g = g]))
    BY DEF QueryDisk, q
  <1> HIDE DEF g
  <1>6. CASE GeometryIs(g)
    BY <1>3, <1>4, <1>5, <1>6, GeometryModes
  <1>7. CASE at' = "sizes" /\ mem' = [mem EXCEPT !.g = g]
    <2>1. mem \in [g : Geometry, view : {"MBR", "ADV"}, image : Contents,
                   rows : Seq(PartLong)]
      BY DEF Inv, TypeOK
    <2>2. mem'.g = g
      BY <1>7, <2>1
    <2> QED
      BY <1>3, <1>4, <1>5, <1>7, <2>2 DEF ModesReady
  <1> QED
    BY <1>5, <1>6, <1>7

LEMMA TrySizeModes == ASSUME Inv, ModesReady, TrySize PROVE ModesReady'
  <1> DEFINE g == [mem.g EXCEPT !.total = TestSizes[1] + 1]
  <1>1. /\ at = "sizes" /\ cmd' = cmd
        /\ (GeometryIs(g) /\ Passes(TestSizes[1], 1)) \/ UNCHANGED <<at, mem>>
    BY DEF TrySize
  <1>2. CASE UNCHANGED <<at, mem>>
    BY <1>1, <1>2 DEF ModesReady
  <1>3. CASE GeometryIs(g) /\ Passes(TestSizes[1], 1)
    <2>1. mem.g \in Geometry
      BY Typed
    <2>2. TestSizes[1] + 1 \in Numbers
      <3>1. TestSizes[1] \in Numbers /\ TestSizes[1] + 1 < Modulus
        <4>1. TestSizes \in Seq(Numbers) /\ TestSizes # << >>
          BY CommandConstants
        <4> QED
          BY <1>3, <4>1 DEF Passes
      <3> QED
        BY <3>1, Bounds DEF Numbers
    <2>3. g \in Geometry /\ g.mode = mem.g.mode
      BY <2>1, <2>2 DEF Geometry
    <2>4. cmd.name # "Erase" => g.mode = "CHS"
      BY <1>1, <2>3 DEF ModesReady
    <2> HIDE DEF g
    <2> QED
      BY <1>1, <1>3, <2>3, <2>4, GeometryModes
  <1> QED
    BY <1>1, <1>2, <1>3

LEMMA StopModes ==
  ASSUME at' \in {"idle", "info", "print", "nested"}
  PROVE  ModesReady'
  BY DEF ModesReady

LEMMA ModesStep ==
  ASSUME Inv, ListReady, ModesReady, [Next]_vars
  PROVE  ModesReady'
  <1>1. CASE UNCHANGED vars
    BY <1>1 DEF vars, ModesReady
  <1>2. CASE \/ Reject \/ NoEffect \/ EmptyRow \/ Save \/ Compare \/ Activate \/ Hide
             \/ Format \/ Load \/ SweepFails \/ SweepEnds
    BY <1>2, OtherStops, StopModes
  <1>3. CASE \E c \in Asked : Issue(c)
    BY <1>3, StopModes DEF Issue
  <1>4. CASE QueryDisk
    BY <1>4, QueryDiskModes
  <1>5. CASE TrySize
    BY <1>5, TrySizeModes
  <1>6. CASE ReadTable
    <2>1. CASE Refuse("no table")
      BY <2>1, StopModes DEF Refuse, Ends
    <2>2. CASE mem' = Found(mem.g) /\ at' = "command" /\ cmd' = cmd /\ at = "table"
      <3>1. mem'.g = mem.g
        BY <2>2 DEF Found, FoundOn
      <3> QED
        BY <2>2, <3>1 DEF ModesReady
    <2> QED
      BY <1>6, <2>1, <2>2 DEF ReadTable
  <1>7. CASE Verify \/ Erase
    <2>1. CASE Refuse("fix the table first")
      BY <2>1, StopModes DEF Refuse, Ends
    <2>2. CASE /\ at' = "sweep" /\ cmd' = cmd /\ cmd.name \in {"Verify", "Erase"}
      BY <2>2 DEF ModesReady
    <2> QED
      BY <1>7, <2>1, <2>2 DEF Verify, Erase, BeginSweep, Does
  <1>8. CASE SweepOn
    BY <1>8 DEF SweepOn, Ends, ModesReady
  <1>9. CASE PrintTable \/ PrintAll
    BY <1>9, StopModes DEF PrintTable, PrintAll
  <1>10. CASE PrintLogical
    <2>1. at' \in {"idle", "print"}
      BY <1>10 DEF PrintLogical, Refuse, Ends
    <2> QED
      BY <2>1, StopModes
  <1>11. CASE PrintRow \/ PrintNested \/ PrintEnds
    <2>1. at' \in {"idle", "nested"}
      BY <1>11 DEF PrintRow, PrintNested, PrintEnds, Refuse, Ends
    <2> QED
      BY <2>1, StopModes
  <1> QED
    BY <1>1, <1>2, <1>3, <1>4, <1>5, <1>6, <1>7, <1>8, <1>9, <1>10, <1>11
    DEF Next, Running

(* A or H writes the rows of the MBR, which are valid, with another type   *)
(* or with other active marks.                                             *)
Edited(p, q) ==
  /\ p.rel = q.rel /\ p.num = q.num /\ p.from = q.from /\ p.to = q.to
  /\ p.in = q.in /\ p.level = q.level
ReadBack(back, rows) ==
  /\ Whole(back)
  /\ \A i \in 1 .. 4 :
       LET p == rows[i]
           q == back[i]
       IN  /\ [q EXCEPT !.type = p.type, !.active = p.active, !.valid = p.valid] = p
           /\ q.type # p.type => cmd.name = "Hide" /\ i = cmd.row
           /\ q.active = IF cmd.name = "Hide" THEN p.active ELSE i = cmd.row

LEMMA RestoredRow ==
  ASSUME NEW p \in PartLong, NEW q \in PartLong, Edited(q, p)
  PROVE  [q EXCEPT !.type = p.type, !.active = p.active, !.valid = p.valid] = p
  BY DEF PartLong, Edited

LEMMA PackedFields ==
  ASSUME NEW p
  PROVE  /\ Packed(p).type = p.type /\ Packed(p).active = p.active
         /\ Packed(p).rel = p.rel /\ Packed(p).num = p.num
         /\ Packed(p).from = PackedAddress(p.from, p.num)
         /\ Packed(p).to = PackedAddress(p.to, p.num)
  BY DEF Packed

LEMMA WrittenReadsBack ==
  ASSUME Inv, ListReady, ModesReady, at = "command", mem.view = "MBR",
         cmd.name # "Erase", Checked, \A i \in 1 .. 4 : ~LooksMarked(mem.rows[i]),
         NEW rows, WriteMbr(rows), disk' # disk,
         \A i \in 1 .. 4 :
           /\ rows[i] \in PartLong /\ Edited(rows[i], mem.rows[i])
           /\ rows[i].type # mem.rows[i].type => cmd.name = "Hide" /\ i = cmd.row
           /\ rows[i].active = IF cmd.name = "Hide" THEN mem.rows[i].active
                               ELSE i = cmd.row
  PROVE  ReadBack(TableIn(mem.g, disk'[0].rows, WholeDisk(mem.g)), mem.rows)
  <1> DEFINE g == mem.g
             others == [i \in 1 .. 4 |-> Packed(rows[i])]
             back == TableIn(g, others, WholeDisk(g))
  <1>1. Sound(g) /\ g.mode = "CHS"
    BY Ready DEF ModesReady
  <1>2. disk \in [Numbers -> Contents] /\ 0 \in Numbers /\ disk[0] \in Tables
    BY Typed
  <1>3. disk[0].rows \in [1 .. 4 -> Entry]
    BY <1>2, ContentsFacts
  <1>4. mem.rows = TableIn(g, disk[0].rows, WholeDisk(g))
    <2>1. mem = Found(g)
      BY DEF ListReady
    <2>2. FoundOn(disk, g).view = "MBR"
      BY <2>1 DEF Found
    <2>3. FoundOn(disk, g).rows = TableIn(g, disk[0].rows, WholeDisk(g))
      BY <2>2 DEF FoundOn
    <2> QED
      BY <2>1, <2>3 DEF Found
  <1>5. disk'[0].rows = others
    <2>1. disk' = [disk EXCEPT ![0].rows = others]
      BY DEF WriteMbr
    <2>2. disk'[0] = [disk[0] EXCEPT !.rows = others]
      BY <1>2, <2>1
    <2>3. disk[0].rows \in [1 .. 4 -> Entry] /\ disk[0] \in Tables
      BY <1>2, <1>3
    <2> HIDE DEF others
    <2> QED
      BY <2>2, <2>3 DEF Tables
  <1>6. ASSUME NEW i \in 1 .. 4
        PROVE  /\ others[i] \in Entry
               /\ others[i].type = rows[i].type /\ others[i].active = rows[i].active
               /\ others[i].rel = mem.rows[i].rel /\ others[i].num = mem.rows[i].num
               /\ others[i].from = PackedAddress(mem.rows[i].from, mem.rows[i].num)
               /\ others[i].to = PackedAddress(mem.rows[i].to, mem.rows[i].num)
    <2> DEFINE p == rows[i]
    <2>1. p \in PartLong /\ Edited(p, mem.rows[i]) /\ others[i] = Packed(p)
      OBVIOUS
    <2> HIDE DEF p
    <2>2. /\ p.type \in RowTypes /\ p.active \in BOOLEAN /\ p.rel \in Numbers
          /\ p.num \in Numbers /\ p.from \in Position /\ p.to \in Position
      BY <2>1 DEF PartLong
    <2>3. Packed(p) \in Entry
      BY <2>2, PackedType
    <2>4. /\ Packed(p).type = p.type /\ Packed(p).active = p.active
          /\ Packed(p).rel = p.rel /\ Packed(p).num = p.num
          /\ Packed(p).from = PackedAddress(p.from, p.num)
          /\ Packed(p).to = PackedAddress(p.to, p.num)
      BY PackedFields
    <2> HIDE DEF others
    <2> QED
      BY <2>1, <2>3, <2>4 DEF Edited, p
  <1>7. others \in [1 .. 4 -> Entry]
    BY <1>6
  <1>8. Whole(mem.rows) /\ \A i \in 1 .. 4 : ~Marked(g, mem.rows[i])
    BY DEF Checked, Marked, LooksMarked
  <1> HIDE DEF others, g
  <1>9. /\ Whole(back)
        /\ \A i \in 1 .. 4 :
             /\ back[i] \in PartLong /\ mem.rows[i] \in PartLong
             /\ back[i].type = others[i].type /\ back[i].active = others[i].active
             /\ back[i].rel = mem.rows[i].rel /\ back[i].num = mem.rows[i].num
             /\ back[i].from = mem.rows[i].from /\ back[i].to = mem.rows[i].to
             /\ back[i].in = mem.rows[i].in /\ back[i].level = mem.rows[i].level
    <2> DEFINE e == disk[0].rows
               r == mem.rows
    <2>1. e \in [1 .. 4 -> Entry] /\ r = TableIn(g, e, WholeDisk(g)) /\ Whole(r)
      BY <1>3, <1>4, <1>8
    <2>2. \A i \in 1 .. 4 : ~Marked(g, r[i])
      BY <1>8
    <2>3. \A i \in 1 .. 4 :
            /\ others[i].rel = r[i].rel /\ others[i].num = r[i].num
            /\ others[i].from = PackedAddress(r[i].from, r[i].num)
            /\ others[i].to = PackedAddress(r[i].to, r[i].num)
      BY <1>6
    <2> HIDE DEF e, r
    <2>4. /\ Whole(back)
          /\ \A i \in 1 .. 4 :
               /\ back[i] \in PartLong /\ r[i] \in PartLong
               /\ back[i].type = others[i].type /\ back[i].active = others[i].active
               /\ back[i].rel = r[i].rel /\ back[i].num = r[i].num
               /\ back[i].from = r[i].from /\ back[i].to = r[i].to
               /\ back[i].in = r[i].in /\ back[i].level = r[i].level
      BY <1>1, <1>7, <2>1, <2>2, <2>3, PackedAgain
    <2> QED
      BY <2>4 DEF r
  <1> HIDE DEF back
  <1>10. ASSUME NEW i \in 1 .. 4
         PROVE  /\ [back[i] EXCEPT !.type = mem.rows[i].type,
                      !.active = mem.rows[i].active, !.valid = mem.rows[i].valid]
                     = mem.rows[i]
                /\ back[i].type # mem.rows[i].type => cmd.name = "Hide" /\ i = cmd.row
                /\ back[i].active = IF cmd.name = "Hide" THEN mem.rows[i].active
                                    ELSE i = cmd.row
    <2>1. Edited(back[i], mem.rows[i]) /\ back[i] \in PartLong /\ mem.rows[i] \in PartLong
      BY <1>9 DEF Edited
    <2>2. back[i].type = rows[i].type /\ back[i].active = rows[i].active
      BY <1>6, <1>9
    <2> QED
      BY <2>1, <2>2, RestoredRow
  <1> QED
    BY <1>5, <1>9, <1>10 DEF ReadBack, back, g

LEMMA ActivateReads ==
  ASSUME Inv, ListReady, ModesReady, Activate, disk' # disk,
         \A i \in 1 .. 4 : ~LooksMarked(mem.rows[i])
  PROVE  ReadBack(TableIn(mem.g, disk'[0].rows, WholeDisk(mem.g)), mem.rows)
  <1> DEFINE rows == [i \in 1 .. 4 |-> [mem.rows[i] EXCEPT !.active = (i = cmd.row)]]
  <1>1. /\ at = "command" /\ cmd.name = "Activate" /\ Checked /\ mem.view = "MBR"
        /\ WriteMbr(rows)
    BY DEF Activate, Does
  <1>2. ASSUME NEW i \in 1 .. 4
        PROVE  /\ rows[i] \in PartLong /\ Edited(rows[i], mem.rows[i])
               /\ rows[i].type = mem.rows[i].type /\ rows[i].active = (i = cmd.row)
    <2>1. mem.rows[i] \in PartLong
      BY <1>1, RowRead
    <2>2. CASE i = cmd.row
      <3>1. rows[i] = [mem.rows[i] EXCEPT !.active = TRUE]
        BY <2>2
      <3> HIDE DEF rows
      <3>2. /\ rows[i] \in PartLong /\ Edited(rows[i], mem.rows[i])
            /\ rows[i].type = mem.rows[i].type /\ rows[i].active = TRUE
        BY <2>1, <3>1 DEF PartLong, Edited
      <3> QED
        BY <2>2, <3>2
    <2>3. CASE i # cmd.row
      <3>1. (i = cmd.row) = FALSE
        BY <2>3
      <3>2. rows[i] = [mem.rows[i] EXCEPT !.active = FALSE]
        BY <3>1
      <3> HIDE DEF rows
      <3>3. /\ rows[i] \in PartLong /\ Edited(rows[i], mem.rows[i])
            /\ rows[i].type = mem.rows[i].type /\ rows[i].active = FALSE
        BY <2>1, <3>2 DEF PartLong, Edited
      <3> QED
        BY <3>1, <3>3
    <2> QED
      BY <2>2, <2>3
  <1> HIDE DEF rows
  <1>3. cmd.name # "Erase" /\ cmd.name # "Hide"
    BY <1>1
  <1> QED
    BY <1>1, <1>2, <1>3, WrittenReadsBack

LEMMA HideReads ==
  ASSUME Inv, ListReady, ModesReady, Hide, disk' # disk,
         \A i \in 1 .. 4 : ~LooksMarked(mem.rows[i])
  PROVE  ReadBack(TableIn(mem.g, disk'[0].rows, WholeDisk(mem.g)), mem.rows)
  <1> DEFINE t == Toggled(TheRow.type)
             rows == [mem.rows EXCEPT ![cmd.row].type = t]
  <1>1. /\ at = "command" /\ cmd.name = "Hide" /\ Checked /\ mem.view = "MBR"
    BY DEF Hide, Does
  <1>2. /\ TheRow.type \in DOMAIN Hides \cup {Hides[x] : x \in DOMAIN Hides}
        /\ WriteMbr(rows)
    <2>1. ~Refuse("cannot be hidden")
      BY DEF Refuse
    <2> QED
      BY <2>1 DEF Hide, TheRow
  <1>3. t \in RowTypes
    <2>1. DOMAIN Hides \subseteq RowTypes /\ \A x \in DOMAIN Hides : Hides[x] \in RowTypes
      BY CommandConstants
    <2>2. CASE TheRow.type \in DOMAIN Hides
      BY <2>1, <2>2 DEF Toggled
    <2>3. CASE TheRow.type \notin DOMAIN Hides
      <3>1. \E x \in DOMAIN Hides : Hides[x] = TheRow.type
        BY <1>2, <2>3
      <3>2. t = CHOOSE x \in DOMAIN Hides : Hides[x] = TheRow.type
        BY <2>3 DEF Toggled
      <3>3. t \in DOMAIN Hides
        BY <3>1, <3>2
      <3> QED
        BY <2>1, <3>3
    <2> QED
      BY <2>2, <2>3
  <1> HIDE DEF t
  <1>4. ASSUME NEW i \in 1 .. 4
        PROVE  /\ rows[i] \in PartLong /\ Edited(rows[i], mem.rows[i])
               /\ rows[i].type # mem.rows[i].type => i = cmd.row
               /\ rows[i].active = mem.rows[i].active
    <2>1. mem.rows[i] \in PartLong /\ cmd.row \in 1 .. 4
      BY <1>1, RowRead, Typed
    <2>2. i \in DOMAIN mem.rows
      <3>1. Len(mem.rows) >= 4 /\ mem.rows \in Seq(PartLong)
        BY <1>1, Typed DEF Inv, RowsReady
      <3> QED
        BY <3>1
    <2>3. rows[i] = IF i = cmd.row THEN [mem.rows[i] EXCEPT !.type = t] ELSE mem.rows[i]
      BY <2>2
    <2> HIDE DEF rows
    <2> QED
      BY <1>3, <2>1, <2>3 DEF PartLong, Edited
  <1> HIDE DEF rows
  <1>5. cmd.name # "Erase"
    BY <1>1
  <1> QED
    BY <1>1, <1>2, <1>4, <1>5, WrittenReadsBack

(* After A or H the table that is read again is valid, with every          *)
(* partition where it was, and what was asked for is the only difference:  *)
(* but for a row that LooksMarked.                                         *)
THEOREM RepackedReads == Spec => RepackedReadsBack
  <1> DEFINE A == (/\ cmd.name \in {"Activate", "Hide"} /\ disk' # disk
                   /\ ~\E i \in 1 .. 4 : LooksMarked(mem.rows[i])) =>
       LET back == TableIn(mem.g, disk'[0].rows, WholeDisk(mem.g))
       IN  /\ Whole(back)
           /\ \A i \in 1 .. 4 :
                LET p == mem.rows[i]
                    q == back[i]
                IN  /\ [q EXCEPT !.type = p.type, !.active = p.active,
                                 !.valid = p.valid] = p
                    /\ q.type # p.type => cmd.name = "Hide" /\ i = cmd.row
                    /\ q.active = IF cmd.name = "Hide" THEN p.active
                                  ELSE i = cmd.row
  <1>1. ASSUME Inv, ListReady, ModesReady, Next, cmd.name \in {"Activate", "Hide"},
               disk' # disk
        PROVE  Activate \/ Hide
    <2>1. at # "sweep" /\ at # "load"
      BY <1>1 DEF ModesReady
    <2> QED
      BY <1>1, <2>1
      DEF Next, Running, Issue, QueryDisk, TrySize, ReadTable, Reject, NoEffect,
          EmptyRow, Save, Compare, Format, Load, Verify, Erase, BeginSweep, SweepOn,
          SweepFails, SweepEnds, PrintTable, PrintLogical, PrintAll, PrintRow,
          PrintNested, PrintEnds, Does, Refuse
  <1>2. ASSUME Inv, ListReady, ModesReady, Next PROVE A
    <2> SUFFICES ASSUME cmd.name \in {"Activate", "Hide"}, disk' # disk,
                        ~\E i \in 1 .. 4 : LooksMarked(mem.rows[i])
                 PROVE  ReadBack(TableIn(mem.g, disk'[0].rows, WholeDisk(mem.g)), mem.rows)
      BY DEF ReadBack
    <2>1. \A i \in 1 .. 4 : ~LooksMarked(mem.rows[i])
      OBVIOUS
    <2> QED
      BY <1>1, <1>2, <2>1, ActivateReads, HideReads
  <1>3. UNCHANGED vars => A
    BY DEF vars
  <1>4. Inv /\ ListReady /\ ModesReady /\ [Next]_vars => [A]_vars
    BY <1>2, <1>3
  <1>5. Init => ModesReady
    BY DEF Init, ModesReady
  <1>6. Init => ListReady
    BY DEF Init, ListReady, RecursivePrintsEveryDrive, ListIsComplete
  <1>7. RepackedReadsBack <=> [][A]_vars
    BY DEF RepackedReadsBack
  <1> HIDE DEF A
  <1> QED
    BY <1>4, <1>5, <1>6, <1>7, InitReady, NextKeeps, ListStep, ModesStep, PTL DEF Spec
===============================================================================
