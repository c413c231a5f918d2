---------------------------- MODULE DiskGeometry -----------------------------
(***************************************************************************)
(* Sector numbers, and the cylinders, heads and sectors that stand for     *)
(* them: how the geometry of a disk is found (get_disk_info of DISKIOC.C), *)
(* how a row of a partition table is packed and unpacked (PART_AUX.C), and *)
(* when it is valid where no editor has chosen MODE_LBA.                   *)
(***************************************************************************)
EXTENDS Integers, Sequences, FiniteSets, SequencesExt

CONSTANTS Modulus,       \* sector numbers are below it (2^32)
          RowTypes,      \* the types a row can have
          MaxCyl,        \* the last cylinder an entry can hold (1023)
          MaxHead, MaxSect,     \* the last head and sector (255, 63)
          MarkHead, MarkSect,   \* an address behind it is marked (254, 63)
          FewHeads,      \* heads that are not believed of a large disk (16)
          VirtualHeads   \* [over, heads], the largest size first

ASSUME GeometryConstants ==
  /\ Modulus \in Nat \ {0} /\ {"Unused", "Extended"} \subseteq RowTypes
  /\ MaxCyl \in Nat /\ MaxHead \in Nat /\ MaxSect \in Nat \ {0}
  /\ MarkHead \in 0 .. MaxHead /\ MarkSect \in 1 .. MaxSect
  /\ (MaxCyl + 1) * ((MaxHead + 1) * (MaxSect + 1)) <= Modulus
  /\ FewHeads \in Nat
  /\ VirtualHeads \in Seq([over : Nat, heads : 1 .. MaxHead + 1])

Numbers == 0 .. Modulus - 1
Wrap(n) == n % Modulus

(* A disk as the BIOS describes it, dinfo, an entry of a table, and a row  *)
(* in memory, whose addresses may have cylinders that no entry can hold.   *)
Bios == [cyls : Nat, heads : 1 .. MaxHead + 1, sects : 1 .. MaxSect,
         lba : BOOLEAN, total : Numbers]
ForcedCHS == [cyls : Nat, heads : 0 .. MaxHead, sects : 0 .. MaxSect]
Geometry ==
  [cyls : Nat, heads : 1 .. MaxHead + 1, sects : 1 .. MaxSect,
   perTrack : 1 .. MaxSect, perCyl : Nat \ {0}, lba : BOOLEAN,
   mode : {"CHS", "LBA"}, total : Numbers]
Address == [cyl : 0 .. MaxCyl, head : 0 .. MaxHead, sect : 0 .. MaxSect]
Position == [cyl : Numbers, head : 0 .. MaxHead, sect : 0 .. MaxSect]
Corner == [cyl : Int, head : Int, sect : Int]
Container == [start : Numbers, num : Numbers, from : Corner, to : Corner]
Entry == [type : RowTypes, active : BOOLEAN, rel : Numbers, num : Numbers,
          from : Address, to : Address]
PartLong == [type : RowTypes, active : BOOLEAN, rel : Numbers, num : Numbers,
             from : Position, to : Position, in : Container, level : Nat,
             valid : BOOLEAN]

-------------------------------------------------------------------------------
(* A geometry is the part of dinfo that get_disk_info fills in; perTrack   *)
(* stays what the BIOS said when another number of sectors is forced.  The *)
(* editor works in MODE_LBA on a disk that has it, the command line never. *)
PerCyl(heads, sects) == heads * sects

(* Int 13h: the disk has that many sectors by its CHS parameters, or by    *)
(* those of the extensions, if they are there and not switched off (-x).   *)
Queried(bios, lba, editor) ==
  [cyls |-> bios.cyls, heads |-> bios.heads, sects |-> bios.sects,
   perTrack |-> bios.sects, perCyl |-> PerCyl(bios.heads, bios.sects),
   lba |-> bios.lba /\ lba,
   mode |-> IF bios.lba /\ lba /\ editor THEN "LBA" ELSE "CHS",
   total |-> IF bios.lba /\ lba THEN bios.total
             ELSE bios.cyls * PerCyl(bios.heads, bios.sects)]

(* A large disk with few heads is given more, unless heads are forced.     *)
WithHeads(g, force) ==
  LET k == SelectInSeq(VirtualHeads, LAMBDA v : g.total > v.over)
  IN  IF g.lba /\ g.heads <= FewHeads /\ force.heads = 0 /\ k # 0
      THEN [g EXCEPT !.heads = VirtualHeads[k].heads] ELSE g

(* Not the code: a size in more than 32 bits.                              *)
ForcedLong(g, force) ==
  [g EXCEPT !.total = IF force.cyls = 0 THEN @
                      ELSE force.cyls * force.heads * force.sects]

(* What is forced (-g) replaces what was found, and what follows from it   *)
(* is calculated again: the cylinders from the size, or the other way.     *)
Forced(g, force) ==
  LET Or(x, y) == IF x # 0 THEN x ELSE y
      f == [g EXCEPT !.sects = Or(force.sects, @), !.heads = Or(force.heads, @),
                     !.cyls = Or(force.cyls, @)]
      per == PerCyl(f.heads, f.sects)
  IN  IF ~(f.lba \/ force.heads # 0 \/ force.sects # 0) THEN f
      ELSE IF force.cyls = 0
      THEN [f EXCEPT !.perCyl = per, !.cyls = (f.total + per - 1) \div per]
      ELSE [f EXCEPT !.perCyl = per, !.total = Wrap(f.cyls * per)]

-------------------------------------------------------------------------------
NoCHS == [cyl |-> 0, head |-> 0, sect |-> 0]
CHS(g, s) == [cyl |-> s \div g.perCyl, head |-> (s % g.perCyl) \div g.sects,
              sect |-> ((s % g.perCyl) % g.sects) + 1]
Abs(g, c) == Wrap(c.cyl * g.perCyl + c.head * g.perTrack + c.sect - 1)

NoEntry == [type |-> "Unused", active |-> FALSE, rel |-> 0, num |-> 0,
            from |-> NoCHS, to |-> NoCHS]
Unplaced(p) == p.rel = 0 /\ p.num = 0

(* MODE_LBA: the addresses follow from the sector numbers.                 *)
Recalculated(g, p, base) ==
  LET first == Wrap(base + p.rel)
  IN  [p EXCEPT !.from = IF Unplaced(p) THEN NoCHS ELSE CHS(g, first),
                !.to = IF p.num = 0 THEN NoCHS
                       ELSE CHS(g, Wrap(first + p.num - 1))]

(* Not the code: only the cylinder is set to its mark.                     *)
MarkedCylinder(c, num) ==
  [c EXCEPT !.cyl = IF num > 0 /\ @ > MaxCyl THEN MaxCyl ELSE @ % (MaxCyl + 1)]

(* An address whose cylinder does not fit is replaced by the mark.         *)
Mark == [cyl |-> MaxCyl, head |-> MarkHead, sect |-> MarkSect]
PackedAddress(c, num) ==
  IF num > 0 /\ c.cyl > MaxCyl THEN Mark
  ELSE [c EXCEPT !.cyl = @ % (MaxCyl + 1)]
Packed(p) ==
  [type |-> p.type, active |-> p.active, rel |-> p.rel, num |-> p.num,
   from |-> PackedAddress(p.from, p.num), to |-> PackedAddress(p.to, p.num)]

(* An entry with the mark, or an address that was cut off, is recalculated *)
(* - the mark at its end also if it is the address of the last sector.     *)
IsMark(c) == c.cyl = MaxCyl /\ c.head >= MarkHead /\ c.sect = MarkSect
IsCut(g, c, s) ==
  CHS(g, s).cyl > MaxCyl /\ c = [CHS(g, s) EXCEPT !.cyl = @ % (MaxCyl + 1)]
Unpacked(g, e, base) ==
  LET first == Wrap(base + e.rel)
      last == Wrap(first + e.num - 1)
  IN  IF \/ Unplaced(e)
         \/ (IsMark(e.from) /\ first # Abs(g, e.from))
         \/ (IsMark(e.to) /\ last # Abs(g, e.from))
         \/ IsCut(g, e.from, first) \/ IsCut(g, e.to, last)
      THEN Recalculated(g, e, base) ELSE e

-------------------------------------------------------------------------------
(* A row in memory has a container as well, and the level of its table.    *)
IsEmpty(p) == p.from = NoCHS /\ p.to = NoCHS /\ Unplaced(p)
Before(c, d) ==
  \/ c.cyl < d.cyl
  \/ c.cyl = d.cyl /\ c.head < d.head
  \/ c.cyl = d.cyl /\ c.head = d.head /\ c.sect < d.sect
ByNumbers(g, p) == g.mode = "LBA" \/ p.valid
Start(g, p) ==
  IF ByNumbers(g, p) THEN Wrap(p.in.start + p.rel) ELSE Abs(g, p.from)
Size(g, p) ==
  IF ByNumbers(g, p) THEN p.num ELSE Wrap(Abs(g, p.to) - Abs(g, p.from) + 1)
AsContainer(g, p) ==
  [start |-> Start(g, p), num |-> p.num, from |-> p.from, to |-> p.to]

(* The whole disk, as the row that the MBR is the table of.                *)
Nothing == [start |-> 0, num |-> 0, from |-> NoCHS, to |-> NoCHS]
WholeDisk(g) ==
  [type |-> "Unused", active |-> FALSE, rel |-> 0, num |-> g.total,
   from |-> [NoCHS EXCEPT !.sect = 1],
   to |-> IF g.mode = "LBA" THEN CHS(g, Wrap(g.total - 1))
          ELSE [cyl |-> g.cyls - 1, head |-> g.heads - 1, sect |-> g.sects],
   in |-> Nothing, level |-> 0, valid |-> TRUE]

-------------------------------------------------------------------------------
(* validate_table, for the rows of one table.                              *)
Consistent(g, p) ==
  /\ Abs(g, p.from) = Wrap(p.in.start + p.rel)
  /\ Wrap(Abs(g, p.to) - Abs(g, p.from) + 1) = p.num
InRangeCHS(g, p) ==
  /\ ~Before(p.to, p.from) /\ ~Before(p.in.to, p.to)
  /\ Before(p.in.from, p.from)
  /\ \A c \in {p.from, p.to} :
       c.cyl < g.cyls /\ c.head < g.heads /\ c.sect \in 1 .. g.sects
InRangeLBA(p) ==
  /\ p.rel # 0 /\ p.rel < p.in.num /\ Wrap(p.num - 1) <= p.in.num
  /\ Wrap(p.rel + p.num - 1) < p.in.num
InRange(g, p) == IF g.mode = "LBA" THEN InRangeLBA(p) ELSE InRangeCHS(g, p)
First(g, p) ==
  IF g.mode = "LBA" THEN Wrap(p.in.start + p.rel) ELSE Abs(g, p.from)
End(g, p) ==
  IF g.mode = "LBA" THEN Wrap(First(g, p) + p.num - 1) ELSE Abs(g, p.to)
Meets(g, p, q) == First(g, q) \in First(g, p) .. End(g, p)
Apart(g, p, q) == IsEmpty(q) \/ ~(Meets(g, p, q) \/ Meets(g, q, p))

(* A link of a chain of tables may not lead back into its own partition.   *)
TooEarly(g, p, parent) ==
  /\ parent.level > 1 /\ p.type = "Extended"
  /\ Start(g, p) < Wrap(Start(g, parent) + Size(g, parent))
Validated(g, rows, parent) ==
  LET sound == {i \in DOMAIN rows : \/ IsEmpty(rows[i])
                  \/ /\ Consistent(g, rows[i]) /\ InRange(g, rows[i])
                     /\ \A j \in DOMAIN rows \ {i} : Apart(g, rows[i], rows[j])}
      checked == [i \in DOMAIN rows |-> [rows[i] EXCEPT !.valid = i \in sound]]
      early == {i \in DOMAIN rows : TooEarly(g, checked[i], parent)}
  IN  [i \in DOMAIN rows |-> [rows[i] EXCEPT !.valid = i \in sound \ early]]
Whole(rows) == \A i \in DOMAIN rows : IsEmpty(rows[i]) \/ rows[i].valid

(* Not the code: every table counts as a table of the first level.         *)
TopRow(e, container, level) ==
  [type |-> e.type, active |-> e.active, rel |-> e.rel, num |-> e.num,
   from |-> e.from, to |-> e.to, in |-> container, level |-> 1, valid |-> FALSE]

(* The rows of the table that lies in partition p.  Behind the second      *)
(* level a link is relative to what its table's partition is relative to.  *)
RowIn(e, container, level) ==
  [type |-> e.type, active |-> e.active, rel |-> e.rel, num |-> e.num,
   from |-> e.from, to |-> e.to, in |-> container, level |-> level,
   valid |-> FALSE]
TableIn(g, entries, p) ==
  LET Within(e) ==
        IF p.level + 1 > 2 /\ e.type = "Extended" THEN p.in ELSE AsContainer(g, p)
      Read(e) == RowIn(Unpacked(g, e, Within(e).start), Within(e), p.level + 1)
  IN  Validated(g, <<Read(entries[1]), Read(entries[2]),
                    Read(entries[3]), Read(entries[4])>>, p)

(* The advanced table has sector numbers only.                             *)
AdvancedIn(g, entries) ==
  LET whole == WholeDisk(g)
      Read(e) == RowIn(Recalculated(g, [NoEntry EXCEPT !.type = e.type,
                                          !.rel = e.rel, !.num = e.num], 0),
                       AsContainer(g, whole), 1)
  IN  Validated(g, [i \in DOMAIN entries |-> Read(entries[i])], whole)
===============================================================================
