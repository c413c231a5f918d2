---------------------------- MODULE MCCommandLine -----------------------------
(***************************************************************************)
(* Disks of up to 35 sectors, two to a track and two tracks to a cylinder, *)
(* of which entries of a table can name two: sector 8 and those behind it  *)
(* are marked.  Sector numbers end at 35.                                  *)
(***************************************************************************)
EXTENDS CommandLine

MCVirtual == <<[over |-> 16, heads |-> 2]>>
MCTestSizes == <<25, 19>>
MCHides == [t \in {"FAT"} |-> "Hidden FAT"]
MCTypes == {"Unused", "Extended", "FAT", "Hidden FAT", "Linux",
            "Hidden (0xFF)", Manager}
MCFatTypes == {"FAT", "Hidden FAT"}

NoForce == [cyls |-> 0, heads |-> 0, sects |-> 0]
Reported(total) == [cyls |-> 4, heads |-> 1, sects |-> 2, lba |-> TRUE, total |-> total]
Geo(total) == Forced(WithHeads(Queried(Reported(total), TRUE, FALSE), NoForce), NoForce)

At(type, rel, num, base) ==
  LET e == Recalculated(Geo(28), [NoEntry EXCEPT !.type = type, !.rel = rel,
                                                 !.num = num], base)
      Fits(c) == IF c.cyl > MaxCyl THEN Mark ELSE c
  IN  [e EXCEPT !.from = Fits(@), !.to = Fits(@)]
Rows4(rows) == [i \in 1 .. 4 |-> IF i <= Len(rows) THEN rows[i] ELSE NoEntry]
Holding(f) == [s \in Numbers |-> IF s \in DOMAIN f THEN f[s] ELSE Blank]
Drive(total, readable, bad, f) ==
  [bios |-> Reported(total), readable |-> readable, bad |-> bad, disk |-> Holding(f)]

Mbr(rows) == TableOf(FALSE, 0, Rows4(rows))
Adv(type, rel, num) ==
  [type |-> type, tag |-> 0, orig |-> 0, rel |-> rel, num |-> num]
NoAdv == Adv("Unused", 0, 0)

Plain == <<[At("FAT", 2, 2, 0) EXCEPT !.active = TRUE], At("FAT", 5, 5, 0)>>
Chain(links) ==
  (0 :> Mbr(Append(Plain, At("Extended", 12, 16, 0)))) @@
  [s \in {12 + 4 * k : k \in 0 .. links - 1} |->
     Mbr(IF s = 12 + 4 * (links - 1) THEN <<At("FAT", 1, 3, s)>>
         ELSE <<At("FAT", 1, 3, s), At("Extended", s - 8, 4, 12)>>)]

LongChain == Drive(28, 28, {}, Chain(3))
LongerChain == Drive(28, 28, {18}, Chain(4))
Circle ==
  Drive(28, 28, {},
        (0 :> Mbr(<<At("Extended", 4, 20, 0)>>)) @@
        (4 :> Mbr(<<At("FAT", 1, 2, 4), At("Extended", 4, 4, 4)>>)) @@
        (8 :> Mbr(<<At("FAT", 1, 2, 8), At("Extended", 0, 3, 4)>>)))
WithAdvanced ==
  Drive(28, 28, {5},
        (0 :> TableOf(TRUE, 20, Rows4(<<At("Hidden (0xFF)", 1, 27, 0)>>))) @@
        (20 :> DataOf(2, FALSE, TRUE, <<Adv("FAT", 2, 6), Adv("Linux", 9, 4),
                                        Adv(Manager, 20, 3), NoAdv>>)))
LastNumber == Drive(35, 36, {}, 0 :> Mbr(<<At("FAT", 2, 2, 0), At("FAT", 30, 6, 0)>>))
Around == Drive(35, 36, {}, 0 :> Mbr(<<At("FAT", 2, 35, 0)>>))
Shrunk == Drive(30, 26, {}, 0 :> Mbr(Plain))
Inaccessible == Drive(30, 20, {}, 0 :> Mbr(Plain))
Old ==
  [Drive(16, 16, {7}, 0 :> Mbr(<<At("FAT", 2, 4, 0), At("FAT", 6, 9, 0)>>)) EXCEPT
     !.bios = [cyls |-> 4, heads |-> 2, sects |-> 2, lba |-> FALSE, total |-> 0]]
MCDrives == {Old, LongChain, LongerChain, Circle, WithAdvanced, LastNumber, Around,
             Shrunk, Inaccessible}
MCLongChain == {LongChain}

MCFiles ==
  {Cut, Mbr(<<At("FAT", 2, 4, 0)>>), Mbr(<<At("FAT", 2, 4, 0), At("FAT", 4, 4, 0)>>),
   DataOf(2, TRUE, TRUE, <<Adv("FAT", 2, 6), NoAdv, NoAdv, Adv(Manager, 10, 2)>>),
   DataOf(3, FALSE, TRUE, <<Adv("FAT", 12, 6), Adv(Manager, 10, 1), NoAdv, NoAdv>>),
   DataOf(4, FALSE, TRUE, <<NoAdv, NoAdv, NoAdv, NoAdv>>)}

Ask(name, row) == [name |-> name, row |-> row, force |-> NoForce, lba |-> TRUE]
MCAsked ==
  {Ask(n, 1) : n \in {"Save", "Load", "Compare", "Print", "PrintAll"}} \cup
  {Ask(n, r) : n \in {"Activate", "Hide", "Format", "Verify", "Erase"}, r \in 1 .. 3} \cup
  {[Ask(n, 1) EXCEPT !.force = f] : n \in {"Activate", "Verify"},
     f \in {[NoForce EXCEPT !.heads = 2], [NoForce EXCEPT !.sects = 3],
            [cyls |-> 10, heads |-> 2, sects |-> 2]}} \cup
  {[Ask("Verify", 1) EXCEPT !.lba = FALSE], [Ask("Erase", 1) EXCEPT !.lba = FALSE]}
MCPrint == {Ask("Print", 1)}
MCNoFile == {Cut}
===============================================================================
