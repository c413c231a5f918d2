--------------------------- MODULE MCAdvancedEditor ---------------------------
(* Disks of two dozen sectors, a manager of two, and four items.           *)
EXTENDS AdvancedEditor

P(type, tag, place, rel, num) ==
  [type |-> type, tag |-> tag, orig |-> place, rel |-> rel, num |-> num]
E(type, rel, num, act) ==
  [type |-> type, rel |-> rel, num |-> num, active |-> act]
Sect(code, magic, at, rows) ==
  [code |-> code, magic |-> magic, at |-> at, rows |-> Padded(rows, 4, NoEntry)]
Empty == [s \in Places |-> NoData]
I(kind, tag, show) == [kind |-> kind, tag |-> tag, show |-> show]

(* A disk with a table of the advanced manager: its row behind a           *)
(* partition, a gap, a partition without a tag.                            *)
AdvOf(rows, items, ignore) ==
  [ZeroAdv EXCEPT !.signed = TRUE, !.menu = Padded(items, MenuLen, NoItem),
     !.part = Saved(Padded(rows, NumRows, NoRow), ignore), !.ignore = ignore]
AdvDisk(rows, items, ignore, at) ==
  [mbr |-> Sect("Advanced", TRUE, at, SubSeq(AllHidden, 1, 1)),
   data |-> [Empty EXCEPT ![at] = Stored(AdvOf(rows, items, ignore), TRUE)]]

MidDisk == AdvDisk(<<P(Fat, 1, 0, 1, 3), P(Manager, 0, 0, 5, 2),
                     P(Linux, 0, 4, 7, 3)>>,
                   <<I("part", 1, "Next"), I("floppy", 0, "One")>>, TRUE, 5)

(* Disks with an MBR: a partition behind the first track, a hidden one     *)
(* that begins earlier, an extended one; a full disk.                      *)
PlainDisk == [mbr |-> Sect("Standard", FALSE, 0,
                <<E(Linux, 8, 1, TRUE), E(Swap, 9, 1, FALSE),
                  E(HiddenFat, 4, 2, FALSE)>>), data |-> Empty]
ExtDisk == [mbr |-> Sect("Compact", FALSE, 0,
              <<NoEntry, E(Extended, 5, 5, FALSE), E(Fat, 1, 3, TRUE)>>),
            data |-> Empty]
FullDisk == [mbr |-> Sect("Standard", FALSE, 0,
               <<E(HiddenFat, 1, 10, FALSE), E(NoEntry.type, 0, 0, FALSE)>>),
             data |-> Empty]
Start(d, n) == [disk |-> d, left |-> n]
AllDisks == {Start(MidDisk, 2), Start(PlainDisk, 3), Start(ExtDisk, 3),
             Start(FullDisk, 2)}
Mids == {Start(MidDisk, 2)}
===============================================================================
