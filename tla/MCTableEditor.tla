----------------------------- MODULE MCTableEditor -----------------------------
(* Disks of a few sectors and tables of two rows.                          *)
EXTENDS TableEditor

TypesChosen == {None, Fat32, Ext}

Row1(type, rel, num) == [Blank EXCEPT ![1] = [type |-> type, rel |-> rel, num |-> num]]
Row12(t1, r1, n1, t2, r2, n2) ==
  [Row1(t1, r1, n1) EXCEPT ![2] = [type |-> t2, rel |-> r2, num |-> n2]]

(* What a boot sector would be, read as a partition table.                 *)
Junk == Row1(Hidden, 3, 9)

(* A partition beside an extended one; in that a partition and a nested    *)
(* table with a partition of its own.                                      *)
NestedDisk == [s \in Sectors |->
  IF s = 0 THEN Row12(Data, 1, 1, Ext, 2, 6)
  ELSE IF s = 2 THEN Row12(Data, 1, 1, Ext, 2, 4)
  ELSE IF s = 4 THEN Row1(Data, 1, 2) ELSE Blank]

(* An extended partition with one partition inside.                        *)
FlatDisk == [s \in Sectors |->
  IF s = 0 THEN Row12(Data, 1, 2, Ext, 3, 5)
  ELSE IF s = 3 THEN Row1(Data, 1, 2) ELSE Blank]

FlatDisks == {FlatDisk}
NestedDisks == {NestedDisk}
SomeFiles == {Row1(Data, 1, 6)}
NoFiles == {}
===============================================================================
