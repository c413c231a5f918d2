--------------------------- MODULE MCBootRecordSetup ---------------------------
(* BootRecordSetup with small numbers: 5 stands for 63, 7 for 255, 15 for  *)
(* 65535, 9 for 999999999 and 31 for 2^32 - 1; more than 8 clusters are    *)
(* FAT-32.                                                                 *)
EXTENDS BootRecordSetup

TheWidths == [f \in Fields |-> CASE f = "drive" -> 8 [] f \in {"hid", "big"} -> 32
                                 [] OTHER -> 16]
TheLimits == [kind \in {16, 32} |-> [f \in Fields |->
  CASE f \in {"drive", "sides"} -> 7 [] f = "track" -> 5 [] f = "total" -> 15
    [] f \in {"hid", "big"} -> IF kind = 16 THEN 9 ELSE 31]]

Ent(kind) == [kind |-> kind, name |-> Zero]
Lab(l) == [kind |-> "label", name |-> l]
Record(l, total, big) ==
  [label |-> l, magic |-> TRUE, code |-> FALSE,
   num |-> [f \in Fields |-> CASE f = "total" -> total [] f = "big" -> big
                               [] f = "track" -> 9 [] OTHER -> 1]]
Expected(total, big) ==
  [f \in Fields |-> CASE f = "total" -> total [] f = "big" -> big
                      [] f = "track" -> 5 [] OTHER -> 2]

Fat16(l, d) ==
  [kind |-> 16, sane |-> TRUE, inh |-> TRUE, nonData |-> 3, clust |-> 1,
   searched |-> Len(d), expected |-> Expected(10, 0),
   record |-> Record(l, 8, 0), dir |-> d]
Fat32(l, d, n) ==
  [Fat16(l, d) EXCEPT !.kind = 32, !.searched = n,
                      !.expected = Expected(0, 20), !.record = Record(l, 0, 18)]

(* A label after the parts of a long name, no label, a full directory, a   *)
(* deleted label before the live one, and a record that is all zeros;      *)
(* labels in and behind the first cluster.                                 *)
TheVolumes == {
  Fat16("A", <<Ent("long"), Ent("file"), Lab("A"), EndEntry>>),
  Fat16(NoName, <<Ent("gone"), Ent("file"), EndEntry, EndEntry>>),
  Fat16(NoName, <<Ent("long"), Ent("file")>>),
  Fat16("A", <<Ent("goneLabel"), Ent("file"), Lab("A"), EndEntry>>),
  Fat16(Zero, <<Lab("A"), Ent("file"), EndEntry>>),
  [Fat16("A", <<Lab("A")>>) EXCEPT !.inh = FALSE],
  [Fat16("A", <<Lab("A")>>) EXCEPT !.sane = FALSE],
  Fat32("A", <<Lab("A"), Ent("long"), Ent("file"), EndEntry>>, 2),
  Fat32(NoName, <<Ent("long"), Ent("file"), EndEntry, EndEntry>>, 4),
  Fat32("A", <<Ent("long"), Ent("file"), Lab("A"), EndEntry>>, 2)}
===============================================================================
