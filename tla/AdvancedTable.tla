---------------------------- MODULE AdvancedTable -----------------------------
(***************************************************************************)
(* The table of the advanced boot manager as a value: how the partition    *)
(* manager arranges and saves it (PART.C, PART_AUX.C), how the boot        *)
(* manager adds to it what has changed in the MBR, and how it builds the   *)
(* four rows of the MBR from it (MANAGE.ASM).                              *)
(***************************************************************************)
EXTENDS Integers, Sequences, FiniteSets, SequencesExt

CONSTANTS NumRows,   \* rows of the advanced table (MAX_PART_ROWS, 32)
          DiskEnd,   \* dinfo.total_sects
          CylEnd,    \* SECT_PER_CYL * DISK_NUM_CYLS
          Half,      \* numbers are two words of this many values (2^16)
          AdvSize,   \* sectors the manager needs (ADV_NUM_SECTS, 20)
          MinFree,   \* the free space "H" shows is larger (63 sectors)
          OsTypes    \* types of partitions an operating system knows

ASSUME TableConstants ==
  /\ NumRows \in Nat \ {0} /\ Half \in Nat \ {0}
  /\ DiskEnd \in 2 .. Half * Half - 1 /\ CylEnd \in 1 .. Half * Half - 1
  /\ MinFree \in Nat /\ AdvSize \in 1 .. DiskEnd

Unused == "Unused"
Manager == "Advanced Boot Manager"
Hidden == "Hidden (0xFF)"
Types == OsTypes \cup {Unused, Manager, Hidden}

(* The type bytes of the manager and of hidden space are none of a system. *)
ASSUME TypesApart == OsTypes \cap {Unused, Manager, Hidden} = {}

Rows == 1 .. NumRows
Slots == 1 .. 4
Numbers == 0 .. Half * Half - 1
Row == [type : Types, tag : Nat, orig : 0 .. 4, rel : Numbers, num : Numbers]
NoRow == [type |-> Unused, tag |-> 0, orig |-> 0, rel |-> 0, num |-> 0]
Entry == [type : OsTypes \cup {Unused, Hidden}, rel : Numbers, num : Numbers,
          active : BOOLEAN]
NoEntry == [type |-> Unused, rel |-> 0, num |-> 0, active |-> FALSE]

Shows == <<"One", "Last", "Next", "Prev", "Last3">>
Item == [kind : {"empty", "part", "next", "floppy", "invalid"}, tag : Nat,
         show : {Shows[k] : k \in DOMAIN Shows}]

Wrap(n) == n % (Half * Half)
Area(x) == {s \in 0 .. DiskEnd - 1 : s >= x.rel /\ s - x.rel < x.num}
Padded(seq, n, x) == [i \in 1 .. n |-> IF i <= Len(seq) THEN seq[i] ELSE x]

-------------------------------------------------------------------------------
(* PART.EXE.  The manager must have a row, and enough sectors: the first   *)
(* row of its type is made large enough, or the last row, if it is unused, *)
(* becomes its row.                                                        *)
ManagerRow(table) == SelectInSeq(table, LAMBDA p : p.type = Manager)
WithManager(table) ==
  LET k == ManagerRow(table)
  IN  IF k # 0
      THEN IF table[k].num >= AdvSize THEN table
           ELSE [table EXCEPT ![k].num = AdvSize]
      ELSE IF table[NumRows].type # Unused THEN table
      ELSE [table EXCEPT ![NumRows].type = Manager, ![NumRows].num = AdvSize]

(* A sequence in another order: ahead[i] are those that come before i.      *)
Ranked(seq, ahead) ==
  LET places == {<<i, Cardinality(ahead[i]) + 1>> : i \in DOMAIN seq}
  IN  [k \in DOMAIN seq |-> seq[CHOOSE i \in DOMAIN seq : <<i, k>> \in places]]
StartsBefore(seq, i, j) ==
  seq[i].rel < seq[j].rel \/ (seq[i].rel = seq[j].rel /\ i < j)

(* The bubble sort moves used rows before unused ones and sorts them; rows *)
(* that start at the same place, and the unused ones, keep their order.    *)
Used(table) == {r \in Rows : table[r].type # Unused}
Precedes(table, q, r) ==
  IF table[q].type = Unused THEN table[r].type = Unused /\ q < r
  ELSE table[r].type = Unused \/ StartsBefore(table, q, r)
Sorted(table) ==
  Ranked(table, [r \in Rows |-> {q \in Rows : Precedes(table, q, r)}])
Gap(p, from, to) == [p EXCEPT !.rel = from, !.num = to - from]

(* Of a sorted table, row k is the next.  Unused rows, the last one first, *)
(* describe the gaps, as long as there are any left behind the n used      *)
(* ones.  With none left the loop ends at the row after the gap, and that  *)
(* row is given the rest of the disk.                                      *)
Placed(acc, sorted, n, k) ==
  LET p == sorted[k]
  IN  IF acc.full THEN [acc EXCEPT !.rows = Append(@, p)]
      ELSE IF p.rel <= acc.start
      THEN [acc EXCEPT !.rows = Append(@, p),
                       !.start = IF @ > p.rel + p.num THEN @ ELSE p.rel + p.num]
      ELSE IF acc.spare = n
      THEN [acc EXCEPT !.full = TRUE,
              !.rows = Append(@, IF acc.start < DiskEnd
                                 THEN Gap(p, acc.start, DiskEnd) ELSE p)]
      ELSE [rows |-> acc.rows \o <<Gap(sorted[acc.spare], acc.start, p.rel), p>>,
            start |-> p.rel + p.num, spare |-> acc.spare - 1, full |-> FALSE]
Adjusted(table) ==
  LET sorted == Sorted(table)
      n == Cardinality(Used(table))
      after[k \in 0 .. n] ==
        IF k = 0
        THEN [rows |-> << >>, start |-> 1, spare |-> NumRows, full |-> FALSE]
        ELSE Placed(after[k - 1], sorted, n, k)
      end == after[n]
      Rest(k, p) == IF k = 1 /\ end.start < DiskEnd
                    THEN Gap(p, end.start, DiskEnd) ELSE Gap(p, 0, 0)
  IN  end.rows \o [k \in 1 .. end.spare - n |-> Rest(k, sorted[n + k])]
Arranged(table) == Adjusted(WithManager(table))

(* validate_table, for the rows of any table: those with a place are       *)
(* behind the MBR, inside the disk, and apart; the sums wrap.              *)
IsEmpty(p) == p.rel = 0 /\ p.num = 0
Reaches(p, s) == p.rel <= s /\ s <= Wrap(p.rel + p.num - 1)
SoundRows(table) ==
  \A r \in DOMAIN table : IsEmpty(table[r]) \/
    /\ table[r].rel \in 1 .. DiskEnd - 1 /\ table[r].num \in 1 .. DiskEnd + 1
    /\ Wrap(table[r].rel + table[r].num - 1) < DiskEnd
    /\ \A q \in DOMAIN table \ {r} : IsEmpty(table[q]) \/
         ~(Reaches(table[r], table[q].rel) \/ Reaches(table[q], table[r].rel))
ValidTable(table) ==
  /\ SoundRows(table)
  /\ LET k == ManagerRow(table) IN k # 0 => table[k].num >= AdvSize

(* prepare_adv_mbr_for_save: with ADV_OPT_IGN_UNUSED the unused rows are   *)
(* removed.  After each removal the loop goes on with the next row, so it  *)
(* does not look at the one that has moved up.                             *)
Compacted(table) ==
  LET Without(t, i) ==
        IF t[i].type # Unused THEN t
        ELSE [r \in Rows |-> IF r < i THEN t[r]
                             ELSE IF r < NumRows THEN t[r + 1] ELSE NoRow]
      after[i \in 0 .. NumRows] ==
        IF i = 0 THEN table ELSE Without(after[i - 1], i)
  IN  after[NumRows]
Saved(table, ignore) ==
  IF ignore THEN Compacted(Arranged(table)) ELSE Arranged(table)

(* The MBR of a saved advanced table: the whole disk is hidden.            *)
AllHidden ==
  Padded(<<[type |-> Hidden, rel |-> 1, num |-> DiskEnd - 1, active |-> TRUE]>>,
         4, NoEntry)

-------------------------------------------------------------------------------
(* IMPORT_NEW_PART: what an operating system has changed in the MBR.  The  *)
(* first row that starts where the entry does decides.                     *)
Importable(e) == e.type \notin {Unused, Hidden} /\ e.rel # 0
Starting(table, e) == SelectInSeq(table, LAMBDA p : p.rel = e.rel)
FreeRow(table) == SelectLastInSeq(table, LAMBDA p : p.type = Unused)

(* Not the code: an entry is known when a row starts at its place.         *)
IsKnownByStart(table, e) == Starting(table, e) # 0
IsKnown(table, e) ==
  LET r == Starting(table, e)
  IN  r # 0 /\ table[r].num = e.num /\ table[r].type # Manager

ImportEntry(table, e, k) ==
  IF ~Importable(e) THEN table
  ELSE IF IsKnown(table, e)
  THEN [table EXCEPT ![Starting(table, e)].type = e.type]
  ELSE IF FreeRow(table) = 0 THEN table
  ELSE [table EXCEPT ![FreeRow(table)] =
          [type |-> e.type, tag |-> 0, orig |-> k,
           rel |-> e.rel, num |-> e.num]]
Imported(table, rows) ==
  LET With(t, k) == ImportEntry(t, rows[k], k)
  IN  With(With(With(With(table, 1), 2), 3), 4)

(* IMPORTED_FLAG: 16 when the last change was a new row, 1 when it was a   *)
(* new type.                                                               *)
WithFlag(acc, e, k) ==
  [table |-> ImportEntry(acc.table, e, k),
   flag |-> IF ImportEntry(acc.table, e, k) = acc.table THEN acc.flag
            ELSE IF IsKnown(acc.table, e) THEN 1 ELSE 16]
ImportedFlag(table, rows) ==
  LET With(acc, k) == WithFlag(acc, rows[k], k)
      start == [table |-> table, flag |-> 0]
  IN  With(With(With(With(start, 1), 2), 3), 4).flag

-------------------------------------------------------------------------------
(* MAKE_PART_TAB.  First, which rows to show with row a of the table: up   *)
(* to three, in the order of the table.                                    *)
LastRow(table) ==
  LET first == SelectInSeq(table, LAMBDA p : p.num = 0)
  IN  IF first = 0 THEN NumRows ELSE first - 1

Together(a, last, show) ==
  CASE show = "Next" /\ a # last -> <<a, a + 1>>
    [] show = "Prev" /\ a # 1 -> <<a - 1, a>>
    [] show = "Last3" /\ last >= 3 /\ a >= last - 2 ->
         <<last - 2, last - 1, last>>
    [] show \in {"Last", "Last3"} /\ a # last -> <<a, last>>
    [] OTHER -> <<a>>

(* The first piece of unused space, for H.                                 *)
FirstFree(table) ==
  LET r == SelectInSeq(table, LAMBDA p : p.type = Unused /\ p.num > MinFree)
  IN  IF r = 0 THEN << >> ELSE <<r>>

(* Two numbers are compared word by word.                                  *)
Behind(x, y) == x \div Half > y \div Half \/ x % Half > y % Half

(* Then the rows, the gaps between them and the rest of the disk, in four  *)
(* slots.  A row becomes active if it is row a.                            *)
Piece(p, act) == [type |-> p.type, orig |-> p.orig, rel |-> p.rel,
                  num |-> p.num, active |-> act]
HiddenPiece(from, to, act) ==
  [type |-> Hidden, orig |-> 0, rel |-> from, num |-> Wrap(to - from),
   active |-> act]
NoPiece == Piece(NoRow, FALSE)
First4(seq) == SubSeq(seq, 1, IF Len(seq) < 4 THEN Len(seq) ELSE 4)

WithRow(acc, table, r, a, ignore) ==
  LET p == table[r]
      skip == ignore /\ acc.prev # 0 /\ acc.prev = r - 1
      gap == IF Behind(p.rel, acc.cur) /\ ~skip
             THEN <<HiddenPiece(acc.cur, p.rel, FALSE)>> ELSE << >>
  IN  [out |-> First4(acc.out \o gap \o <<Piece(p, r = a)>>),
       cur |-> Wrap(p.rel + p.num), prev |-> r]
Pieces(table, list, a, ignore) ==
  LET Show(acc, k) == IF k > Len(list) THEN acc
                      ELSE WithRow(acc, table, list[k], a, ignore)
      start == [out |-> << >>, cur |-> table[1].rel, prev |-> 0]
  IN  Show(Show(Show(start, 1), 2), 3)

(* Not the code: without the last piece.                                   *)
FilledNoTail(table, list, a, ignore) ==
  Padded(Pieces(table, list, a, ignore).out, 4, NoPiece)

Filled(table, list, a, ignore) ==
  LET shown == Pieces(table, list, a, ignore)
      rest == HiddenPiece(shown.cur, CylEnd, shown.out = << >>)
  IN  Padded(IF Len(shown.out) = 4 \/ rest.num = 0 THEN shown.out
             ELSE Append(shown.out, rest), 4, NoPiece)

(* Not the code: the mark of the active row stays in its slot.             *)
SettledMark(slots) ==
  LET k == SelectInSeq(slots, LAMBDA p : p.orig # 0)
      to == slots[k].orig
  IN  IF k = 0 THEN slots
      ELSE [i \in Slots |->
              LET p == IF i = to THEN [slots[k] EXCEPT !.orig = 0]
                       ELSE IF i = k THEN slots[to] ELSE slots[i]
              IN  [p EXCEPT !.active = slots[i].active]]

(* Last, the rows that belong into a certain slot are exchanged with what  *)
(* is there, the first of them first.                                      *)
Settled(slots) ==
  LET k == SelectInSeq(slots, LAMBDA p : p.orig # 0)
      to == slots[k].orig
  IN  IF k = 0 THEN slots
      ELSE [i \in Slots |-> IF i = to THEN [slots[k] EXCEPT !.orig = 0]
                            ELSE IF i = k THEN slots[to] ELSE slots[i]]

(* Not the code: the low byte of the type, which says it is the manager's. *)
MbrEntryLow(p) ==
  IF p.type = Unused THEN NoEntry
  ELSE [type |-> p.type, rel |-> p.rel, num |-> p.num, active |-> p.active]

(* p_os_id + 1: the manager's own partition is of a hidden type.           *)
MbrEntry(p) ==
  IF p.type = Unused THEN NoEntry
  ELSE [type |-> IF p.type = Manager THEN Hidden ELSE p.type,
        rel |-> p.rel, num |-> p.num, active |-> p.active]
MadePartTab(table, list, a, ignore) ==
  LET filled == Filled(table, list, a, ignore)
      slots == Settled(Settled(Settled(Settled(filled))))
  IN  [k \in Slots |-> MbrEntry(slots[k])]
===============================================================================
