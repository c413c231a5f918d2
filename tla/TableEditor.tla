----------------------------- MODULE TableEditor ------------------------------
(***************************************************************************)
(* setup_mbr of PART.C: the interactive editor of a partition table, in    *)
(* MODE_LBA, with the editors of extended partitions nested inside it.     *)
(* One action is one key: what its handler does, and then the head of the  *)
(* loop up to the next get_event, which recalculates, validates, packs the *)
(* rows into the sector buffer and compares that with data_orig.           *)
(*                                                                         *)
(* The rows say where a partition is relative to a container; the MBR, the *)
(* tables of extended partitions and everything the formatting commands    *)
(* overwrite are sectors of one disk.                                      *)
(***************************************************************************)
EXTENDS Integers, Sequences, FiniteSets

CONSTANTS DiskSize,    \* dinfo.total_sects
          Modulus,     \* sector numbers wrap here (2^32 in the code)
          NumRows,     \* rows of a table (4 in the code)
          Track,       \* dinfo.num_sects
          ChsMax,      \* CHS_MAX_SECT: beyond it types become "LBA" types
          Values,      \* numbers that get typed into the fields
          Choices,     \* types that get chosen from the list
          Disks,       \* what may be on the disk to begin with
          Files,       \* tables that may be in files
          Boot,        \* a boot sector or file data, read as a table
          MaxLevel,    \* bound: editors that are open at a time
          MaxEdits, MaxFormats, MaxFaults  \* bounds

VARIABLES disk,    \* sector -> the table in it
          stack,   \* the open editors, from the MBR's to the current one
          lost,    \* history: the editors (places in stack) whose last
                   \* save has failed, or whose table was overwritten
          edits, formats, faults   \* counters of the bounds
vars == <<disk, stack, lost, edits, formats, faults>>

None == "Unused"
Ext == "Extended"
ExtLba == "Extended LBA"
HiddenExt == "Hidden Extended"
HiddenLba == "Hidden Extended LBA"
ExtTypes == {Ext, ExtLba, HiddenExt, HiddenLba}
Data == "FAT-16"
HiddenData == "Hidden FAT-16"
Fat32 == "FAT-32"
Fat32Lba == "FAT-32 LBA"
HiddenFat32 == "Hidden FAT-32"
HiddenFat32Lba == "Hidden FAT-32 LBA"
FatTypes == {Data, HiddenData, Fat32, Fat32Lba, HiddenFat32, HiddenFat32Lba}
Hidden == "Hidden (0xFF)"
Types == {None, Hidden} \cup ExtTypes \cup FatTypes

Rows == 1 .. NumRows
Sectors == 0 .. DiskSize - 1
Numbers == 0 .. Modulus - 1
Entry == [type : Types, rel : Numbers, num : Numbers]
Table == [Rows -> Entry]
NoEntry == [type |-> None, rel |-> 0, num |-> 0]
Blank == [r \in Rows |-> NoEntry]

ASSUME EditorConstants ==
  /\ DiskSize \in Nat \ {0} /\ Modulus \in Nat /\ DiskSize < Modulus
  /\ NumRows \in Nat \ {0} /\ Track \in Numbers /\ ChsMax \in Nat
  /\ Values \subseteq Numbers /\ Choices \subseteq Types
  /\ Disks \subseteq [Sectors -> Table] /\ Files \subseteq Table
  /\ Boot \in Table
  /\ MaxLevel \in Nat \ {0} /\ MaxEdits \in Nat /\ MaxFormats \in Nat
  /\ MaxFaults \in Nat

(* Not the code: a difference that does not wrap.                          *)
SubSigned(a, b) == a - b

(* Arithmetic of an unsigned long.                                         *)
Add(a, b) == (a + b) % Modulus
Sub(a, b) == (a - b) % Modulus

-------------------------------------------------------------------------------
(* A row in memory: an entry, the base and the size of its container, and  *)
(* what validate_table says of it.                                         *)
Row == [type : Types, rel : Numbers, num : Numbers, cbase : Numbers,
        cnum : Numbers, empty : BOOLEAN, valid : BOOLEAN]

Base(p) == Add(p.cbase, p.rel)                  \* QUICK_BASE
End(p) == Sub(Add(Base(p), p.num), 1)           \* QUICK_END
Packed(part) == [r \in Rows |-> [type |-> part[r].type, rel |-> part[r].rel,
                                 num |-> part[r].num]]

(* An open editor: its partition p (the whole disk, or an extended         *)
(* partition) with the container of that, what it inherits from its        *)
(* parents, its rows, and data_orig.  sure is history: every row it was    *)
(* entered through could be trusted and was valid.                         *)
Editor == [level : 0 .. MaxLevel, base : Sectors, num : Numbers,
           obase : Numbers, onum : Numbers,
           inhChanged : BOOLEAN, inhInvalid : BOOLEAN, sure : BOOLEAN,
           part : [Rows -> Row], orig : Table]

Top == stack[Len(stack)]
Changed(e) == Packed(e.part) # e.orig
InhChanged(e) == Changed(e) \/ e.inhChanged
InhInvalid(e, r) == ~e.part[r].valid \/ e.inhInvalid

(* The container of a row of the given type: nested extended partitions    *)
(* are counted from the outermost one, everything else from this one.      *)
Outer(e, type) == e.level + 1 > 2 /\ type = Ext
WithContainer(e, p) ==
  [p EXCEPT !.cbase = IF Outer(e, p.type) THEN e.obase ELSE e.base,
            !.cnum = IF Outer(e, p.type) THEN e.onum ELSE e.num]

(* A row is counted from where a reader of its type would count it.  Only  *)
(* Insert and reading the table see to that: Hide does not.                *)
Placed(e, p) == WithContainer(e, p) = p

(* unpack_part_tab.  What valid was before is left to validate_table.      *)
Unpack(e, table, junk) ==
  [r \in Rows |-> WithContainer(e,
     [type |-> table[r].type, rel |-> table[r].rel, num |-> table[r].num,
      cbase |-> 0, cnum |-> 0, empty |-> FALSE, valid |-> junk[r]])]

(* adjust_part_type: an LBA type beyond the reach of CHS addresses, and no *)
(* LBA type below it or in a nested table.                                 *)
LbaType(t) == CASE t = Ext -> ExtLba
                [] t = HiddenExt -> HiddenLba
                [] t = Fat32 -> Fat32Lba
                [] t = HiddenFat32 -> HiddenFat32Lba
                [] OTHER -> t
ChsType(t) == CASE t = ExtLba -> Ext
                [] t = HiddenLba -> HiddenExt
                [] t = Fat32Lba -> Fat32
                [] t = HiddenFat32Lba -> HiddenFat32
                [] OTHER -> t
Adjusted(e, p) ==
  [p EXCEPT !.type = IF End(p) >= ChsMax /\ e.level = 0 THEN LbaType(@)
                     ELSE ChsType(@)]

(* validate_table.                                                         *)
IsEmpty(p) == p.rel = 0 /\ p.num = 0
MbrErr(p) == p.rel = 0
RangeErr(p) == \/ p.rel >= p.cnum
               \/ Sub(p.num, 1) > p.cnum
               \/ Sub(Add(p.rel, p.num), 1) >= p.cnum
Overlap(p, q) == \/ Base(p) >= Base(q) /\ Base(p) <= End(q)
                 \/ Base(q) >= Base(p) /\ Base(q) <= End(p)
OrderErr(e, p) ==
  e.level > 1 /\ p.type = Ext /\ Base(p) < Add(e.base, e.num)
Valid(e, part, r) ==
  /\ IF IsEmpty(part[r]) THEN part[r].valid
     ELSE /\ ~MbrErr(part[r]) /\ ~RangeErr(part[r])
          /\ \A q \in Rows \ {r} :
               IsEmpty(part[q]) \/ ~Overlap(part[r], part[q])
  /\ ~OrderErr(e, part[r])
Validated(e, part) ==
  [r \in Rows |-> [part[r] EXCEPT !.empty = IsEmpty(part[r]),
                                  !.valid = Valid(e, part, r)]]

(* force_initialize: the rows are those of the sector buffer.              *)
Initialized(e, table, junk) == Validated(e, Unpack(e, table, junk))
ValidOf(e) == [r \in Rows |-> e.part[r].valid]

(* What the screen says of row r can be trusted: it is counted from the    *)
(* right container, its flags are what validate_table would say now (Hide, *)
(* and Insert on an existing partition, do not ask), and it does not wrap, *)
(* which validate_table overlooks on disks of more than half the modulus.  *)
(* An empty row is never trusted: its flag is whatever it was before.      *)
Trusted(e, r) ==
  LET p == e.part[r]
  IN  /\ e.sure /\ Placed(e, p)
      /\ ~IsEmpty(p) /\ ~p.empty
      /\ p.valid = Valid(e, e.part, r)
      /\ Base(p) <= End(p)

(* force_recalculate on row r.                                             *)
Recalculated(e, part, r) ==
  Validated(e, [part EXCEPT ![r] = Adjusted(e, @)])

(* A fresh editor on the table in sector base.  The array of rows comes    *)
(* from malloc: junk is what the flags of its rows happen to be.           *)
Opened(e, junk) ==
  [e EXCEPT !.part = Initialized(e, disk[e.base], junk),
            !.orig = disk[e.base]]

Whole(junk) ==
  Opened([level |-> 0, base |-> 0, num |-> DiskSize, obase |-> 0, onum |-> 0,
          inhChanged |-> FALSE, inhInvalid |-> FALSE, sure |-> TRUE,
          part |-> << >>, orig |-> Blank], junk)

Init ==
  /\ disk \in Disks
  /\ \E junk \in [Rows -> BOOLEAN] : stack = <<Whole(junk)>>
  /\ lost = {}
  /\ edits = 0 /\ formats = 0 /\ faults = 0

-------------------------------------------------------------------------------
(* The current editor changes; its parents stay as they are.               *)
SetTop(e) == stack' = [stack EXCEPT ![Len(stack)] = e]
Edited(part) == /\ edits < MaxEdits /\ edits' = edits + 1
                /\ SetTop([Top EXCEPT !.part = part])
                /\ UNCHANGED <<disk, lost, formats, faults>>

(* Digits, BkSp, + and - in a number field.                                *)
EditField(r) ==
  \E v \in Values, field \in {"rel", "num"} :
     LET p == IF field = "rel" THEN [Top.part[r] EXCEPT !.rel = v]
              ELSE [Top.part[r] EXCEPT !.num = v]
     IN  Edited(Recalculated(Top, [Top.part EXCEPT ![r] = p], r))

(* The numbers that Insert proposes for a new partition in row r.          *)
Proposed(e, part, r) ==
  LET p == part[r]
      rel == IF r > 1 /\ ~part[r - 1].empty
             THEN Add(part[r - 1].rel, part[r - 1].num) ELSE Track
      num == IF r < NumRows /\ ~part[r + 1].empty
             THEN Sub(part[r + 1].rel, rel) ELSE Sub(p.cnum, rel)
      next == Sub(Add(e.base, e.num), e.obase)  \* after p, from its container
  IN  IF Outer(e, p.type)
      THEN [p EXCEPT !.rel = next, !.num = Sub(p.cnum, next)]
      ELSE [p EXCEPT !.rel = rel, !.num = num]

(* Insert: choose a type, or leave it at that; the second row of a nested  *)
(* table is preset to Extended.  A new partition gets numbers, and is      *)
(* validated; an existing one only changes its type, and its container     *)
(* with that.                                                              *)
Preset(e, r) == IF e.level > 0 /\ r = 2 /\ e.part[r].type = None THEN Ext
                ELSE e.part[r].type
Insert(r) ==
  \E type \in Choices \cup {Preset(Top, r)} :
    LET e == Top
        p == WithContainer(e, [e.part[r] EXCEPT !.type = type])
        chosen == [e.part EXCEPT ![r] = p]
        new == [chosen EXCEPT ![r] = Adjusted(e, Proposed(e, chosen, r))]
    IN  Edited(IF p.empty /\ type # None THEN Recalculated(e, new, r)
               ELSE [chosen EXCEPT ![r] = Adjusted(e, @)])

Delete(r) ==
  LET p == [Top.part[r] EXCEPT !.type = None, !.rel = 0, !.num = 0,
                               !.valid = FALSE]
  IN  Edited(Recalculated(Top, [Top.part EXCEPT ![r] = p], r))

(* Hide: the type changes and nothing else.                                *)
HideType(t) == CASE t = Data -> HiddenData
                 [] t = HiddenData -> Data
                 [] t = Fat32 -> HiddenFat32
                 [] t = HiddenFat32 -> Fat32
                 [] t = Fat32Lba -> HiddenFat32Lba
                 [] t = HiddenFat32Lba -> Fat32Lba
                 [] t = ExtLba -> HiddenLba
                 [] t = HiddenLba -> ExtLba
                 [] OTHER -> Hidden
Hide(r) == Edited([Top.part EXCEPT ![r].type = HideType(@)])

(* Load: the table of a file replaces the buffer.                          *)
Load ==
  \E table \in Files : Edited(Initialized(Top, table, ValidOf(Top)))

(* F3 - Undo.                                                              *)
Undo ==
  /\ SetTop([Top EXCEPT !.part = Initialized(Top, Top.orig, ValidOf(Top))])
  /\ UNCHANGED <<disk, lost, edits, formats, faults>>

(* The open editors whose table a step overwrites that cannot be trusted;  *)
(* a save is meant to overwrite its own.                                   *)
Overwrites == {k \in 1 .. Len(stack) :
                 disk'[stack[k].base] # disk[stack[k].base]}
Harmed == IF Top.sure THEN {} ELSE Overwrites \ {Len(stack)}

(* Not the code: a nested table is saved below a parent that is not        *)
(* saved.                                                                  *)
SaveBelowUnsaved(r, ok) ==
  LET e == Top
      part == Recalculated(e, e.part, r)
  IN  /\ ~e.inhInvalid
      /\ disk' = IF ok THEN [disk EXCEPT ![e.base] = Packed(e.part)] ELSE disk
      /\ SetTop([e EXCEPT !.part = part, !.orig = Packed(part)])
      /\ lost' = IF ok THEN (lost \ {Len(stack)}) \cup Harmed
                ELSE lost \cup {Len(stack)}
      /\ ok \/ faults < MaxFaults
      /\ faults' = IF ok THEN faults ELSE faults + 1
      /\ UNCHANGED <<edits, formats>>

(* F2 - Save.  Whether the write succeeds or not, the next round of the    *)
(* loop recalculates some row (the one under the cursor), and then takes   *)
(* the buffer for the original (force_special_copy).                       *)
Save(r, ok) ==
  LET e == Top
      part == Recalculated(e, e.part, r)
  IN  /\ ~e.inhInvalid /\ ~e.inhChanged
      /\ disk' = IF ok THEN [disk EXCEPT ![e.base] = Packed(e.part)] ELSE disk
      /\ SetTop([e EXCEPT !.part = part, !.orig = Packed(part)])
      /\ lost' = IF ok THEN (lost \ {Len(stack)}) \cup Harmed
                ELSE lost \cup {Len(stack)}
      /\ ok \/ faults < MaxFaults
      /\ faults' = IF ok THEN faults ELSE faults + 1
      /\ UNCHANGED <<edits, formats>>

(* Enter or PgDn on an extended partition: setup_mbr( &part[row] ).        *)
Enter(r) ==
  LET e == Top
      p == e.part[r]
  IN  /\ Len(stack) < MaxLevel
      /\ \/ p.type \in ExtTypes /\ ~p.empty
         \/ /\ p.type \in {Ext, ExtLba}
            /\ \A q \in 1 .. r - 1 : e.part[q].type \notin {Ext, ExtLba}
      /\ Base(p) \in Sectors
      /\ \E junk \in [Rows -> BOOLEAN] :
           stack' = Append(stack, Opened(
             [level |-> e.level + 1, base |-> Base(p), num |-> p.num,
              obase |-> p.cbase, onum |-> p.cnum,
              inhChanged |-> InhChanged(e), inhInvalid |-> InhInvalid(e, r),
              sure |-> Trusted(e, r) /\ p.valid,
              part |-> << >>, orig |-> Blank], junk))
      /\ UNCHANGED <<disk, lost, edits, formats, faults>>

(* Not the code: ESC leaves the editor at once.                            *)
QuitAnyway ==
  /\ Len(stack) > 1
  /\ stack' = SubSeq(stack, 1, Len(stack) - 1)
  /\ lost' = lost \ {Len(stack)}
  /\ UNCHANGED <<disk, edits, formats, faults>>

(* ESC, which is refused while there are changes.                          *)
Quit ==
  /\ Len(stack) > 1 /\ ~Changed(Top)
  /\ stack' = SubSeq(stack, 1, Len(stack) - 1)
  /\ lost' = lost \ {Len(stack)}
  /\ UNCHANGED <<disk, edits, formats, faults>>

(* The first n sectors of row p are overwritten, at most those that exist. *)
Overwritten(p, n, first) ==
  [s \in Sectors |-> IF s = Base(p) /\ n > 0 THEN first
                     ELSE IF s \in Base(p) .. Base(p) + n - 1 THEN Blank
                     ELSE disk[s]]
Writes(r, n, first) ==
  /\ formats < MaxFormats /\ formats' = formats + 1
  /\ disk' = Overwritten(Top.part[r], n, first)
  /\ lost' = IF Trusted(Top, r) THEN lost ELSE lost \cup Overwrites
  /\ UNCHANGED <<stack, edits, faults>>

(* Not the code: formatting while the table has unsaved changes.           *)
FormatUnsaved(r) ==
  LET e == Top
      p == e.part[r]
  IN  /\ ~p.empty
      /\ p.type \notin {None, Hidden}
      /\ ~InhInvalid(e, r)
      /\ e.base <= Add(e.base, e.num)
      /\ Sub(Add(e.base, e.num), 1) \in Sectors
      /\ IF p.type \in FatTypes
         THEN \E n \in 0 .. p.num : Writes(r, n, Boot)
         ELSE \E n \in {0, 1} : Writes(r, n, Blank)

(* F - Format.  It may stop after any part of its work.                    *)
Format(r) ==
  LET e == Top
      p == e.part[r]
  IN  /\ ~p.empty
      /\ p.type \notin {None, Hidden}
      /\ ~InhInvalid(e, r) /\ ~InhChanged(e)
      /\ e.base <= Add(e.base, e.num)
      /\ Sub(Add(e.base, e.num), 1) \in Sectors
      /\ IF p.type \in FatTypes
         THEN \E n \in 0 .. p.num : Writes(r, n, Boot)
         ELSE \E n \in {0, 1} : Writes(r, n, Blank)

(* Not the code: a row that is marked invalid is erased.                   *)
EraseInvalid(r) ==
  LET e == Top
      p == e.part[r]
  IN  /\ ~p.empty /\ ~InhChanged(e)
      /\ \E n \in 0 .. (IF Base(p) <= End(p) THEN p.num ELSE 0) :
           Writes(r, n, Blank)

(* E - Erase, which may be cancelled after any track.  The loop of         *)
(* generic_clean does not run at all when the end wraps around.            *)
Erase(r) ==
  LET e == Top
      p == e.part[r]
  IN  /\ ~p.empty /\ p.valid /\ ~InhChanged(e)
      /\ \E n \in 0 .. (IF Base(p) <= End(p) THEN p.num ELSE 0) :
           Writes(r, n, Blank)

Next ==
  \/ \E r \in Rows : \/ EditField(r) \/ Insert(r) \/ Delete(r) \/ Hide(r)
                     \/ Save(r, TRUE) \/ Save(r, FALSE)
                     \/ Enter(r) \/ Format(r) \/ Erase(r)
  \/ Load \/ Undo \/ Quit

Spec == Init /\ [][Next]_vars

-------------------------------------------------------------------------------
(* Types, and the nesting of the editors.                                  *)
TypeOK ==
  /\ disk \in [Sectors -> Table]
  /\ stack \in Seq(Editor) /\ Len(stack) \in 1 .. MaxLevel
  /\ \A k \in 1 .. Len(stack) : stack[k].level = k - 1
  /\ lost \subseteq 1 .. Len(stack)
  /\ edits \in 0 .. MaxEdits /\ formats \in 0 .. MaxFormats
  /\ faults \in 0 .. MaxFaults

(* The partition tables a reader of the disk finds in the one at c.        *)
Where(e) == [level |-> e.level, base |-> e.base, num |-> e.num,
             obase |-> e.obase, onum |-> e.onum]
Rowset(c) == {WithContainer(c,
                [type |-> x.type, rel |-> x.rel, num |-> x.num,
                 cbase |-> 0, cnum |-> 0]) : x \in {disk[c.base][r] : r \in Rows}}
Nested(c) == {[level |-> c.level + 1, base |-> Base(p), num |-> p.num,
               obase |-> p.cbase, onum |-> p.cnum] :
               p \in {x \in Rowset(c) : x.type \in ExtTypes
                                       /\ Base(x) \in Sectors}}

(* A reader of the disk gets from the MBR to the table of the current      *)
(* editor the way the open editors did.                                    *)
OnDisk == /\ Where(stack[1]) = [level |-> 0, base |-> 0, num |-> DiskSize,
                               obase |-> 0, onum |-> 0]
          /\ \A k \in 1 .. Len(stack) - 1 :
               Where(stack[k + 1]) \in Nested(Where(stack[k]))

Alike(x, y) == /\ x.rel = y.rel /\ x.num = y.num
               /\ LbaType(x.type) = LbaType(y.type)
Changing == {s \in Sectors : disk'[s] # disk[s]}
Extent(p) == {s \in Sectors : s >= Base(p) /\ s - Base(p) < p.num}

(* No open editor shows a table whose save has failed, or which was        *)
(* overwritten through a row that cannot be trusted.                       *)
NoneLost == lost = {}

(* The table of a nested editor is on the disk with the extended types it  *)
(* shows: there the one that is not LBA is counted from another container, *)
(* and a save takes the adjusted type for the saved one.                   *)
ExactlyOnDisk(k) ==
  stack[k].level > 1 =>
    \A r \in Rows : disk[stack[k].base][r].type = Ext <=> stack[k].orig[r].type = Ext

(* Only the table of the current editor is saved.  It is saved only where  *)
(* the tables on the disk say that there is one, if the rows on the way    *)
(* could be trusted, no save of an open table has failed, and the tables   *)
(* above are on the disk with the extended types they show.                *)
SavesReachable ==
  [][(formats' = formats /\ disk' # disk) =>
       /\ Changing = {Top.base}
       /\ (/\ NoneLost /\ Top.sure
           /\ \A k \in 1 .. Len(stack) - 1 : ExactlyOnDisk(k)) => OnDisk]_vars

(* Formatting and erasing overwrite a partition that is on the disk as it  *)
(* is on the screen (perhaps with the LBA type instead of the other), or   *)
(* the first sector of one without any, which validate_table lets pass in  *)
(* a container of 2^32 - 1 sectors.                                        *)
FormatsAsSaved ==
  OnDisk /\ \E r \in Rows :
    LET p == Top.part[r]
    IN  /\ Changing \subseteq Extent(p) \cup {Base(p)}
        /\ \E q \in Rowset(Top) :
             Alike(p, q) /\ p.cbase = q.cbase /\ p.cnum = q.cnum
FormatsOnlySaved == [][formats' # formats => FormatsAsSaved]_vars

(* The same while no save of an open table has failed, in a table that was *)
(* entered through rows that could be trusted, that has no misplaced row   *)
(* itself (one that was hidden, or got another type by Insert, after it    *)
(* had been counted from the other container), and that is on the disk     *)
(* with the extended types it shows, as are the tables above it.           *)
FormatsWhatDiskSays ==
  [][(/\ formats' # formats /\ NoneLost /\ Top.sure
      /\ \A r \in Rows : Placed(Top, Top.part[r])
      /\ \A k \in 1 .. Len(stack) : ExactlyOnDisk(k)) => FormatsAsSaved]_vars

(* Formatting and erasing a row that can be trusted leaves alone the       *)
(* tables that are being edited, on every level, and all other partitions  *)
(* of the table that do not wrap, be they valid or not.                    *)
FormatsInside ==
  [][formats' # formats => \A r \in Rows :
       Trusted(Top, r) /\ (Format(r) \/ Erase(r)) =>
         /\ Changing \subseteq Extent(Top.part[r])
         /\ \A k \in 1 .. Len(stack) : stack[k].base \notin Changing
         /\ \A q \in Rows \ {r} :
              Base(Top.part[q]) <= End(Top.part[q])
                => Changing \cap Extent(Top.part[q]) = {}]_vars

(* What an editor takes for the saved table is what is on the disk, but    *)
(* for a table whose save has failed or that was overwritten through a row *)
(* that cannot be trusted, and for the LBA types: after a save the row     *)
(* under the cursor is adjusted to LBA or non-LBA and taken for saved.     *)
OrigOnDisk ==
  \A k \in 1 .. Len(stack) :
    \/ k \in lost
    \/ \A r \in Rows : Alike(disk[stack[k].base][r], stack[k].orig[r])

(* Nothing is lost by leaving an editor (MESG_NOT_SAVED), but what a save  *)
(* has failed to write.                                                    *)
QuitLosesNothing ==
  [][Len(stack') < Len(stack) =>
       \/ Len(stack) \in lost
       \/ \A r \in Rows : Alike(disk[Top.base][r], Top.part[r])]_vars
===============================================================================
