---------------------------- MODULE AdvancedEditor ----------------------------
(***************************************************************************)
(* The partition manager on a disk with, or about to get, the advanced     *)
(* boot manager: setup_mbr of PART.C in VIEW_ADV, in VIEW_MBR as far as    *)
(* installing, removing and previewing go, and the boot menu editor        *)
(* (edit_boot_menu of PART_GUI.C), which works on the packed table while   *)
(* setup_mbr keeps its own copy.                                           *)
(***************************************************************************)
EXTENDS AdvancedTable

CONSTANTS MenuLen,      \* items of the boot menu (MAX_MENU_ROWS, 16)
          AdvStart,     \* first place for the manager (sector 7)
          Track,        \* dinfo.num_sects
          FirstDisk, MoreDisks,   \* disk 0x80; a disk after this one
          Starts,       \* what may be on the disk at first, and the bound:
                        \* how many edits, keys and failures then follow
          NewTypes,     \* types that are chosen for a row
          Digits,       \* digits that are typed
          KeyItems      \* items that keys are pressed on

Fat == "FAT-16"             \* one type for all FAT and NTFS types
HiddenFat == "Hidden FAT-16"
Extended == "Extended"
Linux == "Linux"
Swap == "Linux swap"

NoData == [signed |-> FALSE]
NoItem == [kind |-> "empty", tag |-> 0, show |-> "One"]
ZeroAdv == [signed |-> FALSE, menu |-> [a \in 1 .. MenuLen |-> NoItem],
            part |-> [r \in Rows |-> NoRow], ignore |-> FALSE]
Items == 1 .. MenuLen
Adv == [signed : BOOLEAN, menu : [Items -> Item], part : [Rows -> Row],
        ignore : BOOLEAN]
MbrSector == [code : {"Standard", "Compact", "Advanced"}, magic : BOOLEAN,
              at : Numbers, rows : [Slots -> Entry]]
Memory == [mbr : MbrSector, adv : Adv]

(* A disk: the MBR, and what begins at each place.                         *)
Places == 0 .. DiskEnd - 1
Data == {NoData} \cup [signed : {TRUE}, adv : Adv, code : BOOLEAN]
Disk == [mbr : MbrSector, data : [Places -> Data]]
DataAt(d) == IF d.mbr.at \in Places THEN d.data[d.mbr.at] ELSE NoData

(* What the program leaves on a disk.                                      *)
UniqueTags(part) ==
  \A q, r \in Rows : q # r /\ part[q].tag # 0 => part[q].tag # part[r].tag
Consistent(d) ==
  d.mbr.magic =>
    /\ DataAt(d) # NoData /\ DataAt(d).code
    /\ LET part == DataAt(d).adv.part
           k == ManagerRow(part)
       IN  k # 0 /\ part[k].rel = d.mbr.at /\ part[k].num >= AdvSize
LeftBehind(d) ==
  /\ Consistent(d)
  /\ \A s \in Places : d.data[s] # NoData => UniqueTags(d.data[s].adv.part)

VARIABLES disk,     \* what is on the disk
          cur,      \* data: the MBR and the advanced data in memory
          orig,     \* data_orig
          view, preview,   \* view, preview_mode
          menu,     \* how the menu editor was opened, and part meanwhile
          spoilt,   \* history: a save has failed
          left      \* what is left of the bound

vars == <<disk, cur, orig, view, preview, menu, spoilt, left>>

ASSUME EditorConstants ==
  /\ {Fat, HiddenFat, Extended, Linux, Swap} \subseteq OsTypes
  /\ MenuLen \in Nat \ {0} /\ AdvStart \in Nat \ {0} /\ Track \in Numbers
  /\ Track >= AdvStart /\ NumRows > 4
  /\ NewTypes \subseteq OsTypes \cup {Unused} /\ Digits \subseteq 0 .. 9
  /\ KeyItems \subseteq 1 .. MenuLen
  /\ FirstDisk \in BOOLEAN /\ MoreDisks \in BOOLEAN
  /\ \A x \in Starts : x.left \in Nat /\ x.disk \in Disk /\ LeftBehind(x.disk)

Closed == [open |-> "no", held |-> << >>]

-------------------------------------------------------------------------------
(* What opening the disk shows: the advanced table if the MBR says there   *)
(* is one and it can be read.  It is arranged before it is shown, and the  *)
(* result counts as the original.                                          *)
Initialized(data, v) ==
  IF v = "ADV" THEN [data EXCEPT !.adv.part = Arranged(@)] ELSE data
Opened(d, readable) ==
  LET found == d.mbr.magic /\ readable /\ DataAt(d) # NoData
      v == IF found THEN "ADV" ELSE "MBR"
      adv == IF found THEN DataAt(d).adv ELSE ZeroAdv
  IN  [view |-> v, data |-> Initialized([mbr |-> d.mbr, adv |-> adv], v)]

Showing(o) == cur' = o.data /\ orig' = o.data /\ view' = o.view

Init ==
  /\ \E x \in Starts : disk = x.disk /\ left = x.left
  /\ cur = Opened(disk, TRUE).data /\ orig = cur
  /\ view = Opened(disk, TRUE).view
  /\ preview = FALSE /\ menu = Closed /\ spoilt = FALSE

(* Not the code: the menu and the options are not compared.                *)
ChangedRows == cur.mbr # orig.mbr \/ cur.adv.part # orig.adv.part

(* What is compared depends on the view (data_size).                       *)
Changed == IF view = "ADV" THEN cur # orig ELSE cur.mbr # orig.mbr
Valid == IF view = "ADV" THEN ValidTable(cur.adv.part)
                         ELSE SoundRows(cur.mbr.rows)
Table == menu.open = "no"
InAdv == Table /\ view = "ADV"
InMbr == Table /\ view = "MBR"
Step == left > 0 /\ left' = left - 1
Part == cur.adv.part

(* An edit of the table; if it is arranged after that.                     *)
SetPart(part, arranged) ==
  /\ Step
  /\ cur' = [cur EXCEPT !.adv.part = IF arranged THEN Arranged(part) ELSE part]
  /\ UNCHANGED <<disk, orig, view, preview, menu, spoilt>>

-------------------------------------------------------------------------------
(* Ins: another type.  Only a row without a place is given one, and only   *)
(* then the table is arranged; the row below counts for the first three.   *)
Proposed(t, r) ==
  LET rel == IF r > 1 /\ ~IsEmpty(t[r - 1])
             THEN Wrap(t[r - 1].rel + t[r - 1].num) ELSE Track
      num == IF r < 4 /\ ~IsEmpty(t[r + 1])
             THEN Wrap(t[r + 1].rel - rel) ELSE Wrap(DiskEnd - rel)
  IN  [t EXCEPT ![r].rel = rel, ![r].num = num]
Insert(r, type) ==
  LET t == [Part EXCEPT ![r].type = type]
  IN  /\ InAdv /\ Part[r].type # Manager
      /\ IF IsEmpty(Part[r]) /\ type # Unused
         THEN SetPart(Proposed(t, r), TRUE) ELSE SetPart(t, FALSE)

Delete(r) ==
  InAdv /\ Part[r].type # Manager /\ SetPart([Part EXCEPT ![r] = NoRow], TRUE)

(* A key in a numeric field: + and -, BkSp, a digit.                       *)
Keyed(x) == ({x + 1, x - 1, x \div 10} \cup {10 * x + d : d \in Digits})
              \cap Numbers
EditField(r) ==
  /\ InAdv
  /\ \/ \E x \in Keyed(Part[r].rel) :
          SetPart([Part EXCEPT ![r].rel = x], TRUE)
     \/ \E x \in Keyed(Part[r].num) :
          SetPart([Part EXCEPT ![r].num = x], TRUE)

(* P and ESC: the MBR as it is in memory.                                  *)
Switch(v, p) ==
  /\ view' = v /\ preview' = p
  /\ cur' = Initialized(cur, v)
  /\ UNCHANGED <<disk, orig, menu, spoilt, left>>
Preview == InAdv /\ Switch("MBR", TRUE)
EndPreview == Table /\ preview /\ Switch("ADV", FALSE)

SetMbr(mbr) ==
  /\ InMbr /\ Step
  /\ cur' = [cur EXCEPT !.mbr = mbr]
  /\ UNCHANGED <<disk, orig, view, preview, menu, spoilt>>
Activate(k) ==
  SetMbr([cur.mbr EXCEPT !.rows =
            [j \in Slots |-> [@[j] EXCEPT !.active = (j = k)]]])
Deactivate(k) == SetMbr([cur.mbr EXCEPT !.rows[k].active = FALSE])

(* U copies less than what is before the mark of the advanced MBR; I       *)
(* copies more, unless the compact code is there already.                  *)
Uninstall == SetMbr([cur.mbr EXCEPT !.code = "Standard"])
InstallIpl ==
  SetMbr([cur.mbr EXCEPT !.code = "Compact",
            !.magic = @ /\ cur.mbr.code = "Compact"])

-------------------------------------------------------------------------------
(* F2.  The advanced data, the manager's code and the MBR are written one  *)
(* after the other, until one cannot be.  What is written at a place makes *)
(* data that begins in the same sectors unusable.  Afterwards the table    *)
(* counts as saved either way.                                             *)
Sector(p) == [type |-> p.type, rel |-> p.rel, num |-> p.num,
              active |-> p.tag # 0]
(* Not the code: the place is not updated.                                 *)
AdvancedMbrStale(rows) == [code |-> "Advanced", magic |-> TRUE,
                           at |-> cur.mbr.at, rows |-> rows]

AdvancedMbr(rows) == [code |-> "Advanced", magic |-> TRUE,
                      at |-> Part[ManagerRow(Part)].rel, rows |-> rows]
Overwritten(data, at, x) ==
  [s \in Places |-> IF s = at THEN x
                    ELSE IF s < at + AdvSize /\ at < s + AdvSize THEN NoData
                    ELSE data[s]]
Stored(adv, code) == [signed |-> TRUE, adv |-> adv, code |-> code]
HasCode(at) == disk.data[at] # NoData /\ disk.data[at].code

Fails(done) == IF done THEN UNCHANGED <<left, spoilt>>
               ELSE Step /\ spoilt' = TRUE

SaveAdv ==
  LET mbr == AdvancedMbr(AllHidden)
      part == IF cur.adv.ignore THEN Compacted(Part) ELSE Part
      adv == [cur.adv EXCEPT !.part = part, !.signed = TRUE]
  IN  /\ InAdv /\ Valid /\ ManagerRow(Part) # 0
      /\ \E written \in 0 .. 3 :
           /\ Fails(written = 3)
           /\ disk' = [mbr |-> IF written = 3 THEN mbr ELSE disk.mbr,
                       data |-> IF written = 0 THEN disk.data
                                ELSE Overwritten(disk.data, mbr.at,
                                       Stored(adv, written > 1 \/ HasCode(mbr.at)))]
      /\ cur' = [mbr |-> mbr, adv |-> [cur.adv EXCEPT !.signed = TRUE,
                                         !.part = Arranged(@)]]
      /\ orig' = cur'
      /\ UNCHANGED <<view, preview, menu>>

SaveMbr ==
  /\ InMbr
  /\ \E written \in BOOLEAN :
       /\ Fails(written)
       /\ disk' = IF written THEN [disk EXCEPT !.mbr = cur.mbr] ELSE disk
  /\ orig' = [orig EXCEPT !.mbr = cur.mbr]
  /\ UNCHANGED <<cur, view, preview, menu>>

(* F3: what comes back is what the view covers; then the view follows.     *)
Undo ==
  LET data == IF view = "ADV" \/ orig.mbr.magic THEN orig
              ELSE [cur EXCEPT !.mbr = orig.mbr]
      v == IF data.mbr.magic /\ data.adv.signed THEN "ADV" ELSE "MBR"
  IN  /\ Table /\ cur' = Initialized(data, v) /\ view' = v
      /\ UNCHANGED <<disk, orig, preview, menu, spoilt, left>>

(* ESC ends the program; F5 goes on to the other disks and comes back.     *)
(* Either way the disk is read again the next time.                        *)
Leave(o) == /\ Table /\ ~Changed /\ Showing(o) /\ preview' = FALSE
            /\ UNCHANGED <<disk, menu, spoilt>>
Quit == ~preview /\ Leave(Opened(disk, TRUE)) /\ UNCHANGED left
OtherDisk ==
  \/ Leave(Opened(disk, TRUE)) /\ UNCHANGED left
  \/ Leave(Opened(disk, FALSE)) /\ Step

-------------------------------------------------------------------------------
(* The boot menu editor.  It works on adv; tags tie items to rows.         *)
PartNum(part, tag) ==
  IF tag = 0 THEN 0
  ELSE SelectInSeq([r \in Rows |-> part[r]], LAMBDA p : p.tag = tag)

(* Not the code: one more than the number of tags.                         *)
CountedTag(part) == Cardinality({r \in Rows : part[r].tag # 0}) + 1

FreeTag(part) ==
  CHOOSE tag \in 1 .. NumRows + 1 :
    /\ \A r \in Rows : part[r].tag # tag
    /\ \A t \in 1 .. tag - 1 : \E r \in Rows : part[r].tag = t

OsRow(p) == p.type \notin {Unused, Manager}

(* The tag of row r, a new one if it has none.                             *)
Tagged(part, r) ==
  IF part[r].tag # 0 THEN part ELSE [part EXCEPT ![r].tag = FreeTag(part)]

(* Opened from a row of a partition that has no tag, the first empty item  *)
(* is given to that.                                                       *)
ItemFor(adv, r) ==
  LET a == SelectInSeq(adv.menu, LAMBDA x : x.kind = "empty")
      part == Tagged(adv.part, r)
  IN  IF adv.part[r].tag # 0 \/ ~OsRow(adv.part[r]) \/ a = 0 THEN adv
      ELSE [adv EXCEPT !.part = part, !.menu[a].kind = "part",
                       !.menu[a].tag = part[r].tag]
(* Of the options only the one the table depends on, ADV_OPT_IGN_UNUSED.   *)
OptionsOf(adv) == {[adv EXCEPT !.ignore = i] : i \in BOOLEAN}

MenuOpened(how, adv, part) ==
  /\ menu' = [open |-> how, held |-> part]
  /\ cur' = [cur EXCEPT !.adv = adv]

(* Space opens the editor from any row, Enter from the manager's, and then *)
(* with the options first.                                                 *)
OpenBySpace(r) ==
  /\ InAdv /\ MenuOpened("space", ItemFor(cur.adv, r), << >>)
  /\ IF cur' = cur THEN UNCHANGED left ELSE Step
  /\ UNCHANGED <<disk, orig, view, preview, spoilt>>
OpenByEnter(r) ==
  /\ InAdv /\ Part[r].type = Manager /\ ~IsEmpty(Part[r])
  /\ Step
  /\ \E adv \in OptionsOf(cur.adv) : MenuOpened("enter", adv, Part)
  /\ UNCHANGED <<disk, orig, view, preview, spoilt>>

Key(adv) ==
  /\ ~Table /\ Step
  /\ cur' = [cur EXCEPT !.adv = adv]
  /\ UNCHANGED <<disk, orig, view, preview, menu, spoilt>>
KeyOn(a, item) == Key([cur.adv EXCEPT !.menu[a] = item])

(* Column 0.  - on an empty item gives a type that does not exist.         *)
NextKind == [empty |-> "part", part |-> "next", next |-> "floppy",
             floppy |-> "part", invalid |-> "empty"]
PrevKind == [empty |-> "invalid", part |-> "floppy", next |-> "part",
             floppy |-> "next", invalid |-> "invalid"]
ItemKind(a) ==
  LET item == cur.adv.menu[a]
  IN  \/ KeyOn(a, [item EXCEPT !.kind = NextKind[@]])
      \/ KeyOn(a, [item EXCEPT !.kind = PrevKind[@]])

(* Column 1: the rows after the item's and then those before it, or the    *)
(* other way round; none when there is nothing on the side to begin with.  *)
After(k) == [i \in 1 .. NumRows - k |-> k + i]
Before(k) == [i \in 1 .. k - 1 |-> i]
RowsAfter(k) == IF k = NumRows THEN << >> ELSE After(k) \o Before(k)
RowsBefore(k) == IF k < 2 THEN << >> ELSE Reverse(Before(k)) \o Reverse(After(k))
WithPart(adv, a, order) ==
  LET item == adv.menu[a]
      i == SelectInSeq(order, LAMBDA r : OsRow(adv.part[r]))
      part == IF i = 0 THEN adv.part ELSE Tagged(adv.part, order[i])
      tag == IF i = 0 THEN item.tag ELSE part[order[i]].tag
  IN  [adv EXCEPT !.part = part, !.menu[a].tag = tag,
         !.menu[a].kind = IF @ = "empty" /\ tag # 0 THEN "part" ELSE @]
ItemPart(a) ==
  LET k == PartNum(Part, cur.adv.menu[a].tag)
  IN  \E order \in {RowsAfter(k), RowsBefore(k)} :
        Key(WithPart(cur.adv, a, order))

(* Not the code: a row behind the last one.                                *)
RowTooFar(row) == row + 1

NextRow(row) == (row + 1) % 5

(* Columns 2 (the row in the MBR; - has no effect) and 3.                  *)
ItemRow(a) ==
  LET k == PartNum(Part, cur.adv.menu[a].tag)
  IN  k # 0 /\ Key([cur.adv EXCEPT !.part[k].orig = NextRow(@)])
ItemShow(a) ==
  LET k == SelectInSeq(Shows, LAMBDA x : x = cur.adv.menu[a].show)
  IN  \E d \in {0, 3} :
        KeyOn(a, [cur.adv.menu[a] EXCEPT !.show = Shows[((k + d) % 5) + 1]])

InsertItem(a) ==
  Key([cur.adv EXCEPT !.menu =
         SubSeq(InsertAt([x \in Items |-> @[x]], a, NoItem), 1, MenuLen)])
DeleteItem(a) ==
  Key([cur.adv EXCEPT !.menu =
         Append(RemoveAt([x \in Items |-> @[x]], a), NoItem)])
Options == \E adv \in OptionsOf(cur.adv) : Key(adv)
MenuKey == Options \/ \E a \in KeyItems :
  ItemKind(a) \/ ItemPart(a) \/ ItemRow(a) \/ ItemShow(a) \/ InsertItem(a)
    \/ DeleteItem(a)

(* Tags that no item has are given up.                                     *)
CleanTags(adv) ==
  [r \in Rows |-> [adv.part[r] EXCEPT !.tag =
     IF \E a \in Items : adv.menu[a].tag = @ THEN @ ELSE 0]]

(* After Space the table is unpacked again; after Enter it is not, and     *)
(* what setup_mbr has kept goes over what the editor has changed.          *)
CloseMenu ==
  /\ ~Table /\ menu' = Closed
  /\ cur' = [cur EXCEPT !.adv.part = IF menu.open = "enter" THEN menu.held
                                     ELSE Arranged(CleanTags(cur.adv))]
  /\ UNCHANGED <<disk, orig, view, preview, spoilt, left>>

-------------------------------------------------------------------------------
(* A: installing.  The used rows of the MBR become rows of the table, with *)
(* an item each unless they are extended, or the swap partition of the     *)
(* Linux in the row before; wins are those with the boot record of Windows *)
(* 95, which are given four.                                               *)
Unhidden(e) == [e EXCEPT !.type = IF @ = HiddenFat THEN Fat ELSE @]
PartItem(tag) == [kind |-> "part", tag |-> tag, show |-> "One"]
Take(acc, rows, wins, k) ==
  LET e == rows[k]
      n == Len(acc.part) + 1
      swap == k > 1 /\ rows[k - 1].type = Linux /\ e.type = Swap
      row == [type |-> e.type, tag |-> IF swap THEN 0 ELSE n, orig |-> k,
              rel |-> e.rel, num |-> e.num]
      begin == IF acc.menu # << >> /\ acc.menu[1].tag = 0 /\ e.type = Fat
               THEN [acc.menu EXCEPT ![1].tag = n] ELSE acc.menu
      copies == IF swap \/ e.type = Extended THEN 0
                ELSE IF k \in wins THEN 4 ELSE 1
  IN  IF e.type = Unused THEN acc
      ELSE [part |-> Append(acc.part, row),
            menu |-> IF swap THEN [begin EXCEPT ![Len(begin)].show = "Next"]
                     ELSE begin \o [i \in 1 .. copies |-> PartItem(n)]]
Taken(rows, wins) ==
  LET none == [part |-> << >>,
               menu |-> IF FirstDisk THEN <<[NoItem EXCEPT !.kind = "floppy"]>>
                        ELSE << >>]
      after[k \in 0 .. 4] ==
        IF k = 0 THEN none ELSE Take(after[k - 1], rows, wins, k)
  IN  after[4]

ByPlace(part) ==
  Ranked(part, [i \in DOMAIN part |->
                  {j \in DOMAIN part : StartsBefore(part, j, i)}])

(* Items that show nothing else show the last partition if that is an      *)
(* extended one.                                                           *)
WithLast(part, items) ==
  LET n == Len(part)
  IN  IF n < 2 \/ part[n].type # Extended THEN items
      ELSE [a \in DOMAIN items |->
              IF items[a].show # "One" THEN items[a]
              ELSE IF items[a].kind = "part"
              THEN [items[a] EXCEPT !.show = "Last"]
              ELSE [items[a] EXCEPT !.tag = n]]

(* The first space that is large enough, and the row behind it.            *)
Passed(acc, p) ==
  IF ~acc.found /\ acc.start + AdvSize > p.rel
  THEN [start |-> p.rel + p.num, row |-> acc.row + 1, found |-> FALSE]
  ELSE [acc EXCEPT !.found = TRUE]
Space(part) ==
  LET after[i \in 0 .. Len(part)] ==
        IF i = 0 THEN [start |-> 1, row |-> 1, found |-> FALSE]
                 ELSE Passed(after[i - 1], part[i])
  IN  after[Len(part)]
ManagerIn(part, at) ==
  LET front == at = 1 /\ (part = << >> \/ (/\ part[1].rel >= Track
                                           /\ AdvSize <= Track - AdvStart))
  IN  [NoRow EXCEPT !.type = Manager, !.rel = IF front THEN AdvStart ELSE at,
                    !.num = IF front THEN Track - AdvStart ELSE AdvSize]

(* If there is no space the new advanced data stay in memory, and the      *)
(* view, and the rows of the MBR with them, stay as they are but for the   *)
(* hidden types; otherwise the menu editor is opened.                      *)
Install ==
  /\ InMbr /\ Valid /\ Step
  /\ \E wins \in SUBSET {k \in Slots : Unhidden(cur.mbr.rows[k]).type = Fat} :
       LET rows == [k \in Slots |-> Unhidden(cur.mbr.rows[k])]
           taken == Taken(rows, wins)
           part == ByPlace(taken.part)
           next == IF MoreDisks THEN <<[NoItem EXCEPT !.kind = "next"]>>
                   ELSE << >>
           items == WithLast(part, taken.menu \o next)
           space == Space(part)
           whole == InsertAt(part, space.row, ManagerIn(part, space.start))
           Made(p) == [ZeroAdv EXCEPT !.signed = TRUE,
                         !.menu = Padded(items, MenuLen, NoItem),
                         !.part = Padded(p, NumRows, NoRow)]
       IN  /\ Len(items) <= MenuLen
           /\ IF space.start + AdvSize > DiskEnd
              THEN /\ cur' = [mbr |-> [cur.mbr EXCEPT !.rows = rows],
                              adv |-> Made(part)]
                   /\ UNCHANGED <<view, menu>>
              ELSE /\ view' = "ADV"
                   /\ LET data == Initialized([cur EXCEPT !.adv = Made(whole)],
                                              "ADV")
                      IN  IF part = << >>
                          THEN cur' = data /\ UNCHANGED menu
                          ELSE \E adv \in OptionsOf(ItemFor(data.adv, 1)) :
                                 /\ cur' = [data EXCEPT !.adv = adv]
                                 /\ menu' = [open |-> "space",
                                             held |-> << >>]
  /\ UNCHANGED <<disk, orig, preview, spoilt>>

-------------------------------------------------------------------------------
(* U: removing.  At most four partitions move to the rows of the MBR, and  *)
(* from there to the rows they belong into; the first one that is in the   *)
(* menu becomes active.                                                    *)
Collect(acc, p, i) ==
  LET n == Len(acc.rows)
      e == Sector(p)
      act == e.active /\ (i = n + 1 \/ acc.free)
  IN  IF ~OsRow(p) THEN acc
      ELSE [rows |-> Append(acc.rows, [row |-> [e EXCEPT !.active = act],
                                       orig |-> p.orig]),
            free |-> acc.free /\ (i = n + 1 \/ ~e.active)]
Collected(part) ==
  LET after[i \in 0 .. NumRows] ==
        IF i = 0 THEN [rows |-> << >>, free |-> TRUE]
                 ELSE Collect(after[i - 1], part[i], i)
      all == after[NumRows]
      rows == Padded(all.rows, 4, [row |-> NoEntry, orig |-> 0])
  IN  IF all.free /\ all.rows # << >>
      THEN [rows EXCEPT ![1].row.active = TRUE] ELSE rows

(* Not the code: a row is copied, not exchanged.                           *)
PlacedOver(slots, k) ==
  LET to == slots[k].orig
  IN  IF slots[k].row.type = Unused \/ to = 0 \/ to = k - 1 THEN slots
      ELSE [slots EXCEPT ![to] = slots[k]]

(* The row in slot k moves to the slot it belongs into, unless that is the *)
(* one before.                                                             *)
PlacedRight(slots, k) ==
  LET to == slots[k].orig
  IN  IF slots[k].row.type = Unused \/ to = 0 \/ to = k - 1 THEN slots
      ELSE [slots EXCEPT ![to] = slots[k], ![k] = slots[to]]
Rounds(slots, n) ==
  LET after[x \in 0 .. 4 * n] ==
        IF x = 0 THEN slots
                 ELSE PlacedRight(after[x - 1], ((x - 1) % 4) + 1)
  IN  after[4 * n]

UninstallAdvanced ==
  LET n == Cardinality({r \in Rows : OsRow(Part[r])})
      slots == Rounds(Collected(Part), n)
      rows == [k \in Slots |-> slots[k].row]
  IN  /\ InAdv /\ Step
      /\ IF n > 4 THEN cur' = Initialized(cur, view) /\ UNCHANGED view
         ELSE /\ view' = "MBR"
              /\ cur' = [cur EXCEPT !.mbr =
                   IF @.magic THEN [code |-> "Standard", magic |-> FALSE,
                                    at |-> 0, rows |-> rows]
                   ELSE [@ EXCEPT !.rows = rows]]
      /\ UNCHANGED <<disk, orig, preview, menu, spoilt>>

Next ==
  \/ \E r \in Rows : \/ Delete(r) \/ EditField(r)
                     \/ OpenBySpace(r) \/ OpenByEnter(r)
                     \/ \E type \in NewTypes : Insert(r, type)
  \/ \E k \in Slots : Activate(k) \/ Deactivate(k)
  \/ Preview \/ EndPreview \/ Undo \/ SaveAdv \/ SaveMbr \/ Quit \/ OtherDisk
  \/ MenuKey \/ CloseMenu
  \/ Install \/ InstallIpl \/ Uninstall \/ UninstallAdvanced
Spec == Init /\ [][Next]_vars

-------------------------------------------------------------------------------
TypeOK ==
  /\ disk \in Disk /\ cur \in Memory /\ orig \in Memory
  /\ view \in {"ADV", "MBR"} /\ preview \in BOOLEAN /\ spoilt \in BOOLEAN
  /\ menu \in [open : {"no", "space", "enter"},
               held : {<< >>} \cup [Rows -> Row]]
  /\ left \in Nat

Partition(p) == [type |-> p.type, rel |-> p.rel, num |-> p.num]
PartitionsOf(rows, S) == {Partition(rows[r]) : r \in S}
TablePartitions(part) == PartitionsOf(part, {r \in Rows : OsRow(part[r])})
MbrPartitions(rows) ==
  PartitionsOf(rows, {k \in Slots : rows[k].type # Unused})

(* Rows are told apart by their tags, whichever way they got them, were    *)
(* moved, unpacked and packed again: the boot manager starts the first row *)
(* with the tag of the item.                                               *)
TagsUnique == UniqueTags(Part)

(* If no save has failed, the boot code on the disk finds the data and the *)
(* manager where the MBR says, in a row of the table that belongs to them. *)
SavedPairConsistent == spoilt \/ Consistent(disk)

(* Who leaves, by ESC or to another disk by F5, finds the table the next   *)
(* time as it was on the screen (MESG_NOT_SAVED), whatever was edited,     *)
(* moved, compacted and undone - but for what unused rows have kept, which *)
(* compaction may have removed from the disk, and for F5 in the preview,   *)
(* where the advanced table does not count as changed.                     *)
OnScreen(adv) ==
  [adv EXCEPT !.part = [r \in Rows |->
     IF @[r].type = Unused THEN Partition(@[r]) ELSE @[r]]]
SameNextTime ==
  /\ cur'.mbr = cur.mbr
  /\ view = "ADV" /\ cur.mbr.magic =>
       view' = "ADV" /\ OnScreen(cur'.adv) = OnScreen(cur.adv)
LeavingLosesNothing ==
  [][(Quit \/ OtherDisk) /\ left' = left =>
       spoilt \/ SameNextTime]_vars

(* The partition an item names.                                            *)
Named(adv, a) ==
  {Partition(adv.part[r]) :
     r \in {q \in Rows : /\ adv.menu[a].tag # 0
                         /\ adv.part[q].tag = adv.menu[a].tag
                         /\ OsRow(adv.part[q])}}

(* On leaving the menu editor every item names the partition it has named  *)
(* on the screen.                                                          *)
MenuChoiceKept ==
  [][~Table /\ menu'.open = "no" =>
       \A a \in Items : Named(cur'.adv, a) = Named(cur.adv, a)]_vars

(* Installing and removing the boot manager keep the partitions, although  *)
(* both move them between rows: all that were there, and no others.        *)
ConversionKeepsPartitions ==
  /\ [][(Install /\ view' = "ADV") =>
          TablePartitions(cur'.adv.part) =
            MbrPartitions([k \in Slots |-> Unhidden(cur.mbr.rows[k])])]_vars
  /\ [][(UninstallAdvanced /\ view' = "MBR") =>
          MbrPartitions(cur'.mbr.rows) = TablePartitions(Part)]_vars
===============================================================================
