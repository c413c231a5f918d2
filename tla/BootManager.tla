----------------------------- MODULE BootManager ------------------------------
(***************************************************************************)
(* The advanced boot manager (MANAGE.ASM) over several boots: it imports   *)
(* what has changed in the MBR, shows its menu, builds the MBR for what    *)
(* was chosen, and starts that.  In between, the operating system that was *)
(* started may change the MBR with its own fdisk, and the user may review  *)
(* the table with PART.EXE and save it again.                              *)
(***************************************************************************)
EXTENDS AdvancedTable

CONSTANTS Setups,      \* what may be installed: rows in any order, a menu,
                       \* ADV_OPT_IGN_UNUSED, and the item to begin with if
                       \* that is fixed (ADV_OPT_DEF_MENU)
          NewPartitions,  \* types and sizes of partitions fdisk creates
          MaxBoots, MaxChanges, MaxFaults   \* bounds

VARIABLES table,     \* the advanced table on the disk
          mbr,       \* the MBR on the disk: its rows and adv_act_menu
          ram,       \* what the boot manager works with: table, mbr, sel
          pc,        \* "off", "menu" or "os"
          setup,     \* what is installed
          started,   \* what was started, and for which item of the list
          boots, changes, faults,   \* counters of the bounds
          unreviewed,  \* history: rows were imported since the last review
          careless,    \* history: a partition was created in that time
          behind,      \* history: sectors behind the geometry that some
                       \* system has given to a partition since then
          gone,        \* history: partitions that were given up
          entered      \* history: the item last booted with Enter
vars == <<table, mbr, ram, pc, setup, started, boots, changes, faults,
          unreviewed, careless, behind, gone, entered>>
history == <<unreviewed, careless, behind, gone>>

Disk(name) == [type |-> name, rel |-> 0, num |-> 0, active |-> TRUE]
Devices == {Disk("Floppy"), Disk("Next disk")}
Place(e) == [rel |-> e.rel, num |-> e.num]
Nothing == [item |-> 0, what |-> NoEntry]
Mbr == [rows : [Slots -> Entry], act : Nat]

Installed(rows) == Padded(rows, NumRows, NoRow)
OnDisk(p) == p.rel >= 1 /\ p.num >= 1 /\ p.rel + p.num <= DiskEnd

ASSUME BootConstants ==
  /\ \A x \in Setups : /\ x.rows \in Seq(Row) /\ Len(x.rows) <= NumRows
                        /\ x.menu \in Seq(Item) /\ x.fixed \in 0 .. Len(x.menu)
                        /\ x.ignore \in BOOLEAN
  /\ \A x \in NewPartitions : x.type \in OsTypes /\ x.num \in Nat \ {0}
  /\ MaxBoots \in Nat /\ MaxChanges \in Nat /\ MaxFaults \in Nat

(* What is installed are partitions on the disk, one of them the manager's *)
(* own, in a table that PART.EXE has found valid before it saved it.       *)
ASSUME SetupsValid ==
  \A x \in Setups :
    /\ \A i \in DOMAIN x.rows : /\ x.rows[i].type # Unused /\ OnDisk(x.rows[i])
                                /\ x.rows[i].type = Manager => x.rows[i].num >= AdvSize
    /\ \E i \in DOMAIN x.rows : x.rows[i].type = Manager
    /\ ValidTable(Arranged(Installed(x.rows)))

(* What is in memory does not matter unless the boot manager is running.   *)
Memory(t, m, sel) == [table |-> t, mbr |-> m, sel |-> sel]

(* A table that PART.EXE has just saved.                                   *)
Init ==
  /\ setup \in Setups
  /\ table = Saved(Installed(setup.rows), setup.ignore)
  /\ mbr = [rows |-> AllHidden, act |-> 0]
  /\ ram = Memory(table, mbr, 0)
  /\ pc = "off" /\ started = Nothing
  /\ boots = 0 /\ changes = 0 /\ faults = 0
  /\ unreviewed = FALSE /\ careless = FALSE /\ behind = {} /\ gone = {}
  /\ entered = 0

-------------------------------------------------------------------------------
(* PART_NUM_BY_TAG: the row with this tag, or 0.                           *)
PartNumByTag(t, tag) ==
  IF tag = 0 THEN 0 ELSE SelectInSeq(t, LAMBDA p : p.tag = tag)

(* PREP_MENU_LIST: the items that can be booted, and the one to begin      *)
(* with.                                                                   *)
Bootable(t, item) ==
  item.kind # "empty" /\ (item.kind = "part" => PartNumByTag(t, item.tag) # 0)
MenuList(t) ==
  LET list[i \in 0 .. Len(setup.menu)] ==
        IF i = 0 THEN << >>
        ELSE IF Bootable(t, setup.menu[i]) THEN Append(list[i - 1], i)
        ELSE list[i - 1]
  IN  list[Len(setup.menu)]
Preselected(t, act) ==
  LET k == SelectInSeq(MenuList(t), LAMBDA i : i - 1 = act)
  IN  IF k = 0 THEN 1 ELSE k

(* The MBR that is kept to see what has changed (BACKUP_MBR_SECT).         *)
Backup == IF setup.fixed = 0 THEN mbr ELSE [mbr EXCEPT !.act = setup.fixed - 1]

(* The IPL loads the table; the manager imports from the MBR, saves the    *)
(* table if it has changed, and shows the menu.                            *)
PowerOn ==
  /\ pc = "off" /\ boots < MaxBoots
  /\ LET t == Imported(table, mbr.rows)
         flag == ImportedFlag(table, mbr.rows)
     IN  /\ ram' = Memory(t, Backup, Preselected(t, Backup.act))
         /\ \/ table' = t /\ UNCHANGED faults
            \/ /\ flag # 0 /\ faults < MaxFaults /\ faults' = faults + 1
               /\ UNCHANGED table
         /\ unreviewed' = (unreviewed \/ \E r \in Rows : Place(t[r]) # Place(table[r]))
  /\ pc' = "menu" /\ boots' = boots + 1 /\ started' = Nothing
  /\ UNCHANGED <<mbr, setup, changes, careless, behind, gone, entered>>

Items == MenuList(ram.table)

(* MAKE_PART_TAB for item k of the menu (0 for none, -1 for H).            *)
ChosenRow(k) ==
  IF k < 1 THEN 0 ELSE PartNumByTag(ram.table, setup.menu[Items[k]].tag)
ShownRows(k) ==
  LET last == LastRow(ram.table)
  IN  IF last = 0 \/ Items = << >> THEN << >>
      ELSE IF k = -1 THEN FirstFree(ram.table)
      ELSE IF ChosenRow(k) = 0 THEN << >>
      ELSE Together(ChosenRow(k), last, setup.menu[Items[k]].show)
RowsFor(k) ==
  MadePartTab(ram.table, ShownRows(k), ChosenRow(k), setup.ignore)

(* A new MBR in memory is written if it is not what it was at power-on,    *)
(* and what was asked for is started.  The boot sector is read before: if  *)
(* it cannot be read, or the MBR not be written, the menu comes back; but  *)
(* a disk (PREP_BOOT_SECT_X) is started even if the write has failed.      *)
Stays(new, k) ==
  /\ ram' = Memory(ram.table, new, IF k < 1 THEN ram.sel ELSE k)
  /\ faults < MaxFaults /\ faults' = faults + 1
  /\ UNCHANGED <<table, mbr, pc, setup, started, boots, changes, history,
                 entered>>
Starts(new, k, what, written) ==
  /\ mbr' = IF written /\ new # Backup THEN new ELSE mbr
  /\ ram' = Memory(table, mbr', 0)
  /\ written \/ (new # Backup /\ faults < MaxFaults)
  /\ faults' = IF written THEN faults ELSE faults + 1
  /\ pc' = "os" /\ started' = [item |-> k, what |-> what]
  /\ UNCHANGED <<table, setup, boots, changes, history>>

Active(rows) == SelectLastInSeq(rows, LAMBDA e : e.active)
(* ACT_MBR_REC is set where the active row is.  If no row is active it is  *)
(* what it was: an entry that was active before, or the record of a disk.  *)
ActMbrRec(rows) ==
  IF Active(rows) # 0 THEN {rows[Active(rows)]}
  ELSE {rows[k] : k \in Slots} \cup Devices
BootPart(new, k) ==
  \/ \E what \in ActMbrRec(new.rows) : Starts(new, k, what, TRUE)
  \/ Stays(new, k)
BootDisk(new, k, disk) ==
  \/ \E written \in BOOLEAN : Starts(new, k, disk, written)
  \/ Stays(new, k)

(* An item of another type does nothing, but it may be remembered.         *)
Ignored(new, k) ==
  /\ ram' = Memory(ram.table, [ram.mbr EXCEPT !.act = new.act], k)
  /\ UNCHANGED <<table, mbr, pc, setup, started, boots, changes, faults, history>>
BootItem(new, k) ==
  LET kind == setup.menu[Items[k]].kind
  IN  \/ kind = "part" /\ BootPart(new, k)
      \/ kind = "floppy" /\ BootDisk(new, k, Disk("Floppy"))
      \/ kind = "next" /\ BootDisk(new, k, Disk("Next disk"))
      \/ kind = "invalid" /\ Ignored(new, k)

(* Not the code: the item's place in the list on the screen is remembered. *)
RememberedOnScreen(k) == k - 1

(* adv_act_menu is the item's place in the menu, with the empty items and  *)
(* those whose partition is not there.                                     *)
Remembered(k) == Items[k] - 1

(* Enter, a digit, or the timer.  ESC boots without remembering: but what  *)
(* an earlier Enter has left in memory is written all the same.            *)
Saves(act) == pc' = "os" /\ mbr'.act = act
Enter(k) ==
  /\ BootItem([rows |-> RowsFor(k), act |-> Remembered(k)], k)
  /\ entered' = IF Saves(Remembered(k)) THEN Items[k] ELSE entered
Left == entered' = IF Saves(ram.mbr.act) /\ ram.mbr.act # mbr.act
                   THEN ram.mbr.act + 1 ELSE entered
Escape(k) == BootItem([rows |-> RowsFor(k), act |-> ram.mbr.act], k) /\ Left

(* A, Tab and H, and everything if the menu is empty.                      *)
BootOther(k, disk) ==
  BootDisk([rows |-> RowsFor(k), act |-> ram.mbr.act], k, disk) /\ Left

(* The arrow keys have moved to item k before.                             *)
Boot ==
  /\ pc = "menu"
  /\ \/ \E k \in 1 .. Len(Items) :
          Enter(k) \/ Escape(k) \/ \E disk \in Devices : BootOther(k, disk)
     \/ BootOther(-1, Disk("Floppy"))
     \/ Items = << >> /\ \E disk \in Devices : BootOther(0, disk)

Off ==
  /\ pc # "off" /\ pc' = "off" /\ started' = Nothing
  /\ ram' = Memory(table, mbr, 0)
  /\ UNCHANGED <<table, mbr, setup, boots, changes, faults, history, entered>>

-------------------------------------------------------------------------------
(* What is not the boot manager: fdisk creates a partition in the first    *)
(* free row of the MBR, in space that the MBR does not mention, deletes    *)
(* one, or gives it another type.                                          *)
Free(k) == mbr.rows[k].type = Unused
Visible(k) == mbr.rows[k].type \notin {Unused, Hidden}
Changed(rows) == /\ pc = "os" /\ changes < MaxChanges
                 /\ changes' = changes + 1
                 /\ mbr' = [mbr EXCEPT !.rows = rows]
                 /\ ram' = Memory(table, mbr', 0)
                 /\ UNCHANGED <<table, pc, setup, started, boots, faults,
                                unreviewed, entered>>
FdiskCreate ==
  \E x \in NewPartitions, rel \in 1 .. DiskEnd - 1 :
    LET k == SelectInSeq(mbr.rows, LAMBDA e : e.type = Unused)
        e == [type |-> x.type, rel |-> rel, num |-> x.num, active |-> FALSE]
    IN  /\ k # 0 /\ rel + x.num <= DiskEnd
        /\ \A j \in Slots : Free(j) \/ Area(mbr.rows[j]) \cap Area(e) = {}
        /\ Changed([mbr.rows EXCEPT ![k] = e])
        /\ careless' = (careless \/ unreviewed) /\ gone' = gone \ {Place(e)}
        /\ behind' = behind \cup {s \in Area(e) : s >= CylEnd}
FdiskDelete ==
  \E k \in Slots : /\ Visible(k)
                   /\ Changed([mbr.rows EXCEPT ![k] = NoEntry])
                   /\ gone' = gone \cup {Place(mbr.rows[k])}
                   /\ UNCHANGED <<careless, behind>>
FdiskRetype ==
  \E k \in Slots, type \in OsTypes :
    /\ Visible(k)
    /\ Changed([mbr.rows EXCEPT ![k].type = type])
    /\ UNCHANGED <<careless, behind, gone>>

(* The user reviews the table with PART.EXE, gives up at most one          *)
(* partition, and saves it (F2).  The MBR is written after the table; what *)
(* only the MBR knew of is given up with that, and what is kept counts     *)
(* again.                                                                  *)
Review ==
  /\ pc = "os" /\ changes < MaxChanges /\ changes' = changes + 1
  /\ \E drop \in SUBSET {r \in Rows : table[r].type \in OsTypes},
        written \in BOOLEAN :
       LET kept == [r \in Rows |-> IF r \in drop THEN NoRow ELSE table[r]]
           t == Arranged(kept)
           places == {Place(t[r]) : r \in {q \in Rows : t[q].type # Unused}}
           lost == {Place(table[r]) : r \in drop}
                   \cup {Place(mbr.rows[k]) : k \in {j \in Slots : Visible(j)}}
       IN  /\ Cardinality(drop) <= 1 /\ ValidTable(t)
           /\ table' = Saved(kept, setup.ignore)
           /\ mbr' = IF written THEN [mbr EXCEPT !.rows = AllHidden] ELSE mbr
           /\ written \/ faults < MaxFaults
           /\ faults' = IF written THEN faults ELSE faults + 1
           /\ gone' = IF written THEN (gone \cup lost) \ places
                      ELSE gone \cup (lost \ places)
           /\ unreviewed' = (unreviewed /\ ~written)
           /\ careless' = (careless /\ ~written)
           /\ behind' = IF written THEN {} ELSE behind
  /\ ram' = Memory(table', mbr', 0)
  /\ UNCHANGED <<pc, setup, started, boots, entered>>

Next == PowerOn \/ Boot \/ Off
        \/ FdiskCreate \/ FdiskDelete \/ FdiskRetype \/ Review
Spec == Init /\ [][Next]_vars

-------------------------------------------------------------------------------
TypeOK ==
  /\ table \in [Rows -> Row] /\ mbr \in Mbr
  /\ ram.table \in [Rows -> Row] /\ ram.mbr \in Mbr /\ ram.sel \in Nat
  /\ pc \in {"off", "menu", "os"}
  /\ started.what \in Entry \cup Devices

(* The partitions of the table that nobody has given up.                   *)
Live == {r \in Rows : table[r].type \in OsTypes /\ Place(table[r]) \notin gone}

(* All space that is occupied by a partition is covered by the MBR, be it  *)
(* shown or hidden, so that no other system's fdisk takes it for free -    *)
(* unless the user was asked to review the table and has not done so.      *)
(* Excepted is space behind the geometry of the BIOS, at which the last    *)
(* entry ends.                                                             *)
Mentioned == UNION {Area(mbr.rows[k]) : k \in Slots}
InGeometry(x) == {s \in Area(x) : s < CylEnd}
OccupiedCovered ==
  ~unreviewed => \A r \in Live : InGeometry(table[r]) \subseteq Mentioned

(* Partitions never overlap, be they in the table or still only in the     *)
(* MBR, if nobody creates one before reviewing what was imported; but for  *)
(* sectors behind the geometry that a partition was given since.  (A       *)
(* partition may be in the table twice: it is imported again at each boot  *)
(* when another row begins at its place.)                                  *)
Partitions ==
  {Place(table[r]) : r \in Live}
    \cup ({Place(mbr.rows[k]) : k \in {j \in Slots : Visible(j)}} \ gone)
PartitionsApart ==
  careless \/ \A x, y \in Partitions :
                x # y => Area(x) \cap Area(y) \subseteq behind

(* What is started is the partition of the chosen item, and it is the only *)
(* active row of the MBR - unless imports have filled the table up: they   *)
(* take the rows between the partitions last, and then what is shown with  *)
(* the chosen row may leave no entry of the MBR for it.                    *)
FilledUp == unreviewed /\ ~setup.ignore /\ LastRow(ram.table) = NumRows
StartsWhatWasChosen ==
  [][(pc = "menu" /\ pc' = "os" /\ started'.what \notin Devices /\ ~FilledUp) =>
       LET row == mbr'.rows[Active(mbr'.rows)]
       IN  /\ Place(row) = Place(ram.table[ChosenRow(started'.item)])
           /\ started'.what = row
           /\ {k \in Slots : mbr'.rows[k].active} = {Active(mbr'.rows)}]_vars

(* Whatever an operating system has put into the MBR is in the table when  *)
(* the menu appears, as long as there is an unused row.  (Of two entries   *)
(* for one place the later one decides on the type.)                       *)
Overruled(k) == \E j \in Slots : j > k /\ Place(mbr.rows[j]) = Place(mbr.rows[k])
NothingForgotten ==
  [][(pc = "off" /\ pc' = "menu" /\ FreeRow(ram'.table) # 0) =>
       \A k \in Slots : Importable(mbr.rows[k]) /\ ~Overruled(k) =>
          \E r \in Rows : /\ Place(ram'.table[r]) = Place(mbr.rows[k])
                          /\ ram'.table[r].type = mbr.rows[k].type]_vars

(* The item last booted with Enter, or the fixed one, is the one under the *)
(* cursor when the menu appears again, if its partition is still there.    *)
RememberedComesBack ==
  [][(pc = "off" /\ pc' = "menu") =>
       LET list == MenuList(ram'.table)
           item == IF setup.fixed = 0 THEN entered ELSE setup.fixed
       IN  Contains(list, item) => list[ram'.sel] = item]_vars
===============================================================================
