----------------------------- MODULE CommandLine ------------------------------
(***************************************************************************)
(* The commands that PART.EXE carries out without its editor (command_line *)
(* of PART.C), one after the other: find the geometry, read the table,     *)
(* check it, do what was asked.  The loops over sectors and over chains of *)
(* tables take a step for each round.  "Erase" is the key E of the editor: *)
(* generic_clean on a row of the table as it was read.                     *)
(***************************************************************************)
EXTENDS DiskGeometry

CONSTANTS Drives,      \* what may be in the machine: [bios, readable, bad, disk]
          Files,       \* what the file of the command may hold at first
          Asked,       \* the commands: [name, row, force, lba]
          Hides,       \* function from the types that "H" hides to hidden ones
          TestSizes,   \* the sizes get_disk_info tries, as last sectors
          FatTypes,    \* types that FORMAT makes a FAT in
          NumRows,     \* rows of the advanced table (MAX_PART_ROWS, 32)
          AdvSize,     \* sectors of the boot manager with its data (20)
          Version,     \* of the advanced data (ADV_DATA_VERSION)
          MaxTables, MaxLevel,    \* tables that P and -r follow (32, 30)
          MaxCommands, MaxFaults  \* bounds

(* What a sector or a file can hold, as far as a command looks at it.      *)
Manager == "Advanced Boot Manager"
Blank == [kind |-> "blank"]
Boot == [kind |-> "boot"]
Code == [kind |-> "manager"]
Cut == [kind |-> "cut"]
AdvEntry ==
  [type : RowTypes, tag : Nat, orig : 0 .. 4, rel : Numbers, num : Numbers]
Tables == [kind : {"table"}, adv : BOOLEAN, at : Numbers, rows : [1 .. 4 -> Entry]]
AdvData == [kind : {"data"}, version : Nat, ignore : BOOLEAN, locked : BOOLEAN,
            rows : [1 .. NumRows -> AdvEntry]]
Contents == {Blank, Boot, Code, Cut} \cup Tables \cup AdvData
(* A file of 512 bytes that are no advanced data is read as a table,       *)
(* whatever it holds: L gives the sector its mark only when it writes it.  *)
(* A shorter file, or data without their end, cannot be loaded (Cut).      *)
FileContents == {Cut} \cup Tables \cup AdvData
TableOf(adv, place, entries) ==
  [kind |-> "table", adv |-> adv, at |-> place, rows |-> entries]
DataOf(version, ignore, locked, entries) ==
  [kind |-> "data", version |-> version, ignore |-> ignore,
   locked |-> locked, rows |-> entries]

ASSUME CommandConstants ==
  /\ NumRows \in Nat /\ NumRows >= 4 /\ AdvSize \in Nat \ {0} /\ Version \in Nat
  /\ MaxTables \in Nat /\ MaxLevel \in Nat
  /\ MaxCommands \in Nat /\ MaxFaults \in Nat
  /\ {Manager, "Hidden (0xFF)"} \cup DOMAIN Hides \subseteq RowTypes
  /\ \A t \in DOMAIN Hides : Hides[t] \in RowTypes
  /\ TestSizes \in Seq(Numbers) /\ TestSizes # << >>
  /\ Files \subseteq FileContents
  /\ \A c \in Asked : c.row \in 1 .. 4 /\ c.force \in ForcedCHS /\ c.lba \in BOOLEAN
  /\ \A d \in Drives :
       /\ d.bios \in Bios /\ d.bios.cyls * (d.bios.heads * d.bios.sects) < Modulus
       /\ d.readable \in Nat /\ d.bad \subseteq Numbers
       /\ d.disk \in [Numbers -> Contents] /\ d.disk[0] \in Tables

VARIABLES drive,    \* the disk drive, as it was at first
          disk,     \* what each sector holds
          file,     \* what the file holds
          cmd,      \* the command
          at,       \* where it is
          mem,      \* [g, view, image, rows]: what it knows of the disk
          sweep,    \* [sect, size, end] of verify and erase
          pending,  \* rows of tables to print
          seen,     \* sectors verified or erased, or drives printed
          result,   \* how the last command ended
          runs, faults
vars == <<drive, disk, file, cmd, at, mem, sweep, pending, seen, result,
          runs, faults>>

NoTable == [i \in 1 .. 4 |-> NoEntry]
Entries(s) == IF disk[s].kind = "table" THEN disk[s].rows ELSE NoTable

Advanced == INSTANCE AdvancedTable WITH DiskEnd <- Modulus - 1,
  CylEnd <- Modulus - 1, Half <- Modulus, MinFree <- 0, OsTypes <- {}

(* A transfer that ends at the last sector number counts as an overflow;   *)
(* one with a bad sector fails, and any write may.                         *)
Passes(s, n) ==
  /\ s + n < Modulus
  /\ \A x \in s .. s + n - 1 : x < drive.readable /\ x \notin drive.bad
MayFail == IF faults < MaxFaults THEN {TRUE, FALSE} ELSE {TRUE}
Counted(ok) == faults' = IF ok THEN faults ELSE faults + 1

Ends(r) ==
  /\ at' = "idle" /\ result' = r
  /\ UNCHANGED <<drive, file, cmd, mem, sweep, pending, runs>>
Refuse(r) == Ends(r) /\ UNCHANGED <<disk, seen, faults>>

Init ==
  /\ drive \in Drives /\ disk = drive.disk
  /\ file \in Files /\ cmd \in Asked
  /\ at = "idle" /\ result = "none" /\ seen = {} /\ pending = << >>
  /\ mem = [g |-> Queried(drive.bios, TRUE, FALSE), view |-> "MBR",
            image |-> Blank, rows |-> << >>]
  /\ sweep = [sect |-> 0, size |-> 0, end |-> 0]
  /\ runs = 0 /\ faults = 0

Issue(c) ==
  /\ at = "idle" /\ runs < MaxCommands
  /\ runs' = runs + 1 /\ cmd' = c /\ at' = "info" /\ result' = "none"
  /\ seen' = {} /\ pending' = << >>
  /\ UNCHANGED <<drive, disk, file, mem, sweep, faults>>

-------------------------------------------------------------------------------
(* get_disk_info: without access to the last sector other sizes are tried, *)
(* but the loop never goes on to the next one.                             *)
After == IF cmd.name = "Load" THEN "load" ELSE "table"
GeometryIs(g) ==
  /\ at' = After /\ mem' = [mem EXCEPT !.g = Forced(g, cmd.force)]
QueryDisk ==
  /\ at = "info"
  /\ LET g == WithHeads(Queried(drive.bios, cmd.lba, cmd.name = "Erase"),
                        cmd.force)
     IN  IF ~g.lba \/ Passes(Wrap(g.total - 1), 1) THEN GeometryIs(g)
         ELSE at' = "sizes" /\ mem' = [mem EXCEPT !.g = g]
  /\ UNCHANGED <<drive, disk, file, cmd, sweep, pending, seen, result,
                 runs, faults>>
TrySize ==
  /\ at = "sizes"
  /\ IF Passes(TestSizes[1], 1)
     THEN GeometryIs([mem.g EXCEPT !.total = TestSizes[1] + 1])
     ELSE UNCHANGED <<at, mem>>
  /\ UNCHANGED <<drive, disk, file, cmd, sweep, pending, seen, result,
                 runs, faults>>

-------------------------------------------------------------------------------
(* convert_adv_data also clears the password.                              *)
Converted(d) ==
  IF d.version < Version THEN [d EXCEPT !.version = Version, !.locked = FALSE]
  ELSE d

(* What a command finds on the disk: the table of the MBR, or the advanced *)
(* one if the MBR says that it is there, and it is.                        *)
FoundOn(sectors, g) ==
  LET mbr == sectors[0]
      adv == mbr.kind = "table" /\ mbr.adv /\ Passes(mbr.at, 1)
             /\ sectors[mbr.at].kind = "data"
      data == Converted(sectors[mbr.at])
  IN  IF adv THEN [g |-> g, view |-> "ADV", image |-> data,
                   rows |-> AdvancedIn(g, data.rows)]
      ELSE [g |-> g, view |-> "MBR", image |-> mbr,
            rows |-> TableIn(g, mbr.rows, WholeDisk(g))]
Found(g) == FoundOn(disk, g)
ReadTable ==
  /\ at = "table"
  /\ \/ ~Passes(0, 1) /\ Refuse("no table")
     \/ /\ Passes(0, 1)
        /\ mem' = Found(mem.g) /\ at' = "command"
        /\ UNCHANGED <<drive, disk, file, cmd, sweep, pending, seen, result,
                       runs, faults>>

(* The table must be valid, but for P, S and C; the row must be there.     *)
Does(name) == at = "command" /\ cmd.name = name
Checked == Whole(mem.rows)
Unchecked == {"Print", "PrintAll", "Save", "Compare", "Erase"}
Reject ==
  /\ at = "command" /\ cmd.name \notin Unchecked /\ ~Checked
  /\ Refuse("fix the table first")
NoEffect ==
  /\ at = "command" /\ cmd.name \in {"Activate", "Hide"} /\ Checked
  /\ mem.view = "ADV" /\ Refuse("no effect")
TheRow == mem.rows[cmd.row]
EmptyRow ==
  /\ at = "command" /\ cmd.name \in {"Format", "Verify", "Erase"}
  /\ cmd.name = "Erase" \/ Checked
  /\ IsEmpty(TheRow) /\ Refuse("empty")

Save ==
  /\ Does("Save")
  /\ \/ file' = mem.image /\ result' = "saved"
     \/ file' \in {Cut, file} /\ result' = "not saved"
  /\ at' = "idle"
  /\ UNCHANGED <<drive, disk, cmd, mem, sweep, pending, seen, runs, faults>>
Compare ==
  /\ Does("Compare")
  /\ Refuse(IF file = mem.image THEN "the same" ELSE "different")

(* A and H pack the rows again and write the MBR.                          *)
WriteMbr(rows) ==
  \E ok \in MayFail :
    /\ Counted(ok)
    /\ disk' = IF ok THEN [disk EXCEPT ![0].rows = [i \in 1 .. 4 |-> Packed(rows[i])]]
               ELSE disk
    /\ seen' = seen /\ Ends(IF ok THEN "changed" ELSE "not written")
Activate ==
  /\ Does("Activate") /\ Checked /\ mem.view = "MBR"
  /\ WriteMbr([i \in 1 .. 4 |-> [mem.rows[i] EXCEPT !.active = (i = cmd.row)]])
Toggled(type) ==
  IF type \in DOMAIN Hides THEN Hides[type]
  ELSE CHOOSE t \in DOMAIN Hides : Hides[t] = type
Hide ==
  /\ Does("Hide") /\ Checked /\ mem.view = "MBR"
  /\ IF TheRow.type \in DOMAIN Hides \cup {Hides[t] : t \in DOMAIN Hides}
     THEN WriteMbr([mem.rows EXCEPT ![cmd.row].type = Toggled(@)])
     ELSE Refuse("cannot be hidden")

-------------------------------------------------------------------------------
(* F reads the last sector of the disk.  A row is given an empty table, or *)
(* a file system (module FatFormat; its boot sector stands for it).        *)
FormatRow(content, mayCancel) ==
  \E ok \in BOOLEAN, wrote \in BOOLEAN :
    /\ ok => wrote
    /\ ok \/ mayCancel \/ FALSE \in MayFail
    /\ Counted(ok \/ mayCancel)
    /\ disk' = IF wrote THEN [disk EXCEPT ![Start(mem.g, TheRow)] = content]
               ELSE disk
    /\ Ends(IF ok THEN "formatted" ELSE "not formatted") /\ seen' = seen
Format ==
  /\ Does("Format") /\ Checked /\ ~IsEmpty(TheRow)
  /\ IF ~Passes(Wrap(mem.g.total - 1), 1) THEN Refuse("no access")
     ELSE IF TheRow.type = "Extended"
     THEN FormatRow(TableOf(FALSE, 0, NoTable), FALSE)
     ELSE IF TheRow.type \in FatTypes THEN FormatRow(Boot, TRUE)
     ELSE Refuse("cannot be formatted")

-------------------------------------------------------------------------------
(* generic_verify and generic_clean: block by block, the first one up to   *)
(* the end of a track.  A block that fails is verified again sector by     *)
(* sector, up to the end of the row, and the first bad one is an error.    *)
BeginSweep(p) ==
  LET first == Start(mem.g, p)
  IN  /\ sweep' = [sect |-> first, end |-> Wrap(first + p.num - 1),
                   size |-> mem.g.sects - (first % mem.g.sects)]
      /\ at' = "sweep"
      /\ UNCHANGED <<drive, disk, file, cmd, mem, pending, seen, result,
                     runs, faults>>
Verify == Does("Verify") /\ Checked /\ ~IsEmpty(TheRow) /\ BeginSweep(TheRow)
Erase ==
  /\ Does("Erase") /\ ~IsEmpty(TheRow)
  /\ IF TheRow.valid /\ mem.view = "MBR" THEN BeginSweep(TheRow)
     ELSE Refuse("fix the table first")

(* Not the code: a block is never shortened.                               *)
WholeBlock == sweep.size
Block ==
  LET left == Wrap(sweep.end - sweep.sect + 1)
  IN  IF left < sweep.size THEN left ELSE sweep.size
BlockArea == sweep.sect .. sweep.sect + Block - 1
BlockDone ==
  /\ seen' = seen \cup BlockArea
  /\ disk' = IF cmd.name = "Verify" THEN disk
             ELSE [s \in Numbers |-> IF s \in BlockArea THEN Blank ELSE disk[s]]
BlockPasses ==
  IF cmd.name = "Verify"
  THEN Passes(sweep.sect, Block)
       \/ \A s \in sweep.sect .. sweep.end : Passes(s, 1)
  ELSE Passes(sweep.sect, Block)
SweepOn ==
  /\ at = "sweep" /\ sweep.sect <= sweep.end /\ BlockPasses /\ BlockDone
  /\ \/ /\ sweep' = [sweep EXCEPT !.sect = Wrap(@ + Block), !.size = mem.g.sects]
        /\ UNCHANGED <<drive, file, cmd, at, mem, pending, result, runs, faults>>
     \/ Ends("canceled") /\ UNCHANGED faults
SweepFails ==
  /\ at = "sweep" /\ sweep.sect <= sweep.end
  /\ \/ ~BlockPasses /\ faults' = faults
     \/ cmd.name = "Erase" /\ BlockPasses /\ FALSE \in MayFail /\ Counted(FALSE)
  /\ Ends("failed") /\ UNCHANGED <<disk, seen>>
SweepEnds ==
  /\ at = "sweep" /\ sweep.sect > sweep.end /\ Refuse("swept")

-------------------------------------------------------------------------------
(* L: the file says which table it is.  What is on the disk is not looked  *)
(* at.  For a file with an MBR view is not assigned: it may say "ADV", and *)
(* then there is no row of the manager.                                    *)
ManagerRow(d) == Advanced!ManagerRow(d.rows)
Compacted(d) == IF d.ignore THEN [d EXCEPT !.rows = Advanced!Compacted(@)] ELSE d
AllHidden(g) ==
  [NoTable EXCEPT ![1] = Packed(Recalculated(g,
     [NoEntry EXCEPT !.type = "Hidden (0xFF)", !.active = TRUE, !.rel = 1,
                     !.num = Wrap(g.total - 1)], 0))]

(* Not the code: the manager's row may have any size.                      *)
AnyManager(d) == ManagerRow(d) # 0
HasManager(d) == ManagerRow(d) # 0 /\ d.rows[ManagerRow(d)].num >= AdvSize

LoadAdvanced(d) ==
  LET place == d.rows[ManagerRow(d)].rel
      manager == place + 1 .. place + AdvSize - 1
      Written(k) ==
        [s \in Numbers |->
           IF k = 3 /\ s = 0 THEN TableOf(TRUE, place, AllHidden(mem.g))
           ELSE IF k >= 2 /\ s \in manager THEN Code
           ELSE IF k >= 1 /\ s = place THEN Compacted(d) ELSE disk[s]]
      passes == <<Passes(place, 1), Passes(place + 1, AdvSize - 1), Passes(0, 1)>>
      bad == {j \in 1 .. 3 : ~passes[j]}
  IN  IF ~Whole(AdvancedIn(mem.g, d.rows)) THEN Refuse("fix the table first")
      ELSE IF ~HasManager(d) THEN Refuse("no manager")
      ELSE \E k \in 0 .. 3 :
             /\ bad \cap 1 .. k = {}
             /\ k = 3 \/ k + 1 \in bad \/ FALSE \in MayFail
             /\ Counted(k = 3 \/ k + 1 \in bad)
             /\ disk' = Written(k) /\ seen' = seen
             /\ Ends(IF k = 3 THEN "loaded" ELSE "not written")
LoadMbr ==
  LET rows == TableIn(mem.g, file.rows, WholeDisk(mem.g))
  IN  \/ ~Whole(rows) /\ Refuse("fix the table first")
      \/ Whole(rows) /\ Refuse("no manager")
      \/ /\ Whole(rows)
         /\ \E ok \in MayFail :
              /\ ok => Passes(0, 1)
              /\ Counted(ok) /\ seen' = seen
              /\ disk' = IF ok THEN [disk EXCEPT ![0] = file] ELSE disk
              /\ Ends(IF ok THEN "loaded" ELSE "not written")
Load ==
  /\ at = "load"
  /\ CASE file.kind = "table" -> LoadMbr
       [] file.kind = "data" /\ file.version <= Version ->
            LoadAdvanced(Converted(file))
       [] OTHER -> Refuse("cannot be loaded")
-------------------------------------------------------------------------------
(* P: the table, and then the drives in the chain of its first extended    *)
(* partition, each table at the place the one before it says.  The row of  *)
(* the link is copied to one place in memory, and from the second one on   *)
(* that copy is its own container.                                         *)
Printed(p) == [start |-> Abs(mem.g, p.from), num |-> p.num]
DrivesIn(rows) ==
  {Printed(rows[i]) : i \in {j \in DOMAIN rows :
                               rows[j].type \notin {"Unused", "Extended"}}}
PrintTable ==
  /\ Does("Print") /\ at' = "print"
  /\ UNCHANGED <<drive, disk, file, cmd, mem, sweep, pending, seen, result,
                 runs, faults>>
Link == SelectInSeq(mem.rows, LAMBDA p : p.type = "Extended")
Copied(p) == IF p.level > 1 THEN [p EXCEPT !.in = AsContainer(mem.g, p)] ELSE p
PrintLogical ==
  /\ at = "print"
  /\ IF mem.rows[1].level - 1 > MaxTables THEN Refuse("too deep")
     ELSE IF Link = 0 THEN Refuse("printed")
     ELSE LET p == mem.rows[Link]
              rows == TableIn(mem.g, Entries(Start(mem.g, p)), Copied(p))
          IN  IF ~Passes(Start(mem.g, p), 1) THEN Refuse("no table")
              ELSE /\ mem' = [mem EXCEPT !.rows = rows]
                   /\ seen' = seen \cup DrivesIn(rows)
                   /\ UNCHANGED <<drive, disk, file, cmd, at, sweep, pending,
                                  result, runs, faults>>

(* P -r: each row, and the rows of the table in it (print_embr) if it is a *)
(* valid extended partition.                                               *)
IsLink(p) == p.type = "Extended" /\ p.valid /\ ~IsEmpty(p)
Showing(ok) == result' = IF ok THEN result ELSE "errors shown"

(* Not the code: the rows in an extended partition are not looked at.      *)
FirstRows(rows, before) == before
Following(rows, before) == rows \o before

PrintAll ==
  /\ Does("PrintAll") /\ at' = "nested" /\ pending' = mem.rows
  /\ Showing(Whole(mem.rows))
  /\ UNCHANGED <<drive, disk, file, cmd, mem, sweep, seen, runs, faults>>
PrintRow ==
  /\ at = "nested" /\ pending # << >> /\ ~IsLink(Head(pending))
  /\ pending' = Tail(pending)
  /\ UNCHANGED <<drive, disk, file, cmd, at, mem, sweep, seen, result,
                 runs, faults>>
PrintNested ==
  /\ at = "nested" /\ pending # << >> /\ IsLink(Head(pending))
  /\ LET p == Head(pending)
         first == Start(mem.g, p)
         rows == TableIn(mem.g, Entries(first), p)
     IN  IF Passes(first, 1) /\ p.level > MaxLevel THEN Refuse("too deep")
         ELSE /\ IF Passes(first, 1)
                 THEN /\ pending' = Following(rows, Tail(pending))
                      /\ seen' = seen \cup DrivesIn(rows) /\ Showing(Whole(rows))
                 ELSE pending' = Tail(pending) /\ seen' = seen /\ Showing(FALSE)
              /\ UNCHANGED <<drive, disk, file, cmd, at, mem, sweep, runs, faults>>
PrintEnds ==
  /\ at = "nested" /\ pending = << >>
  /\ Refuse(IF result = "none" THEN "printed" ELSE result)

-------------------------------------------------------------------------------
Running ==
  \/ QueryDisk \/ TrySize \/ ReadTable \/ Reject \/ NoEffect \/ EmptyRow
  \/ Save \/ Compare \/ Activate \/ Hide \/ Format \/ Load
  \/ Verify \/ Erase \/ SweepOn \/ SweepFails \/ SweepEnds
  \/ PrintTable \/ PrintLogical \/ PrintAll \/ PrintRow \/ PrintNested \/ PrintEnds
Next == (\E c \in Asked : Issue(c)) \/ Running

(* The program has no reason to stop: it is weakly fair to Running.  This  *)
(* is WF_vars(Running) written out, with what ENABLED comes to: a command  *)
(* that has not ended has a next step, but in the loop over the sizes.     *)
Endless == at = "sizes" /\ ~Passes(TestSizes[1], 1)
Fairness == <>[](at # "idle" /\ ~Endless) => []<><<at # "idle">>_vars
Spec == Init /\ [][Next]_vars /\ Fairness

-------------------------------------------------------------------------------
(* The sector numbers, sizes and rows a command works with are such, and   *)
(* no chain is followed too far.                                           *)
TypeOK ==
  /\ drive \in Drives /\ disk \in [Numbers -> Contents] /\ disk[0] \in Tables
  /\ file \in Contents /\ cmd \in Asked
  /\ at \in {"idle", "info", "sizes", "table", "load", "command", "sweep",
             "print", "nested"}
  /\ mem \in [g : Geometry, view : {"MBR", "ADV"}, image : Contents,
              rows : Seq(PartLong)]
  /\ pending \in Seq(PartLong)
  /\ \A i \in DOMAIN mem.rows : mem.rows[i].level <= MaxTables + 2
  /\ \A i \in DOMAIN pending : pending[i].level <= MaxLevel + 1
  /\ sweep \in [sect : Numbers, size : Numbers, end : Numbers]
  /\ runs \in 0 .. MaxCommands /\ faults \in 0 .. MaxFaults

(* generic_verify and generic_clean touch the sectors of their row only,   *)
(* and a sweep that ends has done all of them, none of which was bad.  Not *)
(* so for a row whose end wraps, which MODE_LBA can take for valid: then   *)
(* the loop is empty.                                                      *)
RowArea == LET first == Start(mem.g, TheRow)
           IN  first .. first + TheRow.num - 1
SweptAll ==
  (at = "sweep" \/ result = "swept") /\ RowArea \subseteq Numbers =>
    /\ seen \subseteq RowArea
    /\ result = "swept" => seen = RowArea /\ seen \cap drive.bad = {}

(* After A or H the table that is read again is valid, with every          *)
(* partition where it was, and what was asked for is the only difference.  *)
(* Not so with a row of one sector behind the last cylinder an entry can   *)
(* hold, but at the very place that the mark would name if it were an      *)
(* address, which needs a disk with fewer heads or sectors than the mark:  *)
(* its marks are taken for what they say.                                  *)
LooksMarked(p) == p.num = 1 /\ p.from.cyl > MaxCyl /\ p.rel = Abs(mem.g, Mark)
RepackedReadsBack ==
  [][(/\ cmd.name \in {"Activate", "Hide"} /\ disk' # disk
      /\ ~\E i \in 1 .. 4 : LooksMarked(mem.rows[i])) =>
       LET back == TableIn(mem.g, disk'[0].rows, WholeDisk(mem.g))
       IN  /\ Whole(back)
           /\ \A i \in 1 .. 4 :
                LET p == mem.rows[i]
                    q == back[i]
                IN  /\ [q EXCEPT !.type = p.type, !.active = p.active,
                                 !.valid = p.valid] = p
                    /\ q.type # p.type => cmd.name = "Hide" /\ i = cmd.row
                    /\ q.active = IF cmd.name = "Hide" THEN p.active
                                  ELSE i = cmd.row]_vars

(* After L the next command finds on the disk the partitions of the file,  *)
(* and nothing was written but the MBR and the partition of the manager.   *)
Partitions(rows) ==
  {[type |-> rows[i].type, rel |-> rows[i].rel, num |-> rows[i].num] :
     i \in {j \in DOMAIN rows : rows[j].type # "Unused"}}
LoadRestores ==
  [][at = "load" /\ result' = "loaded" =>
       /\ file.kind = "data" \/ ~file.adv =>
            LET back == FoundOn(disk', mem.g)
            IN  /\ back.view = IF file.kind = "data" THEN "ADV" ELSE "MBR"
                /\ Partitions(back.rows) = Partitions(file.rows)
                /\ Whole(back.rows)
       /\ \A s \in Numbers \ {0} : disk'[s] # disk[s] =>
            /\ file.kind = "data"
            /\ \E i \in DOMAIN file.rows :
                 /\ file.rows[i].type = Manager
                 /\ s - file.rows[i].rel \in 0 .. file.rows[i].num - 1]_vars

(* The logical drives: each table names its drives by their distance from  *)
(* it, and the next table by its distance from the outermost partition.    *)
(* (An entry that names no place is neither.)                              *)
Links(s) == {i \in 1 .. 4 : /\ Entries(s)[i].type = "Extended"
                            /\ ~Unplaced(Entries(s)[i])}
DrivesAt(s) ==
  {[start |-> Wrap(s + Entries(s)[i].rel), num |-> Entries(s)[i].num] :
     i \in {j \in 1 .. 4 : /\ Entries(s)[j].type \notin {"Unused", "Extended"}
                           /\ ~Unplaced(Entries(s)[j])}}
DrivesFrom(base) ==
  LET drives[n \in 0 .. MaxLevel] ==
        [s \in Numbers |->
           IF n = 0 THEN {}
           ELSE DrivesAt(s) \cup UNION {drives[n - 1][Wrap(base + Entries(s)[i].rel)] :
                                         i \in Links(s)}]
  IN  drives
LogicalDrives ==
  LET rows == Found(mem.g).rows
  IN  UNION {DrivesFrom(rows[i].rel)[MaxLevel][rows[i].rel] :
               i \in {j \in DOMAIN rows : rows[j].type = "Extended"
                                          /\ ~Unplaced(rows[j])}}
ListIsComplete(name) ==
  at = "idle" /\ cmd.name = name /\ result = "printed" => LogicalDrives \subseteq seen

(* P -r shows every logical drive at its place, or an error.               *)
RecursivePrintsEveryDrive == ListIsComplete("PrintAll")

(* The same is said of P.                                                  *)
PrintsEveryDrive == ListIsComplete("Print")

(* Every command comes to an end, chains that lead in circles included;    *)
(* but for a disk whose last sector and first size cannot be read.         *)
ComesToAnEnd == at # "idle" ~> at = "idle" \/ Endless
===============================================================================
