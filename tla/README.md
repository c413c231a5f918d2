# Formal models of Ranish Partition Manager

TLA+ modules that describe the parts of this repository in which order,
failure and stale state decide about the user's data, TLC configurations that
check them on small instances, and proofs, checked by TLAPS, of what matters
most for instances of every size.

Line numbers refer to the sources at the commit the project stands beside.
`PROJECT.json` maps every definition to the lines it was translated from.

## 1. Inventory

Ranish is a DOS program (C and assembler) that edits partition tables, formats
partitions, and installs one of two boot managers that run from the disk before
any operating system.  It is single-threaded: there are no locks and no
messages.  What is hard is what happens over a long session: state that
survives a command (the FAT cache, the rows of nested editors, flags computed in
an earlier round of the loop), steps that fail half-way on real disks, 32-bit
sector arithmetic, and the machine being switched off at any time.

| Component | State it keeps | Operations | Interacts with | Hard behaviour | Correct means |
|---|---|---|---|---|---|
| FAT sector cache (`CACHE.C`) | label (partition, sector), data, dirty flag of one block | look up, mark dirty, flush | transfers of `PART_AUX.C`; used by `FAT.C` | a read or a write in the middle fails; the label changes around them | without faults it is a plain store; with faults only the touched sectors suffer |
| FAT formatter (`S_FAT.C`, `FAT.C`) | boot record, two cache blocks (static), bad-sector count | format, mark bad clusters, update label, flush | the cache, the sector scan (by callback), the row being formatted | blocks survive a format; two copies; entries that straddle sectors; give-up and ESC | every bad sector is marked, nothing else is, and only the partition is written |
| Sector scan (`disk_process_sectors`) | address, counters of two loops | verify or fill a range | BIOS, progress and bad-sector callbacks | retries inside a failed block, clipping, wrap-around, no memory | each sector is dealt with once, in order; each failing one is reported once; it ends |
| Table editor (`setup_mbr`) | rows, sector buffer and its original, flags, a stack of nested editors | edit, insert, delete, hide, load, undo, save, enter, leave, format, erase | disk, the formatter, its own nested instances | flags computed in one round and used in another, inherited flags, containers that depend on the type, failing saves | what is destroyed is what the disk says is that partition; nothing unsaved is lost |
| Advanced table (`setup_mbr` with `VIEW_ADV`) | 32 rows, menu records, boot manager sectors; the MBR | install, remove, edit, sort and fill, compact, preview, save three areas | table editor, boot menu editor, boot manager | a save of several writes; two views of one buffer | a saved table can be loaded again; nothing is lost on leaving |
| Boot menu editor (`edit_boot_menu`) | the items of the menu, tags that tie them to rows | open, insert, delete, change an item, options, close | works on the packed table while `setup_mbr` keeps its own rows | tags are given, given up and given again | an item names the partition it was given |
| Boot manager (`MANAGE.ASM`) | tables, menu, timer | import, menu, time-out, build the MBR | the advanced data on disk | time-outs against keys, changes made by others in the MBR | only the chosen entry boots, hidden partitions stay hidden, no partition is lost |
| Compact boot loader (`IPL.ASM`) | key and default partition | choose, check, boot | MBR | time-out against key | boots what was chosen |
| Geometry detection (`get_disk_info`) and addresses (`PART_AUX.C`) | disk parameters | query, force, probe; pack, unpack, validate a row | BIOS, every reader and writer of a table | inconsistent answers of the BIOS; addresses behind the last cylinder; 32 bits | what is written is read back as it was |
| Generic verify, format, erase (`PART_GEN.C`) | counters | loops over tracks | BIOS, screen | last block, wrap-around, failures, ESC | every sector of the partition and no other |
| Command line (`command_line`) | options, table, file | print, print all, save, load, compare, hide, activate, format, verify | geometry, sweeps, the advanced table | nine checks in one order, chains of tables, files that do not fit | does what was asked and nothing else, and ends |
| Setup screens (`S_FAT.C`, `S_FAT32.C`, `PART_GUI.C`) | a boot record and the copy that counts as saved | edit, expected values, boot code, save, undo, leave | the record, its backup, the root directory | three writes in a row; the label is looked for again at each save | what was shown is on the disk; the label file agrees; no file is touched |
| BIOS access, screen, help, messages, IDE report, boot sectors, build files | - | - | - | I/O, text | not modelled |

## 2. Plan

In this order:

1. `CacheOps`, `SectorCache` against the abstract `SectorStore`; proofs. **Done.**
2. `FatFormat`: `format_fat` on top of `CacheOps`. **Done.**
3. `ProcessSectors` against the abstract `SectorScan`; proofs. **Done.**
4. `TableEditor`: nested editors in `MODE_LBA`. **Done.**
5. `AdvancedTable`: sorting, filling, validating and compacting the advanced
   table, importing from the MBR and building it, as operators. **Done.**
6. `BootManager`: boots, other systems' changes and reviews over the data on disk,
   composed with `AdvancedTable`. **Done**, but for the keyboard.
7. `AdvancedEditor`: the editor of the advanced table, installing and removing the
   boot manager, and the boot menu editor, composed with `AdvancedTable`. **Done.**
8. `DiskGeometry`: `get_disk_info`, packing, unpacking and validation of rows in
   both modes; `CommandLine`: the commands, with the loops of `PART_GEN.C`.
   **Done.**
9. `BootRecordSetup`: the setup screens of FAT partitions. **Done.**
10. Proofs of the invariants and action properties of `FatFormat`, `TableEditor`,
    `AdvancedEditor`, `CommandLine`, `BootRecordSetup` and `ProcessSectors`.
    **Done**, but for what 7 lists as model-checked only.
11. Proofs about `BootManager`: all its properties.  **Done.**
12. Proofs of all properties of `CommandLine` that are no liveness.  **Done.**

The abstract specifications worth stating are the plain store under the cache and
the plain scan under `disk_process_sectors`, both done and proved, and "the next
item is the last one" under the menu of the boot manager, which is small enough to
be an action property (`RememberedComesBack`).

## 3. Modules

### CacheOps, SectorCache, SectorStore

`CacheOps` holds the functions of `CACHE.C` as operators on a block value, so
that `SectorCache` (one block, any caller) and `FatFormat` (two blocks, the FAT
routines) share them.  `SectorCache` makes an action of every call: `Read` and
`Write` are `fat_get_table_entry` and `fat_set_table_entry` as far as the cache
is concerned, `ReadFails` is a `cache_read` that returns NULL, `Flush` is
`cache_flush`, `Restart` a reset of the machine.  A failed write inside
`cache_read` is ignored, as in the code.  `wanted`, `failed`, `spoilt` and
`asked` are history variables.

`SectorStore` is the promise: a call returns what was last put, and a reset
goes back to a durable part.  `StoreSpec` instantiates it with the contents seen
through the cache for `store` and the disk for `durable`.

| Property | Says |
|---|---|
| `StoreSpec` | until the first fault the cache cannot be told from the store |
| `CleanBlockOnDisk` | a clean block agrees with the sector it is labelled with |
| `OnlyFaultsHarm` | a lost update or a foreign value only where a transfer of that sector has failed |
| `FlushMeansDurable` | after a flush that reports success the disk holds what the cache shows |

### FatFormat

One row of a table is formatted again and again, and moved in between.  A
sector of a FAT is the set of its half-bytes that carry a bad mark, which is
enough to see the FAT-12 entry that lies in two sectors.  The two cache blocks
keep their contents between formats.  Each stage of `format_fat` is an action;
the surface scan takes one step per sector (its blocks are the business of
`ProcessSectors`) and may be ended by ESC.  Every transfer can fail within the
bound `MaxFaults`; `media` is the set of sectors that are bad for good.

A layout is one that the setup screens lead to: what is not data leaves room for
data, a FAT has an entry for each cluster, FAT-32 has more than eight reserved
sectors (the backup record goes to 6 to 8), no root directory of its own and at
least one cluster for it, and the others have a root directory.  A sector holds at
least one entry of every width.

| Property | Says |
|---|---|
| `ScanWritesOnlyFats` | the surface check of a row that was not edited writes its FATs and the sector under test |
| `CachedCopiesExact` | during the first format both copies, seen through their blocks, carry exactly the marks of the bad sectors found |
| `FirstCopyExact` | after a first format without a fault the first copy on the disk does |
| `ReformatKeepsMarks` | a later format of the same row keeps all marks and adds none |

`EveryCopyMarked` does not hold; see 6.

### ProcessSectors, SectorScan

`ProcessSectors` follows `disk_process_sectors` loop by loop: the aligned first
block, the retry of single sectors after a block failed, the second loop, the
callbacks that cancel or give up, and the overflow test of `disk_read`,
`disk_write` and `disk_verify`, which refuses a transfer that ends at 2^32.  A
long transfer may fail although each of its sectors works.  `SectorScan` is
the promise: one sector after the other, each failing one reported exactly
once.  `ScanSpec` is the refinement, with `curr + i` as the number of sectors
done.

`curr_sect` is added up in 32 bits, as in the code.  In a range longer than 2^32
less a track the sum can wrap before the range ends, and the code then does
something else than scan the range (6).  `CountFits` says that this cannot
happen and `OnDisk` that the range itself does not wrap; where either is not so,
`BlocksWithinTrack` and `ScanSpec` promise nothing, and `Terminates` excepts a wrapping
count only where bad sectors are reported.  `reported`, a history, is bounded by
`MaxReports`, since a scan that starts over reports without end.

### TableEditor

`setup_mbr` in `MODE_LBA`, with the view of the MBR and those of nested extended
partitions.  One action is one key: the handler, followed by the head of the
loop (`force_recalculate`, `validate_table`, packing, comparison with
`data_orig`).  `stack` holds the open editors: `Enter` calls `setup_mbr` on a row
and `Quit` returns.  `Add` and `Sub` are 32-bit arithmetic.  CHS fields follow the
LBA fields in this mode and are left out, as is the active flag.  What formatting
a FAT partition overwrites is any prefix of it (`FatFormat` says what exactly), and its
first sector becomes `Boot`, which a later `Enter` may read as a table.

An editor shows rows it cannot vouch for: `Hide` and `Insert` leave the container
of an extended row as it was chosen for its former type, an empty row is entered
with a valid flag that is whatever `malloc` has left, and on a disk of more than
2^31 sectors a row can wrap into the table it stands in.  `Placed` says that a row
is counted from the container its type calls for, and `Trusted` that this is so,
that the row is not empty and does not wrap, that its flag is what
`validate_table` would say now, and that the editor itself was entered through
such rows (`sure`, a history field of the editor).  What is done through other rows may
overwrite the table of an open editor (`Harmed`, `Overwrites`).

`lost` is a history variable: the editors whose last save has failed, or whose
table was overwritten in that way (6).  The code takes such a table for saved
(`table_unsaved`), so the properties below leave it out, and say that the harm
stays with it.  `NoneLost` says that no open table is lost, `ExactlyOnDisk` that a
nested one is on the disk with the rows of type Extended it shows.  `adjust_part_type`
exchanges each of four types (Extended and FAT-32, and both hidden) for its
LBA twin and back (`LbaType`, `ChsType`); a type that is adjusted after a save is not
on the disk, so two tables are compared up to the twin (`Alike`).

| Property | Says |
|---|---|
| `SavesReachable` | a save writes the sector of the current table and no other; if the parents are on the disk and were trusted, the tables on the disk lead to that sector |
| `FormatsWhatDiskSays` | what is formatted or erased is on the disk as it is on the screen, in a trusted table that is on the disk with all its rows placed |
| `FormatsInside` | formatting a trusted row leaves alone the tables of all open editors and the other rows, valid or not |
| `OrigOnDisk` | what the editor takes for saved is what is on the disk |
| `QuitLosesNothing` | leaving an editor throws nothing away |

### AdvancedTable, BootManager

`AdvancedTable` has no variables.  It defines what `PART.EXE` makes of a table
before it is saved (`Adjusted`, `ValidTable`, `Compacted`), how the boot manager
adds what has changed in the MBR (`Imported`), and how it builds the four rows of
the MBR for the chosen item: which rows of the table to show (`Together`,
`FirstFree`), the gaps and the rest of the disk (`Pieces`, `Filled`), the exchange
of rows that belong into a certain entry (`Settled`), and the conversion
(`MbrEntry`).  Places and sizes are numbers of two words, as `Behind` compares
them word by word.  The bubble sort is stated by its result: a row's place is the
number of rows that come before it (`Ranked`, `Precedes`).  The loop over the gaps
is a recursive function whose value is the state of the loop (`Placed`); the
loops of three or four turns are written as nested turns, each turn an operator
of its own (`ImportEntry`, `WithFlag`, `WithRow`).  `CylEnd` is where the disk
ends for the boot manager, the last whole cylinder of the BIOS' geometry, and
`DiskEnd` where it ends for `PART.EXE`; nothing relates the two, and on every disk
of more than 8 GB `CylEnd` is smaller.  `TypesApart` says that no system's type is
the manager's or that of hidden space.

`BootManager` lives on the two things that are on the disk, `table` and `mbr`,
and `ram`, the copies the manager works with.  `PowerOn` is the part of the
manager before its menu; `Boot` is one boot from the menu, with the cursor moved to
any item before: `Enter` (also a digit, or the timer), `Escape`, and the keys
A, Tab and H (`BootOther`).  A boot that fails comes back to the menu with what it
has left in memory (`Stays`).  `ActMbrRec` is what the boot sector is read from: the
active entry, or, if no entry is active, what an earlier choice has left there;
an item that is of no known type does nothing but may be remembered (`Ignored`).
`SetupsValid` assumes of what is installed what `PART.EXE` checks before it saves.
While an operating system runs, its own fdisk may
create, delete and retype partitions; these actions are external, and create
only in space that no entry of the MBR mentions, which is what the manager relies
on.  `Review` is `PART.EXE`: the user gives up at most one partition and saves the
table, and the MBR behind it; the second write may fail.

| Property | Says |
|---|---|
| `OccupiedCovered` | once the imports were reviewed, the MBR covers every partition, shown or hidden, as far as the geometry of the BIOS reaches (`InGeometry`) |
| `PartitionsApart` | if new partitions are reviewed before others are created, no two partitions ever overlap, but in sectors behind that geometry which a partition was given since (`behind`) |
| `StartsWhatWasChosen` | what starts is the chosen item's partition, and the only active entry |
| `NothingForgotten` | every visible entry of the MBR is in the table when the menu appears, while rows are left |
| `RememberedComesBack` | the item last booted with Enter, or the fixed one, is under the cursor again |

Two of them have exceptions that stand for what the code does (6): `FilledUp` in
`StartsWhatWasChosen`, `Overruled` in `NothingForgotten`.

`unreviewed`, `careless`, `behind`, `gone` and `entered` are history variables: rows were
imported and not reviewed; a partition was created in that time; sectors behind
the geometry that were given to a new partition since the last review; partitions
that the user or an fdisk has given up; the item last booted with Enter.

### AdvancedEditor

`setup_mbr` on the first disk, on its way from an MBR to an advanced table and
back, and `edit_boot_menu`.  `cur` is the buffer `data` (MBR and advanced data),
`orig` is `data_orig`, and `disk` holds the MBR and, by place, the advanced data
with the code behind it.  A key is an action: `Insert`, `Delete`, `EditField`,
`Activate`, `Install` (with the search for space and the conversion of the four
rows), `UninstallAdvanced`, `Preview` and `EndPreview`, `SaveAdv` (three writes, any
may fail), `SaveMbr`, `Undo`, `Quit`.  `MenuOpened` remembers how the menu editor was
opened; `menu.held` are the rows `setup_mbr` keeps meanwhile, and after Enter they
are packed over those the editor has changed (6, `adv_menu_kept`).  FAT and NTFS
types that can be hidden are one type.  A disk to start with is one the program
has left (`LeftBehind`): an MBR of the boot manager leads to its data, and tags are
unique in what is saved.

| Property | Says |
|---|---|
| `TagsUnique` | no two rows ever have the same tag, however rows and items came and went |
| `SavedPairConsistent` | unless a save has failed, the boot code finds data and manager where the MBR says |
| `LeavingLosesNothing` | what is left by ESC, PgUp or F5 is what will be shown next time |
| `ConversionKeepsPartitions` | installing and removing the boot manager move partitions between rows and lose none |

### DiskGeometry, CommandLine

`DiskGeometry` has no variables.  `Queried`, `WithHeads` and `Forced` are
`get_disk_info`; `TableIn` and `AdvancedIn` unpack a table and validate its rows,
`PackedAddress` and `Recalculated` go the other way.  A sector number is below
`Modulus`, in place of 2^32, and the last cylinder an entry can hold is 1, so that
cut-off and marked addresses are the rule and not the exception.  `MaxCyl`,
`MaxHead` and `MaxSect` are the limits of an entry's fields (1023, 255 and 63);
all sectors that such an address names have numbers below `Modulus`, and so have
those of a drive that is described by cylinders.  A command
works in CHS mode; `Erase`, which only the editor has, works in `MODE_LBA` on a
disk with extensions, which changes what counts as valid.

`CommandLine` runs one command after the other on a disk with a file.  `QueryDisk`
and `TrySize` find the geometry; `ReadTable` reads and unpacks; `Reject` is the check
before a command that needs a valid table; `Save`, `Load`, `Compare`, `Activate`,
`Hide`, `Format` follow `command_line` to its end, `Verify` and `Erase` start the
loops of `PART_GEN.C`, which make a step per block (`SweepOn`, `SweepFails`,
`SweepEnds`).  `P` makes a step per table of the chain (`PrintLogical`); `P -r` makes
one per row that is no link (`PrintRow`) and one per table of the recursion
(`PrintNested`, `pending` being its stack).  A sector that is
no table is read as an empty one; formatting a FAT leaves a boot sector there
(`FatFormat` says what else).

| Property | Says |
|---|---|
| `SweptAll` | verify and erase touch the sectors of their row and, when they end well, all of them |
| `RepackedReadsBack` | after A and H the table reads back with every partition where it was and one change (but for `LooksMarked`, 6) |
| `LoadRestores` | after L the disk has the partitions of the file, and nothing was written beside MBR and manager |
| `RecursivePrintsEveryDrive` | P -r shows every logical drive at its place, or says that there were errors; an entry with a type but no place is neither drive nor link |
| `ComesToAnEnd` | every command ends, on chains that lead in circles too |

### BootRecordSetup

`setup_fat` and `setup_fat32` differ in the fields they offer, in where the label
is looked for, and in the backup; one module has both.  `b` is the record on the
screen, `orig` the one that counts as saved, `boot`, `backup` and `dir` are on the
disk.  `Typed` is `edit_int_field` (a key at a time, with its limits), `Canonical` what
becomes of a label.  `Save` is F2: the record, its backup, the label; each may fail,
and a write of three sectors may have written the first.  The label goes to the
first end mark, label or deleted label (`LabelPlace`).  What of the record is not
edited is left out, `magic` and `code` say whether F5 and F6 have something to do.

A FAT-16 record whose total is edited so that it has the clusters of FAT-32 (a
total of zero does, by unsigned subtraction) has its label routine look for a root
directory elsewhere; `LabelElsewhere` has the outcomes for the record, not the
sector that may be written.

| Property | Says |
|---|---|
| `LeavesWhatIsShown` | unless the last save failed, what the screen takes for saved is on the disk, backup included |
| `LabelFollows` | in a tidy directory no file is touched or moved, and after a save the one label is that of the record |

## 4. Runs and bounds

| Run | Instance | Why it is enough |
|---|---|---|
| `cache` | 2 partitions, 2 sectors, 2 values; 1 failing read, 2 failing writes | hits, misses within a partition and across partitions; a fault while the damage of another is still in the block |
| `fat_format` | FAT-12, FAT-16, FAT-32 rows of up to 18 sectors of 8 bytes; up to 3 bad sectors; 2 formats, 1 edit, 1 fault | tables of several sectors, an entry in two of them, the give-up limit of 3; the second format meets what the first has left |
| `fat_second_copy` (violated) | one FAT-12 row, 1 format | one mark is enough |
| `scan` | 16 sector numbers; ranges from 0, 1, 6 and 14 of 0, 1, 4, 12 and 15 sectors; tracks of 1, 3 and 4; up to 2 bad sectors | first and last block clipped, the same or different; the overflow test; ranges that wrap, and ranges so long that the count does, with a track that divides 16 and one that does not |
| `table_editor` | one disk of 8 sectors with three tables, one number to type (it wraps), rows made unused, FAT-32 or Extended, tables of 2 rows, 3 editors, 2 edits, 1 format, 1 failing save | a nested extended row counts from the outermost one; a file that contradicts the disk; a row that wraps to the MBR; the failure in the outer and in the inner table |
| `table_unsaved` (violated) | as above, 2 editors | one save, one format |
| `boot_manager` | 12 sectors, of which the BIOS' geometry reaches 9, 7 rows; 3 boots, 2 changes, 1 fault; three setups | an import needs two boots, the MBR made from it the second, what becomes of that the third; gaps with and without `ADV_OPT_IGN_UNUSED`, rows that want the same entry, a fixed item, an empty item and one without a partition |
| `adv_editor` | four disks of 12 sectors: one with an advanced table, a plain, an extended and a full one; 6 rows, 5 items, 2 or 3 edits, keys and failures | hidden and extended rows that have to move when the manager comes or goes, no space for it, a tag that is free again, a second write that fails |
| `adv_menu_kept` (violated) | the disk with an advanced table | one choice in the menu editor |
| `command_line` | nine disks of up to 35 of 36 sector numbers, six files; every pair of 28 commands, 1 failing transfer | chains of 3 and 4 tables (the limit is 4), one in a circle, an advanced table, a row that ends at the last number and one that wraps, a disk that is smaller than it says, one without a readable size, and one without extensions; a second command sees what the first has written |
| `print_drives` (violated) | a chain of three drives | the second link is the first that goes wrong |
| `boot_record_setup` | ten volumes, 3 edits, 1 failing transfer; numbers of 3, 4 and 5 bits | an edit, a failed save, an undo, another edit and a save that succeeds; long names, a full directory, a deleted label before the live one, a label of zeros, a label behind the first cluster |

Deadlock is not checked where the bounds (edits, formats, boots, commands) or the
program (a scan that has ended) stop the system.

## 5. Fairness

`ProcessSectors` and `CommandLine` have a liveness property.  `FairSpec` of the
first assumes weak fairness of `Next`: the loops contain nothing that waits, and
the callbacks return.  Under it a scan ends unless the count may wrap while a
callback for bad sectors wants more.  `CommandLine` is fair to the steps of a command (`Running`)
and not to `Issue`, the next command being the user's choice.  Its `Fairness` is
`WF_vars(Running)` with ENABLED written out: whenever a command has not ended it has
a step that changes something, but in the loop over the sizes that
`get_disk_info` tries.  The other components wait for the user, who need not do
anything.

## 6. What the code does differently from what it says

Each is a run that TLC finds violated; `PROJECT.json` quotes the lines.

- `fat_second_copy`: `fat_flush` flushes the second copy only when flushing the
  first one has failed.
- `table_unsaved`: after a failed save the table counts as saved.
- `adv_menu_kept`: what the menu editor has changed in the rows is overwritten when
  it was opened with Enter.
- `print_drives`: P copies the row of each link to one place in memory, so from
  the second link on its container is itself; drives behind the last cylinder
  are then listed at wrong places or not at all.

Met while modelling, kept in the modules, and excluded from the properties that
they would break (the comments there say how):

- Formatter and editor: the cache survives the initialisation of the tables, and a
  left-over dirty block is written at the new place of an edited row; a failure to
  clear the root directory is dropped; a type that is adjusted after a save is
  taken for saved; the container of an inserted row is chosen before its type is
  adjusted, and Hide does not choose it again, so that a nested extended row that is
  inserted, hidden, saved and erased overwrites the table it stands in, and one
  that Insert turns into "Extended LBA" is entered, and saved, at a place the disk
  does not know
  (`PART.C:1241`, `PART.C:1496`); an empty row keeps the valid flag of the memory it
  was given, and Enter believes it; on a disk of more than 2^31 sectors a row that
  wraps passes as valid (these three came up while proving, on instances larger
  than that of the run); Format asks whether a parent is invalid, Erase does
  not (`PART.C:1144`); rows of different tables are not compared; the 2 TiB check of a
  format looks at the container (`PART.C:1022`).
- Sector scan: where a range is longer than 2^32 less a track, the sum of `curr_sect`
  and the block can wrap, so the last block is not clipped (`DISKIOC.C:279`); it
  reaches past the last sector number and is refused, and its sectors are tried
  one by one, those behind the range included.  At the last number a scan without
  `bbt_func` fails.  With one that wants more, the address and `curr_sect` (line 303)
  wrap and the scan starts over: endlessly if `curr_sect` returns to a value it had,
  as with a track that divides 2^32, or until it comes to lie behind the range.  `CountFits` is the condition, and without it TLC finds `ScanSpec`,
  `BlocksWithinTrack` and `Terminates` violated.
- Boot manager: a partition that was imported and not yet reviewed can be in no
  entry of the MBR; numbers are compared word by word in `MAKE_PART_TAB`; a partition
  is imported again at each boot when another row begins at its place.  Three more
  came up while proving, and TLC shows each on an instance made for it.  In a table
  without an unused row left, whose one gap an import has taken, "last three" for
  the last row makes four pieces before that row: nothing is active, and the boot
  sector of whatever `ACT_MBR_REC` was before is started (`MANAGE.ASM:1467`;
  `FilledUp`).  The last piece ends with the geometry of the BIOS
  (`MANAGE.ASM:297`, `MANAGE.ASM:1473`), so what lies behind it is covered by no entry,
  and there another system may create a partition over one that is hidden
  (`InGeometry`, `behind`); `PART.EXE` does not let such a table be saved.  Of two visible
  entries for one place the last decides on the type (`Overruled`).
- Command line: a number of sectors forced with -g leaves the sectors per track as
  the BIOS said, so that rows are taken for inconsistent; the comment at
  `PART.C:2344` speaks of the last sector of the partition while the disk's is read;
  P follows extended partitions of type 5 only; `view` has no value when an MBR is
  loaded from a file; the loop over the sizes of `DISKIOC.C:114` does not advance
  when the first size fails; a row that wraps is swept by an empty loop; an extended
  entry that names no place counts as valid, as an empty row does, but P -r
  does not look for a chain there; a partition of one sector behind cylinder 1023,
  on a disk of fewer than 255 heads or 63 sectors, at the place that the mark names as
  an address, is not valid any more after A or H, since the marks are believed
  (`PART_AUX.C:244`; `LooksMarked`, excepted from `RepackedReadsBack`).  These two
  came up while proving.
- Setup screens: after a failed save, Undo and ESC leave a disk whose record is not
  the one shown; a label of zeros, which old records have, ends the directory at
  the place of the label and hides the files behind it; a deleted label before the
  live one is taken instead, and there are two; with a full directory, or a label
  behind the first cluster (FAT-32), a save succeeds without the label; a label of
  spaces becomes an entry of spaces in FAT-16 and `NO NAME` in FAT-32; F5 of
  `setup_fat32` does not set the sectors of a track; the backup goes to sectors 6 to
  8 even if the FAT begins before.

## 7. What is proved

Proofs hold for every value of the constants, so for disks, tables and menus of
every size and any number of edits, commands and faults; the constants are only
assumed to be what the `...Constants` assumptions of the modules say, which every
run evaluates.  `PROJECT.json` lists the theorems with the properties they state.

Most of the proof modules begin with what they need of numbers: quotient and
remainder for a divisor that is not a numeral, least and greatest members of sets,
and that a recursive function on `0 .. n` exists and has the values its turns give
it (`LoopExists`, `LoopType`).  With the last two a loop of the code, written as
such a function, is reasoned about by an invariant of its turns.

| Module | Theorems | Inductive invariant and argument |
|---|---|---|
| `SectorCacheProofs` | `CacheTypeOK`, `CleanBlocksAgree`, `FaultsHarmOnlyTheirSectors`, `FlushLeavesNothing`, `CacheImplementsStore` | `Inv` is the conjunction of the three invariants.  A miss writes the block back, and that the disk alone is then right (`WriteBackKeeps`) needs to know that a block which was not written, because it is clean, agrees with its sector.  The refinement is proved until the first fault (`Faultless`), where the invariant makes the view equal to `wanted`. |
| `ProcessSectorsProofs` | `ScanTypeOK`, `TransfersStayInTrack`, `ImplementsScan` | The address is tied to the counters (`addr = start + curr + i`, wrapped), and it is said which loop may be in which state; without it neither the bounds of `curr` nor the order of the reports would be inductive.  That a block does not cross a track is arithmetic of the clipped first block.  The count is shown to stay in the range where it cannot wrap (`CountFits`); the types hold in any case. |
| `FatFormatProofs` | `FormatTypeOK`, `ScanKeepsToTheFats`, `CopiesExact`, `FirstCopyOnDisk`, `ReformatKeeps` | `Staged`: as long as the row has not been edited, or its first format is under way, the blocks hold sectors of its own FATs only.  `MarksInv`, without faults: what is seen through a block is the marks of the bad sectors so far (`ExactMarks`); an old block of an earlier format has no mark that is not one of an unreadable sector (`Leftovers`), and the first copy keeps those of the last scan (`FirstCopyMarks`).  Most of the work is that one entry of 3, 4 or 8 half-bytes, perhaps in two sectors, changes the marks of its cluster only. |
| `TableEditorProofs` | `EditorTypeOK`, `OriginalIsOnDisk`, `QuittingLosesNothing`, `FormattingStaysInside`, `SavedTablesAreReachable`, `FormatsAreOnDisk` | `Stacked`: an editor that was entered through trusted rows lies on the disk, without wrapping, strictly after the tables of its parents, so that no save or format reaches those.  `Linked`: each editor leads to the next as a row of its saved table says, as long as no change was inherited; with it the open editors are a path the tables on the disk give as well. |
| `CommandLineProofs` | `CommandTypeOK`, `SweepsTheirRow`, `ListsEveryDrive`, `LoadsTheFile`, `RepackedReads` | `GeometryReady`: the geometry is sound but while the size is still sought.  `RowsReady`: a command works on rows of the first level, of which no valid one begins with the MBR.  `SweepReady`: what a sweep has passed is the row up to its position, and the sweep of a row that wraps ends before it begins.  `ListReady`: what P -r has shown and what its pending rows lead to are all drives, unless an error was shown; `ChainIs` unfolds the recursive function on the chain by one table, `BelowOpens` is the step from a link to the rows of its table.  For L: compaction keeps every used row and makes no row twice (`Keeps`, `CompactedKeepsRows`), so a valid table stays valid (`CompactedWhole`) and has the same partitions (`PartitionsAre`).  For A and H: see below. |
| `AdvancedEditorProofs` | `EditorTypeOK`, `TagsStayUnique`, `SavedPairStays`, `ConversionKeeps`, `LeavingKeeps` | `TagsApart`: tags are unique wherever a table is kept, on the disk, in both buffers and in the menu editor's copy; sorting is a permutation, filling and compaction give no tag (`NoRow` and gaps keep 0 or their own), `FreeTag` is one no row has.  `PairsLead`: until a save has failed, every MBR that F2 could write next (the disk's and those of both buffers) leads to data on the disk.  `LeavingKeeps`: see below. |
| `BootManagerProofs` | `TypeAlways`, `ChosenStarts`, `ForgottenNever`, `RememberedAlways`, `OccupiedAlways`, `ApartAlways` | See below. |
| `BootRecordSetupProofs` | `SetupTypeOK`, `SetupLeavesWhatIsShown`, `LabelAgrees` | The type invariant bounds each field by its width (a key at a time, `TypedInRange`); the rest is that a save that succeeded has written record and backup before the copy is taken.  For the label: the directory stays tidy (`Settled`), so that its place is before the end mark or at it, and no label of zeros is ever in a record. |

The boot manager has five invariants, each inductive with those before it.

- `Base`: the types, and that both tables and the MBR are sound: used rows lie on
  the disk, there is no tag behind the first empty row, and a row of the manager
  has room for its files.  Without the tags the items of the menu would not find
  their rows within `LastRow`; without the manager a review would make room for
  one (`WithManager`) and change more than it is told to.
  It gives `TypeAlways` and, with the facts on one import, `ForgottenNever`.
- `Remembers`: `adv_act_menu` on the disk is the item that was entered last.  A
  boot that fails leaves the number in memory, where a later one writes it; that is
  what `entered` follows.  It gives `RememberedAlways`.
- `InLine`: without `ADV_OPT_IGN_UNUSED` (with it gaps between rows that follow each
  other are not shown) the rows before the first empty one follow
  each other without a gap, as long as there is an empty one.  `PART.EXE` saves
  tables that are so (`AdjustedShape`: a valid arranged table goes from sector 1 to
  the end of the disk without a hole), and an import takes the last unused row, so it
  does not break the line until the table is full.  Then a row that is shown with
  another takes one piece and not two, so the chosen row is among the first four
  and the one active entry (`ShownOne`); putting pieces back where they came
  from is a permutation (`SettledIs`).  It gives `ChosenStarts`.
- `Neat`: while nothing is to be reviewed the table is in order, and the copy in memory
  is at the same places.  A table in order has an unused row for each of its
  holes (`FitsIn`); a review that gives up one partition opens at most one hole and
  frees one row (`KeptFits`), so the adjustment moves and resizes no used row
  (`StaysPut`), even if the table is full.
- `Covered` with `PartitionsApart`: what lives is covered by the MBR, and what lives or
  is visible is apart.  Each needs the other: fdisk creates only in what no entry
  mentions, so what is covered is safe, and a table whose rows are apart and in
  order is covered by what is shown of it, the gaps and the last piece
  (`MadeCovers`).  It gives `OccupiedAlways` and `ApartAlways`, wherever `CylEnd` is: what the
  last piece leaves out is behind the geometry, and what was created there since the
  last review is in `behind`.

`ConversionKeeps` assumes at least ten rows (there are 32): the table made from an
MBR has at most five used rows, so every gap finds an unused one; with fewer the
row after a gap would be cut (`Placed`).

`LeavingKeeps` needs that the table which is read again is arranged to the rows that
were on the screen, although the one that was saved may have been compacted before.
Arranging is a recursive function over the sorted rows, and two tables with the
same used rows (`SameUsed`) take the same turns in it: the same rows, the same
gaps and the same unused rows spent, but for the tags that unused rows have kept
(`TurnIs`, `PlacedAlike`, `AdjustedAlike`).  So neither has to be idempotent;
`SavedShown` follows for the compacted table and the one that was not.  The
inductive invariant is `Remembers`: unless a save has failed, the MBR in `orig` is
the disk's, and if it is one of the boot manager, then what the disk leads to is
shown as `orig` is (`Reads`), or it was never read (`NeverRead`).  The second case is
the one a test would miss: where the data could not be read, `orig` is all zeros,
and a table that is shown must differ from that to count as changed.  It does,
because it is signed or has a row of the manager (`Marked`), which no key removes:
not even the menu editor, whose copy of the rows (`menu.held`) the invariant has
to follow, or the way through the preview.

`RepackedReads` needs three things.  A command but E never works in MODE_LBA
(`ModesReady`), so a row that counts as valid has addresses that agree with its
sector numbers and lie in their order.  Whether a row passes does not depend on its
type or its active mark (`AlikePassing`).  And a row that lies where it should comes
back from its entry (`UnpackedAgain`): addresses that an entry can hold are packed
as they are, and then the same test decides as before; where one was cut off, the
mark makes `Unpacked` calculate both again, unless it is at the place it names.
With the first sector there, or with the last one where the first is, the row has a
single sector (`LastOf`), which is what `LooksMarked` excepts.

`FormatsAreOnDisk` and `SavedTablesAreReachable` have the conditions that the
properties state, and `OriginalIsOnDisk` the exception `lost`; larger instances
than that of the run show that they are needed (6).

Model-checked only: `Terminates` and `ComesToAnEnd`; liveness under fairness is
beyond TLAPS.

No module declares a RECURSIVE operator.

## 8. Not modelled

The components marked so in `PROJECT.json`: the compact boot loader (one sector of
assembler, started once), boot sectors, BIOS and screen primitives (interrupt calls
and drawing, present as the outcomes of a transfer), the help viewer, the messages
and the IDE report (text).

Of the modelled ones: the boot record's fields and the cluster size tables in
`FatFormat` (it takes the layout they lead to); the fields of cylinder, head and
sector in the editors (their packing and unpacking is in `DiskGeometry`); all
drawing.  Of the boot manager: its password (a refusal only returns to the menu),
its check for viruses, the keys it types ahead, and CHS addresses.  Of the menu editor: the
password, recorded keys and colours.  Of the command line: the options that only
change what is printed, the information on IDE drives, and the restart.  Of the
setup screens: F7, which only reads, and the cursor.  `BootRecordSetup` assumes the
nine reserved sectors that a FAT-32 record and its backup need.
