------------------------------- MODULE FatFormat -------------------------------
(***************************************************************************)
(* format_fat of S_FAT.C on one row of a partition table, with the FAT     *)
(* table routines of FAT.C and their two cache blocks.  The blocks are     *)
(* static storage: they outlive a format, and they remember the row by the *)
(* address of its struct part_long, which stays the same when the user     *)
(* edits the row.                                                          *)
(*                                                                         *)
(* A sector of a FAT is the set of its nibbles that hold a bad-cluster     *)
(* mark, so the FAT-12 entry that straddles two sectors is two partial     *)
(* updates, as in the code.  The other contents are not looked at.         *)
(***************************************************************************)
EXTENDS CacheOps, Integers, FiniteSets, FiniteSetsExt

CONSTANTS Row,          \* the &part[row] that is formatted
          Layouts,      \* geometries the user can give the row
          SectNibbles,  \* half-bytes in a sector
          DiskSize,     \* sectors on the disk
          MediaFaults,  \* the possible sets of unreadable sectors
          MAX_BAD_SECTORS,
          MaxFormats, MaxEdits, MaxFaults  \* bounds on what happens

ASSUME FormatConstants ==
  /\ Row # None
  /\ SectNibbles \in Nat /\ SectNibbles >= 8 /\ DiskSize \in Nat \ {0}
  /\ MAX_BAD_SECTORS \in Nat \ {0}
  /\ MaxFormats \in Nat /\ MaxEdits \in Nat /\ MaxFaults \in Nat

VARIABLES
  io,        \* disk, cache blocks, transfer failures so far, sectors the last
             \* step wrote, whether the last routine returned OK
  lay,       \* the row's position and the boot record made from it
  media,     \* disk sectors that cannot be read or written
  form,      \* F_VERIFY or F_DESTR
  stage,     \* how far format_fat has come
  pos,       \* next partition sector of the surface scan
  bad,       \* bad sectors found, partition-relative
  rootClear, \* the root directory has been filled with zeros
  result,    \* what format_fat returned last
  formats, edits

vars == <<io, lay, media, form, stage, pos, bad, rootClear, result,
          formats, edits>>

Disk    == 0..DiskSize - 1
Nibbles == 0..SectNibbles - 1
Copies  == 0..1                  \* num_fats is always set to 2
Garbage == Nibbles               \* what an old sector looks like, at worst

-------------------------------------------------------------------------------
(* The boot record: what fat_initialize_bootrec decided, and what FAT.C    *)
(* derives from it.                                                        *)
Layout == [base : Nat, total : Nat, width : {3, 4, 8}, res : Nat,
           fat : Nat, root : Nat, clust : Nat \ {0}]

Fat32(L)   == L.width = 8
NonData(L) == L.res + 2 * L.fat + L.root
ClusterCount(L) == (L.total - NonData(L)) \div L.clust
ClusterToSector(L, c) == NonData(L) + (c - 2) * L.clust
SectorToCluster(L, s) == (s - NonData(L)) \div L.clust + 2

Inside(L)     == L.base .. L.base + L.total - 1
FatStart(L, copy) == L.res + copy * L.fat
FatArea(L)    == {L.base + s : s \in L.res .. L.res + 2 * L.fat - 1}
BootSectors(L) == IF Fat32(L) THEN 0..2 \cup 6..8 ELSE {0}
RootSectors(L) == IF Fat32(L)
                  THEN {ClusterToSector(L, 2) + i : i \in 0..L.clust - 1}
                  ELSE {L.res + 2 * L.fat + i : i \in 0..L.root - 1}

(* fat_calc_table_pos: entry c occupies width nibbles from width * c on.   *)
EntryNibbles(L, c) == L.width * c .. L.width * c + L.width - 1
EntrySectors(L, c) == {n \div SectNibbles : n \in EntryNibbles(L, c)}
(* Not the code: positions counted from the start of the FAT.              *)
NibblesFromStart(L, c, s) ==
  {n \in EntryNibbles(L, c) : n \div SectNibbles = s}

NibblesIn(L, c, s) ==
  {n % SectNibbles : n \in {m \in EntryNibbles(L, c) : m \div SectNibbles = s}}

(* Rows fit the disk, and the tables hold every entry the scan can set,    *)
(* that of the partial cluster at the end included.  A FAT-32 row has 32   *)
(* reserved sectors and a root cluster, others have 1 and a root directory *)
(* of 512 or 224 entries.                                                  *)
ASSUME LayoutConstants ==
  \A L \in Layouts :
    /\ L \in Layout
    /\ Inside(L) \subseteq Disk
    /\ NonData(L) < L.total
    /\ L.width * (ClusterCount(L) + 3) <= L.fat * SectNibbles
    /\ IF Fat32(L) THEN L.res > 8 /\ L.root = 0 /\ ClusterCount(L) > 0
       ELSE L.res > 0 /\ L.root > 0

(* Unreadable sectors lie in the data area; a metadata sector that cannot  *)
(* be written is a transfer fault.                                         *)
Fits(L, M) == M \cap {L.base + s : s \in 0..NonData(L) - 1} = {}

-------------------------------------------------------------------------------
(* Disk transfers.  Every routine below maps an io record to the set of    *)
(* records it can end in.                                                  *)
MayFail(o) == IF o.faults < MaxFaults THEN {TRUE, FALSE} ELSE {TRUE}

(* disk_write_rel of the sectors S (partition-relative), all blank.        *)
Blank(o, L, S) ==
  LET A == {L.base + s : s \in S}
  IN  [o EXCEPT !.disk = [d \in Disk |-> IF d \in A THEN {} ELSE o.disk[d]],
                !.wrote = @ \cup A]

Count(o, ok) == [o EXCEPT !.faults = @ + IF ok THEN 0 ELSE 1, !.ok = ok]

(* A write beyond the end of the disk is refused.                          *)
FlushTo(o, copy, a, ok) ==
  LET b == o.cache[copy]
  IN  [disk   |-> FlushDisk(o.disk, b, a, ok),
       cache  |-> [o.cache EXCEPT ![copy] = FlushBlock(b, ok)],
       faults |-> o.faults + (IF ok \/ a \notin Disk THEN 0 ELSE 1),
       wrote  |-> o.wrote \cup (IF NeedsWrite(b) /\ ok THEN {a} ELSE {}),
       ok     |-> ok]
FlushResults(o, copy, a) == IF ~NeedsWrite(o.cache[copy]) THEN {TRUE}
                            ELSE IF a \in Disk THEN MayFail(o) ELSE {FALSE}

(* Not the code: the start of the partition is not added.                  *)
FlushOutcomesAbsolute(o, L, copy) ==
  LET a == o.cache[copy].sector
  IN  {FlushTo(o, copy, a, ok) : ok \in FlushResults(o, copy, a)}

(* disk_write_rel addresses a block by the row as it is now.               *)
FlushOutcomes(o, L, copy) ==
  LET a == L.base + o.cache[copy].sector
  IN  {FlushTo(o, copy, a, ok) : ok \in FlushResults(o, copy, a)}

(* Not the code: a dirty block is dropped by the next miss.                *)
LookupDrops(o, L, copy, s) ==
  LET b == o.cache[copy]
  IN  {IF InCache(b, Row, s) THEN [o EXCEPT !.ok = TRUE]
       ELSE [o EXCEPT !.ok = TRUE, !.cache = [@ EXCEPT ![copy] =
               FetchedBlock(EmptyBlock(0, {}), Row, s, o.disk[L.base + s])]]}

(* cache_read                                                              *)
LookupOutcomes(o, L, copy, s) ==
  LET b(f) == f.cache[copy]
      Fetch(f) == [f EXCEPT !.ok = TRUE, !.cache = [@ EXCEPT ![copy] =
                     FetchedBlock(b(f), Row, s, f.disk[L.base + s])]]
      Spoil(f) == {[Count(f, FALSE) EXCEPT !.cache = [@ EXCEPT ![copy] =
                      SpoiltBlock(b(f), Row, junk)]] :
                   junk \in {b(f).data, Garbage}}
  IN  IF InCache(o.cache[copy], Row, s) THEN {[o EXCEPT !.ok = TRUE]}
      ELSE UNION {IF FALSE \in MayFail(f) THEN {Fetch(f)} \cup Spoil(f)
                  ELSE {Fetch(f)} : f \in FlushOutcomes(o, L, copy)}

(* The part of an entry that lies in FAT sector s gets its bad mark.       *)
MarkOutcomes(o, L, copy, c, s) ==
  {IF l.ok THEN [l EXCEPT !.cache = [@ EXCEPT ![copy] =
                   DirtyBlock(l.cache[copy],
                              l.cache[copy].data \cup NibblesIn(L, c, s))]]
           ELSE l : l \in LookupOutcomes(o, L, copy, FatStart(L, copy) + s)}

(* Not the code: an entry is taken to lie in one sector.                   *)
SetEntryWhole(o, L, copy, c) ==
  IF ClusterCount(L) + 2 < c THEN {[o EXCEPT !.ok = FALSE]}
  ELSE MarkOutcomes(o, L, copy, c, Min(EntrySectors(L, c)))

(* fat_set_table_entry with a bad-cluster value                            *)
SetEntryOutcomes(o, L, copy, c) ==
  LET S == EntrySectors(L, c)
      first == MarkOutcomes(o, L, copy, c, Min(S))
  IN  IF ClusterCount(L) + 2 < c THEN {[o EXCEPT !.ok = FALSE]}
      ELSE IF Cardinality(S) = 1 THEN first
      ELSE UNION {IF f.ok THEN MarkOutcomes(f, L, copy, c, Max(S)) ELSE {f} :
                  f \in first}

(* fat_bbt_track: every copy, whatever fat_set_table_entry returns         *)
TrackOutcomes(o, L, s) ==
  LET c == SectorToCluster(L, s)
  IN  UNION {SetEntryOutcomes(f, L, 1, c) : f \in SetEntryOutcomes(o, L, 0, c)}

(* Not the code: the block of the first copy is never written.             *)
FatFlushSecond(o, L) == FlushOutcomes(o, L, 1)

(* fat_flush: "if ( !result ) return" -- the second copy is flushed only   *)
(* when flushing the first has failed.                                     *)
FatFlushOutcomes(o, L) ==
  UNION {IF f.ok THEN {f} ELSE FlushOutcomes(f, L, 1) :
         f \in FlushOutcomes(o, L, 0)}

-------------------------------------------------------------------------------
Fresh(o) == [o EXCEPT !.wrote = {}, !.ok = TRUE]

Init ==
  /\ lay \in Layouts
  /\ media \in {M \in MediaFaults : Fits(lay, M)}
  /\ io = [disk   |-> [d \in Disk |-> Garbage],
           cache  |-> [c \in Copies |-> EmptyBlock(0, {})],
           faults |-> 0, wrote |-> {}, ok |-> TRUE]
  /\ form = "verify" /\ stage = "idle" /\ pos = 0 /\ bad = {}
  /\ rootClear = FALSE /\ result = "NONE" /\ formats = 0 /\ edits = 0

Return(r) == stage' = "idle" /\ result' = r

(* The user changes the row and saves the table between two formats.       *)
EditRow ==
  /\ stage = "idle" /\ edits < MaxEdits
  /\ edits' = edits + 1
  /\ lay' \in {L \in Layouts \ {lay} : Fits(L, media)}
  /\ io' = Fresh(io)
  /\ result' = "NONE"
  /\ UNCHANGED <<media, form, stage, pos, bad, rootClear, formats>>

(* Arguments, disk_lock, fat_initialize_bootrec; boot sector and backup.   *)
(* fat_bad_sectors starts at zero, the FAT cache is left as it is.         *)
WriteBoot ==
  /\ stage = "idle" /\ formats < MaxFormats
  /\ formats' = formats + 1
  /\ form' \in {"verify", "destructive"}
  /\ bad' = {} /\ rootClear' = FALSE
  /\ \E ok \in MayFail(io) :
       IF ok THEN /\ io' = Blank(Fresh(io), lay, BootSectors(lay))
                  /\ stage' = "tables" /\ result' = "NONE"
             ELSE /\ io' = Count(Fresh(io), FALSE)
                  /\ Return("FAILED")
  /\ UNCHANGED <<lay, media, pos, edits>>

(* A bad option, no lock, or a partition too small or too large.           *)
Refuse ==
  /\ stage = "idle" /\ formats < MaxFormats
  /\ formats' = formats + 1
  /\ bad' = {}
  /\ io' = Fresh(io)
  /\ Return("FAILED")
  /\ UNCHANGED <<lay, media, form, pos, rootClear, edits>>

(* fat_initialize_tables: sector by sector over both copies, straight to   *)
(* the disk.  A failed write or ESC leaves a prefix.                       *)
InitializeTables ==
  LET S(n) == {lay.res + i : i \in 0..n - 1}
      all  == 2 * lay.fat
  IN  /\ stage = "tables"
      /\ \/ /\ io' = Blank(Fresh(io), lay, S(all))
            /\ stage' = "root"
            /\ UNCHANGED result
         \/ \E n \in 0..all - 1 :
              /\ FALSE \in MayFail(io)
              /\ io' = Count(Blank(Fresh(io), lay, S(n)), FALSE)
              /\ Return("FAILED")
         \/ \E n \in 1..all :
              /\ io' = Blank(Fresh(io), lay, S(n))
              /\ Return("CANCEL")
      /\ UNCHANGED <<lay, media, form, pos, bad, rootClear, formats, edits>>

(* fat_initialize_root ignores the result of part_fill_sectors.            *)
InitializeRoot ==
  /\ stage = "root"
  /\ \E ok \in MayFail(io) :
       /\ io' = IF ok THEN Blank(Fresh(io), lay, RootSectors(lay))
                ELSE Count(Fresh(io), FALSE)
       /\ rootClear' = ok
  /\ stage' = "scan" /\ pos' = NonData(lay)
  /\ UNCHANGED <<lay, media, form, bad, result, formats, edits>>

(* One sector of part_verify_sectors or part_fill_sectors.                 *)
ScanSector ==
  LET a  == lay.base + pos
      o0 == IF form = "destructive" /\ a \notin media
            THEN Blank(Fresh(io), lay, {pos}) ELSE Fresh(io)
  IN  /\ stage = "scan" /\ pos < lay.total
      /\ pos' = pos + 1
      /\ IF a \in media
         THEN /\ io' \in TrackOutcomes(o0, lay, pos)
              /\ bad' = bad \cup {pos}
              /\ IF Cardinality(bad') < MAX_BAD_SECTORS
                 THEN UNCHANGED <<stage, result>> ELSE Return("FAILED")
         ELSE io' = o0 /\ UNCHANGED <<bad, stage, result>>
      /\ UNCHANGED <<lay, media, form, rootClear, formats, edits>>

(* The scan has come to the end, or the user has skipped the rest by ESC.  *)
EndScan ==
  /\ stage = "scan"
  /\ stage' = "label"
  /\ io' = Fresh(io)
  /\ UNCHANGED <<lay, media, form, pos, bad, rootClear, result, formats, edits>>

(* fat_update_label_file: for FAT-32 the root cluster's entry is read      *)
(* through the cache of the first copy; then the first root sector with    *)
(* room for a label is rewritten, in a cleared directory the very first.   *)
UpdateLabel ==
  LET looked == IF Fat32(lay)
                THEN LookupOutcomes(Fresh(io), lay, 0,
                       FatStart(lay, 0) + Min(EntrySectors(lay, 2)))
                ELSE {Fresh(io)}
      target == IF rootClear THEN {{Min(RootSectors(lay))}}
                ELSE {{}} \cup {{s} : s \in RootSectors(lay)}
  IN  /\ stage = "label"
      /\ \E o \in looked :
           \/ /\ o.ok
              /\ \E S \in target : io' = Blank(o, lay, S)
              /\ stage' = "flush" /\ UNCHANGED result
           \/ /\ FALSE \in MayFail(o) \/ ~o.ok
              /\ io' = IF o.ok THEN Count(o, FALSE) ELSE o
              /\ Return("FAILED")
      /\ UNCHANGED <<lay, media, form, pos, bad, rootClear, formats, edits>>

(* WARN when bad sectors were found, else the result of fat_flush.         *)
Finish ==
  /\ stage = "flush"
  /\ io' \in FatFlushOutcomes(Fresh(io), lay)
  /\ Return(IF bad # {} THEN "WARN" ELSE IF io'.ok THEN "OK" ELSE "FAILED")
  /\ UNCHANGED <<lay, media, form, pos, bad, rootClear, formats, edits>>

Next == \/ EditRow \/ Refuse \/ WriteBoot \/ InitializeTables \/ InitializeRoot
        \/ ScanSector \/ EndScan \/ UpdateLabel \/ Finish

Spec == Init /\ [][Next]_vars

-------------------------------------------------------------------------------
TypeOK ==
  /\ io \in [disk : [Disk -> SUBSET Nibbles],
             cache : [Copies -> Block({Row}, 0..DiskSize, SUBSET Nibbles)],
             faults : 0..MaxFaults, wrote : SUBSET Disk, ok : BOOLEAN]
  /\ lay \in Layouts /\ media \in MediaFaults
  /\ form \in {"verify", "destructive"}
  /\ stage \in {"idle", "tables", "root", "scan", "label", "flush"}
  /\ pos \in 0..DiskSize /\ bad \subseteq 0..DiskSize
  /\ rootClear \in BOOLEAN
  /\ result \in {"NONE", "OK", "WARN", "FAILED", "CANCEL"}
  /\ formats \in 0..MaxFormats /\ edits \in 0..MaxEdits

(* The sectors of a FAT copy as they are on disk, as a reader sees them    *)
(* through the cache, and as they should be after the bad sectors found.   *)
OnDisk(copy) == [s \in 0..lay.fat - 1 |->
                   io.disk[lay.base + FatStart(lay, copy) + s]]
Seen(copy) == [s \in 0..lay.fat - 1 |->
                 LET b == io.cache[copy]
                 IN  IF InCache(b, Row, FatStart(lay, copy) + s)
                     THEN b.data ELSE OnDisk(copy)[s]]
Marked(S) == [s \in 0..lay.fat - 1 |->
                UNION {NibblesIn(lay, SectorToCluster(lay, x), s) : x \in S}]

Succeeded == stage = "idle" /\ result \in {"OK", "WARN"}

(* During the first format of a session both copies, seen through their    *)
(* caches, carry exactly the marks of the bad sectors found so far -- with *)
(* entries split over two sectors, several marks per sector, and blocks    *)
(* evicted while dirty.                                                    *)
CachedCopiesExact ==
  formats = 1 /\ io.faults = 0 /\ stage \in {"scan", "label", "flush"}
    => \A copy \in Copies : Seen(copy) = Marked(bad)

(* When the first format of a session reports success, the first FAT copy  *)
(* on the disk itself carries exactly those marks.                         *)
FirstCopyExact ==
  formats = 1 /\ io.faults = 0 /\ Succeeded => OnDisk(0) = Marked(bad)

(* The surface check of a row that has not been edited changes nothing but *)
(* the row's FATs (and, when destructive, the sector under test), however  *)
(* many transfers fail and however often the row is formatted again.       *)
UnderTest == IF form = "destructive" THEN {lay.base + pos} ELSE {}

ScanWritesOnlyFats ==
  [][edits = 0 =>
       /\ stage = "scan" => io'.wrote \subseteq FatArea(lay) \cup UnderTest
       /\ stage = "flush" => io'.wrote \subseteq FatArea(lay)]_vars

(* Formatting the same row again, after formats that succeeded, were       *)
(* skipped or gave up: the first copy on the disk has every mark of the    *)
(* last scan, and no mark that is not of a really unreadable sector (marks *)
(* of earlier scans do come back from blocks left in the cache).           *)
ReformatKeepsMarks ==
  edits = 0 /\ io.faults = 0 /\ Succeeded
    => \A s \in 0..lay.fat - 1 :
         /\ Marked(bad)[s] \subseteq OnDisk(0)[s]
         /\ OnDisk(0)[s] \subseteq Marked({a - lay.base : a \in media})[s]

-------------------------------------------------------------------------------
(* What the comments say and the code does not do.                         *)

(* "marks the clusters containing the bad physical sectors as bad": after  *)
(* a successful format both copies on disk carry the marks.                *)
EveryCopyMarked ==
  io.faults = 0 /\ Succeeded => \A copy \in Copies : OnDisk(copy) = Marked(bad)
===============================================================================
