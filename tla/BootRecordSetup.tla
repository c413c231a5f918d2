---------------------------- MODULE BootRecordSetup ----------------------------
(***************************************************************************)
(* The setup screens of FAT partitions: setup_fat of S_FAT.C (kind 16, for *)
(* FAT-12 too) and setup_fat32 of S_FAT32.C (kind 32).  A screen edits a   *)
(* copy of the boot record.  Saving writes the record, for FAT-32 also its *)
(* backup, and then the entry of the root directory that holds the volume  *)
(* label; any of these can fail.                                           *)
(*                                                                         *)
(* Cursor movements, help and the calculation of the minimum size (F7)     *)
(* change nothing that is kept and are left out.                           *)
(***************************************************************************)
EXTENDS Integers, Sequences, FiniteSets, SequencesExt

CONSTANTS Volumes,       \* partitions that can be set up
          Limits,        \* Limits[kind][field]: largest number to be typed
          Widths,        \* Widths[field]: values the field of a record has
          Long,          \* 2^32
          FAT16_MAX_DATA_CLUST,
          Digits,        \* digits that are typed
          RawLabels,     \* what is typed as a label
          Empty, Blank, NoName, Zero,  \* labels: nothing typed, only spaces,
                         \* "NO NAME", and zeros
          MaxKeys, MaxFaults  \* bounds on edits and failing transfers

Fields == {"drive", "sides", "track", "hid", "total", "big"}
Editable(v) == IF v.kind = 32 THEN Fields \ {"total"} ELSE Fields
Labels == (RawLabels \ {Empty}) \cup {NoName, Blank, Zero}

(* What the screen shows and saves.  big is num_sects in a FAT-32 record;  *)
(* magic and code tell whether F5 or F6 would find them as they should be. *)
BootRecord == [label : Labels, num : [Fields -> Nat],
               magic : BOOLEAN, code : BOOLEAN]

(* An entry of the root directory.  gone is a deleted file; a deleted      *)
(* label still has the attribute of a label; long is a part of a long      *)
(* name, which has that attribute too.                                     *)
EntryKinds == {"end", "file", "long", "gone", "label", "goneLabel"}
Entry == [kind : EntryKinds, name : Labels]
EndEntry == [kind |-> "end", name |-> Zero]

(* sane: cluster size, sector size and reserved sectors pass the test on   *)
(* opening; inh: the table the row is in can be relied on; nonData, clust: *)
(* sectors before the data area and per cluster; searched: the directory   *)
(* entries that are searched for the label, which are all (kind 16) or     *)
(* those of the first cluster (kind 32).                                   *)
(* A FAT-32 volume has the nine reserved sectors record and backup need.   *)
Volume == [kind : {16, 32}, sane : BOOLEAN, inh : BOOLEAN, nonData : Nat,
           clust : Nat \ {0}, searched : Nat,
           expected : [Fields -> Nat], record : BootRecord, dir : Seq(Entry)]

ASSUME SetupConstants ==
  /\ \A v \in Volumes : v \in Volume /\ v.searched <= Len(v.dir)
  /\ Limits \in [{16, 32} -> [Fields -> Nat]] /\ Widths \in [Fields -> Nat]
  /\ \A kind \in {16, 32}, f \in Fields : Limits[kind][f] < Widths[f]
  /\ \A v \in Volumes, f \in Fields :
       v.record.num[f] < Widths[f] /\ v.expected[f] < Widths[f]
  /\ Zero \notin RawLabels \cup {NoName, Blank}
  /\ Digits \subseteq 0..9 /\ MaxKeys \in Nat /\ MaxFaults \in Nat

VARIABLES
  vol,     \* the partition
  boot,    \* the record in its first sector
  backup,  \* the record in sector 6
  dir,     \* the root directory
  open,    \* the screen is shown
  b, orig, \* the record shown, and the one the screen takes for saved
  status,  \* "none", "saved" or "failed": what the last F2 came to
  keys, faults

vars == <<vol, boot, backup, dir, open, b, orig, status, keys, faults>>

-------------------------------------------------------------------------------
(* Not the code: the limit is compared with the number before the digit.   *)
TypedPast(n, limit) ==
  {n \div 10} \cup {10 * n + i : i \in {d \in Digits : n <= limit}}

(* edit_int_field: backspace, plus, minus and the digits.                  *)
Typed(n, limit) ==
  {n \div 10}
  \cup (IF n < limit THEN {n + 1} ELSE {})
  \cup (IF n > 0 THEN {n - 1} ELSE {})
  \cup {10 * n + i : i \in {d \in Digits : limit >= d
                                           /\ n <= (limit - d) \div 10}}

(* Typing replaces nothing by "NO NAME"; only setup_fat32 does so with a   *)
(* label of spaces too, fat_canonicalize_label lets it pass.               *)
Canonical(v, raw) ==
  IF raw = Empty \/ (raw = Blank /\ v.kind = 32) THEN NoName ELSE raw

(* fat_type, from the record on the screen: unsigned, so a total that is   *)
(* too small makes a huge number of clusters.                              *)
SectorCount(r) == IF r.num["total"] # 0 THEN r.num["total"] ELSE r.num["big"]
ClusterCount(v, r) == ((SectorCount(r) - v.nonData) % Long) \div v.clust
TakenFor32(v, r) == ClusterCount(v, r) > FAT16_MAX_DATA_CLUST

(* Not the code: parts of long names are taken for labels.                 *)
LabelPlaceAnyAttr(v, d) ==
  LET P == {i \in 1..v.searched : d[i].kind \notin {"file", "gone"}}
  IN  IF P = {} THEN 0 ELSE CHOOSE i \in P : \A j \in P : i <= j

(* The entry the label goes to: the first that is an end mark, or has the  *)
(* attribute of a label and is no part of a long name; 0 if there is none. *)
(* A deleted label counts.                                                 *)
LabelPlace(v, d) ==
  LET P == {i \in 1..v.searched : d[i].kind \in {"end", "label", "goneLabel"}}
  IN  IF P = {} THEN 0 ELSE CHOOSE i \in P : \A j \in P : i <= j

(* The directory with the label: written there, or deleted for "NO NAME".  *)
(* A label of zeros is an end mark.                                        *)
Labelled(d, i, l) ==
  CASE l = NoName /\ d[i].kind = "end" -> d
    [] l = NoName /\ d[i].kind # "end" -> [d EXCEPT ![i].kind = "goneLabel"]
    [] l = Zero   -> [d EXCEPT ![i] = EndEntry]
    [] OTHER      -> [d EXCEPT ![i] = [kind |-> "label", name |-> l]]

-------------------------------------------------------------------------------
Init ==
  /\ vol \in Volumes
  /\ boot = vol.record /\ backup = vol.record /\ dir = vol.dir
  /\ open = FALSE /\ b = boot /\ orig = boot
  /\ status = "none" /\ keys = 0 /\ faults = 0

Fault == faults < MaxFaults /\ faults' = faults + 1

(* Not the code: what F6 has changed is left out of the comparison.        *)
ChangedFields == [b EXCEPT !.code = orig.code] # orig
(* memcmp of the first sector                                              *)
Changed == b # orig

(* The screen is opened unless the record cannot be read or is no FAT.     *)
Open ==
  /\ ~open
  /\ \/ /\ vol.sane
        /\ open' = TRUE /\ b' = boot /\ orig' = boot /\ status' = "none"
        /\ UNCHANGED faults
     \/ Fault /\ UNCHANGED <<open, b, orig, status>>
     \/ ~vol.sane /\ UNCHANGED <<open, b, orig, status, faults>>
  /\ UNCHANGED <<vol, boot, backup, dir, keys>>

Edit(r) ==
  /\ open /\ keys < MaxKeys
  /\ keys' = keys + 1
  /\ b' = r /\ b' # b
  /\ UNCHANGED <<vol, boot, backup, dir, open, orig, status, faults>>

EditNumber ==
  \E f \in Editable(vol) : \E n \in Typed(b.num[f], Limits[vol.kind][f]) :
     Edit([b EXCEPT !.num[f] = n])

(* A label of spaces or zeros is offered as nothing typed.                 *)
EditLabel ==
  \E raw \in RawLabels :
    /\ raw = Empty => b.label \notin {Blank, Zero}
    /\ Edit([b EXCEPT !.label = Canonical(vol, raw)])

(* F5: setup_fat32 sets num_sects twice and the sectors of a track never.  *)
SetExpected ==
  LET set == IF vol.kind = 32 THEN Fields \ {"total", "track"} ELSE Fields
  IN  Edit([b EXCEPT !.num = [f \in Fields |-> IF f \in set THEN vol.expected[f]
                                               ELSE b.num[f]],
                     !.magic = TRUE])

FixCode == vol.kind = 16 /\ Edit([b EXCEPT !.code = TRUE])

Undo == /\ open /\ b # orig
        /\ b' = orig
        /\ UNCHANGED <<vol, boot, backup, dir, open, orig, status, keys, faults>>

(* F2.  The record: three sectors for FAT-32, of which a failing write may *)
(* have written the first.                                                 *)
RecordFails ==
  /\ Fault
  /\ \/ UNCHANGED <<boot, backup>>
     \/ vol.kind = 32 /\ boot' = b /\ UNCHANGED backup
     \/ vol.kind = 32 /\ boot' = b /\ backup' = b
  /\ status' = "failed"
  /\ UNCHANGED <<dir, orig>>

RecordWritten == boot' = b /\ backup' = IF vol.kind = 32 THEN b ELSE backup

(* Reading the directory as far as the place of the label, or writing it.  *)
LabelFails ==
  /\ RecordWritten
  /\ Fault
  /\ vol.searched > 0
  /\ status' = "failed"
  /\ UNCHANGED <<dir, orig>>

LabelWritten ==
  /\ RecordWritten
  /\ LET i == LabelPlace(vol, dir)
     IN  dir' = IF i = 0 THEN dir ELSE Labelled(dir, i, b.label)
  /\ orig' = b /\ status' = "saved"
  /\ UNCHANGED faults

(* setup_fat works the FAT type out again from the numbers on the screen.  *)
(* Taken for FAT-32, the record has its root where four bytes of the label *)
(* say: no such cluster, a failing read, or a sector somewhere else.       *)
LabelElsewhere ==
  /\ RecordWritten
  /\ \/ status' = "failed" /\ UNCHANGED orig
     \/ status' = "saved" /\ orig' = b
  /\ UNCHANGED <<dir, faults>>

(* Refused when the table the row is in is invalid or not saved.           *)
Save ==
  /\ open /\ vol.inh
  /\ \/ RecordFails
     \/ IF vol.kind = 16 /\ TakenFor32(vol, b) THEN LabelElsewhere
        ELSE LabelFails \/ LabelWritten
  /\ UNCHANGED <<vol, open, b, keys>>

(* ESC is ignored as long as something is changed.                         *)
Leave == /\ open /\ ~Changed
         /\ open' = FALSE
         /\ UNCHANGED <<vol, boot, backup, dir, b, orig, status, keys, faults>>

Next == \/ Open \/ EditNumber \/ EditLabel \/ SetExpected \/ FixCode
        \/ Undo \/ Save \/ Leave

Spec == Init /\ [][Next]_vars

-------------------------------------------------------------------------------
TypeOK ==
  /\ vol \in Volumes
  /\ \A r \in {boot, backup, b, orig} :
       r \in BootRecord /\ \A f \in Fields : r.num[f] < Widths[f]
  /\ dir \in Seq(Entry) /\ Len(dir) = Len(vol.dir)
  /\ open \in BOOLEAN /\ status \in {"none", "saved", "failed"}
  /\ keys \in 0..MaxKeys /\ faults \in 0..MaxFaults

(* Unless the last save failed, the record on the disk is the one the      *)
(* screen takes for saved, and after a save the backup is the same; so     *)
(* once the screen is left nothing that was shown is missing on the disk.  *)
(* A save that failed may be repeated, undone and left; the next save that *)
(* succeeds, or opening the screen again, brings the two together.         *)
LeavesWhatIsShown ==
  /\ status # "failed" => boot = orig
  /\ status = "saved" /\ vol.kind = 32 => backup = orig
  /\ status # "failed" /\ ~open => boot = b

(* What a system sees of the directory: the entries before the end mark,   *)
(* with their places, which decide what the parts of a long name belong to.*)
Visible(d) == {i \in 1..Len(d) : \A j \in 1..i : d[j].kind # "end"}
Shown(d, kinds) ==
  {<<i, d[i]>> : i \in {j \in Visible(d) : d[j].kind \in kinds}}
Files(d) == Shown(d, {"file", "long"})
VolumeLabels(d) == Shown(d, {"label"})

(* At most one label, in the part that is searched, no deleted label       *)
(* before it, and nothing behind the end mark.                             *)
Tidy(d, searched) ==
  /\ \A i, j \in 1..Len(d) :
       /\ i < j /\ d[i].kind \in {"label", "goneLabel"} => d[j].kind # "label"
       /\ i < j /\ d[i].kind = "end" => d[j].kind = "end"
  /\ \A i \in searched + 1..Len(d) : d[i].kind # "label"

(* On a volume with a tidy directory and a label that is not all zeros no  *)
(* sequence of edits and saves touches a file or a part of a long name,    *)
(* and after a save that succeeds the directory has the label of the       *)
(* record and no other, none for "NO NAME" -- if there is room for it and  *)
(* the record has not been taken for one of FAT-32.                        *)
LabelFollows ==
  Tidy(vol.dir, vol.searched) /\ vol.record.label # Zero =>
    /\ Files(dir) = Files(vol.dir)
    /\ (/\ status = "saved" /\ LabelPlace(vol, dir) # 0
        /\ ~(vol.kind = 16 /\ TakenFor32(vol, orig)))
         => VolumeLabels(dir) =
              IF orig.label = NoName THEN {}
              ELSE {<<LabelPlace(vol, dir),
                      [kind |-> "label", name |-> orig.label]>>}
===============================================================================
