------------------------------ MODULE SectorCache ------------------------------
(***************************************************************************)
(* One cache block of CACHE.C over the disk, driven the way FAT.C drives   *)
(* it: look a sector up, perhaps change it and mark it dirty, flush.       *)
(* Every transfer may fail while a fault budget lasts; the machine may be  *)
(* reset at any moment, which empties the block (it is static storage).    *)
(***************************************************************************)
EXTENDS CacheOps, Naturals

CONSTANTS Parts,           \* struct part_long pointers
          Sectors,         \* partition-relative sector numbers
          Entries,         \* positions of FAT entries in a sector
          Values,          \* what an entry may hold
          Zero,            \* contents of static storage
          OnDisk,          \* contents a sector may have at first
          Nothing, Failed, \* results that are not sector contents
          MaxReadFaults,   \* bound: reads that fail
          MaxWriteFaults   \* bound: writes that fail

Data == [Entries -> Values]     \* contents of a sector

ASSUME CacheConstants ==
  /\ None \notin Parts
  /\ 0 \in Sectors
  /\ Zero \in Data /\ OnDisk \subseteq Data
  /\ Nothing \notin Data /\ Failed \notin Data /\ Nothing # Failed
  /\ MaxReadFaults \in Nat /\ MaxWriteFaults \in Nat

VARIABLES disk,        \* contents by <<partition, sector>>
          blk,         \* the cache_block_t
          ret,         \* what the last call returned
          asked,       \* history: the sector the last call was about
          readFaults, writeFaults,
          wanted,      \* history: last contents put, by <<partition, sector>>
          failed,      \* history: keys of which a write has failed
          spoilt       \* history: keys a failed read has left in the block

vars == <<disk, blk, ret, asked, readFaults, writeFaults, wanted, failed, spoilt>>

Keys == Parts \X Sectors

HomeOf(b) == <<b.part, b.sector>>

TypeOK ==
  /\ disk \in [Keys -> Data]
  /\ blk \in Block(Parts, Sectors, Data)
  /\ ret \in Data \cup {Nothing, Failed}
  /\ asked \in Keys \cup {Nothing}
  /\ readFaults \in 0..MaxReadFaults
  /\ writeFaults \in 0..MaxWriteFaults
  /\ wanted \in [Keys -> Data]
  /\ failed \subseteq Keys
  /\ spoilt \subseteq Keys

Init ==
  /\ disk \in [Keys -> OnDisk]
  /\ blk = EmptyBlock(0, Zero)
  /\ ret = Nothing /\ asked = Nothing
  /\ readFaults = 0 /\ writeFaults = 0
  /\ wanted = disk
  /\ failed = {} /\ spoilt = {}

(* The write inside cache_flush, when there is one, ends with result ok.   *)
WriteBack(ok) ==
  /\ disk' = FlushDisk(disk, blk, HomeOf(blk), ok)
  /\ IF ok THEN UNCHANGED <<writeFaults, failed>>
     ELSE /\ NeedsWrite(blk)
          /\ writeFaults < MaxWriteFaults
          /\ writeFaults' = writeFaults + 1
          /\ failed' = failed \cup {HomeOf(blk)}

(* Not the code: a miss that replaces the block without writing it back.   *)
LookupWithoutFlush(p, s, ok) == ok /\ UNCHANGED <<disk, writeFaults, failed>>

(* cache_read(p, s) when it returns a buffer: its effect on the disk, and  *)
(* the block it leaves.  A hit does nothing; a miss writes back and reads. *)
Lookup(p, s, ok) ==
  IF InCache(blk, p, s) THEN ok /\ UNCHANGED <<disk, writeFaults, failed>>
                        ELSE WriteBack(ok)

Resident(p, s, ok) ==
  IF InCache(blk, p, s) THEN blk
  ELSE FetchedBlock(FlushBlock(blk, ok), p, s,
                    FlushDisk(disk, blk, HomeOf(blk), ok)[<<p, s>>])

(* fat_get_table_entry: look up and use the data.                          *)
Read(p, s) ==
  /\ \E ok \in BOOLEAN :
       /\ Lookup(p, s, ok)
       /\ blk' = Resident(p, s, ok)
  /\ ret' = blk'.data /\ asked' = <<p, s>>
  /\ UNCHANGED <<readFaults, wanted, spoilt>>

(* fat_set_table_entry: look up, change one entry, cache_mark_dirty.       *)
Write(p, s, e, v) ==
  /\ \E ok \in BOOLEAN :
       LET b == Resident(p, s, ok) IN
       /\ Lookup(p, s, ok)
       /\ blk' = DirtyBlock(b, [b.data EXCEPT ![e] = v])
  /\ wanted' = [wanted EXCEPT ![<<p, s>>] = [@ EXCEPT ![e] = v]]
  /\ ret' = Nothing /\ asked' = <<p, s>>
  /\ UNCHANGED <<readFaults, spoilt>>

(* cache_read returns NULL; both callers then return FAILED.               *)
ReadFails(p, s) ==
  /\ ~InCache(blk, p, s)
  /\ readFaults < MaxReadFaults
  /\ readFaults' = readFaults + 1
  /\ \E ok \in BOOLEAN, junk \in Data :
       WriteBack(ok) /\ blk' = SpoiltBlock(FlushBlock(blk, ok), p, junk)
  /\ spoilt' = spoilt \cup {<<p, blk.sector>>}
  /\ ret' = Failed /\ asked' = <<p, s>>
  /\ UNCHANGED wanted

Flush ==
  /\ \E ok \in BOOLEAN :
       /\ WriteBack(ok)
       /\ blk' = FlushBlock(blk, ok)
       /\ ret' = IF ok THEN Nothing ELSE Failed
  /\ asked' = Nothing
  /\ UNCHANGED <<readFaults, wanted, spoilt>>

(* Reset of the machine: memory is gone, the disk stays.                   *)
Restart ==
  /\ blk' = EmptyBlock(0, Zero)
  /\ wanted' = disk
  /\ failed' = {} /\ spoilt' = {}
  /\ ret' = Nothing /\ asked' = Nothing
  /\ UNCHANGED <<disk, readFaults, writeFaults>>

Next ==
  \/ \E p \in Parts, s \in Sectors : Read(p, s)
  \/ \E p \in Parts, s \in Sectors, e \in Entries, v \in Values :
       Write(p, s, e, v)
  \/ \E p \in Parts, s \in Sectors : ReadFails(p, s)
  \/ Flush
  \/ Restart

Spec == Init /\ [][Next]_vars

-------------------------------------------------------------------------------
(* The contents a reader sees through the cache.                           *)
View == [k \in Keys |-> IF blk.part # None /\ k = HomeOf(blk)
                        THEN blk.data ELSE disk[k]]

(* A block that is not dirty agrees with the disk sector it is labelled    *)
(* with, so that dropping it loses nothing; cache_read changes the label   *)
(* around a write and a read that can each fail.  The one exception is the *)
(* label cache_read leaves when its read fails: new partition, old sector. *)
CleanBlockOnDisk ==
  blk.part # None /\ ~blk.dirty /\ HomeOf(blk) \notin spoilt
    => blk.data = disk[HomeOf(blk)]

(* An update disappears, or a value nobody wrote appears, only in a sector *)
(* whose own write has failed or whose label a failed read has left:       *)
(* cache_read drops the old block even when its flush has failed, keeps    *)
(* the dirty flag for the new one, and must not harm any other sector.     *)
OnlyFaultsHarm ==
  \A k \in Keys : View[k] # wanted[k] => k \in failed \cup spoilt

(* When cache_flush reports success there is nothing left that only the    *)
(* cache holds, although the block may have been through failed writes.    *)
FlushMeansDurable ==
  [][Flush /\ ret' = Nothing /\ HomeOf(blk) \notin spoilt
       => disk' = View']_vars

(* Until the first fault the cache is invisible: what CACHE.C does is what *)
(* a plain store of sectors does, with at most one sector not yet durable. *)
Faultless == readFaults = 0 /\ writeFaults = 0
Store == INSTANCE SectorStore WITH store <- View, durable <- disk
StoreSpec ==
  Store!Init /\ [][Faultless' => [Store!Next]_(Store!vars)]_vars
===============================================================================
