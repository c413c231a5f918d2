------------------------------- MODULE CacheOps -------------------------------
(***************************************************************************)
(* The one-sector write-back cache block of CACHE.C as operators on a      *)
(* block value.  A block remembers a partition (the struct part_long       *)
(* pointer), a partition-relative sector, the sector's data and a dirty    *)
(* flag.  Whether the BIOS transfer succeeds is the parameter ok; the      *)
(* address a, the place on disk the block is written to, is supplied by    *)
(* the user of these operators (disk_write_rel works it out from the       *)
(* partition at the moment of the write).                                  *)
(***************************************************************************)
CONSTANT None          \* the null struct part_long pointer

Block(P, S, D) == [part : P \cup {None}, sector : S, data : D, dirty : BOOLEAN]

EmptyBlock(s, d) == [part |-> None, sector |-> s, data |-> d, dirty |-> FALSE]

(* Not the code: a block of another partition taken for a hit.             *)
InCacheAnyPart(b, p, s) == b.part # None /\ b.sector = s

InCache(b, p, s) == b.part = p /\ b.sector = s

(* cache_flush issues a disk write exactly for these blocks.               *)
NeedsWrite(b) == b.part # None /\ b.dirty

(* Not the code: a failed write that is forgotten.                         *)
FlushForgets(b, ok) == [b EXCEPT !.dirty = FALSE]

(* cache_flush: the disk afterwards, and the block's dirty flag afterwards *)
(* (a failed write leaves the block dirty).                                *)
FlushDisk(dk, b, a, ok) ==
  IF NeedsWrite(b) /\ ok THEN [dk EXCEPT ![a] = b.data] ELSE dk

FlushBlock(b, ok) ==
  [b EXCEPT !.dirty = b.dirty /\ ~(NeedsWrite(b) /\ ok)]

(* Not the code: the number and the contents of the sector mixed up.       *)
FetchedMixedUp(b, p, s, d) == [b EXCEPT !.part = s, !.sector = p, !.data = d]

(* cache_read on a miss, given the block b that its call of cache_flush    *)
(* leaves: cache_read ignores whether that call succeeded and does not     *)
(* touch the dirty flag.                                                   *)
FetchedBlock(b, p, s, d) == [b EXCEPT !.part = p, !.sector = s, !.data = d]

(* cache_read whose disk_read_rel fails: the partition is already          *)
(* replaced, the sector is not, the buffer holds what the BIOS left in it. *)
SpoiltBlock(b, p, junk) == [b EXCEPT !.part = p, !.data = junk]

(* Not the code: a store without cache_mark_dirty.                         *)
UnmarkedBlock(b, d) == [b EXCEPT !.data = d]

(* A caller's store into the data of a resident block, followed by         *)
(* cache_mark_dirty.                                                       *)
DirtyBlock(b, d) == [b EXCEPT !.data = d, !.dirty = TRUE]
===============================================================================
