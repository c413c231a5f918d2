---------------------------- MODULE ProcessSectors ----------------------------
(***************************************************************************)
(* disk_process_sectors of DISKIOC.C: verify or fill a range of sectors,   *)
(* track by track where memory allows, sector by sector inside a track     *)
(* that failed.  part_verify_sectors and part_fill_sectors of PART_AUX.C   *)
(* call it with the range of a partition; every surface test, every FAT    *)
(* and every format of the program goes through it.                        *)
(***************************************************************************)
EXTENDS Integers, Sequences

CONSTANTS Starts, Nums,  \* the ranges asked for: first sector, length
          TrackSizes,    \* dinfo.num_sects
          Modulus,       \* sector numbers wrap here (2^32 in the code)
          BadSets        \* possible sets of unreadable sectors

Sectors == 0 .. Modulus - 1

OK == "OK"
FAILED == "FAILED"
CANCEL == "CANCEL"

(* Every range two unsigned longs can name, one that wraps included.       *)
ASSUME ScanConstants ==
  /\ Modulus \in Nat \ {0}
  /\ Starts \subseteq Sectors /\ Nums \subseteq Sectors
  /\ TrackSizes \subseteq 1 .. Modulus - 1
  /\ BadSets \subseteq SUBSET Sectors

VARIABLES start, num,      \* daddr.sect on entry, num_sect
          track,           \* dinfo.num_sects
          bad,             \* unreadable sectors
          bbt, func,       \* are there callbacks
          per,             \* sect_per_block: track, or 1 when memory is short
          addr, curr,      \* daddr.sect, curr_sect
          block, i,        \* block_sect and the loop counter of a retry
          pc, result,
          reported,        \* history: arguments of the bbt_func calls
          op               \* history: the last transfer, sector and length

inputs == <<start, num, track, bad, bbt, func>>
vars == <<inputs, per, addr, curr, block, i, pc, result, reported, op>>

Init ==
  /\ start \in Starts /\ num \in Nums
  /\ track \in TrackSizes
  /\ bad \in BadSets
  /\ bbt \in BOOLEAN /\ func \in BOOLEAN
  /\ per = track
  /\ addr = start /\ curr = 0 /\ block = 0 /\ i = 0
  /\ pc = "alloc" /\ result = "running"
  /\ reported = << >> /\ op = [sect |-> start, n |-> 0]

(* The sum of an unsigned long, a and n below the modulus.                 *)
Add(a, n) == IF a + n >= Modulus THEN a + n - Modulus ELSE a + n

(* disk_read, disk_write and disk_verify refuse a transfer that wraps; the *)
(* medium refuses one that meets an unreadable sector, and may refuse a    *)
(* longer one for reasons of its own.                                      *)
Unreadable(a, n) == Add(a, n) < a \/ \E s \in a .. a + n - 1 : s \in bad
MayFail(a, n)    == Unreadable(a, n) \/ n > 1

Return(r) == pc' = "done" /\ result' = r

(* Go on at next, unless the progress callback cancels.                    *)
Progress(next) == \/ pc' = next /\ UNCHANGED result
                  \/ func /\ Return(CANCEL)

(* Not the code: the first block is as long as a track.                    *)
AllocateUnaligned ==
  /\ pc = "alloc"
  /\ \/ /\ per' \in {track, 1}
        /\ block' = per'
        /\ pc' = IF per' > 1 THEN "block" ELSE "single"
        /\ UNCHANGED result
     \/ Return(FAILED) /\ UNCHANGED <<per, block>>
  /\ UNCHANGED <<inputs, addr, curr, i, reported, op>>

(* A buffer of one track, or of one sector, or nothing.                    *)
Allocate ==
  /\ pc = "alloc"
  /\ \/ /\ per' \in {track, 1}
        /\ block' = IF per' > 1 THEN per' - (start % per') ELSE block
        /\ pc' = IF per' > 1 THEN "block" ELSE "single"
        /\ UNCHANGED result
     \/ Return(FAILED) /\ UNCHANGED <<per, block>>
  /\ UNCHANGED <<inputs, addr, curr, i, reported, op>>

(* Not the code: the last block runs past the end of the range.            *)
Unclipped == block

(* if ( curr_sect + block_sect > num_sect ) block_sect = ...               *)
(* The sum is an unsigned long: where it wraps the block is not clipped.   *)
Clipped == IF Add(curr, block) > num THEN num - curr ELSE block

(* Not the code: the block that was aligned is not reset to a whole track  *)
(* but used up.                                                            *)
BlockUsedUp ==
  /\ pc = "block" /\ curr < num
  /\ ~Unreadable(addr, Clipped)
  /\ op' = [sect |-> addr, n |-> Clipped]
  /\ addr' = Add(addr, Clipped)
  /\ curr' = Add(curr, Clipped)
  /\ block' = block - Clipped
  /\ Progress("block")
  /\ UNCHANGED <<inputs, per, i, reported>>

BlockSucceeds ==
  /\ pc = "block" /\ curr < num
  /\ ~Unreadable(addr, Clipped)
  /\ op' = [sect |-> addr, n |-> Clipped]
  /\ addr' = Add(addr, Clipped)
  /\ curr' = Add(curr, Clipped)
  /\ block' = per
  /\ Progress("block")
  /\ UNCHANGED <<inputs, per, i, reported>>

BlockFails ==
  /\ pc = "block" /\ curr < num
  /\ MayFail(addr, Clipped)
  /\ op' = [sect |-> addr, n |-> Clipped]
  /\ block' = Clipped
  /\ i' = 0
  /\ pc' = "retry"
  /\ UNCHANGED <<inputs, per, addr, curr, result, reported>>

(* Bound of the history: a scan that starts over reports without end.      *)
MaxReports == Modulus
Reported(a) == IF Len(reported) < MaxReports THEN Append(reported, a)
               ELSE reported

(* Not the code: a failing sector that nobody is told of is passed over.   *)
PassedUnreported(a) == IF Unreadable(a, 1) /\ bbt
                       THEN reported' = Reported(a)
                       ELSE UNCHANGED reported

(* The verdict on sector a: it was fine or has been reported and the       *)
(* callback wants more; or the scan is given up.                           *)
Passed(a) == IF Unreadable(a, 1)
             THEN bbt /\ reported' = Reported(a)
             ELSE UNCHANGED reported
GivenUp(a) == /\ Unreadable(a, 1)
              /\ reported' = IF bbt THEN Reported(a) ELSE reported
              /\ Return(FAILED)

RetrySector ==
  /\ pc = "retry" /\ i < block
  /\ op' = [sect |-> addr, n |-> 1]
  /\ \/ /\ Passed(addr)
        /\ addr' = Add(addr, 1) /\ i' = i + 1
        /\ UNCHANGED <<pc, result>>
     \/ GivenUp(addr) /\ UNCHANGED <<addr, i>>
  /\ UNCHANGED <<inputs, per, curr, block>>

EndRetry ==
  /\ pc = "retry" /\ i = block
  /\ curr' = Add(curr, block)
  /\ block' = per
  /\ i' = 0
  /\ Progress("block")
  /\ UNCHANGED <<inputs, per, addr, reported, op>>

(* The first loop ends; the second one begins where it stopped.            *)
EndBlocks ==
  /\ pc = "block" /\ curr >= num
  /\ pc' = "single"
  /\ UNCHANGED <<inputs, per, addr, curr, block, i, result, reported, op>>

SingleSector ==
  /\ pc = "single" /\ curr < num
  /\ addr' = Add(start, curr)
  /\ op' = [sect |-> addr', n |-> 1]
  /\ \/ Passed(addr') /\ curr' = Add(curr, 1) /\ Progress("single")
     \/ GivenUp(addr') /\ UNCHANGED curr
  /\ UNCHANGED <<inputs, per, block, i>>

Finish ==
  /\ pc = "single" /\ curr >= num
  /\ Return(OK)
  /\ UNCHANGED <<inputs, per, addr, curr, block, i, reported, op>>

Next == \/ Allocate \/ BlockSucceeds \/ BlockFails \/ RetrySector \/ EndRetry
        \/ EndBlocks \/ SingleSector \/ Finish

Spec == Init /\ [][Next]_vars

(* The loops run on by themselves and the callbacks return.                *)
FairSpec == Spec /\ WF_vars(Next)

-------------------------------------------------------------------------------
(* The range asked for does not wrap.                                      *)
OnDisk == start + num <= Modulus

(* curr_sect + block_sect cannot wrap before the range ends.  It may where *)
(* the range is longer than 2^32 less a track: then the last block is not  *)
(* clipped, its sectors are tried one by one beyond the end of the range,  *)
(* and curr_sect starts over.  Sectors one at a time never wrap.           *)
CountFits == per = 1 \/ num + per <= Modulus

(* Types; the count ends with the range wherever it fits.                  *)
TypeOK ==
  /\ start \in Starts /\ num \in Nums /\ track \in TrackSizes
  /\ bad \in BadSets /\ bbt \in BOOLEAN /\ func \in BOOLEAN
  /\ per \in {track, 1}
  /\ addr \in Sectors
  /\ curr \in Sectors /\ (CountFits => curr <= num)
  /\ block \in 0 .. per /\ i \in 0 .. block
  /\ pc \in {"alloc", "block", "retry", "single", "done"}
  /\ result \in {"running", OK, FAILED, CANCEL}
  /\ reported \in Seq(Sectors)
  /\ op \in [sect : Sectors, n : 0 .. track]

(* A multi-sector transfer never crosses from one track into the next:     *)
(* that is what block_sect is aligned for, and what a BIOS that addresses  *)
(* cylinder, head and sector needs.  Excepted are ranges that wrap and     *)
(* those in which curr_sect may: behind 2^32 the blocks are out of step.   *)
BlocksWithinTrack ==
  OnDisk /\ CountFits /\ op.n > 1 =>
    op.sect \div track = (op.sect + op.n - 1) \div track

(* Whatever the sizes of the blocks and wherever one fails, the sectors    *)
(* are dealt with one after the other and exactly the failing ones are     *)
(* reported: format_fat marks clusters from these reports.  Every step is  *)
(* one of the abstract scan, but in a range that wraps, or that is so long *)
(* that curr_sect may.                                                     *)
Scan == INSTANCE SectorScan WITH
          first <- start,
          failing <- {s \in start .. start + num - 1 : Unreadable(s, 1)},
          done <- curr + i, status <- result
ScanSpec ==
  Scan!Init /\ [][OnDisk /\ CountFits => Scan!Next]_(Scan!vars)

(* A scan comes to an end unless curr_sect may wrap; and without a         *)
(* callback for bad sectors it ends in any case, at the latest at the last *)
(* sector number, where the transfer is refused.                           *)
Terminates == CountFits \/ ~bbt ~> pc = "done"
===============================================================================
