------------------------- MODULE ProcessSectorsProofs -------------------------
(***************************************************************************)
(* For every track size, every set of unreadable sectors and every range   *)
(* that does not wrap and in which curr_sect cannot, the scan of           *)
(* disk_process_sectors implements the abstract scan of SectorScan; what   *)
(* holds in the other ranges as well is said with each theorem.  The       *)
(* invariant below ties the running address daddr.sect to the two counters *)
(* curr_sect and i; it is what makes the switch from blocks to single      *)
(* sectors and back harmless.                                              *)
(***************************************************************************)
EXTENDS ProcessSectors, TLAPS

(* Quotient and remainder of natural numbers.                              *)
LEMMA DivMod ==
  ASSUME NEW a \in Nat, NEW t \in Nat \ {0}
  PROVE  /\ a = t * (a \div t) + (a % t)
         /\ a \div t \in Nat /\ a % t \in 0 .. t - 1
  OBVIOUS

(* Quotient and remainder are the only ones.                               *)
LEMMA DivUnique ==
  ASSUME NEW t \in Nat \ {0}, NEW q \in Nat, NEW r \in 0 .. t - 1
  PROVE  (t * q + r) \div t = q /\ (t * q + r) % t = r
  <1> DEFINE p == (t * q + r) \div t
  <1>1. t * q + r \in Nat
    OBVIOUS
  <1>2. /\ t * q + r = t * p + ((t * q + r) % t)
        /\ p \in Nat /\ (t * q + r) % t \in 0 .. t - 1
    BY <1>1, DivMod
  <1>3. CASE p < q
    <2>1. t * p + t <= t * q
      BY <1>2, <1>3
    <2> QED
      BY <1>2, <2>1
  <1>4. CASE p > q
    <2>1. t * q + t <= t * p
      BY <1>2, <1>4
    <2> QED
      BY <1>2, <2>1
  <1> QED
    BY <1>2, <1>3, <1>4

(* Where the counters and the address are, at each point of the code.      *)
Inv ==
  /\ TypeOK
  /\ (result = "running") <=> (pc # "done")
  /\ pc = "alloc" => /\ curr = 0 /\ block = 0 /\ i = 0
                    /\ addr = start /\ per = track /\ reported = << >>
                    /\ op.n = 0
  /\ pc = "block" => i = 0 /\ block > 0 /\ per > 1
  /\ pc = "retry" => per > 1 /\ (CountFits => curr + block <= num)
  /\ pc = "single" => i = 0

(* Where nothing wraps the address is that of the next sector to be dealt  *)
(* with, and no more sectors were reported than dealt with.                *)
Fits == OnDisk /\ CountFits
FitInv ==
  /\ pc \in {"block", "retry"} /\ curr + i < num => addr = start + curr + i
  /\ pc # "done" => Len(reported) <= curr + i

-------------------------------------------------------------------------------
(* What the constants say of a range.                                      *)
LEMMA RangeTypes ==
  ASSUME TypeOK
  PROVE  /\ start \in Nat /\ num \in Nat /\ num < Modulus
         /\ Modulus \in Nat \ {0} /\ start \in Sectors
         /\ track \in Nat \ {0} /\ track < Modulus
         /\ per \in Nat \ {0} /\ per <= track
         /\ curr \in Nat /\ block \in Nat /\ i \in Nat
         /\ block <= per /\ i <= block /\ curr < Modulus
  BY ScanConstants DEF TypeOK, Sectors

(* The sum of two sector numbers is a sector number, and the ordinary sum  *)
(* as long as that is below the modulus.                                   *)
LEMMA AddTypes ==
  ASSUME NEW a \in Sectors, NEW n \in Nat, Modulus \in Nat \ {0}, n < Modulus
  PROVE  /\ Add(a, n) \in Sectors
         /\ a + n < Modulus => Add(a, n) = a + n
         /\ ~(Add(a, n) < a) => n = 0 \/ a + n < Modulus
  BY DEF Add, Sectors

(* A block is never empty and never longer than a track; where curr_sect   *)
(* cannot wrap it lies in the range, and its length is an ordinary sum.    *)
LEMMA ClippedTypes ==
  ASSUME Inv, pc = "block", curr < num
  PROVE  /\ Clipped \in 1 .. per /\ Clipped \in Nat
         /\ Clipped <= track /\ Clipped < Modulus
         /\ Add(curr, Clipped) \in Sectors
         /\ CountFits => /\ Clipped = IF curr + block > num THEN num - curr
                                      ELSE block
                        /\ Clipped <= num - curr
                        /\ Add(curr, Clipped) = curr + Clipped
  <1>1. /\ curr \in Sectors /\ block > 0 /\ block < Modulus /\ per > 1
        /\ block \in Nat
    BY RangeTypes DEF Inv, TypeOK
  <1>2. Add(curr, block) \in Sectors
        /\ (curr + block < Modulus => Add(curr, block) = curr + block)
    BY <1>1, AddTypes, RangeTypes DEF Inv
  <1>3. CASE Add(curr, block) > num
    <2>1. Clipped = num - curr
      BY <1>3 DEF Clipped
    <2>2. num - curr <= block
      BY <1>1, <1>2, <1>3, RangeTypes DEF Inv, Add
    <2>3. /\ Clipped \in 1 .. per /\ Clipped \in Nat
          /\ Clipped <= track /\ Clipped < Modulus
      BY <2>1, <2>2, RangeTypes DEF Inv
    <2>4. Add(curr, Clipped) = curr + Clipped
      BY <1>1, <2>1, <2>3, AddTypes, RangeTypes DEF Inv
    <2>5. Add(curr, Clipped) \in Sectors
      BY <1>1, <2>3, AddTypes, RangeTypes DEF Inv
    <2>6. ASSUME CountFits PROVE curr + block > num \/ Clipped = block
      BY <1>1, <1>2, <1>3, <2>6, RangeTypes DEF Inv, CountFits
    <2> QED
      BY <2>1, <2>2, <2>3, <2>4, <2>5, <2>6, RangeTypes DEF Inv
  <1>4. CASE ~(Add(curr, block) > num)
    <2>1. Clipped = block
      BY <1>4 DEF Clipped
    <2>2. ASSUME CountFits
          PROVE  curr + block < Modulus /\ curr + block <= num
      <3>1. curr + block < Modulus
        BY <1>1, <2>2, RangeTypes DEF Inv, CountFits
      <3> QED
        BY <3>1, <1>2, <1>4, RangeTypes DEF Inv
    <2> QED
      BY <1>1, <1>2, <2>1, <2>2, RangeTypes DEF Inv
  <1> QED
    BY <1>3, <1>4

LEMMA InitInv == Init => Inv /\ FitInv
  <1> SUFFICES ASSUME Init PROVE Inv /\ FitInv
    OBVIOUS
  <1>1. TypeOK
    BY ScanConstants DEF Init, TypeOK, Sectors
  <1> QED
    BY <1>1 DEF Init, Inv, FitInv

(* The first block ends at the end of a track.                             *)
LEMMA AllocateInv == Inv /\ Allocate => Inv'
  <1> SUFFICES ASSUME Inv, Allocate PROVE Inv'
    OBVIOUS
  <1> USE RangeTypes DEF Inv, TypeOK, Allocate, inputs, Return, OK, FAILED, CANCEL
  <1>1. per' \in Nat /\ per' >= 1
    OBVIOUS
  <1>2. start % per' \in 0 .. per' - 1
    BY <1>1
  <1>3. block' \in 0 .. per'
    BY <1>1, <1>2
  <1>4. TypeOK'
    BY <1>3
  <1>5. pc' = "block" => block' > 0
    BY <1>1, <1>2
  <1> QED
    BY <1>4, <1>5

LEMMA BlockSucceedsInv == Inv /\ BlockSucceeds => Inv'
  <1> SUFFICES ASSUME Inv, BlockSucceeds PROVE Inv'
    OBVIOUS
  <1>1. /\ Clipped \in 0 .. track /\ Clipped \in Nat /\ Clipped < Modulus
        /\ Add(curr, Clipped) \in Sectors
        /\ CountFits => Add(curr, Clipped) <= num
        /\ addr \in Sectors /\ i = 0
    BY ClippedTypes, RangeTypes DEF Inv, TypeOK, BlockSucceeds
  <1>2. addr' = Add(addr, Clipped) /\ addr' \in Sectors
    BY <1>1, AddTypes, RangeTypes DEF Inv, BlockSucceeds
  <1>3. op' \in [sect : Sectors, n : 0 .. track]
    BY <1>1 DEF BlockSucceeds
  <1>4. \/ pc' = "block" /\ result' = result
        \/ pc' = "done" /\ result' = CANCEL
    BY DEF BlockSucceeds, Progress, Return
  <1>5. /\ curr' = Add(curr, Clipped) /\ block' = per
        /\ UNCHANGED <<start, num, track, bad, bbt, func, per, i, reported>>
    BY DEF BlockSucceeds, inputs
  <1>6. TypeOK'
    <2>1. /\ curr' \in Sectors /\ (CountFits' => curr' <= num')
          /\ block' \in 0 .. per' /\ i' \in 0 .. block'
      BY <1>1, <1>5, RangeTypes DEF Inv, TypeOK, CountFits
    <2>2. /\ pc' \in {"alloc", "block", "retry", "single", "done"}
          /\ result' \in {"running", OK, FAILED, CANCEL}
      BY <1>4 DEF Inv, TypeOK
    <2> QED
      BY <1>2, <1>3, <1>5, <2>1, <2>2 DEF Inv, TypeOK
  <1> QED
    BY <1>1, <1>4, <1>5, <1>6, RangeTypes DEF Inv, TypeOK, BlockSucceeds, CANCEL

LEMMA BlockFailsInv == Inv /\ BlockFails => Inv'
  <1> SUFFICES ASSUME Inv, BlockFails PROVE Inv'
    OBVIOUS
  <1>1. /\ Clipped \in 1 .. per /\ Clipped \in Nat /\ Clipped <= track
        /\ CountFits => Clipped <= num - curr
    BY ClippedTypes DEF BlockFails
  <1>2. CountFits' <=> CountFits
    BY DEF BlockFails, inputs, CountFits
  <1> QED
    BY <1>1, <1>2, RangeTypes DEF Inv, TypeOK, BlockFails, inputs

(* Reporting a sector leaves the list of reports a list of sectors.        *)
LEMMA VerdictTypes ==
  ASSUME TypeOK, NEW a \in Sectors, Passed(a) \/ GivenUp(a)
  PROVE  reported' \in Seq(Sectors)
  <1>1. reported \in Seq(Sectors)
    BY DEF TypeOK
  <1>2. reported' = reported \/ reported' = Append(reported, a)
    BY DEF Passed, GivenUp, Reported
  <1> QED
    BY <1>1, <1>2

LEMMA RetrySectorInv == Inv /\ RetrySector => Inv'
  <1> SUFFICES ASSUME Inv, RetrySector PROVE Inv'
    OBVIOUS
  <1>1. reported' \in Seq(Sectors) /\ addr \in Sectors
    BY VerdictTypes DEF Inv, TypeOK, RetrySector
  <1>2. op' \in [sect : Sectors, n : 0 .. track]
    BY <1>1, RangeTypes DEF Inv, RetrySector
  <1>3. CountFits' <=> CountFits
    BY DEF RetrySector, inputs, CountFits
  <1>4. CASE /\ addr' = Add(addr, 1) /\ i' = i + 1
             /\ UNCHANGED <<pc, result>>
    <2>1. 1 < Modulus
      BY RangeTypes DEF Inv, TypeOK, RetrySector
    <2>2. addr' \in Sectors
      BY <1>1, <1>4, <2>1, AddTypes, RangeTypes DEF Inv
    <2> QED
      BY <1>1, <1>2, <1>3, <1>4, <2>2, RangeTypes
         DEF Inv, TypeOK, RetrySector, inputs
  <1>5. CASE GivenUp(addr) /\ UNCHANGED <<addr, i>>
    BY <1>1, <1>2, <1>3, <1>5, RangeTypes
       DEF Inv, TypeOK, RetrySector, inputs, GivenUp, Return, OK, FAILED, CANCEL
  <1> QED
    BY <1>4, <1>5 DEF RetrySector

LEMMA EndRetryInv == Inv /\ EndRetry => Inv'
  <1> SUFFICES ASSUME Inv, EndRetry PROVE Inv'
    OBVIOUS
  <1>1. /\ curr' \in Sectors
        /\ curr + block < Modulus => curr' = curr + block
    BY AddTypes, RangeTypes DEF Inv, TypeOK, EndRetry
  <1>2. CountFits' => curr' <= num'
    BY <1>1, RangeTypes DEF Inv, EndRetry, inputs, CountFits
  <1> QED
    BY <1>1, <1>2, RangeTypes
       DEF Inv, TypeOK, EndRetry, inputs, Progress, Return, OK, FAILED, CANCEL

LEMMA EndBlocksInv == Inv /\ EndBlocks => Inv'
  BY RangeTypes DEF Inv, TypeOK, EndBlocks, inputs, CountFits

LEMMA SingleSectorInv == Inv /\ SingleSector => Inv'
  <1> SUFFICES ASSUME Inv, SingleSector PROVE Inv'
    OBVIOUS
  <1> USE RangeTypes DEF Inv, TypeOK, SingleSector, inputs, OK, FAILED, CANCEL
  <1>1. addr' \in Sectors
    BY AddTypes
  <1>2. reported' \in Seq(Sectors)
    BY <1>1, VerdictTypes
  <1>3. op' \in [sect : Sectors, n : 0 .. track]
    BY <1>1
  <1>4. CASE Passed(addr') /\ curr' = Add(curr, 1) /\ Progress("single")
    <2>1. curr + 1 < Modulus
      OBVIOUS
    <2>2. curr' = curr + 1 /\ curr' \in Sectors
      BY <1>4, <2>1 DEF Sectors, Add
    <2> QED
      BY <1>1, <1>2, <1>3, <1>4, <2>2 DEF Progress, Return, CountFits
  <1>5. CASE GivenUp(addr') /\ UNCHANGED curr
    BY <1>1, <1>2, <1>3, <1>5 DEF GivenUp, Return, CountFits
  <1> QED
    BY <1>4, <1>5

LEMMA FinishInv == Inv /\ Finish => Inv'
  BY RangeTypes DEF Inv, TypeOK, Finish, inputs, Return, CountFits,
                    OK, FAILED, CANCEL

LEMMA StepInv == Inv /\ [Next]_vars => Inv'
  <1>1. Inv /\ UNCHANGED vars => Inv'
    BY DEF Inv, TypeOK, vars, inputs, CountFits
  <1> QED
    BY <1>1, AllocateInv, BlockSucceedsInv, BlockFailsInv, RetrySectorInv,
       EndRetryInv, EndBlocksInv, SingleSectorInv, FinishInv DEF Next

LEMMA InvHolds == Spec => []Inv
  BY InitInv, StepInv, PTL DEF Spec

(* The counters and addresses of every scan are sector numbers, wrapped as *)
(* they are in the code, and where curr_sect cannot wrap it never leaves   *)
(* the range, whatever its length and the tracks.                          *)
THEOREM ScanTypeOK == Spec => []TypeOK
  BY InvHolds, PTL DEF Inv

-------------------------------------------------------------------------------
(* What Fits says of a step, and that the count is inside the range.       *)
LEMMA FitTypes ==
  ASSUME TypeOK, Fits
  PROVE  /\ start + num <= Modulus /\ start \in Nat /\ num \in Nat
         /\ num < Modulus /\ curr \in 0 .. num /\ i \in Nat
         /\ Modulus \in Nat \ {0}
  BY RangeTypes DEF TypeOK, Fits, OnDisk

(* A report adds one sector at most, and exactly one below the bound.      *)
LEMMA ReportTypes ==
  ASSUME reported \in Seq(Sectors), NEW a \in Sectors
  PROVE  /\ Len(reported) \in Nat /\ Reported(a) \in Seq(Sectors)
         /\ Len(Reported(a)) \in Nat /\ Len(Reported(a)) <= Len(reported) + 1
         /\ Len(reported) < Modulus => Reported(a) = Append(reported, a)
  BY DEF Reported, MaxReports

LEMMA FitStep == Inv /\ (Fits => FitInv) /\ [Next]_vars => (Fits' => FitInv')
  <1> SUFFICES ASSUME Inv, Fits => FitInv, [Next]_vars, Fits' PROVE FitInv'
    OBVIOUS
  <1>0. /\ start \in Nat /\ num \in Nat /\ num < Modulus /\ Modulus \in Nat
        /\ curr \in Sectors /\ block \in Nat /\ i \in Nat
        /\ addr \in Sectors /\ curr \in Nat /\ addr \in Nat
        /\ reported \in Seq(Sectors) /\ Len(reported) \in Nat
    BY RangeTypes DEF Inv, TypeOK, Sectors
  <1>1. CASE Allocate
    BY <1>0, <1>1 DEF Inv, Allocate, inputs, Return, FitInv
  <1>2. CASE BlockSucceeds
    <2>1. Fits /\ FitInv
      BY <1>2 DEF Fits, OnDisk, CountFits, BlockSucceeds, inputs
    <2>2. /\ Clipped \in Nat /\ Clipped < Modulus
          /\ Clipped <= num - curr /\ curr' = curr + Clipped
      BY <1>2, <2>1, ClippedTypes DEF BlockSucceeds, Fits
    <2>3. addr = start + curr /\ i = 0 /\ start + num <= Modulus
      BY <1>0, <1>2, <2>1 DEF Inv, FitInv, BlockSucceeds, Fits, OnDisk
    <2>4. addr + Clipped < Modulus => addr' = addr + Clipped
      BY <1>0, <1>2, <2>2, AddTypes DEF BlockSucceeds
    <2> QED
      BY <1>0, <1>2, <2>1, <2>2, <2>3, <2>4
         DEF FitInv, BlockSucceeds, inputs, Progress, Return
  <1>3. CASE BlockFails
    <2>1. Fits /\ FitInv
      BY <1>3 DEF Fits, OnDisk, CountFits, BlockFails, inputs
    <2> QED
      BY <1>0, <1>3, <2>1 DEF Inv, FitInv, BlockFails, inputs
  <1>4. CASE RetrySector
    <2>1. Fits /\ FitInv
      BY <1>4 DEF Fits, OnDisk, CountFits, RetrySector, inputs
    <2>2. /\ curr + i < num /\ addr = start + curr + i
          /\ start + num <= Modulus
      BY <1>0, <1>4, <2>1 DEF Inv, RetrySector, FitInv, Fits, OnDisk
    <2>3. CASE Passed(addr) /\ addr' = Add(addr, 1) /\ i' = i + 1
      <3>1. Len(reported') \in Nat /\ Len(reported') <= Len(reported) + 1
        BY <1>0, <2>3, ReportTypes DEF Passed
      <3>2. addr + 1 < Modulus => addr' = addr + 1
        BY <1>0, <2>2, <2>3 DEF Add
      <3>3. pc' = "retry" /\ pc = "retry" /\ UNCHANGED <<start, num, curr>>
        BY <1>4, <2>3, <1>0 DEF RetrySector, inputs, GivenUp
      <3> QED
        BY <1>0, <2>1, <2>2, <2>3, <3>1, <3>2, <3>3 DEF FitInv
    <2>4. CASE GivenUp(addr)
      BY <2>4 DEF GivenUp, Return, FitInv
    <2> QED
      BY <1>4, <2>3, <2>4 DEF RetrySector
  <1>5. CASE EndRetry
    <2>1. Fits /\ FitInv
      BY <1>5 DEF Fits, OnDisk, CountFits, EndRetry, inputs
    <2>2. curr + block <= num /\ curr' = curr + block /\ i = block
      BY <1>0, <1>5, <2>1 DEF Inv, EndRetry, Fits, Add
    <2> QED
      BY <1>0, <1>5, <2>1, <2>2 DEF FitInv, EndRetry, inputs, Progress, Return
  <1>6. CASE EndBlocks
    BY <1>0, <1>6 DEF FitInv, EndBlocks, inputs, Fits, OnDisk, CountFits
  <1>7. CASE SingleSector
    <2>1. Fits /\ FitInv /\ curr < num
      BY <1>7 DEF Fits, OnDisk, CountFits, SingleSector, inputs
    <2>2. curr + 1 < Modulus /\ curr < Modulus /\ i = 0 /\ i' = 0
      BY <1>0, <1>7, <2>1 DEF SingleSector, Inv
    <2>3. addr' \in Sectors
      BY <1>0, <1>7, <2>2, AddTypes, RangeTypes DEF SingleSector, Inv
    <2>4. CASE Passed(addr') /\ curr' = Add(curr, 1) /\ Progress("single")
      <3>1. Len(reported') \in Nat /\ Len(reported') <= Len(reported) + 1
        BY <1>0, <2>3, <2>4, ReportTypes DEF Passed
      <3>2. curr' = curr + 1
        BY <1>0, <2>2, <2>4 DEF Add
      <3> QED
        BY <1>0, <1>7, <2>1, <2>2, <2>4, <3>1, <3>2
           DEF FitInv, SingleSector, Progress, Return
    <2>5. CASE GivenUp(addr')
      BY <2>5 DEF GivenUp, Return, FitInv
    <2> QED
      BY <1>7, <2>4, <2>5 DEF SingleSector
  <1>8. CASE Finish
    BY <1>8 DEF FitInv, Finish, Return
  <1>9. CASE UNCHANGED vars
    BY <1>9 DEF FitInv, vars, inputs, Fits, OnDisk, CountFits
  <1> QED
    BY <1>1, <1>2, <1>3, <1>4, <1>5, <1>6, <1>7, <1>8, <1>9 DEF Next

LEMMA FitHolds == Spec => [](Inv /\ (Fits => FitInv))
  BY InitInv, InvHolds, FitStep, PTL DEF Spec

-------------------------------------------------------------------------------
(* The sectors the abstract scan finds failing.                            *)
Failing == {s \in start .. start + num - 1 : Unreadable(s, 1)}

(* Sectors inside the range of a transfer that is not refused are readable *)
(* one by one.                                                             *)
LEMMA ReadableApart ==
  ASSUME NEW a \in Sectors, NEW n \in Nat \ {0},
         Modulus \in Nat \ {0}, n < Modulus, ~Unreadable(a, n),
         NEW s \in a .. a + n - 1
  PROVE  ~Unreadable(s, 1)
  <1>1. s \notin bad
    BY DEF Unreadable
  <1>2. a + n < Modulus
    BY AddTypes DEF Unreadable
  <1>3. ~(Add(s, 1) < s)
    BY <1>2 DEF Sectors, Add
  <1>4. \A t \in s .. s + 1 - 1 : t = s
    BY DEF Sectors
  <1> QED
    BY <1>1, <1>3, <1>4 DEF Unreadable

(* The abstract scan begins with the same range.                           *)
LEMMA InitScan == Init => Scan!Init
  <1> SUFFICES ASSUME Init PROVE Scan!Init
    OBVIOUS
  <1>1. start \in Nat /\ num \in Nat
    BY ScanConstants DEF Init, Sectors
  <1>2. Failing \subseteq Nat
    BY <1>1 DEF Failing
  <1> QED
    BY <1>1, <1>2 DEF Init, Scan!Init, Failing

(* All sectors of a block pass at once.                                    *)
LEMMA BlockSucceedsScan == Inv /\ Fits /\ FitInv /\ BlockSucceeds => Scan!Pass
  <1> SUFFICES ASSUME Inv, Fits, FitInv, BlockSucceeds PROVE Scan!Pass
    OBVIOUS
  <1>1. /\ Clipped \in Nat \ {0} /\ Clipped < Modulus
        /\ Clipped <= num - curr /\ curr' = curr + Clipped
    BY ClippedTypes DEF BlockSucceeds, Fits
  <1>2. /\ addr \in Sectors /\ addr = start + curr /\ i = 0
        /\ curr \in Nat /\ num \in Nat /\ start \in Nat /\ result = "running"
    BY RangeTypes DEF Inv, TypeOK, FitInv, BlockSucceeds
  <1>3. \A s \in addr .. addr + Clipped - 1 : ~Unreadable(s, 1)
    <2>1. ~Unreadable(addr, Clipped)
      BY DEF BlockSucceeds
    <2> QED
      BY <1>1, <1>2, <2>1, ReadableApart, RangeTypes DEF Inv
  <1>4. result' = result \/ result' = CANCEL
    BY DEF BlockSucceeds, Progress, Return
  <1>5. UNCHANGED <<start, num, i, bad, reported>>
    BY DEF BlockSucceeds, inputs
  <1>6. UNCHANGED Failing
    BY <1>5 DEF Failing, Unreadable
  <1> QED
    BY <1>1, <1>2, <1>3, <1>4, <1>5, <1>6
       DEF Scan!Pass, Scan!GoOnOrCancel, Failing

(* A verdict on a sector is a step of the abstract scan: the sector        *)
(* passes, it is reported, or the scan is given up.                        *)
LEMMA RetrySectorScan ==
  Inv /\ Fits /\ FitInv /\ RetrySector =>
    Scan!Pass \/ Scan!Report \/ Scan!GiveUp
  <1> SUFFICES ASSUME Inv, Fits, FitInv, RetrySector
               PROVE  Scan!Pass \/ Scan!Report \/ Scan!GiveUp
    OBVIOUS
  <1>1. /\ curr + i < num /\ addr = start + curr + i /\ result = "running"
        /\ curr \in Nat /\ i \in Nat /\ num \in Nat /\ start \in Nat
    BY RangeTypes DEF Inv, FitInv, Fits, RetrySector
  <1>append. Reported(addr) = Append(reported, addr)
    <2>1. Len(reported) < Modulus /\ reported \in Seq(Sectors) /\ addr \in Sectors
      <3>1. Len(reported) <= curr + i /\ reported \in Seq(Sectors)
        BY DEF Inv, TypeOK, FitInv, RetrySector
      <3> QED
        BY <1>1, <3>1, RangeTypes DEF Inv, TypeOK
    <2> QED
      BY <2>1, ReportTypes
  <1>2. UNCHANGED <<start, num, bad, curr>> /\ UNCHANGED Failing
    BY DEF RetrySector, inputs, Failing, Unreadable
  <1>3. addr \in Failing <=> Unreadable(addr, 1)
    BY <1>1 DEF Failing
  <1>4. CASE Passed(addr) /\ i' = i + 1 /\ UNCHANGED <<pc, result>>
    <2>1. CASE Unreadable(addr, 1)
      BY <1>1, <1>2, <1>3, <1>4, <1>append, <2>1
         DEF Passed, Scan!Report, Scan!GoOnOrCancel, Failing
    <2>2. CASE ~Unreadable(addr, 1)
      <3>1. \A s \in addr .. addr + 1 - 1 : s = addr
        BY <1>1
      <3> QED
        BY <1>1, <1>2, <1>3, <1>4, <2>2, <3>1
           DEF Passed, Scan!Pass, Scan!GoOnOrCancel, Failing
    <2> QED
      BY <2>1, <2>2
  <1>5. CASE GivenUp(addr) /\ UNCHANGED <<addr, i>>
    <2>1. Unreadable(addr, 1) /\ result' = FAILED
      BY <1>5 DEF GivenUp, Return
    <2>2. CASE bbt
      BY <1>1, <1>2, <1>3, <1>5, <1>append, <2>1, <2>2
         DEF GivenUp, Scan!Report, Failing
    <2>3. CASE ~bbt
      BY <1>1, <1>2, <1>3, <1>5, <2>1, <2>3 DEF GivenUp, Scan!GiveUp, Failing
    <2> QED
      BY <2>2, <2>3
  <1> QED
    BY <1>4, <1>5 DEF RetrySector

LEMMA SingleSectorScan ==
  Inv /\ Fits /\ FitInv /\ SingleSector =>
    Scan!Pass \/ Scan!Report \/ Scan!GiveUp
  <1> SUFFICES ASSUME Inv, Fits, FitInv, SingleSector
               PROVE  Scan!Pass \/ Scan!Report \/ Scan!GiveUp
    OBVIOUS
  <1>1. /\ curr < num /\ i = 0 /\ i' = 0 /\ result = "running"
        /\ curr \in Nat /\ num \in Nat /\ start \in Nat
        /\ start + num <= Modulus /\ Modulus \in Nat /\ num < Modulus
    BY FitTypes, RangeTypes DEF Inv, SingleSector
  <1>2. UNCHANGED <<start, num, bad>> /\ UNCHANGED Failing
    BY DEF SingleSector, inputs, Failing, Unreadable
  <1>3. addr' = start + curr
    BY <1>1 DEF SingleSector, Add
  <1>append. Reported(addr') = Append(reported, addr')
    <2>1. Len(reported) <= curr + i /\ reported \in Seq(Sectors)
      BY DEF Inv, TypeOK, FitInv, SingleSector
    <2>2. Len(reported) < Modulus /\ addr' \in Sectors
      BY <1>1, <1>3, <2>1 DEF Sectors
    <2> QED
      BY <2>1, <2>2, ReportTypes
  <1>4. addr' \in Failing <=> Unreadable(addr', 1)
    BY <1>1, <1>3 DEF Failing
  <1>5. CASE Passed(addr') /\ curr' = Add(curr, 1) /\ Progress("single")
    <2>0. curr' = curr + 1
      BY <1>1, <1>5 DEF Add
    <2>1. result' = result \/ result' = CANCEL
      BY <1>5 DEF Progress, Return
    <2>2. CASE Unreadable(addr', 1)
      BY <1>1, <1>2, <1>3, <1>4, <1>5, <1>append, <2>0, <2>1, <2>2
         DEF Passed, Scan!Report, Scan!GoOnOrCancel, Failing
    <2>3. CASE ~Unreadable(addr', 1)
      <3>1. \A s \in addr' .. addr' + 1 - 1 : s = addr'
        BY <1>1, <1>3
      <3> QED
        BY <1>1, <1>2, <1>3, <1>4, <1>5, <2>0, <2>1, <2>3, <3>1
           DEF Passed, Scan!Pass, Scan!GoOnOrCancel, Failing
    <2> QED
      BY <2>2, <2>3
  <1>6. CASE GivenUp(addr') /\ UNCHANGED curr
    <2>1. Unreadable(addr', 1) /\ result' = FAILED
      BY <1>6 DEF GivenUp, Return
    <2>2. CASE bbt
      BY <1>1, <1>2, <1>3, <1>4, <1>6, <1>append, <2>1, <2>2
         DEF GivenUp, Scan!Report, Failing
    <2>3. CASE ~bbt
      BY <1>1, <1>2, <1>3, <1>4, <1>6, <2>1, <2>3
         DEF GivenUp, Scan!GiveUp, Failing
    <2> QED
      BY <2>2, <2>3
  <1> QED
    BY <1>5, <1>6 DEF SingleSector

(* The end of a retry is a step of the abstract scan only by being         *)
(* cancelled there.                                                        *)
LEMMA EndRetryScan == Inv /\ Fits /\ EndRetry => Scan!Pass
  <1> SUFFICES ASSUME Inv, Fits, EndRetry PROVE Scan!Pass
    OBVIOUS
  <1>1. /\ curr + block <= num /\ i = block /\ num < Modulus
        /\ curr \in Nat /\ block \in Nat /\ num \in Nat
    BY RangeTypes DEF Inv, EndRetry, Fits
  <1>2. curr' = curr + block
    <2>1. curr' = Add(curr, block)
      BY DEF EndRetry
    <2> QED
      BY <1>1, <2>1, RangeTypes DEF Inv, Add
  <1> QED
    BY <1>1, <1>2, RangeTypes DEF Inv, TypeOK, EndRetry, inputs, Progress, Return,
       Scan!Pass, Scan!GoOnOrCancel, Unreadable

LEMMA ScanStep ==
  Inv /\ (Fits => FitInv) /\ [Next]_vars =>
    [OnDisk /\ CountFits => Scan!Next]_(Scan!vars)
  <1> SUFFICES ASSUME Inv, FitInv, [Next]_vars, OnDisk, CountFits
               PROVE  [Scan!Next]_(Scan!vars)
    BY DEF Fits
  <1>0. Fits
    BY DEF Fits
  <1>1. CASE Allocate
    BY <1>1, RangeTypes DEF Inv, Allocate, inputs, Return, Scan!Next, Scan!GiveUp,
                            Scan!vars, Unreadable
  <1>2. CASE BlockSucceeds
    BY <1>0, <1>2, BlockSucceedsScan DEF Scan!Next
  <1>3. CASE BlockFails
    BY <1>3 DEF Inv, BlockFails, inputs, Scan!vars, Unreadable
  <1>4. CASE RetrySector
    BY <1>0, <1>4, RetrySectorScan DEF Scan!Next
  <1>5. CASE EndRetry
    BY <1>0, <1>5, EndRetryScan DEF Scan!Next
  <1>6. CASE EndBlocks
    BY <1>6 DEF EndBlocks, inputs, Scan!vars, Unreadable
  <1>7. CASE SingleSector
    BY <1>0, <1>7, SingleSectorScan DEF Scan!Next
  <1>8. CASE Finish
    <2>1. curr = num /\ curr + i = num /\ i = 0 /\ result = "running"
      BY <1>0, <1>8, FitTypes DEF Inv, Finish
    <2> QED
      BY <1>8, <2>1 DEF Finish, inputs, Return, Scan!Next, Scan!Finish, Unreadable
  <1>9. CASE UNCHANGED vars
    BY <1>9 DEF vars, inputs, Scan!vars, Unreadable
  <1> QED
    BY <1>1, <1>2, <1>3, <1>4, <1>5, <1>6, <1>7, <1>8, <1>9 DEF Next

(* Blocks, clipped blocks, retries of single sectors and the fall-back to  *)
(* single sectors together deal with every sector of the range once and in *)
(* order, and report exactly those that fail: in every range that does not *)
(* wrap and that is shorter than 2^32 by a track, or scanned sector by     *)
(* sector.  In the ranges left over, curr_sect wraps, and the scan goes on *)
(* behind the end of the range and starts over.                            *)
THEOREM ImplementsScan == Spec => ScanSpec
  BY FitHolds, InitScan, ScanStep, PTL DEF Spec, ScanSpec
-------------------------------------------------------------------------------
(* Where blocks begin and end as long as nothing wraps: a block that is    *)
(* still to be transferred ends where a track ends (unless the range ends  *)
(* before that), and so does the one whose sectors are retried.            *)
Aligned ==
  /\ pc = "block" /\ curr < num => block = track - ((start + curr) % track)
  /\ pc = "retry" /\ curr + block < num => (start + curr + block) % track = 0

(* A block that reaches no further than the end of the track of its first  *)
(* sector lies in that track; one that reaches it ends there.              *)
LEMMA TrackEnd ==
  ASSUME NEW a \in Nat, NEW t \in Nat \ {0}, NEW n \in 1 .. t - (a % t)
  PROVE  /\ a \div t = (a + n - 1) \div t
         /\ n = t - (a % t) => (a + n) % t = 0
  <1>1. PICK q \in Nat, r \in 0 .. t - 1 :
          a = t * q + r /\ a \div t = q /\ a % t = r
    BY DivMod
  <1>2. r + n - 1 \in 0 .. t - 1 /\ a + n - 1 = t * q + (r + n - 1)
    BY <1>1
  <1>3. (a + n - 1) \div t = q
    BY <1>2, DivUnique
  <1>4. ASSUME n = t - r PROVE (a + n) % t = 0
    <2>1. a + n = t * (q + 1) + 0 /\ q + 1 \in Nat /\ 0 \in 0 .. t - 1
      BY <1>1, <1>4
    <2>2. (t * (q + 1) + 0) % t = 0
      BY <2>1, DivUnique
    <2> QED
      BY <2>1, <2>2
  <1> QED
    BY <1>1, <1>3, <1>4

(* The length of a block that is transferred, and where it may lie.        *)
LEMMA BlockInTrack ==
  ASSUME Inv, Fits, FitInv, Aligned, pc = "block", curr < num
  PROVE  /\ per = track /\ addr = start + curr /\ addr \in Nat
         /\ Clipped \in 1 .. track - (addr % track)
         /\ Add(curr, Clipped) = curr + Clipped
         /\ addr \div track = (addr + Clipped - 1) \div track
         /\ curr + Clipped < num => (start + curr + Clipped) % track = 0
  <1>1. /\ per = track /\ addr = start + curr /\ addr \in Nat
        /\ track \in Nat \ {0} /\ curr \in Nat /\ num \in Nat
    BY RangeTypes DEF Inv, TypeOK, FitInv
  <1>2. block = track - (addr % track) /\ addr % track \in 0 .. track - 1
    BY <1>1, DivMod DEF Aligned
  <1>3. /\ Clipped \in 1 .. track
        /\ Clipped = IF curr + block > num THEN num - curr ELSE block
        /\ Add(curr, Clipped) = curr + Clipped
    BY <1>1, ClippedTypes DEF Fits
  <1>4. /\ Clipped \in 1 .. track - (addr % track)
        /\ curr + Clipped < num => Clipped = track - (addr % track)
    BY <1>1, <1>2, <1>3
  <1> QED
    BY <1>1, <1>3, <1>4, TrackEnd

LEMMA AlignedStep ==
  Inv /\ (Fits => FitInv /\ Aligned) /\ [Next]_vars => (Fits' => Aligned')
  <1> SUFFICES ASSUME Inv, Fits => FitInv /\ Aligned, [Next]_vars, Fits'
               PROVE  Aligned'
    OBVIOUS
  <1>0. /\ track \in Nat \ {0} /\ start \in Nat /\ curr \in Nat /\ num \in Nat
        /\ block \in Nat /\ num < Modulus /\ Modulus \in Nat
    BY RangeTypes DEF Inv, TypeOK
  <1>1. CASE Allocate
    BY <1>0, <1>1 DEF Inv, Allocate, inputs, Return, Aligned
  <1>2. CASE BlockSucceeds
    <2>1. Fits /\ FitInv /\ Aligned
      BY <1>2 DEF Fits, OnDisk, CountFits, BlockSucceeds, inputs
    <2>2. /\ per = track /\ Clipped \in Nat
          /\ curr + Clipped < num => (start + curr + Clipped) % track = 0
          /\ Add(curr, Clipped) = curr + Clipped
      BY <1>0, <1>2, <2>1, BlockInTrack, DivMod DEF BlockSucceeds
    <2>3. /\ curr' = curr + Clipped /\ block' = per /\ pc' # "retry"
          /\ UNCHANGED <<start, num, track>>
      BY <1>2, <2>2 DEF BlockSucceeds, inputs, Progress, Return
    <2>4. start + curr' = start + curr + Clipped
      BY <1>0, <2>2, <2>3
    <2> QED
      BY <1>0, <2>2, <2>3, <2>4 DEF Aligned
  <1>3. CASE BlockFails
    <2>1. Fits /\ FitInv /\ Aligned
      BY <1>3 DEF Fits, OnDisk, CountFits, BlockFails, inputs
    <2>2. curr + Clipped < num => (start + curr + Clipped) % track = 0
      BY <1>3, <2>1, BlockInTrack DEF BlockFails
    <2> QED
      BY <1>3, <2>2 DEF BlockFails, inputs, Aligned
  <1>4. CASE RetrySector
    <2>1. Aligned
      BY <1>4 DEF Fits, OnDisk, CountFits, RetrySector, inputs
    <2> QED
      BY <1>4, <2>1 DEF RetrySector, inputs, GivenUp, Return, Aligned
  <1>5. CASE EndRetry
    <2>1. Fits /\ Aligned
      BY <1>5 DEF Fits, OnDisk, CountFits, EndRetry, inputs
    <2>2. /\ per = track
          /\ curr + block < num => (start + curr + block) % track = 0
      BY <1>5, <2>1 DEF Inv, TypeOK, EndRetry, Aligned
    <2>3. /\ curr' = curr + block /\ block' = per /\ pc' # "retry"
          /\ UNCHANGED <<start, num, track>>
      BY <1>0, <1>5, <2>1 DEF Inv, Fits, Add, EndRetry, inputs, Progress, Return
    <2>4. start + curr' = start + curr + block
      BY <1>0, <2>3
    <2> QED
      BY <1>0, <2>2, <2>3, <2>4 DEF Aligned
  <1>6. CASE EndBlocks
    BY <1>6 DEF EndBlocks, inputs, Aligned
  <1>7. CASE SingleSector
    BY <1>7 DEF SingleSector, inputs, Progress, GivenUp, Return, Aligned
  <1>8. CASE Finish
    BY <1>8 DEF Finish, inputs, Return, Aligned
  <1>9. CASE UNCHANGED vars
    BY <1>9 DEF vars, inputs, Aligned, Fits, OnDisk, CountFits
  <1> QED
    BY <1>1, <1>2, <1>3, <1>4, <1>5, <1>6, <1>7, <1>8, <1>9 DEF Next

LEMMA WithinTrackStep ==
  Inv /\ (Fits => FitInv /\ Aligned) /\ BlocksWithinTrack /\ [Next]_vars
    => BlocksWithinTrack'
  <1> SUFFICES ASSUME Inv, Fits => FitInv /\ Aligned, BlocksWithinTrack,
                      [Next]_vars, Fits'
               PROVE  BlocksWithinTrack'
    BY DEF BlocksWithinTrack, Fits
  <1>1. CASE BlockSucceeds \/ BlockFails
    <2>1. /\ pc = "block" /\ curr < num /\ track' = track
          /\ op' = [sect |-> addr, n |-> Clipped]
      BY <1>1 DEF BlockSucceeds, BlockFails, inputs
    <2>2. Fits
      BY <1>1 DEF Fits, OnDisk, CountFits, BlockSucceeds, BlockFails, inputs
    <2> QED
      BY <2>1, <2>2, BlockInTrack DEF BlocksWithinTrack
  <1>2. CASE RetrySector \/ SingleSector
    BY <1>2 DEF RetrySector, SingleSector, BlocksWithinTrack
  <1>3. CASE Allocate
    BY <1>3 DEF Inv, Allocate, inputs, BlocksWithinTrack
  <1>4. CASE UNCHANGED <<op, inputs, per>>
    BY <1>4 DEF BlocksWithinTrack, inputs, OnDisk, CountFits
  <1> QED
    BY <1>1, <1>2, <1>3, <1>4 DEF Next, EndRetry, EndBlocks, Finish, vars

(* No transfer of more than one sector crosses the end of a track, for any *)
(* track size and any range that does not wrap and in which curr_sect      *)
(* cannot, whatever blocks fail, are clipped or retried.                   *)
THEOREM TransfersStayInTrack == Spec => []BlocksWithinTrack
  <1>1. Init => Aligned /\ BlocksWithinTrack
    BY DEF Init, Aligned, BlocksWithinTrack
  <1>2. Spec => []((Fits => Aligned) /\ BlocksWithinTrack)
    BY <1>1, FitHolds, AlignedStep, WithinTrackStep, PTL DEF Spec
  <1> QED
    BY <1>2, PTL
===============================================================================
