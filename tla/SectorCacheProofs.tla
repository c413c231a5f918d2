--------------------------- MODULE SectorCacheProofs ---------------------------
(***************************************************************************)
(* For every set of partitions, sectors, entries and values and every      *)
(* fault budget: the cache block is labelled truthfully, only faults harm, *)
(* and without faults CACHE.C implements SectorStore.                      *)
(***************************************************************************)
EXTENDS SectorCache, TLAPS

(* Everything the steps below need about one state.                        *)
Inv == TypeOK /\ CleanBlockOnDisk /\ OnlyFaultsHarm

(* cache_flush keeps block and disk well typed, whatever the write does.   *)
LEMMA FlushTypes ==
  ASSUME TypeOK, NEW ok \in BOOLEAN
  PROVE  /\ FlushDisk(disk, blk, HomeOf(blk), ok) \in [Keys -> Data]
         /\ FlushBlock(blk, ok) \in Block(Parts, Sectors, Data)
  BY DEF TypeOK, FlushDisk, FlushBlock, Block, NeedsWrite, HomeOf, Keys

(* The bookkeeping of a write: the disk is well typed, the faults stay     *)
(* within their bound.                                                     *)
LEMMA WriteBackTypes ==
  ASSUME TypeOK, NEW ok \in BOOLEAN, WriteBack(ok)
  PROVE  /\ disk' \in [Keys -> Data]
         /\ writeFaults' \in 0..MaxWriteFaults
         /\ failed' \subseteq Keys
<1>1. disk' \in [Keys -> Data]
  BY FlushTypes DEF WriteBack
<1>2. writeFaults' \in 0..MaxWriteFaults
  BY CacheConstants DEF WriteBack, TypeOK
<1>3. NeedsWrite(blk) => HomeOf(blk) \in Keys
  BY DEF TypeOK, NeedsWrite, Block, HomeOf, Keys
<1>4. failed' \subseteq Keys
  BY <1>3 DEF WriteBack, TypeOK
<1> QED BY <1>1, <1>2, <1>4

(* What a lookup does to the types, hit or miss.                           *)
LEMMA LookupTypes ==
  ASSUME TypeOK, NEW p \in Parts, NEW s \in Sectors, NEW ok \in BOOLEAN,
         Lookup(p, s, ok)
  PROVE  /\ disk' \in [Keys -> Data]
         /\ writeFaults' \in 0..MaxWriteFaults
         /\ failed' \subseteq Keys
         /\ Resident(p, s, ok) \in Block(Parts, Sectors, Data)
         /\ Resident(p, s, ok).part = p
         /\ Resident(p, s, ok).sector = s
         /\ Resident(p, s, ok).data \in Data
<1>1. CASE InCache(blk, p, s)
  BY <1>1 DEF Lookup, Resident, TypeOK, InCache, Block
<1>2. CASE ~InCache(blk, p, s)
  <2>1. WriteBack(ok)
    BY <1>2 DEF Lookup
  <2>2. FlushDisk(disk, blk, HomeOf(blk), ok)[<<p, s>>] \in Data
    BY FlushTypes DEF Keys
  <2>3. Resident(p, s, ok) =
          FetchedBlock(FlushBlock(blk, ok), p, s,
                       FlushDisk(disk, blk, HomeOf(blk), ok)[<<p, s>>])
    BY <1>2 DEF Resident
  <2>4. QED
    BY <2>1, <2>2, <2>3, FlushTypes, WriteBackTypes DEF FetchedBlock, Block
<1> QED BY <1>1, <1>2

(* After a write-back the disk alone, without the block, is right outside  *)
(* the sectors that a fault has touched.                                   *)
LEMMA WriteBackKeeps ==
  ASSUME Inv, NEW ok \in BOOLEAN, WriteBack(ok)
  PROVE  \A k \in Keys : disk'[k] # wanted[k] => k \in failed' \cup spoilt
<1> SUFFICES ASSUME NEW k \in Keys, disk'[k] # wanted[k], k \notin spoilt
             PROVE  k \in failed'
  OBVIOUS
<1>1. View[k] # wanted[k] => k \in failed'
  BY DEF Inv, OnlyFaultsHarm, WriteBack
<1>2. CASE NeedsWrite(blk) /\ ok
  <2>1. disk' = [disk EXCEPT ![HomeOf(blk)] = blk.data]
    BY <1>2 DEF WriteBack, FlushDisk
  <2>2. disk'[k] = View[k]
    BY <1>2, <2>1 DEF View, NeedsWrite, Inv, TypeOK
  <2> QED BY <1>1, <2>2
<1>3. CASE ~(NeedsWrite(blk) /\ ok)
  <2>1. disk' = disk
    BY <1>3 DEF WriteBack, FlushDisk
  <2>2. CASE blk.part # None /\ k = HomeOf(blk)
    <3>1. CASE blk.dirty
      BY <1>3, <2>2, <3>1 DEF WriteBack, NeedsWrite
    <3>2. CASE ~blk.dirty
      <4>1. blk.data = disk[k]
        BY <2>2, <3>2 DEF Inv, CleanBlockOnDisk
      <4> QED BY <1>1, <2>1, <2>2, <4>1 DEF View
    <3> QED BY <3>1, <3>2 DEF Inv, TypeOK, Block
  <2>3. CASE ~(blk.part # None /\ k = HomeOf(blk))
    BY <1>1, <2>1, <2>3 DEF View
  <2> QED BY <2>2, <2>3
<1> QED BY <1>2, <1>3

(* A successful cache_read hands out a block that, put in the place of its *)
(* sector, shows every sector as wanted, unless a fault has touched it.    *)
LEMMA LookupKeeps ==
  ASSUME Inv, NEW p \in Parts, NEW s \in Sectors, NEW ok \in BOOLEAN,
         Lookup(p, s, ok)
  PROVE  LET b == Resident(p, s, ok) IN
         /\ ~b.dirty /\ <<p, s>> \notin spoilt => b.data = disk'[<<p, s>>]
         /\ \A k \in Keys :
              (IF k = <<p, s>> THEN b.data ELSE disk'[k]) # wanted[k]
                => k \in failed' \cup spoilt
<1> DEFINE b == Resident(p, s, ok)
<1>1. CASE InCache(blk, p, s)
  <2>1. b = blk /\ disk' = disk /\ failed' = failed
    BY <1>1 DEF Lookup, Resident
  <2>2. blk.part # None /\ HomeOf(blk) = <<p, s>>
    BY <1>1, CacheConstants DEF InCache, HomeOf
  <2>3. ~b.dirty /\ <<p, s>> \notin spoilt => b.data = disk'[<<p, s>>]
    BY <2>1, <2>2 DEF Inv, CleanBlockOnDisk
  <2>4. ASSUME NEW k \in Keys
        PROVE  (IF k = <<p, s>> THEN b.data ELSE disk'[k]) = View[k]
    BY <2>1, <2>2 DEF View
  <2> QED BY <2>1, <2>3, <2>4 DEF Inv, OnlyFaultsHarm
<1>2. CASE ~InCache(blk, p, s)
  <2>1. WriteBack(ok)
    BY <1>2 DEF Lookup
  <2>2. b.data = disk'[<<p, s>>]
    <3>1. b = FetchedBlock(FlushBlock(blk, ok), p, s, disk'[<<p, s>>])
      BY <1>2, <2>1 DEF Resident, WriteBack
    <3> QED BY <3>1, FlushTypes DEF FetchedBlock, Block, Inv
  <2> QED BY <2>1, <2>2, WriteBackKeeps
<1> QED BY <1>1, <1>2

(* The initial state satisfies the invariant.                              *)
LEMMA InitInv == Init => Inv
<1> SUFFICES ASSUME Init PROVE Inv
  OBVIOUS
<1>1. blk.part = None
  BY DEF Init, EmptyBlock
<1>2. TypeOK
  BY CacheConstants DEF Init, TypeOK, EmptyBlock, Block
<1>3. OnlyFaultsHarm
  BY <1>1 DEF OnlyFaultsHarm, View, Init
<1> QED BY <1>1, <1>2, <1>3 DEF Inv, CleanBlockOnDisk

(* Read keeps the invariant: the block it leaves is the one looked up.     *)
LEMMA ReadInv ==
  ASSUME Inv, NEW p \in Parts, NEW s \in Sectors, Read(p, s)
  PROVE  Inv'
<1>1. PICK ok \in BOOLEAN : Lookup(p, s, ok) /\ blk' = Resident(p, s, ok)
  BY DEF Read
<1>2. blk'.part = p /\ blk'.sector = s /\ blk'.part # None
  BY <1>1, LookupTypes, CacheConstants DEF Inv
<1>3. HomeOf(blk') = <<p, s>>
  BY <1>2 DEF HomeOf
<1>4. TypeOK'
  BY <1>1, LookupTypes DEF Inv, TypeOK, Read, Block, Keys
<1>5. CleanBlockOnDisk'
  BY <1>1, <1>3, LookupKeeps DEF CleanBlockOnDisk, Read, HomeOf
<1>6. OnlyFaultsHarm'
  <2> SUFFICES ASSUME NEW k \in Keys, View'[k] # wanted'[k]
               PROVE  k \in failed' \cup spoilt'
    BY DEF OnlyFaultsHarm
  <2>1. View'[k] = IF k = <<p, s>> THEN Resident(p, s, ok).data ELSE disk'[k]
    BY <1>1, <1>2, <1>3 DEF View, HomeOf
  <2> QED BY <1>1, <2>1, LookupKeeps DEF Read
<1> QED BY <1>4, <1>5, <1>6 DEF Inv

(* Write keeps the invariant: one entry of the looked-up block changes and *)
(* is wanted to change.                                                    *)
LEMMA WriteInv ==
  ASSUME Inv, NEW p \in Parts, NEW s \in Sectors, NEW e \in Entries,
         NEW v \in Values, Write(p, s, e, v)
  PROVE  Inv'
<1>1. PICK ok \in BOOLEAN :
        LET b == Resident(p, s, ok) IN
        /\ Lookup(p, s, ok)
        /\ blk' = DirtyBlock(b, [b.data EXCEPT ![e] = v])
  BY DEF Write
<1> DEFINE b == Resident(p, s, ok)
           d == [b.data EXCEPT ![e] = v]
<1>2. /\ b \in Block(Parts, Sectors, Data) /\ b.part = p /\ b.sector = s
      /\ b.data \in Data
  BY <1>1, LookupTypes DEF Inv
<1>3. d \in Data
  BY <1>2 DEF Data
<1>4. blk' = [part |-> p, sector |-> s, data |-> d, dirty |-> TRUE]
  BY <1>1, <1>2 DEF DirtyBlock, Block
<1>5. HomeOf(blk') = <<p, s>> /\ blk'.part # None /\ blk'.dirty
  BY <1>4, CacheConstants DEF HomeOf
<1>6. wanted' = [wanted EXCEPT ![<<p, s>>] = [@ EXCEPT ![e] = v]]
  BY DEF Write
<1>7. TypeOK'
  <2>1. wanted' \in [Keys -> Data]
    BY <1>6 DEF Inv, TypeOK, Keys, Data
  <2>2. blk' \in Block(Parts, Sectors, Data)
    BY <1>3, <1>4 DEF Block
  <2>3. asked' \in Keys
    BY DEF Write, Keys
  <2> QED BY <1>1, <2>1, <2>2, <2>3, LookupTypes DEF Inv, TypeOK, Write
<1>8. CleanBlockOnDisk'
  BY <1>5 DEF CleanBlockOnDisk
<1>9. OnlyFaultsHarm'
  <2> SUFFICES ASSUME NEW k \in Keys, View'[k] # wanted'[k]
               PROVE  k \in failed' \cup spoilt'
    BY DEF OnlyFaultsHarm
  <2>1. View'[k] = IF k = <<p, s>> THEN d ELSE disk'[k]
    BY <1>4, <1>5 DEF View, HomeOf
  <2>2. spoilt' = spoilt
    BY DEF Write
  <2>3. CASE k = <<p, s>>
    <3>1. View'[k] = d
      BY <2>1, <2>3
    <3>2. wanted'[k] = [wanted[k] EXCEPT ![e] = v]
      BY <1>6, <2>3 DEF Inv, TypeOK
    <3>3. b.data # wanted[k]
      BY <3>1, <3>2
    <3> QED BY <1>1, <2>2, <2>3, <3>3, LookupKeeps
  <2>4. CASE k # <<p, s>>
    <3>1. wanted'[k] = wanted[k]
      BY <1>6, <2>4 DEF Inv, TypeOK
    <3>2. (IF k = <<p, s>> THEN b.data ELSE disk'[k]) # wanted[k]
            => k \in failed' \cup spoilt
      <4>1. Lookup(p, s, ok)
        BY <1>1
      <4> HIDE DEF b
      <4> QED BY <4>1, LookupKeeps DEF b
    <3> QED BY <2>1, <2>2, <2>4, <3>1, <3>2
  <2> QED BY <2>3, <2>4
<1> QED BY <1>7, <1>8, <1>9 DEF Inv

(* A failed read keeps the invariant: the label it leaves is recorded in   *)
(* spoilt, and the write-back before it is like any other.                 *)
LEMMA ReadFailsInv ==
  ASSUME Inv, NEW p \in Parts, NEW s \in Sectors, ReadFails(p, s)
  PROVE  Inv'
<1>1. PICK ok \in BOOLEAN, junk \in Data :
        WriteBack(ok) /\ blk' = SpoiltBlock(FlushBlock(blk, ok), p, junk)
  BY DEF ReadFails
<1>2. blk' = [part |-> p, sector |-> blk.sector, data |-> junk,
              dirty |-> blk.dirty /\ ~(NeedsWrite(blk) /\ ok)]
  BY <1>1 DEF SpoiltBlock, FlushBlock, Inv, TypeOK, Block
<1>3. HomeOf(blk') = <<p, blk.sector>> /\ HomeOf(blk') \in spoilt'
  BY <1>2 DEF HomeOf, ReadFails
<1>4. TypeOK'
  <2>1. blk' \in Block(Parts, Sectors, Data)
    BY <1>2 DEF Block, Inv, TypeOK
  <2>2. readFaults' \in 0..MaxReadFaults
    BY CacheConstants DEF ReadFails, Inv, TypeOK
  <2>3. spoilt' \subseteq Keys
    BY DEF ReadFails, Inv, TypeOK, Block, Keys
  <2>4. asked' \in Keys
    BY DEF ReadFails, Keys
  <2> QED BY <1>1, <2>1, <2>2, <2>3, <2>4, WriteBackTypes
          DEF Inv, TypeOK, ReadFails
<1>5. CleanBlockOnDisk'
  BY <1>3 DEF CleanBlockOnDisk
<1>6. OnlyFaultsHarm'
  <2> SUFFICES ASSUME NEW k \in Keys, View'[k] # wanted'[k], k \notin spoilt'
               PROVE  k \in failed'
    BY DEF OnlyFaultsHarm
  <2>1. k # HomeOf(blk')
    BY <1>3
  <2>2. View'[k] = disk'[k]
    BY <2>1 DEF View, HomeOf
  <2> QED BY <1>1, <2>2, WriteBackKeeps DEF ReadFails
<1> QED BY <1>4, <1>5, <1>6 DEF Inv

(* Flush keeps the invariant: written or not, the block shows its sector.  *)
LEMMA FlushInv ==
  ASSUME Inv, Flush
  PROVE  Inv'
<1>1. PICK ok \in BOOLEAN :
        /\ WriteBack(ok)
        /\ blk' = FlushBlock(blk, ok)
        /\ ret' = IF ok THEN Nothing ELSE Failed
  BY DEF Flush
<1>2. /\ blk'.part = blk.part /\ blk'.sector = blk.sector
      /\ blk'.data = blk.data
      /\ blk'.dirty = (blk.dirty /\ ~(NeedsWrite(blk) /\ ok))
  BY <1>1 DEF FlushBlock, Inv, TypeOK, Block
<1>3. HomeOf(blk') = HomeOf(blk)
  BY <1>2 DEF HomeOf
<1>4. TypeOK'
  BY <1>1, WriteBackTypes, FlushTypes DEF Inv, TypeOK, Flush
<1>5. CleanBlockOnDisk'
  <2>1. CASE NeedsWrite(blk) /\ ok
    <3>1. HomeOf(blk) \in Keys
      BY <2>1 DEF NeedsWrite, HomeOf, Inv, TypeOK, Block, Keys
    <3>2. disk'[HomeOf(blk)] = blk.data
      BY <1>1, <2>1, <3>1 DEF WriteBack, FlushDisk, Inv, TypeOK
    <3> QED BY <1>2, <1>3, <3>2 DEF CleanBlockOnDisk, HomeOf
  <2>2. CASE ~(NeedsWrite(blk) /\ ok)
    <3>1. disk' = disk
      BY <1>1, <2>2 DEF WriteBack, FlushDisk
    <3> QED BY <1>2, <1>3, <2>2, <3>1
            DEF CleanBlockOnDisk, HomeOf, Inv, Flush
  <2> QED BY <2>1, <2>2
<1>6. OnlyFaultsHarm'
  <2> SUFFICES ASSUME NEW k \in Keys, View'[k] # wanted'[k]
               PROVE  k \in failed' \cup spoilt'
    BY DEF OnlyFaultsHarm
  <2>1. wanted' = wanted /\ spoilt' = spoilt
    BY DEF Flush
  <2>2. CASE blk.part # None /\ k = HomeOf(blk)
    <3>1. View'[k] = View[k]
      BY <1>2, <1>3, <2>2 DEF View, HomeOf
    <3> QED BY <1>1, <2>1, <3>1 DEF Inv, OnlyFaultsHarm, WriteBack
  <2>3. CASE ~(blk.part # None /\ k = HomeOf(blk))
    <3>1. View'[k] = disk'[k]
      BY <1>2, <1>3, <2>3 DEF View, HomeOf
    <3> QED BY <1>1, <2>1, <3>1, WriteBackKeeps
  <2> QED BY <2>2, <2>3
<1> QED BY <1>4, <1>5, <1>6 DEF Inv

(* A reset keeps the invariant: the disk becomes what is wanted.           *)
LEMMA RestartInv ==
  ASSUME Inv, Restart
  PROVE  Inv'
<1>1. blk'.part = None
  BY DEF Restart, EmptyBlock
<1>2. TypeOK'
  BY CacheConstants DEF Restart, Inv, TypeOK, EmptyBlock, Block
<1>3. OnlyFaultsHarm'
  BY <1>1 DEF OnlyFaultsHarm, View, Restart
<1> QED BY <1>1, <1>2, <1>3 DEF Inv, CleanBlockOnDisk

(* Every step keeps the invariant.                                         *)
LEMMA StepInv == Inv /\ [Next]_vars => Inv'
<1> SUFFICES ASSUME Inv, [Next]_vars PROVE Inv'
  OBVIOUS
<1>1. ASSUME NEW p \in Parts, NEW s \in Sectors, Read(p, s) PROVE Inv'
  BY <1>1, ReadInv
<1>2. ASSUME NEW p \in Parts, NEW s \in Sectors, NEW e \in Entries,
             NEW v \in Values, Write(p, s, e, v) PROVE Inv'
  BY <1>2, WriteInv
<1>3. ASSUME NEW p \in Parts, NEW s \in Sectors, ReadFails(p, s) PROVE Inv'
  BY <1>3, ReadFailsInv
<1>4. CASE Flush
  BY <1>4, FlushInv
<1>5. CASE Restart
  BY <1>5, RestartInv
<1>6. CASE UNCHANGED vars
  BY <1>6 DEF vars, Inv, TypeOK, CleanBlockOnDisk, OnlyFaultsHarm, View, HomeOf
<1> QED BY <1>1, <1>2, <1>3, <1>4, <1>5, <1>6 DEF Next

-------------------------------------------------------------------------------
(* The block and the disk stay well formed and the faults in their bounds. *)
THEOREM CacheTypeOK == Spec => []TypeOK
<1>1. Inv => TypeOK
  BY DEF Inv
<1> QED BY <1>1, InitInv, StepInv, PTL DEF Spec

(* A clean block always agrees with the sector it is labelled with, except *)
(* under the label a failed cache_read has left behind.                    *)
THEOREM CleanBlocksAgree == Spec => []CleanBlockOnDisk
<1>1. Inv => CleanBlockOnDisk
  BY DEF Inv
<1> QED BY <1>1, InitInv, StepInv, PTL DEF Spec

(* However many transfers fail, no sector loses an update or gains a value *)
(* nobody wrote, except those the faults themselves have touched.          *)
THEOREM FaultsHarmOnlyTheirSectors == Spec => []OnlyFaultsHarm
<1>1. Inv => OnlyFaultsHarm
  BY DEF Inv
<1> QED BY <1>1, InitInv, StepInv, PTL DEF Spec

(* A flush that reports success leaves nothing that only the cache holds,  *)
(* whatever has failed before.                                             *)
THEOREM FlushLeavesNothing == Spec => FlushMeansDurable
<1> DEFINE A == Flush /\ ret' = Nothing /\ HomeOf(blk) \notin spoilt
                  => disk' = View'
<1>1. Inv /\ [Next]_vars => [A]_vars
  <2> SUFFICES ASSUME Inv, Flush, ret' = Nothing, HomeOf(blk) \notin spoilt
               PROVE  disk' = View'
    OBVIOUS
  <2>1. WriteBack(TRUE) /\ blk' = FlushBlock(blk, TRUE)
    BY CacheConstants DEF Flush
  <2>2. blk \in Block(Parts, Sectors, Data) /\ disk \in [Keys -> Data]
    BY DEF Inv, TypeOK
  <2>3. blk'.part = blk.part /\ blk'.sector = blk.sector /\ blk'.data = blk.data
    BY <2>1, <2>2 DEF FlushBlock, Block
  <2>4. disk' \in [Keys -> Data]
    BY FlushTypes, <2>1 DEF Inv, WriteBack
  <2>5. blk.part # None => blk.data = disk'[HomeOf(blk)]
    BY <2>1, <2>2 DEF WriteBack, FlushDisk, NeedsWrite, HomeOf, Keys, Block,
                      Inv, CleanBlockOnDisk
  <2> QED
    BY <2>3, <2>4, <2>5 DEF View, HomeOf
<1>2. Spec => []Inv
  BY InitInv, StepInv, PTL DEF Spec
<1>3. Spec => [][A]_vars
  <2> HIDE DEF A
  <2> QED
    BY <1>1, <1>2, PTL DEF Spec
<1> QED
  BY <1>3, PTL DEF FlushMeansDurable

-------------------------------------------------------------------------------
(* The rest concerns the steps before the first fault.                     *)
NoHarm == Inv /\ Faultless /\ failed = {} /\ spoilt = {}
NoHarmYet == Inv /\ (Faultless => NoHarm)

(* A write-back that has not failed keeps the counter, one that has does   *)
(* not go back to zero.                                                    *)
LEMMA WriteBackCounts ==
  ASSUME Inv, NEW ok \in BOOLEAN, WriteBack(ok), writeFaults' = 0
  PROVE  ok /\ writeFaults = 0
BY DEF WriteBack, Inv, TypeOK

(* The counters of faults never go back to zero.                           *)
LEMMA FaultlessBefore ==
  ASSUME Inv, [Next]_vars, Faultless'
  PROVE  Faultless
<1>1. ASSUME NEW p \in Parts, NEW s \in Sectors, NEW ok \in BOOLEAN,
             Lookup(p, s, ok)
      PROVE  writeFaults = 0
  BY <1>1, WriteBackCounts DEF Lookup, Faultless
<1>2. ASSUME NEW p \in Parts, NEW s \in Sectors, Read(p, s)
      PROVE  Faultless
  BY <1>1, <1>2 DEF Read, Faultless
<1>3. ASSUME NEW p \in Parts, NEW s \in Sectors, NEW e \in Entries,
             NEW v \in Values, Write(p, s, e, v)
      PROVE  Faultless
  BY <1>1, <1>3 DEF Write, Faultless
<1>4. ASSUME NEW p \in Parts, NEW s \in Sectors, ReadFails(p, s)
      PROVE  FALSE
  BY <1>4 DEF ReadFails, Faultless, Inv, TypeOK
<1>5. CASE Flush
  BY <1>5, WriteBackCounts DEF Flush, Faultless
<1>6. CASE Restart \/ UNCHANGED vars
  BY <1>6 DEF Restart, vars, Faultless
<1> QED BY <1>2, <1>3, <1>4, <1>5, <1>6 DEF Next

(* Without faults the histories of harm stay empty.                        *)
LEMMA NoHarmStep ==
  ASSUME NoHarm, [Next]_vars, Faultless'
  PROVE  NoHarm'
<1>1. Inv'
  BY StepInv DEF NoHarm
<1>2. ASSUME NEW ok \in BOOLEAN, WriteBack(ok) PROVE ok /\ failed' = {}
  <2>1. ok
    BY <1>2, WriteBackCounts DEF Faultless, NoHarm
  <2> QED BY <1>2, <2>1 DEF WriteBack, NoHarm
<1>3. failed' = {}
  <2>1. ASSUME NEW p \in Parts, NEW s \in Sectors, NEW ok \in BOOLEAN,
               Lookup(p, s, ok)
        PROVE  failed' = {}
    BY <1>2, <2>1 DEF Lookup, NoHarm
  <2>2. ASSUME NEW p \in Parts, NEW s \in Sectors, Read(p, s)
        PROVE  failed' = {}
    BY <2>1, <2>2 DEF Read
  <2>3. ASSUME NEW p \in Parts, NEW s \in Sectors, NEW e \in Entries,
               NEW v \in Values, Write(p, s, e, v)
        PROVE  failed' = {}
    BY <2>1, <2>3 DEF Write
  <2>4. ASSUME NEW p \in Parts, NEW s \in Sectors, ReadFails(p, s)
        PROVE  failed' = {}
    BY <1>2, <2>4 DEF ReadFails
  <2>5. CASE Flush
    BY <1>2, <2>5 DEF Flush
  <2>6. CASE Restart \/ UNCHANGED vars
    BY <2>6 DEF Restart, vars, NoHarm
  <2> QED BY <2>2, <2>3, <2>4, <2>5, <2>6 DEF Next
<1>4. spoilt' = {}
  <2>1. ~ \E p \in Parts, s \in Sectors : ReadFails(p, s)
    BY DEF ReadFails, Faultless, NoHarm, Inv, TypeOK
  <2> QED BY <2>1 DEF Next, Read, Write, Flush, Restart, vars, NoHarm
<1> QED BY <1>1, <1>3, <1>4 DEF NoHarm

(* Without harm the contents seen through the cache are the ones wanted.   *)
LEMMA ViewIsWanted ==
  ASSUME NoHarm
  PROVE  View = wanted /\ View \in [Keys -> Data]
<1>1. \A k \in Keys : View[k] = wanted[k]
  BY DEF NoHarm, Inv, OnlyFaultsHarm
<1>2. View = wanted
  BY <1>1 DEF View, NoHarm, Inv, TypeOK
<1> QED BY <1>2 DEF NoHarm, Inv, TypeOK

(* The same of the state after a step.                                     *)
LEMMA ViewIsWantedNext ==
  ASSUME NoHarm'
  PROVE  View' = wanted'
<1>1. \A k \in Keys : View'[k] = wanted'[k]
  BY DEF NoHarm, Inv, OnlyFaultsHarm
<1> QED BY <1>1 DEF View, NoHarm, Inv, TypeOK

(* The write in cache_flush is a spill of the store.                       *)
LEMMA WriteBackSpills ==
  ASSUME NoHarm, NEW ok \in BOOLEAN, WriteBack(ok)
  PROVE  \/ disk' = disk
         \/ \E k \in Keys : disk' = [disk EXCEPT ![k] = View[k]]
<1>1. CASE NeedsWrite(blk) /\ ok
  <2>1. HomeOf(blk) \in Keys
    BY <1>1 DEF NeedsWrite, HomeOf, NoHarm, Inv, TypeOK, Block, Keys
  <2>2. View[HomeOf(blk)] = blk.data
    BY <1>1, <2>1 DEF View, NeedsWrite
  <2>3. disk' = [disk EXCEPT ![HomeOf(blk)] = View[HomeOf(blk)]]
    BY <1>1, <2>2 DEF WriteBack, FlushDisk
  <2> QED BY <2>1, <2>3
<1>2. CASE ~(NeedsWrite(blk) /\ ok)
  BY <1>2 DEF WriteBack, FlushDisk
<1> QED BY <1>1, <1>2

(* A read is a Get of the store.                                           *)
LEMMA ReadIsGet ==
  ASSUME NoHarm, NoHarm', NEW p \in Parts, NEW s \in Sectors, Read(p, s)
  PROVE  Store!Get(<<p, s>>)
<1>1. PICK ok \in BOOLEAN : Lookup(p, s, ok) /\ blk' = Resident(p, s, ok)
  BY DEF Read
<1>2. View' = View
  <2>1. View = wanted
    BY ViewIsWanted
  <2>2. View' = wanted'
    BY ViewIsWantedNext
  <2> QED BY <2>1, <2>2 DEF Read
<1>3. blk'.part = p /\ blk'.sector = s /\ blk'.part # None
  BY <1>1, LookupTypes, CacheConstants DEF NoHarm, Inv
<1>4. <<p, s>> \in Keys /\ <<p, s>> = HomeOf(blk')
  BY <1>3 DEF Keys, HomeOf
<1>5. ret' = View'[<<p, s>>]
  BY <1>3, <1>4 DEF View, Read, HomeOf
<1>6. \/ disk' = disk
      \/ \E k \in Keys : disk' = [disk EXCEPT ![k] = View[k]]
  BY <1>1, WriteBackSpills DEF Lookup
<1> QED BY <1>2, <1>5, <1>6 DEF Store!Get, Store!Spill, Read

(* A change of an entry is a Put of the store.                             *)
LEMMA WriteIsPut ==
  ASSUME NoHarm, NoHarm', NEW p \in Parts, NEW s \in Sectors,
         NEW e \in Entries, NEW v \in Values, Write(p, s, e, v)
  PROVE  Store!Put(<<p, s>>, e, v)
<1>1. View' = wanted' /\ View = wanted
  <2>1. View = wanted
    BY ViewIsWanted
  <2>2. View' = wanted'
    BY ViewIsWantedNext
  <2> QED BY <2>1, <2>2
<1>2. View' = [View EXCEPT ![<<p, s>>] = [@ EXCEPT ![e] = v]]
  BY <1>1 DEF Write
<1>3. PICK ok \in BOOLEAN : Lookup(p, s, ok)
  BY DEF Write
<1>4. \/ disk' = disk
      \/ \E k \in Keys : disk' = [disk EXCEPT ![k] = View[k]]
  BY <1>3, WriteBackSpills DEF Lookup
<1> QED BY <1>2, <1>4 DEF Store!Put, Store!Spill, Write

(* A flush is a Sync of the store.                                         *)
LEMMA FlushIsSync ==
  ASSUME NoHarm, NoHarm', Flush
  PROVE  Store!Sync
<1>1. WriteBack(TRUE) /\ blk' = FlushBlock(blk, TRUE) /\ ret' = Nothing
  BY WriteBackCounts DEF Flush, Faultless, NoHarm
<1>2. View' = View
  BY ViewIsWanted, ViewIsWantedNext DEF Flush
<1>3. /\ blk'.part = blk.part /\ blk'.sector = blk.sector
      /\ blk'.data = blk.data
      /\ blk'.dirty = (blk.dirty /\ ~NeedsWrite(blk))
  BY <1>1 DEF FlushBlock, NoHarm, Inv, TypeOK, Block
<1>4. ASSUME NEW k \in Keys PROVE disk'[k] = View'[k]
  <2>1. CASE blk'.part # None /\ k = HomeOf(blk')
    <3>1. ~blk'.dirty
      BY <1>3, <2>1 DEF NeedsWrite
    <3> QED BY <2>1, <3>1 DEF NoHarm, Inv, CleanBlockOnDisk, View, HomeOf
  <2>2. CASE ~(blk'.part # None /\ k = HomeOf(blk'))
    BY <2>2 DEF View, HomeOf
  <2> QED BY <2>1, <2>2
<1>5. disk' = View'
  BY <1>4 DEF NoHarm, Inv, TypeOK, View
<1>6. asked' = Nothing
  BY DEF Flush
<1> QED BY <1>1, <1>2, <1>5, <1>6 DEF Store!Sync

(* A reset is a power cut of the store.                                    *)
LEMMA RestartIsPowerCut ==
  ASSUME NoHarm, NoHarm', Restart
  PROVE  Store!PowerCut
<1>1. View' = disk
  BY ViewIsWantedNext DEF Restart
<1> QED BY <1>1 DEF Store!PowerCut, Restart

(* Until the first fault CACHE.C cannot be told from a plain store of      *)
(* sectors of which a power cut may lose what has not been flushed.        *)
THEOREM CacheImplementsStore == Spec => StoreSpec
<1>1. Init => NoHarmYet /\ Store!Init
  <2> SUFFICES ASSUME Init PROVE NoHarmYet /\ Store!Init
    OBVIOUS
  <2>1. NoHarm
    BY InitInv DEF NoHarm, Init, Faultless
  <2>2. View = disk /\ ret = Nothing /\ asked = Nothing
    BY <2>1, ViewIsWanted DEF Init
  <2>3. Store!Init
    BY <2>1, <2>2, ViewIsWanted DEF Store!Init, Data
  <2> QED BY <2>1, <2>3, InitInv DEF NoHarmYet
<1>2. NoHarmYet /\ [Next]_vars => NoHarmYet'
  BY StepInv, FaultlessBefore, NoHarmStep DEF NoHarmYet
<1>3. NoHarmYet /\ NoHarmYet' /\ [Next]_vars
        => (Faultless' => [Store!Next]_(Store!vars))
  <2> SUFFICES ASSUME NoHarmYet, NoHarmYet', [Next]_vars, Faultless'
               PROVE  [Store!Next]_(Store!vars)
    OBVIOUS
  <2>0. NoHarm /\ NoHarm'
    BY FaultlessBefore DEF NoHarmYet
  <2>1. ASSUME NEW p \in Parts, NEW s \in Sectors, Read(p, s)
        PROVE  Store!Next
    BY <2>0, <2>1, ReadIsGet DEF Store!Next, Keys
  <2>2. ASSUME NEW p \in Parts, NEW s \in Sectors, NEW e \in Entries,
               NEW v \in Values, Write(p, s, e, v)
        PROVE  Store!Next
    BY <2>0, <2>2, WriteIsPut DEF Store!Next, Keys
  <2>3. ~ \E p \in Parts, s \in Sectors : ReadFails(p, s)
    BY DEF ReadFails, Faultless, NoHarmYet, Inv, TypeOK
  <2>4. CASE Flush
    BY <2>0, <2>4, FlushIsSync DEF Store!Next
  <2>5. CASE Restart
    BY <2>0, <2>5, RestartIsPowerCut DEF Store!Next
  <2>6. CASE UNCHANGED vars
    BY <2>0, <2>6, ViewIsWanted, ViewIsWantedNext DEF vars, Store!vars
  <2> QED BY <2>1, <2>2, <2>3, <2>4, <2>5, <2>6 DEF Next
<1> QED BY <1>1, <1>2, <1>3, PTL DEF Spec, StoreSpec
===============================================================================
