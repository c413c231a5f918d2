------------------------------ MODULE SectorStore ------------------------------
(***************************************************************************)
(* What the FAT code expects of the sector cache: a store that returns the *)
(* last value put, of which only a part need be on the disk.  A power cut  *)
(* goes back to the durable contents; Sync makes everything durable.       *)
(***************************************************************************)
CONSTANTS Keys, Entries, Values, Nothing
VARIABLES store, durable,
          asked, ret   \* the last call: its sector and its result

(* Any operation may write one key back on the way.                        *)
Spill == \/ durable' = durable
         \/ \E k \in Keys : durable' = [durable EXCEPT ![k] = store[k]]

Init == /\ store \in [Keys -> [Entries -> Values]]
        /\ durable = store
        /\ asked = Nothing /\ ret = Nothing

Get(k) == /\ asked' = k /\ ret' = store[k]
          /\ Spill
          /\ UNCHANGED store

Put(k, e, v) == /\ store' = [store EXCEPT ![k] = [@ EXCEPT ![e] = v]]
                /\ asked' = k /\ ret' = Nothing
                /\ Spill

Sync == /\ durable' = store
        /\ asked' = Nothing /\ ret' = Nothing
        /\ UNCHANGED store

PowerCut == /\ store' = durable
            /\ asked' = Nothing /\ ret' = Nothing
            /\ UNCHANGED durable

Next == \/ \E k \in Keys : Get(k)
        \/ \E k \in Keys, e \in Entries, v \in Values : Put(k, e, v)
        \/ Sync
        \/ PowerCut

vars == <<store, durable, asked, ret>>

Spec == Init /\ [][Next]_vars
===============================================================================
