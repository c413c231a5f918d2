----------------------------- MODULE MCSectorCache -----------------------------
(* Two partitions of two sectors, each sector one entry: a block can move   *)
(* between the sectors of one partition and between equal sectors of two.   *)
EXTENDS SectorCache
CONSTANTS p1, p2
MCParts == {p1, p2}
MCSectors == {0, 1}
MCEntries == {1}
MCValues == {"free", "bad"}
MCZero == [e \in MCEntries |-> "free"]
MCBlank == {MCZero}
===============================================================================
