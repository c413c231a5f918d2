--------------------------- MODULE MCProcessSectors ---------------------------
(* Ranges on a disk of sixteen sectors, of which some wrap and some are so *)
(* long that curr_sect does, with tracks of one to four sectors (sixteen   *)
(* is a multiple of four and not of three) and up to two unreadable        *)
(* sectors anywhere.                                                       *)
EXTENDS ProcessSectors, FiniteSets

SmallBadSets == {b \in SUBSET (0 .. Modulus - 1) : Cardinality(b) <= 2}
===============================================================================
