------------------------------ MODULE MCFatFormat ------------------------------
(* A sector of 8 bytes: FAT-12 entry 5 straddles two sectors, FAT-16 and    *)
(* FAT-32 tables have several sectors.                                      *)
EXTENDS FatFormat
CONSTANTS row

L12 == [base |-> 1, total |-> 12, width |-> 3, res |-> 1, fat |-> 2,
        root |-> 1, clust |-> 1]
L16 == [base |-> 1, total |-> 11, width |-> 4, res |-> 1, fat |-> 2,
        root |-> 1, clust |-> 2]
L32 == [base |-> 1, total |-> 18, width |-> 8, res |-> 9, fat |-> 3,
        root |-> 0, clust |-> 1]

Few(S, n) == {M \in SUBSET S : Cardinality(M) <= n}

FirstLayouts == {L12, L16, L32}
DataOf(L) == {L.base + s : s \in NonData(L)..L.total - 1}
FirstMedia == Few(DataOf(L12), 3) \cup Few(DataOf(L16), 3) \cup Few(DataOf(L32), 3)

OneLayout == {L12}
OneMedia == Few(DataOf(L12), 3)
===============================================================================
