------------------------- MODULE BootRecordSetupProofs -------------------------
(***************************************************************************)
(* For all volumes, field widths and limits, labels and any number of      *)
(* edits and failing transfers: the screens keep every number within its   *)
(* field, and what is left on the disk is what the screen has shown.       *)
(***************************************************************************)
EXTENDS BootRecordSetup, WellFoundedInduction, TLAPS

(* A set of natural numbers has a least member.                            *)
LEMMA LeastExists ==
  ASSUME NEW S, S \subseteq Nat, S # {}
  PROVE  \E x \in S : \A y \in S : x <= y
  <1>1. \E x \in S : \A y \in S : ~(<<y, x>> \in OpToRel(<, Nat))
    BY WFMin, NatLessThanWellFounded
  <1>2. \A x, y \in S : ~(<<y, x>> \in OpToRel(<, Nat)) => x <= y
    BY DEF OpToRel
  <1> QED
    BY <1>1, <1>2

(* A record whose numbers fit their fields.                                *)
Fitting(r) == r \in BootRecord /\ \A f \in Fields : r.num[f] < Widths[f]

-------------------------------------------------------------------------------
(* A field edited key by key never grows past its limit.                   *)
LEMMA TypedInRange ==
  ASSUME NEW n \in Nat, NEW limit \in Nat, NEW w \in Nat,
         n < w, limit < w, NEW m \in Typed(n, limit)
  PROVE  m \in Nat /\ m < w
  <1>1. CASE m = n \div 10
    BY <1>1
  <1>2. CASE n < limit /\ m = n + 1
    BY <1>2
  <1>3. CASE n > 0 /\ m = n - 1
    BY <1>3
  <1>4. ASSUME NEW d \in Digits, limit >= d, n <= (limit - d) \div 10,
               m = 10 * n + d
        PROVE  m \in Nat /\ m < w
    <2>1. d \in 0 .. 9
      BY SetupConstants
    <2>2. 10 * n <= limit - d
      BY <1>4, <2>1
    <2> QED
      BY <1>4, <2>1, <2>2
  <1> QED
    BY <1>1, <1>2, <1>3, <1>4 DEF Typed

(* The label goes to the first entry of its kind that is searched.         *)
LEMMA PlaceIsFirst ==
  ASSUME NEW v \in Volumes, NEW d, LabelPlace(v, d) # 0
  PROVE  LET K == {"end", "label", "goneLabel"}
             i == LabelPlace(v, d)
         IN  /\ i \in 1 .. v.searched /\ d[i].kind \in K
             /\ \A j \in 1 .. v.searched : j < i => d[j].kind \notin K
  <1> DEFINE K == {"end", "label", "goneLabel"}
             P == {i \in 1 .. v.searched : d[i].kind \in K}
  <1>1. v.searched \in Nat
    BY SetupConstants DEF Volume
  <1>2. P # {} /\ LabelPlace(v, d) = CHOOSE i \in P : \A j \in P : i <= j
    BY DEF LabelPlace
  <1>3. P \subseteq Nat
    BY <1>1
  <1>4. \E i \in P : \A j \in P : i <= j
    <2> HIDE DEF P
    <2> QED
      BY <1>2, <1>3, LeastExists
  <1>5. LabelPlace(v, d) \in P /\ \A j \in P : LabelPlace(v, d) <= j
    <2> HIDE DEF P
    <2> QED
      BY <1>2, <1>4
  <1> QED
    BY <1>1, <1>5

(* Writing the label changes one entry of the directory, or none.          *)
LEMMA LabelledTypes ==
  ASSUME NEW v \in Volumes, NEW d \in Seq(Entry), Len(d) = Len(v.dir),
         NEW l \in Labels, LabelPlace(v, d) # 0
  PROVE  /\ Labelled(d, LabelPlace(v, d), l) \in Seq(Entry)
         /\ Len(Labelled(d, LabelPlace(v, d), l)) = Len(v.dir)
  <1> DEFINE i == LabelPlace(v, d)
  <1>1. i \in 1 .. Len(d)
    <2>1. i \in 1 .. v.searched /\ v.searched <= Len(v.dir)
      BY PlaceIsFirst, SetupConstants
    <2>2. v.searched \in Nat /\ Len(v.dir) \in Nat
      BY SetupConstants DEF Volume
    <2> QED
      BY <2>1, <2>2
  <1> HIDE DEF i
  <1>2. d[i] \in Entry
    BY <1>1
  <1>3. /\ [d[i] EXCEPT !.kind = "goneLabel"] \in Entry
        /\ EndEntry \in Entry
        /\ [kind |-> "label", name |-> l] \in Entry
    BY <1>2 DEF Entry, EntryKinds, EndEntry, Labels
  <1>4. \/ Labelled(d, i, l) = d
        \/ \E e \in Entry : Labelled(d, i, l) = [d EXCEPT ![i] = e]
    <2>1. [d EXCEPT ![i].kind = "goneLabel"]
            = [d EXCEPT ![i] = [d[i] EXCEPT !.kind = "goneLabel"]]
      OBVIOUS
    <2>2. \/ Labelled(d, i, l) = d
          \/ Labelled(d, i, l) = [d EXCEPT ![i].kind = "goneLabel"]
          \/ Labelled(d, i, l) = [d EXCEPT ![i] = EndEntry]
          \/ Labelled(d, i, l) = [d EXCEPT ![i] = [kind |-> "label", name |-> l]]
      BY DEF Labelled
    <2> QED
      BY <1>3, <2>1, <2>2
  <1>5. \A e \in Entry : /\ [d EXCEPT ![i] = e] \in Seq(Entry)
                         /\ Len([d EXCEPT ![i] = e]) = Len(d)
    BY <1>1
  <1> QED
    BY <1>4, <1>5 DEF i

-------------------------------------------------------------------------------
LEMMA InitType == Init => TypeOK
  <1> SUFFICES ASSUME Init PROVE TypeOK
    OBVIOUS
  <1>1. vol \in Volume /\ \A f \in Fields : vol.record.num[f] < Widths[f]
    BY SetupConstants DEF Init
  <1>2. vol.record \in BootRecord /\ vol.dir \in Seq(Entry)
    BY <1>1 DEF Volume
  <1>3. \A r \in {boot, backup, b, orig} : r = vol.record
    BY DEF Init
  <1>4. \A r \in {boot, backup, b, orig} :
          r \in BootRecord /\ \A f \in Fields : r.num[f] < Widths[f]
    BY <1>1, <1>2, <1>3
  <1>5. open \in BOOLEAN /\ status \in {"none", "saved", "failed"}
    BY DEF Init
  <1>6. keys \in 0 .. MaxKeys /\ faults \in 0 .. MaxFaults
    BY SetupConstants DEF Init
  <1>7. vol \in Volumes /\ dir \in Seq(Entry) /\ Len(dir) = Len(vol.dir)
    BY <1>2 DEF Init
  <1> QED
    BY <1>4, <1>5, <1>6, <1>7 DEF TypeOK

(* What TypeOK says of the records, in one word.                           *)
LEMMA RecordsFit ==
  ASSUME TypeOK
  PROVE  /\ Fitting(boot) /\ Fitting(backup) /\ Fitting(b) /\ Fitting(orig)
         /\ vol \in Volumes /\ vol \in Volume
  BY SetupConstants DEF TypeOK, Fitting

(* Every key of the screen leaves a record that fits.                      *)
LEMMA EditNumberFits ==
  ASSUME TypeOK, NEW f \in Editable(vol),
         NEW n \in Typed(b.num[f], Limits[vol.kind][f])
  PROVE  Fitting([b EXCEPT !.num[f] = n])
  <1>1. f \in Fields /\ vol.kind \in {16, 32} /\ Fitting(b)
    BY RecordsFit DEF Editable, Volume
  <1>2. /\ b.num[f] \in Nat /\ b.num[f] < Widths[f]
        /\ Limits[vol.kind][f] \in Nat /\ Widths[f] \in Nat
        /\ Limits[vol.kind][f] < Widths[f]
    BY <1>1, SetupConstants DEF Fitting, BootRecord
  <1>3. n \in Nat /\ n < Widths[f]
    BY <1>2, TypedInRange
  <1> QED
    BY <1>1, <1>3 DEF Fitting, BootRecord

LEMMA EditLabelFits ==
  ASSUME TypeOK, NEW raw \in RawLabels
  PROVE  Fitting([b EXCEPT !.label = Canonical(vol, raw)])
  <1>1. Canonical(vol, raw) \in Labels
    BY DEF Canonical, Labels
  <1> QED
    BY <1>1, RecordsFit DEF Fitting, BootRecord

LEMMA SetExpectedFits ==
  ASSUME TypeOK, NEW set
  PROVE  Fitting([b EXCEPT
           !.num = [f \in Fields |-> IF f \in set THEN vol.expected[f]
                                     ELSE b.num[f]],
           !.magic = TRUE])
  <1>1. \A f \in Fields : vol.expected[f] \in Nat /\ vol.expected[f] < Widths[f]
    BY RecordsFit, SetupConstants DEF Volume
  <1> QED
    BY <1>1, RecordsFit DEF Fitting, BootRecord

LEMMA FixCodeFits ==
  ASSUME TypeOK
  PROVE  Fitting([b EXCEPT !.code = TRUE])
  BY RecordsFit DEF Fitting, BootRecord

LEMMA EditKeepsTypes ==
  ASSUME TypeOK, NEW r, Fitting(r), Edit(r)
  PROVE  TypeOK'
  BY SetupConstants DEF TypeOK, Edit, Fitting

LEMMA SaveKeepsTypes == TypeOK /\ Save => TypeOK'
  <1> SUFFICES ASSUME TypeOK, Save PROVE TypeOK'
    OBVIOUS
  <1>0. UNCHANGED <<vol, open, b, keys>>
    BY DEF Save
  <1>1. /\ boot' \in {boot, b} /\ backup' \in {backup, b}
        /\ orig' \in {orig, b}
        /\ status' \in {"saved", "failed"}
        /\ faults' \in {faults, faults + 1}
        /\ faults' = faults + 1 => faults < MaxFaults
    <2>1. CASE RecordFails
      BY <2>1, SetupConstants DEF RecordFails, Fault, TypeOK
    <2>2. CASE LabelFails \/ LabelWritten \/ LabelElsewhere
      BY <2>2, SetupConstants DEF LabelFails, LabelWritten, LabelElsewhere,
                                  RecordWritten, Fault, TypeOK
    <2> QED
      BY <2>1, <2>2 DEF Save
  <1>2. dir' \in Seq(Entry) /\ Len(dir') = Len(vol.dir)
    <2>1. dir' = dir \/ (LabelPlace(vol, dir) # 0
                         /\ dir' = Labelled(dir, LabelPlace(vol, dir), b.label))
      BY DEF Save, RecordFails, LabelFails, LabelWritten, LabelElsewhere
    <2>2. b.label \in Labels /\ vol \in Volumes
      BY RecordsFit DEF Fitting, BootRecord
    <2> QED
      BY <2>1, <2>2, LabelledTypes DEF TypeOK
  <1>3. faults' \in 0 .. MaxFaults
    BY <1>1, SetupConstants DEF TypeOK
  <1> QED
    BY <1>0, <1>1, <1>2, <1>3 DEF TypeOK

LEMMA TypeStep == TypeOK /\ [Next]_vars => TypeOK'
  <1> SUFFICES ASSUME TypeOK, [Next]_vars PROVE TypeOK'
    OBVIOUS
  <1>1. CASE Open
    <2>1. /\ b' \in {b, boot} /\ orig' \in {orig, boot}
          /\ status' \in {"none", "saved", "failed"}
          /\ UNCHANGED <<vol, boot, backup, dir, keys>>
      BY <1>1 DEF Open, TypeOK
    <2>2. open' \in BOOLEAN
      BY <1>1, Zenon DEF Open, TypeOK
    <2>3. faults' = faults \/ (faults < MaxFaults /\ faults' = faults + 1)
      BY <1>1 DEF Open, Fault
    <2>4. faults' \in 0 .. MaxFaults
      BY <2>3, SetupConstants DEF TypeOK
    <2> QED
      BY <2>1, <2>2, <2>4 DEF TypeOK
  <1>2. CASE EditNumber
    BY <1>2, EditNumberFits, EditKeepsTypes DEF EditNumber
  <1>3. CASE EditLabel
    BY <1>3, EditLabelFits, EditKeepsTypes DEF EditLabel
  <1>4. CASE SetExpected
    BY <1>4, SetExpectedFits, EditKeepsTypes DEF SetExpected
  <1>5. CASE FixCode
    BY <1>5, FixCodeFits, EditKeepsTypes DEF FixCode
  <1>6. CASE Undo
    BY <1>6 DEF Undo, TypeOK
  <1>7. CASE Save
    BY <1>7, SaveKeepsTypes
  <1>8. CASE Leave
    BY <1>8 DEF Leave, TypeOK
  <1>9. CASE UNCHANGED vars
    BY <1>9 DEF vars, TypeOK
  <1> QED
    BY <1>1, <1>2, <1>3, <1>4, <1>5, <1>6, <1>7, <1>8, <1>9 DEF Next

(* Whatever is typed, expected, saved or fails: the numbers of the record  *)
(* shown, saved and on the disk stay within the widths of their fields,    *)
(* and the directory keeps its length.                                     *)
THEOREM SetupTypeOK == Spec => []TypeOK
  BY InitType, TypeStep, PTL DEF Spec

-------------------------------------------------------------------------------
(* A step of F2 leaves the record and the backup in one of three ways; the *)
(* mixed one, a record without its backup or without its label, is         *)
(* reported.                                                               *)
LEMMA SaveOutcomes ==
  ASSUME TypeOK, Save
  PROVE  /\ UNCHANGED <<vol, open, b>> /\ open
         /\ \/ status' = "failed" /\ orig' = orig
            \/ /\ status' = "saved" /\ boot' = b /\ orig' = b
               /\ vol.kind = 32 => backup' = b
  BY DEF Save, RecordFails, LabelFails, LabelWritten, LabelElsewhere,
         RecordWritten, TypeOK

LEMMA LeavesStep ==
  TypeOK /\ LeavesWhatIsShown /\ [Next]_vars => LeavesWhatIsShown'
  <1> SUFFICES ASSUME TypeOK, LeavesWhatIsShown, [Next]_vars
               PROVE  LeavesWhatIsShown'
    OBVIOUS
  <1>1. CASE Open
    BY <1>1 DEF Open, LeavesWhatIsShown
  <1>2. CASE EditNumber \/ EditLabel \/ SetExpected \/ FixCode
    <2>1. PICK r : Edit(r)
      BY <1>2 DEF EditNumber, EditLabel, SetExpected, FixCode
    <2> QED
      BY <2>1 DEF Edit, LeavesWhatIsShown
  <1>3. CASE Undo
    BY <1>3 DEF Undo, LeavesWhatIsShown
  <1>4. CASE Save
    BY <1>4, SaveOutcomes DEF LeavesWhatIsShown
  <1>5. CASE Leave
    BY <1>5 DEF Leave, Changed, LeavesWhatIsShown
  <1>6. CASE UNCHANGED vars
    BY <1>6 DEF vars, LeavesWhatIsShown
  <1> QED
    BY <1>1, <1>2, <1>3, <1>4, <1>5, <1>6 DEF Next

(* On every volume, after any edits, saves, failures and undone edits: the *)
(* record on the disk is the one that is taken for saved, the backup of a  *)
(* FAT-32 volume follows it, and leaving the screen loses nothing -- but   *)
(* for what a save that failed has reported.                               *)
THEOREM SetupLeavesWhatIsShown == Spec => []LeavesWhatIsShown
  <1>1. Init => LeavesWhatIsShown
    BY DEF Init, LeavesWhatIsShown
  <1> QED
    BY <1>1, SetupTypeOK, LeavesStep, PTL DEF Spec
-------------------------------------------------------------------------------
(* The first entry of its kind is the place of the label.                  *)
LEMMA PlaceOfFirst ==
  ASSUME NEW v \in Volumes, NEW d, NEW i \in 1 .. v.searched,
         d[i].kind \in {"end", "label", "goneLabel"},
         \A j \in 1 .. v.searched :
           j < i => d[j].kind \notin {"end", "label", "goneLabel"}
  PROVE  LabelPlace(v, d) = i
  <1> DEFINE K == {"end", "label", "goneLabel"}
             P == {j \in 1 .. v.searched : d[j].kind \in K}
  <1>1. v.searched \in Nat
    BY SetupConstants DEF Volume
  <1>2. i \in P /\ \A j \in P : i <= j
    BY <1>1
  <1>3. \A k \in P : (\A j \in P : k <= j) => k = i
    BY <1>1, <1>2
  <1>4. LabelPlace(v, d) = CHOOSE k \in P : \A j \in P : k <= j
    BY <1>2 DEF LabelPlace
  <1> QED
    <2> HIDE DEF P
    <2> QED
      BY <1>2, <1>3, <1>4

(* What a save makes of a tidy directory: it stays tidy, every file is     *)
(* where it was, and the only label is the one that was saved.             *)
LEMMA LabelledTidily ==
  ASSUME NEW v \in Volumes, NEW d \in Seq(Entry), Len(d) = Len(v.dir),
         Tidy(d, v.searched), NEW l, l # Zero, LabelPlace(v, d) # 0
  PROVE  LET e == Labelled(d, LabelPlace(v, d), l)
         IN  /\ Tidy(e, v.searched)
             /\ Files(e) = Files(d)
             /\ VolumeLabels(e) =
                  IF l = NoName THEN {}
                  ELSE {<<LabelPlace(v, e), [kind |-> "label", name |-> l]>>}
  <1> DEFINE K == {"end", "label", "goneLabel"}
             F == {"file", "long"}
             i == LabelPlace(v, d)
             e == Labelled(d, i, l)
             n == v.searched
  <1>1. n \in Nat /\ Len(d) \in Nat /\ n <= Len(d)
    BY SetupConstants DEF Volume
  <1>2. /\ i \in 1 .. n /\ d[i].kind \in K
        /\ \A j \in 1 .. n : j < i => d[j].kind \notin K
    BY PlaceIsFirst
  <1>3. i \in 1 .. Len(d) /\ DOMAIN d = 1 .. Len(d)
    BY <1>1, <1>2
  <1>4. \A j \in 1 .. Len(d) : j # i => d[j].kind # "label"
    <2> SUFFICES ASSUME NEW j \in 1 .. Len(d), j # i PROVE d[j].kind # "label"
      OBVIOUS
    <2>1. CASE j < i
      BY <2>1, <1>1, <1>2
    <2>2. CASE i < j
      BY <2>2, <1>2, <1>3 DEF Tidy
    <2> QED
      BY <2>1, <2>2, <1>3
  <1>5. d[i].kind = "end" => \A j \in 1 .. Len(d) : i < j => d[j].kind = "end"
    BY <1>3 DEF Tidy
  <1>6. d[i] \in Entry
    BY <1>3
  <1> HIDE DEF i
  <1>7. /\ Len(e) = Len(d)
        /\ \A j \in 1 .. Len(d) : j # i => e[j] = d[j]
        /\ l = NoName /\ d[i].kind = "end" => e = d
        /\ l = NoName /\ d[i].kind # "end" => e[i].kind = "goneLabel"
        /\ l # NoName => e[i] = [kind |-> "label", name |-> l]
    BY <1>3, <1>6 DEF Labelled, Entry
  <1> HIDE DEF e
  <1>8. e[i].kind = "end" => d[i].kind = "end" /\ l = NoName
    BY <1>7
  <1>9. /\ l # NoName => e[i].kind = "label"
        /\ l = NoName => e[i].kind \in {"goneLabel", "end"}
    BY <1>7
  <1>10. \A j \in 1 .. Len(d) : e[j].kind = "label" => j = i /\ l # NoName
    BY <1>4, <1>7, <1>9
  <1>11. Tidy(e, n)
    <2>1. ASSUME NEW j \in 1 .. Len(d), NEW k \in 1 .. Len(d), j < k,
                 e[j].kind \in {"label", "goneLabel"}
          PROVE  e[k].kind # "label"
      <3> SUFFICES ASSUME k = i PROVE FALSE
        BY <1>10
      <3>1. d[j].kind \in {"label", "goneLabel"}
        BY <2>1, <1>7
      <3> QED
        BY <3>1, <2>1, <1>1, <1>2
    <2>2. ASSUME NEW j \in 1 .. Len(d), NEW k \in 1 .. Len(d), j < k,
                 e[j].kind = "end"
          PROVE  e[k].kind = "end"
      <3>1. CASE j = i
        BY <3>1, <2>2, <1>7, <1>8, <1>5
      <3>2. CASE j # i
        <4>1. d[j].kind = "end" /\ d[k].kind = "end"
          BY <3>2, <2>2, <1>7 DEF Tidy
        <4>2. i < j
          BY <4>1, <3>2, <1>1, <1>2, <1>3
        <4> QED
          BY <4>1, <4>2, <2>2, <1>3, <1>7
      <3> QED
        BY <3>1, <3>2
    <2>3. \A j \in n + 1 .. Len(d) : e[j].kind # "label"
      BY <1>1, <1>2, <1>10
    <2> QED
      BY <2>1, <2>2, <2>3, <1>7 DEF Tidy
  <1>12. ASSUME NEW j \in 1 .. Len(d), j # i
         PROVE  /\ e[j] = d[j]
                /\ (j \in Visible(e) /\ e[j].kind \in F)
                     <=> (j \in Visible(d) /\ d[j].kind \in F)
    <2>1. e[j] = d[j]
      BY <1>7, <1>12
    <2>2. CASE j < i
      <3>1. \A k \in 1 .. j : e[k] = d[k]
        BY <2>2, <1>3, <1>7
      <3> QED
        BY <2>1, <3>1, <1>7 DEF Visible
    <2>3. CASE i < j /\ d[i].kind = "end"
      BY <2>1, <2>3, <1>5
    <2>4. CASE i < j /\ d[i].kind # "end"
      <3>1. \A k \in 1 .. Len(d) : e[k].kind = "end" <=> d[k].kind = "end"
        BY <2>4, <1>7, <1>8
      <3>2. 1 .. j \subseteq 1 .. Len(d)
        BY <1>1
      <3> QED
        BY <2>1, <3>1, <3>2, <1>7 DEF Visible
    <2> QED
      BY <1>12, <1>3, <2>1, <2>2, <2>3, <2>4
  <1>13. d[i].kind \notin F /\ e[i].kind \notin F
    BY <1>2, <1>9
  <1>14. Files(e) = Files(d)
    <2>1. {j \in Visible(e) : e[j].kind \in F} = {j \in Visible(d) : d[j].kind \in F}
      BY <1>7, <1>12, <1>13 DEF Visible
    <2>2. \A j \in {k \in Visible(d) : d[k].kind \in F} : e[j] = d[j]
      BY <1>12, <1>13 DEF Visible
    <2> QED
      BY <2>1, <2>2 DEF Files, Shown
  <1>15. CASE l = NoName
    BY <1>15, <1>7, <1>10, <1>11, <1>14 DEF VolumeLabels, Shown, Visible, i, e
  <1>16. CASE l # NoName
    <2>1. LabelPlace(v, e) = i
      BY <1>1, <1>2, <1>3, <1>7, <1>9, <1>16, PlaceOfFirst
    <2>2. i \in Visible(e)
      BY <1>1, <1>2, <1>3, <1>7, <1>9, <1>16 DEF Visible
    <2>3. {j \in Visible(e) : e[j].kind \in {"label"}} = {i}
      BY <2>2, <1>7, <1>9, <1>10, <1>16 DEF Visible
    <2>4. VolumeLabels(e) = {<<i, e[i]>>}
      BY <2>3 DEF VolumeLabels, Shown
    <2> QED
      BY <2>1, <2>4, <1>7, <1>11, <1>14, <1>16 DEF i, e
  <1> QED
    BY <1>15, <1>16
-------------------------------------------------------------------------------
(* LabelFollows needs to know that the directory as it is now is tidy, and *)
(* that no label of zeros, which is an end mark, comes from anywhere.      *)
TidyOnce == Tidy(vol.dir, vol.searched) /\ vol.record.label # Zero
Settled ==
  /\ Tidy(dir, vol.searched)
  /\ boot.label # Zero /\ b.label # Zero /\ orig.label # Zero
LabelInv == TidyOnce => Settled /\ LabelFollows

(* F2 leaves the directory alone or puts the label in it.                  *)
LEMMA SaveSettles ==
  ASSUME TypeOK, TidyOnce, Settled, LabelFollows, Save
  PROVE  Settled' /\ LabelFollows'
  <1>1. /\ vol' = vol /\ vol \in Volumes /\ b' = b /\ vol.kind \in {16, 32}
        /\ dir \in Seq(Entry) /\ Len(dir) = Len(vol.dir)
        /\ boot' \in {boot, b} /\ orig' \in {orig, b}
        /\ Files(dir) = Files(vol.dir)
    BY RecordsFit DEF Save, RecordFails, LabelFails, LabelWritten, LabelElsewhere,
         RecordWritten, TypeOK, TidyOnce, LabelFollows, Volume
  <1>2. boot'.label # Zero /\ b'.label # Zero /\ orig'.label # Zero
    BY <1>1 DEF Settled
  <1>3. CASE dir' = dir /\ status' = "failed"
    BY <1>1, <1>2, <1>3 DEF Settled, LabelFollows
  <1>4. CASE LabelElsewhere /\ vol.kind = 16 /\ TakenFor32(vol, b)
    <2>1. dir' = dir /\ (status' = "saved" => orig' = b)
      BY <1>4 DEF LabelElsewhere
    <2> QED
      BY <1>1, <1>2, <1>4, <2>1 DEF Settled, LabelFollows
  <1>5. CASE LabelWritten
    <2> DEFINE i == LabelPlace(vol, dir)
    <2>1. /\ dir' = IF i = 0 THEN dir ELSE Labelled(dir, i, b.label)
          /\ orig' = b
      BY <1>5 DEF LabelWritten
    <2>2. CASE i = 0
      BY <1>1, <1>2, <2>1, <2>2 DEF Settled, LabelFollows
    <2>3. CASE i # 0
      <3>1. dir' = Labelled(dir, i, b.label) /\ b.label # Zero
        BY <2>1, <2>3 DEF Settled
      <3>2. /\ vol \in Volumes /\ dir \in Seq(Entry) /\ Len(dir) = Len(vol.dir)
            /\ Tidy(dir, vol.searched) /\ LabelPlace(vol, dir) # 0
        BY <1>1, <2>3 DEF Settled
      <3>3. LET e == Labelled(dir, LabelPlace(vol, dir), b.label)
            IN  /\ Tidy(e, vol.searched)
                /\ Files(e) = Files(dir)
                /\ VolumeLabels(e) =
                     IF b.label = NoName THEN {}
                     ELSE {<<LabelPlace(vol, e), [kind |-> "label", name |-> b.label]>>}
        BY <3>1, <3>2, LabelledTidily
      <3>4. /\ Tidy(dir', vol.searched) /\ Files(dir') = Files(dir)
            /\ VolumeLabels(dir') =
                 IF b.label = NoName THEN {}
                 ELSE {<<LabelPlace(vol, dir'), [kind |-> "label", name |-> b.label]>>}
        BY <3>1, <3>3
      <3> QED
        BY <1>1, <1>2, <2>1, <3>4 DEF Settled, LabelFollows
    <2> QED
      BY <2>2, <2>3
  <1> QED
    BY <1>3, <1>4, <1>5 DEF Save, RecordFails, LabelFails

LEMMA LabelStep == TypeOK /\ LabelInv /\ [Next]_vars => LabelInv'
  <1> SUFFICES ASSUME TypeOK, LabelInv, [Next]_vars, TidyOnce'
               PROVE  Settled' /\ LabelFollows'
    BY DEF LabelInv
  <1>1. vol' = vol
    BY DEF Next, Open, EditNumber, EditLabel, SetExpected, FixCode, Edit, Undo, Save,
           Leave, vars
  <1>2. TidyOnce /\ Settled /\ LabelFollows
    BY <1>1 DEF LabelInv, TidyOnce
  <1>3. CASE Open
    <2>1. /\ UNCHANGED <<boot, dir>>
          /\ \/ b' = boot /\ orig' = boot /\ status' = "none"
             \/ UNCHANGED <<b, orig, status>>
      BY <1>3 DEF Open
    <2> QED
      BY <1>1, <1>2, <2>1 DEF Settled, LabelFollows
  <1>4. CASE EditNumber \/ EditLabel \/ SetExpected \/ FixCode
    <2>1. PICK r : Edit(r) /\ r.label # Zero
      <3>1. CASE EditLabel
        <4>1. PICK raw \in RawLabels : Edit([b EXCEPT !.label = Canonical(vol, raw)])
          BY <3>1 DEF EditLabel
        <4>2. Canonical(vol, raw) # Zero
          BY SetupConstants DEF Canonical
        <4>3. b \in BootRecord
          BY DEF TypeOK
        <4>4. [b EXCEPT !.label = Canonical(vol, raw)].label # Zero
          BY <4>2, <4>3 DEF BootRecord
        <4> QED
          BY <4>1, <4>4
      <3>2. CASE EditNumber \/ SetExpected \/ FixCode
        <4>1. b \in BootRecord /\ b.label # Zero
          BY <1>2 DEF TypeOK, Settled
        <4>2. PICK r : Edit(r) /\ r.label = b.label
          <5>1. /\ \A f, n : [b EXCEPT !.num[f] = n].label = b.label
                /\ \A num : [b EXCEPT !.num = num, !.magic = TRUE].label = b.label
                /\ [b EXCEPT !.code = TRUE].label = b.label
            BY <4>1 DEF BootRecord
          <5>2. CASE EditNumber
            <6>1. PICK f, n : Edit([b EXCEPT !.num[f] = n])
              BY <5>2 DEF EditNumber
            <6> DEFINE x == [b EXCEPT !.num[f] = n]
            <6>2. x.label = b.label
              BY <5>1
            <6> HIDE DEF x
            <6> QED
              BY <6>1, <6>2 DEF x
          <5>3. CASE SetExpected
            <6> DEFINE set == IF vol.kind = 32 THEN Fields \ {"total", "track"}
                              ELSE Fields
                       num == [f \in Fields |-> IF f \in set THEN vol.expected[f]
                                                ELSE b.num[f]]
            <6>1. Edit([b EXCEPT !.num = num, !.magic = TRUE])
              BY <5>3 DEF SetExpected
            <6> DEFINE x == [b EXCEPT !.num = num, !.magic = TRUE]
            <6>2. x.label = b.label
              BY <5>1
            <6> HIDE DEF num, x
            <6> QED
              BY <6>1, <6>2 DEF x
          <5>4. CASE FixCode
            BY <5>1, <5>4 DEF FixCode
          <5> QED
            BY <3>2, <5>2, <5>3, <5>4
        <4> QED
          BY <4>1, <4>2
      <3> QED
        BY <1>4, <3>1, <3>2
    <2> QED
      BY <1>1, <1>2, <2>1 DEF Edit, Settled, LabelFollows
  <1>5. CASE Undo
    BY <1>5, <1>1, <1>2 DEF Undo, Settled, LabelFollows
  <1>6. CASE Save
    BY <1>6, <1>2, SaveSettles
  <1>7. CASE Leave
    BY <1>7, <1>1, <1>2 DEF Leave, Settled, LabelFollows
  <1>8. CASE UNCHANGED vars
    BY <1>8, <1>2 DEF vars, Settled, LabelFollows
  <1> QED
    BY <1>3, <1>4, <1>5, <1>6, <1>7, <1>8 DEF Next

(* On every tidy directory, after any edits, saves and failures: each file *)
(* and each part of a long name is where it was, and after a save that     *)
(* succeeds the label of the record, or none, is the only one.             *)
THEOREM LabelAgrees == Spec => []LabelFollows
  <1>1. Init => LabelInv
    <2>1. Init /\ TidyOnce => Settled
      BY DEF Init, TidyOnce, Settled
    <2>2. Init => LabelFollows
      BY DEF Init, LabelFollows
    <2> QED
      BY <2>1, <2>2 DEF LabelInv
  <1>2. LabelInv => LabelFollows
    BY DEF LabelInv, TidyOnce, LabelFollows
  <1> QED
    BY <1>1, <1>2, SetupTypeOK, LabelStep, PTL DEF Spec
===============================================================================
