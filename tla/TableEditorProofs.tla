--------------------------- MODULE TableEditorProofs ---------------------------
(***************************************************************************)
(* The partition table editor, for every disk, every size of a table, any  *)
(* depth of nested editors and any keys: what an editor takes for saved is *)
(* on the disk, leaving it loses nothing, and formatting or erasing a row  *)
(* that can be trusted stays inside its partition.                         *)
(*                                                                         *)
(* The invariants behind this are Stacked (an editor that was entered      *)
(* through rows that could be trusted lies on the disk without wrapping,   *)
(* and strictly after the table of each of its parents) and Linked (each   *)
(* editor leads to the next one as the rows of its table say).             *)
(***************************************************************************)
EXTENDS TableEditor, TLAPS

-------------------------------------------------------------------------------
(* Types.                                                                  *)
LEMMA Constants ==
  /\ DiskSize \in Nat \ {0} /\ Modulus \in Nat /\ DiskSize < Modulus
  /\ 0 \in Numbers /\ 0 \in Sectors /\ DiskSize \in Numbers
  /\ 1 \in Numbers /\ Sectors \subseteq Numbers /\ Numbers \subseteq Nat
  /\ Modulus \in Nat \ {0} /\ MaxLevel \in Nat \ {0}
  BY EditorConstants DEF Numbers, Sectors

LEMMA ArithmeticTypes ==
  ASSUME NEW a \in Numbers, NEW b \in Numbers
  PROVE  Add(a, b) \in Numbers /\ Sub(a, b) \in Numbers
  BY Constants DEF Add, Sub, Numbers

LEMMA RowNumbers ==
  ASSUME NEW p \in Row
  PROVE  /\ p.type \in Types /\ p.rel \in Numbers /\ p.num \in Numbers
         /\ p.cbase \in Numbers /\ p.cnum \in Numbers
         /\ Base(p) \in Numbers /\ End(p) \in Numbers
  <1>1. /\ p.rel \in Numbers /\ p.num \in Numbers /\ p.type \in Types
        /\ p.cbase \in Numbers /\ p.cnum \in Numbers
    BY DEF Row
  <1>2. Base(p) \in Numbers
    BY <1>1, Constants, ArithmeticTypes DEF Base
  <1>3. Add(Base(p), p.num) \in Numbers
    BY <1>1, <1>2, Constants, ArithmeticTypes
  <1>4. End(p) \in Numbers
    BY <1>3, Constants, ArithmeticTypes DEF End
  <1> QED
    BY <1>1, <1>2, <1>4

(* What of an editor its rows are counted from.                            *)
Container(e) == /\ e.base \in Numbers /\ e.num \in Numbers
                /\ e.obase \in Numbers /\ e.onum \in Numbers

LEMMA EditorContainer ==
  ASSUME NEW e \in Editor
  PROVE  Container(e)
  BY Constants DEF Editor, Container

LEMMA ContainerTypes ==
  ASSUME NEW e, Container(e), NEW p \in Row
  PROVE  WithContainer(e, p) \in Row
  BY DEF WithContainer, Container, Row

(* Types stay types of the same family, and extended partitions extended.  *)
LEMMA TypePairs ==
  \A t : /\ LbaType(LbaType(t)) = LbaType(t) /\ LbaType(ChsType(t)) = LbaType(t)
         /\ t \in Types => LbaType(t) \in Types /\ ChsType(t) \in Types
         /\ LbaType(t) \in ExtTypes => t \in ExtTypes
         /\ t \in ExtTypes => LbaType(t) \in ExtTypes
  <1> DEFINE S == {Ext, ExtLba, HiddenExt, HiddenLba, Fat32, Fat32Lba,
                   HiddenFat32, HiddenFat32Lba}
  <1>1. ASSUME NEW t, t \notin S PROVE LbaType(t) = t /\ ChsType(t) = t
    BY <1>1 DEF LbaType, ChsType
  <1>2. ASSUME NEW t \in S
        PROVE  /\ LbaType(LbaType(t)) = LbaType(t)
               /\ LbaType(ChsType(t)) = LbaType(t)
    BY DEF LbaType, ChsType, Ext, ExtLba, HiddenExt, HiddenLba, Fat32, Fat32Lba,
           HiddenFat32, HiddenFat32Lba
  <1>3. ASSUME NEW t \in S
        PROVE  /\ LbaType(t) \in Types /\ ChsType(t) \in Types
               /\ LbaType(t) \in ExtTypes <=> t \in ExtTypes
    BY DEF LbaType, ChsType, Types, ExtTypes, FatTypes, Ext, ExtLba, HiddenExt,
           HiddenLba, Fat32, Fat32Lba, HiddenFat32, HiddenFat32Lba
  <1> HIDE DEF S
  <1> QED
    BY <1>1, <1>2, <1>3

LEMMA AdjustedTypes ==
  ASSUME NEW e, NEW p \in Row
  PROVE  Adjusted(e, p) \in Row
  BY TypePairs DEF Adjusted, Row

LEMMA FlagTypes ==
  ASSUME NEW p \in Row, NEW x \in BOOLEAN, NEW y \in BOOLEAN
  PROVE  [p EXCEPT !.empty = x, !.valid = y] \in Row
  BY DEF Row

LEMMA ValidatedTypes ==
  ASSUME NEW e, NEW part \in [Rows -> Row]
  PROVE  Validated(e, part) \in [Rows -> Row]
  <1>1. ASSUME NEW r \in Rows
        PROVE  IsEmpty(part[r]) \in BOOLEAN /\ Valid(e, part, r) \in BOOLEAN
    BY DEF IsEmpty, Valid
  <1> QED
    BY <1>1, FlagTypes DEF Validated

LEMMA UnpackTypes ==
  ASSUME NEW e, Container(e), NEW table \in Table, NEW junk \in [Rows -> BOOLEAN]
  PROVE  Unpack(e, table, junk) \in [Rows -> Row]
  <1>1. ASSUME NEW r \in Rows
        PROVE  [type |-> table[r].type, rel |-> table[r].rel,
                num |-> table[r].num, cbase |-> 0, cnum |-> 0,
                empty |-> FALSE, valid |-> junk[r]] \in Row
    BY Constants DEF Table, Entry, Row
  <1> QED
    BY <1>1, ContainerTypes DEF Unpack

LEMMA InitializedTypes ==
  ASSUME NEW e, Container(e), NEW table \in Table, NEW junk \in [Rows -> BOOLEAN]
  PROVE  Initialized(e, table, junk) \in [Rows -> Row]
  BY UnpackTypes, ValidatedTypes DEF Initialized

LEMMA RecalculatedTypes ==
  ASSUME NEW e, NEW part \in [Rows -> Row], NEW r \in Rows
  PROVE  Recalculated(e, part, r) \in [Rows -> Row]
  <1>1. [part EXCEPT ![r] = Adjusted(e, part[r])] \in [Rows -> Row]
    BY AdjustedTypes
  <1> QED
    BY <1>1, ValidatedTypes DEF Recalculated

LEMMA PackedTypes ==
  ASSUME NEW part \in [Rows -> Row]
  PROVE  Packed(part) \in Table
  BY DEF Packed, Table, Entry, Row

(* A new editor on the table in its sector.                                *)
LEMMA OpenedTypes ==
  ASSUME NEW junk \in [Rows -> BOOLEAN], disk \in [Sectors -> Table],
         NEW e, e.base \in Sectors, Container(e)
  PROVE  /\ disk[e.base] \in Table
         /\ \E rows \in [Rows -> Row] :
              Opened(e, junk) = [e EXCEPT !.part = rows, !.orig = disk[e.base]]
  BY InitializedTypes DEF Opened

(* Such a record is an editor.                                             *)
LEMMA EditorTypes ==
  ASSUME NEW level \in 0 .. MaxLevel, NEW base \in Sectors, NEW num \in Numbers,
         NEW obase \in Numbers, NEW onum \in Numbers, NEW c \in BOOLEAN,
         NEW i \in BOOLEAN, NEW s \in BOOLEAN,
         NEW part \in [Rows -> Row], NEW orig \in Table
  PROVE  [level |-> level, base |-> base, num |-> num, obase |-> obase,
          onum |-> onum, inhChanged |-> c, inhInvalid |-> i, sure |-> s,
          part |-> part, orig |-> orig] \in Editor
  BY DEF Editor

(* The first editor: that of the MBR.                                      *)
LEMMA WholeTypes ==
  ASSUME NEW junk \in [Rows -> BOOLEAN], disk \in [Sectors -> Table]
  PROVE  \E rows \in [Rows -> Row] :
           Whole(junk) =
             [level |-> 0, base |-> 0, num |-> DiskSize, obase |-> 0,
              onum |-> 0, inhChanged |-> FALSE, inhInvalid |-> FALSE,
              sure |-> TRUE, part |-> rows, orig |-> disk[0]]
  <1> DEFINE e == [level |-> 0, base |-> 0, num |-> DiskSize, obase |-> 0,
                   onum |-> 0, inhChanged |-> FALSE, inhInvalid |-> FALSE,
                   sure |-> TRUE, part |-> << >>, orig |-> Blank]
  <1>1. /\ e.base = 0 /\ 0 \in Sectors /\ Container(e)
        /\ Whole(junk) = Opened(e, junk)
    BY Constants DEF Container, Whole
  <1>2. PICK rows \in [Rows -> Row] :
          Opened(e, junk) = [e EXCEPT !.part = rows, !.orig = disk[e.base]]
    <2> HIDE DEF e
    <2> QED
      BY <1>1, OpenedTypes
  <1> QED
    BY <1>1, <1>2

LEMMA InitType == Init => TypeOK
  <1> SUFFICES ASSUME Init PROVE TypeOK
    OBVIOUS
  <1>1. disk \in [Sectors -> Table]
    BY EditorConstants DEF Init
  <1>2. PICK junk \in [Rows -> BOOLEAN] : stack = <<Whole(junk)>>
    BY DEF Init
  <1>3. Whole(junk) \in Editor /\ Whole(junk).level = 0
    <2>1. disk[0] \in Table /\ 0 \in 0 .. MaxLevel
      BY <1>1, Constants
    <2>2. PICK rows \in [Rows -> Row] :
            Whole(junk) =
              [level |-> 0, base |-> 0, num |-> DiskSize, obase |-> 0,
               onum |-> 0, inhChanged |-> FALSE, inhInvalid |-> FALSE,
               sure |-> TRUE, part |-> rows, orig |-> disk[0]]
      BY <1>1, WholeTypes
    <2>3. Whole(junk).level = 0
      BY <2>2
    <2>4. FALSE \in BOOLEAN /\ TRUE \in BOOLEAN
      OBVIOUS
    <2>5. [level |-> 0, base |-> 0, num |-> DiskSize, obase |-> 0,
           onum |-> 0, inhChanged |-> FALSE, inhInvalid |-> FALSE,
           sure |-> TRUE, part |-> rows, orig |-> disk[0]] \in Editor
      BY <2>1, <2>4, EditorTypes, Constants
    <2> QED
      BY <2>2, <2>3, <2>5
  <1>4. /\ stack \in Seq(Editor) /\ Len(stack) = 1
        /\ stack[1] = Whole(junk)
    BY <1>2, <1>3
  <1>5. 1 \in 1 .. MaxLevel
    BY Constants
  <1> QED
    BY <1>1, <1>3, <1>4, <1>5, EditorConstants DEF Init, TypeOK

-------------------------------------------------------------------------------
(* The editor that has the keyboard.                                       *)
LEMMA TopTypes ==
  ASSUME TypeOK
  PROVE  /\ Top \in Editor /\ Top.level = Len(stack) - 1
         /\ Len(stack) \in 1 .. MaxLevel /\ Len(stack) \in Nat
         /\ Top = stack[Len(stack)]
         /\ Top.part \in [Rows -> Row] /\ Top.orig \in Table
         /\ Top.base \in Sectors /\ Container(Top)
         /\ disk \in [Sectors -> Table] /\ disk[Top.base] \in Table
  <1>1. /\ Top \in Editor /\ Top.level = Len(stack) - 1
        /\ Len(stack) \in 1 .. MaxLevel /\ Len(stack) \in Nat
    BY DEF TypeOK, Top
  <1>2. /\ Top.part \in [Rows -> Row] /\ Top.orig \in Table
        /\ Top.base \in Sectors
    BY <1>1 DEF Editor
  <1> QED
    BY <1>1, <1>2, EditorContainer DEF TypeOK, Top

(* New rows, and a new data_orig, for the editor on top.                   *)
Renewed(part, orig) == SetTop([Top EXCEPT !.part = part, !.orig = orig])
SamePlace(e, f) == /\ e.base = f.base /\ e.num = f.num /\ e.obase = f.obase
                   /\ e.onum = f.onum /\ e.sure = f.sure
                   /\ e.level = f.level /\ e.inhChanged = f.inhChanged

LEMMA TopReplaced ==
  ASSUME TypeOK, NEW part \in [Rows -> Row], NEW orig \in Table,
         Renewed(part, orig)
  PROVE  /\ stack' \in Seq(Editor) /\ Len(stack') = Len(stack)
         /\ \A k \in 1 .. Len(stack) : stack'[k].level = k - 1
         /\ \A k \in 1 .. Len(stack) : k # Len(stack) => stack'[k] = stack[k]
         /\ \A k \in 1 .. Len(stack) : SamePlace(stack'[k], stack[k])
         /\ stack'[Len(stack)].orig = orig
  <1> DEFINE e == [Top EXCEPT !.part = part, !.orig = orig]
  <1>1. /\ e \in Editor /\ e.level = Top.level
        /\ SamePlace(e, Top) /\ e.orig = orig
    BY TopTypes DEF Editor, SamePlace
  <1>0. SetTop(e)
    BY DEF Renewed
  <1> HIDE DEF e
  <1>2. stack \in Seq(Editor) /\ Len(stack) \in 1 .. Len(stack)
    BY TopTypes DEF TypeOK
  <1>3. /\ stack' \in Seq(Editor) /\ Len(stack') = Len(stack)
        /\ \A k \in 1 .. Len(stack) :
             stack'[k] = IF k = Len(stack) THEN e ELSE stack[k]
    BY <1>0, <1>1, <1>2 DEF SetTop
  <1>4. /\ \A k \in 1 .. Len(stack) : k # Len(stack) => stack'[k] = stack[k]
        /\ stack'[Len(stack)] = e
    BY <1>2, <1>3
  <1>5. e.level = Len(stack) - 1
    BY <1>1, TopTypes
  <1>6. \A k \in 1 .. Len(stack) : stack'[k].level = k - 1
    BY <1>3, <1>5 DEF TypeOK
  <1>7. \A k \in 1 .. Len(stack) : SamePlace(stack'[k], stack[k])
    BY <1>1, <1>4 DEF Top, SamePlace
  <1> QED
    BY <1>1, <1>3, <1>4, <1>6, <1>7

-------------------------------------------------------------------------------
(* What the keys that edit a table make of its rows.                       *)
LEMMA ProposedTypes ==
  ASSUME NEW e, Container(e), NEW part \in [Rows -> Row], NEW r \in Rows
  PROVE  Proposed(e, part, r) \in Row
  <1> DEFINE p == part[r]
             rel == IF r > 1 /\ ~part[r - 1].empty
                    THEN Add(part[r - 1].rel, part[r - 1].num) ELSE Track
             num == IF r < NumRows /\ ~part[r + 1].empty
                    THEN Sub(part[r + 1].rel, rel) ELSE Sub(p.cnum, rel)
             next == Sub(Add(e.base, e.num), e.obase)
  <1>1. p \in Row /\ p.cnum \in Numbers
    BY RowNumbers
  <1>2. rel \in Numbers
    <2>1. r > 1 => r - 1 \in Rows
      BY EditorConstants DEF Rows
    <2>2. r > 1 => part[r - 1].rel \in Numbers /\ part[r - 1].num \in Numbers
      BY <2>1, RowNumbers
    <2>3. r > 1 => Add(part[r - 1].rel, part[r - 1].num) \in Numbers
      BY <2>2, ArithmeticTypes
    <2> QED
      BY <2>3, EditorConstants
  <1> HIDE DEF rel
  <1>3. num \in Numbers
    <2>1. r < NumRows => r + 1 \in Rows
      BY EditorConstants DEF Rows
    <2>2. r < NumRows => part[r + 1].rel \in Numbers
      BY <2>1, RowNumbers
    <2>3. r < NumRows => Sub(part[r + 1].rel, rel) \in Numbers
      BY <1>2, <2>2, ArithmeticTypes
    <2>4. Sub(p.cnum, rel) \in Numbers
      BY <1>1, <1>2, ArithmeticTypes
    <2> QED
      BY <2>3, <2>4
  <1>4. next \in Numbers /\ Sub(p.cnum, next) \in Numbers
    <2>1. Add(e.base, e.num) \in Numbers
      BY ArithmeticTypes DEF Container
    <2>2. next \in Numbers
      BY <2>1, ArithmeticTypes DEF Container
    <2> QED
      BY <1>1, <2>2, ArithmeticTypes
  <1>5. \/ Proposed(e, part, r) = [p EXCEPT !.rel = next, !.num = Sub(p.cnum, next)]
        \/ Proposed(e, part, r) = [p EXCEPT !.rel = rel, !.num = num]
    BY DEF Proposed, rel
  <1> HIDE DEF num, next, p
  <1>6. \A x, y \in Numbers : [p EXCEPT !.rel = x, !.num = y] \in Row
    BY <1>1 DEF Row
  <1> QED
    BY <1>2, <1>3, <1>4, <1>5, <1>6

LEMMA InsertTypes ==
  ASSUME NEW e, Container(e), e.part \in [Rows -> Row], NEW r \in Rows,
         NEW type \in Types
  PROVE  LET p == WithContainer(e, [e.part[r] EXCEPT !.type = type])
             chosen == [e.part EXCEPT ![r] = p]
             new == [chosen EXCEPT ![r] = Adjusted(e, Proposed(e, chosen, r))]
         IN  /\ Recalculated(e, new, r) \in [Rows -> Row]
             /\ [chosen EXCEPT ![r] = Adjusted(e, chosen[r])] \in [Rows -> Row]
  <1> DEFINE p == WithContainer(e, [e.part[r] EXCEPT !.type = type])
             chosen == [e.part EXCEPT ![r] = p]
             new == [chosen EXCEPT ![r] = Adjusted(e, Proposed(e, chosen, r))]
  <1>1. [e.part[r] EXCEPT !.type = type] \in Row
    BY DEF Row
  <1>2. p \in Row
    BY <1>1, ContainerTypes
  <1> HIDE DEF p
  <1>3. chosen \in [Rows -> Row]
    BY <1>2
  <1> HIDE DEF chosen
  <1>4. Adjusted(e, Proposed(e, chosen, r)) \in Row
    BY <1>3, ProposedTypes, AdjustedTypes
  <1>5. new \in [Rows -> Row]
    BY <1>3, <1>4
  <1>6. Recalculated(e, new, r) \in [Rows -> Row]
    BY <1>5, RecalculatedTypes
  <1>7. [chosen EXCEPT ![r] = Adjusted(e, chosen[r])] \in [Rows -> Row]
    BY <1>3, AdjustedTypes
  <1> QED
    BY <1>6, <1>7 DEF chosen, p

LEMMA HideTypes ==
  ASSUME NEW t
  PROVE  HideType(t) \in Types
  <1>1. HideType(t) \in {Data, HiddenData, Fat32, HiddenFat32, Fat32Lba,
                         HiddenFat32Lba, ExtLba, HiddenLba, Hidden}
    BY DEF HideType
  <1> QED
    BY <1>1 DEF Types, ExtTypes, FatTypes

LEMMA ValidOfTypes ==
  ASSUME NEW e, e.part \in [Rows -> Row]
  PROVE  ValidOf(e) \in [Rows -> BOOLEAN]
  BY DEF ValidOf, Row

(* A key that edits the table gives the editor on top new rows and changes *)
(* nothing else.                                                           *)
EditKey == \/ \E r \in Rows : EditField(r) \/ Insert(r) \/ Delete(r) \/ Hide(r)
           \/ Load \/ Undo
NewRows(part) == /\ SetTop([Top EXCEPT !.part = part])
                 /\ UNCHANGED <<disk, lost, formats, faults>>
                 /\ edits' \in 0 .. MaxEdits

LEMMA EditedRows ==
  ASSUME TypeOK, NEW part \in [Rows -> Row], Edited(part)
  PROVE  \E rows \in [Rows -> Row] : NewRows(rows)
  <1>1. edits' \in 0 .. MaxEdits
    BY EditorConstants DEF Edited, TypeOK
  <1>2. NewRows(part)
    BY <1>1 DEF Edited, NewRows
  <1> QED
    BY <1>2

LEMMA EditKeyRows ==
  ASSUME TypeOK, EditKey
  PROVE  \E rows \in [Rows -> Row] : NewRows(rows)
  <1>1. ASSUME NEW r \in Rows, EditField(r)
        PROVE  \E rows \in [Rows -> Row] : NewRows(rows)
    <2>1. PICK v \in Values, field \in {"rel", "num"} :
            LET p == IF field = "rel" THEN [Top.part[r] EXCEPT !.rel = v]
                     ELSE [Top.part[r] EXCEPT !.num = v]
            IN  Edited(Recalculated(Top, [Top.part EXCEPT ![r] = p], r))
      BY <1>1 DEF EditField
    <2> DEFINE p == IF field = "rel" THEN [Top.part[r] EXCEPT !.rel = v]
                    ELSE [Top.part[r] EXCEPT !.num = v]
    <2>2. p \in Row
      BY TopTypes, EditorConstants DEF Row
    <2> HIDE DEF p
    <2>3. Recalculated(Top, [Top.part EXCEPT ![r] = p], r) \in [Rows -> Row]
      BY <2>2, TopTypes, RecalculatedTypes
    <2>4. Edited(Recalculated(Top, [Top.part EXCEPT ![r] = p], r))
      BY <2>1 DEF p
    <2> QED
      BY <2>3, <2>4, EditedRows
  <1>2. ASSUME NEW r \in Rows, Insert(r)
        PROVE  \E rows \in [Rows -> Row] : NewRows(rows)
    <2>1. PICK type \in Choices \cup {Preset(Top, r)} :
            LET p == WithContainer(Top, [Top.part[r] EXCEPT !.type = type])
                chosen == [Top.part EXCEPT ![r] = p]
                new == [chosen EXCEPT ![r] =
                          Adjusted(Top, Proposed(Top, chosen, r))]
            IN  Edited(IF p.empty /\ type # None THEN Recalculated(Top, new, r)
                       ELSE [chosen EXCEPT ![r] = Adjusted(Top, chosen[r])])
      BY <1>2 DEF Insert
    <2>2. type \in Types
      BY <2>1, TopTypes, EditorConstants DEF Preset, Types, ExtTypes, Row
    <2> QED
      BY <2>1, <2>2, InsertTypes, TopTypes, EditedRows
  <1>3. ASSUME NEW r \in Rows, Delete(r)
        PROVE  \E rows \in [Rows -> Row] : NewRows(rows)
    <2> DEFINE p == [Top.part[r] EXCEPT !.type = None, !.rel = 0, !.num = 0,
                                        !.valid = FALSE]
    <2>1. p \in Row
      BY TopTypes, Constants DEF Row, Types
    <2> HIDE DEF p
    <2>2. Recalculated(Top, [Top.part EXCEPT ![r] = p], r) \in [Rows -> Row]
      BY <2>1, TopTypes, RecalculatedTypes
    <2> QED
      BY <1>3, <2>2, EditedRows DEF Delete, p
  <1>4. ASSUME NEW r \in Rows, Hide(r)
        PROVE  \E rows \in [Rows -> Row] : NewRows(rows)
    <2>1. [Top.part EXCEPT ![r].type = HideType(Top.part[r].type)] \in [Rows -> Row]
      BY TopTypes, HideTypes DEF Row
    <2> QED
      BY <1>4, <2>1, EditedRows DEF Hide
  <1>5. ASSUME Load
        PROVE  \E rows \in [Rows -> Row] : NewRows(rows)
    <2>1. PICK table \in Files : Edited(Initialized(Top, table, ValidOf(Top)))
      BY <1>5 DEF Load
    <2>2. Initialized(Top, table, ValidOf(Top)) \in [Rows -> Row]
      BY TopTypes, ValidOfTypes, InitializedTypes, EditorConstants
    <2> QED
      BY <2>1, <2>2, EditedRows
  <1>6. ASSUME Undo
        PROVE  \E rows \in [Rows -> Row] : NewRows(rows)
    <2>1. Initialized(Top, Top.orig, ValidOf(Top)) \in [Rows -> Row]
      BY TopTypes, ValidOfTypes, InitializedTypes
    <2> QED
      BY <1>6, <2>1 DEF Undo, NewRows, TypeOK
  <1> QED
    BY <1>1, <1>2, <1>3, <1>4, <1>5, <1>6 DEF EditKey

-------------------------------------------------------------------------------
(* What the other keys do to the types.                                    *)
LEMMA NewRowsReplaced ==
  ASSUME TypeOK, NEW rows, NewRows(rows)
  PROVE  Renewed(rows, Top.orig)
  <1>1. [Top EXCEPT !.part = rows] = [Top EXCEPT !.part = rows, !.orig = Top.orig]
    BY TopTypes DEF Editor
  <1> QED
    BY <1>1 DEF NewRows, Renewed

LEMMA EditKeyTypes == TypeOK /\ EditKey => TypeOK'
  <1> SUFFICES ASSUME TypeOK, EditKey PROVE TypeOK'
    OBVIOUS
  <1>1. PICK rows \in [Rows -> Row] : NewRows(rows)
    BY EditKeyRows
  <1>2. Renewed(rows, Top.orig)
    BY <1>1, NewRowsReplaced
  <1>3. /\ stack' \in Seq(Editor) /\ Len(stack') = Len(stack)
        /\ \A k \in 1 .. Len(stack) : stack'[k].level = k - 1
    BY <1>2, TopTypes, TopReplaced
  <1> QED
    BY <1>1, <1>3 DEF TypeOK, NewRows

LEMMA SaveTypes ==
  ASSUME TypeOK, NEW r \in Rows, NEW ok \in BOOLEAN, Save(r, ok)
  PROVE  TypeOK'
  <1> DEFINE part == Recalculated(Top, Top.part, r)
  <1>1. part \in [Rows -> Row]
    BY TopTypes, RecalculatedTypes
  <1>2. Packed(part) \in Table /\ Packed(Top.part) \in Table
    BY <1>1, TopTypes, PackedTypes
  <1>3. Renewed(part, Packed(part))
    BY DEF Save, Renewed
  <1>4. /\ stack' \in Seq(Editor) /\ Len(stack') = Len(stack)
        /\ \A k \in 1 .. Len(stack) : stack'[k].level = k - 1
    <2> HIDE DEF part
    <2> QED
      BY <1>1, <1>2, <1>3, TopReplaced
  <1>5. disk' \in [Sectors -> Table]
    BY <1>2, TopTypes DEF Save
  <1>6. lost' \subseteq 1 .. Len(stack)
    <2>1. lost \subseteq 1 .. Len(stack) /\ Len(stack) \in 1 .. Len(stack)
      BY TopTypes DEF TypeOK
    <2>2. Harmed \subseteq 1 .. Len(stack)
      BY DEF Harmed, Overwrites
    <2> QED
      BY <2>1, <2>2 DEF Save
  <1>7. faults' \in 0 .. MaxFaults /\ UNCHANGED <<edits, formats>>
    BY EditorConstants DEF Save, TypeOK
  <1> QED
    BY <1>4, <1>5, <1>6, <1>7 DEF TypeOK

(* What Enter puts on top of the stack.                                    *)
Entered(r, rows) ==
  [level |-> Top.level + 1, base |-> Base(Top.part[r]), num |-> Top.part[r].num,
   obase |-> Top.part[r].cbase, onum |-> Top.part[r].cnum,
   inhChanged |-> InhChanged(Top), inhInvalid |-> InhInvalid(Top, r),
   sure |-> Trusted(Top, r) /\ Top.part[r].valid,
   part |-> rows, orig |-> disk[Base(Top.part[r])]]

LEMMA EnterStep ==
  ASSUME TypeOK, NEW r \in Rows, Enter(r)
  PROVE  /\ Len(stack) < MaxLevel /\ Base(Top.part[r]) \in Sectors
         /\ UNCHANGED <<disk, lost, edits, formats, faults>>
         /\ \E rows \in [Rows -> Row] :
              /\ Entered(r, rows) \in Editor
              /\ stack' = Append(stack, Entered(r, rows))
  <1> DEFINE p == Top.part[r]
             s == Trusted(Top, r) /\ p.valid
             c == InhChanged(Top)
             i == InhInvalid(Top, r)
             level == Top.level + 1
             base == Base(p)
             e == [level |-> level, base |-> base, num |-> p.num,
                   obase |-> p.cbase, onum |-> p.cnum, inhChanged |-> c,
                   inhInvalid |-> i, sure |-> s, part |-> << >>, orig |-> Blank]
             t(rows) == [e EXCEPT !.part = rows]
  <1>1. /\ Len(stack) < MaxLevel /\ base \in Sectors
        /\ UNCHANGED <<disk, lost, edits, formats, faults>>
    BY DEF Enter
  <1>2. PICK junk \in [Rows -> BOOLEAN] : stack' = Append(stack, Opened(e, junk))
    BY DEF Enter
  <1>3. /\ p.num \in Numbers /\ p.cbase \in Numbers /\ p.cnum \in Numbers
    BY TopTypes, RowNumbers
  <1>4. c \in BOOLEAN /\ i \in BOOLEAN /\ s \in BOOLEAN
    <2>1. Top.inhChanged \in BOOLEAN /\ Top.inhInvalid \in BOOLEAN
      BY TopTypes DEF Editor
    <2> QED
      BY <2>1 DEF InhChanged, InhInvalid
  <1>5. level \in 0 .. MaxLevel
    BY <1>1, TopTypes, Constants
  <1>6. disk \in [Sectors -> Table] /\ disk[base] \in Table
    BY <1>1, TopTypes
  <1>7. \A rows : Entered(r, rows) =
          [level |-> level, base |-> base, num |-> p.num, obase |-> p.cbase,
           onum |-> p.cnum, inhChanged |-> c, inhInvalid |-> i, sure |-> s,
           part |-> rows, orig |-> disk[base]]
    BY DEF Entered
  <1> HIDE DEF p, s, c, i, level, base
  <1>8. e.base = base /\ e.base \in Sectors /\ Container(e)
    BY <1>1, <1>3, Constants DEF Container
  <1>9. PICK rows \in [Rows -> Row] :
          Opened(e, junk) = [e EXCEPT !.part = rows, !.orig = disk[e.base]]
    <2> HIDE DEF e
    <2> QED
      BY <1>6, <1>8, OpenedTypes
  <1>10. t(rows) =
          [level |-> level, base |-> base, num |-> p.num, obase |-> p.cbase,
           onum |-> p.cnum, inhChanged |-> c, inhInvalid |-> i, sure |-> s,
           part |-> rows, orig |-> Blank]
    OBVIOUS
  <1>11. Opened(e, junk) = [t(rows) EXCEPT !.orig = disk[base]]
    BY <1>8, <1>9
  <1> HIDE DEF t, e
  <1>12. Opened(e, junk) =
          [level |-> level, base |-> base, num |-> p.num, obase |-> p.cbase,
           onum |-> p.cnum, inhChanged |-> c, inhInvalid |-> i, sure |-> s,
           part |-> rows, orig |-> disk[base]]
    BY <1>10, <1>11
  <1>13. Opened(e, junk) \in Editor
    <2>1. [level |-> level, base |-> base, num |-> p.num, obase |-> p.cbase,
           onum |-> p.cnum, inhChanged |-> c, inhInvalid |-> i, sure |-> s,
           part |-> rows, orig |-> disk[base]] \in Editor
      BY <1>1, <1>3, <1>4, <1>5, <1>6, EditorTypes
    <2> QED
      BY <1>12, <2>1, Zenon
  <1>14. Opened(e, junk) = Entered(r, rows)
    BY <1>7, <1>12, Zenon
  <1>15. Entered(r, rows) \in Editor /\ stack' = Append(stack, Entered(r, rows))
    BY <1>2, <1>13, <1>14
  <1> QED
    BY <1>1, <1>15, Zenon DEF base, p

LEMMA EnterTypes ==
  ASSUME TypeOK, NEW r \in Rows, Enter(r)
  PROVE  TypeOK'
  <1>1. PICK rows \in [Rows -> Row] : /\ Entered(r, rows) \in Editor
                                     /\ stack' = Append(stack, Entered(r, rows))
    BY EnterStep
  <1>2. /\ stack \in Seq(Editor) /\ Len(stack) \in 1 .. MaxLevel
        /\ Len(stack) < MaxLevel /\ MaxLevel \in Nat
    BY EnterStep, Constants DEF TypeOK
  <1>3. /\ stack' \in Seq(Editor) /\ Len(stack') = Len(stack) + 1
        /\ \A k \in 1 .. Len(stack) + 1 :
             stack'[k] = IF k = Len(stack) + 1 THEN Entered(r, rows) ELSE stack[k]
    BY <1>1, <1>2
  <1>4. Entered(r, rows).level = Len(stack)
    BY TopTypes DEF Entered
  <1>5. \A k \in 1 .. Len(stack') : stack'[k].level = k - 1
    BY <1>2, <1>3, <1>4 DEF TypeOK
  <1>6. Len(stack') \in 1 .. MaxLevel
    BY <1>2, <1>3
  <1>7. lost' = lost /\ lost \subseteq 1 .. Len(stack) /\ Len(stack) \in Nat
    BY <1>2, EnterStep DEF TypeOK
  <1>8. lost' \subseteq 1 .. Len(stack')
    BY <1>3, <1>7
  <1> QED
    BY <1>3, <1>5, <1>6, <1>8, EnterStep DEF TypeOK

(* ESC pops the stack.                                                     *)
LEMMA QuitStep ==
  ASSUME TypeOK, Quit
  PROVE  /\ Len(stack) > 1 /\ ~Changed(Top)
         /\ stack' \in Seq(Editor) /\ Len(stack') = Len(stack) - 1
         /\ \A k \in 1 .. Len(stack) - 1 : stack'[k] = stack[k]
         /\ lost' = lost \ {Len(stack)}
         /\ UNCHANGED <<disk, edits, formats, faults>>
  <1>1. /\ Len(stack) > 1 /\ stack \in Seq(Editor) /\ Len(stack) \in Nat
        /\ stack' = SubSeq(stack, 1, Len(stack) - 1)
    BY TopTypes DEF Quit, TypeOK
  <1>2. /\ stack' \in Seq(Editor) /\ Len(stack') = Len(stack) - 1
        /\ \A k \in 1 .. Len(stack) - 1 : stack'[k] = stack[k]
    BY <1>1
  <1> QED
    BY <1>1, <1>2 DEF Quit

LEMMA QuitTypes == TypeOK /\ Quit => TypeOK'
  <1> SUFFICES ASSUME TypeOK, Quit PROVE TypeOK'
    OBVIOUS
  <1>a. Len(stack) > 1 /\ Len(stack') = Len(stack) - 1 /\ lost' = lost \ {Len(stack)}
    BY QuitStep
  <1>b. Len(stack) \in 1 .. MaxLevel /\ lost \subseteq 1 .. Len(stack)
    BY DEF TypeOK
  <1>c. MaxLevel \in Nat
    BY Constants
  <1>1. /\ Len(stack) > 1 /\ Len(stack') = Len(stack) - 1
        /\ Len(stack) \in 1 .. MaxLevel /\ MaxLevel \in Nat
        /\ lost \subseteq 1 .. Len(stack) /\ lost' = lost \ {Len(stack)}
    BY <1>a, <1>b, <1>c
  <1>2. Len(stack') \in 1 .. MaxLevel /\ lost' \subseteq 1 .. Len(stack')
    <2>1. Len(stack') \in 1 .. MaxLevel
      BY <1>1
    <2>2. ASSUME NEW k \in lost' PROVE k \in 1 .. Len(stack')
      BY <1>1, <2>2
    <2> QED
      BY <2>1, <2>2
  <1>3. \A k \in 1 .. Len(stack') : stack'[k] = stack[k] /\ k \in 1 .. Len(stack)
    BY <1>1, QuitStep
  <1>4. \A k \in 1 .. Len(stack') : stack'[k].level = k - 1
    BY <1>3 DEF TypeOK
  <1> QED
    BY <1>2, <1>4, QuitStep DEF TypeOK

(* Formatting and erasing write the beginning of a row's partition, what   *)
(* they leave in its first sector and how far they come being open.        *)
LEMMA WriteKeys ==
  ASSUME TypeOK, NEW r \in Rows, Format(r) \/ Erase(r)
  PROVE  \E n \in Nat, first \in Table :
           /\ n <= Top.part[r].num \/ n <= 1
           /\ Writes(r, n, first) /\ Top.part[r].valid
  <1>0. Top.part[r].valid
    BY DEF Format, Erase, InhInvalid
  <1>1. Blank \in Table /\ Boot \in Table
    BY Constants, EditorConstants DEF Blank, NoEntry, Table, Entry, Types
  <1>2. Top.part[r].num \in Nat
    BY TopTypes, RowNumbers, Constants
  <1>3. CASE Format(r)
    <2>1. CASE Top.part[r].type \in FatTypes
      <3>1. PICK n \in 0 .. Top.part[r].num : Writes(r, n, Boot)
        BY <1>3, <2>1 DEF Format
      <3> QED
        BY <1>0, <1>1, <1>2, <3>1
    <2>2. CASE Top.part[r].type \notin FatTypes
      <3>1. PICK n \in {0, 1} : Writes(r, n, Blank)
        BY <1>3, <2>2 DEF Format
      <3> QED
        BY <1>0, <1>1, <3>1
    <2> QED
      BY <2>1, <2>2
  <1>4. CASE Erase(r)
    <2>1. PICK n \in 0 .. (IF Base(Top.part[r]) <= End(Top.part[r])
                           THEN Top.part[r].num ELSE 0) :
            Writes(r, n, Blank)
      BY <1>4 DEF Erase
    <2>2. n \in Nat /\ n <= Top.part[r].num
      BY <1>2, <2>1
    <2> QED
      BY <1>0, <1>1, <2>1, <2>2
  <1> QED
    BY <1>3, <1>4

LEMMA WritesTypes ==
  ASSUME TypeOK, NEW r \in Rows, NEW n \in Nat, NEW first \in Table,
         Writes(r, n, first)
  PROVE  TypeOK'
  <1>1. Blank \in Table
    BY Constants DEF Blank, NoEntry, Table, Entry, Types
  <1>2. disk' \in [Sectors -> Table]
    BY <1>1, TopTypes DEF Writes, Overwritten
  <1>3. lost' \subseteq 1 .. Len(stack)
    BY DEF Writes, Overwrites, TypeOK
  <1>4. formats' \in 0 .. MaxFormats
    BY EditorConstants DEF Writes, TypeOK
  <1> QED
    BY <1>2, <1>3, <1>4 DEF Writes, TypeOK

LEMMA TypeStep == TypeOK /\ [Next]_vars => TypeOK'
  <1> SUFFICES ASSUME TypeOK, [Next]_vars PROVE TypeOK'
    OBVIOUS
  <1>1. CASE EditKey
    BY <1>1, EditKeyTypes
  <1>2. ASSUME NEW r \in Rows, NEW ok \in BOOLEAN, Save(r, ok) PROVE TypeOK'
    BY <1>2, SaveTypes
  <1>3. ASSUME NEW r \in Rows, Enter(r) PROVE TypeOK'
    BY <1>3, EnterTypes
  <1>4. CASE Quit
    BY <1>4, QuitTypes
  <1>5. ASSUME NEW r \in Rows, Format(r) \/ Erase(r) PROVE TypeOK'
    BY <1>5, WriteKeys, WritesTypes
  <1>6. CASE UNCHANGED vars
    BY <1>6 DEF vars, TypeOK
  <1> QED
    BY <1>1, <1>2, <1>3, <1>4, <1>5, <1>6 DEF Next, EditKey

(* The editor keeps its types: sectors and sizes stay numbers, and at most *)
(* one editor is open per level.                                           *)
THEOREM EditorTypeOK == Spec => []TypeOK
  <1> QED
    BY InitType, TypeStep, PTL DEF Spec

-------------------------------------------------------------------------------
(* Where the open editors are on the disk.                                 *)
LEMMA AddSub ==
  ASSUME NEW a \in Numbers, NEW b \in Numbers
  PROVE  /\ Add(a, b) = IF a + b < Modulus THEN a + b ELSE a + b - Modulus
         /\ Sub(a, b) = IF a >= b THEN a - b ELSE a - b + Modulus
  <1>1. /\ a \in Nat /\ b \in Nat /\ a < Modulus /\ b < Modulus
        /\ Modulus \in Nat \ {0}
    BY Constants DEF Numbers
  <1>2. ASSUME a + b < Modulus PROVE (a + b) % Modulus = a + b
    BY <1>1, <1>2
  <1>3. ASSUME a + b >= Modulus PROVE (a + b) % Modulus = a + b - Modulus
    BY <1>1, <1>3
  <1>4. ASSUME a >= b PROVE (a - b) % Modulus = a - b
    BY <1>1, <1>4
  <1>5. ASSUME a < b PROVE (a - b) % Modulus = a - b + Modulus
    BY <1>1, <1>5
  <1> QED
    BY <1>1, <1>2, <1>3, <1>4, <1>5 DEF Add, Sub

(* A partition that does not wrap.                                         *)
LEMMA EndOf ==
  ASSUME NEW p \in Row, Base(p) <= End(p), p.num > 0 \/ Base(p) > 0
  PROVE  /\ p.num >= 1 /\ End(p) = Base(p) + p.num - 1
         /\ Base(p) + p.num <= Modulus
  <1> DEFINE b == Base(p)
             n == p.num
  <1>1. b \in Numbers /\ n \in Numbers /\ Add(b, n) \in Numbers /\ 1 \in Numbers
    BY RowNumbers, ArithmeticTypes, Constants
  <1>2. Add(b, n) = IF b + n < Modulus THEN b + n ELSE b + n - Modulus
    BY <1>1, AddSub
  <1>3. End(p) = IF Add(b, n) >= 1 THEN Add(b, n) - 1 ELSE Add(b, n) - 1 + Modulus
    BY <1>1, AddSub DEF End
  <1>4. /\ b \in Nat /\ n \in Nat /\ b < Modulus /\ n < Modulus /\ Modulus \in Nat
    BY <1>1, Constants DEF Numbers
  <1>5. b <= End(p) /\ (n > 0 \/ b > 0)
    OBVIOUS
  <1> HIDE DEF b, n
  <1>6. n >= 1 /\ End(p) = b + n - 1 /\ b + n <= Modulus
    BY <1>2, <1>3, <1>4, <1>5
  <1> QED
    BY <1>6 DEF b, n

(* An editor that was entered through rows that could be trusted.          *)
OnTheDisk(e) == /\ e.num >= 1 /\ e.base + e.num <= DiskSize
                /\ e.obase + e.onum <= DiskSize
Standing(e) == e.sure => OnTheDisk(e)

(* A row that can be trusted and is valid begins after the table it is in, *)
(* and ends on the disk.                                                   *)
LEMMA TrustedInside ==
  ASSUME NEW e \in Editor, Standing(e), NEW r \in Rows,
         Trusted(e, r), e.part[r].valid
  PROVE  LET p == e.part[r]
         IN  /\ e.base < Base(p) /\ p.num >= 1 /\ Base(p) + p.num <= DiskSize
             /\ End(p) = Base(p) + p.num - 1
             /\ p.cbase + p.cnum <= DiskSize
             /\ \A q \in Rows \ {r} :
                  IsEmpty(e.part[q]) \/ ~Overlap(p, e.part[q])
  <1> DEFINE p == e.part[r]
  <1>1. p \in Row
    BY DEF Editor
  <1>2. Container(e) /\ e.level \in 0 .. MaxLevel
    BY EditorContainer DEF Editor
  <1>3. /\ e.sure /\ Placed(e, p) /\ ~IsEmpty(p) /\ Valid(e, e.part, r)
        /\ Base(p) <= End(p)
    BY DEF Trusted
  <1>4. /\ p.cbase = (IF Outer(e, p.type) THEN e.obase ELSE e.base)
        /\ p.cnum = (IF Outer(e, p.type) THEN e.onum ELSE e.num)
    <2>1. p = [p EXCEPT !.cbase = IF Outer(e, p.type) THEN e.obase ELSE e.base,
                        !.cnum = IF Outer(e, p.type) THEN e.onum ELSE e.num]
      BY <1>3 DEF Placed, WithContainer
    <2> QED
      BY <1>1, <2>1 DEF Row
  <1>5. /\ ~MbrErr(p) /\ ~RangeErr(p) /\ ~OrderErr(e, p)
        /\ \A q \in Rows \ {r} : IsEmpty(e.part[q]) \/ ~Overlap(p, e.part[q])
    BY <1>3 DEF Valid
  <1>6. OnTheDisk(e)
    BY <1>3 DEF Standing
  <1>7. /\ p.rel \in Nat /\ p.num \in Nat /\ p.cbase \in Nat /\ p.cnum \in Nat
        /\ p.rel < Modulus /\ p.num < Modulus /\ p.cbase < Modulus
        /\ e.base \in Nat /\ e.num \in Nat /\ e.obase \in Nat /\ e.onum \in Nat
        /\ DiskSize \in Nat /\ Modulus \in Nat /\ DiskSize < Modulus
    BY <1>1, <1>2, RowNumbers, Constants DEF Container, Numbers
  <1>8. p.rel >= 1 /\ p.rel < p.cnum /\ Sub(Add(p.rel, p.num), 1) < p.cnum
    <2>1. Sub(Add(p.rel, p.num), 1) \in Nat
      BY <1>1, RowNumbers, ArithmeticTypes, Constants
    <2> QED
      BY <1>5, <1>7, <2>1 DEF MbrErr, RangeErr
  <1>9. p.cbase + p.cnum <= DiskSize
    BY <1>4, <1>6 DEF OnTheDisk
  <1>10. Base(p) = p.cbase + p.rel
    <2>1. Base(p) = IF p.cbase + p.rel < Modulus THEN p.cbase + p.rel
                    ELSE p.cbase + p.rel - Modulus
      BY <1>1, RowNumbers, AddSub DEF Base
    <2> QED
      BY <1>7, <1>8, <1>9, <2>1
  <1>11. /\ p.num >= 1 /\ End(p) = Base(p) + p.num - 1
         /\ Base(p) + p.num <= Modulus
    <2>1. Base(p) > 0
      BY <1>7, <1>8, <1>10
    <2> QED
      BY <1>1, <1>3, <2>1, EndOf
  <1>12. p.rel + p.num <= p.cnum
    <2>1. Add(p.rel, p.num) = IF p.rel + p.num < Modulus THEN p.rel + p.num
                              ELSE p.rel + p.num - Modulus
      BY <1>1, RowNumbers, AddSub
    <2>2. Sub(Add(p.rel, p.num), 1) =
            IF Add(p.rel, p.num) >= 1 THEN Add(p.rel, p.num) - 1
            ELSE Add(p.rel, p.num) - 1 + Modulus
      BY <1>1, RowNumbers, ArithmeticTypes, AddSub, Constants
    <2> QED
      BY <1>7, <1>8, <1>10, <1>11, <2>1, <2>2
  <1>13. Base(p) + p.num <= DiskSize
    BY <1>7, <1>9, <1>10, <1>12
  <1>14. e.base < Base(p)
    <2>1. CASE ~Outer(e, p.type)
      BY <1>4, <1>7, <1>8, <1>10, <2>1
    <2>2. CASE Outer(e, p.type)
      <3>1. ~(Base(p) < Add(e.base, e.num))
        BY <1>2, <1>5, <2>2 DEF Outer, OrderErr
      <3>2. Add(e.base, e.num) = e.base + e.num
        <4>1. Add(e.base, e.num) = IF e.base + e.num < Modulus THEN e.base + e.num
                                   ELSE e.base + e.num - Modulus
          BY <1>2, AddSub DEF Container
        <4> QED
          BY <1>6, <1>7, <4>1 DEF OnTheDisk
      <3> QED
        BY <1>6, <1>7, <1>10, <3>1, <3>2 DEF OnTheDisk
    <2> QED
      BY <2>1, <2>2
  <1> QED
    BY <1>5, <1>9, <1>11, <1>13, <1>14

(* The tables of the open editors, each after those of its parents.        *)
Stacked == \A k \in 1 .. Len(stack) :
             /\ Standing(stack[k])
             /\ stack[k].sure => \A j \in 1 .. k - 1 : stack[j].base < stack[k].base

LEMMA InitStacked == Init => Stacked
  <1> SUFFICES ASSUME Init PROVE Stacked
    OBVIOUS
  <1>1. disk \in [Sectors -> Table]
    BY EditorConstants DEF Init
  <1>2. PICK junk \in [Rows -> BOOLEAN] : stack = <<Whole(junk)>>
    BY DEF Init
  <1>3. PICK rows \in [Rows -> Row] :
          Whole(junk) =
            [level |-> 0, base |-> 0, num |-> DiskSize, obase |-> 0,
             onum |-> 0, inhChanged |-> FALSE, inhInvalid |-> FALSE,
             sure |-> TRUE, part |-> rows, orig |-> disk[0]]
    BY <1>1, WholeTypes
  <1>4. Standing(Whole(junk))
    BY <1>3, Constants DEF Standing, OnTheDisk
  <1>5. Len(stack) = 1 /\ stack[1] = Whole(junk)
    BY <1>2
  <1> QED
    BY <1>4, <1>5 DEF Stacked

(* Editors that keep their place keep the order.                           *)
LEMMA PlacesKept ==
  ASSUME Stacked, Len(stack') \in Nat, Len(stack) \in Nat,
         Len(stack') <= Len(stack),
         \A k \in 1 .. Len(stack') : SamePlace(stack'[k], stack[k])
  PROVE  Stacked'
  <1>1. ASSUME NEW k \in 1 .. Len(stack')
        PROVE  Standing(stack'[k])
    <2>1. k \in 1 .. Len(stack)
      OBVIOUS
    <2> QED
      BY <2>1 DEF Stacked, Standing, OnTheDisk, SamePlace
  <1>2. ASSUME NEW k \in 1 .. Len(stack'), stack'[k].sure, NEW j \in 1 .. k - 1
        PROVE  stack'[j].base < stack'[k].base
    <2>1. k \in 1 .. Len(stack) /\ j \in 1 .. Len(stack')
      OBVIOUS
    <2>2. stack[k].sure /\ stack'[k].base = stack[k].base
          /\ stack'[j].base = stack[j].base
      BY <1>2, <2>1 DEF SamePlace
    <2> QED
      BY <2>1, <2>2 DEF Stacked
  <1> QED
    BY <1>1, <1>2 DEF Stacked

(* The editor that Enter opens.                                            *)
LEMMA EnterStacked ==
  ASSUME TypeOK, Stacked, NEW r \in Rows, Enter(r)
  PROVE  Stacked'
  <1>1. PICK rows \in [Rows -> Row] : /\ Entered(r, rows) \in Editor
                                     /\ stack' = Append(stack, Entered(r, rows))
    BY EnterStep
  <1> DEFINE e == Entered(r, rows)
             n == Len(stack)
  <1>2. stack \in Seq(Editor) /\ n \in Nat /\ n \in 1 .. n
    BY TopTypes DEF TypeOK
  <1>3. /\ Len(stack') = n + 1 /\ stack'[n + 1] = e
        /\ \A k \in 1 .. n : stack'[k] = stack[k]
    BY <1>1, <1>2
  <1>4. /\ e.sure = (Trusted(Top, r) /\ Top.part[r].valid)
        /\ e.base = Base(Top.part[r]) /\ e.num = Top.part[r].num
        /\ e.obase = Top.part[r].cbase /\ e.onum = Top.part[r].cnum
    BY DEF Entered
  <1> HIDE DEF e
  <1>5. ASSUME e.sure PROVE OnTheDisk(e) /\ Top.base < e.base /\ Top.sure
    <2>1. Trusted(Top, r) /\ Top.part[r].valid
      BY <1>4, <1>5
    <2>2. Top \in Editor /\ Top = stack[n]
      BY TopTypes
    <2>3. Standing(Top)
      BY <1>2, <2>2 DEF Stacked
    <2>4. /\ Top.base < Base(Top.part[r]) /\ Top.part[r].num >= 1
          /\ Base(Top.part[r]) + Top.part[r].num <= DiskSize
          /\ Top.part[r].cbase + Top.part[r].cnum <= DiskSize
      BY <2>1, <2>2, <2>3, TrustedInside
    <2> QED
      BY <1>4, <2>1, <2>4 DEF OnTheDisk, Trusted
  <1>6. ASSUME NEW k \in 1 .. n + 1 PROVE Standing(stack'[k])
    <2>1. CASE k = n + 1
      BY <1>3, <1>5, <2>1 DEF Standing
    <2>2. CASE k # n + 1
      <3>1. k \in 1 .. n
        BY <1>2, <2>2
      <3> QED
        BY <1>3, <3>1 DEF Stacked
    <2> QED
      BY <2>1, <2>2
  <1>7. ASSUME NEW k \in 1 .. n + 1, stack'[k].sure, NEW j \in 1 .. k - 1
        PROVE  stack'[j].base < stack'[k].base
    <2>1. j \in 1 .. n /\ stack'[j] = stack[j]
      BY <1>2, <1>3
    <2>2. CASE k # n + 1
      <3>1. k \in 1 .. n /\ stack'[k] = stack[k]
        BY <1>2, <1>3, <2>2
      <3> QED
        BY <1>7, <2>1, <3>1 DEF Stacked
    <2>3. CASE k = n + 1
      <3>1. Top.base < e.base /\ Top.sure /\ Top = stack[n] /\ stack'[k] = e
        BY <1>3, <1>5, <1>7, <2>3 DEF Top
      <3>2. j # n => stack[j].base < Top.base
        BY <1>2, <2>1, <3>1 DEF Stacked
      <3>3. stack[j].base \in Nat /\ Top.base \in Nat /\ e.base \in Nat
        <4>1. \A f \in Editor : f.base \in Nat
          BY DEF Editor, Sectors
        <4> QED
          BY <1>1, <1>2, <2>1, <4>1, TopTypes DEF e
      <3> QED
        BY <2>1, <3>1, <3>2, <3>3
    <2> QED
      BY <2>2, <2>3
  <1> QED
    BY <1>3, <1>6, <1>7 DEF Stacked

LEMMA StackedStep == TypeOK /\ Stacked /\ [Next]_vars => Stacked'
  <1> SUFFICES ASSUME TypeOK, Stacked, [Next]_vars PROVE Stacked'
    OBVIOUS
  <1>0. Len(stack) \in Nat
    BY TopTypes
  <1>1. CASE EditKey
    <2>1. PICK rows \in [Rows -> Row] : NewRows(rows)
      BY <1>1, EditKeyRows
    <2>2. Renewed(rows, Top.orig)
      BY <2>1, NewRowsReplaced
    <2>3. /\ Len(stack') = Len(stack)
          /\ \A k \in 1 .. Len(stack') : SamePlace(stack'[k], stack[k])
      BY <2>2, TopTypes, TopReplaced
    <2> QED
      BY <1>0, <2>3, PlacesKept
  <1>2. ASSUME NEW r \in Rows, NEW ok \in BOOLEAN, Save(r, ok) PROVE Stacked'
    <2> DEFINE part == Recalculated(Top, Top.part, r)
    <2>1. part \in [Rows -> Row] /\ Packed(part) \in Table
      BY TopTypes, RecalculatedTypes, PackedTypes
    <2>2. Renewed(part, Packed(part))
      BY <1>2 DEF Save, Renewed
    <2>3. /\ Len(stack') = Len(stack)
          /\ \A k \in 1 .. Len(stack') : SamePlace(stack'[k], stack[k])
      <3> HIDE DEF part
      <3> QED
        BY <2>1, <2>2, TopReplaced
    <2> QED
      BY <1>0, <2>3, PlacesKept
  <1>3. ASSUME NEW r \in Rows, Enter(r) PROVE Stacked'
    BY <1>3, EnterStacked
  <1>4. CASE Quit
    <2>1. /\ Len(stack') = Len(stack) - 1 /\ Len(stack) > 1
          /\ \A k \in 1 .. Len(stack) - 1 : stack'[k] = stack[k]
      BY <1>4, QuitStep
    <2>2. /\ Len(stack') \in Nat /\ Len(stack') <= Len(stack)
          /\ \A k \in 1 .. Len(stack') : SamePlace(stack'[k], stack[k])
      BY <1>0, <2>1 DEF SamePlace
    <2> QED
      BY <1>0, <2>2, PlacesKept
  <1>5. CASE UNCHANGED stack
    BY <1>5 DEF Stacked
  <1> QED
    BY <1>1, <1>2, <1>3, <1>4, <1>5 DEF Next, EditKey, Format, Erase, Writes, vars

-------------------------------------------------------------------------------
(* What an editor takes for saved is on the disk.                          *)
InStep(k) == \/ k \in lost
             \/ \A r \in Rows : Alike(disk[stack[k].base][r], stack[k].orig[r])

LEMMA InitInStep == Init => OrigOnDisk
  <1> SUFFICES ASSUME Init PROVE OrigOnDisk
    OBVIOUS
  <1>1. disk \in [Sectors -> Table]
    BY EditorConstants DEF Init
  <1>2. PICK junk \in [Rows -> BOOLEAN] : stack = <<Whole(junk)>>
    BY DEF Init
  <1>3. Whole(junk).base = 0 /\ Whole(junk).orig = disk[0]
    BY <1>1, WholeTypes
  <1>4. Len(stack) = 1 /\ stack[1] = Whole(junk)
    BY <1>2
  <1> QED
    BY <1>3, <1>4 DEF OrigOnDisk, Alike

(* An editor whose sector and data_orig stay is as much in step as before. *)
LEMMA StaysInStep ==
  ASSUME OrigOnDisk, NEW k \in 1 .. Len(stack),
         stack'[k].base = stack[k].base, stack'[k].orig = stack[k].orig,
         disk'[stack[k].base] = disk[stack[k].base], k \in lost => k \in lost'
  PROVE  InStep(k)'
  BY DEF OrigOnDisk, InStep

LEMMA AdjustedAlike ==
  ASSUME NEW e, NEW p \in Row
  PROVE  LET q == Adjusted(e, p)
         IN  /\ q.rel = p.rel /\ q.num = p.num
             /\ LbaType(q.type) = LbaType(p.type)
  <1>1. Adjusted(e, p).rel = p.rel /\ Adjusted(e, p).num = p.num
    BY DEF Adjusted, Row
  <1>2. Adjusted(e, p).type \in {LbaType(p.type), ChsType(p.type)}
    BY DEF Adjusted, Row
  <1> QED
    BY <1>1, <1>2, TypePairs

(* The rows after a save differ from what was saved in the LBA type of a   *)
(* partition at most.                                                      *)
LEMMA SavedAlike ==
  ASSUME NEW e \in Editor, NEW r \in Rows, NEW q \in Rows
  PROVE  Alike(Packed(e.part)[q], Packed(Recalculated(e, e.part, r))[q])
  <1> DEFINE p == e.part[q]
             adj == [e.part EXCEPT ![r] = Adjusted(e, e.part[r])]
             new == Recalculated(e, e.part, r)[q]
  <1>1. e.part \in [Rows -> Row] /\ p \in Row
    BY DEF Editor
  <1>2. adj \in [Rows -> Row]
    BY <1>1, AdjustedTypes
  <1>3. new = [adj[q] EXCEPT !.empty = IsEmpty(adj[q]), !.valid = Valid(e, adj, q)]
    BY DEF Recalculated, Validated
  <1>4. adj[q] = p \/ adj[q] = Adjusted(e, p)
    BY <1>1
  <1>5. adj[q] \in Row
    BY <1>2
  <1> HIDE DEF adj
  <1>6. new.type = adj[q].type /\ new.rel = adj[q].rel /\ new.num = adj[q].num
    BY <1>3, <1>5 DEF Row
  <1>7. /\ Packed(e.part)[q] = [type |-> p.type, rel |-> p.rel, num |-> p.num]
        /\ Packed(Recalculated(e, e.part, r))[q] =
             [type |-> new.type, rel |-> new.rel, num |-> new.num]
    BY DEF Packed
  <1> HIDE DEF new, p
  <1>8. /\ new.rel = p.rel /\ new.num = p.num
        /\ LbaType(p.type) = LbaType(new.type)
    <2>1. CASE adj[q] = p
      BY <1>6, <2>1
    <2>2. CASE adj[q] = Adjusted(e, p)
      <3>1. /\ new.rel = p.rel /\ new.num = p.num
            /\ LbaType(new.type) = LbaType(p.type)
        BY <1>1, <1>6, <2>2, AdjustedAlike
      <3> QED
        BY <3>1
    <2> QED
      BY <1>4, <2>1, <2>2
  <1> QED
    BY <1>7, <1>8 DEF Alike

(* The sector of an open editor that a trusted editor on top does not own. *)
LEMMA OthersBelow ==
  ASSUME TypeOK, Stacked, Top.sure, NEW k \in 1 .. Len(stack), k # Len(stack)
  PROVE  stack[k].base < Top.base
  <1>1. Len(stack) \in Nat /\ Top = stack[Len(stack)]
    BY TopTypes
  <1> QED
    BY <1>1 DEF Stacked

LEMMA SaveInStep ==
  ASSUME TypeOK, Stacked, OrigOnDisk, NEW r \in Rows, NEW ok \in BOOLEAN,
         Save(r, ok)
  PROVE  OrigOnDisk'
  <1> DEFINE part == Recalculated(Top, Top.part, r)
             n == Len(stack)
  <1>1. part \in [Rows -> Row] /\ Packed(part) \in Table
    BY TopTypes, RecalculatedTypes, PackedTypes
  <1>2. Renewed(part, Packed(part))
    BY DEF Save, Renewed
  <1>3. /\ Len(stack') = n
        /\ \A k \in 1 .. n : k # n => stack'[k] = stack[k]
        /\ \A k \in 1 .. n : SamePlace(stack'[k], stack[k])
        /\ stack'[n].orig = Packed(part)
    <2> HIDE DEF part
    <2> QED
      BY <1>1, <1>2, TopReplaced
  <1>4. /\ disk' = IF ok THEN [disk EXCEPT ![Top.base] = Packed(Top.part)] ELSE disk
        /\ lost' = IF ok THEN (lost \ {n}) \cup Harmed ELSE lost \cup {n}
    BY DEF Save
  <1>5. /\ Top = stack[n] /\ n \in 1 .. n /\ Top.base \in Sectors
        /\ disk \in [Sectors -> Table] /\ Top \in Editor
    BY TopTypes
  <1>6. ASSUME NEW k \in 1 .. n, k = n PROVE InStep(k)'
    <2>1. CASE ~ok
      <3>1. k \in lost'
        BY <1>4, <1>6, <2>1
      <3> QED
        BY <3>1 DEF InStep
    <2>2. CASE ok
      <3>1. disk'[Top.base] = Packed(Top.part) /\ stack'[k].base = Top.base
        BY <1>3, <1>4, <1>5, <1>6, <2>2 DEF SamePlace
      <3>2. \A q \in Rows : Alike(Packed(Top.part)[q], Packed(part)[q])
        BY <1>5, SavedAlike
      <3>3. \A q \in Rows : Alike(disk'[stack'[k].base][q], stack'[k].orig[q])
        BY <1>3, <1>6, <3>1, <3>2
      <3> QED
        BY <3>3 DEF InStep
    <2> QED
      BY <2>1, <2>2
  <1>7. ASSUME NEW k \in 1 .. n, k # n PROVE InStep(k)'
    <2>1. stack'[k] = stack[k]
      BY <1>3, <1>7
    <2>2. k \in lost => k \in lost'
      BY <1>4, <1>7
    <2>3. CASE disk'[stack[k].base] = disk[stack[k].base]
      BY <2>1, <2>2, <2>3, StaysInStep
    <2>4. CASE disk'[stack[k].base] # disk[stack[k].base]
      <3>1. ok /\ stack[k].base = Top.base
        BY <1>4, <1>5, <2>4
      <3>2. ~Top.sure
        <4>1. stack[k].base \in Nat
          <5>1. stack[k] \in Editor
            BY DEF TypeOK
          <5> QED
            BY <5>1 DEF Editor, Sectors
        <4> QED
          BY <1>7, <3>1, <4>1, OthersBelow
      <3>3. k \in lost'
        BY <1>4, <1>7, <2>4, <3>1, <3>2 DEF Harmed, Overwrites
      <3> QED
        BY <3>3 DEF InStep
    <2> QED
      BY <2>3, <2>4
  <1> QED
    BY <1>3, <1>6, <1>7 DEF OrigOnDisk, InStep

LEMMA EnterInStep ==
  ASSUME TypeOK, OrigOnDisk, NEW r \in Rows, Enter(r)
  PROVE  OrigOnDisk'
  <1>1. PICK rows \in [Rows -> Row] : stack' = Append(stack, Entered(r, rows))
    BY EnterStep
  <1> DEFINE n == Len(stack)
             e == Entered(r, rows)
  <1>2. disk' = disk /\ lost' = lost
    BY EnterStep
  <1>3. e.orig = disk[e.base]
    BY DEF Entered
  <1> HIDE DEF e
  <1>4. stack \in Seq(Editor) /\ n \in Nat
    BY TopTypes DEF TypeOK
  <1>5. /\ Len(stack') = n + 1 /\ stack'[n + 1] = e
        /\ \A k \in 1 .. n : stack'[k] = stack[k]
    BY <1>1, <1>4 DEF e
  <1>6. ASSUME NEW k \in 1 .. n + 1 PROVE InStep(k)'
    <2>1. CASE k = n + 1
      <3>1. \A q \in Rows : Alike(disk'[stack'[k].base][q], stack'[k].orig[q])
        BY <1>2, <1>3, <1>5, <2>1 DEF Alike
      <3> QED
        BY <3>1 DEF InStep
    <2>2. CASE k # n + 1
      <3>1. k \in 1 .. n /\ stack'[k] = stack[k]
        BY <1>4, <1>5, <2>2
      <3> QED
        BY <1>2, <3>1, StaysInStep
    <2> QED
      BY <2>1, <2>2
  <1> QED
    BY <1>5, <1>6 DEF OrigOnDisk, InStep

(* Where formatting and erasing write, and through which row.              *)
LEMMA WritesWhere ==
  ASSUME TypeOK, NEW r \in Rows, NEW n \in Nat, NEW first \in Table,
         Writes(r, n, first), NEW s \in Sectors, disk'[s] # disk[s]
  PROVE  s >= Base(Top.part[r]) /\ s < Base(Top.part[r]) + n
  <1>1. disk' = Overwritten(Top.part[r], n, first)
    BY DEF Writes
  <1>2. Base(Top.part[r]) \in Nat /\ s \in Nat
    BY TopTypes, RowNumbers, Constants DEF Sectors
  <1>3. disk'[s] = IF s = Base(Top.part[r]) /\ n > 0 THEN first
                   ELSE IF s \in Base(Top.part[r]) .. Base(Top.part[r]) + n - 1
                   THEN Blank ELSE disk[s]
    BY <1>1 DEF Overwritten
  <1>4. \/ s = Base(Top.part[r]) /\ n > 0
        \/ s \in Base(Top.part[r]) .. Base(Top.part[r]) + n - 1
    BY <1>3
  <1> QED
    BY <1>2, <1>4

LEMMA TopInside ==
  ASSUME TypeOK, Stacked, NEW r \in Rows, Trusted(Top, r), Top.part[r].valid
  PROVE  LET p == Top.part[r]
         IN  /\ Top.base < Base(p) /\ p.num >= 1 /\ Base(p) + p.num <= DiskSize
             /\ End(p) = Base(p) + p.num - 1
             /\ \A q \in Rows \ {r} :
                  IsEmpty(Top.part[q]) \/ ~Overlap(p, Top.part[q])
             /\ \A k \in 1 .. Len(stack) : stack[k].base < Base(p)
  <1>1. /\ Top \in Editor /\ Len(stack) \in 1 .. Len(stack) /\ Top = stack[Len(stack)]
    BY TopTypes
  <1>2. Standing(Top) /\ Top.sure
    BY <1>1 DEF Stacked, Trusted
  <1>3. LET p == Top.part[r]
        IN  /\ Top.base < Base(p) /\ p.num >= 1 /\ Base(p) + p.num <= DiskSize
            /\ End(p) = Base(p) + p.num - 1
            /\ \A q \in Rows \ {r} :
                 IsEmpty(Top.part[q]) \/ ~Overlap(p, Top.part[q])
    BY <1>1, <1>2, TrustedInside
  <1>4. ASSUME NEW k \in 1 .. Len(stack)
        PROVE  stack[k].base < Base(Top.part[r])
    <2>1. k # Len(stack) => stack[k].base < Top.base
      BY <1>2, OthersBelow
    <2>2. Top.base < Base(Top.part[r])
      BY <1>3
    <2>3. stack[k] \in Editor
      BY DEF TypeOK
    <2>4. stack[k].base \in Nat /\ Top.base \in Nat
      BY <1>1, <2>3 DEF Editor, Sectors
    <2>5. Base(Top.part[r]) \in Nat
      BY TopTypes, RowNumbers, Constants
    <2> QED
      BY <1>1, <2>1, <2>2, <2>4, <2>5
  <1> QED
    BY <1>3, <1>4

LEMMA WritesInStep ==
  ASSUME TypeOK, Stacked, OrigOnDisk, NEW r \in Rows, Format(r) \/ Erase(r)
  PROVE  OrigOnDisk'
  <1>1. PICK n \in Nat, first \in Table :
          Writes(r, n, first) /\ Top.part[r].valid
    BY WriteKeys
  <1>2. /\ stack' = stack
        /\ lost' = IF Trusted(Top, r) THEN lost ELSE lost \cup Overwrites
    BY <1>1 DEF Writes
  <1>3. ASSUME NEW k \in 1 .. Len(stack) PROVE InStep(k)'
    <2>1. CASE disk'[stack[k].base] = disk[stack[k].base]
      BY <1>2, <2>1, StaysInStep
    <2>2. CASE disk'[stack[k].base] # disk[stack[k].base]
      <3>1. stack[k].base \in Sectors /\ stack[k].base \in Nat
        <4>1. stack[k] \in Editor
          BY DEF TypeOK
        <4> QED
          BY <4>1 DEF Editor, Sectors
      <3>2. stack[k].base >= Base(Top.part[r])
        BY <1>1, <2>2, <3>1, WritesWhere
      <3>3. Base(Top.part[r]) \in Nat
        BY TopTypes, RowNumbers, Constants
      <3>4. ~Trusted(Top, r)
        <4>1. ASSUME Trusted(Top, r) PROVE stack[k].base < Base(Top.part[r])
          BY <1>1, <4>1, TopInside
        <4> QED
          BY <3>1, <3>2, <3>3, <4>1
      <3>5. k \in lost'
        BY <1>2, <2>2, <3>4 DEF Overwrites
      <3> QED
        BY <3>5 DEF InStep
    <2> QED
      BY <2>1, <2>2
  <1> QED
    BY <1>2, <1>3 DEF OrigOnDisk, InStep

LEMMA InStepStep ==
  TypeOK /\ Stacked /\ OrigOnDisk /\ [Next]_vars => OrigOnDisk'
  <1> SUFFICES ASSUME TypeOK, Stacked, OrigOnDisk, [Next]_vars
               PROVE  OrigOnDisk'
    OBVIOUS
  <1>1. CASE EditKey
    <2>1. PICK rows \in [Rows -> Row] : NewRows(rows)
      BY <1>1, EditKeyRows
    <2>2. Renewed(rows, Top.orig) /\ disk' = disk /\ lost' = lost
      BY <2>1, NewRowsReplaced DEF NewRows
    <2>3. /\ Len(stack') = Len(stack)
          /\ \A k \in 1 .. Len(stack) : SamePlace(stack'[k], stack[k])
          /\ \A k \in 1 .. Len(stack) : k # Len(stack) => stack'[k] = stack[k]
          /\ stack'[Len(stack)].orig = Top.orig
      BY <2>2, TopTypes, TopReplaced
    <2>4. ASSUME NEW k \in 1 .. Len(stack) PROVE InStep(k)'
      <3>1. stack'[k].orig = stack[k].orig /\ stack'[k].base = stack[k].base
        BY <2>3 DEF Top, SamePlace
      <3> QED
        BY <2>2, <3>1, StaysInStep
    <2> QED
      BY <2>3, <2>4 DEF OrigOnDisk, InStep
  <1>2. ASSUME NEW r \in Rows, NEW ok \in BOOLEAN, Save(r, ok) PROVE OrigOnDisk'
    BY <1>2, SaveInStep
  <1>3. ASSUME NEW r \in Rows, Enter(r) PROVE OrigOnDisk'
    BY <1>3, EnterInStep
  <1>4. CASE Quit
    <2>1. Len(stack') = Len(stack) - 1 /\ Len(stack) \in Nat
      BY <1>4, QuitStep, TopTypes
    <2>2. /\ \A k \in 1 .. Len(stack) - 1 : stack'[k] = stack[k]
          /\ lost' = lost \ {Len(stack)} /\ disk' = disk
      BY <1>4, QuitStep
    <2>3. ASSUME NEW k \in 1 .. Len(stack') PROVE InStep(k)'
      <3>1. k \in 1 .. Len(stack) /\ stack'[k] = stack[k] /\ k # Len(stack)
        BY <2>1, <2>2
      <3> QED
        BY <2>2, <3>1, StaysInStep
    <2> QED
      BY <2>3 DEF OrigOnDisk, InStep
  <1>5. ASSUME NEW r \in Rows, Format(r) \/ Erase(r) PROVE OrigOnDisk'
    BY <1>5, WritesInStep
  <1>6. CASE UNCHANGED vars
    BY <1>6 DEF vars, OrigOnDisk
  <1> QED
    BY <1>1, <1>2, <1>3, <1>4, <1>5, <1>6 DEF Next, EditKey

-------------------------------------------------------------------------------
(* What an editor takes for the saved table is the table in its sector,    *)
(* unless a save has failed, or a row that cannot be trusted was followed. *)
THEOREM OriginalIsOnDisk == Spec => []OrigOnDisk
  <1> DEFINE IInv == TypeOK /\ Stacked /\ OrigOnDisk
  <1>1. Init => IInv
    BY InitType, InitStacked, InitInStep
  <1>2. IInv /\ [Next]_vars => IInv'
    BY TypeStep, StackedStep, InStepStep
  <1>3. IInv => OrigOnDisk
    OBVIOUS
  <1> QED
    BY <1>1, <1>2, <1>3, PTL DEF Spec

(* ESC never leaves an editor whose rows differ from what is on the disk,  *)
(* unless what was saved was lost before.                                  *)
QuitSafe == Len(stack') < Len(stack) =>
              \/ Len(stack) \in lost
              \/ \A r \in Rows : Alike(disk[Top.base][r], Top.part[r])

LEMMA QuitOnlyShrinks ==
  ASSUME TypeOK, [Next]_vars, Len(stack') < Len(stack)
  PROVE  Quit
  <1>0. Len(stack) \in Nat
    BY TopTypes
  <1>1. ASSUME EditKey PROVE FALSE
    <2>1. PICK rows \in [Rows -> Row] : NewRows(rows)
      BY <1>1, EditKeyRows
    <2>2. Renewed(rows, Top.orig)
      BY <2>1, NewRowsReplaced
    <2>3. Len(stack') = Len(stack)
      BY <2>2, TopTypes, TopReplaced
    <2> QED
      BY <1>0, <2>3
  <1>2. ASSUME NEW r \in Rows, NEW ok \in BOOLEAN, Save(r, ok) PROVE FALSE
    <2>1. Len(stack') = Len(stack)
      BY <1>2 DEF Save, SetTop, TypeOK
    <2> QED
      BY <1>0, <2>1
  <1>3. ASSUME NEW r \in Rows, Enter(r) PROVE FALSE
    <2>1. PICK rows \in [Rows -> Row] : stack' = Append(stack, Entered(r, rows))
      BY <1>3, EnterStep
    <2>2. PICK e : stack' = Append(stack, e)
      BY <2>1
    <2>3. Len(stack') = Len(stack) + 1
      BY <2>2 DEF TypeOK
    <2> QED
      BY <1>0, <2>3
  <1>4. ASSUME stack' = stack PROVE FALSE
    BY <1>0, <1>4
  <1> QED
    BY <1>1, <1>2, <1>3, <1>4
       DEF Next, EditKey, Format, Erase, Writes, vars

THEOREM QuittingLosesNothing == Spec => QuitLosesNothing
  <1> DEFINE IInv == TypeOK /\ Stacked /\ OrigOnDisk
  <1>1. Init => IInv
    BY InitType, InitStacked, InitInStep
  <1>2. IInv /\ [Next]_vars => IInv'
    BY TypeStep, StackedStep, InStepStep
  <1>3. IInv /\ [Next]_vars => [QuitSafe]_vars
    <2> SUFFICES ASSUME IInv, [Next]_vars, Len(stack') < Len(stack)
                 PROVE  \/ Len(stack) \in lost
                        \/ \A r \in Rows : Alike(disk[Top.base][r], Top.part[r])
      BY DEF QuitSafe
    <2>1. ~Changed(Top)
      BY QuitOnlyShrinks, QuitStep
    <2>2. \/ Len(stack) \in lost
          \/ \A r \in Rows : Alike(disk[Top.base][r], Top.orig[r])
      BY TopTypes DEF OrigOnDisk
    <2>3. \A r \in Rows : Top.orig[r] = [type |-> Top.part[r].type,
                             rel |-> Top.part[r].rel, num |-> Top.part[r].num]
      BY <2>1 DEF Changed, Packed
    <2>4. ASSUME NEW r \in Rows, Alike(disk[Top.base][r], Top.orig[r])
          PROVE  Alike(disk[Top.base][r], Top.part[r])
      <3>1. /\ Top.orig[r].type = Top.part[r].type
            /\ Top.orig[r].rel = Top.part[r].rel
            /\ Top.orig[r].num = Top.part[r].num
        <4> DEFINE x == [type |-> Top.part[r].type, rel |-> Top.part[r].rel,
                         num |-> Top.part[r].num]
        <4>1. Top.orig[r] = x
          BY <2>3
        <4>2. /\ x.type = Top.part[r].type /\ x.rel = Top.part[r].rel
              /\ x.num = Top.part[r].num
          OBVIOUS
        <4> QED
          BY <4>1, <4>2, Zenon
      <3> DEFINE o == Top.orig[r]
                 p == Top.part[r]
                 d == disk[Top.base][r]
      <3> HIDE DEF o, p, d
      <3>2. Alike(d, o) /\ o.type = p.type /\ o.rel = p.rel /\ o.num = p.num
        BY <2>4, <3>1 DEF o, p, d
      <3>3. Alike(d, p)
        BY <3>2 DEF Alike
      <3> QED
        BY <3>3 DEF p, d
    <2> QED
      BY <2>2, <2>4
  <1> QED
    BY <1>1, <1>2, <1>3, PTL DEF Spec, QuitLosesNothing, QuitSafe

-------------------------------------------------------------------------------
(* Formatting and erasing stay inside a partition that can be trusted.     *)
LEMMA WritesInside ==
  ASSUME TypeOK, Stacked, NEW r \in Rows, Trusted(Top, r), NEW n \in Nat,
         NEW first \in Table, n <= Top.part[r].num \/ n <= 1,
         Writes(r, n, first), Top.part[r].valid
  PROVE  /\ Changing \subseteq Extent(Top.part[r])
         /\ \A k \in 1 .. Len(stack) : stack[k].base \notin Changing
         /\ \A q \in Rows \ {r} :
              Base(Top.part[q]) <= End(Top.part[q])
                => Changing \cap Extent(Top.part[q]) = {}
  <1> DEFINE p == Top.part[r]
  <1>1. /\ p.num >= 1 /\ Base(p) + p.num <= DiskSize
        /\ End(p) = Base(p) + p.num - 1
    BY TopInside
  <1>2. \A k \in 1 .. Len(stack) : stack[k].base < Base(p)
    BY TopInside
  <1>3. /\ p \in Row /\ Base(p) \in Nat /\ p.num \in Nat
        /\ Top.part \in [Rows -> Row]
    BY TopTypes, RowNumbers, Constants
  <1>4. ASSUME NEW s \in Changing
        PROVE  s \in Nat /\ s >= Base(p) /\ s < Base(p) + p.num
    <2>1. s \in Sectors /\ disk'[s] # disk[s] /\ s \in Nat
      BY DEF Changing, Sectors
    <2>2. s >= Base(p) /\ s < Base(p) + n
      BY <2>1, WritesWhere
    <2> QED
      BY <1>1, <1>3, <2>1, <2>2
  <1>5. Changing \subseteq Extent(p)
    BY <1>3, <1>4 DEF Changing, Extent
  <1>6. ASSUME NEW k \in 1 .. Len(stack) PROVE stack[k].base \notin Changing
    <2>1. stack[k].base \in Nat
      <3>1. stack[k] \in Editor
        BY DEF TypeOK
      <3> QED
        BY <3>1 DEF Editor, Sectors
    <2>2. stack[k].base < Base(p)
      BY <1>2
    <2> QED
      BY <1>3, <1>4, <2>1, <2>2
  <1>7. ASSUME NEW q \in Rows \ {r}, Base(Top.part[q]) <= End(Top.part[q]),
               NEW s \in Changing, s \in Extent(Top.part[q])
        PROVE  FALSE
    <2> DEFINE x == Top.part[q]
    <2>1. x \in Row /\ Base(x) \in Nat /\ x.num \in Nat
      BY <1>3, RowNumbers, Constants
    <2>2. s >= Base(x) /\ s - Base(x) < x.num
      BY <1>7 DEF Extent
    <2>3. x.num > 0
      BY <1>4, <2>1, <2>2
    <2>4. End(x) = Base(x) + x.num - 1
      BY <1>7, <2>1, <2>3, EndOf
    <2>5. ~IsEmpty(x)
      BY <2>3 DEF IsEmpty
    <2>6. ~Overlap(p, x)
      BY <2>5, TopInside
    <2>7. \/ Base(p) >= Base(x) /\ Base(p) <= End(x)
          \/ Base(x) >= Base(p) /\ Base(x) <= End(p)
      BY <1>1, <1>3, <1>4, <2>1, <2>2, <2>4
    <2> QED
      BY <2>6, <2>7 DEF Overlap
  <1> QED
    BY <1>5, <1>6, <1>7

(* Formatting or erasing a row that can be trusted changes nothing outside *)
(* its partition: no table of an open editor, and no other partition of    *)
(* the table that does not wrap.                                           *)
THEOREM FormattingStaysInside == Spec => FormatsInside
  <1> DEFINE IInv == TypeOK /\ Stacked
             A == formats' # formats => \A r \in Rows :
                    Trusted(Top, r) /\ (Format(r) \/ Erase(r)) =>
                      /\ Changing \subseteq Extent(Top.part[r])
                      /\ \A k \in 1 .. Len(stack) : stack[k].base \notin Changing
                      /\ \A q \in Rows \ {r} :
                           Base(Top.part[q]) <= End(Top.part[q])
                             => Changing \cap Extent(Top.part[q]) = {}
  <1>1. Init => IInv
    BY InitType, InitStacked
  <1>2. IInv /\ [Next]_vars => IInv'
    BY TypeStep, StackedStep
  <1>3. IInv /\ [Next]_vars => [A]_vars
    <2> SUFFICES ASSUME IInv, NEW r \in Rows, Trusted(Top, r),
                        Format(r) \/ Erase(r)
                 PROVE  /\ Changing \subseteq Extent(Top.part[r])
                        /\ \A k \in 1 .. Len(stack) : stack[k].base \notin Changing
                        /\ \A q \in Rows \ {r} :
                             Base(Top.part[q]) <= End(Top.part[q])
                               => Changing \cap Extent(Top.part[q]) = {}
      OBVIOUS
    <2>1. PICK n \in Nat, first \in Table :
            /\ n <= Top.part[r].num \/ n <= 1
            /\ Writes(r, n, first) /\ Top.part[r].valid
      BY WriteKeys
    <2> QED
      BY <2>1, WritesInside
  <1> QED
    BY <1>1, <1>2, <1>3, PTL DEF Spec, FormatsInside

-------------------------------------------------------------------------------
(* How the open editors were entered: along rows of their parents' tables  *)
(* that have not changed since, as long as no editor inherits a change.    *)
Leads(e, f, r) ==
  LET p == e.part[r]
  IN  /\ Placed(e, p) /\ p.type \in ExtTypes /\ Base(p) \in Sectors
      /\ f.base = Base(p) /\ f.num = p.num /\ f.obase = p.cbase
      /\ f.onum = p.cnum /\ f.level = e.level + 1
Follows(e, f) == f.sure /\ ~f.inhChanged =>
                   Packed(e.part) = e.orig /\ \E r \in Rows : Leads(e, f, r)
Linked ==
  /\ stack[1].level = 0 /\ stack[1].base = 0 /\ stack[1].num = DiskSize
  /\ stack[1].obase = 0 /\ stack[1].onum = 0
  /\ \A k \in 1 .. Len(stack) - 1 : Follows(stack[k], stack[k + 1])
  /\ \A k \in 1 .. Len(stack) : \A j \in 1 .. k - 1 :
       /\ stack[k].sure => stack[j].sure
       /\ ~stack[k].inhChanged => ~stack[j].inhChanged

LEMMA InitLinked == Init => Linked
  <1> SUFFICES ASSUME Init PROVE Linked
    OBVIOUS
  <1>1. disk \in [Sectors -> Table]
    BY EditorConstants DEF Init
  <1>2. PICK junk \in [Rows -> BOOLEAN] : stack = <<Whole(junk)>>
    BY DEF Init
  <1>3. /\ Whole(junk).level = 0 /\ Whole(junk).base = 0
        /\ Whole(junk).num = DiskSize /\ Whole(junk).obase = 0
        /\ Whole(junk).onum = 0
    BY <1>1, WholeTypes
  <1>4. Len(stack) = 1 /\ stack[1] = Whole(junk)
    BY <1>2
  <1> QED
    BY <1>3, <1>4 DEF Linked

(* Editors that keep their place, but for the one on top also their rows,  *)
(* stay linked.                                                            *)
LEMMA FollowsKept ==
  ASSUME NEW e, NEW f, NEW g, Follows(e, f), SamePlace(g, f)
  PROVE  Follows(e, g)
  <1> SUFFICES ASSUME g.sure, ~g.inhChanged
               PROVE  Packed(e.part) = e.orig /\ \E r \in Rows : Leads(e, g, r)
    BY DEF Follows
  <1>1. f.sure /\ ~f.inhChanged
    BY DEF SamePlace
  <1>2. PICK r \in Rows : Leads(e, f, r)
    BY <1>1 DEF Follows
  <1>3. Leads(e, g, r)
    BY <1>2 DEF Leads, SamePlace
  <1> QED
    BY <1>1, <1>3 DEF Follows

LEMMA LinksKept ==
  ASSUME Linked, Len(stack') \in Nat \ {0}, Len(stack) \in Nat,
         Len(stack') <= Len(stack),
         \A k \in 1 .. Len(stack') : SamePlace(stack'[k], stack[k]),
         \A k \in 1 .. Len(stack') - 1 : stack'[k] = stack[k]
  PROVE  Linked'
  <1>1. SamePlace(stack'[1], stack[1])
    OBVIOUS
  <1>2. /\ stack'[1].level = 0 /\ stack'[1].base = 0 /\ stack'[1].num = DiskSize
        /\ stack'[1].obase = 0 /\ stack'[1].onum = 0
    BY <1>1 DEF Linked, SamePlace
  <1>3. ASSUME NEW k \in 1 .. Len(stack') - 1
        PROVE  Follows(stack'[k], stack'[k + 1])
    <2>1. /\ k \in 1 .. Len(stack) - 1 /\ k + 1 \in 1 .. Len(stack')
          /\ stack'[k] = stack[k]
      OBVIOUS
    <2>2. Follows(stack[k], stack[k + 1])
      BY <2>1 DEF Linked
    <2>3. SamePlace(stack'[k + 1], stack[k + 1])
      BY <2>1
    <2>4. Follows(stack[k], stack'[k + 1])
      BY <2>2, <2>3, FollowsKept
    <2> QED
      BY <2>1, <2>4
  <1>4. ASSUME NEW k \in 1 .. Len(stack'), NEW j \in 1 .. k - 1
        PROVE  /\ stack'[k].sure => stack'[j].sure
               /\ ~stack'[k].inhChanged => ~stack'[j].inhChanged
    <2>1. k \in 1 .. Len(stack) /\ j \in 1 .. Len(stack')
      OBVIOUS
    <2>2. SamePlace(stack'[k], stack[k]) /\ SamePlace(stack'[j], stack[j])
      BY <2>1
    <2>3. /\ stack[k].sure => stack[j].sure
          /\ ~stack[k].inhChanged => ~stack[j].inhChanged
      BY <2>1 DEF Linked
    <2> QED
      BY <2>2, <2>3 DEF SamePlace
  <1> QED
    BY <1>2, <1>3, <1>4 DEF Linked

LEMMA EnterLinked ==
  ASSUME TypeOK, Linked, NEW r \in Rows, Enter(r)
  PROVE  Linked'
  <1>1. PICK rows \in [Rows -> Row] : stack' = Append(stack, Entered(r, rows))
    BY EnterStep
  <1> DEFINE f == Entered(r, rows)
             n == Len(stack)
  <1>2. stack \in Seq(Editor) /\ n \in Nat /\ n \in 1 .. n /\ Top = stack[n]
    BY TopTypes DEF TypeOK
  <1>3. /\ f.sure = (Trusted(Top, r) /\ Top.part[r].valid)
        /\ f.inhChanged = InhChanged(Top)
        /\ f.base = Base(Top.part[r]) /\ f.num = Top.part[r].num
        /\ f.obase = Top.part[r].cbase /\ f.onum = Top.part[r].cnum
        /\ f.level = Top.level + 1
    BY DEF Entered
  <1> HIDE DEF f
  <1>4. /\ Len(stack') = n + 1 /\ stack'[n + 1] = f
        /\ \A k \in 1 .. n : stack'[k] = stack[k]
    BY <1>1, <1>2 DEF f
  <1>5. Top.part[r].type \in ExtTypes /\ Base(Top.part[r]) \in Sectors
    BY DEF Enter, ExtTypes
  <1>6. ASSUME f.sure PROVE Top.sure /\ Placed(Top, Top.part[r])
    BY <1>3, <1>6 DEF Trusted
  <1>7. ASSUME ~f.inhChanged PROVE ~Top.inhChanged /\ Packed(Top.part) = Top.orig
    BY <1>3, <1>7 DEF InhChanged, Changed
  <1>8. Follows(Top, f)
    <2> SUFFICES ASSUME f.sure, ~f.inhChanged
                 PROVE  Packed(Top.part) = Top.orig
                        /\ \E q \in Rows : Leads(Top, f, q)
      BY DEF Follows
    <2>1. Leads(Top, f, r)
      BY <1>3, <1>5, <1>6 DEF Leads
    <2> QED
      BY <1>7, <2>1
  <1>9. ASSUME NEW k \in 1 .. n PROVE Follows(stack'[k], stack'[k + 1])
    <2>1. CASE k = n
      BY <1>2, <1>4, <1>8, <2>1
    <2>2. CASE k # n
      <3>1. k \in 1 .. n - 1 /\ k + 1 \in 1 .. n
        BY <1>2, <2>2
      <3> QED
        BY <1>4, <3>1 DEF Linked
    <2> QED
      BY <2>1, <2>2
  <1>10. ASSUME NEW k \in 1 .. n + 1, NEW j \in 1 .. k - 1
         PROVE  /\ stack'[k].sure => stack'[j].sure
                /\ ~stack'[k].inhChanged => ~stack'[j].inhChanged
    <2>1. j \in 1 .. n /\ stack'[j] = stack[j]
      BY <1>2, <1>4
    <2>2. CASE k # n + 1
      <3>1. k \in 1 .. n /\ stack'[k] = stack[k]
        BY <1>2, <1>4, <2>2
      <3> QED
        BY <2>1, <3>1 DEF Linked
    <2>3. CASE k = n + 1
      <3>1. stack'[k] = f
        BY <1>4, <2>3
      <3>2. /\ Top.sure => stack[j].sure
            /\ ~Top.inhChanged => ~stack[j].inhChanged
        <4>1. CASE j = n
          BY <1>2, <4>1
        <4>2. CASE j # n
          <5>1. j \in 1 .. n - 1
            BY <1>2, <2>1, <4>2
          <5> QED
            BY <1>2, <5>1 DEF Linked
        <4> QED
          BY <4>1, <4>2
      <3> QED
        BY <1>6, <1>7, <2>1, <3>1, <3>2
    <2> QED
      BY <2>2, <2>3
  <1>11. stack'[1] = stack[1] /\ Len(stack') - 1 = n
    BY <1>2, <1>4
  <1> QED
    BY <1>4, <1>9, <1>10, <1>11 DEF Linked

LEMMA LinkedStep == TypeOK /\ Linked /\ [Next]_vars => Linked'
  <1> SUFFICES ASSUME TypeOK, Linked, [Next]_vars PROVE Linked'
    OBVIOUS
  <1>0. Len(stack) \in Nat \ {0}
    BY TopTypes
  <1>1. CASE EditKey
    <2>1. PICK rows \in [Rows -> Row] : NewRows(rows)
      BY <1>1, EditKeyRows
    <2>2. Renewed(rows, Top.orig)
      BY <2>1, NewRowsReplaced
    <2>3. /\ Len(stack') = Len(stack)
          /\ \A k \in 1 .. Len(stack') : SamePlace(stack'[k], stack[k])
          /\ \A k \in 1 .. Len(stack) : k # Len(stack) => stack'[k] = stack[k]
      BY <2>2, TopTypes, TopReplaced
    <2>4. \A k \in 1 .. Len(stack') - 1 : stack'[k] = stack[k]
      BY <1>0, <2>3
    <2> QED
      BY <1>0, <2>3, <2>4, LinksKept
  <1>2. ASSUME NEW r \in Rows, NEW ok \in BOOLEAN, Save(r, ok) PROVE Linked'
    <2> DEFINE part == Recalculated(Top, Top.part, r)
    <2>1. part \in [Rows -> Row] /\ Packed(part) \in Table
      BY TopTypes, RecalculatedTypes, PackedTypes
    <2>2. Renewed(part, Packed(part))
      BY <1>2 DEF Save, Renewed
    <2>3. /\ Len(stack') = Len(stack)
          /\ \A k \in 1 .. Len(stack') : SamePlace(stack'[k], stack[k])
          /\ \A k \in 1 .. Len(stack) : k # Len(stack) => stack'[k] = stack[k]
      <3> HIDE DEF part
      <3> QED
        BY <2>1, <2>2, TopReplaced
    <2>4. \A k \in 1 .. Len(stack') - 1 : stack'[k] = stack[k]
      BY <1>0, <2>3
    <2> QED
      BY <1>0, <2>3, <2>4, LinksKept
  <1>3. ASSUME NEW r \in Rows, Enter(r) PROVE Linked'
    BY <1>3, EnterLinked
  <1>4. CASE Quit
    <2>1. /\ Len(stack') = Len(stack) - 1 /\ Len(stack) > 1
          /\ \A k \in 1 .. Len(stack) - 1 : stack'[k] = stack[k]
      BY <1>4, QuitStep
    <2>2. /\ Len(stack') \in Nat \ {0} /\ Len(stack') <= Len(stack)
          /\ \A k \in 1 .. Len(stack') : SamePlace(stack'[k], stack[k])
          /\ \A k \in 1 .. Len(stack') - 1 : stack'[k] = stack[k]
      BY <1>0, <2>1 DEF SamePlace
    <2> QED
      BY <1>0, <2>2, LinksKept
  <1>5. CASE UNCHANGED stack
    BY <1>5 DEF Linked
  <1> QED
    BY <1>1, <1>2, <1>3, <1>4, <1>5 DEF Next, EditKey, Format, Erase, Writes, vars

-------------------------------------------------------------------------------
(* A reader of the disk finds the row that the screen shows.               *)
LEMMA RowOnDisk ==
  ASSUME TypeOK, OrigOnDisk, NoneLost, NEW k \in 1 .. Len(stack), NEW e,
         e = stack[k], Packed(e.part) = e.orig, ExactlyOnDisk(k),
         NEW r \in Rows, Placed(e, e.part[r]), NEW c,
         c.level = e.level, c.base = e.base, c.num = e.num,
         c.obase = e.obase, c.onum = e.onum
  PROVE  \E q \in Rowset(c) :
           /\ Alike(e.part[r], q) /\ q.num = e.part[r].num
           /\ q.cbase = e.part[r].cbase /\ q.cnum = e.part[r].cnum
           /\ Base(q) = Base(e.part[r])
           /\ e.part[r].type \in ExtTypes
                => q.type \in ExtTypes
  <1> DEFINE p == e.part[r]
             x == disk[c.base][r]
             y == [type |-> x.type, rel |-> x.rel, num |-> x.num,
                   cbase |-> 0, cnum |-> 0]
             q == WithContainer(c, y)
             cb == IF Outer(c, x.type) THEN c.obase ELSE c.base
             cn == IF Outer(c, x.type) THEN c.onum ELSE c.num
  <1>1. e \in Editor /\ p \in Row /\ e.level \in Nat
    <2>1. e \in Editor
      BY DEF TypeOK
    <2>2. e.part \in [Rows -> Row] /\ e.level \in Nat
      BY <2>1 DEF Editor
    <2> QED
      BY <2>1, <2>2
  <1>2. \A s \in Rows : Alike(disk[c.base][s], e.orig[s])
    BY DEF OrigOnDisk, NoneLost
  <1>3. e.orig[r].type = p.type /\ e.orig[r].rel = p.rel /\ e.orig[r].num = p.num
    <2> DEFINE z == [type |-> p.type, rel |-> p.rel, num |-> p.num]
    <2>1. e.orig[r] = z
      BY DEF Packed
    <2>2. z.type = p.type /\ z.rel = p.rel /\ z.num = p.num
      OBVIOUS
    <2> QED
      BY <2>1, <2>2, Zenon
  <1>4. /\ x.rel = p.rel /\ x.num = p.num
        /\ LbaType(x.type) = LbaType(p.type)
    <2>1. Alike(x, e.orig[r])
      BY <1>2
    <2> QED
      BY <1>3, <2>1 DEF Alike
  <1>5. e.level > 1 => (x.type = Ext <=> p.type = Ext)
    BY <1>3 DEF ExactlyOnDisk
  <1>6. Outer(c, x.type) <=> Outer(e, p.type)
    <2>1. CASE e.level > 1
      BY <1>5, <2>1 DEF Outer
    <2>2. CASE ~(e.level > 1)
      BY <1>1, <2>2 DEF Outer
    <2> QED
      BY <2>1, <2>2
  <1>7. /\ p.cbase = (IF Outer(e, p.type) THEN e.obase ELSE e.base)
        /\ p.cnum = (IF Outer(e, p.type) THEN e.onum ELSE e.num)
    <2>1. p = [p EXCEPT !.cbase = IF Outer(e, p.type) THEN e.obase ELSE e.base,
                        !.cnum = IF Outer(e, p.type) THEN e.onum ELSE e.num]
      BY DEF Placed, WithContainer
    <2> QED
      BY <1>1, <2>1 DEF Row
  <1>8. cb = p.cbase /\ cn = p.cnum
    BY <1>6, <1>7
  <1>9. q = [type |-> x.type, rel |-> x.rel, num |-> x.num, cbase |-> cb, cnum |-> cn]
    <2>1. y.type = x.type
      OBVIOUS
    <2>2. q = [y EXCEPT !.cbase = cb, !.cnum = cn]
      <3> HIDE DEF y, x
      <3> QED
        BY <2>1 DEF WithContainer
    <2> HIDE DEF x, cb, cn, q
    <2> QED
      BY <2>2
  <1>10. q \in Rowset(c)
    BY DEF Rowset
  <1> HIDE DEF p, x, q, cb, cn
  <1>11. /\ q.type = x.type /\ q.rel = x.rel /\ q.num = x.num
         /\ q.cbase = cb /\ q.cnum = cn
    BY <1>9
  <1>12. Alike(p, q)
    <2>1. q.rel = p.rel /\ q.num = p.num
      BY <1>4, <1>11
    <2>2. LbaType(p.type) = LbaType(q.type)
      BY <1>4, <1>11
    <2> QED
      BY <2>1, <2>2 DEF Alike
  <1>13. Base(q) = Base(p)
    BY <1>4, <1>8, <1>11 DEF Base
  <1>14. ASSUME p.type \in ExtTypes
         PROVE  q.type \in ExtTypes
    <2>1. LbaType(q.type) = LbaType(p.type)
      BY <1>4, <1>11
    <2> QED
      BY <1>14, <2>1, TypePairs
  <1>15. q.num = p.num /\ q.cbase = p.cbase /\ q.cnum = p.cnum
    BY <1>4, <1>8, <1>11
  <1> QED
    BY <1>10, <1>12, <1>13, <1>14, <1>15 DEF p

(* So does it find the table of an editor in that of the one before.       *)
LEMMA TableOnDisk ==
  ASSUME TypeOK, OrigOnDisk, NoneLost, NEW k \in 1 .. Len(stack) - 1,
         Follows(stack[k], stack[k + 1]), stack[k + 1].sure,
         ~stack[k + 1].inhChanged, ExactlyOnDisk(k)
  PROVE  Where(stack[k + 1]) \in Nested(Where(stack[k]))
  <1> DEFINE e == stack[k]
             f == stack[k + 1]
             c == Where(e)
  <1>0. k \in 1 .. Len(stack)
    BY TopTypes
  <1>1. Packed(e.part) = e.orig
    BY DEF Follows
  <1>2. PICK r \in Rows : Leads(e, f, r)
    BY DEF Follows
  <1>3. /\ c.level = e.level /\ c.base = e.base /\ c.num = e.num
        /\ c.obase = e.obase /\ c.onum = e.onum
    BY DEF Where
  <1> DEFINE p == e.part[r]
  <1>4. /\ Placed(e, p) /\ p.type \in ExtTypes
        /\ Base(p) \in Sectors
        /\ f.base = Base(p) /\ f.num = p.num /\ f.obase = p.cbase
        /\ f.onum = p.cnum /\ f.level = e.level + 1
    BY <1>2 DEF Leads
  <1>5. PICK q \in Rowset(c) :
          /\ q.num = p.num /\ q.cbase = p.cbase /\ q.cnum = p.cnum
          /\ Base(q) = Base(p) /\ q.type \in ExtTypes
    <2> HIDE DEF c
    <2> QED
      BY <1>0, <1>1, <1>3, <1>4, RowOnDisk
  <1>6. [level |-> c.level + 1, base |-> Base(q), num |-> q.num,
         obase |-> q.cbase, onum |-> q.cnum] \in Nested(c)
    <2>1. q \in {x \in Rowset(c) : x.type \in ExtTypes
                                   /\ Base(x) \in Sectors}
      BY <1>4, <1>5
    <2> HIDE DEF c
    <2> QED
      BY <2>1 DEF Nested
  <1>7. Where(f) = [level |-> c.level + 1, base |-> Base(q), num |-> q.num,
                    obase |-> q.cbase, onum |-> q.cnum]
    BY <1>3, <1>4, <1>5 DEF Where
  <1> QED
    BY <1>6, <1>7

LEMMA PathOnDisk ==
  ASSUME TypeOK, Linked, OrigOnDisk, NoneLost, Top.sure, ~Top.inhChanged,
         \A k \in 1 .. Len(stack) - 1 : ExactlyOnDisk(k)
  PROVE  OnDisk
  <1>1. Where(stack[1]) = [level |-> 0, base |-> 0, num |-> DiskSize,
                           obase |-> 0, onum |-> 0]
    BY DEF Linked, Where
  <1>2. Len(stack) \in Nat /\ Top = stack[Len(stack)] /\ Len(stack) \in 1 .. Len(stack)
    BY TopTypes
  <1>3. ASSUME NEW k \in 1 .. Len(stack) - 1
        PROVE  Where(stack[k + 1]) \in Nested(Where(stack[k]))
    <2>1. Follows(stack[k], stack[k + 1])
      BY DEF Linked
    <2>2. stack[k + 1].sure /\ ~stack[k + 1].inhChanged
      <3>1. CASE k + 1 = Len(stack)
        BY <1>2, <3>1
      <3>2. CASE k + 1 # Len(stack)
        <4>1. k + 1 \in 1 .. Len(stack) - 1
          BY <1>2, <3>2
        <4> QED
          BY <1>2, <4>1 DEF Linked
      <3> QED
        BY <3>1, <3>2
    <2> QED
      BY <2>1, <2>2, TableOnDisk
  <1> QED
    BY <1>1, <1>3 DEF OnDisk

LEMMA SaveChanges ==
  ASSUME TypeOK, [Next]_vars, formats' = formats, disk' # disk
  PROVE  Changing = {Top.base} /\ ~Top.inhChanged
  <1>1. ~EditKey
    <2> SUFFICES ASSUME EditKey PROVE FALSE
      OBVIOUS
    <2>1. PICK rows \in [Rows -> Row] : NewRows(rows)
      BY EditKeyRows
    <2> QED
      BY <2>1 DEF NewRows
  <1>2. ASSUME NEW r \in Rows, Format(r) \/ Erase(r) PROVE FALSE
    <2>1. PICK n \in Nat, first \in Table : Writes(r, n, first)
      BY <1>2, WriteKeys
    <2>2. formats \in Nat /\ formats' = formats + 1
      BY <2>1, EditorConstants DEF Writes, TypeOK
    <2> QED
      BY <2>2
  <1>3. \A r \in Rows : ~Enter(r)
    BY DEF Enter
  <1>4. ~Quit /\ ~UNCHANGED vars
    BY DEF Quit, vars
  <1>5. PICK r \in Rows, ok \in BOOLEAN : Save(r, ok)
    BY <1>1, <1>2, <1>3, <1>4 DEF Next, EditKey
  <1>6. disk' = [disk EXCEPT ![Top.base] = Packed(Top.part)] /\ ~Top.inhChanged
    BY <1>5 DEF Save
  <1>7. Top.base \in Sectors /\ disk \in [Sectors -> Table]
    BY TopTypes
  <1>8. \A s \in Sectors : s # Top.base => disk'[s] = disk[s]
    BY <1>6, <1>7
  <1>9. disk'[Top.base] # disk[Top.base]
    <2> SUFFICES ASSUME disk'[Top.base] = disk[Top.base] PROVE FALSE
      OBVIOUS
    <2>1. disk' \in [Sectors -> Table]
      BY <1>5, SaveTypes DEF TypeOK
    <2>2. \A s \in Sectors : disk'[s] = disk[s]
      BY <1>8
    <2> QED
      BY <1>7, <2>1, <2>2
  <1>10. Changing = {Top.base}
    BY <1>7, <1>8, <1>9 DEF Changing
  <1> QED
    BY <1>6, <1>10

(* A save writes the table of the current editor and nothing else, and     *)
(* that only where a reader of the disk will look for it.                  *)
THEOREM SavedTablesAreReachable == Spec => SavesReachable
  <1> DEFINE IInv == TypeOK /\ Stacked /\ OrigOnDisk /\ Linked
             A == (formats' = formats /\ disk' # disk) =>
                    /\ Changing = {Top.base}
                    /\ (/\ NoneLost /\ Top.sure
                        /\ \A k \in 1 .. Len(stack) - 1 : ExactlyOnDisk(k))
                       => OnDisk
  <1>1. Init => IInv
    BY InitType, InitStacked, InitInStep, InitLinked
  <1>2. IInv /\ [Next]_vars => IInv'
    BY TypeStep, StackedStep, InStepStep, LinkedStep
  <1>3. IInv /\ [Next]_vars => [A]_vars
    <2> SUFFICES ASSUME IInv, [Next]_vars, formats' = formats, disk' # disk
                 PROVE  A
      BY DEF A
    <2>1. Changing = {Top.base} /\ ~Top.inhChanged
      BY SaveChanges
    <2>2. ASSUME NoneLost, Top.sure,
                 \A k \in 1 .. Len(stack) - 1 : ExactlyOnDisk(k)
          PROVE  OnDisk
      BY <2>1, <2>2, PathOnDisk
    <2> QED
      BY <2>1, <2>2
  <1> QED
    BY <1>1, <1>2, <1>3, PTL DEF Spec, SavesReachable

LEMMA FormatKey ==
  ASSUME TypeOK, [Next]_vars, formats' # formats
  PROVE  \E r \in Rows : Format(r) \/ Erase(r)
  <1>1. ~EditKey
    <2> SUFFICES ASSUME EditKey PROVE FALSE
      OBVIOUS
    <2>1. PICK rows \in [Rows -> Row] : NewRows(rows)
      BY EditKeyRows
    <2> QED
      BY <2>1 DEF NewRows
  <1> QED
    BY <1>1 DEF Next, EditKey, Save, Enter, Quit, vars

LEMMA FormatsSaved ==
  ASSUME TypeOK, Linked, OrigOnDisk, NoneLost, Top.sure,
         NEW r \in Rows, Format(r) \/ Erase(r), Placed(Top, Top.part[r]),
         \A k \in 1 .. Len(stack) : ExactlyOnDisk(k)
  PROVE  FormatsAsSaved
  <1> DEFINE p == Top.part[r]
  <1>1. ~Top.inhChanged /\ Packed(Top.part) = Top.orig
    BY DEF Format, Erase, InhChanged, Changed
  <1>2. Len(stack) \in 1 .. Len(stack) /\ Top = stack[Len(stack)]
    BY TopTypes
  <1>3. OnDisk
    <2>1. \A k \in 1 .. Len(stack) - 1 : ExactlyOnDisk(k)
      BY <1>2
    <2> QED
      BY <1>1, <2>1, PathOnDisk
  <1>4. PICK q \in Rowset(Top) :
          Alike(p, q) /\ p.cbase = q.cbase /\ p.cnum = q.cnum
    <2>1. ExactlyOnDisk(Len(stack))
      BY <1>2
    <2>2. \E q \in Rowset(Top) :
            Alike(p, q) /\ q.cbase = p.cbase /\ q.cnum = p.cnum
      BY <1>1, <1>2, <2>1, RowOnDisk
    <2> QED
      BY <2>2
  <1>5. PICK n \in Nat, first \in Table :
          (n <= p.num \/ n <= 1) /\ Writes(r, n, first)
    BY WriteKeys
  <1>6. Changing \subseteq Extent(p) \cup {Base(p)}
    <2>1. Base(p) \in Nat /\ p.num \in Nat
      BY TopTypes, RowNumbers, Constants
    <2>2. ASSUME NEW s \in Changing PROVE s \in Extent(p) \cup {Base(p)}
      <3>1. s \in Sectors /\ s \in Nat /\ disk'[s] # disk[s]
        BY DEF Changing, Sectors
      <3>2. s >= Base(p) /\ s < Base(p) + n
        BY <1>5, <3>1, WritesWhere
      <3>3. s = Base(p) \/ (s >= Base(p) /\ s - Base(p) < p.num)
        BY <1>5, <2>1, <3>1, <3>2
      <3> QED
        BY <3>1, <3>3 DEF Extent
    <2> QED
      BY <2>2
  <1> QED
    BY <1>3, <1>4, <1>6 DEF FormatsAsSaved

(* What is formatted or erased is on the disk as it is on the screen.      *)
THEOREM FormatsAreOnDisk == Spec => FormatsWhatDiskSays
  <1> DEFINE IInv == TypeOK /\ Stacked /\ OrigOnDisk /\ Linked
             A == (/\ formats' # formats /\ NoneLost /\ Top.sure
                   /\ \A r \in Rows : Placed(Top, Top.part[r])
                   /\ \A k \in 1 .. Len(stack) : ExactlyOnDisk(k))
                  => FormatsAsSaved
  <1>1. Init => IInv
    BY InitType, InitStacked, InitInStep, InitLinked
  <1>2. IInv /\ [Next]_vars => IInv'
    BY TypeStep, StackedStep, InStepStep, LinkedStep
  <1>3. IInv /\ [Next]_vars => [A]_vars
    <2> SUFFICES ASSUME IInv, [Next]_vars, formats' # formats, NoneLost,
                        Top.sure, \A r \in Rows : Placed(Top, Top.part[r]),
                        \A k \in 1 .. Len(stack) : ExactlyOnDisk(k)
                 PROVE  FormatsAsSaved
      BY DEF A
    <2>1. PICK r \in Rows : Format(r) \/ Erase(r)
      BY FormatKey
    <2> QED
      BY <2>1, FormatsSaved
  <1> QED
    BY <1>1, <1>2, <1>3, PTL DEF Spec, FormatsWhatDiskSays
===============================================================================
