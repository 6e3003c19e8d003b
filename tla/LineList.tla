------------------------------ MODULE LineList ------------------------------
(***************************************************************************)
(* The editor of a list of lines in the settings (web LineListEditor.tsx,  *)
(* lib/list-selection.ts): rows that are selected with the mouse and the   *)
(* keyboard, edited in place, added, deleted and dragged.  Handlers keep   *)
(* what they know in state and in refs; a click on one row while another   *)
(* one is edited ends that edit first.                                     *)
(***************************************************************************)
EXTENDS Integers, Sequences, SequencesExt

CONSTANTS
  Texts,         \* texts of a line, trimmed and not empty
  Empty,         \* the empty one
  None,
  MaxItems,      \* maxItems
  MaxRows        \* bound: rows that are ever made

\* What an instance has to satisfy.
LineListAssumption ==
  Empty \notin Texts /\ None \notin Nat /\ MaxItems \in Nat /\ MaxRows \in Nat

VARIABLES
  rows,          \* the order of the rows, by id
  text,          \* what stands in each row, by id
  rowSequence,
  selected, anchor, cursor,
  editing, original,
  dragging       \* draggingIds

selection == <<selected, anchor, cursor>>
edit == <<editing, original>>
lineListVars == <<rows, text, rowSequence, selection, edit, dragging>>

Ids == 1 .. MaxRows

-----------------------------------------------------------------------------
(* lib/list-selection.ts                                                   *)

Position(ids, id) == CHOOSE i \in DOMAIN ids : ids[i] = id

Least(S)    == CHOOSE i \in S : \A j \in S : i <= j
Greatest(S) == CHOOSE i \in S : \A j \in S : i >= j

\* ids.filter, as a function of how many ids have been looked at.
Filtered(ids, S) ==
  LET f[n \in 0 .. Len(ids)] ==
        IF n = 0 THEN <<>> ELSE IF ids[n] \in S THEN Append(f[n - 1], ids[n]) ELSE f[n - 1]
  IN f

Keep(ids, S) == Filtered(ids, S)[Len(ids)]
Drop(ids, S) == Keep(ids, ToSet(ids) \ S)

selectRange(ids, from, to) ==
  IF from \notin ToSet(ids) THEN {to}
  ELSE LET ends == {Position(ids, from), Position(ids, to)}
       IN {ids[i] : i \in Least(ends) .. Greatest(ends)}

insertionIndex(ids, S) == Greatest({0} \cup {i \in DOMAIN ids : ids[i] \in S})

selectionAfterRemoval(ids, S) ==
  LET removed == {i \in DOMAIN ids : ids[i] \in S}
      rest    == Drop(ids, S)
  IN IF removed = {} \/ rest = <<>> THEN None
     ELSE rest[Least({Least(removed), Len(rest)})]

\* Mutant: the row at the place of the insertion is overwritten.
moveItemsOver(ids, moving, target, after) ==
  IF target \in moving THEN ids
  ELSE LET rest == Drop(ids, moving)
           at   == Position(rest, target) - (IF after THEN 0 ELSE 1)
       IN SubSeq(rest, 1, at) \o Keep(ids, moving) \o SubSeq(rest, at + 2, Len(rest))

moveItems(ids, moving, target, after) ==
  IF target \in moving THEN ids
  ELSE LET rest == Drop(ids, moving)
           at   == Position(rest, target) - (IF after THEN 0 ELSE 1)
       IN SubSeq(rest, 1, at) \o Keep(ids, moving) \o SubSeq(rest, at + 1, Len(rest))

moveCursor(ids, from, delta) ==
  IF from \notin ToSet(ids) THEN ids[1]
  ELSE ids[Greatest({1, Least({Len(ids), Position(ids, from) + delta})})]

-----------------------------------------------------------------------------
Init ==
  /\ \E n \in 0 .. MaxItems : n <= MaxRows /\ rows = [i \in 1 .. n |-> i] /\ rowSequence = n
  /\ text \in {t \in [Ids -> Texts \cup {Empty}] : \A i \in Ids : t[i] = Empty <=> i > rowSequence}
  /\ selected = {} /\ anchor = None /\ cursor = None
  /\ editing = None /\ original = Empty /\ dragging = {}

\* commitEdit: an empty line is removed, with its selection.
Commit ==
  /\ editing' = None /\ UNCHANGED <<text, original>>
  /\ rows' = IF text[editing] = Empty THEN Drop(rows, {editing}) ELSE rows

Committed(S) == IF text[editing] = Empty THEN S \ {editing} ELSE S

\* Enter, or a click elsewhere (blur).
EndEdit ==
  /\ editing # None
  /\ Commit /\ selected' = Committed(selected)
  /\ UNCHANGED <<rowSequence, anchor, cursor, dragging>>

\* cancelEdit, by the Escape key.
CancelEdit ==
  /\ editing # None /\ editing' = None
  /\ IF original = Empty
     THEN rows' = Drop(rows, {editing}) /\ selected' = {} /\ UNCHANGED text
     ELSE text' = [text EXCEPT ![editing] = original] /\ UNCHANGED <<rows, selected>>
  /\ UNCHANGED <<rowSequence, anchor, cursor, original, dragging>>

Type(t) ==
  /\ editing # None /\ text' = [text EXCEPT ![editing] = t]
  /\ UNCHANGED <<rows, rowSequence, selection, edit, dragging>>

StartEdit(id) ==
  /\ editing' = id /\ original' = text[id]
  /\ UNCHANGED <<rows, text, rowSequence, dragging>>

\* addRow: below the selection.  The edit of another row ends before the click.
Add ==
  /\ editing = None /\ Len(rows) < MaxItems /\ rowSequence < MaxRows
  /\ LET id == rowSequence + 1 IN
     /\ rows' = InsertAt(rows, insertionIndex(rows, selected) + 1, id)
     /\ rowSequence' = id /\ text' = [text EXCEPT ![id] = Empty]
     /\ selected' = {id} /\ anchor' = id /\ cursor' = id
     /\ editing' = id /\ original' = Empty
  /\ UNCHANGED dragging

\* removeSelected, by the button or the Delete key.
RemoveSelected ==
  /\ editing = None /\ selected # {}
  /\ LET next == selectionAfterRemoval(rows, selected) IN
     /\ selected' = IF next = None THEN {} ELSE {next}
     /\ anchor' = next /\ cursor' = next
  /\ rows' = Drop(rows, selected)
  /\ UNCHANGED <<text, rowSequence, edit, dragging>>

EndsEdit == IF editing = None THEN UNCHANGED <<rows, text, edit>> ELSE Commit

\* handleRowMouseDown: with Ctrl, with Shift, or plain.  What it adds to is the
\* selection of before the edit ended.
MouseDown(id) ==
  /\ id \in ToSet(rows) \ {editing}
  /\ EndsEdit
  /\ \/ /\ selected' = IF id \in selected THEN selected \ {id} ELSE selected \cup {id}
        /\ anchor' = id
     \/ selected' = selectRange(rows, anchor, id) /\ UNCHANGED anchor
     \/ selected' = {id} /\ anchor' = id
  /\ cursor' = id
  /\ UNCHANGED <<rowSequence, dragging>>

\* handleRowClick on a row that was the only one selected.
ClickAgain(id) ==
  /\ editing = None /\ selected = {id} /\ id \in ToSet(rows)
  /\ StartEdit(id)
  /\ anchor' = id /\ cursor' = id /\ UNCHANGED selected

\* handleListKeyDown: Enter or F2; Ctrl and A; the arrows.
Enter ==
  /\ editing = None
  /\ \E id \in {i \in DOMAIN rows : rows[i] \in selected} :
       /\ \A j \in 1 .. id - 1 : rows[j] \notin selected
       /\ StartEdit(rows[id])
  /\ UNCHANGED selection

SelectAll ==
  /\ editing = None /\ selected' = ToSet(rows)
  /\ UNCHANGED <<rows, text, rowSequence, anchor, cursor, edit, dragging>>

Arrow(delta) ==
  /\ editing = None /\ rows # <<>>
  /\ LET next == moveCursor(rows, cursor, delta)
         from == IF anchor # None THEN anchor ELSE IF cursor # None THEN cursor ELSE next
     IN /\ \/ selected' = selectRange(rows, from, next) /\ anchor' = from
           \/ selected' = {next} /\ anchor' = next
        /\ cursor' = next
  /\ UNCHANGED <<rows, text, rowSequence, edit, dragging>>

\* handleDragStart, which follows a mousedown on the row: the selected rows move if it
\* is one of them.
DragStart(id) ==
  /\ cursor = id /\ editing # id /\ id \in ToSet(rows)
  /\ dragging' = IF id \in selected THEN selected ELSE {id}
  /\ selected' = dragging'
  /\ UNCHANGED <<rows, text, rowSequence, anchor, cursor, edit>>

\* handleDrop.
DropOn(id, after) ==
  /\ dragging # {} /\ id \in ToSet(rows)
  /\ rows' = moveItems(rows, dragging, id, after) /\ dragging' = {}
  /\ UNCHANGED <<text, rowSequence, selection, edit>>

DragEnd ==
  /\ dragging # {} /\ dragging' = {}
  /\ UNCHANGED <<rows, text, rowSequence, selection, edit>>

-----------------------------------------------------------------------------
Input ==
  \/ EndEdit \/ CancelEdit \/ Add \/ RemoveSelected \/ Enter \/ SelectAll
  \/ \E t \in Texts \cup {Empty} : Type(t)
  \/ \E id \in Ids : MouseDown(id) \/ ClickAgain(id) \/ DragStart(id)
  \/ \E delta \in {-1, 1} : Arrow(delta)

Next ==
  \/ dragging = {} /\ Input
  \/ DragEnd
  \/ \E id \in Ids, after \in BOOLEAN : DropOn(id, after)

Spec == Init /\ [][Next]_lineListVars

-----------------------------------------------------------------------------
(* Properties                                                              *)

\* Rows that are not selected, edited or dragged keep their text and their order, and
\* dragging loses none, whatever the selection has come to (LineListEditor.tsx).
RowsKept ==
  [][LET others == ToSet(rows) \ (selected \cup dragging \cup {editing}) IN
     /\ Keep(rows', others) = Keep(rows, others)
     /\ \A id \in others : text'[id] = text[id]
     /\ dragging # {} => ToSet(rows') = ToSet(rows)]_lineListVars
=============================================================================
