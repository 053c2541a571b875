------------------------------ MODULE TagEditor ------------------------------
(***************************************************************************)
(* The tag editor (jquery.tag-editor.js): a list of tags the user clicks,  *)
(* edits, types over, pastes into and deletes, with the timers that split  *)
(* what was typed or pasted and the animation that ends a deleted tag, and *)
(* the methods a script calls: addTag, removeTag, destroy.                 *)
(*                                                                         *)
(* Handlers run to their end one after the other, but focus() and blur()   *)
(* call the blur handler of the input that loses the focus at once: they   *)
(* are functions from an editor to the editor they leave.                  *)
(***************************************************************************)
EXTENDS Naturals, Sequences, FiniteSets, SequencesExt, FiniteSetsExt

CONSTANTS Tags,      \* texts of tags
          Initial,   \* the tags of the field in the beginning
          Kept,      \* tags that beforeTagDelete() of the page keeps
          Typed,     \* what may be typed or pasted into an input
          MaxCalls,  \* bound: actions of the user and calls of scripts
          None

\* A value of an input: its words, and whether a delimiter is among them.
Value(words, cut) == [words |-> words, cut |-> cut]
Blank == Value(<<>>, FALSE)
Simple(t) == Value(<<t>>, FALSE)

ASSUME TagEditorAssumption ==
    /\ Initial \in Seq(Tags) /\ Kept \subseteq Tags /\ MaxCalls \in Nat
    /\ \A v \in Typed : v.words \in Seq(Tags) /\ (Len(v.words) > 1 => v.cut)

MaxRows == Len(Initial) + 3 * MaxCalls
Ids == 1 .. MaxRows

VARIABLES ed,       \* the editor
          timers,   \* timers[k]: how many timeouts of the paste and the key handler are set
          alive,    \* destroy() has not been called
          calls,
          odd       \* history: what has happened that the editor is not made for

vars == <<ed, timers, alive, calls, odd>>

\* pasted_content and inp: an input of a row, or one that "was" there with its value
NoInput == [row |-> None, was |-> None, val |-> Blank]
Input(id) == [row |-> id, was |-> id, val |-> Blank]

\* ed.rows: the tags from the first to the last.  A row that is active holds an
\* input; "val" is its value, otherwise the text of the tag; "old" is old_tag, None
\* when it has none.
Row(id, val) == [id |-> id, val |-> val, old |-> None, active |-> FALSE, deleted |-> FALSE]
-----------------------------------------------------------------------------
\* Rows.
At(e, id) == CHOOSE i \in 1 .. Len(e.rows) : e.rows[i].id = id
RowOf(e, id) == e.rows[At(e, id)]
Exists(e, id) == \E i \in 1 .. Len(e.rows) : e.rows[i].id = id

Fresh(rows) == Min({id \in Ids : \A i \in 1 .. Len(rows) : rows[i].id # id})

Change(e, id, row) == [e EXCEPT !.rows[At(e, id)] = row]

\* an input that leaves the page is still what pasted_content or inp refers to
Orphan(e, id) ==
    LET orphan(c) == IF c.row = id THEN [c EXCEPT !.row = None, !.val = RowOf(e, id).val] ELSE c
    IN  [e EXCEPT !.held = [k \in DOMAIN e.held |-> orphan(e.held[k])]]

RemoveRow(e, id) ==
    [Orphan(e, id) EXCEPT !.rows = RemoveAt(@, At(e, id)), !.focus = IF @ = id THEN None ELSE @]

\* "remove duplicates": the tags with this text, not one that is being edited
Others(rows, t) == SelectSeq(rows, LAMBDA r : r.active \/ r.val # Simple(t))

\* the tags for getTags() and the field
Listed(rows) ==
    LET shown == SelectSeq(rows, LAMBDA r : ~r.deleted /\ r.val # Blank)
    IN  [i \in 1 .. Len(shown) |-> shown[i].val]

SetPlaceholder(e) ==
    [e EXCEPT !.placeholder = @ \/ (e.list = <<>> /\ \A i \in 1 .. Len(e.rows) : ~e.rows[i].deleted /\ ~e.rows[i].active)]

UpdateGlobals(e) == SetPlaceholder([e EXCEPT !.list = Listed(e.rows)])
-----------------------------------------------------------------------------
\* mutant of Words: only the first one
WordsFirst(v) == IF v.words = <<>> THEN <<>> ELSE <<Head(v.words)>>

\* what split() makes of the value of an input
Words(v) == v.words

\* split_cleanup: each word becomes a tag before the input's row, when there is one
SplitCleanup(e, c) ==
    LET live == c.row # None
        word(acc, t) ==
            LET rest == IF t \in acc.old THEN Others(acc.rows, t) ELSE acc.rows
                at == CHOOSE i \in 1 .. Len(rest) : rest[i].id = c.row
            IN  [rows |-> IF live THEN InsertAt(rest, at, Row(Fresh(rest), Simple(t))) ELSE rest,
                 old |-> acc.old \cup {t}]
        split == FoldLeft(word, [rows |-> e.rows, old |-> {t \in Tags : Contains(e.list, Simple(t))}],
                          Words(IF live THEN RowOf(e, c.row).val ELSE c.val))
        done == [e EXCEPT !.rows = split.rows]
    IN  IF live THEN Change(done, c.row, [RowOf(e, c.row) EXCEPT !.val = Blank, !.old = None])
        ELSE [done EXCEPT !.held = [k \in DOMAIN e.held |-> IF e.held[k] = c THEN NoInput ELSE e.held[k]]]

\* mutant of TakesBack: split_cleanup() does not focus the input
TakesBackUnlessSplit(row) == row.val = Blank /\ row.old \in Kept

\* the blur handler gives the focus back when the page keeps the tag and when it
\* has split what was typed
TakesBack(row) == IF row.val = Blank THEN row.old \in Kept ELSE row.val.cut

\* mutant of Saved: duplicates stay
SavedBeside(e, id, t) ==
    UpdateGlobals(Change(Orphan(e, id), id, [RowOf(e, id) EXCEPT !.active = FALSE, !.old = None]))

\* a tag that was edited is shown again; one that has changed replaces its duplicates
Saved(e, id, t) ==
    LET row == RowOf(e, id)
        shown == Change(Orphan(e, id), id, [row EXCEPT !.active = FALSE, !.old = None])
    IN  IF row.old = t THEN SetPlaceholder(shown)
        ELSE UpdateGlobals(Change([e EXCEPT !.rows = Others(@, t), !.held = shown.held],
                                  id, [row EXCEPT !.active = FALSE, !.old = None]))

Blurred(e, id) ==
    LET row == RowOf(e, id)
    IN  IF row.val = Blank
        THEN IF TakesBack(row) THEN UpdateGlobals(Change(e, id, [row EXCEPT !.val = Simple(row.old)]))
             ELSE IF row.old = "" THEN SetPlaceholder(RemoveRow(e, id))
             ELSE UpdateGlobals(RemoveRow(e, id))
        ELSE IF row.val.cut THEN UpdateGlobals(SplitCleanup(e, Input(id)))
        ELSE Saved(e, id, row.val.words[1])

\* the input with the focus loses it, and may take it back
Leave(e) ==
    IF e.focus = None THEN e
    ELSE LET id == e.focus
         IN  [Blurred(e, id) EXCEPT !.focus = IF TakesBack(RowOf(e, id)) THEN id ELSE None]

\* focus(): an input that takes the focus back keeps it
Focus(e, id) ==
    IF e.focus = id THEN e
    ELSE LET left == Leave(e)
         IN  [left EXCEPT !.focus = IF @ = None THEN id ELSE @]

\* click on a tag: it becomes an input, which gets the focus, then the caret and with
\* it the focus again
Opened(e, id) ==
    LET row == RowOf(e, id)
        open == Change(e, id, [row EXCEPT !.active = TRUE, !.old = IF row.val = Blank THEN "" ELSE row.val.words[1]])
    IN  IF row.active THEN e ELSE Focus(Focus(open, id), id)

OpenNew(e, at) ==
    LET id == Fresh(e.rows)
    IN  Opened([e EXCEPT !.rows = InsertAt(@, at, Row(id, Blank))], id)

\* click on the editor: a new tag, unless the page keeps the one that was left
EditorClicked(e, where) ==
    IF e.focus # None /\ RowOf(e, e.focus).val = Blank /\ TakesBack(RowOf(e, e.focus)) THEN Leave(e)
    ELSE LET left == [Leave(e) EXCEPT !.placeholder = FALSE]
         IN  OpenNew(left, IF where > Len(left.rows) THEN Len(left.rows) + 1 ELSE where)

AtEnd == MaxRows

\* beforeTagDelete(), then the tag is fading
Goes(row) == \A t \in Kept : row.active \/ row.val # Simple(t)

Deleted(e, ids) ==
    LET gone == {i \in 1 .. Len(e.rows) : e.rows[i].id \in ids /\ Goes(e.rows[i])}
        rows == [i \in 1 .. Len(e.rows) |-> IF i \in gone THEN [e.rows[i] EXCEPT !.deleted = TRUE] ELSE e.rows[i]]
    IN  IF gone = {} THEN e ELSE UpdateGlobals([e EXCEPT !.rows = rows])
-----------------------------------------------------------------------------
Init ==
    /\ ed = SetPlaceholder([rows |-> [i \in 1 .. Len(Initial) |-> Row(i, Simple(Initial[i]))],
                            list |-> [i \in 1 .. Len(Initial) |-> Simple(Initial[i])],
                            focus |-> None, placeholder |-> FALSE,
                            held |-> [paste |-> NoInput, key |-> NoInput]])
    /\ timers = [paste |-> 0, key |-> 0]
    /\ alive = TRUE
    /\ calls = 0
    /\ odd = {}

Editing == \E i \in 1 .. Len(ed.rows) : ed.rows[i].active

RowIds == {ed.rows[i].id : i \in 1 .. Len(ed.rows)}
Current == RowOf(ed, ed.focus)

Odd(what, when) == IF when THEN {what} ELSE {}

Acting == alive /\ calls < MaxCalls /\ calls' = calls + 1

\* What the user does with the mouse: the button goes down first, and the input that
\* has the focus loses it.
ClickEditor ==
    /\ Acting
    /\ \E at \in 1 .. Len(ed.rows) + 1 : ed' = EditorClicked(Leave(ed), at)
    /\ UNCHANGED <<timers, alive, odd>>

ClickTag(id) ==
    /\ Acting
    /\ LET left == IF ed.focus = id THEN ed ELSE Leave(ed)
       IN  ed' = IF ~Exists(left, id) THEN left
                 ELSE IF RowOf(left, id).active THEN Focus(left, id) ELSE Opened(left, id)
    /\ odd' = odd \cup Odd("fading tag edited", RowOf(ed, id).deleted)
    /\ UNCHANGED <<timers, alive>>

ClickDelete(id) ==
    /\ Acting
    /\ LET left == Leave(ed)
       IN  ed' = IF ~Exists(left, id) THEN left
                 ELSE IF RowOf(left, id).active THEN Focus(left, id) ELSE Deleted(left, {id})
    /\ UNCHANGED <<timers, alive, odd>>

\* ctrl+click, with the option clickDelete: the tag may be the one that is edited
MouseDelete(id) ==
    /\ Acting
    /\ ed' = Deleted(ed, {id})
    /\ odd' = odd \cup Odd("fading tag edited", RowOf(ed, id).active) \cup Odd("deleted while editing", Editing)
    /\ UNCHANGED <<timers, alive>>

ClickElsewhere ==
    /\ Acting /\ ed.focus # None
    /\ ed' = Leave(ed)
    /\ UNCHANGED <<timers, alive, odd>>

\* backspace, delete or ctrl+x on a selection
DeleteSelected(texts) ==
    /\ Acting
    /\ ed' = Deleted(ed, {id \in RowIds : ~RowOf(ed, id).active /\ \E t \in texts : RowOf(ed, id).val = Simple(t)})
    /\ odd' = odd \cup Odd("deleted while editing", Editing)
    /\ UNCHANGED <<timers, alive>>

\* What the user does with the keyboard, in the input that has the focus.
Entered(v) == Change(ed, ed.focus, [Current EXCEPT !.val = v])

Later(kind, v) ==
    /\ ed' = [Entered(v) EXCEPT !.held[kind] = Input(ed.focus)]
    /\ timers' = [timers EXCEPT ![kind] = @ + 1]

Type(v) ==
    /\ Acting /\ ed.focus # None
    /\ IF v.cut THEN Later("key", v) ELSE ed' = Entered(v) /\ UNCHANGED timers
    /\ UNCHANGED <<alive, odd>>

Paste(v) ==
    /\ Acting /\ ed.focus # None
    /\ Later("paste", v)
    /\ UNCHANGED <<alive, odd>>

Meets(at) ==
    odd' = odd \cup Odd("fading tag edited", ed.rows[at].deleted)
              \cup Odd("its copy visited", 
                     at # At(ed, ed.focus) /\ ToSet(ed.rows[at].val.words) \cap ToSet(Current.val.words) # {})

\* to the tag at a position, which is clicked and gets the caret
Visit(at) ==
    /\ ed' = Focus(Opened(ed, ed.rows[at].id), ed.rows[at].id)
    /\ Meets(at)

KeyBack ==
    /\ Acting /\ ed.focus # None
    /\ LET at == At(ed, ed.focus)
       IN  \/ at > 1 /\ Visit(at - 1)
           \/ /\ at = 1 /\ UNCHANGED odd
              /\ ed' = IF Current.val # Blank THEN OpenNew(ed, 1) ELSE ed
    /\ UNCHANGED <<timers, alive>>

KeyForward ==
    /\ Acting /\ ed.focus # None
    /\ LET at == At(ed, ed.focus)
       IN  \/ at < Len(ed.rows) /\ Visit(at + 1)
           \/ /\ at = Len(ed.rows) /\ UNCHANGED odd
              /\ ed' = IF Current.val # Blank THEN EditorClicked(ed, AtEnd) ELSE ed
    /\ UNCHANGED <<timers, alive>>

KeyHomeEnd ==
    /\ Acting /\ ed.focus # None
    /\ \E at \in {1, Len(ed.rows)} :
         ed' = Opened(ed, ed.rows[at].id) /\ Meets(at)
    /\ UNCHANGED <<timers, alive>>

KeyEscape ==
    /\ Acting /\ ed.focus # None
    /\ ed' = Leave(Entered(IF Current.old \in Tags THEN Simple(Current.old) ELSE Blank))
    /\ UNCHANGED <<timers, alive, odd>>
-----------------------------------------------------------------------------
\* The methods.  With "blur" the editor is not clicked afterwards.  An input that
\* addTag sends "blur" to may take the focus; trigger() then ends in the native
\* blur(), which takes it away again and which no handler hears.
AddTag(v, blur) ==
    /\ Acting
    /\ LET id == Fresh(ed.rows)
           input == [Row(id, v) EXCEPT !.active = TRUE]
           added == [ed EXCEPT !.rows = Append(@, input)]
           saved == IF TakesBack(input) THEN [Focus(Blurred(added, id), id) EXCEPT !.focus = None]
                    ELSE Blurred(added, id)
       IN  ed' = IF blur THEN [saved EXCEPT !.placeholder = FALSE] ELSE EditorClicked(saved, AtEnd)
    /\ odd' = odd \cup Odd("called while editing", Editing) \cup Odd("no tag or several added", v = Blank \/ v.cut)
    /\ UNCHANGED <<timers, alive>>

RemoveTag(t, blur) ==
    /\ Acting
    /\ LET gone == {id \in RowIds : ~RowOf(ed, id).active /\ RowOf(ed, id).val = Simple(t)}
           left == Deleted(ed, gone)
       IN  ed' = IF blur THEN left ELSE EditorClicked(left, AtEnd)
    /\ odd' = odd \cup Odd("called while editing", Editing)
    /\ UNCHANGED <<timers, alive>>

Destroy ==
    /\ Acting
    /\ alive' = FALSE
    /\ ed' = [ed EXCEPT !.focus = None]
    /\ UNCHANGED <<timers, odd>>
-----------------------------------------------------------------------------
\* The timeouts split the input that was pasted or typed into last.
Timeout(kind) ==
    /\ timers[kind] > 0
    /\ timers' = [timers EXCEPT ![kind] = @ - 1]
    /\ LET c == ed.held[kind]
           split == SplitCleanup(ed, c)
       IN  /\ ed' = UpdateGlobals(IF alive /\ c.row # None THEN Focus(split, c.row) ELSE split)
           /\ odd' = odd \cup Odd("late timeout", c.row = None /\ (c.val # Blank \/ Editing))
    /\ UNCHANGED <<alive, calls>>

\* the animation of a deleted tag ends
FadesOut(id) ==
    /\ RowOf(ed, id).deleted
    /\ ed' = SetPlaceholder(RemoveRow(ed, id))
    /\ UNCHANGED <<timers, alive, calls, odd>>

User ==
    \/ ClickEditor \/ ClickElsewhere
    \/ \E id \in RowIds : ClickTag(id) \/ ClickDelete(id) \/ MouseDelete(id)
    \/ \E texts \in SUBSET Tags : DeleteSelected(texts)
    \/ \E v \in Typed : Type(v) \/ Paste(v)
    \/ KeyBack \/ KeyForward \/ KeyHomeEnd \/ KeyEscape

Script ==
    \/ \E v \in Typed, blur \in BOOLEAN : AddTag(v, blur)
    \/ \E t \in Tags, blur \in BOOLEAN : RemoveTag(t, blur)
    \/ Destroy

Later20ms == \E kind \in {"paste", "key"} : Timeout(kind)

Next == User \/ Script \/ Later20ms \/ \E id \in RowIds : FadesOut(id)

Spec == Init /\ [][Next]_vars
-----------------------------------------------------------------------------
\* The type invariant, with what the rows have to do with each other.
TypeOK ==
    /\ \A i, j \in 1 .. Len(ed.rows) : i # j => ed.rows[i].id # ed.rows[j].id
    /\ \A i \in 1 .. Len(ed.rows) :
         /\ ed.rows[i].id \in Ids /\ ed.rows[i].old \in Tags \cup {None, ""}
         /\ ~ed.rows[i].active => Len(ed.rows[i].val.words) = 1 /\ ~ed.rows[i].val.cut
    /\ timers \in [{"paste", "key"} -> Nat]
    /\ \A kind \in {"paste", "key"} : ed.held[kind].row # None =>
           Exists(ed, ed.held[kind].row) /\ RowOf(ed, ed.held[kind].row).active
    /\ calls \in 0 .. MaxCalls

ByScript == {"called while editing", "no tag or several added"}

\* ways in which the list is made while an input still has what is not saved
MadeEarly == ByScript \cup {"deleted while editing", "late timeout"}

\* At most one tag is edited, and it has the focus: every way in which an input loses
\* the focus ends it or gives the focus back.
OneInput ==
    /\ ed.focus # None => Exists(ed, ed.focus) /\ Current.active
    /\ alive /\ odd \cap ByScript = {} => \A i \in 1 .. Len(ed.rows) : ed.rows[i].active => ed.rows[i].id = ed.focus

EditorInv == TypeOK /\ OneInput

\* nothing is being edited and nothing is still to come
Quiet == alive /\ ~Editing /\ timers = [paste |-> 0, key |-> 0]

\* When all is quiet, the list of tags is what is shown, the placeholder stands for
\* an empty list, and no tag is there twice.
QuietList ==
    Quiet /\ odd \cap MadeEarly = {} =>
        /\ ed.list = Listed(ed.rows)
        /\ (\A i \in 1 .. Len(ed.rows) : ~ed.rows[i].deleted) => (ed.placeholder <=> ed.list = <<>>)
        /\ odd = {} => IsInjective(ed.list)

Shown(e) == UNION {ToSet(e.rows[i].val.words) : i \in {j \in 1 .. Len(e.rows) : ~e.rows[j].deleted}}

\* No word is lost when an input loses the focus, when another tag is clicked or
\* visited, or when a timeout splits what was typed.  There are two exceptions: a
\* timeout that comes when the input it was set for has been saved already takes the
\* tag away ("late timeout"), and so does the fading of a tag that is being edited.
KeepsWords ==
    [][ (ClickEditor \/ ClickElsewhere \/ KeyBack \/ KeyForward \/ KeyHomeEnd \/ Later20ms
           \/ \E id \in RowIds : ClickTag(id) \/ FadesOut(id))
        => (Shown(ed) \subseteq Shown(ed') \/ odd' \cap {"late timeout", "fading tag edited"} # {}) ]_vars
=============================================================================
