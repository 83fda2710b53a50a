----------------------------- MODULE PromptEditor -----------------------------
(***************************************************************************)
(* The prompt of the terminal client (tui/ratatui/src/app.rs, input.rs):   *)
(* text, cursor and a selection made with the mouse, the palette of        *)
(* commands that opens over it, the selection in the transcript, and the   *)
(* keys that copy, cancel or quit.                                         *)
(*                                                                         *)
(* A character is a grapheme, a position counts those before it.  Where    *)
(* rows wrap and what has been scrolled is left out: a cell of the screen, *)
(* and the row above or below, may be any position.                        *)
(***************************************************************************)
EXTENDS Selections, SequencesExt, FiniteSetsExt

CONSTANTS Characters,  \* the characters that are typed
          Backslash, Newline, Blank,
          Commands,    \* TUI_COMMANDS: a sequence of [command, insertion]
          NoSelection,
          MaxText      \* bounds the text that is typed

\* What a prompt may be made of.
Glyphs ==
  Characters \cup {Newline} \cup UNION {ToSet(c.command) \cup ToSet(c.insertion) : c \in ToSet(Commands)}

ASSUME EditorAssumption == Commands \in Seq([command: Seq(Glyphs), insertion: Seq(Glyphs)])

VARIABLES text,        \* prompt
          cursor,      \* prompt_cursor
          selection,   \* prompt_selection, and the text it was made on (history)
          palette,     \* command_palette_selected and _dismissed, palette_pressed
          transcript,  \* transcript_selection: "none", "pressed" or "dragged"
          scrollbar,   \* scrollbar_dragging
          quit         \* should_quit

editorVars == <<text, cursor, selection, palette, transcript, scrollbar, quit>>

Least(a, b) == IF a < b THEN a ELSE b
Positions   == 0..Len(text)
Unpressed   == -1

EditorInit ==
  /\ text = <<>> /\ cursor = 0
  /\ selection = NoSelection
  /\ palette = [selected |-> 0, open |-> TRUE, pressed |-> Unpressed]
  /\ transcript = "none" /\ scrollbar = FALSE /\ quit = FALSE

-----------------------------------------------------------------------------
\* What is selected.
From(s) == IF s.originStart <= s.activeStart THEN s.originStart ELSE s.activeStart
To(s)   == IF s.originStart <= s.activeStart THEN s.activeEnd ELSE s.originEnd

Dragged  == selection # NoSelection /\ selection.dragged
Selected == Dragged /\ From(selection) < To(selection)

Cut(from, to)   == SubSeq(text, 1, from) \o SubSeq(text, to + 1, Len(text))
Insert(s, c, t) == SubSeq(t, 1, c) \o s \o SubSeq(t, c + 1, Len(t))

\* Every change of the text, and most moves, take the selection.
Put(t, c)  == text' = t /\ cursor' = c /\ selection' = NoSelection
MoveTo(c)  == Put(text, c)
Reset      == palette' = [palette EXCEPT !.selected = 0, !.open = TRUE]
Elsewhere  == UNCHANGED <<transcript, scrollbar, quit>>

\* Mutant: a selection that was not dragged is left as it is.
DrainBeside(from, to) ==
  text' = Cut(from, to) /\ cursor' = from /\ selection' = IF Dragged THEN NoSelection ELSE selection

\* Removes the characters between two positions.
Drain(from, to) == Put(Cut(from, to), from)

-----------------------------------------------------------------------------
\* Words: the blanks to the left and the word before them; the word to the right and the blanks.
IsBlank(i) == text[i] \in {Blank, Newline}

PreviousWord(c) ==
  LET q == Min({i \in 0..c : \A k \in (i + 1)..c : IsBlank(k)})
  IN  Min({i \in 0..q : \A k \in (i + 1)..q : ~IsBlank(k)})

NextWord(c) ==
  LET q == Max({i \in c..Len(text) : \A k \in (c + 1)..i : ~IsBlank(k)})
  IN  Max({i \in q..Len(text) : \A k \in (q + 1)..i : IsBlank(k)})

-----------------------------------------------------------------------------
\* The keys that edit.

InsertText(s) ==
  /\ Len(text) + Len(s) <= MaxText
  /\ LET c == IF Selected THEN From(selection) ELSE cursor
         t == IF Selected THEN Cut(From(selection), To(selection)) ELSE text
     IN  Put(Insert(s, c, t), c + Len(s))
  /\ Reset /\ Elsewhere

\* A key that removes: what is selected, else from one position to another; at the edge nothing
\* but the selection goes.
Erase(edge, from, to) ==
  /\ \/ Selected /\ Drain(From(selection), To(selection)) /\ Reset
     \/ ~Selected /\ edge /\ selection' = NoSelection /\ UNCHANGED <<text, cursor, palette>>
     \/ ~Selected /\ ~edge /\ Drain(from, to) /\ Reset
  /\ Elsewhere

Backspace      == Erase(cursor = 0, cursor - 1, cursor)
Delete         == Erase(cursor = Len(text), cursor, cursor + 1)
DeleteWordLeft == Erase(FALSE, PreviousWord(cursor), cursor)

CutSelection ==
  /\ IF Selected THEN Drain(From(selection), To(selection)) /\ Reset
     ELSE selection' = NoSelection /\ UNCHANGED <<text, cursor, palette>>
  /\ Elsewhere

Clear == Put(<<>>, 0) /\ Reset /\ Elsewhere

-----------------------------------------------------------------------------
\* The keys that move.

MoveLeft  == MoveTo(IF Dragged THEN From(selection) ELSE IF cursor = 0 THEN 0 ELSE cursor - 1)
MoveRight == MoveTo(IF Dragged THEN To(selection) ELSE Least(cursor + 1, Len(text)))

Move ==
  /\ MoveLeft \/ MoveRight \/ MoveTo(PreviousWord(cursor)) \/ MoveTo(NextWord(cursor))
     \/ MoveTo(0) \/ MoveTo(Len(text))
  /\ UNCHANGED palette /\ Elsewhere

\* Another row of the prompt, when it has one.
MoveVertical ==
  /\ ~palette.open /\ text # <<>>
  /\ \E c \in Positions : MoveTo(c)
  /\ UNCHANGED palette /\ Elsewhere

-----------------------------------------------------------------------------
\* The palette: the commands that begin with the prompt, the prompt itself first.
Items ==
  IF ~palette.open THEN <<>>
  ELSE LET starting == {i \in DOMAIN Commands : IsPrefix(text, Commands[i].command)}
           is       == {i \in DOMAIN Commands : Commands[i].command = text}
       IN  Picked(Commands, is) \o Picked(Commands, starting \ is)

\* The command takes the place of the prompt, and the palette closes.
Complete(item, pressed) ==
  LET insertion == Items[item + 1].insertion
  IN  /\ Put(insertion, Len(insertion))
      /\ palette' = [selected |-> 0, open |-> FALSE, pressed |-> pressed]

SelectCommand ==
  /\ palette.selected < Len(Items)
  /\ Complete(palette.selected, palette.pressed)
  /\ Elsewhere

\* The arrows, or the wheel over the palette.
Navigate ==
  /\ palette.open
  /\ LET last == Max({0, Len(Items) - 1})
     IN  \E selected \in {Max({0, palette.selected - 1}), Least(palette.selected + 1, last)} :
           palette' = [palette EXCEPT !.selected = selected]
  /\ UNCHANGED <<text, cursor, selection>> /\ Elsewhere

-----------------------------------------------------------------------------
\* Enter: completes the command, breaks the line after a backslash that no other escapes, or
\* submits.  While the client is busy the prompt stays.
Trailing == cursor - Min({i \in 0..cursor : \A k \in (i + 1)..cursor : text[k] = Backslash})

SubmitPrompt ==
  \/ palette.selected < Len(Items) /\ text # Items[palette.selected + 1].command /\ SelectCommand
  \/ /\ palette.selected < Len(Items) => text = Items[palette.selected + 1].command
     /\ IF Trailing % 2 = 1
        THEN Put(Insert(<<Newline>>, cursor - 1, Cut(cursor - 1, cursor)), cursor) /\ Reset /\ Elsewhere
        ELSE \/ UNCHANGED editorVars
             \/ Put(<<>>, 0) /\ Reset /\ quit' \in {quit, TRUE} /\ UNCHANGED <<transcript, scrollbar>>

\* Ctrl-C copies what is selected in the prompt, else in the transcript, else quits.
CopyOrQuit ==
  /\ quit' = (~Selected /\ transcript # "dragged")
  /\ UNCHANGED <<text, cursor, selection, palette, transcript, scrollbar>>

\* Esc closes the palette, else drops a selection, else quits.
Cancel ==
  /\ palette' = [palette EXCEPT !.open = FALSE]
  /\ selection' = IF palette.open THEN selection ELSE NoSelection
  /\ transcript' = IF palette.open \/ selection # NoSelection THEN transcript ELSE "none"
  /\ quit' = (~palette.open /\ selection = NoSelection /\ transcript = "none")
  /\ UNCHANGED <<text, cursor, scrollbar>>

-----------------------------------------------------------------------------
\* The mouse over the palette, as it was drawn last: the item may be gone.

PalettePress(item) ==
  /\ palette.open
  /\ palette' = [palette EXCEPT !.selected = item, !.pressed = item]
  /\ UNCHANGED <<text, cursor, selection>> /\ Elsewhere

PaletteRelease(item) ==
  /\ palette.open
  /\ \/ /\ item = palette.pressed /\ item < Len(Items)
        /\ Complete(item, Unpressed)
     \/ /\ ~(item = palette.pressed /\ item < Len(Items))
        /\ palette' = [palette EXCEPT !.pressed = Unpressed,
                                      !.selected = IF item = palette.pressed THEN item ELSE @]
        /\ UNCHANGED <<text, cursor, selection>>
  /\ Elsewhere

\* A press elsewhere only closes the palette.
PaletteDismiss ==
  /\ palette.open
  /\ palette' = [palette EXCEPT !.open = FALSE, !.pressed = Unpressed]
  /\ UNCHANGED <<text, cursor, selection>> /\ Elsewhere

\* Other events of the mouse pass; a palette that is closed forgets what was pressed.
Passes == palette' = [palette EXCEPT !.pressed = IF palette.open THEN @ ELSE Unpressed]

-----------------------------------------------------------------------------
\* The mouse over the prompt, the transcript and its scrollbar.

PressScrollbar ==
  /\ ~palette.open /\ Passes
  /\ scrollbar' = TRUE /\ transcript' = "none" /\ selection' = NoSelection
  /\ UNCHANGED <<text, cursor, quit>>

ReleaseScrollbar ==
  /\ scrollbar /\ Passes
  /\ scrollbar' = FALSE
  /\ UNCHANGED <<text, cursor, selection, transcript, quit>>

\* A cell of the prompt: a character, or the end of the text.
CellEnd(c) == Least(c + 1, Len(text))

PressPrompt(c) ==
  /\ ~palette.open /\ Passes
  /\ cursor' = c
  /\ selection' = [originStart |-> c, originEnd |-> CellEnd(c), activeStart |-> c,
                   activeEnd |-> CellEnd(c), dragged |-> FALSE, basis |-> text]
  /\ transcript' = "none"
  /\ UNCHANGED <<text, scrollbar, quit>>

Extended(c, moved) ==
  [selection EXCEPT !.activeStart = c, !.activeEnd = CellEnd(c), !.dragged = @ \/ moved]

\* Wherever the mouse is, once a selection of the prompt exists.
DragPrompt(c) ==
  /\ ~scrollbar /\ selection # NoSelection /\ Passes
  /\ selection' = Extended(c, TRUE)
  /\ cursor' = IF c >= selection.originStart THEN CellEnd(c) ELSE c
  /\ UNCHANGED <<text, transcript, scrollbar, quit>>

\* The release copies what was dragged; a click leaves no selection.
ReleasePrompt(c, moved) ==
  /\ ~scrollbar /\ selection # NoSelection /\ Passes
  /\ selection' = IF Extended(c, moved).dragged THEN Extended(c, moved) ELSE NoSelection
  /\ cursor' = IF Extended(c, moved).dragged /\ c >= selection.originStart THEN CellEnd(c) ELSE c
  /\ UNCHANGED <<text, transcript, scrollbar, quit>>

PressTranscript ==
  /\ ~palette.open /\ Passes
  /\ transcript' \in {"none", "pressed"}
  /\ UNCHANGED <<text, cursor, selection, scrollbar, quit>>

\* Only where no selection of the prompt takes the drag.
DragTranscript ==
  /\ ~scrollbar /\ selection = NoSelection /\ transcript # "none" /\ Passes
  /\ transcript' \in {transcript, "dragged"}
  /\ UNCHANGED <<text, cursor, selection, scrollbar, quit>>

ReleaseTranscript(moved) ==
  /\ ~scrollbar /\ selection = NoSelection /\ transcript # "none" /\ Passes
  /\ transcript' = IF moved \/ transcript = "dragged" THEN "dragged" ELSE "none"
  /\ UNCHANGED <<text, cursor, selection, scrollbar, quit>>

PressElsewhere ==
  /\ ~palette.open /\ Passes
  /\ transcript' = "none" /\ selection' = NoSelection
  /\ UNCHANGED <<text, cursor, scrollbar, quit>>

\* A command that switches the session drops the selection in its transcript.
SwitchSession ==
  /\ transcript' = "none"
  /\ UNCHANGED <<text, cursor, selection, palette, scrollbar, quit>>

-----------------------------------------------------------------------------
Mouse ==
  \/ PressScrollbar \/ ReleaseScrollbar \/ PressTranscript \/ DragTranscript \/ PressElsewhere
  \/ PaletteDismiss
  \/ \E item \in 0..(Len(Commands) - 1) : PalettePress(item) \/ PaletteRelease(item)
  \/ \E c \in Positions : PressPrompt(c) \/ DragPrompt(c) \/ \E moved \in BOOLEAN : ReleasePrompt(c, moved)
  \/ \E moved \in BOOLEAN : ReleaseTranscript(moved)

EditorNext ==
  /\ ~quit
  /\ \/ \E c \in Characters : InsertText(<<c>>)
     \/ Backspace \/ Delete \/ DeleteWordLeft \/ CutSelection \/ Clear
     \/ Move \/ MoveVertical \/ Navigate \/ SelectCommand \/ SubmitPrompt \/ CopyOrQuit \/ Cancel
     \/ Mouse \/ SwitchSession

EditorSpec == EditorInit /\ [][EditorNext]_editorVars

-----------------------------------------------------------------------------
EditorTypeOK ==
  /\ palette.selected \in 0..Len(Commands) /\ palette.open \in BOOLEAN
  /\ palette.pressed \in {Unpressed} \cup 0..(Len(Commands) - 1)
  /\ transcript \in {"none", "pressed", "dragged"}
  /\ scrollbar \in BOOLEAN /\ quit \in BOOLEAN

\* Where the prompt is cut never fails, and a replacement takes what is highlighted: whatever was
\* typed, completed, submitted or dragged in between, the cursor is within the text, and a
\* selection that is still there was made on the text as it is.
SelectionIsCurrent ==
  /\ cursor \in Positions
  /\ selection # NoSelection =>
       /\ selection.basis = text
       /\ 0 <= From(selection) /\ From(selection) <= To(selection) /\ To(selection) <= Len(text)

=============================================================================
