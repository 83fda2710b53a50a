--------------------------- MODULE MCTerminalClient ---------------------------
(***************************************************************************)
(* Small instances, for TLC, of the terminal client: of what it shows of a *)
(* session, and of its prompt.  A behavior is one of a single part, chosen *)
(* at the start; the other stays in its initial state.                     *)
(***************************************************************************)
EXTENDS TerminalClient, PromptEditor

VARIABLE part

TwoTurns == <<"interim", "final">>
Failing  == <<"operation_start", "operation_error">>

SomePlans == {TwoTurns, Failing}

\* A behaviour has a command or a fault, not both.
OneDisturbance == commands + faults <= 1

\* A command that is inserted as it is, and one that is inserted with a blank.
SomeCommands == <<[command |-> <<"/", "a">>, insertion |-> <<"/", "a">>],
                  [command |-> <<"/", "b">>, insertion |-> <<"/", "b", " ">>]>>

\* What is typed: a slash, a letter, a line break and a backslash.
ABackslash == "\\"
SomeCharacters == {"/", "a", "newline", ABackslash}

-----------------------------------------------------------------------------
MCInit == part \in {"session", "prompt"} /\ Init /\ EditorInit

MCNext ==
  /\ UNCHANGED part
  /\ \/ part = "session" /\ Next
     \/ part # "session" /\ UNCHANGED vars
  /\ \/ part = "prompt" /\ EditorNext
     \/ part # "prompt" /\ UNCHANGED editorVars

MCSpec == MCInit /\ [][MCNext]_<<part, vars, editorVars>>

=============================================================================
