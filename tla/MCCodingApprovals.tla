-------------------------- MODULE MCCodingApprovals --------------------------
(***************************************************************************)
(* Small instances, for TLC, of the approvals of coding tasks and of the   *)
(* file of runtime configuration, which is changed only with one.  A       *)
(* behavior is one of a single component, chosen at the start; the other   *)
(* stays in its initial state.                                             *)
(***************************************************************************)
EXTENDS CodingApprovals, RuntimeConfiguration, TLC

VARIABLE component

Perms == Permutations(Operators)

-----------------------------------------------------------------------------
\* A number with a deprecated name, and a secret that may hold quotes and backslashes.

TextSaying(w) == [word |-> w, slashes |-> 0, quoted |-> FALSE]
QuotedText    == [word |-> "b", slashes |-> 1, quoted |-> TRUE]
SomeLines(f)  == [n \in Names |-> IF n \in DOMAIN f THEN f[n] ELSE Absent]

CountIsCanonical == [a \in Aliases |-> "count"]
ExampleOfCount   == [k \in ConfigKeys |-> IF k = "count" THEN TextSaying("8") ELSE Blank]
AskFive          == {TextSaying("5")}

\* By hand: an alias and a secret; a file that others can read; a key given twice.
SomeFiles ==
  {[owned |-> TRUE, lines |-> SomeLines(("old count" :> TextSaying("5")) @@ ("secret" :> QuotedText))],
   [owned |-> FALSE, lines |-> SomeLines("secret" :> TextSaying("b"))],
   [owned |-> TRUE, lines |-> SomeLines(("old count" :> TextSaying("5")) @@ ("count" :> TextSaying("8")))]}

SomeLegacyFiles ==
  {SomeLines(("old count" :> TextSaying("8")) @@ ("PATH" :> TextSaying("b"))),
   SomeLines("secret" :> QuotedText)}

InheritsAll ==
  {SomeLines(("secret" :> TextSaying("5")) @@ ("old count" :> TextSaying("8")) @@ ("PATH" :> TextSaying("b")))}

-----------------------------------------------------------------------------
ApprovalsInit ==
  /\ component \in {"approvals", "configuration"}
  /\ Init /\ ConfigInit

ApprovalsNext ==
  /\ UNCHANGED component
  /\ \/ component = "approvals" /\ Next
     \/ component # "approvals" /\ UNCHANGED vars
  /\ \/ component = "configuration" /\ ConfigNext
     \/ component # "configuration" /\ UNCHANGED configVars

approvalsVars == <<component, vars, configVars>>

ApprovalsSpec == ApprovalsInit /\ [][ApprovalsNext]_approvalsVars

=============================================================================
