-------------------------- MODULE MCScheduleManager --------------------------
(***************************************************************************)
(* Small instances of ScheduleManager for TLC.                             *)
(***************************************************************************)
EXTENDS ScheduleManager, TLC

Def(slug, kind, expr, maxAttempts, deleteAfterRun) ==
  [slug |-> slug, kind |-> kind, expr |-> expr, enabled |-> TRUE,
   maxAttempts |-> maxAttempts, deleteAfterRun |-> deleteAfterRun]

Edit(expr, enabled) == [expr |-> expr, enabled |-> enabled]

CronOnly  == {Def(1, "cron", "good", 0, FALSE)}
CronAndAt == {Def(1, "cron", "good", 0, FALSE), Def(1, "at", "good", 2, TRUE)}
MirrorDefs == {Def(1, kind, expr, 0, FALSE) : kind \in Kinds, expr \in {"good", "bad"}}
                \cup {Def(2, "at", "good", 0, TRUE), Def(2, "cron", "bad", 0, FALSE)}

NoEdits     == {}
PauseResume == {Edit("keep", "off"), Edit("keep", "on")}
AllEdits    == PauseResume \cup {Edit("good", "keep"), Edit("bad", "keep"), Edit("good", "on")}

=============================================================================
