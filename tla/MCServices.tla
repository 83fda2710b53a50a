------------------------------ MODULE MCServices ------------------------------
(***************************************************************************)
(* Small instances, for TLC, of the services around the agents that keep   *)
(* to their own state: structured memory, the routing of messages to       *)
(* sessions, the indexes of documents, the handoff of capabilities, the    *)
(* tools of schedules, the budget of a session and the telemetry.  A       *)
(* behavior is one of a single component, chosen at the start; the others  *)
(* stay in their initial state.                                            *)
(***************************************************************************)
EXTENDS StructuredMemory, SessionRouting, DocumentIndex, CapabilityHandoff, ScheduleTools,
        ContextBudget, RunTelemetry

VARIABLE component

\* Structured memory: every record is in the scope of one project.
OneProject == {{"project"}}

\* No part tells the calls, or the actors, apart.
Perms == Permutations(MemoryCalls) \cup Permutations(Actors)

-----------------------------------------------------------------------------
ServicesInit ==
  /\ component \in {"memory", "routing", "indexes", "handoffs", "schedules",
                   "budgets", "telemetry"}
  /\ MemoryInit /\ RoutingInit /\ ScheduleToolsInit /\ TelemetryInit
  /\ IndexInit /\ (component # "indexes" => disk = [f \in Files |-> Gone])
  /\ HandoffInit /\ (component # "handoffs" => kind = "skill")
  /\ BudgetInit /\ (component # "budgets" => leaf = 0)

ServicesNext ==
  /\ UNCHANGED component
  /\ \/ component = "memory" /\ MemoryNext
     \/ component # "memory" /\ UNCHANGED memoryVars
  /\ \/ component = "routing" /\ RoutingNext
     \/ component # "routing" /\ UNCHANGED routingVars
  /\ \/ component = "indexes" /\ IndexNext
     \/ component # "indexes" /\ UNCHANGED indexVars
  /\ \/ component = "handoffs" /\ HandoffNext
     \/ component # "handoffs" /\ UNCHANGED handoffVars
  /\ \/ component = "schedules" /\ ScheduleToolsNext
     \/ component # "schedules" /\ UNCHANGED scheduleToolsVars
  /\ \/ component = "budgets" /\ BudgetNext
     \/ component # "budgets" /\ UNCHANGED budgetVars
  /\ \/ component = "telemetry" /\ TelemetryNext
     \/ component # "telemetry" /\ UNCHANGED telemetryVars

servicesVars == <<component, memoryVars, routingVars, indexVars, handoffVars, scheduleToolsVars,
                  budgetVars, telemetryVars>>

ServicesSpec == ServicesInit /\ [][ServicesNext]_servicesVars

=============================================================================
