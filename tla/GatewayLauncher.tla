---------------------------- MODULE GatewayLauncher ----------------------------
(***************************************************************************)
(* How a terminal client comes by a server and leaves it: gateway.rs of    *)
(* the Ratatui client and server-manager.ts of the Ink client.  A client   *)
(* uses what answers on the port or starts a server of its own, waits for  *)
(* the port to answer, and at the end stops what it started.  Several      *)
(* clients may do so at once, beside a gateway that is run otherwise; one  *)
(* server at most has the port.                                            *)
(***************************************************************************)
EXTENDS Naturals

CONSTANTS
  Ratatui, Ink,  \* the clients, each of which starts at most one server
  MaxProbes      \* probes of the port until the deadline of 120 seconds

VARIABLES
  client,    \* what each client does
  started,   \* the clients that report a server as their own
  probes,    \* probes each made while it waits
  gateway,    \* the server that each started
  outside    \* a gateway run otherwise has the port

launcherVars == <<client, started, probes, gateway, outside>>

Clients == Ratatui \cup Ink

LauncherTypeOK ==
  /\ client \in [Clients -> {"check", "start", "wait", "probe", "ready", "stop", "grace",
                             "join", "done", "killed"}]
  /\ started \subseteq Clients
  /\ probes \in [Clients -> 0..MaxProbes]
  /\ gateway \in [Clients -> {"none", "booting", "listening", "dead"}]
  /\ outside \in BOOLEAN

LauncherInit ==
  /\ client = [c \in Clients |-> "check"]
  /\ started = {}
  /\ probes = [c \in Clients |-> 0]
  /\ gateway = [c \in Clients |-> "none"]
  /\ outside \in BOOLEAN

Goes(c, pc) == client' = [client EXCEPT ![c] = pc]
Live(c) == gateway[c] \in {"booting", "listening"}
PortFree == ~outside /\ \A c \in Clients : gateway[c] # "listening"

-----------------------------------------------------------------------------
\* The servers.

\* It takes the port, or ends for it is taken.
Bind(c) ==
  /\ gateway[c] = "booting"
  /\ gateway' = [gateway EXCEPT ![c] = IF PortFree THEN "listening" ELSE "dead"]
  /\ UNCHANGED <<client, started, probes, outside>>

\* By itself, or as it was asked to.
GatewayDies(c) ==
  /\ Live(c)
  /\ gateway' = [gateway EXCEPT ![c] = "dead"]
  /\ UNCHANGED <<client, started, probes, outside>>

Outside ==
  /\ outside \/ PortFree
  /\ outside' = ~outside
  /\ UNCHANGED <<client, started, probes, gateway>>

-----------------------------------------------------------------------------
\* The clients.

\* A server that is up may still fail to answer in time.
CheckHealth(healthy) == healthy => ~PortFree

UseOrStart(c) ==
  /\ client[c] = "check"
  /\ \E healthy \in BOOLEAN : CheckHealth(healthy) /\ Goes(c, IF healthy THEN "ready" ELSE "start")
  /\ UNCHANGED <<started, probes, gateway, outside>>

StartServer(c) ==
  /\ client[c] = "start"
  /\ Goes(c, "wait")
  /\ gateway' = [gateway EXCEPT ![c] = "booting"]
  /\ UNCHANGED <<started, probes, outside>>

\* No package, no node, or the child cannot be made.
CannotStart(c) ==
  /\ client[c] = "start"
  /\ Goes(c, "done")
  /\ UNCHANGED <<started, probes, gateway, outside>>

\* Before the deadline: the child is looked at, then the port is asked.
Inspect(c) ==
  /\ client[c] = "wait" /\ probes[c] < MaxProbes
  /\ Live(c)
  /\ Goes(c, "probe")
  /\ UNCHANGED <<started, probes, gateway, outside>>

\* Whichever server it is that answers.
Probe(c) ==
  /\ client[c] = "probe"
  /\ \E healthy \in BOOLEAN :
       /\ CheckHealth(healthy)
       /\ Goes(c, IF healthy THEN "ready" ELSE "wait")
       /\ started' = IF healthy THEN started \cup {c} ELSE started
       /\ probes' = [probes EXCEPT ![c] = IF healthy THEN @ ELSE @ + 1]
  /\ UNCHANGED <<gateway, outside>>

\* Mutant: an error of the wait is returned at once.
Abandoned(c) == Goes(c, "done")

\* The server is stopped before the error is returned.
Abandon(c) == Goes(c, "stop")

\* The child is dead or the deadline has passed; gateway.rs may also fail to look at it.
WaitFails(c) ==
  /\ client[c] = "wait"
  /\ ~Live(c) \/ probes[c] = MaxProbes \/ c \in Ratatui
  /\ Abandon(c)
  /\ UNCHANGED <<started, probes, gateway, outside>>

\* Quit, or a panic, after which the handle is dropped.
Quit(c) ==
  /\ client[c] = "ready"
  /\ Goes(c, IF c \in started THEN "stop" ELSE "done")
  /\ UNCHANGED <<started, probes, gateway, outside>>

\* What waits for the threads that copy the output of the child.
Joins(c) == IF c \in Ratatui THEN "join" ELSE "done"

\* A server that has ended is let be, another is asked to end.
StopServer(c) ==
  /\ client[c] = "stop"
  /\ Goes(c, IF Live(c) THEN "grace" ELSE Joins(c))
  /\ UNCHANGED <<started, probes, gateway, outside>>

EndsInTime(c) ==
  /\ client[c] = "grace" /\ ~Live(c)
  /\ Goes(c, Joins(c))
  /\ UNCHANGED <<started, probes, gateway, outside>>

\* Mutant: the grace is all there is.
LeftAlive(c) == UNCHANGED gateway

Killed(c) == gateway' = [gateway EXCEPT ![c] = "dead"]

\* Five seconds have passed.
Kill(c) ==
  /\ client[c] = "grace"
  /\ Killed(c)
  /\ Goes(c, Joins(c))
  /\ UNCHANGED <<started, probes, outside>>

\* The pipes close when the server has ended.
Join(c) ==
  /\ client[c] = "join" /\ ~Live(c)
  /\ Goes(c, "done")
  /\ UNCHANGED <<started, probes, gateway, outside>>

\* No destructor runs.
Crash(c) ==
  /\ client[c] \notin {"done", "killed"}
  /\ Goes(c, "killed")
  /\ UNCHANGED <<started, probes, gateway, outside>>

ClientStep(c) ==
  \/ UseOrStart(c) \/ StartServer(c) \/ CannotStart(c) \/ Inspect(c) \/ Probe(c) \/ WaitFails(c)
  \/ StopServer(c) \/ EndsInTime(c) \/ Kill(c) \/ Join(c)

LauncherNext ==
  \/ Outside
  \/ \E c \in Clients : ClientStep(c) \/ Quit(c) \/ Crash(c) \/ Bind(c) \/ GatewayDies(c)

\* The threads of a client run on, its clock too; servers owe nothing.
LauncherFairness == \A c \in Clients : WF_launcherVars(ClientStep(c))

LauncherSpec == LauncherInit /\ [][LauncherNext]_launcherVars /\ LauncherFairness

-----------------------------------------------------------------------------
\* A server that a client started runs only while that client uses it or stops it, or
\* after the client was killed: no failed start and no quit leaves one behind, however
\* the child, the port and the other clients raced ("it only cleans up the child server
\* it started", docs/operations/product-tui.md).
ServersAreHeld ==
  \A c \in Clients :
    Live(c) => client[c] \in {"wait", "probe", "ready", "stop", "grace", "killed"}

\* A launch ends in a client that is ready or in an error, and a quit ends, also when the
\* server never answers and when it does not heed the request to end.
LaunchEnds ==
  \A c \in Clients : client[c] # "ready" ~> client[c] \in {"ready", "done", "killed"}

=============================================================================
