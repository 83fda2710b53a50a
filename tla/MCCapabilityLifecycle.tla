----------------------- MODULE MCCapabilityLifecycle -----------------------
(***************************************************************************)
(* Small instances, for TLC, of the lifecycle of capabilities and of the   *)
(* table of protocols that it looks up.  A behavior is one of a single     *)
(* component, chosen at the start; the other stays in its initial state.   *)
(***************************************************************************)
EXTENDS CapabilityLifecycle, ProtocolStore, TLC

VARIABLE component

\* Two releases: the new one rewords one base protocol and drops the other.

Says(t, matched) == [text |-> t, events |-> matched]

OldSeeds == ("first" :> Says("v1", {"chat"})) @@ ("coding" :> Says("v1", {"task"}))
NewSeeds == ("first" :> Says("v2", {"chat", "task"})) @@ ("coding" :> NoSeed)
TwoReleases == ("old" :> OldSeeds) @@ ("new" :> NewSeeds)

Perms == Permutations(Contents)

-----------------------------------------------------------------------------
CapabilitiesInit ==
  /\ component \in {"lifecycle", "protocols"}
  /\ Init /\ ProtocolInit

CapabilitiesNext ==
  /\ UNCHANGED component
  /\ \/ component = "lifecycle" /\ Next
     \/ component # "lifecycle" /\ UNCHANGED vars
  /\ \/ component = "protocols" /\ ProtocolNext
     \/ component # "protocols" /\ UNCHANGED protocolVars

capabilitiesVars == <<component, vars, protocolVars>>

CapabilitiesSpec == CapabilitiesInit /\ [][CapabilitiesNext]_capabilitiesVars

=============================================================================
