---------------------------- MODULE MCWorkerTools ----------------------------
(***************************************************************************)
(* Small instances, for TLC, of the tools of the coding worker that keep   *)
(* to their own state: language servers, edit transactions, clones and the *)
(* registry, and GitHub; and of the launcher of the server they run in.    *)
(* A behavior is one of a single component, chosen at the start; the       *)
(* others stay in their initial state, or, the launcher, in its last.      *)
(***************************************************************************)
EXTENDS LanguageServers, EditTransactions, RepositoryRegistry, GithubTools, GatewayLauncher, TLC

VARIABLE component

\* Two documents of one language and project: two calls start up to three servers.
OneLanguage == [d \in Documents |-> "ts"]

-----------------------------------------------------------------------------
\* Two files, one of them new, and pieces of text "a", "b" and "c".

Path(f, spelling) == <<f, spelling>>
WriteTo(f, content) == [path |-> Path(f, "plain"), content |-> content]
EditOf(f, spelling, oldText, newText, expected) ==
  [path |-> Path(f, spelling), oldText |-> oldText, newText |-> newText, expected |-> expected]

SomeOriginals == {("f" :> content) @@ ("g" :> <<"a", "c">>) @@ ("new" :> Missing) :
                    content \in {<<"a", "b">>, <<"a", "a">>, <<"a", Binary>>}}

SomeTransactions ==
  {[writes |-> writes, edits |-> edits] :
     writes \in {<<>>, <<WriteTo("new", <<"c">>)>>, <<WriteTo("g", <<"c">>), WriteTo("new", <<"c">>)>>,
                  <<WriteTo("f", <<"c">>), WriteTo("f", <<"b">>)>>},
     edits \in {<<>>, <<EditOf("f", "plain", "a", "c", 1), EditOf("g", "plain", "c", "b", 0)>>,
                 <<EditOf("f", "plain", "a", "b", 0), EditOf("f", "plain", "b", "c", 1)>>,
                 <<EditOf("g", "plain", "a", "b", 0), EditOf("g", "dotted", "c", "b", 0)>>}}

SomePatches == {[path |-> Path("f", "plain"), edits |-> <<EditOf("f", "plain", "a", "b", 0)>>],
                [path |-> Path("g", "plain"), edits |-> <<EditOf("g", "plain", "b", "c", 0)>>]}

-----------------------------------------------------------------------------
ToolsInit ==
  /\ component \in {"language servers", "edits", "clones", "github", "launcher"}
  /\ LspInit
  /\ EditInit /\ (component # "edits" => files = CHOOSE original \in Originals : TRUE)
  /\ RegistryInit /\ (component # "clones" => disk = [s \in Slugs |-> "none"])
  /\ GithubInit
  /\ IF component = "launcher" THEN LauncherInit
     ELSE /\ client = [c \in Clients |-> "done"]
          /\ started = {} /\ outside = FALSE
          /\ probes = [c \in Clients |-> 0]
          /\ gateway = [c \in Clients |-> "none"]

ToolsNext ==
  /\ UNCHANGED component
  /\ \/ component = "language servers" /\ LspNext
     \/ component # "language servers" /\ UNCHANGED lspVars
  /\ \/ component = "edits" /\ EditNext
     \/ component # "edits" /\ UNCHANGED editVars
  /\ \/ component = "clones" /\ RegistryNext
     \/ component # "clones" /\ UNCHANGED registryVars
  /\ \/ component = "github" /\ GithubNext
     \/ component # "github" /\ UNCHANGED githubVars
  /\ \/ component = "launcher" /\ LauncherNext
     \/ component # "launcher" /\ UNCHANGED launcherVars

toolsVars == <<component, lspVars, editVars, registryVars, githubVars, launcherVars>>

\* A component that does not run owes nothing: no call is open, and the clients have left.
ToolsSpec == ToolsInit /\ [][ToolsNext]_toolsVars /\ LspFairness /\ LauncherFairness

=============================================================================
