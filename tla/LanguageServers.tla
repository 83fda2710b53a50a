--------------------------- MODULE LanguageServers ---------------------------
(***************************************************************************)
(* The language servers of the coding worker (lsp-client-manager.ts,       *)
(* lsp-json-rpc.ts, lsp-tools.ts).  A tool call opens its document and     *)
(* then sends its request; each time it looks its client up, may start a   *)
(* server and may have to initialize it, with an await in between, while   *)
(* other calls do the same, servers die, and a timer evicts idle clients.  *)
(***************************************************************************)
EXTENDS Integers, FiniteSets

CONSTANTS
  LspCalls,       \* tool calls
  Documents,   \* source files
  LanguageOf,  \* their language, one project root each
  MaxServers,  \* bound on the processes spawned
  NoCall

Languages == {LanguageOf[d] : d \in Documents}
Servers   == 1..MaxServers

VARIABLES
  lspCall,     \* the tool calls
  clients,  \* the client of each language, 0 if none
  server,   \* the processes
  ready,    \* those whose client is initialized
  unanswered,  \* requests without an answer: <<asker, server, method>>
  opened,   \* openDocuments
  told,     \* documents each process was sent (history)
  timer     \* the language whose use scheduled the idle shutdown last

lspVars == <<lspCall, clients, server, ready, unanswered, opened, told, timer>>

Ended == {"answered", "unavailable", "failed"}

LspTypeOK ==
  /\ lspCall \in [LspCalls ->
       [pc: {"idle", "lookup", "resolving", "initializing", "waiting"} \cup Ended,
        stage: {"open", "request"}, document: Documents, server: Servers \cup {0}]]
  /\ clients \in [Languages -> Servers \cup {0}]
  /\ server \in [Servers -> {"none", "alive", "dead"}]
  /\ ready \subseteq Servers
  /\ unanswered \subseteq ((LspCalls \cup {NoCall}) \X Servers \X {"initialize", "request", "shutdown"})
  /\ opened \subseteq Documents
  /\ told \in [Servers -> SUBSET Documents]
  /\ timer \in Languages \cup {NoCall}

LspInit ==
  /\ lspCall = [c \in LspCalls |-> [pc |-> "idle", stage |-> "open", server |-> 0,
                              document |-> CHOOSE d \in Documents : TRUE]]
  /\ clients = [l \in Languages |-> 0]
  /\ server = [s \in Servers |-> "none"]
  /\ ready = {}
  /\ unanswered = {}
  /\ opened = {}
  /\ told = [s \in Servers |-> {}]
  /\ timer = NoCall

-----------------------------------------------------------------------------
Alive(s) == server[s] = "alive"
Language(c) == LanguageOf[lspCall[c].document]

CallMoves(c, pc, s) == [lspCall EXCEPT ![c].pc = pc, ![c].server = s]

\* JsonRpcClient.request: a process that is gone rejects it, if only when written to.
Request(c, s, method, pc, others) ==
  IF Alive(s) THEN unanswered' = others \cup {<<c, s, method>>} /\ lspCall' = CallMoves(c, pc, s)
  ELSE unanswered' = others /\ lspCall' = CallMoves(c, "failed", s)

\* With an initialized client the document is opened, once whatever the client, or the
\* request sent.
Go(c, s, others) ==
  IF lspCall[c].stage = "open"
  THEN /\ lspCall' = [CallMoves(c, "lookup", s) EXCEPT ![c].stage = "request"]
       /\ opened' = opened \cup {lspCall[c].document}
       /\ told' = IF lspCall[c].document \in opened \/ ~Alive(s) THEN told
                  ELSE [told EXCEPT ![s] = @ \cup {lspCall[c].document}]
       /\ unanswered' = others
  ELSE Request(c, s, "request", "waiting", others) /\ UNCHANGED <<opened, told>>

\* A request counts as a use of the client, opening a document does not.
Use(c) == timer' = IF lspCall[c].stage = "request" THEN Language(c) ELSE timer

WithClient(c, s) ==
  IF s \in ready THEN Go(c, s, unanswered)
  ELSE Request(c, s, "initialize", "initializing", unanswered) /\ UNCHANGED <<opened, told>>

\* withDocument, for a file of a known extension.
StartLookup(c) ==
  /\ lspCall[c].pc = "idle"
  /\ \E d \in Documents : lspCall' = [lspCall EXCEPT ![c].pc = "lookup", ![c].document = d]
  /\ UNCHANGED <<clients, server, ready, unanswered, opened, told, timer>>

\* getOrCreateClient finds the client.
LookUp(c) ==
  /\ lspCall[c].pc = "lookup"
  /\ clients[Language(c)] # 0
  /\ WithClient(c, clients[Language(c)])
  /\ Use(c)
  /\ UNCHANGED <<clients, server, ready>>

Miss(c) ==
  /\ lspCall[c].pc = "lookup"
  /\ clients[Language(c)] = 0
  /\ lspCall' = CallMoves(c, "resolving", 0)
  /\ UNCHANGED <<clients, server, ready, unanswered, opened, told, timer>>

\* The command is found and spawned.  Whoever spawns last has the table.
Spawn(c) ==
  /\ lspCall[c].pc = "resolving"
  /\ \E s \in Servers :
       /\ server[s] = "none"
       /\ \A t \in 1..(s - 1) : server[t] # "none"
       /\ server' = [server EXCEPT ![s] = "alive"]
       /\ clients' = [clients EXCEPT ![Language(c)] = s]
       /\ unanswered' = unanswered \cup {<<c, s, "initialize">>}
       /\ lspCall' = CallMoves(c, "initializing", s)
  /\ timer' = Language(c)
  /\ UNCHANGED <<ready, opened, told>>

\* No command or no process: the document is not opened, the request is not available.
Unresolved(c) ==
  /\ lspCall[c].pc = "resolving"
  /\ lspCall' = IF lspCall[c].stage = "open"
                THEN [CallMoves(c, "lookup", 0) EXCEPT ![c].stage = "request"]
                ELSE CallMoves(c, "unavailable", 0)
  /\ UNCHANGED <<clients, server, ready, unanswered, opened, told, timer>>

-----------------------------------------------------------------------------
\* Answers.

Initialized(c, s) ==
  /\ <<c, s, "initialize">> \in unanswered
  /\ ready' = ready \cup {s}
  /\ Go(c, s, unanswered \ {<<c, s, "initialize">>})
  /\ UNCHANGED <<clients, server, timer>>

Answered(c, s) ==
  /\ <<c, s, "request">> \in unanswered
  /\ unanswered' = unanswered \ {<<c, s, "request">>}
  /\ lspCall' = CallMoves(c, "answered", s)
  /\ UNCHANGED <<clients, server, ready, opened, told, timer>>

\* An error in place of the answer.
Refused(c, s) ==
  /\ \E p \in unanswered :
       /\ p[1] = c /\ p[2] = s
       /\ unanswered' = unanswered \ {p}
  /\ lspCall' = CallMoves(c, "failed", s)
  /\ UNCHANGED <<clients, server, ready, opened, told, timer>>

-----------------------------------------------------------------------------
\* Ends.

\* Mutant: the requests of the process are forgotten, not rejected.
Forgotten(gone) == unanswered' = {p \in unanswered : p[2] \notin gone} /\ UNCHANGED lspCall

\* rejectAll: whoever waits for the process fails.
RejectAll(gone) ==
  /\ unanswered' = {p \in unanswered : p[2] \notin gone}
  /\ lspCall' = [c \in LspCalls |->
                IF \E p \in unanswered : p[1] = c /\ p[2] \in gone
                THEN [lspCall[c] EXCEPT !.pc = "failed"] ELSE lspCall[c]]

\* The process exits.  Its client stays in the table.
ServerDies(s) ==
  /\ Alive(s)
  /\ server' = [server EXCEPT ![s] = "dead"]
  /\ RejectAll({s})
  /\ UNCHANGED <<clients, ready, opened, told, timer>>

\* evictIdleClients: every client but perhaps the last used, which is kept when the timer
\* is not late by a millisecond.  Initialized servers are asked to shut down, the others
\* are killed.
Evict ==
  /\ timer # NoCall
  /\ timer' = NoCall
  /\ \E kept \in {{}, {timer}} :
       LET evicted == {clients[l] : l \in Languages \ kept} \ {0}
           asked   == {s \in evicted : Alive(s) /\ s \in ready}
           killed  == {s \in evicted : Alive(s) /\ s \notin ready}
       IN  /\ clients' = [l \in Languages |-> IF l \in kept THEN clients[l] ELSE 0]
           /\ server' = [s \in Servers |-> IF s \in killed THEN "dead" ELSE server[s]]
           /\ unanswered' = {p \in unanswered : p[2] \notin killed}
                            \cup {<<NoCall, s, "shutdown">> : s \in asked}
           /\ lspCall' = [c \in LspCalls |->
                         IF \E p \in unanswered : p[1] = c /\ p[2] \in killed
                         THEN [lspCall[c] EXCEPT !.pc = "failed"] ELSE lspCall[c]]
  /\ UNCHANGED <<ready, opened, told>>

\* disposeClient after the shutdown is answered, with an error or not.
Dispose(s) ==
  /\ <<NoCall, s, "shutdown">> \in unanswered
  /\ server' = [server EXCEPT ![s] = "dead"]
  /\ RejectAll({s})
  /\ UNCHANGED <<clients, ready, opened, told, timer>>

-----------------------------------------------------------------------------
Own(c) == LookUp(c) \/ Miss(c) \/ Spawn(c) \/ Unresolved(c)
ServerReply(c, s) == Initialized(c, s) \/ Answered(c, s) \/ Refused(c, s)

LspNext ==
  \/ \E c \in LspCalls : StartLookup(c) \/ Own(c) \/ \E s \in Servers : ServerReply(c, s)
  \/ \E s \in Servers : ServerDies(s) \/ Dispose(s)
  \/ Evict

LspSpec == LspInit /\ [][LspNext]_lspVars

\* Promises are continued, and a server answers or dies: there is no timeout.
LspFairness ==
  /\ \A c \in LspCalls : WF_lspVars(Own(c))
  /\ \A s \in Servers : WF_lspVars(ServerDies(s) \/ Dispose(s) \/ \E c \in LspCalls : ServerReply(c, s))

LspFairSpec == LspSpec /\ LspFairness

-----------------------------------------------------------------------------
\* Every tool call ends.
CallsEnd == \A c \in LspCalls : lspCall[c].pc # "idle" ~> lspCall[c].pc \in Ended

=============================================================================
