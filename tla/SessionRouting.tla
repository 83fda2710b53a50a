---------------------------- MODULE SessionRouting ----------------------------
(***************************************************************************)
(* Which session a message belongs to (session-routing.ts): the routes and *)
(* commands of web and terminal clients, and the Telegram channel with the *)
(* routes that administer it (chat-sessions.ts, chat-events.ts,            *)
(* telegram.ts, telegram-admin.ts).  An identity is a connector, an actor  *)
(* and a conversation with its thread.  Every operation is synchronous up  *)
(* to the record of its event.                                             *)
(***************************************************************************)
EXTENDS Integers, Sequences, FiniteSets, TLC

CONSTANTS
  Senders,
  Chats,        \* conversations
  Private,      \* those that Telegram calls private
  Configured,   \* the users of TELEGRAM_APPROVED_USER_IDS
  Names,        \* names of sessions, and the ids that web clients invent
  MaxSessions,  \* bound on the sessions with generated ids
  MaxMessages,    \* bound on the events
  NoSession,
  NoName,
  NoGroup

SessionIds == 1..MaxSessions

\* NoSession is not the id of a session, generated or invented by a client.
ASSUME RoutingAssumption == NoSession \notin SessionIds \cup Names

Identities == [connector: {"web-api", "tui", "telegram"}, actor: Senders, chat: Chats]
Policies == {"disabled", "allowlist", "pairing"}
Groups == [requireMention: BOOLEAN, allowFrom: SUBSET Senders]

VARIABLES
  sessions,  \* chat_sessions: owner and explicit name by id
  active,    \* active_sessions
  events,    \* normalized_message_events: identity and session
  allowed,   \* telegram_allowed_users
  policy,    \* the setting dmPolicy
  groups     \* telegram_groups

routingVars == <<sessions, active, events, allowed, policy, groups>>
settings == <<allowed, policy, groups>>

RoutingTypeOK ==
  /\ DOMAIN sessions \subseteq SessionIds \cup Names
  /\ \A s \in DOMAIN sessions : sessions[s] \in [owner: Identities, name: Names \cup {NoName}]
  /\ active \in [Identities -> SessionIds \cup Names \cup {NoSession}]
  /\ \A n \in DOMAIN events :
       events[n] \in [by: Identities, session: SessionIds \cup Names \cup {NoSession}]
  /\ Len(events) <= MaxMessages
  /\ allowed \subseteq Senders
  /\ policy \in Policies
  /\ groups \in [Chats \ Private -> Groups \cup {NoGroup}]

RoutingInit ==
  /\ sessions = <<>>
  /\ active = [i \in Identities |-> NoSession]
  /\ events = <<>>
  /\ allowed = {}
  /\ policy = "pairing"
  /\ groups = [g \in Chats \ Private |-> NoGroup]

-----------------------------------------------------------------------------
\* session-routing.ts

\* Mutant: a session is anyone's who knows it.
Anyones(i) == DOMAIN sessions

\* assertSessionBelongsToIdentity
Owned(i) == {s \in DOMAIN sessions : sessions[s].owner = i}

Named(i, name) == {s \in DOMAIN sessions : sessions[s].owner = i /\ sessions[s].name = name}

\* What resumeOwnedChatSession finds: the session with that id, or those of that name.
\* It refuses unless there is one.
FoundSessions(i, selector) ==
  IF selector \in DOMAIN sessions THEN {selector} \cap Owned(i) ELSE Named(i, selector)

NotFound(i, selector) == selector \notin DOMAIN sessions /\ Named(i, selector) = {}

\* Telegram's session stays the active one.
Activated(i, s) == IF i.connector = "telegram" THEN [active EXCEPT ![i] = s] ELSE active

CreateSession(i, s, name) ==
  /\ sessions' = [t \in DOMAIN sessions \cup {s} |->
                    IF t = s THEN [owner |-> i, name |-> name] ELSE sessions[t]]
  /\ active' = Activated(i, s)

ResumeOwned(i, selector, s) ==
  /\ FoundSessions(i, selector) = {s}
  /\ active' = Activated(i, s)
  /\ UNCHANGED sessions

\* createSessionId: an id no session has.
Generated == {s \in SessionIds \ DOMAIN sessions : \A t \in 1..(s - 1) : t \in DOMAIN sessions}

\* recordNormalizedMessageEvent
RecordEvent(i, s) ==
  /\ Len(events) < MaxMessages
  /\ events' = Append(events, [by |-> i, session |-> s])

\* resolveChatSession for a client: the session asked for, one of that id for a web client
\* if there is none, or a fresh one.
Resolves(i, selector, s) ==
  \/ selector # NoSession /\ ResumeOwned(i, selector, s)
  \/ /\ selector # NoSession /\ NotFound(i, selector)
     /\ i.connector = "web-api"
     /\ s = selector
     /\ CreateSession(i, s, NoName)
  \/ selector = NoSession /\ s \in Generated /\ CreateSession(i, s, NoName)

Selectors == SessionIds \cup Names \cup {NoSession}
Clients == {i \in Identities : i.connector # "telegram"}
Terminals == {i \in Identities : i.connector = "tui"}

-----------------------------------------------------------------------------
\* Clients.

\* POST /api/chat/sessions
CreateRoute(i) ==
  /\ \E s \in Generated : CreateSession(i, s, NoName)
  /\ UNCHANGED <<events, settings>>

\* POST /api/chat/sessions/:id/resume: a session that is not found is a fresh one, with an
\* id of its own.
ResumeSessionRoute(i, selector) ==
  /\ \/ \E s \in FoundSessions(i, selector) : ResumeOwned(i, selector, s)
     \/ NotFound(i, selector) /\ \E s \in Generated : CreateSession(i, s, NoName)
  /\ UNCHANGED <<events, settings>>

\* POST /api/chat/events: a prompt, /resume, /session or /compact.
Prompt(i, selector) ==
  /\ \E s \in SessionIds \cup Names : Resolves(i, selector, s) /\ RecordEvent(i, s)
  /\ UNCHANGED settings

\* The session is another's or the name not one session's, or the command not for this
\* client: the event is recorded without a session.
Refuse(i) ==
  /\ \/ i.connector = "web-api"
     \/ \E x \in Selectors \ {NoSession} : Cardinality(FoundSessions(i, x)) # 1
  /\ RecordEvent(i, NoSession)
  /\ UNCHANGED <<sessions, active, settings>>

\* /new and /clear, with or without a name.
NewSession(i, name) ==
  /\ \E s \in Generated : CreateSession(i, s, name) /\ RecordEvent(i, s)
  /\ UNCHANGED settings

\* /rename: nothing keeps a name from being an id, or another session's name.
Rename(i, selector, name) ==
  /\ \E s \in SessionIds \cup Names :
       /\ RecordEvent(i, s)
       /\ \/ /\ selector # NoSession /\ FoundSessions(i, selector) = {s}
             /\ sessions' = [sessions EXCEPT ![s].name = name]
             /\ active' = Activated(i, s)
          \/ /\ \/ selector # NoSession /\ NotFound(i, selector) /\ i.connector = "web-api" /\ s = selector
                \/ selector = NoSession /\ s \in Generated
             /\ CreateSession(i, s, name)
  /\ UNCHANGED settings

-----------------------------------------------------------------------------
\* Telegram.

Approved(actor) == actor \in allowed \cup Configured

\* shouldProcessUpdate
ShouldProcess(i, mentioned) ==
  /\ policy # "disabled"
  /\ Approved(i.actor)
  /\ i.chat \notin Private =>
       /\ groups[i.chat] # NoGroup
       /\ groups[i.chat].requireMention => mentioned
       /\ groups[i.chat].allowFrom # {} => i.actor \in groups[i.chat].allowFrom

\* handleIncomingMessage: no command is looked for in the text.
TelegramUpdate(i) ==
  /\ \E mentioned \in BOOLEAN : ShouldProcess(i, mentioned)
  /\ \E s \in SessionIds \cup Names :
       /\ IF active[i] # NoSession THEN ResumeOwned(i, active[i], s)
          ELSE s \in Generated /\ CreateSession(i, s, NoName)
       /\ RecordEvent(i, s)
  /\ UNCHANGED settings

\* telegram-admin.ts
Allow(actor) == allowed' = allowed \cup {actor} /\ UNCHANGED <<sessions, active, events, policy, groups>>

Disallow(actor) ==
  allowed' = allowed \ {actor} /\ UNCHANGED <<sessions, active, events, policy, groups>>

SetPolicy(p) == policy' = p /\ UNCHANGED <<sessions, active, events, allowed, groups>>

SetGroup(g, group) ==
  /\ groups' = [groups EXCEPT ![g] = group]
  /\ UNCHANGED <<sessions, active, events, allowed, policy>>

-----------------------------------------------------------------------------
ClientStep ==
  \/ \E i \in Terminals :
       CreateRoute(i) \/ \E x \in Selectors \ {NoSession} : ResumeSessionRoute(i, x)
  \/ \E i \in Clients : Refuse(i) \/ \E x \in Selectors : Prompt(i, x) \/ \E name \in Names : Rename(i, x, name)
  \/ \E i \in Terminals, name \in Names \cup {NoName} : NewSession(i, name)

TelegramStep ==
  \/ \E i \in Identities \ Clients : TelegramUpdate(i)
  \/ \E actor \in Senders : Allow(actor) \/ Disallow(actor)
  \/ \E p \in Policies : SetPolicy(p)
  \/ \E g \in Chats \ Private, group \in Groups \cup {NoGroup} : SetGroup(g, group)

RoutingNext == ClientStep \/ TelegramStep

RoutingSpec == RoutingInit /\ [][RoutingNext]_routingVars

-----------------------------------------------------------------------------
\* No client, command or update reaches the session of another identity, by its id, by a
\* name or as the active one, and no session changes hands: what was recorded in a session
\* is its owner's.
RoutedToOwner ==
  /\ \A n \in DOMAIN events :
       events[n].session # NoSession =>
         events[n].session \in DOMAIN sessions /\ sessions[events[n].session].owner = events[n].by
  /\ \A i \in Identities : active[i] # NoSession => active[i] \in Owned(i)

=============================================================================
