---------------------------- MODULE TerminalClient ----------------------------
(***************************************************************************)
(* The terminal client (tui/ratatui): a loop that polls three channels -   *)
(* the event stream of the session, the reply to the prompt in progress,   *)
(* lifecycle and history requests - and folds what they bring into one     *)
(* document of exchanges (transcript.rs).  Replies, replayed events and    *)
(* history pages say the same things in any order.                         *)
(*                                                                         *)
(* The thread of the stream puts updates in a channel the loop empties.    *)
(* Here an update is handled when it is read: the channel is dropped with  *)
(* the stream, so a reading that is never handled changes nothing.         *)
(***************************************************************************)
EXTENDS ChatTranscripts

CONSTANTS MaxCommands  \* bound on the slash commands sent

ASSUME TerminalClientAssumption == MaxCommands \in Nat

VARIABLES
  phase,     \* StartupPhase
  session,   \* session_id; 0 before startup
  doc,       \* transcript_document
  response,  \* pending_response
  history,   \* pending_history, and how far its thread is
  older,     \* history_before, 0 if there is no older page
  reattach,  \* pending_session_switch_attach_stream
  stream,    \* stream_handle, and where its thread is
  commands,  \* commands sent so far
  own        \* prompts submitted into the present document (history)

client == <<phase, session, doc, response, history, older, reattach, stream, commands, own>>
vars == <<server, client>>

-----------------------------------------------------------------------------
\* The document.

EmptyDoc == [exchanges |-> <<>>, closed |-> {}, resumable |-> {}, seen |-> {},
             streaming |-> {}, pending |-> 0]

\* A field of the exchanges, by position.
Position(d, field, value) ==
  {i \in DOMAIN d.exchanges : d.exchanges[i][field] = value}

The(S) == CHOOSE x \in S : TRUE

HasSubmission(d, sub) == Position(d, "sub", sub) # {}

ContainsExchange(d, x) == Position(d, "id", x.id) # {} \/ HasSubmission(d, x.sub)

Terminal(status) == status \in {"completed", "failed"}

Submissions(page, status) == {page[i].sub : i \in {j \in DOMAIN page : page[j].status \in status}}

\* track_snapshot_submission: what the page says has ended is closed to events.
Tracked(d, page) ==
  [d EXCEPT !.closed    = @ \cup Submissions(page, {"completed", "failed"}),
            !.resumable = @ \cup Submissions(page, {"running"})]

Fresh(d, page) == Picked(page, {i \in DOMAIN page : ~ContainsExchange(d, page[i])})

InstallSnapshot(d, page) ==
  [Tracked(d, Fresh(d, page)) EXCEPT !.exchanges = @ \o Fresh(d, page)]

PrependSnapshot(d, page) ==
  [Tracked(d, Fresh(d, page)) EXCEPT !.exchanges = Fresh(d, page) \o @]

PendingId(d) == <<"pending", d.pending + 1>>

BeginExchange(d, prompt) ==
  [d EXCEPT !.pending = @ + 1,
            !.exchanges = Append(@, Exchange(PendingId(d), PendingId(d), prompt, {}, "none", "running"))]

\* merge_exchange_into: the prompt moves, the rest of the source is dropped.
Merged(d, i, j) ==
  LET target == [d.exchanges[j] EXCEPT !.prompt = IF @ = 0 THEN d.exchanges[i].prompt ELSE @]
      all    == [d.exchanges EXCEPT ![j] = target]
  IN  [doc |-> [d EXCEPT !.exchanges = SubSeq(all, 1, i - 1) \o SubSeq(all, i + 1, Len(all))],
       id  |-> d.exchanges[j].id]

Renamed(d, i, sub) ==
  [doc |-> [d EXCEPT !.exchanges[i].id = <<"exchange", sub[2]>>,
                     !.exchanges[i].sub = sub,
                     !.streaming = {<<IF t[1] = d.exchanges[i].sub THEN sub ELSE t[1], t[2]>> : t \in @}],
   id  |-> <<"exchange", sub[2]>>]

\* Mutant: the exchange keeps its place beside the one that has the submission.
BindTwice(d, xid, sub) ==
  IF Position(d, "id", xid) = {} THEN [doc |-> d, id |-> xid]
  ELSE Renamed(d, The(Position(d, "id", xid)), sub)

\* bind_exchange, with the exchange it leaves the caller with.
Bind(d, xid, sub) ==
  LET source == Position(d, "id", xid)
      target == Position(d, "sub", sub)
  IN  IF source = {} THEN [doc |-> d, id |-> xid]
      ELSE IF target = source THEN [doc |-> d, id |-> xid]
      ELSE IF target # {} THEN Merged(d, The(source), The(target))
      ELSE Renamed(d, The(source), sub)

\* Mutant: a text already there is kept.
SetAssistantOnce(d, xid, text) ==
  LET at == Position(d, "id", xid)
  IN  IF at = {} THEN d
      ELSE [d EXCEPT !.exchanges[The(at)].answer = IF @ = "none" THEN text ELSE @,
                     !.exchanges[The(at)].status = "completed"]

SetAssistant(d, xid, text) ==
  LET at == Position(d, "id", xid)
  IN  IF at = {} THEN d
      ELSE [d EXCEPT !.exchanges[The(at)].answer = text,
                     !.exchanges[The(at)].status = "completed",
                     !.streaming = {t \in @ : t[1] # d.exchanges[The(at)].sub}]

\* Rows of live events have ids of their own, whatever a page called the same activity.
Upserted(rows, what, status) ==
  {row \in rows : row.from # "live" \/ row.what # what} \cup {Row("live", what, status)}

PutRow(d, at, what, status) == [d EXCEPT !.exchanges[at].rows = Upserted(@, what, status)]

Marked(d, at, status) == [d EXCEPT !.exchanges[at].status = status]

Streamed(d, sub) ==
  [d EXCEPT !.streaming = @ \cup {<<sub, Cardinality({t \in @ : t[1] = sub}) + 1>>}]

Updated(d, e) ==
  LET sub  == <<"sub", e[1]>>
      at   == The(Position(d, "sub", sub))
      kind == Kind(e)
  IN  CASE kind = "operation_start" -> PutRow(d, at, "operation", "running")
        [] kind = "operation" ->
             Marked(PutRow(d, at, "operation", "ended"), at,
                    IF d.exchanges[at].status = "failed" THEN "failed" ELSE "completed")
        [] kind = "operation_error" -> Marked(PutRow(d, at, "operation", "ended"), at, "failed")
        [] kind = "tool_start" -> PutRow(d, at, "tool", "running")
        [] kind = "tool" -> PutRow(d, at, "tool", "ended")
        [] kind = "tool_error" -> Marked(PutRow(d, at, "tool", "ended"), at, "failed")
        [] kind = "text_delta" -> Streamed(d, sub)
        [] kind \in Answers -> SetAssistant(d, d.exchanges[at].id, kind)

Ensured(d, sub) ==
  IF HasSubmission(d, sub) THEN d
  ELSE [d EXCEPT !.exchanges = Append(@, Exchange(<<"exchange", sub[2]>>, sub, 0, {}, "none", "running"))]

\* An exchange of a page that was running is closed once it ends.
Sealed(d, sub) ==
  IF sub \in d.resumable /\ Terminal(d.exchanges[The(Position(d, "sub", sub))].status)
  THEN [d EXCEPT !.resumable = @ \ {sub}, !.closed = @ \cup {sub}] ELSE d

ApplyEvent(d, e) ==
  LET sub == <<"sub", e[1]>>
  IN  IF sub \in d.closed \/ e \in d.seen THEN d
      ELSE Sealed(Updated([Ensured(d, sub) EXCEPT !.seen = @ \cup {e}], e), sub)

\* A batch of events, one after the other.
ApplyEvents(d, batch) ==
  LET After[n \in 0..Len(batch)] == IF n = 0 THEN d ELSE ApplyEvent(After[n - 1], batch[n])
  IN  After[Len(batch)]

-----------------------------------------------------------------------------
NoResponse == [request |-> 0, command |-> FALSE, exchange |-> <<>>, expected |-> FALSE]
NoHistory  == [kind |-> "none", session |-> 0, cursor |-> 0, stage |-> "sent", cut |-> 0,
               page |-> [exchanges |-> <<>>, hasOlder |-> FALSE, before |-> 0]]
NoStream   == [session |-> 0, offset |-> 0, at |-> 0, live |-> FALSE]

\* The offset "now".
Now == -1

Attached(s, offset) == [session |-> s, offset |-> offset, at |-> 0, live |-> FALSE]

TypeOK ==
  /\ ServerTypeOK
  /\ phase \in {"idle", "creating", "resuming", "loading", "greeting", "complete", "failed"}
  /\ session \in Sessions \cup {0}
  /\ response.request \in Requests \cup {0}
  /\ response.command \in BOOLEAN
  /\ history.kind \in {"none", "startup", "older", "switch"}
  /\ older \in Requests \cup {0}
  /\ reattach \in BOOLEAN
  /\ stream = NoStream \/ (stream.session \in 1..created /\ stream.offset <= Len(log[stream.session]))
  /\ commands \in 0..MaxCommands
  /\ own \subseteq Requests
  /\ doc.pending \in 0..(MaxRequests + MaxCommands)
  /\ doc.closed \cap doc.resumable = {}

Init ==
  /\ ServerInit
  /\ phase = "idle"
  /\ session = 0
  /\ doc = EmptyDoc
  /\ response = NoResponse
  /\ history = NoHistory
  /\ older = 0
  /\ reattach = FALSE
  /\ stream = NoStream
  /\ commands = 0
  /\ own = {}

-----------------------------------------------------------------------------
\* Startup.

Launch ==
  /\ phase = "idle"
  /\ phase' \in {"creating", "resuming"}
  /\ UNCHANGED <<server, session, doc, response, history, older, reattach, stream, commands, own>>

RequestHistory(kind, s, cursor) == [NoHistory EXCEPT !.kind = kind, !.session = s, !.cursor = cursor]

\* complete_fresh_startup: the stream is attached at its end, the greeting sent.
FreshStartup(s) ==
  \E r \in Requests :
    /\ IsNext(r)
    /\ requests' = Sent(r, s, "greeting")
    /\ session' = s
    /\ stream' = Attached(s, Now)
    /\ phase' = "greeting"
    /\ response' = [NoResponse EXCEPT !.request = r, !.exchange = PendingId(doc)]
    /\ doc' = BeginExchange(doc, 0)

\* POST /api/chat/sessions, or a resume that found no such session.
SessionCreated ==
  /\ phase \in {"creating", "resuming"}
  /\ created < MaxSessions
  /\ created' = created + 1
  /\ FreshStartup(created + 1)
  /\ UNCHANGED <<replies, inbox, log, faults, history, older, reattach, commands, own>>

\* The session resumed by id or name.
SessionResumed ==
  /\ phase = "resuming"
  /\ session' = 1
  /\ phase' = "loading"
  /\ history' = RequestHistory("startup", 1, 0)
  /\ UNCHANGED <<server, doc, response, older, reattach, stream, commands, own>>

FailStartup ==
  phase' = IF phase \in {"creating", "resuming", "loading", "greeting"} THEN "failed" ELSE phase

LifecycleFails ==
  /\ phase \in {"creating", "resuming"}
  /\ FailStartup
  /\ UNCHANGED <<server, session, doc, response, history, older, reattach, stream, commands, own>>

-----------------------------------------------------------------------------
\* Prompts and commands.

Unlocked == phase \in {"greeting", "complete"} /\ history = NoHistory /\ response = NoResponse

Submit(r) ==
  /\ Unlocked
  /\ IsNext(r)
  /\ requests' = Sent(r, session, "user")
  /\ doc' = BeginExchange(doc, r)
  /\ response' = [NoResponse EXCEPT !.request = r, !.exchange = PendingId(doc)]
  /\ own' = own \cup {r}
  /\ UNCHANGED <<created, replies, inbox, log, faults, phase, session, history, older, reattach, stream, commands>>

SubmitCommand ==
  /\ Unlocked
  /\ commands < MaxCommands
  /\ commands' = commands + 1
  /\ doc' = BeginExchange(doc, 0)
  /\ response' = [NoResponse EXCEPT !.command = TRUE, !.exchange = PendingId(doc)]
  /\ UNCHANGED <<server, phase, session, history, older, reattach, stream, own>>

\* continue_startup_after_agent_reply.
AfterReply == phase' = IF phase = "greeting" THEN "complete" ELSE phase

\* Mutant: the exchange of the prompt is dropped when another has its submission.
ReplyElsewhere(d, r) ==
  LET known == {i \in DOMAIN d.exchanges : d.exchanges[i].sub = <<"sub", r>>}
      mine  == {i \in DOMAIN d.exchanges : d.exchanges[i].id = response.exchange} \ known
  IN  [d EXCEPT !.exchanges = IF known = {} THEN @ ELSE SelectSeq(@, LAMBDA x : \A i \in mine : x # d.exchanges[i])]

\* The text of the reply goes to the exchange of its submission.
ReplyApplied(d, r) ==
  LET bound == Bind(d, response.exchange, <<"sub", r>>)
  IN  SetAssistant(bound.doc, bound.id, "final")

PollReply ==
  /\ response.request # 0
  /\ replies[response.request] = "ok"
  /\ doc' = ReplyApplied(doc, response.request)
  /\ response' = NoResponse
  /\ AfterReply
  /\ UNCHANGED <<server, session, history, older, reattach, stream, commands, own>>

\* settle_pending_error: the exchange stays as it is.
PollError ==
  /\ \/ response.request # 0 /\ replies[response.request] = "error"
     \/ response.command
  /\ response' = NoResponse
  /\ FailStartup
  /\ UNCHANGED <<server, session, doc, history, older, reattach, stream, commands, own>>

\* A command answered within the session: its text is the assistant's.
CommandAnswered ==
  /\ response.command
  /\ doc' = SetAssistant(doc, response.exchange, "final")
  /\ response' = NoResponse
  /\ AfterReply
  /\ UNCHANGED <<server, session, history, older, reattach, stream, commands, own>>

\* handle_command_session_switch for /new and /clear: history in progress is not dropped.
NewSession ==
  /\ response.command
  /\ created < MaxSessions
  /\ created' = created + 1
  /\ session' = created + 1
  /\ doc' = EmptyDoc
  /\ own' = {}
  /\ older' = 0
  /\ stream' = IF stream = NoStream THEN NoStream ELSE Attached(created + 1, Now)
  /\ response' = NoResponse
  /\ AfterReply
  /\ UNCHANGED <<requests, replies, inbox, log, faults, history, reattach, commands>>

\* and for /resume of another session: its history comes first, then the stream.
ResumeSession(s) ==
  /\ response.command
  /\ s <= created
  /\ s # session
  /\ session' = s
  /\ doc' = EmptyDoc
  /\ own' = {}
  /\ older' = 0
  /\ reattach' = (stream # NoStream)
  /\ stream' = NoStream
  /\ history' = RequestHistory("switch", s, 0)
  /\ response' = NoResponse
  /\ AfterReply
  /\ UNCHANGED <<server, commands>>

-----------------------------------------------------------------------------
\* History.

RequestOlderPage ==
  /\ phase = "complete"
  /\ history = NoHistory
  /\ older # 0
  /\ history' = RequestHistory("older", session, older)
  /\ UNCHANGED <<server, phase, session, doc, response, older, reattach, stream, commands, own>>

\* getStreamMeta: the snapshot's offset.
ReadMeta ==
  /\ history.kind # "none"
  /\ history.stage = "sent"
  /\ history' = [history EXCEPT !.stage = "cut", !.cut = Len(log[history.session])]
  /\ UNCHANGED <<server, phase, session, doc, response, older, reattach, stream, commands, own>>

\* Prompts are listed and projected after it.
ServePage ==
  /\ history.stage = "cut"
  /\ history' = [history EXCEPT !.stage = "served",
                                !.page = Page(history.session, history.cut, history.cursor)]
  /\ UNCHANGED <<server, phase, session, doc, response, older, reattach, stream, commands, own>>

\* Mutant: a page is installed whatever session it is of.
AnyPage == TRUE

PageMatches == history.session = session

InstallPage ==
  /\ history.stage = "served"
  /\ PageMatches
  /\ older' = IF history.page.hasOlder THEN history.page.before ELSE 0
  /\ doc' = IF history.kind = "older" THEN PrependSnapshot(doc, history.page.exchanges)
            ELSE InstallSnapshot(doc, history.page.exchanges)
  /\ stream' = IF history.kind = "startup" \/ (history.kind = "switch" /\ reattach)
               THEN Attached(session, history.cut) ELSE stream
  /\ reattach' = (reattach /\ history.kind # "switch")
  /\ phase' = IF history.kind = "startup" THEN "complete" ELSE phase
  /\ history' = NoHistory
  /\ UNCHANGED <<server, session, response, commands, own>>

\* The request fails, or the page is of a session that was left.
HistoryFails ==
  /\ history.kind # "none"
  /\ history.stage = "served" => ~PageMatches
  /\ history' = NoHistory
  /\ reattach' = (reattach /\ history.kind # "switch")
  /\ phase' = IF history.kind = "startup" THEN "failed" ELSE phase
  /\ UNCHANGED <<server, session, doc, response, older, stream, commands, own>>

-----------------------------------------------------------------------------
\* The stream.

\* correlate_stream_events: the exchange in progress takes the first submission of the
\* batch that the document does not know.
Unknown(d, batch) ==
  Picked(batch, {i \in DOMAIN batch : ~HasSubmission(d, <<"sub", batch[i][1]>>)
                   /\ Kind(batch[i]) \notin {"operation", "operation_error", "tool", "tool_error"}})

Binds(batch) == response # NoResponse /\ ~response.expected /\ Unknown(doc, batch) # <<>>

HandleEvents(batch) ==
  IF Binds(batch)
  THEN LET bound == Bind(doc, response.exchange, <<"sub", Unknown(doc, batch)[1][1]>>)
       IN  /\ doc' = ApplyEvents(bound.doc, batch)
           /\ response' = [response EXCEPT !.exchange = bound.id, !.expected = TRUE]
  ELSE /\ doc' = ApplyEvents(doc, batch)
       /\ UNCHANGED response

Behind == IF stream.offset = Now THEN Len(log[stream.session]) ELSE stream.offset

\* The catch-up read, then the live connection from where it ended.  A session without
\* events has no stream yet (404).
Connect ==
  /\ stream # NoStream
  /\ ~stream.live
  /\ log[stream.session] # <<>>
  /\ HandleEvents(SubSeq(log[stream.session], Behind + 1, Len(log[stream.session])))
  /\ stream' = [stream EXCEPT !.offset = Len(log[stream.session]), !.at = Len(log[stream.session]),
                              !.live = TRUE]
  /\ UNCHANGED <<server, phase, session, history, older, reattach, commands, own>>

Deliver ==
  /\ stream.live
  /\ stream.at < Len(log[stream.session])
  /\ HandleEvents(<<log[stream.session][stream.at + 1]>>)
  /\ stream' = [stream EXCEPT !.at = @ + 1]
  /\ UNCHANGED <<server, phase, session, history, older, reattach, commands, own>>

\* The response ends: the thread goes on from the last control frame, which names an
\* offset up to the last event.
Close ==
  /\ Fault
  /\ stream.live
  /\ \E offset \in stream.offset..stream.at :
       stream' = [stream EXCEPT !.live = FALSE, !.at = 0, !.offset = offset]
  /\ UNCHANGED <<created, requests, replies, inbox, log, phase, session, doc, response, history, older, reattach, commands, own>>

\* The connection breaks: what the control frames said is lost with it.
Break ==
  /\ Fault
  /\ stream.live
  /\ stream' = [stream EXCEPT !.live = FALSE, !.at = 0]
  /\ UNCHANGED <<created, requests, replies, inbox, log, phase, session, doc, response, history, older, reattach, commands, own>>

-----------------------------------------------------------------------------
Gateway == ServerStep /\ UNCHANGED client

Next ==
  \/ Gateway
  \/ Launch
  \/ SessionCreated
  \/ SessionResumed
  \/ LifecycleFails
  \/ \E r \in Requests : Submit(r)
  \/ SubmitCommand
  \/ PollReply
  \/ PollError
  \/ CommandAnswered
  \/ NewSession
  \/ \E s \in Sessions : ResumeSession(s)
  \/ RequestOlderPage
  \/ ReadMeta
  \/ ServePage
  \/ InstallPage
  \/ HistoryFails
  \/ Connect
  \/ Deliver
  \/ Close
  \/ Break

Spec == Init /\ [][Next]_vars

-----------------------------------------------------------------------------

Bound(x) == x.sub[1] = "sub"

\* Each submission has one exchange, whether the reply, the stream or a page brought it
\* first, and no two exchanges share an id: "cannot duplicate completed history".
OneExchangeEach ==
  \A i, j \in DOMAIN doc.exchanges :
    doc.exchanges[i].sub = doc.exchanges[j].sub \/ doc.exchanges[i].id = doc.exchanges[j].id => i = j

\* A prompt submitted here stays in the document, once, through every binding, merge
\* and page; it is lost only where a page had given its submission to an older prompt.
PromptLostToPage ==
  \A r \in own :
    \/ Cardinality(Position(doc, "prompt", r)) = 1
    \/ /\ Position(doc, "prompt", r) = {}
       /\ \E i \in Position(doc, "sub", <<"sub", r>>) : doc.exchanges[i].prompt \notin {0, r}

\* What is on the screen is of the active session: a command-driven switch cannot
\* retain rows of the session it left.
RowsOfActiveSession ==
  /\ \A i \in DOMAIN doc.exchanges :
       Bound(doc.exchanges[i]) => requests[doc.exchanges[i].sub[2]].session = session
  /\ stream # NoStream => stream.session = session

\* A prompt answered over HTTP keeps the final answer, unless the stream has brought an
\* interim message after it and the final one is still to come.
AnsweredIsFinal ==
  \A r \in own :
    /\ replies[r] = "ok"
    /\ response.request # r
    /\ \A i \in DOMAIN Plan(r) : <<r, i>> \in doc.seen => <<r, Len(Plan(r))>> \in doc.seen
    => \A i \in Position(doc, "prompt", r) : doc.exchanges[i].answer = "final"

=============================================================================
