--------------------------- MODULE ChatTranscripts ---------------------------
(***************************************************************************)
(* The gateway's side of a conversation: prompts are recorded as           *)
(* normalized events (chat-events.ts), the orchestrator turns each into a  *)
(* submission whose events it appends to the log of its session, and       *)
(* session-transcript.ts projects prompts and events onto the pages of a   *)
(* transcript.  The submission of a prompt is known from its delivery,     *)
(* which is recorded only when the HTTP request is answered.               *)
(***************************************************************************)
EXTENDS Selections, FiniteSets

CONSTANTS
  MaxSessions,  \* bound on the sessions created; session 1 exists at the start
  MaxRequests,  \* bound on the prompts sent
  MaxFaults,    \* bound on the timeouts, restarts and broken connections
  Plans,        \* what submissions do: sequences of the kinds of their events
  PageLimit     \* exchanges of a transcript page

Sessions == 1..MaxSessions
Requests == 1..MaxRequests

Errors     == {"tool_error", "operation_error"}
Answers    == {"interim", "final"}
EventKinds == {"operation_start", "operation", "tool_start", "tool", "text_delta"} \cup Errors \cup Answers

ASSUME ChatTranscriptsAssumption ==
  /\ MaxSessions \in Nat \ {0}
  /\ MaxRequests \in Nat
  /\ MaxFaults \in Nat
  /\ PageLimit \in Nat \ {0}
  /\ Plans \subseteq Seq(EventKinds)

VARIABLES
  created,   \* sessions created so far: 1..created
  requests,  \* the prompts: their session, origin, progress and submission
  replies,   \* the HTTP reply each request has got
  inbox,     \* prompts recorded in each session, in order
  log,       \* events of each session: <<request, position in its plan>>
  faults     \* faults so far

server == <<created, requests, replies, inbox, log, faults>>

Unsent == [session |-> 1, origin |-> "none", state |-> "unsent", plan |-> <<>>,
           delivered |-> FALSE]

ServerTypeOK ==
  /\ created \in Sessions
  /\ requests \in [Requests -> [session: Sessions,
                                origin: {"none", "user", "greeting", "elsewhere"},
                                state: {"unsent", "sent", "recorded", "running", "detached", "done"},
                                plan: Plans \cup {<<>>}, delivered: BOOLEAN]]
  /\ replies \in [Requests -> {"none", "ok", "error"}]
  /\ \A s \in Sessions : inbox[s] \in Seq(Requests)
  /\ \A s \in Sessions : \A i \in DOMAIN log[s] :
       log[s][i][1] \in Requests /\ log[s][i][2] \in DOMAIN requests[log[s][i][1]].plan
  /\ faults \in 0..MaxFaults

ServerInit ==
  /\ created = 1
  /\ requests = [r \in Requests |-> Unsent]
  /\ replies = [r \in Requests |-> "none"]
  /\ inbox = [s \in Sessions |-> <<>>]
  /\ log = [s \in Sessions |-> <<>>]
  /\ faults = 0

Fault == faults < MaxFaults /\ faults' = faults + 1

-----------------------------------------------------------------------------
\* Events.

Plan(r) == requests[r].plan
Kind(e) == Plan(e[1])[e[2]]

\* How many events of the submission of r are in the first cut entries of the log.
Emitted(r, s, cut) == Cardinality({i \in 1..cut : log[s][i][1] = r})

NextEvent(r) == Emitted(r, requests[r].session, Len(log[requests[r].session])) + 1

-----------------------------------------------------------------------------
\* The projection of session-transcript.ts.

Has(done, kinds) == {done[i] : i \in DOMAIN done} \cap kinds # {}

\* The reply to a prompt has the text of the last assistant message of its submission; the
\* messages before that one are interim.
ASSUME PlansAssumption ==
  \A p \in Plans : ~Has(p, {"operation_error"}) =>
    \A k \in DOMAIN p : p[k] = "interim" => \E j \in DOMAIN p : k < j /\ p[j] = "final"

\* finalizeExchange: an assistant message completes the exchange, as the end of the
\* operation does; any error fails it.
Status(done) ==
  IF Has(done, Errors) THEN "failed"
  ELSE IF Has(done, {"operation"} \cup Answers) THEN "completed" ELSE "running"

Answer(done) ==
  IF Has(done, {"final"}) THEN "final" ELSE IF Has(done, {"interim"}) THEN "interim" ELSE "none"

\* The rows of activity: one per operation and per tool call, under an id of its own.
Row(from, what, status) == [from |-> from, what |-> what, status |-> status]

Rows(done) ==
  {row \in {Row("page", "operation",
               IF Has(done, {"operation", "operation_error"}) THEN "ended" ELSE "running")} :
     Has(done, {"operation_start"})}
  \cup
  {row \in {Row("page", "tool", IF Has(done, {"tool", "tool_error"}) THEN "ended" ELSE "running")} :
     Has(done, {"tool_start"})}

\* Submissions with an event in the snapshot; the first events of all but some, in order.
Builders(s, cut) == {log[s][i][1] : i \in 1..cut}

FirstEvents(s, cut, exact) ==
  Picked(log[s], {i \in 1..cut : log[s][i][2] = 1 /\ log[s][i][1] \notin exact})

\* correlatePrompts: by the delivery; prompts without one by order, if there are as many
\* as there are submissions left.  0 is no submission.
Correlated(prompts, s, cut) ==
  LET exact == {prompts[i] : i \in DOMAIN prompts} \cap {r \in Requests : requests[r].delivered}
      rest  == Picked(prompts, {i \in DOMAIN prompts : prompts[i] \notin exact})
      loose == FirstEvents(s, cut, exact)
  IN  [r \in {prompts[i] : i \in DOMAIN prompts} |->
         IF r \in exact THEN IF r \in Builders(s, cut) THEN r ELSE 0
         ELSE IF Len(rest) # Len(loose) THEN 0
         ELSE loose[CHOOSE i \in DOMAIN rest : rest[i] = r][1]]

Exchange(id, sub, prompt, rows, answer, status) ==
  [id |-> id, sub |-> sub, prompt |-> prompt, rows |-> rows, answer |-> answer, status |-> status]

\* The prompt the public sees: none for the greeting.
PublicPrompt(r) == IF requests[r].origin = "greeting" THEN 0 ELSE r

Projected(r, b, s, cut) ==
  LET done == SubSeq(Plan(b), 1, Emitted(b, s, cut))
  IN  IF b = 0 THEN Exchange(<<"prompt", r>>, <<"prompt", r>>, r, {}, "none", "running")
      ELSE Exchange(<<"page", b>>, <<"sub", b>>, PublicPrompt(r), Rows(done), Answer(done), Status(done))

\* Prompts recorded before the cursor: all of them if there is none.
Older(s, cursor) ==
  IF cursor = 0 THEN inbox[s]
  ELSE SubSeq(inbox[s], 1, (CHOOSE i \in DOMAIN inbox[s] : inbox[s][i] = cursor) - 1)

Newest(seq, n) == SubSeq(seq, IF Len(seq) > n THEN Len(seq) - n + 1 ELSE 1, Len(seq))

\* loadSessionTranscriptPage: the newest PageLimit prompts that have an exchange.
Page(s, cut, cursor) ==
  LET prompts == Older(s, cursor)
      match   == Correlated(prompts, s, cut)
      entries == Picked(prompts, {i \in DOMAIN prompts : match[prompts[i]] # 0 \/ PublicPrompt(prompts[i]) # 0})
      chosen  == Newest(entries, PageLimit)
      more    == Len(entries) > PageLimit
  IN  [exchanges |-> [i \in DOMAIN chosen |-> Projected(chosen[i], match[chosen[i]], s, cut)],
       hasOlder  |-> more,
       before    |-> IF more THEN chosen[1] ELSE 0]

-----------------------------------------------------------------------------
\* POST /api/chat/events.

IsNext(r) == requests[r].state = "unsent" /\ \A q \in 1..(r - 1) : requests[q].state # "unsent"

Sent(r, s, origin) ==
  [requests EXCEPT ![r].session = s, ![r].origin = origin, ![r].state = "sent"]

\* A prompt of another client of the same scope: a second terminal on the session.
SendElsewhere(r, s) ==
  /\ IsNext(r)
  /\ s <= created
  /\ requests' = Sent(r, s, "elsewhere")
  /\ UNCHANGED <<created, replies, inbox, log, faults>>

\* The session is resolved and the event recorded, without a delivery.
Receive(r) ==
  /\ requests[r].state = "sent"
  /\ requests' = [requests EXCEPT ![r].state = "recorded"]
  /\ inbox' = [inbox EXCEPT ![requests[r].session] = Append(@, r)]
  /\ UNCHANGED <<created, replies, log, faults>>

\* The reply this client waits for, unless it no longer does.
Awaited(r) == requests[r].origin # "elsewhere" /\ replies[r] = "none"

Replied(r, reply) == [replies EXCEPT ![r] = IF Awaited(r) THEN reply ELSE @]

\* The agent refuses the prompt: no submission, no delivery.
Refuse(r) ==
  /\ requests[r].state = "recorded"
  /\ requests' = [requests EXCEPT ![r].state = "done"]
  /\ replies' = Replied(r, "error")
  /\ UNCHANGED <<created, inbox, log, faults>>

Admit(r) ==
  /\ requests[r].state = "recorded"
  /\ \E plan \in Plans :
       requests' = [requests EXCEPT ![r].state = "running", ![r].plan = plan]
  /\ UNCHANGED <<created, replies, inbox, log, faults>>

Emit(r) ==
  /\ requests[r].state \in {"running", "detached"}
  /\ NextEvent(r) \in DOMAIN Plan(r)
  /\ log' = [log EXCEPT ![requests[r].session] = Append(@, <<r, NextEvent(r)>>)]
  /\ UNCHANGED <<created, requests, replies, inbox, faults>>

\* The result: the delivery is recorded with it, and the reply sent.
Settle(r) ==
  /\ requests[r].state = "running"
  /\ NextEvent(r) \notin DOMAIN Plan(r)
  /\ requests' = [requests EXCEPT ![r].state = "done", ![r].delivered = TRUE]
  /\ replies' = Replied(r, IF Has(Plan(r), {"operation_error"}) THEN "error" ELSE "ok")
  /\ UNCHANGED <<created, inbox, log, faults>>

\* The client gives up after AGENT_READ_TIMEOUT; the gateway goes on.
TimeOut(r) ==
  /\ Fault
  /\ requests[r].state \in {"sent", "recorded", "running"}
  /\ Awaited(r)
  /\ replies' = Replied(r, "error")
  /\ UNCHANGED <<created, requests, inbox, log>>

\* The gateway restarts: requests in progress get no delivery, and what was admitted
\* continues as a durable submission.
Crash ==
  /\ Fault
  /\ \E r \in Requests : requests[r].state \in {"sent", "recorded", "running"}
  /\ requests' = [r \in Requests |-> [requests[r] EXCEPT !.state =
                    IF @ \in {"sent", "recorded"} THEN "done"
                    ELSE IF @ = "running" THEN "detached" ELSE @]]
  /\ replies' = [r \in Requests |->
                   IF requests[r].state \in {"sent", "recorded", "running"} /\ Awaited(r)
                   THEN "error" ELSE replies[r]]
  /\ UNCHANGED <<created, inbox, log>>

ServerStep ==
  \/ \E r \in Requests, s \in Sessions : SendElsewhere(r, s)
  \/ \E r \in Requests :
       \/ Receive(r)
       \/ Refuse(r)
       \/ Admit(r)
       \/ Emit(r)
       \/ Settle(r)
       \/ TimeOut(r)
  \/ Crash

=============================================================================
