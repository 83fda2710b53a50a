----------------------------- MODULE GithubTools -----------------------------
(***************************************************************************)
(* The GitHub tools of the coding worker (github-tools.ts) and the client  *)
(* behind them (github-mcp.ts).  A tool announces itself, a tool that      *)
(* writes asks for approval, and then calls the GitHub MCP server or git;  *)
(* a line comment is a pending review that is created, filled and          *)
(* submitted in three calls, and deleted when one of them fails.  GitHub   *)
(* keeps one pending review of a user per pull request.  Calls overlap,    *)
(* are refused, and can take effect though their answer is lost.           *)
(***************************************************************************)
EXTENDS Integers, Sequences, FiniteSets

CONSTANTS
  GithubCalls,   \* tool calls
  Pulls,   \* pull requests
  NoReview

\* A review is the set of the calls whose comments it has: NoReview is no such set.
ASSUME GithubAssumption == \A some \in SUBSET GithubCalls : some # NoReview

VARIABLES
  toolCall,       \* the tool of each call, its pull request, how far it is, what it has reported
  granted,    \* calls whose payload an operator has approved
  reviews,    \* the pending review of each pull request: the calls whose comments it has
  published,  \* calls whose write took effect
  fetchHead,  \* FETCH_HEAD of the repository
  branches,   \* what each branch made here was made from
  lost        \* calls that took effect and were not answered, clean-ups that failed (history)

githubVars == <<toolCall, granted, reviews, published, fetchHead, branches, lost>>

-----------------------------------------------------------------------------
\* The tools, by what they do.

\* read_context and verify_pr: the client's errors are part of their answer.
ContextReads == {"read_context", "verify_pr"}

ListReads == {"list_issues", "list_prs"}

Reads == ContextReads \cup ListReads

\* One call of the server each.
RunWrites == {"rerun_check", "fork_repo"}

PullWrites == {"update_pr", "ready_pr", "comment"}

IssueWrites == {"update_issue"}

SingleWrites == RunWrites \cup PullWrites \cup IssueWrites

Tools == Reads \cup SingleWrites
         \cup {"branch_from_pr", "review_comment", "update_review_thread", "approve_request"}

Steps == {"idle", "gate", "reading", "requesting", "single", "create", "fill", "submit", "cleanup",
          "fetch", "checkout", "reply", "resolve", "done"}

GithubTypeOK ==
  /\ toolCall \in [GithubCalls -> [tool: Tools, pull: Pulls, step: Steps, resolves: BOOLEAN,
                         told: Seq({"started", "completed", "failed", "approval_requested"})]]
  /\ granted \subseteq GithubCalls
  /\ reviews \in [Pulls -> (SUBSET GithubCalls) \cup {NoReview}]
  /\ published \subseteq GithubCalls
  /\ fetchHead \in Pulls \cup {NoReview}
  /\ branches \in [GithubCalls -> Pulls \cup {NoReview}]
  /\ lost \subseteq GithubCalls

GithubInit ==
  /\ toolCall = [c \in GithubCalls |-> [tool |-> "read_context", pull |-> CHOOSE p \in Pulls : TRUE,
                              step |-> "idle", resolves |-> FALSE, told |-> <<>>]]
  /\ granted = {}
  /\ reviews = [p \in Pulls |-> NoReview]
  /\ published = {}
  /\ fetchHead = NoReview
  /\ branches = [c \in GithubCalls |-> NoReview]
  /\ lost = {}

-----------------------------------------------------------------------------
\* withGithubToolProgress

Proceeds(c, step) == [toolCall EXCEPT ![c].step = step]
Pull(c) == toolCall[c].pull
Remote == <<reviews, published, fetchHead, branches, lost>>

\* The end of a call, with what its progress says last.
Ends(c, report) ==
  toolCall' = [toolCall EXCEPT ![c].step = "done", ![c].told = Append(@, report)]

\* An answer that is "blocked" is not reported as completed: so a write without a client
\* reports nothing after it has started.
Unavailable(tool) ==
  IF tool \in Reads THEN <<"started", "completed">> ELSE <<"started">>

FirstStep(tool) ==
  IF tool \in Reads THEN "reading" ELSE IF tool = "approve_request" THEN "requesting" ELSE "gate"

StartTool(c) ==
  /\ toolCall[c].step = "idle"
  /\ \E tool \in Tools, pull \in Pulls, resolves \in BOOLEAN, attached \in BOOLEAN :
       /\ resolves => tool = "update_review_thread"
       /\ tool = "approve_request" => attached
       /\ toolCall' = [toolCall EXCEPT ![c] =
            [tool |-> tool, pull |-> pull, resolves |-> resolves,
             step |-> IF attached THEN FirstStep(tool) ELSE "done",
             told |-> IF attached THEN <<"started">> ELSE Unavailable(tool)]]
  /\ UNCHANGED <<granted, Remote>>

ReadGithub(c) ==
  /\ toolCall[c].step = "reading"
  /\ Ends(c, "completed")
  /\ UNCHANGED <<granted, Remote>>

\* coding_github_request_approval
RequestApproval(c) ==
  /\ toolCall[c].step = "requesting"
  /\ Ends(c, "completed")
  /\ UNCHANGED <<granted, Remote>>

\* An operator approves the payload of a call, before it or once it has been asked for.
Approve(c) ==
  /\ granted' = granted \cup {c}
  /\ UNCHANGED <<toolCall, Remote>>

\* The first of the client's calls that a tool makes.
Writing(tool, resolves) ==
  CASE tool \in SingleWrites -> {"single"}
    [] tool = "branch_from_pr" -> {"fetch"}
    [] tool = "review_comment" -> {"create", "reply"}
    [] tool = "update_review_thread" -> IF resolves THEN {"reply", "resolve"} ELSE {"reply"}

\* The approval of the call's own payload: its hash is in the summary of the request.
Gate(c) ==
  /\ toolCall[c].step = "gate"
  /\ IF c \in granted
     THEN \E step \in Writing(toolCall[c].tool, toolCall[c].resolves) :
            toolCall' = Proceeds(c, step)
     ELSE Ends(c, "approval_requested")
  /\ UNCHANGED <<granted, Remote>>

-----------------------------------------------------------------------------
\* Calls of the server.  Each is answered, refused without effect, or lost: it takes
\* effect and the client sees an error.

Loses(c) == lost' = lost \cup {c}

Single(c) ==
  /\ toolCall[c].step = "single"
  /\ \/ published' = published \cup {c} /\ Ends(c, "completed") /\ UNCHANGED lost
     \/ published' = published \cup {c} /\ Ends(c, "failed") /\ Loses(c)
     \/ Ends(c, "failed") /\ UNCHANGED <<published, lost>>
  /\ UNCHANGED <<granted, reviews, fetchHead, branches>>

\* A reply to a thread: the end of an answer to a comment, the first half of an update.
ReplyToThread(c) ==
  /\ toolCall[c].step = "reply"
  /\ \/ /\ published' = published \cup {c}
        /\ IF toolCall[c].resolves THEN toolCall' = Proceeds(c, "resolve") ELSE Ends(c, "completed")
        /\ UNCHANGED lost
     \/ published' = published \cup {c} /\ Ends(c, "failed") /\ Loses(c)
     \/ Ends(c, "failed") /\ UNCHANGED <<published, lost>>
  /\ UNCHANGED <<granted, reviews, fetchHead, branches>>

\* resolve_thread or unresolve_thread: when it is refused the reply stays.
Resolve(c) ==
  /\ toolCall[c].step = "resolve"
  /\ \/ published' = published \cup {c} /\ Ends(c, "completed") /\ UNCHANGED lost
     \/ published' = published \cup {c} /\ Ends(c, "failed") /\ Loses(c)
     \/ Ends(c, "failed") /\ UNCHANGED <<published, lost>>
  /\ UNCHANGED <<granted, reviews, fetchHead, branches>>

\* The review is created outside the try: nothing is cleaned up if that fails.
CreateReview(c) ==
  /\ toolCall[c].step = "create"
  /\ \/ /\ reviews[Pull(c)] = NoReview
        /\ reviews' = [reviews EXCEPT ![Pull(c)] = {}]
        /\ \/ toolCall' = Proceeds(c, "fill") /\ UNCHANGED lost
           \/ Ends(c, "failed") /\ Loses(c)
     \/ Ends(c, "failed") /\ UNCHANGED <<reviews, lost>>
  /\ UNCHANGED <<granted, published, fetchHead, branches>>

\* Mutant: a failure is reported and the review left.
EndsAtOnce(c) == Ends(c, "failed")

CleansUp(c) == toolCall' = Proceeds(c, "cleanup")

FillReview(c) ==
  /\ toolCall[c].step = "fill"
  /\ \/ /\ reviews[Pull(c)] # NoReview
        /\ reviews' = [reviews EXCEPT ![Pull(c)] = @ \cup {c}]
        /\ \/ toolCall' = Proceeds(c, "submit") /\ UNCHANGED lost
           \/ CleansUp(c) /\ Loses(c)
     \/ CleansUp(c) /\ UNCHANGED <<reviews, lost>>
  /\ UNCHANGED <<granted, published, fetchHead, branches>>

SubmitReview(c) ==
  /\ toolCall[c].step = "submit"
  /\ \/ /\ reviews[Pull(c)] # NoReview
        /\ published' = published \cup reviews[Pull(c)]
        /\ reviews' = [reviews EXCEPT ![Pull(c)] = NoReview]
        /\ \/ Ends(c, "completed") /\ UNCHANGED lost
           \/ CleansUp(c) /\ Loses(c)
     \/ CleansUp(c) /\ UNCHANGED <<reviews, published, lost>>
  /\ UNCHANGED <<granted, fetchHead, branches>>

\* delete_pending, its own error swallowed: it deletes whatever review is pending.
DeleteReview(c) ==
  /\ toolCall[c].step = "cleanup"
  /\ Ends(c, "failed")
  /\ \/ reviews' = [reviews EXCEPT ![Pull(c)] = NoReview] /\ UNCHANGED lost
     \/ Loses(c) /\ UNCHANGED reviews
  /\ UNCHANGED <<granted, published, fetchHead, branches>>

\* git fetch of the head of the pull request, anonymously and then with credentials.
Fetch(c) ==
  /\ toolCall[c].step = "fetch"
  /\ \/ fetchHead' = Pull(c) /\ toolCall' = Proceeds(c, "checkout")
     \/ Ends(c, "failed") /\ UNCHANGED fetchHead
  /\ UNCHANGED <<granted, reviews, published, branches, lost>>

\* git checkout -b <branch> FETCH_HEAD, whatever it is by now.
Checkout(c) ==
  /\ toolCall[c].step = "checkout"
  /\ \/ /\ branches' = [branches EXCEPT ![c] = fetchHead]
        /\ published' = published \cup {c}
        /\ Ends(c, "completed")
     \/ Ends(c, "failed") /\ UNCHANGED <<branches, published>>
  /\ UNCHANGED <<granted, reviews, fetchHead, lost>>

GithubNext ==
  \E c \in GithubCalls :
    \/ StartTool(c)
    \/ ReadGithub(c)
    \/ RequestApproval(c)
    \/ Approve(c)
    \/ Gate(c)
    \/ Single(c)
    \/ ReplyToThread(c)
    \/ Resolve(c)
    \/ CreateReview(c)
    \/ FillReview(c)
    \/ SubmitReview(c)
    \/ DeleteReview(c)
    \/ Fetch(c)
    \/ Checkout(c)

GithubSpec == GithubInit /\ [][GithubNext]_githubVars

-----------------------------------------------------------------------------
Told(c, report) == report \in {toolCall[c].told[i] : i \in DOMAIN toolCall[c].told}

\* As long as no answer is lost and no clean-up fails, what a call reports is what
\* happened on GitHub, though calls share the one pending review of a pull request: what
\* is completed was published, what failed was not - but for a reply whose thread could
\* not be resolved - and once all have ended no review is left pending.
ReviewsSettled ==
  lost = {} =>
    /\ \A c \in GithubCalls :
         /\ Told(c, "completed") /\ toolCall[c].tool \notin Reads \cup {"approve_request"}
              => c \in published
         /\ Told(c, "failed") /\ toolCall[c].tool # "update_review_thread" => c \notin published
    /\ (\A c \in GithubCalls : toolCall[c].step \in {"idle", "done"})
         => \A p \in Pulls : reviews[p] = NoReview

=============================================================================
