------------------------------ MODULE IssueThread ------------------------------
(***************************************************************************)
(* The comments of one issue, and what the pipeline's components read out  *)
(* of them.  The operator looks only at the first page of the listing      *)
(* (github_poller.go passes no list options; GitHub returns the oldest     *)
(* comments first); triage looks at the last comment of all.               *)
(***************************************************************************)
EXTENDS Naturals, SequencesExt

CONSTANTS
    App,          \* the pipeline acts as a GitHub App, else with a maintainer's PAT
    PageSize,     \* comments in the page of the listing that is read
    MaxComments   \* bound: comments the issue may get

ASSUME AppAssumption == App \in BOOLEAN
ASSUME PageAssumption == PageSize \in Nat \ {0} /\ MaxComments \in Nat \ {0}

VARIABLE comments

Pipeline == {"agent", "operator", "triage"}
Authors == Pipeline \cup {"maintainer", "stranger"}

\* What a comment begins with, or holds: "/clarification:", "PR: https://",
\* "/clarification-needed:", "Implementation plan" (with or without sensitive
\* paths), or nothing that anyone looks for.
Kinds == {"clarification", "link", "clarificationNeeded", "safePlan", "riskyPlan", "text"}

Comments == [by: Authors, kind: Kinds]

Post(by, kind) ==
    /\ Len(comments) < MaxComments
    /\ comments' = Append(comments, [by |-> by, kind |-> kind])

-----------------------------------------------------------------------------
\* Where in the thread an author's comments of a kind are.
Posted(by, kind) == {i \in DOMAIN comments : comments[i].by = by /\ comments[i].kind = kind}

\* Issues.ListComments without options.
listComments == SubSeq(comments, 1, IF Len(comments) < PageSize THEN Len(comments) ELSE PageSize)

Listed(kind) == \E i \in DOMAIN listComments : listComments[i].kind = kind

\* Any comment of the page, of whatever round and author.
hasRecentClarificationComment == Listed("clarification")

\* GitHub's user type and author association: what the pipeline posts is a bot's
\* under an App, and the PAT owner's, a trusted human's, otherwise.
isBot(c) == App /\ c.by \in Pipeline
isTrusted(c) == c.by = "maintainer" \/ (~App /\ c.by \in Pipeline)

\* Variants with a bug: no authorization gate; only a reply that comes directly
\* after the question counts.
anyoneReplied == listComments # <<>> /\ ~isBot(Last(listComments))
repliedAtOnce ==
    /\ Len(listComments) > 1
    /\ isTrusted(Last(listComments)) /\ listComments[Len(listComments) - 1].kind = "clarification"

humanRepliedAfterClarification ==
    /\ listComments # <<>>
    /\ ~isBot(Last(listComments))
    /\ isTrusted(Last(listComments))

\* Variant with a bug: a link counts only when it is the last word.
lastIsLink == listComments # <<>> /\ Last(listComments).kind = "link"

\* ensurePRCommentOnIssue: some comment of the page holds "PR: https://".
alreadyLinked == Listed("link")

\* Triage's idempotency guard, over all comments.
lastByAgent ==
    comments # <<>> /\ Last(comments).kind \in {"safePlan", "riskyPlan", "clarificationNeeded"}
=============================================================================
