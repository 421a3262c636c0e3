------------------------------- MODULE IssueLife -------------------------------
(***************************************************************************)
(* One issue from its filing to its pull request: triage, the poller, the  *)
(* agent, the DevTask controller and the people around them meet in its    *)
(* comments and labels.  The phases are those of DevTaskReconciler, with   *)
(* "", Building, Running and AwaitingRevision as one (an agent is due, or  *)
(* at work); here the comments are real, and so is the order of the calls  *)
(* that read and write them.                                               *)
(***************************************************************************)
EXTENDS Triage

CONSTANTS
    OthersPost,   \* kinds of comment that people write
    MaxAborts     \* bound: calls of the operator that fail, or crashes of it

ASSUME OthersAssumption == OthersPost \subseteq Kinds /\ MaxAborts \in Nat

VARIABLES
    phase,       \* the DevTask's phase, absent before the poller has created it
    agent,       \* the agent pod
    resumed,     \* the pod is agentPodResume's
    pr,          \* the pull request: open with a clean or violating diff, or over
    recorded,    \* Status.PRNumber is set
    rejections,  \* rejection comments on the pull request
    step,        \* the next call of the Reconcile in progress
    aborts       \* history: calls that have failed

taskVars == <<phase, agent, resumed, pr, recorded, rejections, step, aborts>>
vars == <<tvars, taskVars>>

Phases == {"absent", "Active", "AwaitingReview", "BlockedOnClarification", "Completed", "Failed"}
Steps == {"idle", "block", "fail", "rejectComment", "rejectClose", "findLink", "postLink",
          "review", "resume"}

\* The comments and labels are of the known kinds, and counters within bounds.
TypeOK ==
    /\ comments \in Seq(Comments) /\ Len(comments) <= MaxComments
    /\ labels \subseteq Labels
    /\ job \in [Jobs -> JobState]
    /\ approved \in BOOLEAN /\ resumed \in BOOLEAN /\ recorded \in BOOLEAN
    /\ phase \in Phases
    /\ agent \in {"none", "Running", "Succeeded", "Failed"}
    /\ pr \in {"none", "clean", "violating", "rejected", "closed"}
    /\ rejections \in 0 .. MaxAborts + 1
    /\ step \in Steps
    /\ aborts \in 0 .. MaxAborts

Init ==
    /\ TriageInit
    /\ phase = "absent"
    /\ agent = "none"
    /\ resumed = FALSE
    /\ pr = "none"
    /\ recorded = FALSE
    /\ rejections = 0
    /\ step = "idle"
    /\ aborts = 0

-----------------------------------------------------------------------------
(* The poller and the DevTask controller                                   *)

Goes(s) == step' = s

\* Variant with a bug: the phase that is declared and never used.
SpawnPending(isResume) == phase' = "Pending" /\ agent' = "Running" /\ resumed' = isResume

\* A new pod, of the first run, of a revision or of a resumption.
Spawn(isResume) == phase' = "Active" /\ agent' = "Running" /\ resumed' = isResume

PollerCreates ==
    /\ phase = "absent"
    /\ "ready-for-development" \in labels
    /\ Spawn(FALSE)
    /\ UNCHANGED <<tvars, pr, recorded, rejections, step, aborts>>

\* reconcileActivePod: what the pod's end leads to.  A closed pull request is
\* found only by its recorded number; the diff it has is the one it was closed for.
reconcileActivePod ==
    /\ step = "idle" /\ phase = "Active"
    /\ \/ agent = "Failed" /\ Goes(IF hasRecentClarificationComment THEN "block" ELSE "fail")
       \/ /\ agent = "Succeeded"
          /\ Goes(CASE pr = "clean" -> "findLink"
                    [] pr = "violating" \/ (pr = "rejected" /\ recorded) -> "rejectComment"
                    [] OTHER -> "fail")
    /\ UNCHANGED <<tvars, phase, agent, resumed, pr, recorded, rejections, aborts>>

\* An error of the comment listing counts as no clarification.
listCommentsFails ==
    /\ step = "idle" /\ phase = "Active" /\ agent = "Failed" /\ aborts < MaxAborts
    /\ Goes("fail")
    /\ aborts' = aborts + 1
    /\ UNCHANGED <<tvars, phase, agent, resumed, pr, recorded, rejections>>

\* The namespace goes, and the pod with it, when a task is blocked.
StatusUpdate ==
    /\ step \in {"block", "fail", "review"}
    /\ phase' = CASE step = "block" -> "BlockedOnClarification"
                  [] step = "fail" -> "Failed"
                  [] step = "review" -> "AwaitingReview"
    /\ agent' = IF step = "block" THEN "none" ELSE agent
    /\ recorded' = (recorded \/ step = "review")
    /\ Goes("idle")
    /\ UNCHANGED <<tvars, resumed, pr, rejections, aborts>>

\* Variant with a bug: the pull request is closed before it is commented on.
rejectCloseFirst ==
    /\ step = "rejectComment"
    /\ pr' = "rejected"
    /\ Goes("rejectClose")
    /\ UNCHANGED <<tvars, phase, agent, resumed, recorded, rejections, aborts>>

\* rejectPRForDiffPolicy: the comment, then the close; a failure of either runs
\* the whole of it again.
rejectComment ==
    /\ step = "rejectComment"
    /\ rejections' = rejections + 1
    /\ Goes("rejectClose")
    /\ UNCHANGED <<tvars, phase, agent, resumed, pr, recorded, aborts>>

rejectClose ==
    /\ step = "rejectClose"
    /\ pr' = "rejected"
    /\ Goes("fail")
    /\ UNCHANGED <<tvars, phase, agent, resumed, recorded, rejections, aborts>>

\* ensurePRCommentOnIssue: the listing, then the comment.
findLink ==
    /\ step = "findLink"
    /\ Goes(IF alreadyLinked THEN "review" ELSE "postLink")
    /\ UNCHANGED <<tvars, phase, agent, resumed, pr, recorded, rejections, aborts>>

postLink ==
    /\ step = "postLink"
    /\ Post("operator", "link")
    /\ Goes("review")
    /\ UNCHANGED <<labels, job, approved, phase, agent, resumed, pr, recorded, rejections, aborts>>

\* BlockedOnClarification: the listing, then spawnAgentSandbox.
replied ==
    /\ step = "idle" /\ phase = "BlockedOnClarification"
    /\ humanRepliedAfterClarification
    /\ Goes("resume")
    /\ UNCHANGED <<tvars, phase, agent, resumed, pr, recorded, rejections, aborts>>

Resume ==
    /\ step = "resume"
    /\ Spawn(TRUE)
    /\ Goes("idle")
    /\ UNCHANGED <<tvars, pr, recorded, rejections, aborts>>

\* A call fails or the operator stops: the next Reconcile starts from the phase.
Abort ==
    /\ step # "idle" /\ aborts < MaxAborts
    /\ Goes("idle")
    /\ aborts' = aborts + 1
    /\ UNCHANGED <<tvars, phase, agent, resumed, pr, recorded, rejections>>

-----------------------------------------------------------------------------
(* The agent, the reviewer and the commenters (external)                   *)

\* Only the resume prompt asks for the link; its own test for an earlier one looks
\* for `.[].body`, a field the listing does not have, and so excludes nothing.
AgentComments(kind) ==
    /\ agent = "Running"
    /\ kind = "link" => resumed /\ pr # "none"
    /\ Post("agent", kind)
    /\ UNCHANGED <<labels, job, approved, taskVars>>

AgentPushes(diff) ==
    /\ agent = "Running"
    /\ pr \in {"none", "clean", "violating"}
    /\ pr' = diff
    /\ UNCHANGED <<tvars, phase, agent, resumed, recorded, rejections, step, aborts>>

PodEnds(end) ==
    /\ agent = "Running"
    /\ agent' = end
    /\ UNCHANGED <<tvars, phase, resumed, pr, recorded, rejections, step, aborts>>

\* needs-revision, and the task goes through AwaitingRevision to a new agent.
Revise ==
    /\ step = "idle" /\ phase = "AwaitingReview"
    /\ Spawn(FALSE)
    /\ UNCHANGED <<tvars, pr, recorded, rejections, step, aborts>>

\* The pull request is merged or closed, and the task completed.
Completes ==
    /\ step = "idle" /\ phase = "AwaitingReview"
    /\ phase' = "Completed" /\ pr' = "closed"
    /\ UNCHANGED <<tvars, agent, resumed, recorded, rejections, step, aborts>>

Comment(by, kind) ==
    /\ Post(by, kind)
    /\ UNCHANGED <<labels, job, approved, taskVars>>

-----------------------------------------------------------------------------
Operator ==
    \/ reconcileActivePod \/ StatusUpdate \/ rejectComment \/ rejectClose
    \/ findLink \/ postLink \/ replied \/ Resume

Next ==
    \/ TriageNext /\ UNCHANGED taskVars
    \/ PollerCreates \/ Operator \/ Abort \/ listCommentsFails
    \/ AgentComments("clarification") \/ AgentComments("link")
    \/ AgentPushes("clean") \/ AgentPushes("violating")
    \/ PodEnds("Succeeded") \/ PodEnds("Failed")
    \/ Revise \/ Completes
    \/ \E by \in {"maintainer", "stranger"}, kind \in OthersPost : Comment(by, kind)

\* The workqueue goes on serving the task.  Nothing is assumed of the agent, of
\* triage or of people.
Spec == Init /\ [][Next]_vars /\ WF_vars(Operator)

-----------------------------------------------------------------------------
\* Nobody's agent is resumed on the pipeline's own words: after the agent's last
\* question a maintainer has written, whoever else writes before, in between and
\* after, and whatever fails between the listing and the spawn.
ResumeIsAnswered ==
    step = "resume" =>
        \E i \in DOMAIN comments :
            /\ comments[i].by = "maintainer"
            /\ \A k \in DOMAIN comments :
                 comments[k].by = "agent" /\ comments[k].kind = "clarification" => k < i

\* A task in review is announced on its issue, by the operator once at most,
\* although calls are retried, rounds repeated and a resumed agent posts the
\* link as well.
ReviewIsAnnounced ==
    /\ phase = "AwaitingReview" => Posted("agent", "link") \cup Posted("operator", "link") # {}
    /\ \A i, k \in Posted("operator", "link") : i = k

\* A pull request that the diff policy closes has been told why, and told again
\* only when a call failed.
RejectionIsExplained ==
    /\ pr = "rejected" => rejections > 0
    /\ rejections <= 1 + aborts

\* No implementation agent starts on a plan that touches sensitive surface unless
\* a maintainer has approved that plan, nor without a plan at all.
PlanGateHolds == [][phase = "absent" /\ phase' # "absent" => PlanIsCleared]_vars

\* A maintainer's answer resumes the agent, unless somebody comments after it.
AnswerIsTaken ==
    phase = "BlockedOnClarification" /\ Last(comments).by = "maintainer"
        ~> phase # "BlockedOnClarification" \/ Last(comments).by # "maintainer"
=============================================================================
