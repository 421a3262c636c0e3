--------------------------------- MODULE Triage ---------------------------------
(***************************************************************************)
(* The triage CronJob (deploy/triage) on one issue.  Every five minutes a  *)
(* job lists the issues labelled needs-triage and runs the prompt on each; *)
(* the prompt's gh calls are one step each here, because the job is ended  *)
(* by its deadline wherever it is.  `make triage` starts a job beside the  *)
(* CronJob's, which concurrencyPolicy Forbid does not see.  The model      *)
(* follows the prompt's steps; what it decides is left open.               *)
(***************************************************************************)
EXTENDS IssueThread

CONSTANTS
    Jobs,      \* triage jobs that may run at the same time
    Patient    \* a maintainer hands an issue back only when nothing works on it

VARIABLES
    labels,    \* the pipeline's labels on the issue
    job,       \* each job's next step on the issue, and its verdict
    approved   \* history: a maintainer has approved the latest plan

tvars == <<comments, labels, job, approved>>

Labels == {"needs-triage", "ready-for-development", "needs-plan-review", "needs-info"}
Verdicts == {"safe", "risky", "unclear"}
JobSteps == {"idle", "guard", "removeLabel", "comment", "addLabel"}
JobState == [step: JobSteps, verdict: Verdicts]
NoJob == [step |-> "idle", verdict |-> "unclear"]

\* An issue is filed with needs-triage, as `make demo` does.
TriageInit ==
    /\ comments = <<>>
    /\ labels = {"needs-triage"}
    /\ job = [j \in Jobs |-> NoJob]
    /\ approved = FALSE

-----------------------------------------------------------------------------
At(j, step) == job[j].step = step
Goto(j, step) == job' = [job EXCEPT ![j].step = step]

Plan(verdict) ==
    CASE verdict = "safe" -> "safePlan"
      [] verdict = "risky" -> "riskyPlan"
      [] verdict = "unclear" -> "clarificationNeeded"

\* Variant with a bug: the risk gate is left out.
outcomeUngated(verdict) == IF verdict = "unclear" THEN "needs-info" ELSE "ready-for-development"

outcome(verdict) ==
    CASE verdict = "safe" -> "ready-for-development"
      [] verdict = "risky" -> "needs-plan-review"
      [] verdict = "unclear" -> "needs-info"

\* gh issue list --label needs-triage --state open.
ListIssues(j) ==
    /\ At(j, "idle")
    /\ "needs-triage" \in labels
    /\ Goto(j, "guard")
    /\ UNCHANGED <<comments, labels, approved>>

\* Variant with a bug: the guard is left out.
decideUnguarded(j) ==
    /\ At(j, "guard")
    /\ \E v \in Verdicts : job' = [job EXCEPT ![j] = [step |-> "removeLabel", verdict |-> v]]

\* The guard, then the decision.
decide(j) ==
    /\ At(j, "guard")
    /\ IF lastByAgent
       THEN job' = [job EXCEPT ![j] = NoJob]
       ELSE \E v \in Verdicts : job' = [job EXCEPT ![j] = [step |-> "removeLabel", verdict |-> v]]

Guard(j) == decide(j) /\ UNCHANGED <<comments, labels, approved>>

RemoveLabel(j) ==
    /\ At(j, "removeLabel")
    /\ labels' = labels \ {"needs-triage"}
    /\ Goto(j, "comment")
    /\ UNCHANGED <<comments, approved>>

CommentPlan(j) ==
    /\ At(j, "comment")
    /\ Post("triage", Plan(job[j].verdict))
    /\ approved' = FALSE
    /\ Goto(j, "addLabel")
    /\ UNCHANGED labels

AddLabel(j) ==
    /\ At(j, "addLabel")
    /\ labels' = labels \cup {outcome(job[j].verdict)}
    /\ job' = [job EXCEPT ![j] = NoJob]
    /\ UNCHANGED <<comments, approved>>

\* activeDeadlineSeconds, or a claude run that fails (`|| true`).
CutShort(j) ==
    /\ ~At(j, "idle")
    /\ job' = [job EXCEPT ![j] = NoJob]
    /\ UNCHANGED <<comments, labels, approved>>

-----------------------------------------------------------------------------
(* Maintainers (external)                                                  *)

\* needs-plan-review is relabelled ready-for-development.
Approve ==
    /\ "needs-plan-review" \in labels
    /\ labels' = (labels \ {"needs-plan-review"}) \cup {"ready-for-development"}
    /\ approved' = TRUE
    /\ UNCHANGED <<comments, job>>

\* The issue is handed back to triage.
Retriage ==
    /\ "needs-triage" \notin labels
    /\ Patient => labels \subseteq {"needs-info"} /\ \A j \in Jobs : At(j, "idle")
    /\ labels' = (labels \ {"needs-info"}) \cup {"needs-triage"}
    /\ UNCHANGED <<comments, job, approved>>

TriageNext ==
    \/ \E j \in Jobs : \/ ListIssues(j) \/ Guard(j) \/ RemoveLabel(j)
                       \/ CommentPlan(j) \/ AddLabel(j) \/ CutShort(j)
    \/ Approve \/ Retriage

-----------------------------------------------------------------------------
Plans == Posted("triage", "safePlan") \cup Posted("triage", "riskyPlan")

\* The plan an implementation agent would work from, the latest, may be worked from.
PlanIsCleared ==
    \E i \in Plans : /\ \A k \in Plans : k <= i
                     /\ comments[i].kind = "safePlan" \/ approved

\* Triage does not repeat itself: between two of its comments somebody else has
\* written, although a job may stop between its comment and its label and the
\* issue be handed to the next job.
TriageDoesNotRepeat ==
    \A i \in 1 .. Len(comments) - 1 :
        ~(comments[i].by = "triage" /\ comments[i + 1].by = "triage")
=============================================================================
