--------------------------- MODULE ReconcilerLiveness ---------------------------
(***************************************************************************)
(* What the DevTask controller must eventually do.  API errors and         *)
(* restarts of the operator may happen at any time but not for ever.       *)
(***************************************************************************)
EXTENDS DevTaskReconciler

\* The API server, GitHub and the operator stay up: no call is aborted.
Calm == Operator \/ Kubernetes \/ People

\* What removes deleted pods and empties a deleted namespace.
Removal(n) ==
    \/ ContentsGone(n) \/ NamespaceGone(n)
    \/ \E m \in PodNames : PodEvicted(n, m) \/ PodRemoved(n, m)

\* Aborted calls come to an end; the worker finishes every call and the workqueue
\* serves every DevTask again (requeue intervals, watch events); informers catch
\* up; the kubelet starts pods and activeDeadlineSeconds ends them; deletions
\* complete; time passes.  Nothing is assumed of agent, reviewer and commenters.
Fairness ==
    /\ <>[][Calm]_vars
    /\ WF_vars(Continue)
    /\ \A t \in Tasks :
         SF_vars(Reconcile(t)) /\ WF_vars(SyncStatus(t)) /\ WF_vars(TTLElapses(t))
    /\ \A n \in Namespaces : WF_vars(SyncPods(n)) /\ WF_vars(Removal(n))
    /\ \A n \in Namespaces, m \in PodNames : WF_vars(PodSucceeds(n, m) \/ PodFails(n, m))

LiveSpec == Spec /\ Fairness

\* Every task an agent works on, or should, leaves that state: it goes to the
\* reviewer, to a human who must answer, or fails.  A slot of the concurrency
\* cap is not held by a task that nobody will ever move.
TaskSettles ==
    \A t \in Tasks :
        status[t].phase \in {"", "Building", "Running", "AwaitingRevision"}
            ~> status[t].phase \in {"AwaitingReview", "BlockedOnClarification", "Failed"}

\* The namespace of a task that is over, and with it the task's Secret, is gone
\* in the end: at once for a merged pull request, after the TTL for a failure.
SandboxIsReclaimed ==
    \A t \in Tasks : status[t].phase \in Terminal ~> ns[taskNamespace(t)] = "absent"
=============================================================================
