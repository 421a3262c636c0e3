--------------------------- MODULE DevTaskReconciler ---------------------------
(***************************************************************************)
(* The DevTask controller (operator/internal/controller), together with    *)
(* the cluster and the GitHub repository it drives.                        *)
(*                                                                         *)
(* Reconcile runs on one worker and keeps nothing in memory between two    *)
(* calls.  Each of its API calls is one action here, so that everything    *)
(* else (kubelet, namespace controller, informers, agent, reviewer) may    *)
(* happen between two calls, and so may an error return or a crash of the  *)
(* operator.  Pure reads whose only other outcome is an error (the         *)
(* pipeline credentials, the issue body) are folded into the next step.    *)
(***************************************************************************)
EXTENDS Naturals, FiniteSets

CONSTANTS
    Tasks,       \* DevTask objects, all of them created
    Namespaces,  \* names of sandbox namespaces
    NsOf,        \* the namespace name each task's issue number gives
    MaxPR,       \* bound: pull requests the agent may open per task
    Faults       \* which of AllFaults the environment may show

AllFaults == {
    "abort",         \* an API call fails, or the operator stops, between two steps
    "ignoredError",  \* a call fails whose error the code drops or takes for NotFound
    "statusLag",     \* Reconcile reads a DevTask its informer has not caught up with
    "podLag",        \* getPod reads pods its informer has not caught up with
    "expiry"}        \* the token in a Secret runs out: an App's does, a PAT does not

ASSUME TasksAssumption == Tasks # {}
ASSUME NsOfAssumption == NsOf \in [Tasks -> Namespaces]
ASSUME MaxPRAssumption == MaxPR \in Nat \ {0}
ASSUME FaultsAssumption == Faults \subseteq AllFaults

VARIABLES
    status,    \* DevTask.Status in the API server
    cache,     \* DevTask.Status in the manager's informer cache
    synced,    \* the cache holds the newest resourceVersion of the DevTask
    work,      \* the Reconcile call in progress
    ns,        \* sandbox namespaces
    policy,    \* namespaces that hold the sandbox-egress NetworkPolicy
    secret,    \* the GitHub token of the per-task Secret in each namespace
    pods,      \* agent pods in the API server
    podCache,  \* agent pods in the informer cache
    prs,       \* pull requests on the task's branches
    thread,    \* what the issue's comments say
    expired,   \* tasks whose failedNamespaceTTL has elapsed
    owed       \* history: is a requested revision still to be carried out

cluster == <<ns, policy, secret, pods>>
github  == <<prs, thread>>
vars == <<status, cache, synced, work, cluster, podCache, github, expired, owed>>

-----------------------------------------------------------------------------
(* Types                                                                   *)

\* PhasePending is declared, but no code sets or expects it.
Phases == {"", "Building", "Running", "AwaitingReview", "AwaitingRevision",
           "BlockedOnClarification", "Completed", "Failed"}
Terminal == {"Completed", "Failed"}
Active == {"Building", "Running"}

PRs == 1 .. MaxPR

\* DevTaskStatus: ns is Namespace # "", pr is PRNumber (0 for none), failedAt
\* is FailedAt # nil.
Status == [phase: Phases, ns: BOOLEAN, pr: 0 .. MaxPR, failedAt: BOOLEAN]
NewStatus == [phase |-> "", ns |-> FALSE, pr |-> 0, failedAt |-> FALSE]

PodNames == {"agent", "agent-rev"}
PodPhases == {"Pending", "Running", "Succeeded", "Failed"}
\* deleting is metadata.deletionTimestamp; task is the issue the prompt names.
Pods == [phase: PodPhases \cup {"none"}, deleting: BOOLEAN, task: Tasks]
NoPod == [phase |-> "none", deleting |-> FALSE, task |-> CHOOSE t \in Tasks : TRUE]

\* head: whether the diff policy accepts the pull request's current diff;
\* vetted: the operator evaluated that very diff and accepted it (history);
\* label: whether needs-revision is on it, and whether a round that was started
\* for that very label has yet to remove it (taken, history).
PullRequests == [state: {"none", "open", "closed", "merged"},
                 head: {"clean", "violating"}, label: {"none", "asked", "taken"},
                 vetted: BOOLEAN]
NoPullRequest == [state |-> "none", head |-> "clean", label |-> "none", vetted |-> FALSE]

\* none: no "/clarification:" comment; asked: there is one, and the last
\* comment is not a trusted human's; answered: there is one, and it is.
Threads == {"none", "asked", "answered"}

Steps == {"idle", "ensureNamespace", "ensureNetworkPolicy", "ensureTaskSecret",
          "ensurePod", "getPod", "clarification", "findPR", "listPRFiles",
          "rejectComment", "rejectClose", "findLink", "prComment", "prClosed",
          "prHasLabel", "removePRLabel", "deleteRevisionPod", "humanReplied",
          "deleteNamespace", "ttlDelete", "statusUpdate"}

\* The call in progress: the DevTask read at its start, whether that read was
\* the newest version, the pull request found, and the status it means to write.
Works == [step: Steps, task: Tasks, snap: Status, fresh: BOOLEAN,
          pr: 0 .. MaxPR, next: Status]
Idle == [step |-> "idle", task |-> CHOOSE t \in Tasks : TRUE, snap |-> NewStatus,
         fresh |-> FALSE, pr |-> 0, next |-> NewStatus]

\* Every value has its type: no step writes a phase, pod or PR state the code
\* does not know, and the work record never mixes the fields of two calls.
TypeOK ==
    /\ status \in [Tasks -> Status]
    /\ cache \in [Tasks -> Status]
    /\ synced \in [Tasks -> BOOLEAN]
    /\ work \in Works
    /\ ns \in [Namespaces -> {"absent", "active", "terminating"}]
    /\ policy \in [Namespaces -> BOOLEAN]
    /\ secret \in [Namespaces -> {"none", "valid", "expired"}]
    /\ pods \in [Namespaces -> [PodNames -> Pods]]
    /\ podCache \in [Namespaces -> [PodNames -> Pods]]
    /\ prs \in [Tasks -> [PRs -> PullRequests]]
    /\ thread \in [Tasks -> Threads]
    /\ expired \in [Tasks -> BOOLEAN]
    /\ owed \in [Tasks -> {"no", "requested", "spawned"}]

\* The poller has created the DevTasks (their phase is still empty) and the
\* informers have seen them; the cluster and the branches are empty.
Init ==
    /\ status = [t \in Tasks |-> NewStatus]
    /\ cache = [t \in Tasks |-> NewStatus]
    /\ synced = [t \in Tasks |-> TRUE]
    /\ work = Idle
    /\ ns = [n \in Namespaces |-> "absent"]
    /\ policy = [n \in Namespaces |-> FALSE]
    /\ secret = [n \in Namespaces |-> "none"]
    /\ pods = [n \in Namespaces |-> [m \in PodNames |-> NoPod]]
    /\ podCache = [n \in Namespaces |-> [m \in PodNames |-> NoPod]]
    /\ prs = [t \in Tasks |-> [p \in PRs |-> NoPullRequest]]
    /\ thread = [t \in Tasks |-> "none"]
    /\ expired = [t \in Tasks |-> FALSE]
    /\ owed = [t \in Tasks |-> "no"]

-----------------------------------------------------------------------------
(* Helpers                                                                 *)

At(step) == work.step = step
Task == work.task
Snap == work.snap
taskNamespace(t) == NsOf[t]
Sandbox == taskNamespace(Task)

Goto(step) == work' = [work EXCEPT !.step = step]
Write(next) == work' = [work EXCEPT !.step = "statusUpdate", !.next = next]
Return == work' = Idle
\* A call whose error is dropped may leave its object as it was.
MayHaveNoEffect == "ignoredError" \in Faults

\* Variants with a bug: a phase the API does not know; a status started afresh.
markFailedMisspelt(s) == [s EXCEPT !.phase = "failed", !.failedAt = TRUE]
markFailedAfresh(s) == [s EXCEPT !.phase = "Failed", !.failedAt = TRUE, !.pr = 0]

markFailed(s) == [s EXCEPT !.phase = "Failed", !.failedAt = TRUE]

\* What getPod can see: the informer's pods, or an informer that is never late.
PodView(n) == IF "podLag" \in Faults THEN podCache[n] ELSE pods[n]

\* Variant with a bug: the first run's pod is not looked for.
getPodRevisionOnly(view) == view["agent-rev"]

\* getPod: the revision pod when there is one, whatever round it is from.  An
\* error of the first Get is not told from NotFound: see reconcileActivePod.
getPod(view) == IF view["agent-rev"].phase # "none" THEN view["agent-rev"] ELSE view["agent"]

\* The name of the pod a spawning Reconcile creates: agentPodRevision's or
\* agentPod's and agentPodResume's.
podName(phase) == IF phase = "AwaitingRevision" THEN "agent-rev" ELSE "agent"

\* deleteNamespace: deletion is asynchronous, and a namespace that is gone or
\* on its way out is no error.
Delete(n) == ns' = [ns EXCEPT ![n] = IF @ = "active" THEN "terminating" ELSE @]

\* findPRForTask: the recorded pull request in whatever state it is, else the
\* first open one of the list (GitHub lists the newest first), else none.
OpenPRs(t) == {p \in PRs : prs[t][p].state = "open"}
findPRForTask(t, recorded, p) ==
    \/ recorded # 0 /\ p = recorded
    \/ recorded = 0 /\ p \in OpenPRs(t) /\ \A q \in OpenPRs(t) : q <= p
    \/ recorded = 0 /\ p = 0 /\ OpenPRs(t) = {}

isMergedOrClosed(t, p) == p # 0 /\ prs[t][p].state \in {"closed", "merged"}

\* Variant with a bug: a patch without a resourceVersion.
NeverConflicts == FALSE

\* The status write's optimistic lock: the API server refuses an update made
\* from any but the newest resourceVersion.
Conflicts == ~work.fresh

-----------------------------------------------------------------------------
(* Reconcile                                                               *)

\* Variant with a bug: a Failed task is left alone, like a Completed one.
FirstStepWithoutTTL(t, s) ==
    CASE s.phase = "" -> "ensureNamespace"
      [] s.phase \in Active -> "getPod"
      [] s.phase = "AwaitingReview" -> "prClosed"
      [] s.phase = "AwaitingRevision" -> "removePRLabel"
      [] s.phase = "BlockedOnClarification" -> "humanReplied"
      [] OTHER -> "idle"

\* The first API call each phase leads to.  A Failed task waits for its TTL,
\* and has nothing left to do once its namespace is cleared.
FirstStep(t, s) ==
    CASE s.phase = "" -> "ensureNamespace"
      [] s.phase \in Active -> "getPod"
      [] s.phase = "AwaitingReview" -> "prClosed"
      [] s.phase = "AwaitingRevision" -> "removePRLabel"
      [] s.phase = "BlockedOnClarification" -> "humanReplied"
      [] s.phase = "Failed" /\ s.ns /\ s.failedAt /\ expired[t] -> "ttlDelete"
      [] OTHER -> "idle"

\* Reconcile is called and reads the DevTask from the informer cache.
Reconcile(t) ==
    /\ At("idle")
    /\ FirstStep(t, cache[t]) # "idle"
    /\ work' = [Idle EXCEPT !.step = FirstStep(t, cache[t]), !.task = t,
                            !.snap = cache[t], !.fresh = synced[t]]
    /\ UNCHANGED <<status, cache, synced, cluster, podCache, github, expired, owed>>

\* Reconcile of a Completed task, or of a Failed one that waits for its TTL or
\* has been cleaned up, returns at once.
NothingToDo(t) ==
    /\ At("idle")
    /\ FirstStep(t, cache[t]) = "idle"
    /\ UNCHANGED vars

\* An API call of the call in progress returned an error, or the operator
\* stopped: the DevTask is reconciled again later, from the beginning.
Abort ==
    /\ "abort" \in Faults
    /\ ~At("idle")
    /\ Return
    /\ UNCHANGED <<status, cache, synced, cluster, podCache, github, expired, owed>>

\* Status().Update: refused on a conflict, else visible in the API server and
\* not yet in a cache that lags.  owed records what the new phase asks of the
\* agent, and the label that asked for it is taken.
StatusUpdate ==
    /\ At("statusUpdate")
    /\ Return
    /\ IF Conflicts
       THEN UNCHANGED <<status, cache, synced, prs, owed>>
       ELSE /\ status' = [status EXCEPT ![Task] = work.next]
            /\ IF "statusLag" \in Faults
               THEN synced' = [synced EXCEPT ![Task] = FALSE] /\ UNCHANGED cache
               ELSE cache' = status' /\ UNCHANGED synced
            /\ owed' = [owed EXCEPT ![Task] =
                  CASE work.next.phase = "AwaitingRevision" -> "requested"
                    [] work.next.phase = "BlockedOnClarification" -> "no"
                    [] OTHER -> @]
            /\ prs' = IF work.next.phase = "AwaitingRevision"
                      THEN [prs EXCEPT ![Task][work.next.pr].label = "taken"] ELSE prs
    /\ UNCHANGED <<cluster, podCache, thread, expired>>

-----------------------------------------------------------------------------
(* Creating a sandbox: the empty phase, and spawnAgentSandbox              *)

\* Variant with a bug: no NetworkPolicy is created.
ensureNamespaceOnly ==
    /\ At("ensureNamespace")
    /\ ns' = [ns EXCEPT ![Sandbox] = IF @ = "absent" THEN "active" ELSE @]
    /\ Goto("ensureTaskSecret")
    /\ UNCHANGED <<status, cache, synced, policy, secret, pods, podCache, github, expired, owed>>

ensureNamespace ==
    /\ At("ensureNamespace")
    /\ ns' = [ns EXCEPT ![Sandbox] = IF @ = "absent" THEN "active" ELSE @]
    /\ Goto("ensureNetworkPolicy")
    /\ UNCHANGED <<status, cache, synced, policy, secret, pods, podCache, github, expired, owed>>

ensureNetworkPolicy ==
    /\ At("ensureNetworkPolicy")
    /\ ns[Sandbox] = "active"
    /\ policy' = [policy EXCEPT ![Sandbox] = TRUE]
    /\ Goto("ensureTaskSecret")
    /\ UNCHANGED <<status, cache, synced, ns, secret, pods, podCache, github, expired, owed>>

\* A Secret that is already there is left as it is, with the token it holds.
ensureTaskSecret ==
    /\ At("ensureTaskSecret")
    /\ ns[Sandbox] = "active"
    /\ secret' = [secret EXCEPT ![Sandbox] = IF @ = "none" THEN "valid" ELSE @]
    /\ Goto("ensurePod")
    /\ UNCHANGED <<status, cache, synced, ns, policy, pods, podCache, github, expired, owed>>

\* A pod of that name that is already there is taken for the one wanted.
ensurePod ==
    /\ At("ensurePod")
    /\ ns[Sandbox] = "active"
    /\ LET name == podName(Snap.phase)
           new == pods[Sandbox][name].phase = "none"
       IN  /\ pods' = IF new
                      THEN [pods EXCEPT ![Sandbox][name] =
                              [phase |-> "Pending", deleting |-> FALSE, task |-> Task]]
                      ELSE pods
           /\ owed' = IF new /\ name = "agent-rev" /\ owed[Task] = "requested"
                      THEN [owed EXCEPT ![Task] = "spawned"] ELSE owed
    /\ Write([Snap EXCEPT !.phase = "Building", !.ns = TRUE])
    /\ UNCHANGED <<status, cache, synced, ns, policy, secret, podCache, github, expired>>

\* The API server creates nothing in a namespace that is absent or terminating:
\* the call returns the error.
CreateForbidden ==
    /\ work.step \in {"ensureNetworkPolicy", "ensureTaskSecret", "ensurePod"}
    /\ ns[Sandbox] # "active"
    /\ Return
    /\ UNCHANGED <<status, cache, synced, cluster, podCache, github, expired, owed>>

-----------------------------------------------------------------------------
(* reconcileActivePod and handlePodSucceeded                               *)

\* Variant with a bug: failure is the default of the switch.
OnPodOrFailed(phase) ==
    CASE phase = "Succeeded" -> Goto("findPR")
      [] phase = "Running" /\ Snap.phase # "Running" -> Write([Snap EXCEPT !.phase = "Running"])
      [] phase = "Running" -> Return
      [] OTHER -> Goto("clarification")

\* What the pod found in the cache means for a Building or Running task.
OnPod(phase) ==
    CASE phase = "Succeeded" -> Goto("findPR")
      [] phase = "Failed" -> Goto("clarification")
      [] phase = "Running" /\ Snap.phase # "Running" -> Write([Snap EXCEPT !.phase = "Running"])
      [] OTHER -> Return

\* getPod falls back to the first run's pod on any error of the first Get.
reconcileActivePod ==
    /\ At("getPod")
    /\ \/ OnPod(getPod(PodView(Sandbox)).phase)
       \/ MayHaveNoEffect /\ OnPod(PodView(Sandbox)["agent"].phase)
    /\ UNCHANGED <<status, cache, synced, cluster, podCache, github, expired, owed>>

\* Variant with a bug: the namespace is not deleted.
OnlyWrite(next) == Write(next)

\* The namespace is deleted, an error dropped, before the status is written.
DeleteThenWrite(next) == work' = [work EXCEPT !.step = "deleteNamespace", !.next = next]

\* Variant with a bug: a clarification somebody has replied to does not count.
askedLast(t) == thread[t] = "asked"

\* The listing has a "/clarification:" comment, of whatever round.
clarified(t) == thread[t] # "none"

\* An error of the comment listing counts as no clarification.
hasRecentClarificationComment ==
    /\ At("clarification")
    /\ \/ /\ clarified(Task)
          /\ DeleteThenWrite([Snap EXCEPT !.phase = "BlockedOnClarification"])
       \/ /\ ~clarified(Task) \/ MayHaveNoEffect
          /\ Write(markFailed(Snap))
    /\ UNCHANGED <<status, cache, synced, cluster, podCache, github, expired, owed>>

deleteNamespace ==
    /\ At("deleteNamespace")
    /\ Delete(Sandbox) \/ (MayHaveNoEffect /\ UNCHANGED ns)
    /\ Goto("statusUpdate")
    /\ UNCHANGED <<status, cache, synced, policy, secret, pods, podCache, github, expired, owed>>

findPR ==
    /\ At("findPR")
    /\ \E p \in 0 .. MaxPR :
         /\ findPRForTask(Task, Snap.pr, p)
         /\ IF p = 0 THEN Write(markFailed(Snap))
                     ELSE work' = [work EXCEPT !.step = "listPRFiles", !.pr = p]
    /\ UNCHANGED <<status, cache, synced, cluster, podCache, github, expired, owed>>

\* Variant with a bug: the violations are not looked at.
forwardAnyDiff(head) == "findLink"

\* listPRFiles, getIssueBody and evaluateDiff: a violating diff leads to
\* rejectPRForDiffPolicy, a clean one to ensurePRCommentOnIssue.
evaluateDiff(head) == IF head = "violating" THEN "rejectComment" ELSE "findLink"

listPRFiles ==
    /\ At("listPRFiles")
    /\ Goto(evaluateDiff(prs[Task][work.pr].head))
    /\ prs' = [prs EXCEPT ![Task][work.pr].vetted = (@ \/ prs[Task][work.pr].head = "clean")]
    /\ UNCHANGED <<status, cache, synced, cluster, podCache, thread, expired, owed>>

rejectComment ==
    /\ At("rejectComment")
    /\ Goto("rejectClose")
    /\ UNCHANGED <<status, cache, synced, cluster, podCache, github, expired, owed>>

\* GitHub keeps a merged pull request merged.
rejectClose ==
    /\ At("rejectClose")
    /\ prs' = [prs EXCEPT ![Task][work.pr].state = IF @ = "open" THEN "closed" ELSE @]
    /\ DeleteThenWrite([markFailed(Snap) EXCEPT !.ns = FALSE])
    /\ UNCHANGED <<status, cache, synced, cluster, podCache, thread, expired, owed>>

\* The status with which handlePodSucceeded hands the pull request to review.
ToReview == [Snap EXCEPT !.phase = "AwaitingReview", !.pr = work.pr]

\* ensurePRCommentOnIssue lists the comments and posts the link unless one of
\* them has it.  Which comments the listing holds is left open: see IssueLife.
findLink ==
    /\ At("findLink")
    /\ Goto("prComment") \/ Write(ToReview)
    /\ UNCHANGED <<status, cache, synced, cluster, podCache, github, expired, owed>>

\* The operator's own comment comes after any reply.
prComment ==
    /\ At("prComment")
    /\ thread' = [thread EXCEPT ![Task] = IF @ = "answered" THEN "asked" ELSE @]
    /\ Write(ToReview)
    /\ UNCHANGED <<status, cache, synced, cluster, podCache, prs, expired, owed>>

-----------------------------------------------------------------------------
(* AwaitingReview, AwaitingRevision, BlockedOnClarification and Failed      *)

isPRMergedOrClosed ==
    /\ At("prClosed")
    /\ \E p \in 0 .. MaxPR :
         /\ findPRForTask(Task, Snap.pr, p)
         /\ IF isMergedOrClosed(Task, p)
            THEN DeleteThenWrite([Snap EXCEPT !.phase = "Completed"])
            ELSE Goto("prHasLabel")
    /\ UNCHANGED <<status, cache, synced, cluster, podCache, github, expired, owed>>

prHasLabel ==
    /\ At("prHasLabel")
    /\ IF Snap.pr # 0 /\ prs[Task][Snap.pr].label # "none"
       THEN Write([Snap EXCEPT !.phase = "AwaitingRevision"])
       ELSE Return
    /\ UNCHANGED <<status, cache, synced, cluster, podCache, github, expired, owed>>

\* Variant with a bug: the label is left on.
leavePRLabel ==
    /\ At("removePRLabel")
    /\ Goto("deleteRevisionPod")
    /\ UNCHANGED <<status, cache, synced, cluster, podCache, github, expired, owed>>

removePRLabel ==
    /\ At("removePRLabel")
    /\ \/ /\ Snap.pr # 0
          /\ prs' = [prs EXCEPT ![Task][Snap.pr].label = "none"]
       \/ /\ Snap.pr = 0 \/ MayHaveNoEffect
          /\ UNCHANGED prs
    /\ Goto("deleteRevisionPod")
    /\ UNCHANGED <<status, cache, synced, cluster, podCache, thread, expired, owed>>

\* A pod that has not ended is given its grace period, which PodRemoved ends,
\* at once for one that no node has; a pod that has ended is gone.
Deleted(pod) ==
    IF pod.phase \in {"Pending", "Running"} THEN [pod EXCEPT !.deleting = TRUE] ELSE NoPod

\* Variant with a bug: the old revision pod is kept.
keepRevisionPod ==
    /\ At("deleteRevisionPod")
    /\ Goto("ensureNamespace")
    /\ UNCHANGED <<status, cache, synced, cluster, podCache, github, expired, owed>>

deleteRevisionPod ==
    /\ At("deleteRevisionPod")
    /\ \/ pods' = [pods EXCEPT ![Sandbox]["agent-rev"] = Deleted(@)]
       \/ MayHaveNoEffect /\ UNCHANGED pods
    /\ Goto("ensureNamespace")
    /\ UNCHANGED <<status, cache, synced, ns, policy, secret, podCache, github, expired, owed>>

humanRepliedAfterClarification ==
    /\ At("humanReplied")
    /\ IF thread[Task] = "answered" THEN Goto("ensureNamespace") ELSE Return
    /\ UNCHANGED <<status, cache, synced, cluster, podCache, github, expired, owed>>

\* The TTL path: here an error of deleteNamespace is returned (Abort).
ttlDelete ==
    /\ At("ttlDelete")
    /\ Delete(Sandbox)
    /\ Write([Snap EXCEPT !.ns = FALSE])
    /\ UNCHANGED <<status, cache, synced, policy, secret, pods, podCache, github, expired, owed>>

-----------------------------------------------------------------------------
(* Kubernetes, around the operator (external)                              *)

operator == <<status, work, expired>>

SyncStatus(t) ==
    /\ ~synced[t]
    /\ cache' = [cache EXCEPT ![t] = status[t]]
    /\ synced' = [synced EXCEPT ![t] = TRUE]
    /\ UNCHANGED <<operator, cluster, podCache, github, owed>>

SyncPods(n) ==
    /\ "podLag" \in Faults
    /\ podCache[n] # pods[n]
    /\ podCache' = [podCache EXCEPT ![n] = pods[n]]
    /\ UNCHANGED <<operator, cache, synced, cluster, github, owed>>

SetPhase(n, m, phase) == pods' = [pods EXCEPT ![n][m].phase = phase]

PodStarts(n, m) ==
    /\ pods[n][m].phase = "Pending"
    /\ SetPhase(n, m, "Running")
    /\ UNCHANGED <<operator, cache, synced, ns, policy, secret, podCache, github, owed>>

\* restartPolicy Never: a pod ends once.  A revision is carried out when the
\* pod spawned for it succeeds.
PodSucceeds(n, m) ==
    /\ pods[n][m].phase = "Running"
    /\ SetPhase(n, m, "Succeeded")
    /\ owed' = LET t == pods[n][m].task
               IN  IF m = "agent-rev" /\ owed[t] = "spawned" THEN [owed EXCEPT ![t] = "no"] ELSE owed
    /\ UNCHANGED <<operator, cache, synced, ns, policy, secret, podCache, github>>

\* Also when activeDeadlineSeconds runs out, whatever the pod is doing.
PodFails(n, m) ==
    /\ pods[n][m].phase \in {"Pending", "Running"}
    /\ SetPhase(n, m, "Failed")
    /\ UNCHANGED <<operator, cache, synced, ns, policy, secret, podCache, github, owed>>

\* The grace period of a deleted pod ends.
PodRemoved(n, m) ==
    /\ pods[n][m].deleting
    /\ pods' = [pods EXCEPT ![n][m] = NoPod]
    /\ UNCHANGED <<operator, cache, synced, ns, policy, secret, podCache, github, owed>>

\* The namespace controller deletes what a terminating namespace holds: what has
\* no grace period (policy and Secret) and the pods, in whatever order, so that a
\* pod may outlive its policy.
ContentsGone(n) ==
    /\ ns[n] = "terminating" /\ (policy[n] \/ secret[n] # "none")
    /\ policy' = [policy EXCEPT ![n] = FALSE]
    /\ secret' = [secret EXCEPT ![n] = "none"]
    /\ UNCHANGED <<operator, cache, synced, ns, pods, podCache, github, owed>>

PodEvicted(n, m) ==
    /\ ns[n] = "terminating" /\ pods[n][m].phase # "none" /\ ~pods[n][m].deleting
    /\ pods' = [pods EXCEPT ![n][m] = Deleted(@)]
    /\ UNCHANGED <<operator, cache, synced, ns, policy, secret, podCache, github, owed>>

\* The namespace goes once it is empty.
Empty(n) == ~policy[n] /\ secret[n] = "none" /\ \A m \in PodNames : pods[n][m].phase = "none"

NamespaceGone(n) ==
    /\ ns[n] = "terminating" /\ Empty(n)
    /\ ns' = [ns EXCEPT ![n] = "absent"]
    /\ UNCHANGED <<operator, cache, synced, policy, secret, pods, podCache, github, owed>>

\* An installation token lives an hour; one Reconcile call takes seconds, and
\* from a namespace on its way out no pod takes its token.
TokenExpires(n) ==
    /\ "expiry" \in Faults
    /\ At("idle")
    /\ ns[n] = "active" /\ secret[n] = "valid"
    /\ secret' = [secret EXCEPT ![n] = "expired"]
    /\ UNCHANGED <<operator, cache, synced, ns, policy, pods, podCache, github, owed>>

TTLElapses(t) ==
    /\ status[t].failedAt /\ ~expired[t]
    /\ expired' = [expired EXCEPT ![t] = TRUE]
    /\ UNCHANGED <<status, work, cache, synced, cluster, podCache, github, owed>>

-----------------------------------------------------------------------------
(* The agent, the reviewer and the commenters (external)                   *)

notGitHub == <<operator, cache, synced, cluster, podCache, owed>>

\* An agent that runs for task t.  It has its token in its environment, where
\* that of a PAT does not expire and none goes with the Secret.
AgentAt(n, m, t) == pods[n][m].phase = "Running" /\ pods[n][m].task = t

\* A fresh or resumed agent opens a pull request on a new branch.
AgentOpensPR(n, t, p, head) ==
    /\ AgentAt(n, "agent", t)
    /\ prs[t][p].state = "none"
    /\ \A q \in PRs : q < p => prs[t][q].state # "none"
    /\ prs' = [prs EXCEPT ![t][p] = [NoPullRequest EXCEPT !.state = "open", !.head = head]]
    /\ UNCHANGED <<notGitHub, thread>>

\* Any agent pushes to the branch of an open pull request.
AgentPushes(n, m, t, p, head) ==
    /\ AgentAt(n, m, t)
    /\ prs[t][p].state = "open"
    /\ prs' = [prs EXCEPT ![t][p] = [@ EXCEPT !.head = head, !.vetted = FALSE]]
    /\ UNCHANGED <<notGitHub, thread>>

AgentAsks(n, m, t) ==
    /\ AgentAt(n, m, t)
    /\ thread' = [thread EXCEPT ![t] = "asked"]
    /\ UNCHANGED <<notGitHub, prs>>

\* A trusted human answers; anyone else's comment, coming last, hides that.  Here
\* only the agent begins a comment with "/clarification:"; IssueLife has the rest.
Comment(t, by) ==
    /\ thread[t] # "none"
    /\ thread' = [thread EXCEPT ![t] = by]
    /\ UNCHANGED <<notGitHub, prs>>

PRChanges(t, p, from, to) ==
    /\ prs[t][p].state = from
    /\ prs' = [prs EXCEPT ![t][p].state = to]
    /\ UNCHANGED <<notGitHub, thread>>

\* The reviewer asks for changes.
ReviewerLabels(t, p) ==
    /\ prs[t][p].state = "open"
    /\ prs' = [prs EXCEPT ![t][p].label = IF @ = "none" THEN "asked" ELSE @]
    /\ UNCHANGED <<notGitHub, thread>>

-----------------------------------------------------------------------------
\* The steps of a call once it has read its DevTask.
Continue ==
    \/ StatusUpdate
    \/ ensureNamespace \/ ensureNetworkPolicy \/ ensureTaskSecret \/ ensurePod
    \/ CreateForbidden
    \/ reconcileActivePod \/ hasRecentClarificationComment \/ deleteNamespace
    \/ findPR \/ listPRFiles \/ rejectComment \/ rejectClose
    \/ findLink \/ prComment
    \/ isPRMergedOrClosed \/ prHasLabel \/ removePRLabel \/ deleteRevisionPod
    \/ humanRepliedAfterClarification \/ ttlDelete

Operator == Continue \/ \E t \in Tasks : Reconcile(t) \/ NothingToDo(t)

Kubernetes ==
    \/ \E t \in Tasks : SyncStatus(t) \/ TTLElapses(t)
    \/ \E n \in Namespaces :
         SyncPods(n) \/ ContentsGone(n) \/ NamespaceGone(n) \/ TokenExpires(n)
    \/ \E n \in Namespaces, m \in PodNames :
         \/ PodStarts(n, m) \/ PodSucceeds(n, m) \/ PodFails(n, m)
         \/ PodEvicted(n, m) \/ PodRemoved(n, m)

People ==
    \/ \E n \in Namespaces, m \in PodNames, t \in Tasks :
         \/ AgentAsks(n, m, t)
         \/ \E p \in PRs, head \in {"clean", "violating"} :
              AgentPushes(n, m, t, p, head) \/ (m = "agent" /\ AgentOpensPR(n, t, p, head))
    \/ \E t \in Tasks : Comment(t, "answered") \/ Comment(t, "asked")
    \/ \E t \in Tasks, p \in PRs :
         \/ PRChanges(t, p, "open", "merged") \/ PRChanges(t, p, "open", "closed")
         \/ PRChanges(t, p, "closed", "open") \/ ReviewerLabels(t, p)

Next == Operator \/ Abort \/ Kubernetes \/ People

Spec == Init /\ [][Next]_vars

-----------------------------------------------------------------------------
(* Properties                                                              *)

\* A task that is Completed or Failed stays so, whatever an informer that lags
\* behind makes a later Reconcile believe: the optimistic lock on the status
\* write is what stops a call that set out from an older phase.
TerminalIsFinal ==
    [][\A t \in Tasks : status[t].phase \in Terminal => status'[t].phase = status[t].phase]_vars

\* The status of every task, as the API server shows it, only makes the moves
\* of the abstract life cycle, although Reconcile decides on each of them from a
\* cached status several API calls earlier.
Life == INSTANCE Lifecycle WITH
            phase <- [t \in Tasks |-> status[t].phase],
            held  <- [t \in Tasks |-> status[t].ns],
            pr    <- [t \in Tasks |-> status[t].pr]
ImplementsLifecycle == Life!Spec

\* No agent pod of a live namespace, not even one left over from an earlier
\* round, lacks the sandbox-egress NetworkPolicy or the task's Secret: the
\* ensure steps run in that order, through crashes and through namespaces that
\* are deleted and created again.  While a namespace terminates, a pod in its
\* grace period may outlive its policy, and the property says nothing.
PodsAreSandboxed ==
    \A n \in Namespaces, m \in PodNames :
        ns[n] = "active" /\ pods[n][m].phase # "none" => policy[n] /\ secret[n] # "none"

\* What a reviewer is asked to look at is the diff the policy accepted: while a
\* task awaits review, the agent has pushed nothing since evaluateDiff passed.
ReviewedDiffIsVetted ==
    \A t \in Tasks : status[t].phase = "AwaitingReview" => prs[t][status[t].pr].vetted

\* A task returns to review only after the agent pod of the requested revision
\* has succeeded: an old agent-rev pod, or the first run's, is not taken for it.
RevisionIsCarriedOut ==
    \A t \in Tasks : status[t].phase = "AwaitingReview" => owed[t] = "no"

\* When a task is over and its status no longer names a namespace to reclaim,
\* its namespace, and the Secret in it, has been deleted: nobody looks again.
NoSandboxIsForgotten ==
    \A t \in Tasks :
        status[t].phase = "Completed" \/ (status[t].phase = "Failed" /\ ~status[t].ns)
            => ns[taskNamespace(t)] # "active"

\* A task gives up its slot of the concurrency cap only when its agent has ended:
\* no pod waits or runs in a live sandbox of a task that is over, although the
\* poller counts phases, which are written from what getPod showed.
AgentsAreCounted ==
    \A t \in Tasks, m \in PodNames :
        /\ ns[taskNamespace(t)] = "active"
        /\ pods[taskNamespace(t)][m].phase \in {"Pending", "Running"}
        => status[t].phase \notin Terminal

\* One needs-revision label starts one round: a label that has had its round is
\* off the pull request before the task is next looked at in AwaitingReview.
RevisionIsAsked ==
    [][\A t \in Tasks :
          status[t].phase = "AwaitingReview" /\ status'[t].phase = "AwaitingRevision"
              => prs[t][status[t].pr].label = "asked"]_vars

\* The pod whose phase drives an active task is a pod of that task.
SandboxIsOwn ==
    \A t \in Tasks, m \in PodNames :
        status[t].phase \in Active /\ pods[taskNamespace(t)][m].phase # "none"
            => pods[taskNamespace(t)][m].task = t

\* An agent pod is created next to a Secret whose token was minted for it.
PodsGetFreshTokens ==
    [][\A n \in Namespaces, m \in PodNames :
          pods[n][m].phase = "none" /\ pods'[n][m].phase # "none" => secret[n] = "valid"]_vars

\* A failed pod whose agent asked for clarification hands the task to a human.
ClarificationIsHeard ==
    [][\A t \in Tasks :
          /\ status[t].phase \in Active /\ status'[t].phase = "Failed"
          /\ getPod(pods[taskNamespace(t)]).phase = "Failed"
          => thread[t] = "none"]_vars

=============================================================================
