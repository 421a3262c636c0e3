----------------------------- MODULE SandboxProofs -----------------------------
(***************************************************************************)
(* Proofs about the sandboxes of the DevTask controller: what a status,    *)
(* even one read from a late cache, says about the namespace and the pods  *)
(* of its task.                                                            *)
(***************************************************************************)
EXTENDS DevTaskReconcilerProofs

USE TasksAssumption, NsOfAssumption, MaxPRAssumption, FaultsAssumption

\* No two issues have the same number, so that a namespace is one task's.
OwnNamespaces == \A t, u \in Tasks : NsOf[t] = NsOf[u] => t = u

-----------------------------------------------------------------------------
(* How far behind a reader can be                                          *)

\* The call in progress goes on: what it read stays with it.
MovesOn ==
    /\ ~At("idle") /\ Continue
    /\ work'.task = work.task /\ work'.snap = work.snap /\ work'.fresh = work.fresh

\* A step leaves the call in progress alone, ends it, begins one or moves it on.
LEMMA CallMoves ==
  ASSUME Inv, [Next]_vars
  PROVE  \/ work' = work
         \/ work' = Idle
         \/ \E t \in Tasks : Reconcile(t)
         \/ MovesOn
<1>0. work \in Works
  BY DEF Inv, TypeOK
<1>1. ASSUME NEW x, Goto(x) \/ Write(x) \/ DeleteThenWrite(x)
      PROVE  work'.task = work.task /\ work'.snap = work.snap /\ work'.fresh = work.fresh
  BY <1>0, <1>1 DEF Goto, Write, DeleteThenWrite, Works
<1>2. CASE Continue
  <2>1. CASE findPR
    <3>1. PICK p \in 0 .. MaxPR : Write(markFailed(Snap)) \/ work' = [work EXCEPT !.step = "listPRFiles", !.pr = p]
      BY <2>1 DEF findPR
    <3>2. work'.task = work.task /\ work'.snap = work.snap /\ work'.fresh = work.fresh
      BY <3>1, <1>0, <1>1 DEF Works
    <3> QED
      BY <1>2, <2>1, <3>2 DEF findPR, At, MovesOn
  <2>2. CASE reconcileActivePod
    BY <1>2, <2>2, <1>1 DEF reconcileActivePod, OnPod, Return, At, MovesOn
  <2> QED
    BY <1>1, <1>2, <2>1, <2>2 DEF Continue, StatusUpdate, ensureNamespace, ensureNetworkPolicy, ensureTaskSecret,
       ensurePod, CreateForbidden, hasRecentClarificationComment, deleteNamespace,
       listPRFiles, rejectComment, rejectClose, findLink, prComment, isPRMergedOrClosed, prHasLabel,
       removePRLabel, deleteRevisionPod, humanRepliedAfterClarification, ttlDelete, Return, At, MovesOn
<1>3. CASE People
  BY <1>3 DEF People, AgentAsks, AgentPushes, AgentOpensPR, Comment, PRChanges, ReviewerLabels,
     notGitHub, operator
<1>4. CASE Kubernetes
  BY <1>4 DEF Kubernetes, SyncStatus, TTLElapses, SyncPods, ContentsGone, NamespaceGone, TokenExpires,
     PodStarts, PodSucceeds, PodFails, PodEvicted, PodRemoved, operator
<1> QED
  BY <1>2, <1>3, <1>4 DEF Next, Operator, NothingToDo, Abort, Return, vars

\* Only StatusUpdate touches a status; a cache is also brought up to date.
LEMMA StatusFrame ==
  ASSUME [Next]_vars, ~StatusUpdate
  PROVE  /\ status' = status
         /\ \/ UNCHANGED <<cache, synced>>
            \/ work' = work /\ \E t \in Tasks : SyncStatus(t)
<1>1. CASE Continue
  BY <1>1 DEF Continue, ensureNamespace, ensureNetworkPolicy, ensureTaskSecret, ensurePod,
     CreateForbidden, reconcileActivePod, hasRecentClarificationComment, deleteNamespace, findPR,
     listPRFiles, rejectComment, rejectClose, findLink, prComment, isPRMergedOrClosed, prHasLabel,
     removePRLabel, deleteRevisionPod, humanRepliedAfterClarification, ttlDelete
<1>2. CASE People
  BY <1>2 DEF People, AgentAsks, AgentPushes, AgentOpensPR, Comment, PRChanges, ReviewerLabels,
     notGitHub, operator
<1>3. CASE Kubernetes
  BY <1>3 DEF Kubernetes, SyncStatus, TTLElapses, SyncPods, ContentsGone, NamespaceGone, TokenExpires,
     PodStarts, PodSucceeds, PodFails, PodEvicted, PodRemoved, operator
<1> QED
  BY <1>1, <1>2, <1>3 DEF Next, Operator, Reconcile, NothingToDo, Abort, vars

\* A status that was read is the present one or the one before it.
Lag(old, new) == old = new \/ Move(old, new)

\* Because a status is written only from its newest version, neither the cache
\* nor the call in progress is more than one move behind, and they are behind by
\* the same move.
LagInv ==
    /\ \A t \in Tasks : Lag(cache[t], status[t])
    /\ ~At("idle") => /\ Lag(work.snap, status[work.task])
                      /\ cache[work.task] \in {work.snap, status[work.task]}

LEMMA LagStep == Inv /\ LagInv /\ [Next]_vars => LagInv'
<1> SUFFICES ASSUME Inv, LagInv, [Next]_vars PROVE LagInv'
  OBVIOUS
<1>0. /\ work.task \in Tasks /\ work.next \in Status
      /\ status \in [Tasks -> Status] /\ cache \in [Tasks -> Status]
  BY WorkTyped DEF Inv, TypeOK
<1>1. CASE StatusUpdate
  <2>1. work'.step = "idle" /\ work.step = "statusUpdate"
    BY <1>1, IdleTyped DEF StatusUpdate, Return, At
  <2>2. CASE Conflicts
    BY <1>1, <2>1, <2>2 DEF StatusUpdate, LagInv, At
  <2>3. CASE ~Conflicts
    <3>1. /\ work.snap = status[work.task] /\ Move(work.snap, work.next)
          /\ cache[work.task] = status[work.task]
      BY <2>1, <2>3 DEF Inv, CallInv, StepKnows, LagInv, Conflicts, At
    <3>2. status' = [status EXCEPT ![work.task] = work.next] /\ cache' \in {cache, status'}
      BY <1>1, <2>3 DEF StatusUpdate, Task
    <3>3. \A t \in Tasks : Lag(cache'[t], status'[t])
      BY <3>1, <3>2, <1>0 DEF Lag, LagInv
    <3> QED
      BY <2>1, <3>3 DEF LagInv, At
  <2> QED
    BY <2>2, <2>3
<1>2. CASE ~StatusUpdate
  <2>1. status' = status
    BY <1>2, StatusFrame
  <2>2. \A t \in Tasks : cache'[t] \in {cache[t], status[t]}
    BY <1>2, <1>0, StatusFrame DEF SyncStatus
  <2>3. \A t \in Tasks : Lag(cache'[t], status'[t])
    BY <2>1, <2>2 DEF LagInv, Lag
  <2>4. CASE work' = work \/ MovesOn
    BY <2>1, <2>2, <2>3, <2>4, <1>0 DEF LagInv, MovesOn, At
  <2>5. CASE work' = Idle
    BY <2>3, <2>5, IdleTyped DEF LagInv, At
  <2>6. ASSUME NEW t \in Tasks, Reconcile(t) PROVE LagInv'
    <3>1. work'.task = t /\ work'.snap = cache[t] /\ cache' = cache
      BY <2>6, IdleTyped DEF Reconcile, Works
    <3> QED
      BY <2>1, <2>3, <3>1 DEF LagInv
  <2> QED
    BY <2>4, <2>5, <2>6, CallMoves
<1> QED
  BY <1>1, <1>2

-----------------------------------------------------------------------------
(* A namespace is given up only when it is deleted                         *)

\* From its first pod on a task holds a namespace, unless it has failed.
Held(s) == s.phase \notin {"", "Failed"} => s.ns

HeldInv ==
    /\ \A t \in Tasks : Held(status[t]) /\ Held(cache[t])
    /\ ~At("idle") => Held(work.snap)

LEMMA HeldMoves ==
  ASSUME NEW s \in Status, NEW n \in Status, Held(s), Move(s, n)
  PROVE  Held(n)
  BY DEF Held, Move, Status, Active, markFailed

LEMMA HeldStep == Inv /\ HeldInv /\ [Next]_vars => HeldInv'
<1> SUFFICES ASSUME Inv, HeldInv, [Next]_vars PROVE HeldInv'
  OBVIOUS
<1>0. /\ work.task \in Tasks /\ work.next \in Status /\ work.snap \in Status
      /\ status \in [Tasks -> Status] /\ cache \in [Tasks -> Status]
  BY WorkTyped DEF Inv, TypeOK
<1>1. CASE StatusUpdate
  <2>1. work'.step = "idle" /\ work.step = "statusUpdate"
    BY <1>1, IdleTyped DEF StatusUpdate, Return, At
  <2>2. CASE Conflicts
    BY <1>1, <2>1, <2>2 DEF StatusUpdate, HeldInv, At
  <2>3. CASE ~Conflicts
    <3>1. Held(work.next)
      BY <2>1, <1>0, HeldMoves DEF Inv, CallInv, StepKnows, HeldInv, At
    <3>2. status' = [status EXCEPT ![work.task] = work.next] /\ cache' \in {cache, status'}
      BY <1>1, <2>3 DEF StatusUpdate, Task
    <3> QED
      BY <2>1, <3>1, <3>2, <1>0 DEF HeldInv, At
  <2> QED
    BY <2>2, <2>3
<1>2. CASE ~StatusUpdate
  <2>1. status' = status
    BY <1>2, StatusFrame
  <2>2. \A t \in Tasks : cache'[t] \in {cache[t], status[t]}
    BY <1>2, <1>0, StatusFrame DEF SyncStatus
  <2>3. \A t \in Tasks : Held(status'[t]) /\ Held(cache'[t])
    BY <2>1, <2>2 DEF HeldInv
  <2>4. CASE work' = work \/ MovesOn
    BY <2>3, <2>4, <1>0 DEF HeldInv, MovesOn, At
  <2>5. CASE work' = Idle
    BY <2>3, <2>5, IdleTyped DEF HeldInv, At
  <2>6. ASSUME NEW t \in Tasks, Reconcile(t) PROVE HeldInv'
    <3>1. work'.task = t /\ work'.snap = cache[t]
      BY <2>6, IdleTyped DEF Reconcile, Works
    <3> QED
      BY <2>3, <3>1 DEF HeldInv
  <2> QED
    BY <2>4, <2>5, <2>6, CallMoves
<1> QED
  BY <1>1, <1>2

\* The status of a task that is over and has no namespace left to reclaim.
Over(s) == s.phase = "Completed" \/ (s.phase = "Failed" /\ ~s.ns)

\* When such a status is about to be written, the namespace has been deleted.
ReclaimInv ==
    /\ NoSandboxIsForgotten
    /\ At("statusUpdate") /\ Over(work.next) => ns[Sandbox] # "active"

\* Only ensureNamespace makes a namespace, and only that of its call.
LEMMA Activation ==
  ASSUME Inv, [Next]_vars, NEW n \in Namespaces, ns'[n] = "active"
  PROVE  ns[n] = "active" \/ (ensureNamespace /\ n = Sandbox)
<1>0. ns \in [Namespaces -> {"absent", "active", "terminating"}] /\ Sandbox \in Namespaces
  BY WorkTyped DEF Inv, TypeOK
<1>1. CASE Continue
  BY <1>0, <1>1 DEF Continue, StatusUpdate, ensureNamespace, ensureNetworkPolicy, ensureTaskSecret, ensurePod,
     CreateForbidden, reconcileActivePod, hasRecentClarificationComment, deleteNamespace, findPR,
     listPRFiles, rejectComment, rejectClose, findLink, prComment, isPRMergedOrClosed, prHasLabel,
     removePRLabel, deleteRevisionPod, humanRepliedAfterClarification, ttlDelete, Delete, cluster
<1>2. CASE People
  BY <1>2 DEF People, AgentAsks, AgentPushes, AgentOpensPR, Comment, PRChanges, ReviewerLabels,
     notGitHub, cluster
<1>3. CASE Kubernetes
  BY <1>0, <1>3 DEF Kubernetes, SyncStatus, TTLElapses, SyncPods, ContentsGone, NamespaceGone, TokenExpires,
     PodStarts, PodSucceeds, PodFails, PodEvicted, PodRemoved, cluster
<1> QED
  BY <1>1, <1>2, <1>3 DEF Next, Operator, Reconcile, NothingToDo, Abort, vars, cluster

\* A call that does not delete the namespace writes no status that forgets it.
LEMMA WritesHeld ==
  ASSUME Inv, HeldInv, [Next]_vars, work'.step = "statusUpdate"
  PROVE  work' = work \/ deleteNamespace \/ ttlDelete \/ ~Over(work'.next)
<1>0. work \in Works /\ work.snap \in Status /\ work.pr \in 0 .. MaxPR /\ work' # Idle
  BY WorkTyped, IdleTyped DEF Inv, TypeOK
<1>k. StepKnows(work) /\ (work.step # "idle" => Held(work.snap))
  BY DEF Inv, CallInv, HeldInv, At
<1>1. ASSUME NEW s, Write(s) PROVE work'.next = s
  BY <1>0, <1>1 DEF Write, Works
<1>2. ASSUME NEW s, DeleteThenWrite(s) PROVE work'.step = "deleteNamespace"
  BY <1>0, <1>2 DEF DeleteThenWrite, Works
<1>3. ASSUME NEW x, Goto(x) PROVE work'.step = x
  BY <1>0, <1>3 DEF Goto, Works
\* The statuses that are written without a deletion.
<1>4. \A ph \in {"Building", "Running", "AwaitingReview", "AwaitingRevision"}, p \in 0 .. MaxPR :
        /\ ~Over([Snap EXCEPT !.phase = ph])
        /\ ~Over([Snap EXCEPT !.phase = ph, !.ns = TRUE])
        /\ ~Over([Snap EXCEPT !.phase = ph, !.pr = p])
  BY <1>0 DEF Over, Snap, Status
<1>5. work.step \in {"clarification", "findPR"} => ~Over(markFailed(Snap))
  <2>1. work.step \in {"clarification", "findPR"} => Snap.ns
    BY <1>k DEF StepKnows, Held, Active, Snap
  <2> QED
    BY <1>0, <2>1 DEF Over, Snap, Status, markFailed
<1>6. CASE findPR
  <2>1. work.step = "findPR"
    BY <1>6 DEF findPR, At
  <2>2. PICK p \in 0 .. MaxPR : Write(markFailed(Snap)) \/ work' = [work EXCEPT !.step = "listPRFiles", !.pr = p]
    BY <1>6 DEF findPR
  <2>3. work' # [work EXCEPT !.step = "listPRFiles", !.pr = p]
    BY <1>0 DEF Works
  <2> QED
    BY <2>1, <2>2, <2>3, <1>1, <1>5
<1>7. CASE hasRecentClarificationComment
  <2>1. work.step = "clarification"
    BY <1>7 DEF hasRecentClarificationComment, At
  <2>2. Write(markFailed(Snap)) \/ DeleteThenWrite([Snap EXCEPT !.phase = "BlockedOnClarification"])
    BY <1>7 DEF hasRecentClarificationComment
  <2> QED
    BY <2>1, <2>2, <1>1, <1>2, <1>5
<1>8. CASE reconcileActivePod
  <2>1. Return \/ Goto("findPR") \/ Goto("clarification") \/ Write([Snap EXCEPT !.phase = "Running"])
    BY <1>8 DEF reconcileActivePod, OnPod
  <2> QED
    BY <2>1, <1>0, <1>1, <1>3, <1>4 DEF Return
<1>9. CASE ensurePod \/ prHasLabel
  BY <1>9, <1>0, <1>1, <1>4 DEF ensurePod, prHasLabel, Return
<1>15. CASE findLink \/ prComment
  <2>1. Goto("prComment") \/ Write(ToReview)
    BY <1>15 DEF findLink, prComment
  <2>2. ~Over(ToReview)
    BY <1>0, <1>4 DEF ToReview
  <2> QED
    BY <2>1, <2>2, <1>1, <1>3
<1>10. CASE listPRFiles
  BY <1>10, <1>3 DEF listPRFiles, evaluateDiff
<1>11. CASE Continue /\ ~deleteNamespace /\ ~ttlDelete
  BY <1>11, <1>0, <1>2, <1>3, <1>6, <1>7, <1>8, <1>9, <1>10, <1>15
  DEF Continue, StatusUpdate, ensureNamespace, ensureNetworkPolicy, ensureTaskSecret,
      CreateForbidden, rejectComment, rejectClose, isPRMergedOrClosed,
      removePRLabel, deleteRevisionPod, humanRepliedAfterClarification, Return
<1>12. ASSUME NEW t \in Tasks, Reconcile(t) PROVE FALSE
  <2>1. work'.step = FirstStep(t, cache[t])
    BY <1>12, IdleTyped DEF Reconcile, Works
  <2> QED
    BY <2>1 DEF FirstStep
<1>13. CASE People
  BY <1>13 DEF People, AgentAsks, AgentPushes, AgentOpensPR, Comment, PRChanges, ReviewerLabels,
     notGitHub, operator
<1>14. CASE Kubernetes
  BY <1>14 DEF Kubernetes, SyncStatus, TTLElapses, SyncPods, ContentsGone, NamespaceGone, TokenExpires,
     PodStarts, PodSucceeds, PodFails, PodEvicted, PodRemoved, operator
<1> QED
  BY <1>0, <1>11, <1>12, <1>13, <1>14 DEF Next, Operator, NothingToDo, Abort, Return, vars

ReadInv == Inv /\ LagInv /\ HeldInv

LEMMA ReadInvariant == Spec => []ReadInv
<1>1. Init => LagInv /\ HeldInv
  <2> SUFFICES ASSUME Init PROVE LagInv /\ HeldInv
    OBVIOUS
  <2>1. /\ \A t \in Tasks : status[t] = NewStatus /\ cache[t] = NewStatus
        /\ At("idle") /\ NewStatus.phase = ""
    BY IdleTyped DEF Init, NewStatus, At
  <2> QED
    BY <2>1 DEF LagInv, HeldInv, Lag, Held
<1>2. Init => Inv
  BY InitTyped, InitCall DEF Inv
<1>3. ReadInv /\ [Next]_vars => ReadInv'
  BY TypeStep, CallStep, LagStep, HeldStep DEF ReadInv, Inv
<1> QED
  BY <1>1, <1>2, <1>3, PTL DEF Spec, ReadInv

\* A call that creates a sandbox serves a task that is not over, even when the
\* status it read is out of date.
LEMMA SpawnPhase ==
  ASSUME ReadInv, work.step \in {"ensureNamespace", "ensureNetworkPolicy", "ensureTaskSecret", "ensurePod",
                                 "removePRLabel", "deleteRevisionPod"}
  PROVE  /\ status[work.task].phase \in {"", "AwaitingRevision", "BlockedOnClarification", "Building"}
         /\ status[work.task].phase \in {work.snap.phase, "Building"}
         /\ cache[work.task].phase \in {work.snap.phase, "Building"}
<1>0. work.task \in Tasks /\ work.snap \in Status /\ status[work.task] \in Status
  BY WorkTyped DEF ReadInv, Inv, TypeOK
<1>1. work.snap.phase \in {"", "AwaitingRevision", "BlockedOnClarification"}
  BY DEF ReadInv, Inv, CallInv, StepKnows
<1>2. Lag(work.snap, status[work.task]) /\ cache[work.task] \in {work.snap, status[work.task]}
  BY DEF ReadInv, LagInv, At
<1>3. Move(work.snap, status[work.task]) => status[work.task].phase = "Building"
  BY <1>0, <1>1 DEF Move, Active, Status
<1> QED
  BY <1>1, <1>2, <1>3 DEF Lag

LEMMA ReclaimStep ==
  ASSUME OwnNamespaces, "ignoredError" \notin Faults, ReadInv, ReclaimInv, [Next]_vars
  PROVE  ReclaimInv'
<1>0. /\ work \in Works /\ work.task \in Tasks /\ work.next \in Status /\ status \in [Tasks -> Status]
      /\ ns \in [Namespaces -> {"absent", "active", "terminating"}]
      /\ Sandbox \in Namespaces /\ Sandbox = NsOf[work.task]
  BY WorkTyped DEF ReadInv, Inv, TypeOK, Sandbox, taskNamespace, Task
<1>1. NoSandboxIsForgotten'
  <2> SUFFICES ASSUME NEW t \in Tasks, Over(status'[t]), ns'[NsOf[t]] = "active" PROVE FALSE
    BY DEF NoSandboxIsForgotten, Over, taskNamespace
  <2>0. NsOf[t] \in Namespaces
    OBVIOUS
  <2>1. CASE Over(status[t])
    <3>1. ns[NsOf[t]] # "active"
      BY <2>1 DEF ReclaimInv, NoSandboxIsForgotten, Over, taskNamespace
    <3>2. ensureNamespace /\ NsOf[t] = Sandbox
      BY <3>1, <2>0, Activation DEF ReadInv
    <3>3. t = work.task /\ work.step = "ensureNamespace"
      BY <3>2, <1>0 DEF OwnNamespaces, ensureNamespace, At
    <3> QED
      BY <3>3, <2>1, SpawnPhase DEF Over
  <2>2. CASE ~Over(status[t])
    <3>1. StatusUpdate
      BY <2>2, StatusFrame
    <3>2. t = work.task /\ status'[t] = work.next /\ ns' = ns
      BY <3>1, <2>2, <1>0 DEF StatusUpdate, Task, cluster
    <3> QED
      BY <3>1, <3>2, <1>0 DEF ReclaimInv, StatusUpdate, At
  <2> QED
    BY <2>1, <2>2
<1>2. ASSUME work'.step = "statusUpdate", Over(work'.next) PROVE ns'[NsOf[work'.task]] # "active"
  <2>1. CASE work' = work
    <3>1. work.step = "statusUpdate" /\ ns[Sandbox] # "active"
      BY <1>2, <2>1 DEF ReclaimInv, At
    <3> QED
      BY <3>1, <2>1, <1>0, Activation DEF ReadInv, ensureNamespace, At
  <2>2. CASE deleteNamespace \/ ttlDelete
    <3>1. ns'[Sandbox] # "active"
      BY <2>2, <1>0 DEF deleteNamespace, ttlDelete, Delete, MayHaveNoEffect
    <3>2. work'.task = work.task
      BY <2>2, <1>0 DEF deleteNamespace, ttlDelete, Goto, Write, Works
    <3> QED
      BY <3>1, <3>2, <1>0
  <2> QED
    BY <1>2, <2>1, <2>2, WritesHeld DEF ReadInv
<1> QED
  BY <1>1, <1>2 DEF ReclaimInv, At, Sandbox, taskNamespace, Task

\* A task that is over and names no namespace any more has none that is alive,
\* wherever calls are cut short and however late the caches are, as long as the
\* deletion that precedes the status write is not lost.
THEOREM NoneForgotten ==
  ASSUME OwnNamespaces, "ignoredError" \notin Faults
  PROVE  Spec => []NoSandboxIsForgotten
<1>1. Init => ReclaimInv
  BY IdleTyped DEF Init, ReclaimInv, NoSandboxIsForgotten, NewStatus, At, taskNamespace
<1>2. ReadInv /\ ReclaimInv /\ [Next]_vars => ReclaimInv'
  BY ReclaimStep
<1>3. ReclaimInv => NoSandboxIsForgotten
  BY DEF ReclaimInv
<1> QED
  BY <1>1, <1>2, <1>3, ReadInvariant, PTL DEF Spec

-----------------------------------------------------------------------------
(* What a status says about the pods                                       *)

Live == {"Pending", "Running"}

\* Every pod is in its task's namespace, and none is in one that is not there.
HomeInv ==
    /\ \A n \in Namespaces, m \in PodNames : pods[n][m].phase # "none" => NsOf[pods[n][m].task] = n
    /\ \A n \in Namespaces, m \in PodNames : ns[n] = "absent" => pods[n][m].phase = "none"

LEMMA DeletedMoves ==
  ASSUME NEW q \in Pods
  PROVE  \/ Deleted(q).phase = "none"
         \/ Deleted(q).phase = q.phase /\ q.phase # "none" /\ Deleted(q).task = q.task
  BY NoPodTyped DEF Deleted, Pods

\* What can become of a pod in one step: it goes, it ends or goes on, or a call
\* creates it for its task.
LEMMA PodMoves ==
  ASSUME Inv, [Next]_vars, NEW n \in Namespaces, NEW m \in PodNames
  PROVE  \/ pods'[n][m].phase = "none"
         \/ /\ pods[n][m].phase # "none" /\ pods'[n][m].task = pods[n][m].task
            /\ pods'[n][m].phase = pods[n][m].phase \/ pods[n][m].phase \in Live
         \/ /\ ensurePod /\ n = Sandbox /\ m = podName(Snap.phase) /\ ns[n] = "active"
            /\ pods'[n][m] = [phase |-> "Pending", deleting |-> FALSE, task |-> Task]
<1>0. /\ pods \in [Namespaces -> [PodNames -> Pods]] /\ pods[n][m] \in Pods
      /\ Sandbox \in Namespaces
  BY WorkTyped DEF Inv, TypeOK
<1>1. CASE pods' = pods
  BY <1>1
<1>2. CASE ensurePod
  <2> DEFINE k == podName(Snap.phase)
             new == [phase |-> "Pending", deleting |-> FALSE, task |-> Task]
  <2>0. k \in PodNames
    BY DEF podName, PodNames
  <2>1. ns[Sandbox] = "active" /\ (pods' = pods \/ pods' = [pods EXCEPT ![Sandbox][k] = new])
    BY <1>2 DEF ensurePod
  <2> HIDE DEF k, new
  <2>2. pods'[n][m] = pods[n][m] \/ (n = Sandbox /\ m = k /\ pods'[n][m] = new)
    BY <1>0, <2>0, <2>1
  <2> QED
    BY <1>2, <2>1, <2>2 DEF k, new
<1>3. CASE deleteRevisionPod
  <2>1. pods'[n][m] \in {pods[n][m], Deleted(pods[n][m])}
    <3>1. pods' = pods \/ pods' = [pods EXCEPT ![Sandbox]["agent-rev"] = Deleted(pods[Sandbox]["agent-rev"])]
      BY <1>3 DEF deleteRevisionPod
    <3> QED
      BY <1>0, <3>1
  <2> QED
    BY <2>1, <1>0, DeletedMoves
<1>4. ASSUME NEW k \in Namespaces, NEW j \in PodNames, PodEvicted(k, j)
      PROVE  \/ pods'[n][m] = pods[n][m] \/ pods'[n][m].phase = "none"
             \/ /\ pods'[n][m].phase = pods[n][m].phase /\ pods[n][m].phase # "none"
                /\ pods'[n][m].task = pods[n][m].task
  <2>1. pods' = [pods EXCEPT ![k][j] = Deleted(pods[k][j])]
    BY <1>4 DEF PodEvicted
  <2>2. pods'[n][m] \in {pods[n][m], Deleted(pods[n][m])}
    BY <1>0, <2>1
  <2> QED
    BY <2>2, <1>0, DeletedMoves
<1>5. ASSUME NEW k \in Namespaces, NEW j \in PodNames,
             PodStarts(k, j) \/ PodSucceeds(k, j) \/ PodFails(k, j)
      PROVE  \/ pods'[n][m] = pods[n][m]
             \/ pods[n][m].phase \in Live /\ pods'[n][m].task = pods[n][m].task
  <2>1. pods[k][j].phase \in Live /\ \E ph : pods' = [pods EXCEPT ![k][j].phase = ph]
    BY <1>5 DEF PodStarts, PodSucceeds, PodFails, SetPhase, Live
  <2>2. PICK ph : pods' = [pods EXCEPT ![k][j].phase = ph]
    BY <2>1
  <2>3. CASE n = k /\ m = j
    <3>1. pods'[n][m] = [pods[n][m] EXCEPT !.phase = ph]
      BY <1>0, <2>2, <2>3
    <3> QED
      BY <1>0, <2>1, <2>3, <3>1 DEF Pods
  <2>4. CASE ~(n = k /\ m = j)
    BY <1>0, <2>2, <2>4
  <2> QED
    BY <2>3, <2>4
<1>6. ASSUME NEW k \in Namespaces, NEW j \in PodNames, PodRemoved(k, j)
      PROVE  pods'[n][m] = pods[n][m] \/ pods'[n][m].phase = "none"
  BY <1>0, <1>6, NoPodTyped DEF PodRemoved
<1>7. CASE Continue
  BY <1>1, <1>2, <1>3, <1>7
  DEF Continue, StatusUpdate, ensureNamespace, ensureNetworkPolicy, ensureTaskSecret,
     CreateForbidden, reconcileActivePod, hasRecentClarificationComment, deleteNamespace, findPR,
     listPRFiles, rejectComment, rejectClose, findLink, prComment, isPRMergedOrClosed, prHasLabel,
     removePRLabel, humanRepliedAfterClarification, ttlDelete, cluster
<1>8. CASE Kubernetes
  BY <1>1, <1>4, <1>5, <1>6, <1>8 DEF Kubernetes, SyncStatus, TTLElapses, SyncPods,
     ContentsGone, NamespaceGone, TokenExpires, cluster, Live
<1>9. CASE People
  BY <1>1, <1>9 DEF People, AgentAsks, AgentPushes, AgentOpensPR, Comment, PRChanges, ReviewerLabels,
     notGitHub, cluster
<1> QED
  BY <1>1, <1>7, <1>8, <1>9 DEF Next, Operator, Reconcile, NothingToDo, Abort, vars, cluster

LEMMA HomeStep == Inv /\ HomeInv /\ [Next]_vars => HomeInv'
<1> SUFFICES ASSUME Inv, HomeInv, [Next]_vars, NEW n \in Namespaces, NEW m \in PodNames
             PROVE  /\ pods'[n][m].phase # "none" => NsOf[pods'[n][m].task] = n
                    /\ ns'[n] = "absent" => pods'[n][m].phase = "none"
  BY DEF HomeInv
<1>0. /\ ns \in [Namespaces -> {"absent", "active", "terminating"}] /\ Sandbox \in Namespaces
      /\ Sandbox = NsOf[Task]
  BY WorkTyped DEF Inv, TypeOK, Sandbox, taskNamespace
<1>1. ns'[n] = "absent" => ns[n] = "absent" \/ NamespaceGone(n)
  <2>1. CASE Continue
    BY <1>0, <2>1 DEF Continue, StatusUpdate, ensureNamespace, ensureNetworkPolicy, ensureTaskSecret, ensurePod,
       CreateForbidden, reconcileActivePod, hasRecentClarificationComment, deleteNamespace, findPR,
       listPRFiles, rejectComment, rejectClose, findLink, prComment, isPRMergedOrClosed, prHasLabel,
       removePRLabel, deleteRevisionPod, humanRepliedAfterClarification, ttlDelete, Delete, cluster
  <2>2. CASE People
    BY <2>2 DEF People, AgentAsks, AgentPushes, AgentOpensPR, Comment, PRChanges, ReviewerLabels,
       notGitHub, cluster
  <2>3. ASSUME NEW k \in Namespaces, NamespaceGone(k), k # n PROVE ns'[n] = ns[n]
    BY <1>0, <2>3 DEF NamespaceGone
  <2>4. CASE Kubernetes
    BY <2>3, <2>4 DEF Kubernetes, SyncStatus, TTLElapses, SyncPods, ContentsGone, TokenExpires,
       PodStarts, PodSucceeds, PodFails, PodEvicted, PodRemoved, cluster
  <2> QED
    BY <2>1, <2>2, <2>4 DEF Next, Operator, Reconcile, NothingToDo, Abort, vars, cluster
<1>2. NamespaceGone(n) => pods'[n][m].phase = "none"
  BY DEF NamespaceGone, Empty
<1>3. CASE pods'[n][m].phase = "none"
  BY <1>3
<1>4. CASE /\ pods[n][m].phase # "none" /\ pods'[n][m].task = pods[n][m].task
  BY <1>1, <1>2, <1>4 DEF HomeInv
<1>5. CASE /\ ensurePod /\ n = Sandbox /\ ns[n] = "active"
           /\ pods'[n][m] = [phase |-> "Pending", deleting |-> FALSE, task |-> Task]
  BY <1>0, <1>5 DEF ensurePod
<1> QED
  BY <1>3, <1>4, <1>5, PodMoves

Agent(t) == pods[NsOf[t]]["agent"].phase
Revision(t) == pods[NsOf[t]]["agent-rev"].phase
Alive(t) == ns[NsOf[t]] = "active"

\* No agent of the task is at work or about to be.
Quiet(t) == Agent(t) \notin Live /\ Revision(t) \notin Live

\* No pod that getPod would find before that of a first run or of a resumption,
\* unless it has failed and its namespace is on its way out.
NoRevision(t) ==
    \/ Revision(t) = "none"
    \/ Revision(t) = "Failed" /\ ~Alive(t)

\* Where a call that starts from phase ph may create a pod: no other runs then.
SpawnFits(ph, t) ==
    /\ ph \in {"", "BlockedOnClarification"} => NoRevision(t)
    /\ ph = "AwaitingRevision" => Agent(t) \notin Live

\* The pods of a task in phase ph.
Fits(ph, t) ==
    /\ SpawnFits(ph, t)
    /\ ph \in Active => NoRevision(t) \/ Agent(t) \notin Live
    /\ ph = "AwaitingReview" => Quiet(t)
    /\ ph \in Terminal /\ Alive(t) => Quiet(t)

\* What a call that started from the newest status has learnt of the pods.
CallFits(t) ==
    /\ work.step \in {"findPR", "listPRFiles", "rejectComment", "rejectClose", "findLink", "prComment"} => Quiet(t)
    /\ work.step = "clarification" =>
         /\ Revision(t) \in {"none", "Failed"}
         /\ Alive(t) => Quiet(t)
    /\ work.step \in {"deleteNamespace", "statusUpdate"} =>
         /\ work.next.phase = "AwaitingReview" => Quiet(t)
         /\ work.next.phase = "Failed" /\ Alive(t) => Quiet(t)
         /\ work.next.phase = "BlockedOnClarification" => Revision(t) \in {"none", "Failed"}
    /\ work.step = "statusUpdate" /\ work.next.phase = "BlockedOnClarification" => NoRevision(t)

FitInv ==
    \A t \in Tasks :
        /\ Fits(status[t].phase, t) /\ SpawnFits(cache[t].phase, t)
        /\ ~At("idle") /\ work.task = t => SpawnFits(work.snap.phase, t)
        /\ work.fresh /\ work.task = t => CallFits(t)

\* While no pod is created for a task, what is quiet stays quiet.
LEMMA Steady ==
  ASSUME Inv, HomeInv, [Next]_vars, NEW t \in Tasks, ~(ensurePod /\ NsOf[t] = Sandbox)
  PROVE  /\ Agent(t) \notin Live => Agent(t)' \notin Live
         /\ Quiet(t) => Quiet(t)'
         /\ Revision(t) \in {"none", "Failed"} => Revision(t)' \in {"none", "Failed"}
         /\ NoRevision(t) => NoRevision(t)'
         /\ Alive(t)' => Alive(t) \/ Quiet(t)'
<1>0. NsOf[t] \in Namespaces /\ "agent" \in PodNames /\ "agent-rev" \in PodNames
  BY DEF PodNames
<1>1. /\ Agent(t)' = "none" \/ Agent(t)' = Agent(t) \/ Agent(t) \in Live
      /\ Revision(t)' = "none" \/ Revision(t)' = Revision(t) \/ Revision(t) \in Live
      /\ Agent(t) = "none" => Agent(t)' = "none"
      /\ Revision(t) = "none" => Revision(t)' = "none"
  BY <1>0, PodMoves DEF Agent, Revision
<1>2. Alive(t)' => Alive(t) \/ (Agent(t) = "none" /\ Revision(t) = "none")
  <2>1. ensureNamespace /\ NsOf[t] = Sandbox /\ Alive(t)' => ns[NsOf[t]] \in {"active", "absent"}
    BY <1>0 DEF ensureNamespace, Alive, Inv, TypeOK
  <2> QED
    BY <2>1, <1>0, Activation DEF Alive, HomeInv, Agent, Revision
<1>3. "none" \notin Live /\ "Failed" \notin Live
  BY DEF Live
<1> QED
  BY <1>1, <1>2, <1>3 DEF Quiet, NoRevision

\* A call creates the pod its phase asks for and leaves the other one alone.
LEMMA Creation ==
  ASSUME Inv, ensurePod, NEW t \in Tasks
  PROVE  /\ work.snap.phase = "AwaitingRevision" => Agent(t)' = Agent(t)
         /\ work.snap.phase # "AwaitingRevision" => Revision(t)' = Revision(t)
         /\ Alive(t)' = Alive(t)
         /\ work.step = "ensurePod" /\ work'.next.phase = "Building" /\ work'.step = "statusUpdate"
         /\ UNCHANGED <<status, cache>>
<1>0. /\ pods \in [Namespaces -> [PodNames -> Pods]] /\ Sandbox \in Namespaces /\ NsOf[t] \in Namespaces
      /\ work \in Works /\ work.snap \in Status
  BY WorkTyped DEF Inv, TypeOK
<1> DEFINE k == podName(Snap.phase)
           new == [phase |-> "Pending", deleting |-> FALSE, task |-> Task]
<1>1. pods' = pods \/ pods' = [pods EXCEPT ![Sandbox][k] = new]
  BY DEF ensurePod
<1>2. k = "agent-rev" <=> work.snap.phase = "AwaitingRevision"
  BY DEF podName, Snap
<1>3. k \in PodNames /\ "agent" \in PodNames /\ "agent-rev" \in PodNames
  BY DEF podName, PodNames
<1>4. work.step = "ensurePod" /\ work'.next.phase = "Building" /\ work'.step = "statusUpdate"
  BY <1>0 DEF ensurePod, At, Write, Works, Snap, Status
<1>5. UNCHANGED <<status, cache, ns>>
  BY DEF ensurePod
<1> HIDE DEF k, new
<1>6. k # "agent" => Agent(t)' = Agent(t)
  BY <1>0, <1>1, <1>3 DEF Agent
<1>7. k # "agent-rev" => Revision(t)' = Revision(t)
  BY <1>0, <1>1, <1>3 DEF Revision
<1>8. "agent" # "agent-rev"
  OBVIOUS
<1> QED
  BY <1>2, <1>4, <1>5, <1>6, <1>7, <1>8 DEF Alive

\* The phases of a move.
LEMMA MovePhases ==
  ASSUME NEW s \in Status, NEW n \in Status, Move(s, n)
  PROVE  \/ s.phase \in {"", "AwaitingRevision", "BlockedOnClarification"} /\ n.phase = "Building"
         \/ s.phase = "Building" /\ n.phase = "Running"
         \/ s.phase \in Active /\ n.phase \in {"AwaitingReview", "BlockedOnClarification", "Failed"}
         \/ s.phase = "AwaitingReview" /\ n.phase \in {"AwaitingRevision", "Completed"}
         \/ s.phase = "Failed" /\ n.phase = "Failed"
  BY DEF Move, Status, markFailed

\* The statuses, the caches and the call in progress keep saying the truth.
LEMMA PhasesFit ==
  ASSUME OwnNamespaces, ReadInv, HomeInv, FitInv, [Next]_vars, NEW t \in Tasks
  PROVE  /\ Fits(status[t].phase, t)' /\ SpawnFits(cache[t].phase, t)'
         /\ ~At("idle")' /\ work'.task = t => SpawnFits(work.snap.phase, t)'
<1>0. /\ Inv /\ work.task \in Tasks /\ work.next \in Status /\ work.snap \in Status
      /\ status \in [Tasks -> Status] /\ cache \in [Tasks -> Status] /\ Sandbox = NsOf[work.task]
  BY WorkTyped DEF ReadInv, Inv, TypeOK, Sandbox, taskNamespace, Task
<1>f. Fits(status[t].phase, t) /\ SpawnFits(cache[t].phase, t)
  BY DEF FitInv
\* What held before holds for the same phase after the step.
<1>1. ASSUME NEW ph, ~(ensurePod /\ NsOf[t] = Sandbox)
      PROVE  /\ SpawnFits(ph, t) => /\ ph \in {"", "BlockedOnClarification"} => NoRevision(t)'
                                    /\ ph = "AwaitingRevision" => Agent(t)' \notin Live
             /\ Fits(ph, t) =>
                  /\ ph \in {"", "BlockedOnClarification"} => NoRevision(t)'
                  /\ ph = "AwaitingRevision" => Agent(t)' \notin Live
                  /\ ph \in Active => NoRevision(t)' \/ Agent(t)' \notin Live
                  /\ ph = "AwaitingReview" => Quiet(t)'
                  /\ ph \in Terminal /\ Alive(t)' => Quiet(t)'
  BY <1>0, <1>1, Steady DEF SpawnFits, Fits
<1>2. CASE ensurePod /\ NsOf[t] = Sandbox
  <2>1. t = work.task
    BY <1>0, <1>2 DEF OwnNamespaces
  <2>2. work.step = "ensurePod" /\ UNCHANGED <<status, cache>>
    BY <1>0, <1>2, Creation
  <2>3. /\ work.snap.phase \in {"", "AwaitingRevision", "BlockedOnClarification"}
        /\ SpawnFits(work.snap.phase, t)
    BY <2>1, <2>2 DEF ReadInv, Inv, CallInv, StepKnows, FitInv, At
  <2>4. /\ status[t].phase \in {work.snap.phase, "Building"}
        /\ cache[t].phase \in {work.snap.phase, "Building"}
    BY <2>1, <2>2, SpawnPhase
  <2>5. work.snap.phase = "AwaitingRevision" => Agent(t)' \notin Live
    BY <1>0, <1>2, <2>3, Creation DEF SpawnFits
  <2>6. work.snap.phase # "AwaitingRevision" => NoRevision(t)'
    BY <1>0, <1>2, <2>3, Creation DEF SpawnFits, NoRevision
  <2>7. work'.snap = work.snap
    BY <1>2, <1>0 DEF ensurePod, Write, Works, Inv, TypeOK
  <2> QED
    BY <2>2, <2>3, <2>4, <2>5, <2>6, <2>7 DEF Fits, SpawnFits, Active, Terminal
<1>3. CASE ~(ensurePod /\ NsOf[t] = Sandbox)
  <2>1. Fits(status[t].phase, t)'
    <3>1. CASE status'[t] = status[t]
      BY <1>1, <1>3, <1>f, <3>1 DEF Fits, SpawnFits
    <3>2. CASE status'[t] # status[t]
      <4>1. /\ StatusUpdate /\ ~Conflicts /\ work.step = "statusUpdate"
            /\ t = work.task /\ status'[t] = work.next
        BY <1>0, <3>2, StatusFrame DEF StatusUpdate, Task, At
      <4>2. /\ work.snap = status[t] /\ Move(status[t], work.next) /\ CallFits(t)
        BY <4>1 DEF ReadInv, Inv, CallInv, StepKnows, FitInv, Conflicts, At
      <4>3. UNCHANGED <<pods, ns>>
        BY <4>1 DEF StatusUpdate, cluster
      <4>4. /\ Quiet(t)' = Quiet(t) /\ NoRevision(t)' = NoRevision(t)
            /\ Agent(t)' = Agent(t) /\ Alive(t)' = Alive(t)
        BY <4>3 DEF Quiet, NoRevision, Agent, Revision, Alive
      <4>5. Quiet(t) => Agent(t) \notin Live
        BY DEF Quiet
      <4> QED
        BY <1>0, <1>f, <4>1, <4>2, <4>4, <4>5, MovePhases DEF Fits, SpawnFits, CallFits, Active, Terminal
    <3> QED
      BY <3>1, <3>2
  <2>2. SpawnFits(cache[t].phase, t)'
    <3>1. CASE cache'[t] = cache[t]
      BY <1>1, <1>3, <1>f, <3>1 DEF SpawnFits
    <3>2. CASE cache'[t] = status'[t]
      BY <2>1, <3>2 DEF SpawnFits, Fits
    <3>3. cache'[t] = cache[t] \/ cache'[t] = status'[t]
      <4>1. CASE StatusUpdate
        BY <4>1 DEF StatusUpdate
      <4>2. CASE ~StatusUpdate
        BY <4>2, <1>0, StatusFrame DEF SyncStatus
      <4> QED
        BY <4>1, <4>2
    <3> QED
      BY <3>1, <3>2, <3>3
  <2>3. ASSUME ~At("idle")', work'.task = t PROVE SpawnFits(work.snap.phase, t)'
    <3>1. CASE work' = work \/ MovesOn
      <4>1. ~At("idle") /\ work.task = t /\ work'.snap = work.snap
        BY <2>3, <3>1 DEF MovesOn, At
      <4>2. SpawnFits(work.snap.phase, t)
        BY <4>1 DEF FitInv
      <4> QED
        BY <1>1, <1>3, <4>1, <4>2 DEF SpawnFits
    <3>2. CASE work' = Idle
      BY <2>3, <3>2, IdleTyped DEF At
    <3>3. ASSUME NEW u \in Tasks, Reconcile(u) PROVE SpawnFits(work.snap.phase, t)'
      <4>1. u = t /\ work'.snap = cache[t]
        BY <2>3, <3>3, IdleTyped DEF Reconcile, Works
      <4> QED
        BY <1>1, <1>3, <1>f, <4>1 DEF SpawnFits
    <3> QED
      BY <3>1, <3>2, <3>3, <1>0, CallMoves
  <2> QED
    BY <2>1, <2>2, <2>3
<1> QED
  BY <1>2, <1>3

\* A call that started from the newest status goes on knowing what it has learnt.
LEMMA CallsFit ==
  ASSUME OwnNamespaces, "podLag" \notin Faults, "ignoredError" \notin Faults,
         ReadInv, HomeInv, FitInv, [Next]_vars,
         NEW t \in Tasks, work'.fresh, work'.task = t
  PROVE  CallFits(t)'
<1>0. /\ Inv /\ work \in Works /\ work.task \in Tasks /\ work.next \in Status /\ work.snap \in Status
      /\ status \in [Tasks -> Status] /\ Sandbox = NsOf[work.task] /\ work.pr \in 0 .. MaxPR
  BY WorkTyped DEF ReadInv, Inv, TypeOK, Sandbox, taskNamespace, Task
<1>k. StepKnows(work)
  BY DEF ReadInv, Inv, CallInv
\* What the steps that tell something of the next status rely on.
<1>1. ASSUME ~ensurePod
      PROVE  /\ Quiet(t) => Quiet(t)'
             /\ Revision(t) \in {"none", "Failed"} => Revision(t)' \in {"none", "Failed"}
             /\ NoRevision(t) => NoRevision(t)'
             /\ Alive(t)' => Alive(t) \/ Quiet(t)'
  BY <1>0, <1>1, Steady
<1>2. CASE work' = work
  <2>1. ~ensurePod
    BY <1>2, <1>0, Creation
  <2>2. CallFits(t)
    BY <1>2 DEF FitInv
  <2> QED
    BY <1>1, <1>2, <2>1, <2>2 DEF CallFits
<1>3. CASE work' = Idle
  BY <1>3 DEF Idle
<1>4. ASSUME NEW u \in Tasks, Reconcile(u) PROVE CallFits(t)'
  <2>1. work'.step = FirstStep(u, cache[u])
    BY <1>4, IdleTyped DEF Reconcile, Works
  <2>2. work'.step \notin {"findPR", "listPRFiles", "rejectComment", "rejectClose", "findLink", "prComment", "clarification",
                           "deleteNamespace", "statusUpdate"}
    BY <2>1 DEF FirstStep
  <2> QED
    BY <2>2 DEF CallFits
<1>5. CASE MovesOn
  <2>0. /\ work.task = t /\ work.fresh /\ CallFits(t) /\ work.snap = status[t]
        /\ Fits(status[t].phase, t)
    BY <1>5 DEF MovesOn, FitInv, ReadInv, Inv, CallInv
  <2>1. ASSUME NEW x, Goto(x) PROVE work'.step = x /\ work'.next = work.next
    BY <1>0, <2>1 DEF Goto, Works
  <2>2. ASSUME NEW s, Write(s) PROVE work'.step = "statusUpdate" /\ work'.next = s
    BY <1>0, <2>2 DEF Write, Works
  <2>3. ASSUME NEW s, DeleteThenWrite(s) PROVE work'.step = "deleteNamespace" /\ work'.next = s
    BY <1>0, <2>3 DEF DeleteThenWrite, Works
  <2>4. \A ph \in Phases : [Snap EXCEPT !.phase = ph].phase = ph
    BY <1>0 DEF Snap, Status
  <2>5. markFailed(Snap).phase = "Failed"
    BY <1>0 DEF Snap, Status, markFailed
  \* A step that comes before anything is learnt, or learns nothing.
  <2>6. ASSUME work'.step \in {"ensureNamespace", "ensureNetworkPolicy", "ensureTaskSecret", "ensurePod",
                               "prHasLabel", "deleteRevisionPod", "idle"}
                 \/ (/\ work'.step \in {"statusUpdate", "deleteNamespace"}
                     /\ work'.next.phase \in {"Building", "Running", "AwaitingRevision", "Completed"})
        PROVE  CallFits(t)'
    BY <2>6 DEF CallFits
  <2>7. CASE ensurePod
    BY <2>6, <2>7, <1>0, Creation
  <2>8. CASE \/ ensureNamespace \/ ensureNetworkPolicy \/ ensureTaskSecret \/ removePRLabel
             \/ deleteRevisionPod
    BY <2>1, <2>6, <2>8 DEF ensureNamespace, ensureNetworkPolicy, ensureTaskSecret, removePRLabel, deleteRevisionPod
  <2>9. CASE StatusUpdate \/ CreateForbidden \/ humanRepliedAfterClarification
    BY <2>1, <2>6, <2>9, IdleTyped DEF StatusUpdate, CreateForbidden, humanRepliedAfterClarification, Return
  <2>10. CASE prHasLabel \/ isPRMergedOrClosed
    <3>1. \/ Return \/ Goto("prHasLabel") \/ Write([Snap EXCEPT !.phase = "AwaitingRevision"])
          \/ DeleteThenWrite([Snap EXCEPT !.phase = "Completed"])
      BY <2>10 DEF prHasLabel, isPRMergedOrClosed
    <3>2. "AwaitingRevision" \in Phases /\ "Completed" \in Phases
      BY DEF Phases
    <3> QED
      BY <3>1, <3>2, <2>1, <2>2, <2>3, <2>4, <2>6, IdleTyped DEF Return
  <2>11. CASE reconcileActivePod
    <3> DEFINE ph == getPod(PodView(Sandbox)).phase
    <3>1. ph = IF Revision(t) # "none" THEN Revision(t) ELSE Agent(t)
      BY <1>0, <2>0 DEF getPod, PodView, Revision, Agent
    <3>2. work.step = "getPod" /\ ~ensurePod
      BY <2>11 DEF reconcileActivePod, ensurePod, At
    <3>3. NoRevision(t) \/ Agent(t) \notin Live
      BY <3>2, <1>k, <2>0 DEF StepKnows, Fits
    <3>4. OnPod(ph)
      BY <2>11 DEF reconcileActivePod, MayHaveNoEffect
    <3> HIDE DEF ph
    <3>5. CASE ph = "Succeeded"
      <4>1. work'.step = "findPR"
        BY <3>4, <3>5, <2>1 DEF OnPod
      <4>2. Quiet(t)
        BY <3>1, <3>3, <3>5 DEF NoRevision, Quiet, Live
      <4> QED
        BY <4>1, <4>2, <3>2, <1>1 DEF CallFits
    <3>6. CASE ph = "Failed"
      <4>1. work'.step = "clarification"
        BY <3>4, <3>6, <2>1 DEF OnPod
      <4>2. /\ Revision(t) \in {"none", "Failed"}
            /\ Alive(t) => Quiet(t)
        BY <3>1, <3>3, <3>6 DEF NoRevision, Quiet, Live
      <4> QED
        BY <4>1, <4>2, <3>2, <1>1 DEF CallFits
    <3>7. CASE ph \notin {"Succeeded", "Failed"}
      <4>1. Return \/ Write([Snap EXCEPT !.phase = "Running"])
        BY <3>4, <3>7 DEF OnPod
      <4>2. "Running" \in Phases
        BY DEF Phases
      <4> QED
        BY <4>1, <4>2, <2>2, <2>4, <2>6, IdleTyped DEF Return
    <3> QED
      BY <3>5, <3>6, <3>7
  <2>12. CASE hasRecentClarificationComment
    <3>1. work.step = "clarification" /\ ~ensurePod
      BY <2>12 DEF hasRecentClarificationComment, ensurePod, At
    <3>2. \/ work'.step = "deleteNamespace" /\ work'.next.phase = "BlockedOnClarification"
          \/ work'.step = "statusUpdate" /\ work'.next.phase = "Failed"
      BY <2>12, <2>2, <2>3, <2>4, <2>5 DEF hasRecentClarificationComment, Phases
    <3> QED
      BY <3>1, <3>2, <2>0, <1>1 DEF CallFits
  <2>13. CASE deleteNamespace
    <3>1. work.step = "deleteNamespace" /\ ~ensurePod /\ work'.step = "statusUpdate" /\ work'.next = work.next
      BY <2>13, <2>1 DEF deleteNamespace, ensurePod, At
    <3>2. ~Alive(t)'
      BY <2>13, <1>0, <2>0 DEF deleteNamespace, Delete, Alive, Inv, TypeOK, MayHaveNoEffect
    <3>3. Revision(t)' \in {"none", "Failed"} => NoRevision(t)'
      BY <3>2 DEF NoRevision
    <3> QED
      BY <3>1, <3>2, <3>3, <2>0, <1>1 DEF CallFits
  <2>14. CASE findPR \/ listPRFiles \/ rejectComment \/ rejectClose \/ findLink \/ prComment
    <3>1. /\ work.step \in {"findPR", "listPRFiles", "rejectComment", "rejectClose", "findLink", "prComment"}
          /\ ~ensurePod
      BY <2>14 DEF findPR, listPRFiles, rejectComment, rejectClose, findLink, prComment, ensurePod, At
    <3>2. Quiet(t)'
      BY <3>1, <2>0, <1>1 DEF CallFits
    <3>3. /\ work'.step \in {"listPRFiles", "rejectComment", "rejectClose", "findLink", "prComment", "deleteNamespace",
                             "statusUpdate"}
          /\ work'.step \in {"deleteNamespace", "statusUpdate"}
               => work'.next.phase \in {"Failed", "AwaitingReview"}
      <4>0. ToReview.phase = "AwaitingReview"
        BY <1>0 DEF ToReview, Snap, Status
      <4>1. CASE findPR
        <5>1. PICK p \in 0 .. MaxPR : Write(markFailed(Snap)) \/ work' = [work EXCEPT !.step = "listPRFiles", !.pr = p]
          BY <4>1 DEF findPR
        <5>2. work' = [work EXCEPT !.step = "listPRFiles", !.pr = p] => work'.step = "listPRFiles"
          BY <1>0 DEF Works
        <5> QED
          BY <5>1, <5>2, <2>2, <2>5
      <4>2. CASE listPRFiles
        BY <4>2, <2>1 DEF listPRFiles, evaluateDiff
      <4>3. CASE rejectComment
        BY <4>3, <2>1 DEF rejectComment
      <4>4. CASE rejectClose
        <5>1. [markFailed(Snap) EXCEPT !.ns = FALSE].phase = "Failed"
          BY <1>0 DEF Snap, Status, markFailed
        <5> QED
          BY <4>4, <5>1, <2>3 DEF rejectClose
      <4>5. CASE prComment
        BY <4>5, <4>0, <2>2 DEF prComment
      <4>6. CASE findLink
        BY <4>6, <4>0, <2>1, <2>2 DEF findLink
      <4> QED
        BY <2>14, <4>1, <4>2, <4>3, <4>4, <4>5, <4>6
    <3> QED
      BY <3>2, <3>3 DEF CallFits
  <2>15. CASE ttlDelete
    <3>1. work'.step = "statusUpdate" /\ work'.next = [Snap EXCEPT !.ns = FALSE]
      BY <2>15, <2>2 DEF ttlDelete
    <3>2. work'.next.phase = "Failed"
      BY <2>15, <3>1, <1>0, <1>k DEF ttlDelete, At, StepKnows, Snap, Status
    <3>3. ~Alive(t)'
      BY <2>15, <1>0, <2>0 DEF ttlDelete, Delete, Alive, Inv, TypeOK
    <3> QED
      BY <3>1, <3>2, <3>3 DEF CallFits
  <2> QED
    BY <1>5, <2>7, <2>8, <2>9, <2>10, <2>11, <2>12, <2>13, <2>14, <2>15 DEF Continue, MovesOn
<1> QED
  BY <1>2, <1>3, <1>4, <1>5, <1>0, CallMoves

PodsInv == ReadInv /\ HomeInv /\ FitInv

LEMMA PodsInvariant ==
  ASSUME OwnNamespaces, "podLag" \notin Faults, "ignoredError" \notin Faults
  PROVE  Spec => []PodsInv
<1>1. Init => HomeInv /\ FitInv
  <2> SUFFICES ASSUME Init PROVE HomeInv /\ FitInv
    OBVIOUS
  <2>1. \A n \in Namespaces, m \in PodNames : pods[n][m].phase = "none"
    BY NoPodTyped DEF Init
  <2>2. HomeInv
    BY <2>1 DEF HomeInv
  <2>3. \A t \in Tasks : Agent(t) = "none" /\ Revision(t) = "none"
    BY <2>1 DEF Agent, Revision, PodNames
  <2>4. At("idle") /\ ~work.fresh
    BY IdleTyped DEF Init, Idle, At
  <2> QED
    BY <2>2, <2>3, <2>4 DEF FitInv, Fits, SpawnFits, Quiet, NoRevision, Live
<1>2. ReadInv /\ HomeInv /\ FitInv /\ [Next]_vars => HomeInv' /\ FitInv'
  <2> SUFFICES ASSUME ReadInv, HomeInv, FitInv, [Next]_vars PROVE HomeInv' /\ FitInv'
    OBVIOUS
  <2>1. HomeInv'
    BY HomeStep DEF ReadInv
  <2>2. ASSUME NEW t \in Tasks
        PROVE  /\ Fits(status[t].phase, t)' /\ SpawnFits(cache[t].phase, t)'
               /\ ~At("idle")' /\ work'.task = t => SpawnFits(work.snap.phase, t)'
    BY PhasesFit
  <2>3. ASSUME NEW t \in Tasks, work'.fresh, work'.task = t PROVE CallFits(t)'
    BY <2>3, CallsFit
  <2> QED
    BY <2>1, <2>2, <2>3 DEF FitInv
<1> QED
  BY <1>1, <1>2, ReadInvariant, PTL DEF Spec, PodsInv

\* A task that is over has no agent left in a living namespace: what the poller
\* does not count any more does not run any more.
THEOREM EveryAgentCounts ==
  ASSUME OwnNamespaces, "podLag" \notin Faults, "ignoredError" \notin Faults
  PROVE  Spec => []AgentsAreCounted
<1>1. PodsInv => AgentsAreCounted
  <2> SUFFICES ASSUME PodsInv, NEW t \in Tasks, NEW m \in PodNames,
                      Alive(t), status[t].phase \in Terminal
               PROVE  pods[NsOf[t]][m].phase \notin {"Pending", "Running"}
    BY DEF AgentsAreCounted, Alive, taskNamespace
  <2>1. Quiet(t)
    BY DEF PodsInv, FitInv, Fits
  <2> QED
    BY <2>1 DEF Quiet, Agent, Revision, Live, PodNames
<1> QED
  BY <1>1, PodsInvariant, PTL

=============================================================================
