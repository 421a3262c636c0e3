------------------------ MODULE DevTaskReconcilerProofs ------------------------
(***************************************************************************)
(* Proofs about the DevTask controller, for any number of tasks, any       *)
(* assignment of namespaces (shared ones included) and any faults.         *)
(***************************************************************************)
EXTENDS DevTaskReconciler, TLAPS

USE TasksAssumption, NsOfAssumption, MaxPRAssumption, FaultsAssumption

-----------------------------------------------------------------------------
(* Type correctness                                                        *)

LEMMA IdleTyped == Idle \in Works /\ Idle.step = "idle" /\ NewStatus \in Status
  BY DEF Idle, Works, NewStatus, Status, Phases, Steps

LEMMA NoPodTyped == NoPod \in Pods /\ NoPod.phase = "none"
  BY DEF NoPod, Pods

LEMMA NoPRTyped == NoPullRequest \in PullRequests
  BY DEF NoPullRequest, PullRequests

LEMMA FirstStepTyped ==
  ASSUME NEW t, NEW s \in Status
  PROVE  FirstStep(t, s) \in Steps
  BY DEF FirstStep, Steps, Status, Phases

\* The fields of the call in progress, and the ways a step moves it on.
LEMMA WorkTyped ==
  ASSUME work \in Works
  PROVE  /\ work.task \in Tasks /\ work.snap \in Status /\ work.next \in Status
         /\ work.pr \in 0 .. MaxPR /\ work.step \in Steps /\ work.fresh \in BOOLEAN
         /\ Sandbox \in Namespaces
  BY DEF Works, Sandbox, taskNamespace, Task

LEMMA PhaseTyped ==
  ASSUME NEW s \in Status, NEW p \in Phases
  PROVE  [s EXCEPT !.phase = p] \in Status
  BY DEF Status

LEMMA FailedTyped ==
  ASSUME NEW s \in Status
  PROVE  markFailed(s) \in Status /\ [markFailed(s) EXCEPT !.ns = FALSE] \in Status
  BY DEF markFailed, Status, Phases

LEMMA GotoTyped ==
  ASSUME work \in Works, NEW x \in Steps, Goto(x)
  PROVE  work' \in Works
  BY DEF Goto, Works

LEMMA WriteTyped ==
  ASSUME work \in Works, NEW s \in Status, Write(s) \/ DeleteThenWrite(s)
  PROVE  work' \in Works
  BY DEF Write, DeleteThenWrite, Works, Steps

LEMMA ReturnTyped == Return => work' \in Works
  BY IdleTyped DEF Return

\* Updates of functions, of functions of functions, and of their records.
LEMMA Update1 ==
  ASSUME NEW S, NEW T, NEW f \in [S -> T], NEW x \in S, NEW v \in T
  PROVE  [f EXCEPT ![x] = v] \in [S -> T]
  OBVIOUS

LEMMA Update2 ==
  ASSUME NEW S, NEW T, NEW V, NEW f \in [S -> [T -> V]], NEW x \in S, NEW y, NEW v,
         y \in T => v \in V
  PROVE  [f EXCEPT ![x][y] = v] \in [S -> [T -> V]]
  OBVIOUS

LEMMA PRUpdateTyped ==
  ASSUME NEW r \in PullRequests, NEW b \in BOOLEAN, NEW l \in {"none", "asked", "taken"},
         NEW st \in {"none", "open", "closed", "merged"}, NEW h \in {"clean", "violating"}
  PROVE  /\ [r EXCEPT !.state = st] \in PullRequests
         /\ [r EXCEPT !.label = l] \in PullRequests
         /\ [r EXCEPT !.vetted = b] \in PullRequests
         /\ [r EXCEPT !.head = h, !.vetted = b] \in PullRequests
  BY DEF PullRequests

LEMMA PodUpdateTyped ==
  ASSUME NEW r \in Pods, NEW ph \in PodPhases, NEW b \in BOOLEAN
  PROVE  [r EXCEPT !.phase = ph] \in Pods /\ [r EXCEPT !.deleting = b] \in Pods
  BY DEF Pods

LEMMA DeletedTyped == ASSUME NEW r \in Pods PROVE Deleted(r) \in Pods
  BY PodUpdateTyped, NoPodTyped DEF Deleted, PodPhases

LEMMA InitTyped == Init => TypeOK
  BY IdleTyped, NoPodTyped, NoPRTyped DEF Init, TypeOK, Threads

LEMMA TypeStep == TypeOK /\ [Next]_vars => TypeOK'
<1> SUFFICES ASSUME TypeOK, [Next]_vars PROVE TypeOK'
  OBVIOUS
<1> USE DEF TypeOK, cluster, github
<1>1. ASSUME NEW t \in Tasks, Reconcile(t) PROVE TypeOK'
  <2>1. cache[t] \in Status
    OBVIOUS
  <2>2. FirstStep(t, cache[t]) \in Steps
    BY <2>1, FirstStepTyped
  <2> QED
    BY <1>1, <2>1, <2>2, IdleTyped DEF Reconcile, Works
<1>2. CASE StatusUpdate
  <2>1. work.next \in Status /\ Task \in Tasks
    BY WorkTyped DEF Task
  <2>2. work' \in Works
    BY <1>2, ReturnTyped DEF StatusUpdate
  <2>3. owed' \in [Tasks -> {"no", "requested", "spawned"}]
    BY <1>2, <2>1 DEF StatusUpdate
  <2>4. /\ [status EXCEPT ![Task] = work.next] \in [Tasks -> Status]
        /\ [synced EXCEPT ![Task] = FALSE] \in [Tasks -> BOOLEAN]
    BY <2>1, Update1
  <2>5. status' \in [Tasks -> Status] /\ cache' \in [Tasks -> Status] /\ synced' \in [Tasks -> BOOLEAN]
    BY <1>2, <2>4 DEF StatusUpdate
  <2>6. prs' \in [Tasks -> [PRs -> PullRequests]]
    <3> DEFINE p == work.next.pr
               v == [prs[Task][p] EXCEPT !.label = "taken"]
    <3>1. p \in PRs => v \in PullRequests
      <4>1. p \in PRs => prs[Task][p] \in PullRequests
        BY <2>1
      <4> QED
        BY <4>1, PRUpdateTyped
    <3>2. prs' = prs \/ prs' = [prs EXCEPT ![Task][p] = v]
      BY <1>2 DEF StatusUpdate
    <3> HIDE DEF p, v
    <3>3. CASE prs' = prs
      BY <3>3
    <3>4. CASE prs' = [prs EXCEPT ![Task][p] = v]
      <4>1. prs \in [Tasks -> [PRs -> PullRequests]] /\ Task \in Tasks
        BY <2>1
      <4> QED
        BY <3>1, <3>4, <4>1, Update2
    <3> QED
      BY <3>2, <3>3, <3>4
  <2> QED
    BY <1>2, <2>2, <2>3, <2>5, <2>6 DEF StatusUpdate
<1>3. CASE Abort
  BY <1>3, IdleTyped DEF Abort, Return
<1>4. CASE ensureNamespace
  BY <1>4, GotoTyped DEF ensureNamespace, Steps
<1>5. CASE ensureNetworkPolicy
  BY <1>5, GotoTyped DEF ensureNetworkPolicy, Steps
<1>6. CASE ensureTaskSecret
  BY <1>6, GotoTyped DEF ensureTaskSecret, Steps
<1>7. CASE ensurePod
  <2>1. [Snap EXCEPT !.phase = "Building", !.ns = TRUE] \in Status
    BY WorkTyped DEF Snap, Status, Phases
  <2>2. work' \in Works
    BY <1>7, <2>1, WriteTyped DEF ensurePod
  <2>3. pods' \in [Namespaces -> [PodNames -> Pods]]
    BY <1>7, WorkTyped DEF ensurePod, Pods, PodPhases, podName, Task
  <2>4. owed' \in [Tasks -> {"no", "requested", "spawned"}]
    BY <1>7, WorkTyped DEF ensurePod, Task
  <2> QED
    BY <1>7, <2>2, <2>3, <2>4 DEF ensurePod
<1>8. CASE CreateForbidden
  BY <1>8, IdleTyped DEF CreateForbidden, Return
<1>9. CASE reconcileActivePod
  <2>1. [Snap EXCEPT !.phase = "Running"] \in Status
    BY WorkTyped, PhaseTyped DEF Snap, Phases
  <2>2. work' \in Works
    BY <1>9, <2>1, WriteTyped, GotoTyped, ReturnTyped DEF reconcileActivePod, OnPod, Steps
  <2> QED
    BY <1>9, <2>2 DEF reconcileActivePod
<1>10. CASE hasRecentClarificationComment
  <2>1. [Snap EXCEPT !.phase = "BlockedOnClarification"] \in Status /\ markFailed(Snap) \in Status
    BY WorkTyped, PhaseTyped, FailedTyped DEF Snap, Phases
  <2>2. work' \in Works
    BY <1>10, <2>1, WriteTyped DEF hasRecentClarificationComment
  <2> QED
    BY <1>10, <2>2 DEF hasRecentClarificationComment
<1>11. CASE deleteNamespace
  <2>1. work' \in Works
    BY <1>11, GotoTyped DEF deleteNamespace, Steps
  <2> QED
    BY <1>11, <2>1, WorkTyped DEF deleteNamespace, Delete
<1>12. CASE findPR
  <2>1. markFailed(Snap) \in Status
    BY WorkTyped, FailedTyped DEF Snap
  <2>2. PICK p \in 0 .. MaxPR : IF p = 0 THEN Write(markFailed(Snap))
                                 ELSE work' = [work EXCEPT !.step = "listPRFiles", !.pr = p]
    BY <1>12 DEF findPR
  <2>3. CASE p = 0
    BY <1>12, <2>1, <2>2, <2>3, WriteTyped DEF findPR
  <2>4. CASE p # 0
    <3>1. work' \in Works
      BY <2>2, <2>4 DEF Works, Steps
    <3> QED
      BY <1>12, <3>1 DEF findPR
  <2> QED
    BY <2>3, <2>4
<1>13. CASE listPRFiles
  <2>1. work' \in Works
    BY <1>13, GotoTyped DEF listPRFiles, evaluateDiff, Steps
  <2>2. prs' \in [Tasks -> [PRs -> PullRequests]]
    <3> DEFINE r == prs[Task][work.pr]
               b == r.vetted \/ r.head = "clean"
    <3>1. Task \in Tasks /\ (work.pr \in PRs => r \in PullRequests) /\ b \in BOOLEAN
      BY WorkTyped DEF Task
    <3>2. work.pr \in PRs => [r EXCEPT !.vetted = b] \in PullRequests
      BY <3>1, PRUpdateTyped
    <3>3. PICK v : (work.pr \in PRs => v \in PullRequests) /\ prs' = [prs EXCEPT ![Task][work.pr] = v]
      BY <1>13, <3>2 DEF listPRFiles
    <3> QED
      BY <3>1, <3>3, Update2
  <2> QED
    BY <1>13, <2>1, <2>2 DEF listPRFiles
<1>14. CASE rejectComment
  BY <1>14, GotoTyped DEF rejectComment, Steps
<1>15. CASE rejectClose
  <2>1. [markFailed(Snap) EXCEPT !.ns = FALSE] \in Status
    BY WorkTyped, FailedTyped DEF Snap
  <2>2. work' \in Works
    BY <1>15, <2>1, WriteTyped DEF rejectClose
  <2>3. prs' \in [Tasks -> [PRs -> PullRequests]]
    <3> DEFINE r == prs[Task][work.pr]
               st == IF r.state = "open" THEN "closed" ELSE r.state
    <3>1. Task \in Tasks /\ (work.pr \in PRs => r \in PullRequests)
      BY WorkTyped DEF Task
    <3>2. work.pr \in PRs => st \in {"none", "open", "closed", "merged"}
      BY <3>1 DEF PullRequests
    <3>3. work.pr \in PRs => [r EXCEPT !.state = st] \in PullRequests
      BY <3>1, <3>2, PRUpdateTyped
    <3>4. PICK v : (work.pr \in PRs => v \in PullRequests) /\ prs' = [prs EXCEPT ![Task][work.pr] = v]
      BY <1>15, <3>3 DEF rejectClose
    <3> QED
      BY <3>1, <3>4, Update2
  <2> QED
    BY <1>15, <2>2, <2>3 DEF rejectClose
<1>16. CASE prComment
  <2>1. ToReview \in Status
    BY WorkTyped DEF ToReview, Snap, Status, Phases
  <2>2. work' \in Works
    BY <1>16, <2>1, WriteTyped DEF prComment
  <2>3. thread' \in [Tasks -> Threads]
    <3>1. Task \in Tasks /\ thread[Task] \in Threads
      BY WorkTyped DEF Task
    <3>2. PICK v \in Threads : thread' = [thread EXCEPT ![Task] = v]
      BY <1>16, <3>1 DEF prComment, Threads
    <3> QED
      BY <3>1, <3>2, Update1
  <2> QED
    BY <1>16, <2>2, <2>3 DEF prComment
<1>27. CASE findLink
  <2>1. ToReview \in Status
    BY WorkTyped DEF ToReview, Snap, Status, Phases
  <2>2. work' \in Works
    BY <1>27, <2>1, WriteTyped, GotoTyped DEF findLink, Steps
  <2> QED
    BY <1>27, <2>2 DEF findLink
<1>17. CASE isPRMergedOrClosed
  <2>1. [Snap EXCEPT !.phase = "Completed"] \in Status
    BY WorkTyped, PhaseTyped DEF Snap, Phases
  <2>2. work' \in Works
    BY <1>17, <2>1, WriteTyped, GotoTyped DEF isPRMergedOrClosed, Steps
  <2> QED
    BY <1>17, <2>2 DEF isPRMergedOrClosed
<1>18. CASE prHasLabel
  <2>1. [Snap EXCEPT !.phase = "AwaitingRevision"] \in Status
    BY WorkTyped, PhaseTyped DEF Snap, Phases
  <2>2. work' \in Works
    BY <1>18, <2>1, WriteTyped, ReturnTyped DEF prHasLabel
  <2> QED
    BY <1>18, <2>2 DEF prHasLabel
<1>19. CASE removePRLabel
  <2>1. work' \in Works
    BY <1>19, GotoTyped DEF removePRLabel, Steps
  <2>2. prs' \in [Tasks -> [PRs -> PullRequests]]
    <3> DEFINE r == prs[Task][Snap.pr]
    <3>1. Task \in Tasks /\ (Snap.pr \in PRs => r \in PullRequests)
      BY WorkTyped DEF Task
    <3>2. Snap.pr \in PRs => [r EXCEPT !.label = "none"] \in PullRequests
      BY <3>1, PRUpdateTyped
    <3>3. \/ \E v : (Snap.pr \in PRs => v \in PullRequests) /\ prs' = [prs EXCEPT ![Task][Snap.pr] = v]
          \/ prs' = prs
      BY <1>19, <3>2 DEF removePRLabel
    <3>4. CASE prs' = prs
      BY <3>4
    <3>5. ASSUME NEW v, Snap.pr \in PRs => v \in PullRequests, prs' = [prs EXCEPT ![Task][Snap.pr] = v]
          PROVE  prs' \in [Tasks -> [PRs -> PullRequests]]
      BY <3>1, <3>5, Update2
    <3> QED
      BY <3>3, <3>4, <3>5
  <2> QED
    BY <1>19, <2>1, <2>2 DEF removePRLabel
<1>20. CASE deleteRevisionPod
  <2>1. work' \in Works
    BY <1>20, GotoTyped DEF deleteRevisionPod, Steps
  <2>2. pods' \in [Namespaces -> [PodNames -> Pods]]
    <3> DEFINE r == pods[Sandbox]["agent-rev"]
    <3>1. Sandbox \in Namespaces /\ r \in Pods
      BY WorkTyped DEF PodNames
    <3>2. Deleted(r) \in Pods
      BY <3>1, DeletedTyped
    <3>3. \/ \E v \in Pods : pods' = [pods EXCEPT ![Sandbox]["agent-rev"] = v]
          \/ pods' = pods
      BY <1>20, <3>2 DEF deleteRevisionPod
    <3>4. CASE pods' = pods
      BY <3>4
    <3>5. ASSUME NEW v \in Pods, pods' = [pods EXCEPT ![Sandbox]["agent-rev"] = v]
          PROVE  pods' \in [Namespaces -> [PodNames -> Pods]]
      BY <3>1, <3>5, Update2
    <3> QED
      BY <3>3, <3>4, <3>5
  <2> QED
    BY <1>20, <2>1, <2>2 DEF deleteRevisionPod
<1>21. CASE humanRepliedAfterClarification
  <2>1. work' \in Works
    BY <1>21, GotoTyped, ReturnTyped DEF humanRepliedAfterClarification, Steps
  <2> QED
    BY <1>21, <2>1 DEF humanRepliedAfterClarification
<1>22. CASE ttlDelete
  <2>1. [Snap EXCEPT !.ns = FALSE] \in Status
    BY WorkTyped DEF Snap, Status
  <2>2. work' \in Works
    BY <1>22, <2>1, WriteTyped DEF ttlDelete
  <2> QED
    BY <1>22, <2>2, WorkTyped DEF ttlDelete, Delete
<1>23. CASE Kubernetes
  <2> USE DEF operator
  <2>1. ASSUME NEW t \in Tasks, SyncStatus(t) \/ TTLElapses(t) PROVE TypeOK'
    <3>1. CASE SyncStatus(t)
      BY <3>1, Update1 DEF SyncStatus
    <3>2. CASE TTLElapses(t)
      BY <3>2, Update1 DEF TTLElapses
    <3> QED
      BY <2>1, <3>1, <3>2
  <2>2. ASSUME NEW n \in Namespaces,
               SyncPods(n) \/ ContentsGone(n) \/ NamespaceGone(n) \/ TokenExpires(n)
        PROVE  TypeOK'
    <3>1. CASE SyncPods(n)
      BY <3>1, Update1 DEF SyncPods
    <3>2. CASE ContentsGone(n)
      <4>1. policy' \in [Namespaces -> BOOLEAN]
        BY <3>2, Update1 DEF ContentsGone
      <4> QED
        BY <3>2, <4>1 DEF ContentsGone
    <3>3. CASE NamespaceGone(n)
      BY <3>3 DEF NamespaceGone
    <3>4. CASE TokenExpires(n)
      BY <3>4 DEF TokenExpires
    <3> QED
      BY <2>2, <3>1, <3>2, <3>3, <3>4
  <2>3. ASSUME NEW n \in Namespaces, NEW m \in PodNames,
               \/ PodStarts(n, m) \/ PodSucceeds(n, m) \/ PodFails(n, m)
               \/ PodEvicted(n, m) \/ PodRemoved(n, m)
        PROVE  TypeOK'
    <3>1. PICK v \in Pods : pods' = [pods EXCEPT ![n][m] = v]
      <4> DEFINE r == pods[n][m]
      <4>1. r \in Pods
        OBVIOUS
      <4>2. \A ph \in PodPhases : [r EXCEPT !.phase = ph] \in Pods
        BY <4>1, PodUpdateTyped
      <4>3. CASE PodRemoved(n, m)
        BY <4>3, NoPodTyped DEF PodRemoved
      <4>4. CASE PodStarts(n, m)
        BY <4>2, <4>4 DEF PodStarts, SetPhase, PodPhases
      <4>5. CASE PodSucceeds(n, m)
        BY <4>2, <4>5 DEF PodSucceeds, SetPhase, PodPhases
      <4>6. CASE PodFails(n, m)
        BY <4>2, <4>6 DEF PodFails, SetPhase, PodPhases
      <4>7. CASE PodEvicted(n, m)
        BY <4>1, <4>7, DeletedTyped DEF PodEvicted
      <4> QED
        BY <2>3, <4>3, <4>4, <4>5, <4>6, <4>7
    <3>2. pods' \in [Namespaces -> [PodNames -> Pods]]
      BY <3>1, Update2
    <3>3. owed' \in [Tasks -> {"no", "requested", "spawned"}]
      <4>1. CASE PodSucceeds(n, m)
        <5>1. pods[n][m].task \in Tasks
          BY DEF Pods
        <5> QED
          BY <4>1, <5>1 DEF PodSucceeds
      <4> QED
        BY <2>3, <4>1 DEF PodStarts, PodFails, PodEvicted, PodRemoved
    <3> QED
      BY <2>3, <3>2, <3>3 DEF PodStarts, PodSucceeds, PodFails, PodEvicted, PodRemoved
  <2> QED
    BY <1>23, <2>1, <2>2, <2>3 DEF Kubernetes
<1>24. CASE People
  <2> USE DEF operator, notGitHub
  <2>1. ASSUME NEW n \in Namespaces, NEW m \in PodNames, NEW t \in Tasks, AgentAsks(n, m, t)
        PROVE  TypeOK'
    BY <2>1 DEF AgentAsks, Threads
  <2>2. ASSUME NEW n \in Namespaces, NEW m \in PodNames, NEW t \in Tasks, NEW p \in PRs,
               NEW head \in {"clean", "violating"}, AgentPushes(n, m, t, p, head)
        PROVE  TypeOK'
    <3> DEFINE v == [prs[t][p] EXCEPT !.head = head, !.vetted = FALSE]
    <3>1. v \in PullRequests
      <4>1. prs[t][p] \in PullRequests
        OBVIOUS
      <4> QED
        BY <4>1, PRUpdateTyped
    <3>2. prs' \in [Tasks -> [PRs -> PullRequests]]
      BY <2>2, <3>1, Update2 DEF AgentPushes
    <3> QED
      BY <2>2, <3>2 DEF AgentPushes
  <2>3. ASSUME NEW n \in Namespaces, NEW t \in Tasks, NEW p \in PRs,
               NEW head \in {"clean", "violating"}, AgentOpensPR(n, t, p, head)
        PROVE  TypeOK'
    BY <2>3 DEF AgentOpensPR, PullRequests, NoPullRequest
  <2>4. ASSUME NEW t \in Tasks, Comment(t, "answered") \/ Comment(t, "asked") PROVE TypeOK'
    BY <2>4 DEF Comment, Threads
  <2>5. ASSUME NEW t \in Tasks, NEW p \in PRs,
               \/ PRChanges(t, p, "open", "merged") \/ PRChanges(t, p, "open", "closed")
               \/ PRChanges(t, p, "closed", "open") \/ ReviewerLabels(t, p)
        PROVE  TypeOK'
    <3>1. PICK v \in PullRequests : prs' = [prs EXCEPT ![t][p] = v]
      <4> DEFINE r == prs[t][p]
      <4>1. r \in PullRequests
        OBVIOUS
      <4>2. r.label \in {"none", "asked", "taken"}
        BY <4>1 DEF PullRequests
      <4> DEFINE l == IF r.label = "none" THEN "asked" ELSE r.label
      <4>3. l \in {"none", "asked", "taken"}
        BY <4>2
      <4> HIDE DEF l
      <4>4. /\ [r EXCEPT !.label = l] \in PullRequests
            /\ \A st \in {"none", "open", "closed", "merged"} : [r EXCEPT !.state = st] \in PullRequests
        BY <4>1, <4>3, PRUpdateTyped
      <4> QED
        BY <2>5, <4>4 DEF PRChanges, ReviewerLabels, l
    <3>2. prs' \in [Tasks -> [PRs -> PullRequests]]
      BY <3>1, Update2
    <3> QED
      BY <2>5, <3>2 DEF PRChanges, ReviewerLabels
  <2> QED
    BY <1>24, <2>1, <2>2, <2>3, <2>4, <2>5 DEF People
<1>25. CASE UNCHANGED vars
  BY <1>25 DEF vars
<1>26. ASSUME NEW t \in Tasks, NothingToDo(t) PROVE TypeOK'
  BY <1>26, <1>25 DEF NothingToDo
<1> QED
  BY <1>1, <1>2, <1>3, <1>4, <1>5, <1>6, <1>7, <1>8, <1>9, <1>10, <1>11, <1>12, <1>13, <1>14,
     <1>15, <1>16, <1>17, <1>18, <1>19, <1>20, <1>21, <1>22, <1>23, <1>24, <1>25, <1>26, <1>27
  DEF Next, Operator, Continue

\* Type correctness of every reachable state.
THEOREM TypeCorrect == Spec => []TypeOK
  BY InitTyped, TypeStep, PTL DEF Spec

-----------------------------------------------------------------------------
(* What a call knows                                                       *)

\* The moves of a task's status, as whole records.
Move(s, n) ==
    \/ s.phase \in {"", "AwaitingRevision", "BlockedOnClarification"}
       /\ n = [s EXCEPT !.phase = "Building", !.ns = TRUE]
    \/ s.phase = "Building" /\ n = [s EXCEPT !.phase = "Running"]
    \/ s.phase \in Active /\ \E p \in PRs : s.pr \in {0, p} /\ n = [s EXCEPT !.phase = "AwaitingReview", !.pr = p]
    \/ s.phase \in Active /\ n = [s EXCEPT !.phase = "BlockedOnClarification"]
    \/ s.phase \in Active /\ n \in {markFailed(s), [markFailed(s) EXCEPT !.ns = FALSE]}
    \/ s.phase = "AwaitingReview"
       /\ n \in {[s EXCEPT !.phase = "AwaitingRevision"], [s EXCEPT !.phase = "Completed"]}
    \/ s.phase = "Failed" /\ s.ns /\ n = [s EXCEPT !.ns = FALSE]

\* At each step of a call: the phase it set out from, and that what it means to
\* write is a move from there.
StepKnows(w) ==
    /\ w.step \in {"ensureNamespace", "ensureNetworkPolicy", "ensureTaskSecret", "ensurePod"}
         => w.snap.phase \in {"", "AwaitingRevision", "BlockedOnClarification"}
    /\ w.step \in {"getPod", "clarification", "findPR", "listPRFiles", "rejectComment", "rejectClose", "findLink", "prComment"}
         => w.snap.phase \in Active
    /\ w.step \in {"listPRFiles", "rejectComment", "rejectClose", "findLink", "prComment"}
         => w.pr \in PRs /\ w.snap.pr \in {0, w.pr}
    /\ w.step \in {"prClosed", "prHasLabel"} => w.snap.phase = "AwaitingReview"
    /\ w.step \in {"removePRLabel", "deleteRevisionPod"} => w.snap.phase = "AwaitingRevision"
    /\ w.step = "humanReplied" => w.snap.phase = "BlockedOnClarification"
    /\ w.step = "ttlDelete" => w.snap.phase = "Failed" /\ w.snap.ns
    /\ w.step \in {"deleteNamespace", "statusUpdate"} => Move(w.snap, w.next)

\* The informer cache is the newest status when it claims to be, and a call that
\* set out from the newest status still holds it: nobody else writes it.
CallInv ==
    /\ \A t \in Tasks : synced[t] => cache[t] = status[t]
    /\ ~At("idle") /\ work.fresh => work.snap = status[work.task]
    /\ StepKnows(work)

LEMMA IdleKnows == StepKnows(Idle)
  BY IdleTyped DEF StepKnows

\* A step that leaves the status alone keeps the invariant when it returns, or
\* goes on with the same call and knows what its next step needs.
LEMMA Onward ==
  ASSUME TypeOK, CallInv, UNCHANGED <<status, cache, synced>>,
         \/ Return
         \/ /\ ~At("idle") /\ StepKnows(work')
            /\ work'.task = work.task /\ work'.snap = work.snap /\ work'.fresh = work.fresh
  PROVE  CallInv'
<1>1. CASE Return
  BY <1>1, IdleTyped, IdleKnows DEF Return, CallInv, At
<1>2. CASE ~Return
  BY <1>2 DEF CallInv, At
<1> QED
  BY <1>1, <1>2

\* Moving on by Goto, or to a status write, leaves the call's own facts alone.
LEMMA SameCall ==
  ASSUME work \in Works, NEW x \in Steps, NEW s \in Status,
         Goto(x) \/ Write(s) \/ DeleteThenWrite(s)
  PROVE  /\ work'.task = work.task /\ work'.snap = work.snap /\ work'.fresh = work.fresh
         /\ work'.pr = work.pr
         /\ Goto(x) => work'.step = x /\ work'.next = work.next
         /\ Write(s) => work'.step = "statusUpdate" /\ work'.next = s
         /\ DeleteThenWrite(s) => work'.step = "deleteNamespace" /\ work'.next = s
  BY DEF Goto, Write, DeleteThenWrite, Works

\* A status write that is a move of the status read is all there is to know.
LEMMA WriteKnows ==
  ASSUME work \in Works, NEW s \in Status, Write(s) \/ DeleteThenWrite(s), Move(work.snap, s)
  PROVE  /\ StepKnows(work')
         /\ work'.task = work.task /\ work'.snap = work.snap /\ work'.fresh = work.fresh
<1>1. "idle" \in Steps
  BY DEF Steps
<1>2. /\ work'.step \in {"statusUpdate", "deleteNamespace"} /\ work'.next = s
      /\ work'.task = work.task /\ work'.snap = work.snap /\ work'.fresh = work.fresh
  BY <1>1, SameCall
<1> QED
  BY <1>2 DEF StepKnows

LEMMA InitCall == Init => CallInv
  BY IdleTyped, IdleKnows DEF Init, CallInv, At

LEMMA CallStep == TypeOK /\ CallInv /\ [Next]_vars => CallInv'
<1> SUFFICES ASSUME TypeOK, CallInv, [Next]_vars PROVE CallInv'
  OBVIOUS
<1>0. work \in Works /\ work.snap \in Status /\ work.next \in Status /\ work.task \in Tasks
  BY WorkTyped DEF TypeOK
<1>k. StepKnows(work)
  BY DEF CallInv
<1>1. ASSUME NEW t \in Tasks, Reconcile(t) PROVE CallInv'
  <2> DEFINE f == FirstStep(t, cache[t])
  <2>1. cache[t] \in Status
    BY DEF TypeOK
  <2>2. /\ work'.step = f /\ work'.task = t /\ work'.snap = cache[t] /\ work'.fresh = synced[t]
        /\ UNCHANGED <<status, cache, synced>>
    BY <1>1, IdleTyped DEF Reconcile, Works
  <2>3. /\ f = "ensureNamespace" => cache[t].phase = ""
        /\ f = "getPod" => cache[t].phase \in Active
        /\ f = "prClosed" => cache[t].phase = "AwaitingReview"
        /\ f = "removePRLabel" => cache[t].phase = "AwaitingRevision"
        /\ f = "humanReplied" => cache[t].phase = "BlockedOnClarification"
        /\ f = "ttlDelete" => cache[t].phase = "Failed" /\ cache[t].ns
        /\ f \in {"ensureNamespace", "getPod", "prClosed", "removePRLabel", "humanReplied", "ttlDelete", "idle"}
    BY <2>1 DEF FirstStep, Active
  <2>4. StepKnows(work')
    BY <2>2, <2>3 DEF StepKnows
  <2> QED
    BY <2>2, <2>4 DEF CallInv
<1>2. CASE StatusUpdate
  <2>1. work' = Idle
    BY <1>2 DEF StatusUpdate, Return
  <2>2. CASE Conflicts
    BY <1>2, <2>1, <2>2, IdleTyped, IdleKnows DEF StatusUpdate, CallInv, At
  <2>3. CASE ~Conflicts
    <3>1. \A t \in Tasks : synced'[t] => cache'[t] = status'[t]
      BY <1>2, <2>3, <1>0 DEF StatusUpdate, CallInv, TypeOK, Task
    <3> QED
      BY <2>1, <3>1, IdleTyped, IdleKnows DEF CallInv, At
  <2> QED
    BY <2>2, <2>3
<1>3. CASE Abort \/ CreateForbidden
  BY <1>3, Onward DEF Abort, CreateForbidden
<1>4. CASE ensureNamespace
  <2>1. Goto("ensureNetworkPolicy") /\ work.step = "ensureNamespace" /\ "ensureNetworkPolicy" \in Steps /\ UNCHANGED <<status, cache, synced>>
    BY <1>4 DEF ensureNamespace, At, Steps
  <2>2. /\ StepKnows(work') /\ work'.task = work.task /\ work'.snap = work.snap
        /\ work'.fresh = work.fresh
    BY <2>1, <1>0, <1>k, SameCall DEF StepKnows
  <2> QED
    BY <2>1, <2>2, Onward DEF At
<1>5. CASE ensureNetworkPolicy
  <2>1. Goto("ensureTaskSecret") /\ work.step = "ensureNetworkPolicy" /\ "ensureTaskSecret" \in Steps /\ UNCHANGED <<status, cache, synced>>
    BY <1>5 DEF ensureNetworkPolicy, At, Steps
  <2>2. /\ StepKnows(work') /\ work'.task = work.task /\ work'.snap = work.snap
        /\ work'.fresh = work.fresh
    BY <2>1, <1>0, <1>k, SameCall DEF StepKnows
  <2> QED
    BY <2>1, <2>2, Onward DEF At
<1>6. CASE ensureTaskSecret
  <2>1. Goto("ensurePod") /\ work.step = "ensureTaskSecret" /\ "ensurePod" \in Steps /\ UNCHANGED <<status, cache, synced>>
    BY <1>6 DEF ensureTaskSecret, At, Steps
  <2>2. /\ StepKnows(work') /\ work'.task = work.task /\ work'.snap = work.snap
        /\ work'.fresh = work.fresh
    BY <2>1, <1>0, <1>k, SameCall DEF StepKnows
  <2> QED
    BY <2>1, <2>2, Onward DEF At
<1>7. CASE deleteNamespace
  <2>1. Goto("statusUpdate") /\ work.step = "deleteNamespace" /\ "statusUpdate" \in Steps /\ UNCHANGED <<status, cache, synced>>
    BY <1>7 DEF deleteNamespace, At, Steps
  <2>2. /\ StepKnows(work') /\ work'.task = work.task /\ work'.snap = work.snap
        /\ work'.fresh = work.fresh
    BY <2>1, <1>0, <1>k, SameCall DEF StepKnows
  <2> QED
    BY <2>1, <2>2, Onward DEF At
<1>8. CASE rejectComment
  <2>1. Goto("rejectClose") /\ work.step = "rejectComment" /\ "rejectClose" \in Steps /\ UNCHANGED <<status, cache, synced>>
    BY <1>8 DEF rejectComment, At, Steps
  <2>2. /\ StepKnows(work') /\ work'.task = work.task /\ work'.snap = work.snap
        /\ work'.fresh = work.fresh
    BY <2>1, <1>0, <1>k, SameCall DEF StepKnows
  <2> QED
    BY <2>1, <2>2, Onward DEF At
<1>9. CASE removePRLabel
  <2>1. Goto("deleteRevisionPod") /\ work.step = "removePRLabel" /\ "deleteRevisionPod" \in Steps /\ UNCHANGED <<status, cache, synced>>
    BY <1>9 DEF removePRLabel, At, Steps
  <2>2. /\ StepKnows(work') /\ work'.task = work.task /\ work'.snap = work.snap
        /\ work'.fresh = work.fresh
    BY <2>1, <1>0, <1>k, SameCall DEF StepKnows
  <2> QED
    BY <2>1, <2>2, Onward DEF At
<1>10. CASE deleteRevisionPod
  <2>1. Goto("ensureNamespace") /\ work.step = "deleteRevisionPod" /\ "ensureNamespace" \in Steps /\ UNCHANGED <<status, cache, synced>>
    BY <1>10 DEF deleteRevisionPod, At, Steps
  <2>2. /\ StepKnows(work') /\ work'.task = work.task /\ work'.snap = work.snap
        /\ work'.fresh = work.fresh
    BY <2>1, <1>0, <1>k, SameCall DEF StepKnows
  <2> QED
    BY <2>1, <2>2, Onward DEF At
<1>11. CASE ensurePod
  <2>1. [Snap EXCEPT !.phase = "Building", !.ns = TRUE] \in Status
    BY <1>0, WorkTyped DEF Snap, Status, Phases
  <2>2. work.step = "ensurePod" /\ UNCHANGED <<status, cache, synced>>
    BY <1>11 DEF ensurePod, At
  <2>3. Move(work.snap, [Snap EXCEPT !.phase = "Building", !.ns = TRUE])
    BY <2>2, <1>k DEF StepKnows, Move, Snap
  <2>4. Write([Snap EXCEPT !.phase = "Building", !.ns = TRUE]) \/ DeleteThenWrite([Snap EXCEPT !.phase = "Building", !.ns = TRUE])
    BY <1>11 DEF ensurePod
  <2> QED
    BY <2>1, <2>2, <2>3, <2>4, <1>0, WriteKnows, Onward DEF At
<1>12. CASE hasRecentClarificationComment
  <2>1. [Snap EXCEPT !.phase = "BlockedOnClarification"] \in Status /\ markFailed(Snap) \in Status
    BY <1>0, PhaseTyped, FailedTyped DEF Snap, Phases
  <2>2. work.step = "clarification" /\ UNCHANGED <<status, cache, synced>>
    BY <1>12 DEF hasRecentClarificationComment, At
  <2>3. Move(work.snap, [Snap EXCEPT !.phase = "BlockedOnClarification"]) /\ Move(work.snap, markFailed(Snap))
    BY <2>2, <1>k DEF StepKnows, Move, Snap
  <2>4. Write([Snap EXCEPT !.phase = "BlockedOnClarification"]) \/ DeleteThenWrite([Snap EXCEPT !.phase = "BlockedOnClarification"]) \/ Write(markFailed(Snap)) \/ DeleteThenWrite(markFailed(Snap))
    BY <1>12 DEF hasRecentClarificationComment
  <2> QED
    BY <2>1, <2>2, <2>3, <2>4, <1>0, WriteKnows, Onward DEF At
<1>13. CASE rejectClose
  <2>1. [markFailed(Snap) EXCEPT !.ns = FALSE] \in Status
    BY <1>0, WorkTyped DEF Snap, Status, Phases, markFailed
  <2>2. work.step = "rejectClose" /\ UNCHANGED <<status, cache, synced>>
    BY <1>13 DEF rejectClose, At
  <2>3. Move(work.snap, [markFailed(Snap) EXCEPT !.ns = FALSE])
    BY <2>2, <1>k DEF StepKnows, Move, Snap
  <2>4. Write([markFailed(Snap) EXCEPT !.ns = FALSE]) \/ DeleteThenWrite([markFailed(Snap) EXCEPT !.ns = FALSE])
    BY <1>13 DEF rejectClose
  <2> QED
    BY <2>1, <2>2, <2>3, <2>4, <1>0, WriteKnows, Onward DEF At
<1>14. CASE prComment \/ findLink
  <2>1. ToReview \in Status
    BY <1>0, WorkTyped DEF ToReview, Snap, Status, Phases
  <2>2. work.step \in {"findLink", "prComment"} /\ UNCHANGED <<status, cache, synced>>
    BY <1>14 DEF findLink, prComment, At
  <2>3. Move(work.snap, ToReview)
    BY <2>2, <1>k DEF StepKnows, Move, Snap, ToReview
  <2>4. Write(ToReview) \/ Goto("prComment")
    BY <1>14 DEF findLink, prComment
  <2>5. CASE Write(ToReview)
    BY <2>1, <2>2, <2>3, <2>5, <1>0, WriteKnows, Onward DEF At
  <2>6. CASE Goto("prComment")
    <3>1. "prComment" \in Steps
      BY DEF Steps
    <3>2. /\ StepKnows(work') /\ work'.task = work.task /\ work'.snap = work.snap
          /\ work'.fresh = work.fresh
      BY <2>2, <2>6, <3>1, <1>0, <1>k, SameCall DEF StepKnows
    <3> QED
      BY <2>2, <3>2, Onward DEF At
  <2> QED
    BY <2>4, <2>5, <2>6
<1>15. CASE ttlDelete
  <2>1. [Snap EXCEPT !.ns = FALSE] \in Status
    BY <1>0, WorkTyped DEF Snap, Status, Phases
  <2>2. work.step = "ttlDelete" /\ UNCHANGED <<status, cache, synced>>
    BY <1>15 DEF ttlDelete, At
  <2>3. Move(work.snap, [Snap EXCEPT !.ns = FALSE])
    BY <2>2, <1>k DEF StepKnows, Move, Snap
  <2>4. Write([Snap EXCEPT !.ns = FALSE]) \/ DeleteThenWrite([Snap EXCEPT !.ns = FALSE])
    BY <1>15 DEF ttlDelete
  <2> QED
    BY <2>1, <2>2, <2>3, <2>4, <1>0, WriteKnows, Onward DEF At
<1>16. CASE listPRFiles
  <2>1. PICK x \in {"rejectComment", "findLink"} : Goto(x)
    BY <1>16 DEF listPRFiles, evaluateDiff
  <2>2. work.step = "listPRFiles" /\ x \in Steps /\ UNCHANGED <<status, cache, synced>>
    BY <1>16 DEF listPRFiles, At, Steps
  <2>3. /\ StepKnows(work') /\ work'.task = work.task /\ work'.snap = work.snap
        /\ work'.fresh = work.fresh
    BY <2>1, <2>2, <1>0, <1>k, SameCall DEF StepKnows
  <2> QED
    BY <2>2, <2>3, Onward DEF At
<1>17. CASE reconcileActivePod
  <2>1. work.step = "getPod" /\ UNCHANGED <<status, cache, synced>>
    BY <1>17 DEF reconcileActivePod, At
  <2>2. CASE Return
    BY <2>1, <2>2, Onward
  <2>3. ASSUME NEW x \in {"findPR", "clarification"}, Goto(x) PROVE CallInv'
    <3>1. x \in Steps
      BY DEF Steps
    <3>2. /\ StepKnows(work') /\ work'.task = work.task /\ work'.snap = work.snap
          /\ work'.fresh = work.fresh
      BY <2>1, <2>3, <3>1, <1>0, <1>k, SameCall DEF StepKnows
    <3> QED
      BY <2>1, <3>2, Onward DEF At
  <2>4. ASSUME Snap.phase # "Running", Write([Snap EXCEPT !.phase = "Running"]) PROVE CallInv'
    <3>1. [Snap EXCEPT !.phase = "Running"] \in Status
      BY <1>0, PhaseTyped DEF Snap, Phases
    <3>2. Move(work.snap, [Snap EXCEPT !.phase = "Running"])
      BY <2>1, <2>4, <1>k DEF StepKnows, Move, Snap, Active
    <3> QED
      BY <2>1, <2>4, <3>1, <3>2, <1>0, WriteKnows, Onward DEF At
  <2> QED
    BY <1>17, <2>2, <2>3, <2>4 DEF reconcileActivePod, OnPod
<1>18. CASE findPR
  <2>1. work.step = "findPR" /\ UNCHANGED <<status, cache, synced>>
    BY <1>18 DEF findPR, At
  <2>2. PICK p \in 0 .. MaxPR :
          /\ findPRForTask(Task, Snap.pr, p)
          /\ IF p = 0 THEN Write(markFailed(Snap))
                      ELSE work' = [work EXCEPT !.step = "listPRFiles", !.pr = p]
    BY <1>18 DEF findPR
  <2>3. CASE p = 0
    <3>1. markFailed(Snap) \in Status /\ Move(work.snap, markFailed(Snap))
      BY <2>1, <1>0, <1>k, FailedTyped DEF StepKnows, Move, Snap
    <3> QED
      BY <2>1, <2>2, <2>3, <3>1, <1>0, WriteKnows, Onward DEF At
  <2>4. CASE p # 0
    <3>1. p \in PRs /\ Snap.pr \in {0, p}
      BY <2>2, <2>4 DEF findPRForTask, PRs
    <3>2. /\ work'.step = "listPRFiles" /\ work'.pr = p /\ work'.task = work.task
          /\ work'.snap = work.snap /\ work'.fresh = work.fresh
      BY <2>2, <2>4, <1>0 DEF Works
    <3>3. StepKnows(work')
      BY <2>1, <3>1, <3>2, <1>k DEF StepKnows, Snap
    <3> QED
      BY <2>1, <3>2, <3>3, Onward DEF At
  <2> QED
    BY <2>3, <2>4
<1>19. CASE isPRMergedOrClosed
  <2>1. work.step = "prClosed" /\ UNCHANGED <<status, cache, synced>>
    BY <1>19 DEF isPRMergedOrClosed, At
  <2>2. [Snap EXCEPT !.phase = "Completed"] \in Status
    BY <1>0, PhaseTyped DEF Snap, Phases
  <2>3. Move(work.snap, [Snap EXCEPT !.phase = "Completed"])
    BY <2>1, <1>k DEF StepKnows, Move, Snap
  <2>4. "prHasLabel" \in Steps
    BY DEF Steps
  <2>5. CASE DeleteThenWrite([Snap EXCEPT !.phase = "Completed"])
    BY <2>1, <2>2, <2>3, <2>5, <1>0, WriteKnows, Onward DEF At
  <2>6. CASE Goto("prHasLabel")
    <3>1. /\ StepKnows(work') /\ work'.task = work.task /\ work'.snap = work.snap
          /\ work'.fresh = work.fresh
      BY <2>1, <2>4, <2>6, <1>0, <1>k, SameCall DEF StepKnows
    <3> QED
      BY <2>1, <3>1, Onward DEF At
  <2> QED
    BY <1>19, <2>5, <2>6 DEF isPRMergedOrClosed
<1>20. CASE prHasLabel
  <2>1. work.step = "prHasLabel" /\ UNCHANGED <<status, cache, synced>>
    BY <1>20 DEF prHasLabel, At
  <2>2. [Snap EXCEPT !.phase = "AwaitingRevision"] \in Status
    BY <1>0, PhaseTyped DEF Snap, Phases
  <2>3. Move(work.snap, [Snap EXCEPT !.phase = "AwaitingRevision"])
    BY <2>1, <1>k DEF StepKnows, Move, Snap
  <2>4. Write([Snap EXCEPT !.phase = "AwaitingRevision"]) \/ Return
    BY <1>20 DEF prHasLabel
  <2> QED
    BY <2>1, <2>2, <2>3, <2>4, <1>0, WriteKnows, Onward DEF At
<1>21. CASE humanRepliedAfterClarification
  <2>1. work.step = "humanReplied" /\ UNCHANGED <<status, cache, synced>> /\ "ensureNamespace" \in Steps
    BY <1>21 DEF humanRepliedAfterClarification, At, Steps
  <2>2. CASE Return
    BY <2>1, <2>2, Onward
  <2>3. CASE Goto("ensureNamespace")
    <3>1. /\ StepKnows(work') /\ work'.task = work.task /\ work'.snap = work.snap
          /\ work'.fresh = work.fresh
      BY <2>1, <2>3, <1>0, <1>k, SameCall DEF StepKnows
    <3> QED
      BY <2>1, <3>1, Onward DEF At
  <2> QED
    BY <1>21, <2>2, <2>3 DEF humanRepliedAfterClarification
<1>22. ASSUME NEW t \in Tasks, SyncStatus(t) PROVE CallInv'
  BY <1>22 DEF SyncStatus, CallInv, TypeOK, At, operator
<1>23. CASE UNCHANGED <<status, cache, synced, work>>
  BY <1>23 DEF CallInv, At
<1>24. CASE People
  BY <1>24, <1>23 DEF People, AgentAsks, AgentPushes, AgentOpensPR, Comment, PRChanges, ReviewerLabels,
     notGitHub, operator
<1>25. CASE Kubernetes
  BY <1>25, <1>23, <1>22 DEF Kubernetes, TTLElapses, SyncPods, ContentsGone, NamespaceGone, TokenExpires,
     PodStarts, PodSucceeds, PodFails, PodEvicted, PodRemoved, operator
<1>26. CASE UNCHANGED vars
  BY <1>26, <1>23 DEF vars
<1>27. ASSUME NEW t \in Tasks, NothingToDo(t) PROVE CallInv'
  BY <1>27, <1>26 DEF NothingToDo
<1> QED
  BY <1>1, <1>2, <1>3, <1>4, <1>5, <1>6, <1>7, <1>8, <1>9, <1>10, <1>11, <1>12, <1>13, <1>14, <1>15, <1>16, <1>17, <1>18, <1>19, <1>20, <1>21, <1>22, <1>23, <1>24, <1>25, <1>26, <1>27
  DEF Next, Operator, Continue

-----------------------------------------------------------------------------
(* What the status does                                                    *)

Inv == TypeOK /\ CallInv

LEMMA Invariant == Spec => []Inv
<1>1. Init => Inv
  BY InitTyped, InitCall DEF Inv
<1>2. Inv /\ [Next]_vars => Inv'
  BY TypeStep, CallStep DEF Inv
<1> QED
  BY <1>1, <1>2, PTL DEF Spec

\* Only StatusUpdate writes a status, and what it writes past the optimistic
\* lock is a move from the status the API server still holds.
LEMMA StatusMoves ==
  ASSUME Inv, [Next]_vars
  PROVE  \/ status' = status
         \/ \E t \in Tasks, n \in Status : Move(status[t], n) /\ status' = [status EXCEPT ![t] = n]
<1>1. CASE StatusUpdate
  <2>1. CASE Conflicts
    BY <1>1, <2>1 DEF StatusUpdate
  <2>2. CASE ~Conflicts
    <3>1. /\ work.task \in Tasks /\ work.next \in Status /\ work.step = "statusUpdate"
          /\ status' = [status EXCEPT ![work.task] = work.next]
      BY <1>1, <2>2, WorkTyped DEF StatusUpdate, Inv, TypeOK, At, Task
    <3>2. Move(status[work.task], work.next)
      BY <2>2, <3>1 DEF Inv, CallInv, StepKnows, At, Conflicts
    <3> QED
      BY <3>1, <3>2
  <2> QED
    BY <2>1, <2>2
<1>2. CASE UNCHANGED status
  BY <1>2
<1>3. CASE Continue
  BY <1>1, <1>3 DEF Continue, ensureNamespace, ensureNetworkPolicy, ensureTaskSecret, ensurePod,
     CreateForbidden, reconcileActivePod, hasRecentClarificationComment, deleteNamespace, findPR,
     listPRFiles, rejectComment, rejectClose, findLink, prComment, isPRMergedOrClosed, prHasLabel,
     removePRLabel, deleteRevisionPod, humanRepliedAfterClarification, ttlDelete
<1>4. CASE People
  BY <1>4 DEF People, AgentAsks, AgentPushes, AgentOpensPR, Comment, PRChanges, ReviewerLabels,
     notGitHub, operator
<1>5. CASE Kubernetes
  BY <1>5 DEF Kubernetes, SyncStatus, TTLElapses, SyncPods, ContentsGone, NamespaceGone, TokenExpires,
     PodStarts, PodSucceeds, PodFails, PodEvicted, PodRemoved, operator
<1> QED
  BY <1>3, <1>4, <1>5 DEF Next, Operator, Reconcile, NothingToDo, Abort, vars

\* A terminal phase is never left: no reader of a late informer cache gets a
\* Completed or Failed task going again.
THEOREM TerminalStays == Spec => TerminalIsFinal
<1>1. Inv /\ [Next]_vars
        => [\A t \in Tasks : status[t].phase \in Terminal => status'[t].phase = status[t].phase]_vars
  <2> SUFFICES ASSUME Inv, [Next]_vars, NEW t \in Tasks, status[t].phase \in Terminal
               PROVE  status'[t].phase = status[t].phase
    OBVIOUS
  <2>1. CASE status' = status
    BY <2>1
  <2>2. ASSUME NEW u \in Tasks, NEW n \in Status, Move(status[u], n),
               status' = [status EXCEPT ![u] = n]
        PROVE  status'[t].phase = status[t].phase
    <3>1. CASE u # t
      BY <2>2, <3>1 DEF Inv, TypeOK
    <3>2. CASE u = t
      <4>1. status[t] \in Status
        BY DEF Inv, TypeOK
      <4>2. n = [status[t] EXCEPT !.ns = FALSE]
        BY <2>2, <3>2 DEF Move, Terminal, Active
      <4>3. n.phase = status[t].phase
        BY <4>1, <4>2 DEF Status
      <4> QED
        BY <2>2, <3>2, <4>3 DEF Inv, TypeOK
    <3> QED
      BY <3>1, <3>2
  <2> QED
    BY <2>1, <2>2, StatusMoves
<1> QED
  BY <1>1, Invariant, PTL DEF Spec, TerminalIsFinal

\* The views of a status update that the abstract variables have.
LEMMA Views ==
  ASSUME NEW u \in Tasks, NEW n \in Status, status \in [Tasks -> Status],
         status' = [status EXCEPT ![u] = n]
  PROVE  /\ [t \in Tasks |-> status'[t].phase]
              = [[t \in Tasks |-> status[t].phase] EXCEPT ![u] = n.phase]
         /\ [t \in Tasks |-> status'[t].ns]
              = [[t \in Tasks |-> status[t].ns] EXCEPT ![u] = n.ns]
         /\ [t \in Tasks |-> status'[t].pr]
              = [[t \in Tasks |-> status[t].pr] EXCEPT ![u] = n.pr]
  OBVIOUS

\* A view that a move leaves alone is unchanged as a whole.
LEMMA SameView ==
  ASSUME NEW S, NEW f, f = [x \in S |-> f[x]], NEW u \in S
  PROVE  [f EXCEPT ![u] = f[u]] = f
  OBVIOUS

\* Each move of the status is a step of the abstract life cycle.
LEMMA MoveRefines ==
  ASSUME Inv, NEW u \in Tasks, NEW n \in Status, Move(status[u], n),
         status' = [status EXCEPT ![u] = n]
  PROVE  Life!Next
<1> DEFINE s == status[u]
           ph == [t \in Tasks |-> status[t].phase]
           hd == [t \in Tasks |-> status[t].ns]
           pn == [t \in Tasks |-> status[t].pr]
<1>0. s \in Status /\ status \in [Tasks -> Status]
  BY DEF Inv, TypeOK
<1>1. /\ [t \in Tasks |-> status'[t].phase] = [ph EXCEPT ![u] = n.phase]
      /\ [t \in Tasks |-> status'[t].ns] = [hd EXCEPT ![u] = n.ns]
      /\ [t \in Tasks |-> status'[t].pr] = [pn EXCEPT ![u] = n.pr]
  BY <1>0, Views
<1>2. ph[u] = s.phase /\ hd[u] = s.ns /\ pn[u] = s.pr
  OBVIOUS
<1>3. /\ n.phase = s.phase => [ph EXCEPT ![u] = n.phase] = ph
      /\ n.ns = s.ns => [hd EXCEPT ![u] = n.ns] = hd
      /\ n.pr = s.pr => [pn EXCEPT ![u] = n.pr] = pn
  <2>1. ph = [t \in Tasks |-> ph[t]] /\ hd = [t \in Tasks |-> hd[t]] /\ pn = [t \in Tasks |-> pn[t]]
    OBVIOUS
  <2> HIDE DEF ph, hd, pn
  <2>2. [ph EXCEPT ![u] = ph[u]] = ph /\ [hd EXCEPT ![u] = hd[u]] = hd /\ [pn EXCEPT ![u] = pn[u]] = pn
    BY <2>1, SameView
  <2> QED
    BY <1>2, <2>2, Zenon
<1>4. CASE /\ s.phase \in {"", "AwaitingRevision", "BlockedOnClarification"}
           /\ n = [s EXCEPT !.phase = "Building", !.ns = TRUE]
  <2>1. n.phase = "Building" /\ n.ns = TRUE /\ n.pr = s.pr
    BY <1>0, <1>4 DEF Status
  <2>2. Life!Spawn(u)
    BY <1>1, <1>2, <1>3, <1>4, <2>1 DEF Life!Spawn, Life!Enter
  <2> QED
    BY <2>2 DEF Life!Next
<1>5. CASE s.phase = "Building" /\ n = [s EXCEPT !.phase = "Running"]
  <2>1. n.phase = "Running" /\ n.ns = s.ns /\ n.pr = s.pr
    BY <1>0, <1>5 DEF Status
  <2>2. Life!AgentRuns(u)
    BY <1>1, <1>2, <1>3, <1>5, <2>1 DEF Life!AgentRuns, Life!Enter
  <2> QED
    BY <2>2 DEF Life!Next
<1>6. CASE s.phase \in Active /\ \E p \in PRs : s.pr \in {0, p} /\ n = [s EXCEPT !.phase = "AwaitingReview", !.pr = p]
  <2>0. PICK p \in PRs : s.pr \in {0, p} /\ n = [s EXCEPT !.phase = "AwaitingReview", !.pr = p]
    BY <1>6
  <2>1. n.phase = "AwaitingReview" /\ n.ns = s.ns /\ n.pr = p
    BY <1>0, <2>0 DEF Status
  <2>2. Life!Submit(u)
    BY <1>1, <1>2, <1>3, <1>6, <2>0, <2>1 DEF Life!Submit, Life!Enter, PRs, Active
  <2> QED
    BY <2>2 DEF Life!Next
<1>7. CASE s.phase \in Active /\ n = [s EXCEPT !.phase = "BlockedOnClarification"]
  <2>1. n.phase = "BlockedOnClarification" /\ n.ns = s.ns /\ n.pr = s.pr
    BY <1>0, <1>7 DEF Status
  <2>2. Life!AskHuman(u)
    BY <1>1, <1>2, <1>3, <1>7, <2>1 DEF Life!AskHuman, Life!Enter, Active
  <2> QED
    BY <2>2 DEF Life!Next
<1>8. CASE s.phase \in Active /\ n \in {markFailed(s), [markFailed(s) EXCEPT !.ns = FALSE]}
  <2>1. n.phase = "Failed" /\ (n.ns = s.ns \/ n.ns = FALSE) /\ n.pr = s.pr
    BY <1>0, <1>8 DEF Status, markFailed
  <2>2. Life!Fail(u)
    BY <1>1, <1>2, <1>3, <1>8, <2>1 DEF Life!Fail, Life!Enter, Active
  <2> QED
    BY <2>2 DEF Life!Next
<1>9. CASE s.phase = "AwaitingReview" /\ n = [s EXCEPT !.phase = "AwaitingRevision"]
  <2>1. n.phase = "AwaitingRevision" /\ n.ns = s.ns /\ n.pr = s.pr
    BY <1>0, <1>9 DEF Status
  <2>2. Life!RequestRevision(u)
    BY <1>1, <1>2, <1>3, <1>9, <2>1 DEF Life!RequestRevision, Life!Enter
  <2> QED
    BY <2>2 DEF Life!Next
<1>10. CASE s.phase = "AwaitingReview" /\ n = [s EXCEPT !.phase = "Completed"]
  <2>1. n.phase = "Completed" /\ n.ns = s.ns /\ n.pr = s.pr
    BY <1>0, <1>10 DEF Status
  <2>2. Life!Complete(u)
    BY <1>1, <1>2, <1>3, <1>10, <2>1 DEF Life!Complete, Life!Enter
  <2> QED
    BY <2>2 DEF Life!Next
<1>11. CASE s.phase = "Failed" /\ s.ns /\ n = [s EXCEPT !.ns = FALSE]
  <2>1. n.phase = s.phase /\ n.ns = FALSE /\ n.pr = s.pr
    BY <1>0, <1>11 DEF Status
  <2>2. Life!Reclaim(u)
    BY <1>1, <1>2, <1>3, <1>11, <2>1 DEF Life!Reclaim
  <2> QED
    BY <2>2 DEF Life!Next
<1> QED
  BY <1>4, <1>5, <1>6, <1>7, <1>8, <1>9, <1>10, <1>11 DEF Move

\* The controller, with every late read, crash and lost write of the model,
\* implements the abstract life cycle of a DevTask.
THEOREM Refinement == Spec => ImplementsLifecycle
<1>1. Init => Life!Init
  <2> SUFFICES ASSUME Init PROVE Life!Init
    OBVIOUS
  <2>1. \A t \in Tasks : status[t].phase = "" /\ status[t].ns = FALSE /\ status[t].pr = 0
    BY DEF Init, NewStatus
  <2>2. /\ [t \in Tasks |-> status[t].phase] = [t \in Tasks |-> ""]
        /\ [t \in Tasks |-> status[t].ns] = [t \in Tasks |-> FALSE]
        /\ [t \in Tasks |-> status[t].pr] = [t \in Tasks |-> 0]
    BY <2>1
  <2> QED
    BY <2>2 DEF Life!Init
<1>2. Inv /\ [Next]_vars => [Life!Next]_(Life!vars)
  <2> SUFFICES ASSUME Inv, [Next]_vars PROVE [Life!Next]_(Life!vars)
    OBVIOUS
  <2>1. CASE status' = status
    BY <2>1 DEF Life!vars
  <2>2. CASE \E t \in Tasks, n \in Status : Move(status[t], n) /\ status' = [status EXCEPT ![t] = n]
    BY <2>2, MoveRefines
  <2> QED
    BY <2>1, <2>2, StatusMoves
<1> QED
  BY <1>1, <1>2, Invariant, PTL DEF Spec, ImplementsLifecycle, Life!Spec

-----------------------------------------------------------------------------
(* The sandbox around a pod                                                *)

\* What the ensure steps have achieved so far in the call's own sandbox.  It may
\* have begun to terminate since, or be gone: then nothing can be created in it.
EnsureKnows ==
    /\ work.step \in {"ensureTaskSecret", "ensurePod"} /\ ns[Sandbox] = "active" => policy[Sandbox]
    /\ work.step = "ensurePod" /\ ns[Sandbox] = "active" => secret[Sandbox] # "none"

\* A namespace goes only when it is empty, and nothing is created in one that
\* does not exist: the next namespace of that name starts without pods.
AbsentIsEmpty ==
    \A n \in Namespaces, m \in PodNames : ns[n] = "absent" => pods[n][m].phase = "none"

SandboxInv == PodsAreSandboxed /\ EnsureKnows /\ AbsentIsEmpty

LEMMA DeletedExists == ASSUME NEW q \in Pods, Deleted(q).phase # "none" PROVE q.phase # "none"
  BY NoPodTyped DEF Deleted, Pods

LEMMA SandboxStep == Inv /\ SandboxInv /\ [Next]_vars => SandboxInv'
<1> SUFFICES ASSUME Inv, SandboxInv, [Next]_vars PROVE SandboxInv'
  OBVIOUS
<1>0. /\ TypeOK /\ work \in Works /\ work.task \in Tasks /\ Sandbox \in Namespaces
      /\ Sandbox = NsOf[work.task]
  BY WorkTyped DEF Inv, TypeOK, Sandbox, taskNamespace, Task
<1> USE DEF cluster, github, operator
\* A step of the call that leaves the cluster alone and goes to no ensure step
\* that relies on an earlier one.
<1> DEFINE NsMoves ==
      \A n \in Namespaces :
          \/ ns'[n] = ns[n]
          \/ ns[n] = "absent" /\ ns'[n] = "active"
          \/ ns[n] = "active" /\ ns'[n] = "terminating"
<1>n. ASSUME UNCHANGED <<policy, secret, pods>>, NsMoves,
             work'.step \notin {"ensureTaskSecret", "ensurePod"}
      PROVE  SandboxInv'
  <2>1. PodsAreSandboxed'
    BY <1>n DEF SandboxInv, PodsAreSandboxed, AbsentIsEmpty
  <2>2. AbsentIsEmpty'
    BY <1>n DEF SandboxInv, AbsentIsEmpty
  <2> QED
    BY <2>1, <2>2, <1>n DEF SandboxInv, EnsureKnows
<1>1. ASSUME UNCHANGED <<ns, policy, secret, pods>>,
             work'.step \notin {"ensureTaskSecret", "ensurePod"}
      PROVE  SandboxInv'
  BY <1>1 DEF SandboxInv, PodsAreSandboxed, EnsureKnows, AbsentIsEmpty
\* A step of the environment that creates no pod and no active namespace.
<1>2. ASSUME UNCHANGED <<work, ns, policy>>,
             \A n \in Namespaces : secret[n] # "none" => secret'[n] # "none",
             \A n \in Namespaces, m \in PodNames : pods'[n][m].phase # "none" => pods[n][m].phase # "none"
      PROVE  SandboxInv'
  BY <1>2, <1>0 DEF SandboxInv, PodsAreSandboxed, EnsureKnows, AbsentIsEmpty, Sandbox, taskNamespace, Task
<1>3. ASSUME NEW x \in Steps, Goto(x) PROVE work'.step = x /\ work'.task = work.task
  BY <1>3, <1>0, IdleTyped, SameCall
<1>4. ASSUME NEW s, Write(s) \/ DeleteThenWrite(s)
      PROVE  work'.step \in {"statusUpdate", "deleteNamespace"} /\ work'.task = work.task
  BY <1>4, <1>0 DEF Write, DeleteThenWrite, Works
<1>5. ASSUME Return PROVE work'.step = "idle"
  BY <1>5, IdleTyped DEF Return
<1>6. CASE ensureNamespace
  <2>1. Goto("ensureNetworkPolicy") /\ "ensureNetworkPolicy" \in Steps
    BY <1>6 DEF ensureNamespace, Steps
  <2>2. NsMoves
    <3>1. /\ DOMAIN ns = Namespaces
          /\ ns' = [ns EXCEPT ![Sandbox] = IF ns[Sandbox] = "absent" THEN "active" ELSE ns[Sandbox]]
      BY <1>6, <1>0 DEF ensureNamespace, TypeOK
    <3>2. ASSUME NEW n \in Namespaces PROVE ns'[n] = ns[n] \/ (ns[n] = "absent" /\ ns'[n] = "active")
      BY <3>1
    <3> QED
      BY <3>2
  <2>3. UNCHANGED <<policy, secret, pods>>
    BY <1>6 DEF ensureNamespace
  <2>4. work'.step \notin {"ensureTaskSecret", "ensurePod"}
    BY <2>1, <1>3
  <2> HIDE DEF NsMoves
  <2> QED
    BY <2>2, <2>3, <2>4, <1>n
<1>7. CASE ensureNetworkPolicy
  <2>1. Goto("ensureTaskSecret") /\ "ensureTaskSecret" \in Steps
    BY <1>7 DEF ensureNetworkPolicy, Steps
  <2>2. work'.step = "ensureTaskSecret" /\ work'.task = work.task
    BY <2>1, <1>3
  <2>3. \A n \in Namespaces : policy'[n] = (policy[n] \/ n = Sandbox)
    <3>1. policy \in [Namespaces -> BOOLEAN] /\ policy' = [policy EXCEPT ![Sandbox] = TRUE]
      BY <1>0, <1>7 DEF TypeOK, ensureNetworkPolicy
    <3> QED
      BY <3>1, <1>0
  <2>4. UNCHANGED <<ns, secret, pods>>
    BY <1>7 DEF ensureNetworkPolicy
  <2> QED
    BY <2>2, <2>3, <2>4, <1>0 DEF SandboxInv, PodsAreSandboxed, EnsureKnows, AbsentIsEmpty, Sandbox,
       taskNamespace, Task
<1>8. CASE ensureTaskSecret
  <2>1. Goto("ensurePod") /\ "ensurePod" \in Steps
    BY <1>8 DEF ensureTaskSecret, Steps
  <2>2. work'.step = "ensurePod" /\ work'.task = work.task
    BY <2>1, <1>3
  <2>3. \A n \in Namespaces : /\ secret[n] # "none" => secret'[n] # "none"
                              /\ n = Sandbox => secret'[n] # "none"
    BY <1>0, <1>8 DEF TypeOK, ensureTaskSecret
  <2>4. UNCHANGED <<ns, policy, pods>> /\ work.step = "ensureTaskSecret"
    BY <1>8 DEF ensureTaskSecret, At
  <2> QED
    BY <2>2, <2>3, <2>4, <1>0 DEF SandboxInv, PodsAreSandboxed, EnsureKnows, AbsentIsEmpty, Sandbox,
       taskNamespace, Task
<1>9. CASE ensurePod
  <2>1. work'.step \in {"statusUpdate", "deleteNamespace"}
    BY <1>9, <1>4 DEF ensurePod
  <2>2. work.step = "ensurePod" /\ ns[Sandbox] = "active" /\ UNCHANGED <<ns, policy, secret>>
    BY <1>9 DEF ensurePod, At
  <2>3. policy[Sandbox] /\ secret[Sandbox] # "none"
    BY <2>2 DEF SandboxInv, EnsureKnows
  <2>4. \A n \in Namespaces, m \in PodNames : n # Sandbox => pods'[n][m] = pods[n][m]
    BY <1>9, <1>0 DEF ensurePod, TypeOK
  <2>5. PodsAreSandboxed'
    BY <2>2, <2>3, <2>4 DEF SandboxInv, PodsAreSandboxed
  <2>6. AbsentIsEmpty'
    BY <2>2, <2>4 DEF SandboxInv, AbsentIsEmpty
  <2> QED
    BY <2>1, <2>5, <2>6 DEF SandboxInv, EnsureKnows
<1>10. CASE deleteRevisionPod
  <2>1. Goto("ensureNamespace") /\ "ensureNamespace" \in Steps
    BY <1>10 DEF deleteRevisionPod, Steps
  <2>2. \A n \in Namespaces, m \in PodNames : pods'[n][m].phase # "none" => pods[n][m].phase # "none"
    <3>1. CASE UNCHANGED pods
      BY <3>1
    <3>2. CASE pods' = [pods EXCEPT ![Sandbox]["agent-rev"] = Deleted(@)]
      <4>1. \A n \in Namespaces, m \in PodNames :
               pods'[n][m] = IF n = Sandbox /\ m = "agent-rev" THEN Deleted(pods[n][m]) ELSE pods[n][m]
        BY <3>2, <1>0 DEF TypeOK
      <4>2. \A q \in Pods : Deleted(q).phase # "none" => q.phase # "none"
        BY DeletedExists
      <4>3. \A n \in Namespaces, m \in PodNames : pods[n][m] \in Pods
        BY <1>0 DEF TypeOK
      <4> QED
        BY <4>1, <4>2, <4>3
    <3> QED
      BY <1>10, <3>1, <3>2 DEF deleteRevisionPod
  <2>3. UNCHANGED <<ns, policy, secret>> /\ work'.step = "ensureNamespace"
    BY <1>10, <2>1, <1>3 DEF deleteRevisionPod
  <2> QED
    BY <2>2, <2>3 DEF SandboxInv, PodsAreSandboxed, EnsureKnows, AbsentIsEmpty
\* The rest of the call moves neither pods nor what surrounds them.
<1>d. ASSUME Delete(Sandbox) \/ UNCHANGED ns PROVE NsMoves
  <2>1. CASE UNCHANGED ns
    BY <2>1
  <2>2. CASE Delete(Sandbox)
    <3>1. /\ DOMAIN ns = Namespaces
          /\ ns' = [ns EXCEPT ![Sandbox] = IF ns[Sandbox] = "active" THEN "terminating" ELSE ns[Sandbox]]
      BY <2>2, <1>0 DEF Delete, TypeOK
    <3>2. ASSUME NEW n \in Namespaces PROVE ns'[n] = ns[n] \/ (ns[n] = "active" /\ ns'[n] = "terminating")
      BY <3>1
    <3> QED
      BY <3>2
  <2> QED
    BY <1>d, <2>1, <2>2
<1> HIDE DEF NsMoves
<1>29. CASE deleteNamespace \/ ttlDelete
  <2>1. NsMoves
    BY <1>29, <1>d DEF deleteNamespace, ttlDelete
  <2>2. UNCHANGED <<policy, secret, pods>>
    BY <1>29 DEF deleteNamespace, ttlDelete
  <2>3. Goto("statusUpdate") \/ Write([Snap EXCEPT !.ns = FALSE])
    BY <1>29 DEF deleteNamespace, ttlDelete
  <2>4. "statusUpdate" \in Steps
    BY DEF Steps
  <2>5. work'.step \notin {"ensureTaskSecret", "ensurePod"}
    BY <2>3, <2>4, <1>3, <1>4
  <2> QED
    BY <2>1, <2>2, <2>5, <1>n
<1>11. CASE rejectComment \/ removePRLabel
  <2>1. PICK x \in {"rejectClose", "deleteRevisionPod"} : Goto(x)
    BY <1>11 DEF rejectComment, removePRLabel
  <2>2. x \in Steps
    BY DEF Steps
  <2> QED
    BY <1>11, <2>1, <2>2, <1>1, <1>3 DEF rejectComment, removePRLabel
<1>12. CASE \/ StatusUpdate \/ CreateForbidden \/ Abort \/ hasRecentClarificationComment \/ rejectClose
            \/ prComment \/ prHasLabel
  BY <1>12, <1>1, <1>4, <1>5 DEF StatusUpdate, CreateForbidden, Abort, hasRecentClarificationComment,
     rejectClose, prComment, prHasLabel
<1>27. CASE findLink
  <2>1. Goto("prComment") \/ Write(ToReview)
    BY <1>27 DEF findLink
  <2>2. "prComment" \in Steps
    BY DEF Steps
  <2> QED
    BY <1>27, <2>1, <2>2, <1>1, <1>3, <1>4 DEF findLink
<1>13. CASE listPRFiles
  <2>1. PICK x \in {"rejectComment", "findLink"} : Goto(x)
    BY <1>13 DEF listPRFiles, evaluateDiff
  <2>2. x \in Steps
    BY DEF Steps
  <2> QED
    BY <1>13, <2>1, <2>2, <1>1, <1>3 DEF listPRFiles
<1>14. CASE reconcileActivePod
  <2>1. \/ Return \/ Write([Snap EXCEPT !.phase = "Running"])
        \/ \E x \in {"findPR", "clarification"} : Goto(x)
    BY <1>14 DEF reconcileActivePod, OnPod
  <2>2. \A x \in {"findPR", "clarification"} : x \in Steps
    BY DEF Steps
  <2>3. work'.step \notin {"ensureTaskSecret", "ensurePod"}
    BY <2>1, <2>2, <1>3, <1>4, <1>5
  <2> QED
    BY <1>14, <2>3, <1>1 DEF reconcileActivePod
<1>15. CASE isPRMergedOrClosed
  <2>1. DeleteThenWrite([Snap EXCEPT !.phase = "Completed"]) \/ Goto("prHasLabel")
    BY <1>15 DEF isPRMergedOrClosed
  <2>2. "prHasLabel" \in Steps
    BY DEF Steps
  <2> QED
    BY <1>15, <2>1, <2>2, <1>1, <1>3, <1>4 DEF isPRMergedOrClosed
<1>16. CASE humanRepliedAfterClarification
  <2>1. Return \/ Goto("ensureNamespace")
    BY <1>16 DEF humanRepliedAfterClarification
  <2>2. "ensureNamespace" \in Steps
    BY DEF Steps
  <2> QED
    BY <1>16, <2>1, <2>2, <1>1, <1>3, <1>5 DEF humanRepliedAfterClarification
<1>17. CASE findPR
  <2>1. PICK p \in 0 .. MaxPR : Write(markFailed(Snap)) \/ work' = [work EXCEPT !.step = "listPRFiles", !.pr = p]
    BY <1>17 DEF findPR
  <2>2. work'.step \notin {"ensureTaskSecret", "ensurePod"}
    BY <2>1, <1>0, <1>4 DEF Works
  <2> QED
    BY <1>17, <2>2, <1>1 DEF findPR
<1>18. ASSUME NEW t \in Tasks, Reconcile(t) PROVE SandboxInv'
  <2>1. work'.step = FirstStep(t, cache[t])
    BY <1>18, IdleTyped DEF Reconcile, Works
  <2>2. work'.step \notin {"ensureTaskSecret", "ensurePod"}
    BY <2>1 DEF FirstStep
  <2> QED
    BY <1>18, <2>2, <1>1 DEF Reconcile
\* The environment.
<1>19. CASE UNCHANGED <<work, ns, policy, secret, pods>>
  BY <1>19, <1>2
<1>20. ASSUME NEW n \in Namespaces, NamespaceGone(n) PROVE SandboxInv'
  <2>1. /\ \A k \in Namespaces : k # n => ns'[k] = ns[k]
        /\ ns'[n] = "absent" /\ \A m \in PodNames : pods[n][m].phase = "none"
        /\ UNCHANGED <<work, policy, secret, pods>>
    BY <1>20, <1>0 DEF NamespaceGone, Empty, TypeOK
  <2> QED
    BY <2>1, <1>0 DEF SandboxInv, PodsAreSandboxed, EnsureKnows, AbsentIsEmpty, Sandbox, taskNamespace, Task
<1>28. ASSUME NEW n \in Namespaces, ContentsGone(n) PROVE SandboxInv'
  <2>1. /\ \A k \in Namespaces : k # n => policy'[k] = policy[k] /\ secret'[k] = secret[k]
        /\ ns[n] = "terminating"
        /\ UNCHANGED <<work, ns, pods>>
    BY <1>28, <1>0 DEF ContentsGone, TypeOK
  <2> QED
    BY <2>1, <1>0 DEF SandboxInv, PodsAreSandboxed, EnsureKnows, AbsentIsEmpty, Sandbox, taskNamespace, Task
<1>21. ASSUME NEW n \in Namespaces, TokenExpires(n) PROVE SandboxInv'
  BY <1>21, <1>2, <1>0 DEF TokenExpires, TypeOK
<1>22. ASSUME NEW n \in Namespaces, NEW m \in PodNames,
              \/ PodStarts(n, m) \/ PodSucceeds(n, m) \/ PodFails(n, m)
              \/ PodEvicted(n, m) \/ PodRemoved(n, m)
       PROVE  SandboxInv'
  <2>1. UNCHANGED <<work, ns, policy, secret>>
    BY <1>22 DEF PodStarts, PodSucceeds, PodFails, PodEvicted, PodRemoved
  <2>2. \A k \in Namespaces, j \in PodNames : <<k, j>> # <<n, m>> => pods'[k][j] = pods[k][j]
    BY <1>22, <1>0 DEF PodStarts, PodSucceeds, PodFails, PodEvicted, PodRemoved, SetPhase, TypeOK
  <2>3. pods'[n][m].phase # "none" => pods[n][m].phase # "none"
    <3>1. CASE PodRemoved(n, m)
      BY <3>1, <1>0, NoPodTyped DEF PodRemoved, TypeOK
    <3>2. CASE ~PodRemoved(n, m)
      BY <3>2, <1>22 DEF PodStarts, PodSucceeds, PodFails, PodEvicted
    <3> QED
      BY <3>1, <3>2
  <2> QED
    BY <2>1, <2>2, <2>3, <1>2
<1>23. CASE Kubernetes
  BY <1>23, <1>19, <1>20, <1>21, <1>22, <1>28 DEF Kubernetes, SyncStatus, TTLElapses, SyncPods
<1>24. CASE People
  BY <1>24, <1>19 DEF People, AgentAsks, AgentPushes, AgentOpensPR, Comment, PRChanges, ReviewerLabels,
     notGitHub
<1>25. CASE UNCHANGED vars
  BY <1>25, <1>19 DEF vars
<1>26. ASSUME NEW t \in Tasks, NothingToDo(t) PROVE SandboxInv'
  BY <1>26, <1>25 DEF NothingToDo
<1> QED
  BY <1>6, <1>7, <1>8, <1>9, <1>10, <1>11, <1>12, <1>13, <1>14, <1>15, <1>16, <1>17, <1>18, <1>23,
     <1>24, <1>25, <1>26, <1>27, <1>29
  DEF Next, Operator, Continue

\* No agent pod of a live namespace is without the NetworkPolicy and the Secret,
\* whenever the namespace was deleted and created again, in whatever order it was
\* emptied, and wherever a call was cut short.
THEOREM AlwaysSandboxed == Spec => []PodsAreSandboxed
<1>1. Init => SandboxInv
  BY IdleTyped, NoPodTyped DEF Init, SandboxInv, PodsAreSandboxed, EnsureKnows, AbsentIsEmpty
<1>2. SandboxInv => PodsAreSandboxed
  BY DEF SandboxInv
<1> QED
  BY <1>1, <1>2, SandboxStep, Invariant, PTL DEF Spec

=============================================================================
