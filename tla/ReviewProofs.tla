----------------------------- MODULE ReviewProofs ------------------------------
(***************************************************************************)
(* Proofs about what the DevTask controller and the people around it see   *)
(* of each other: pull requests, their diffs and labels, and the           *)
(* clarifications on the issue.                                            *)
(***************************************************************************)
EXTENDS SandboxProofs

USE TasksAssumption, NsOfAssumption, MaxPRAssumption, FaultsAssumption

-----------------------------------------------------------------------------
(* What becomes of a pull request                                          *)

LEMMA PRUpdate ==
  ASSUME TypeOK, NEW u \in Tasks, NEW q, NEW v, prs' = [prs EXCEPT ![u][q] = v],
         NEW t \in Tasks, NEW p \in PRs
  PROVE  prs'[t][p] = prs[t][p] \/ (t = u /\ p = q /\ prs'[t][p] = v)
  BY DEF TypeOK

\* An agent that is about to push or open for task t.
AgentActs(t) == \E n \in Namespaces, m \in PodNames : AgentAt(n, m, t)

\* What one step may do to one pull request.
PRStep(t, p) ==
    /\ prs[t][p].vetted => prs'[t][p].vetted \/ AgentActs(t)
    /\ prs[t][p].state # "none" => prs'[t][p].state # "none"
    /\ \/ prs'[t][p].label = prs[t][p].label
       \/ prs'[t][p].label = "asked" /\ prs[t][p].label = "none" /\ prs[t][p].state # "none"
       \/ prs'[t][p].label = "none" /\ (removePRLabel \/ prs[t][p].state = "none")
       \/ /\ prs'[t][p].label = "taken" /\ StatusUpdate /\ ~Conflicts
          /\ t = work.task /\ p = work.next.pr /\ work.next.phase = "AwaitingRevision"

LEMMA PRMoves ==
  ASSUME Inv, [Next]_vars, NEW t \in Tasks, NEW p \in PRs
  PROVE  PRStep(t, p)
<1>0. /\ TypeOK /\ prs[t][p] \in PullRequests /\ work.task \in Tasks
      /\ prs[t][p].vetted \in BOOLEAN
  BY WorkTyped DEF Inv, TypeOK, PullRequests
<1>1. CASE prs'[t][p] = prs[t][p]
  BY <1>1 DEF PRStep
<1>2. CASE prs' = prs
  BY <1>1, <1>2
\* Updates of one field of the record.
<1>3. ASSUME NEW s \in {"open", "closed", "merged"}, prs'[t][p] = [prs[t][p] EXCEPT !.state = s]
      PROVE  PRStep(t, p)
  <2>1. /\ prs'[t][p].vetted = prs[t][p].vetted /\ prs'[t][p].state # "none"
        /\ prs'[t][p].label = prs[t][p].label
    BY <1>0, <1>3 DEF PullRequests
  <2> QED
    BY <2>1 DEF PRStep
<1>4. ASSUME NEW l, prs'[t][p] = [prs[t][p] EXCEPT !.label = l]
      PROVE  prs'[t][p].vetted = prs[t][p].vetted /\ prs'[t][p].state = prs[t][p].state /\ prs'[t][p].label = l
  BY <1>0, <1>4 DEF PullRequests
<1>5. CASE StatusUpdate
  <2>1. CASE Conflicts \/ work.next.phase # "AwaitingRevision"
    BY <1>2, <1>5, <2>1 DEF StatusUpdate
  <2>2. CASE ~Conflicts /\ work.next.phase = "AwaitingRevision"
    <3> DEFINE q == work.next.pr
               v == [prs[work.task][q] EXCEPT !.label = "taken"]
    <3>1. prs' = [prs EXCEPT ![work.task][q] = v]
      BY <1>5, <2>2 DEF StatusUpdate, Task
    <3>2. prs'[t][p] = prs[t][p] \/ (t = work.task /\ p = q /\ prs'[t][p] = v)
      <4> HIDE DEF v, q
      <4> QED
        BY <3>1, <1>0, PRUpdate
    <3> QED
      BY <1>1, <1>4, <1>5, <2>2, <3>2 DEF PRStep
  <2> QED
    BY <2>1, <2>2
<1>6. CASE listPRFiles
  <2> DEFINE q == work.pr
             b == prs[work.task][q].vetted \/ prs[work.task][q].head = "clean"
             v == [prs[work.task][q] EXCEPT !.vetted = b]
  <2>1. prs' = [prs EXCEPT ![work.task][q] = v]
    BY <1>6 DEF listPRFiles, Task
  <2>2. prs'[t][p] = prs[t][p] \/ (t = work.task /\ p = q /\ prs'[t][p] = v)
    <3> HIDE DEF v, q
    <3> QED
      BY <2>1, <1>0, PRUpdate
  <2>3. ASSUME t = work.task, p = q, prs'[t][p] = v PROVE PRStep(t, p)
    <3>1. prs'[t][p] = [prs[t][p] EXCEPT !.vetted = b] /\ (prs[t][p].vetted => b)
      BY <2>3
    <3> HIDE DEF b
    <3>2. prs'[t][p].vetted = b /\ prs'[t][p].state = prs[t][p].state /\ prs'[t][p].label = prs[t][p].label
      BY <3>1, <1>0 DEF PullRequests
    <3> QED
      BY <3>1, <3>2 DEF PRStep
  <2> QED
    BY <2>2, <2>3, <1>1
<1>7. CASE rejectClose
  <2> DEFINE q == work.pr
             s == IF prs[work.task][q].state = "open" THEN "closed" ELSE prs[work.task][q].state
             v == [prs[work.task][q] EXCEPT !.state = s]
  <2>1. prs' = [prs EXCEPT ![work.task][q] = v]
    BY <1>7 DEF rejectClose, Task
  <2>2. prs'[t][p] = prs[t][p] \/ (t = work.task /\ p = q /\ prs'[t][p] = v)
    <3> HIDE DEF v, q
    <3> QED
      BY <2>1, <1>0, PRUpdate
  <2>3. ASSUME t = work.task, p = q, prs'[t][p] = v PROVE PRStep(t, p)
    <3>1. s = "closed" \/ (s = prs[t][p].state /\ prs'[t][p] = prs[t][p])
      BY <2>3, <1>0 DEF PullRequests
    <3> QED
      BY <2>3, <3>1, <1>1, <1>3
  <2> QED
    BY <2>2, <2>3, <1>1
<1>8. CASE removePRLabel
  <2> DEFINE q == work.snap.pr
             v == [prs[work.task][q] EXCEPT !.label = "none"]
  <2>1. prs' = prs \/ prs' = [prs EXCEPT ![work.task][q] = v]
    BY <1>8 DEF removePRLabel, Task, Snap
  <2>2. ASSUME prs' = [prs EXCEPT ![work.task][q] = v]
        PROVE  prs'[t][p] = prs[t][p] \/ (t = work.task /\ p = q /\ prs'[t][p] = v)
    <3> HIDE DEF v, q
    <3> QED
      BY <2>2, <1>0, PRUpdate
  <2> QED
    BY <2>1, <2>2, <1>1, <1>2, <1>4, <1>8 DEF PRStep
<1>9. CASE Continue
  BY <1>2, <1>5, <1>6, <1>7, <1>8, <1>9
  DEF Continue, ensureNamespace, ensureNetworkPolicy, ensureTaskSecret, ensurePod,
     CreateForbidden, reconcileActivePod, hasRecentClarificationComment, deleteNamespace, findPR,
     rejectComment, findLink, prComment, isPRMergedOrClosed, prHasLabel,
     deleteRevisionPod, humanRepliedAfterClarification, ttlDelete, github
<1>10. CASE Kubernetes
  BY <1>2, <1>10 DEF Kubernetes, SyncStatus, TTLElapses, SyncPods, ContentsGone, NamespaceGone, TokenExpires,
     PodStarts, PodSucceeds, PodFails, PodEvicted, PodRemoved, github
\* People.
<1>11. ASSUME NEW n \in Namespaces, NEW m \in PodNames, NEW u \in Tasks, NEW q \in PRs,
              NEW h \in {"clean", "violating"}, AgentPushes(n, m, u, q, h)
       PROVE  PRStep(t, p)
  <2> DEFINE v == [prs[u][q] EXCEPT !.head = h, !.vetted = FALSE]
  <2>1. prs' = [prs EXCEPT ![u][q] = v]
    BY <1>11 DEF AgentPushes
  <2>2. prs'[t][p] = prs[t][p] \/ (t = u /\ p = q /\ prs'[t][p] = v)
    <3> HIDE DEF v
    <3> QED
      BY <2>1, <1>0, PRUpdate
  <2>3. ASSUME t = u, p = q, prs'[t][p] = v PROVE PRStep(t, p)
    <3>1. prs'[t][p].state = prs[t][p].state /\ prs'[t][p].label = prs[t][p].label
      BY <2>3, <1>0 DEF PullRequests
    <3>2. AgentActs(t)
      BY <1>11, <2>3 DEF AgentPushes, AgentActs
    <3> QED
      BY <3>1, <3>2 DEF PRStep
  <2> QED
    BY <2>2, <2>3, <1>1
<1>12. ASSUME NEW n \in Namespaces, NEW u \in Tasks, NEW q \in PRs,
              NEW h \in {"clean", "violating"}, AgentOpensPR(n, u, q, h)
       PROVE  PRStep(t, p)
  <2> DEFINE v == [NoPullRequest EXCEPT !.state = "open", !.head = h]
  <2>1. prs' = [prs EXCEPT ![u][q] = v] /\ prs[u][q].state = "none"
    BY <1>12 DEF AgentOpensPR
  <2>2. prs'[t][p] = prs[t][p] \/ (t = u /\ p = q /\ prs'[t][p] = v)
    <3> HIDE DEF v
    <3> QED
      BY <2>1, <1>0, PRUpdate
  <2>3. v.label = "none"
    BY DEF NoPullRequest
  <2>4. t = u => AgentActs(t)
    BY <1>12 DEF AgentOpensPR, AgentActs, PodNames
  <2> HIDE DEF v
  <2> QED
    BY <2>1, <2>2, <2>3, <2>4, <1>1 DEF PRStep
<1>13. ASSUME NEW u \in Tasks, NEW q \in PRs, NEW f \in {"open", "closed"}, NEW s \in {"open", "closed", "merged"},
              PRChanges(u, q, f, s)
       PROVE  PRStep(t, p)
  <2> DEFINE v == [prs[u][q] EXCEPT !.state = s]
  <2>1. prs' = [prs EXCEPT ![u][q] = v]
    BY <1>13 DEF PRChanges
  <2>2. prs'[t][p] = prs[t][p] \/ (t = u /\ p = q /\ prs'[t][p] = v)
    <3> HIDE DEF v
    <3> QED
      BY <2>1, <1>0, PRUpdate
  <2> QED
    BY <2>2, <1>1, <1>3
<1>14. ASSUME NEW u \in Tasks, NEW q \in PRs, ReviewerLabels(u, q) PROVE PRStep(t, p)
  <2> DEFINE l == IF prs[u][q].label = "none" THEN "asked" ELSE prs[u][q].label
             v == [prs[u][q] EXCEPT !.label = l]
  <2>1. prs' = [prs EXCEPT ![u][q] = v] /\ prs[u][q].state = "open"
    BY <1>14 DEF ReviewerLabels
  <2>2. prs'[t][p] = prs[t][p] \/ (t = u /\ p = q /\ prs'[t][p] = v)
    <3> HIDE DEF v
    <3> QED
      BY <2>1, <1>0, PRUpdate
  <2> QED
    BY <2>1, <2>2, <1>1, <1>4 DEF PRStep
<1>15. CASE People
  BY <1>2, <1>11, <1>12, <1>13, <1>14, <1>15 DEF People, AgentAsks, Comment
<1> QED
  BY <1>2, <1>9, <1>10, <1>15 DEF Next, Operator, Reconcile, NothingToDo, Abort, vars, github

\* Which step of a call settles what it is going to write, and how.
LEMMA Settles ==
  ASSUME Inv, MovesOn, work'.step \in {"statusUpdate", "deleteNamespace"}
  PROVE  \/ ensurePod /\ work'.next.phase = "Building"
         \/ reconcileActivePod /\ work'.next.phase = "Running"
         \/ hasRecentClarificationComment /\ work'.next.phase \in {"BlockedOnClarification", "Failed"}
         \/ (findPR \/ rejectClose) /\ work'.next.phase = "Failed"
         \/ (findLink \/ prComment) /\ work'.next.phase = "AwaitingReview" /\ work'.next.pr = work.pr
         \/ isPRMergedOrClosed /\ work'.next.phase = "Completed"
         \/ /\ prHasLabel /\ work'.next.phase = "AwaitingRevision" /\ work'.next.pr = work.snap.pr
            /\ work.snap.pr # 0 /\ prs[work.task][work.snap.pr].label # "none"
         \/ ttlDelete /\ work'.next.phase = work.snap.phase
         \/ deleteNamespace /\ work'.next = work.next
<1>0. work \in Works /\ work.snap \in Status /\ work.pr \in 0 .. MaxPR /\ work' # Idle
  BY WorkTyped, IdleTyped DEF Inv, TypeOK
<1>1. ASSUME NEW x, Goto(x) PROVE work'.step = x /\ work'.next = work.next
  BY <1>0, <1>1 DEF Goto, Works
<1>2. ASSUME NEW s, Write(s) \/ DeleteThenWrite(s) PROVE work'.next = s
  BY <1>0, <1>2 DEF Write, DeleteThenWrite, Works
\* The statuses there are to write.
<1> DEFINE to(ph) == [Snap EXCEPT !.phase = ph]
           toBuilding == [Snap EXCEPT !.phase = "Building", !.ns = TRUE]
           toGone == [markFailed(Snap) EXCEPT !.ns = FALSE]
           toReclaimed == [Snap EXCEPT !.ns = FALSE]
<1>3. /\ to("Running").phase = "Running" /\ to("BlockedOnClarification").phase = "BlockedOnClarification"
      /\ to("Completed").phase = "Completed"
      /\ to("AwaitingRevision").phase = "AwaitingRevision" /\ to("AwaitingRevision").pr = work.snap.pr
      /\ toBuilding.phase = "Building" /\ ToReview.phase = "AwaitingReview" /\ ToReview.pr = work.pr
      /\ markFailed(Snap).phase = "Failed" /\ toGone.phase = "Failed" /\ toReclaimed.phase = work.snap.phase
  BY <1>0 DEF Snap, Status, markFailed, ToReview
<1>4. /\ ensurePod => Write(toBuilding)
      /\ reconcileActivePod => Return \/ Goto("findPR") \/ Goto("clarification") \/ Write(to("Running"))
      /\ hasRecentClarificationComment => DeleteThenWrite(to("BlockedOnClarification")) \/ Write(markFailed(Snap))
      /\ rejectClose => DeleteThenWrite(toGone)
      /\ findLink => Goto("prComment") \/ Write(ToReview)
      /\ prComment => Write(ToReview)
      /\ isPRMergedOrClosed => DeleteThenWrite(to("Completed")) \/ Goto("prHasLabel")
      /\ prHasLabel => \/ Return
                       \/ /\ Write(to("AwaitingRevision")) /\ work.snap.pr # 0
                          /\ prs[work.task][work.snap.pr].label # "none"
      /\ ttlDelete => Write(toReclaimed)
  BY DEF ensurePod, reconcileActivePod, OnPod, hasRecentClarificationComment, rejectClose, findLink, prComment,
         isPRMergedOrClosed, prHasLabel, ttlDelete, Snap, Task
<1> HIDE DEF to, toBuilding, toGone, toReclaimed
<1>5. CASE ensurePod
  BY <1>2, <1>3, <1>4, <1>5
<1>6. CASE reconcileActivePod
  BY <1>0, <1>1, <1>2, <1>3, <1>4, <1>6 DEF Return
<1>7. CASE hasRecentClarificationComment
  BY <1>2, <1>3, <1>4, <1>7
<1>8. CASE findPR
  <2>1. PICK p \in 0 .. MaxPR : Write(markFailed(Snap)) \/ work' = [work EXCEPT !.step = "listPRFiles", !.pr = p]
    BY <1>8 DEF findPR
  <2>2. work' # [work EXCEPT !.step = "listPRFiles", !.pr = p]
    BY <1>0 DEF Works
  <2> QED
    BY <1>2, <1>3, <1>8, <2>1, <2>2
<1>9. CASE rejectClose
  BY <1>2, <1>3, <1>4, <1>9
<1>10. CASE findLink \/ prComment
  BY <1>1, <1>2, <1>3, <1>4, <1>10
<1>11. CASE isPRMergedOrClosed
  BY <1>1, <1>2, <1>3, <1>4, <1>11
<1>12. CASE prHasLabel
  BY <1>0, <1>2, <1>3, <1>4, <1>12 DEF Return
<1>13. CASE ttlDelete
  BY <1>2, <1>3, <1>4, <1>13
<1>14. CASE deleteNamespace
  BY <1>1, <1>14 DEF deleteNamespace
<1>15. CASE listPRFiles
  BY <1>1, <1>15 DEF listPRFiles, evaluateDiff
<1> QED
  BY <1>0, <1>1, <1>5, <1>6, <1>7, <1>8, <1>9, <1>10, <1>11, <1>12, <1>13, <1>14, <1>15
  DEF MovesOn, Continue, StatusUpdate, ensureNamespace, ensureNetworkPolicy, ensureTaskSecret,
      CreateForbidden, rejectComment, removePRLabel, deleteRevisionPod, humanRepliedAfterClarification, Return

-----------------------------------------------------------------------------
(* The diff a reviewer is shown                                            *)

\* The diff of a task in review, and that of a call on its way there, has been
\* evaluated since the agent's last push.
VetInv ==
    \A t \in Tasks :
        /\ status[t].phase = "AwaitingReview" => status[t].pr \in PRs /\ prs[t][status[t].pr].vetted
        /\ work.fresh /\ work.task = t =>
             /\ work.step \in {"findLink", "prComment"} => prs[t][work.pr].vetted
             /\ work.step \in {"deleteNamespace", "statusUpdate"} /\ work.next.phase = "AwaitingReview"
                  => prs[t][work.next.pr].vetted

\* Where no agent of the task runs, none pushes, opens or asks.
LEMMA QuietIsSilent ==
  ASSUME HomeInv, NEW t \in Tasks, Quiet(t)
  PROVE  ~AgentActs(t)
<1> SUFFICES ASSUME NEW n \in Namespaces, NEW m \in PodNames, AgentAt(n, m, t) PROVE FALSE
  BY DEF AgentActs
<1>1. pods[n][m].phase = "Running" /\ pods[n][m].task = t
  BY DEF AgentAt
<1>2. NsOf[t] = n
  BY <1>1 DEF HomeInv
<1>3. m \in {"agent", "agent-rev"}
  BY DEF PodNames
<1> QED
  BY <1>1, <1>2, <1>3 DEF Quiet, Agent, Revision, Live

\* A quiet task's diffs stay evaluated: only an agent of the task pushes.
LEMMA QuietKeepsVetted ==
  ASSUME PodsInv, [Next]_vars, NEW t \in Tasks, NEW p \in PRs, Quiet(t), prs[t][p].vetted
  PROVE  prs'[t][p].vetted
<1>1. ~AgentActs(t)
  BY QuietIsSilent DEF PodsInv
<1>2. PRStep(t, p)
  BY PRMoves DEF PodsInv, ReadInv
<1> QED
  BY <1>1, <1>2 DEF PRStep

LEMMA VetStep == PodsInv /\ VetInv /\ [Next]_vars => VetInv'
<1> SUFFICES ASSUME PodsInv, VetInv, [Next]_vars, NEW t \in Tasks
             PROVE  /\ status'[t].phase = "AwaitingReview"
                         => status'[t].pr \in PRs /\ prs'[t][status'[t].pr].vetted
                    /\ work'.fresh /\ work'.task = t =>
                         /\ work'.step \in {"findLink", "prComment"} => prs'[t][work'.pr].vetted
                         /\ work'.step \in {"deleteNamespace", "statusUpdate"} /\ work'.next.phase = "AwaitingReview"
                              => prs'[t][work'.next.pr].vetted
  BY DEF VetInv
<1>0. /\ Inv /\ TypeOK /\ work \in Works /\ work.task \in Tasks /\ work.next \in Status /\ work.snap \in Status
      /\ status \in [Tasks -> Status] /\ StepKnows(work)
  BY WorkTyped DEF PodsInv, ReadInv, Inv, TypeOK, CallInv
\* The pull request of a move to review.
<1>1. ASSUME work.step \in {"deleteNamespace", "statusUpdate"}, work.next.phase = "AwaitingReview"
      PROVE  work.next.pr \in PRs
  <2>1. Move(work.snap, work.next)
    BY <1>0, <1>1 DEF StepKnows
  <2> QED
    BY <2>1, <1>0, <1>1 DEF Move, Status, markFailed
<1>2. ASSUME status'[t].phase = "AwaitingReview"
      PROVE  status'[t].pr \in PRs /\ prs'[t][status'[t].pr].vetted
  <2>1. CASE status'[t] = status[t]
    <3>1. Quiet(t)
      BY <1>2, <2>1 DEF PodsInv, FitInv, Fits
    <3> QED
      BY <1>2, <2>1, <3>1, QuietKeepsVetted DEF VetInv
  <2>2. CASE status'[t] # status[t]
    <3>1. /\ StatusUpdate /\ ~Conflicts /\ work.step = "statusUpdate"
          /\ t = work.task /\ status'[t] = work.next
      BY <1>0, <2>2, StatusFrame DEF StatusUpdate, Task, At
    <3>2. prs' = prs
      BY <1>2, <3>1 DEF StatusUpdate
    <3> QED
      BY <1>1, <1>2, <3>1, <3>2 DEF VetInv, Conflicts
  <2> QED
    BY <2>1, <2>2
<1>3. ASSUME work'.fresh, work'.task = t
      PROVE  /\ work'.step \in {"findLink", "prComment"} => prs'[t][work'.pr].vetted
             /\ work'.step \in {"deleteNamespace", "statusUpdate"} /\ work'.next.phase = "AwaitingReview"
                  => prs'[t][work'.next.pr].vetted
  <2>1. CASE work' = work
    <3>1. /\ work.step \in {"findLink", "prComment"} => Quiet(t) /\ work.pr \in PRs
          /\ work.step \in {"deleteNamespace", "statusUpdate"} /\ work.next.phase = "AwaitingReview"
               => Quiet(t) /\ work.next.pr \in PRs
      BY <1>0, <1>1, <1>3, <2>1 DEF PodsInv, FitInv, CallFits, StepKnows
    <3> QED
      BY <1>3, <2>1, <3>1, QuietKeepsVetted DEF VetInv
  <2>2. CASE work' = Idle
    BY <1>3, <2>2 DEF Idle
  <2>3. ASSUME NEW u \in Tasks, Reconcile(u)
        PROVE  work'.step \notin {"findLink", "prComment", "deleteNamespace", "statusUpdate"}
    <3>1. work'.step = FirstStep(u, cache[u])
      BY <2>3, IdleTyped DEF Reconcile, Works
    <3> QED
      BY <3>1 DEF FirstStep
  <2>4. CASE MovesOn
    <3>0. work.task = t /\ work.fresh
      BY <1>3, <2>4 DEF MovesOn
    <3>3. CASE findLink
      <4>1. work.step = "findLink" /\ prs' = prs
        BY <3>3 DEF findLink, At, github
      <4>2. \/ work'.pr = work.pr /\ work'.step = "prComment"
            \/ work'.step = "statusUpdate" /\ work'.next = ToReview
        BY <1>0, <3>3 DEF findLink, Goto, Write, Works
      <4>3. ToReview.pr = work.pr
        BY <1>0 DEF ToReview, Snap, Status
      <4> QED
        BY <3>0, <4>1, <4>2, <4>3 DEF VetInv
    <3>1. ASSUME work'.step \in {"findLink", "prComment"}, ~findLink PROVE prs'[t][work'.pr].vetted
      <4>1. listPRFiles
        BY <1>0, <2>4, <3>1, IdleTyped
        DEF MovesOn, Continue, StatusUpdate, ensureNamespace, ensureNetworkPolicy, ensureTaskSecret, ensurePod,
            CreateForbidden, reconcileActivePod, OnPod, hasRecentClarificationComment, deleteNamespace, findPR,
            rejectComment, rejectClose, prComment, isPRMergedOrClosed, prHasLabel, removePRLabel,
            deleteRevisionPod, humanRepliedAfterClarification, ttlDelete,
            Goto, Write, DeleteThenWrite, Return, Works
      <4> DEFINE q == work.pr
                 b == prs[t][q].vetted \/ prs[t][q].head = "clean"
                 v == [prs[t][q] EXCEPT !.vetted = b]
      <4>2. /\ prs' = [prs EXCEPT ![t][q] = v] /\ q \in PRs
            /\ work'.step = evaluateDiff(prs[t][q].head) /\ work'.pr = q
        BY <1>0, <3>0, <4>1 DEF listPRFiles, Task, Goto, Works, At, StepKnows
      <4>3. b
        BY <1>0, <3>1, <4>2 DEF TypeOK, PullRequests, evaluateDiff
      <4>4. prs[t][q] \in PullRequests
        BY <1>0, <4>2 DEF TypeOK
      <4> HIDE DEF b
      <4>5. v.vetted = b
        BY <4>4 DEF PullRequests
      <4> HIDE DEF v, q
      <4>6. prs'[t][q] = v
        BY <1>0, <4>2 DEF TypeOK
      <4> QED
        BY <4>2, <4>3, <4>5, <4>6
    <3>2. ASSUME work'.step \in {"deleteNamespace", "statusUpdate"}, work'.next.phase = "AwaitingReview",
                 ~findLink
          PROVE  prs'[t][work'.next.pr].vetted
      <4>1. CASE prComment
        <5>1. work.step = "prComment" /\ prs' = prs /\ work'.next.pr = work.pr
          BY <1>0, <2>4, <3>2, <4>1, Settles DEF prComment, At, ensurePod, reconcileActivePod, 
             hasRecentClarificationComment, findPR, rejectClose, isPRMergedOrClosed, prHasLabel, ttlDelete, deleteNamespace
        <5> QED
          BY <5>1, <3>0 DEF VetInv
      <4>2. CASE deleteNamespace
        <5>1. work.step = "deleteNamespace" /\ prs' = prs /\ work'.next = work.next
          BY <1>0, <4>2 DEF deleteNamespace, At, Goto, Works, github
        <5> QED
          BY <5>1, <3>0, <3>2 DEF VetInv
      <4>3. ~ttlDelete \/ work'.next.phase # work.snap.phase
        BY <1>0, <3>2 DEF ttlDelete, At, StepKnows
      <4> QED
        BY <1>0, <2>4, <3>2, <4>1, <4>2, <4>3, Settles
    <3> QED
      BY <3>1, <3>2, <3>3
  <2> QED
    BY <1>0, <1>3, <2>1, <2>2, <2>3, <2>4, CallMoves
<1> QED
  BY <1>2, <1>3

LEMMA VetInvariant ==
  ASSUME OwnNamespaces, "podLag" \notin Faults, "ignoredError" \notin Faults
  PROVE  Spec => []VetInv
<1>1. Init => VetInv
  <2> SUFFICES ASSUME Init, NEW t \in Tasks PROVE status[t].phase # "AwaitingReview" /\ work.step = "idle"
    BY DEF VetInv
  <2> QED
    BY IdleTyped DEF Init, NewStatus
<1> QED
  BY <1>1, VetStep, PodsInvariant, PTL DEF Spec

\* What awaits review is the diff evaluateDiff accepted, with any number of tasks,
\* rounds, crashes, failing calls and late status reads, when every task has a
\* namespace of its own and getPod sees the pods there are: its cache is not late,
\* and an error of its first Get is not taken for NotFound (pod.go:398).
THEOREM ReviewedIsVetted ==
  ASSUME OwnNamespaces, "podLag" \notin Faults, "ignoredError" \notin Faults
  PROVE  Spec => []ReviewedDiffIsVetted
<1>1. VetInv => ReviewedDiffIsVetted
  BY DEF VetInv, ReviewedDiffIsVetted
<1> QED
  BY <1>1, VetInvariant, PTL

-----------------------------------------------------------------------------
(* The label that asks for a revision                                      *)

\* A label that has started a round is on the task's own pull request and only
\* until removePRLabel; a call on its way to AwaitingRevision has seen a label,
\* and it is still there.
AskInv ==
    \A t \in Tasks :
        /\ \A p \in PRs :
             /\ prs[t][p].label = "taken" => status[t].phase = "AwaitingRevision" /\ status[t].pr = p
             /\ prs[t][p].label # "none" => prs[t][p].state # "none"
        /\ work.task = t /\ work.fresh /\ work.snap.phase = "AwaitingRevision"
             /\ work.step \notin {"idle", "removePRLabel"}
               => \A p \in PRs : prs[t][p].label # "taken"
        /\ work.task = t /\ work.step \in {"deleteNamespace", "statusUpdate"}
             /\ work.next.phase = "AwaitingRevision"
               => work.next.pr \in PRs /\ prs[t][work.next.pr].label # "none"

LEMMA AskStep ==
  ASSUME "ignoredError" \notin Faults, Inv, AskInv, [Next]_vars
  PROVE  AskInv'
<1> SUFFICES ASSUME NEW t \in Tasks
             PROVE  /\ \A p \in PRs :
                         /\ prs'[t][p].label = "taken"
                              => status'[t].phase = "AwaitingRevision" /\ status'[t].pr = p
                         /\ prs'[t][p].label # "none" => prs'[t][p].state # "none"
                    /\ work'.task = t /\ work'.fresh /\ work'.snap.phase = "AwaitingRevision"
                         /\ work'.step \notin {"idle", "removePRLabel"}
                           => \A p \in PRs : prs'[t][p].label # "taken"
                    /\ work'.task = t /\ work'.step \in {"deleteNamespace", "statusUpdate"}
                         /\ work'.next.phase = "AwaitingRevision"
                           => work'.next.pr \in PRs /\ prs'[t][work'.next.pr].label # "none"
  BY DEF AskInv
<1>0. /\ TypeOK /\ work \in Works /\ work.task \in Tasks /\ work.next \in Status /\ work.snap \in Status
      /\ status \in [Tasks -> Status] /\ StepKnows(work) /\ work.snap.pr \in 0 .. MaxPR
      /\ ~At("idle") /\ work.fresh => work.snap = status[work.task]
  BY WorkTyped DEF Inv, TypeOK, CallInv, Status
<1>1. \A p \in PRs : PRStep(t, p)
  BY PRMoves
<1>2. StatusUpdate => /\ work.step = "statusUpdate" /\ work' = Idle
                      /\ ~Conflicts => status' = [status EXCEPT ![work.task] = work.next]
                      /\ Conflicts => status' = status
  BY DEF StatusUpdate, Return, At, Task
<1>3. ASSUME NEW p \in PRs, prs'[t][p].label = "taken"
      PROVE  status'[t].phase = "AwaitingRevision" /\ status'[t].pr = p
  <2>1. CASE prs[t][p].label = "taken"
    <3>1. status[t].phase = "AwaitingRevision" /\ status[t].pr = p
      BY <2>1 DEF AskInv
    <3>2. StatusUpdate /\ ~Conflicts => work.task # t
      BY <1>0, <1>2, <2>1, <3>1 DEF AskInv, Conflicts, At
    <3>3. status'[t] = status[t]
      BY <1>0, <1>2, <3>2, StatusFrame
    <3> QED
      BY <3>1, <3>3
  <2>2. CASE prs[t][p].label # "taken"
    BY <1>0, <1>1, <1>2, <1>3, <2>2 DEF PRStep
  <2> QED
    BY <2>1, <2>2
<1>4. ASSUME NEW p \in PRs, prs'[t][p].label # "none" PROVE prs'[t][p].state # "none"
  <2>1. prs[t][p].state # "none"
    BY <1>1, <1>2, <1>4 DEF PRStep, AskInv
  <2> QED
    BY <1>1, <2>1 DEF PRStep
<1>5. ASSUME work'.task = t, work'.fresh, work'.snap.phase = "AwaitingRevision",
             work'.step \notin {"idle", "removePRLabel"}, NEW p \in PRs
      PROVE  prs'[t][p].label # "taken"
  <2>1. work' # Idle /\ ~StatusUpdate
    BY <1>2, <1>5, IdleTyped
  <2>2. prs'[t][p].label = "taken" => prs[t][p].label = "taken"
    BY <1>1, <2>1 DEF PRStep
  <2>3. CASE work' = work
    BY <1>5, <2>2, <2>3 DEF AskInv
  <2>4. ASSUME NEW u \in Tasks, Reconcile(u) PROVE FALSE
    <3>1. work'.step = FirstStep(u, cache[u]) /\ work'.snap = cache[u]
      BY <2>4, IdleTyped DEF Reconcile, Works
    <3> QED
      BY <3>1, <1>5 DEF FirstStep, Active
  <2>5. CASE MovesOn /\ work.step # "removePRLabel"
    BY <1>5, <2>2, <2>5 DEF AskInv, MovesOn, At
  <2>6. CASE MovesOn /\ work.step = "removePRLabel"
    <3>1. removePRLabel
      BY <2>6 DEF MovesOn, Continue, StatusUpdate, ensureNamespace, ensureNetworkPolicy, ensureTaskSecret, ensurePod,
         CreateForbidden, reconcileActivePod, hasRecentClarificationComment, deleteNamespace, findPR,
         listPRFiles, rejectComment, rejectClose, findLink, prComment, isPRMergedOrClosed, prHasLabel,
         deleteRevisionPod, humanRepliedAfterClarification, ttlDelete, At
    <3>2. /\ work.task = t /\ status[t] = work.snap
          /\ prs[t][p].label = "taken" => p = work.snap.pr
      BY <1>0, <1>5, <2>6 DEF MovesOn, AskInv, At
    <3>3. CASE prs[t][p].label # "taken"
      BY <2>2, <3>3
    <3>4. CASE p = work.snap.pr
      <4>1. prs' = [prs EXCEPT ![t][p].label = "none"]
        BY <3>1, <3>2, <3>4 DEF removePRLabel, Task, Snap, PRs, MayHaveNoEffect
      <4>2. prs[t][p] \in PullRequests
        BY <1>0 DEF TypeOK
      <4>3. prs'[t][p] = [prs[t][p] EXCEPT !.label = "none"]
        BY <1>0, <4>1 DEF TypeOK
      <4> QED
        BY <4>2, <4>3 DEF PullRequests
    <3> QED
      BY <3>2, <3>3, <3>4
  <2> QED
    BY <2>1, <2>3, <2>4, <2>5, <2>6, CallMoves
<1>6. ASSUME work'.task = t, work'.step \in {"deleteNamespace", "statusUpdate"},
             work'.next.phase = "AwaitingRevision"
      PROVE  work'.next.pr \in PRs /\ prs'[t][work'.next.pr].label # "none"
  <2>1. work' # Idle /\ ~StatusUpdate
    BY <1>2, <1>6, IdleTyped
  <2>2. ASSUME NEW u \in Tasks, Reconcile(u) PROVE FALSE
    <3>1. work'.step = FirstStep(u, cache[u])
      BY <2>2, IdleTyped DEF Reconcile, Works
    <3> QED
      BY <3>1, <1>6 DEF FirstStep
  <2>3. /\ work.task = t /\ work'.next.pr \in PRs /\ prs[t][work'.next.pr].label # "none"
        /\ work.step # "removePRLabel"
    <3>1. CASE work' = work
      BY <1>6, <3>1 DEF AskInv
    <3>2. CASE MovesOn
      <4>1. work.task = t /\ ((prHasLabel /\ work'.next.pr = work.snap.pr /\ work.snap.pr # 0
                                /\ prs[t][work.snap.pr].label # "none")
                              \/ (deleteNamespace /\ work'.next = work.next))
        BY <1>0, <1>6, <3>2, Settles DEF MovesOn, ttlDelete, At, StepKnows
      <4>2. CASE prHasLabel
        BY <4>1, <4>2, <1>0 DEF prHasLabel, deleteNamespace, At, PRs
      <4>3. CASE deleteNamespace
        BY <4>1, <4>3, <1>6 DEF prHasLabel, deleteNamespace, At, AskInv
      <4> QED
        BY <4>1, <4>2, <4>3
    <3> QED
      BY <2>1, <2>2, <3>1, <3>2, CallMoves
  <2>4. prs[t][work'.next.pr].state # "none" /\ ~removePRLabel
    BY <2>3 DEF AskInv, removePRLabel, At
  <2> QED
    BY <1>1, <2>3, <2>4 DEF PRStep
<1> QED
  BY <1>3, <1>4, <1>5, <1>6

\* Every round has its own label: prHasLabel, on a status read some calls before,
\* never starts a second round for a label an earlier round was started for.
THEOREM RevisionsAsked ==
  ASSUME "ignoredError" \notin Faults
  PROVE  Spec => RevisionIsAsked
<1>1. Init => AskInv
  <2> SUFFICES ASSUME Init, NEW t \in Tasks
               PROVE  /\ \A p \in PRs : prs[t][p].label = "none"
                      /\ work.step = "idle"
    BY DEF AskInv
  <2> QED
    BY IdleTyped DEF Init, NoPullRequest
<1>2. Inv /\ AskInv /\ [Next]_vars
        => [\A t \in Tasks : status[t].phase = "AwaitingReview" /\ status'[t].phase = "AwaitingRevision"
              => prs[t][status[t].pr].label = "asked"]_vars
  <2> SUFFICES ASSUME Inv, AskInv, [Next]_vars, NEW t \in Tasks,
                      status[t].phase = "AwaitingReview", status'[t].phase = "AwaitingRevision"
               PROVE  prs[t][status[t].pr].label = "asked"
    OBVIOUS
  <2>0. /\ TypeOK /\ work \in Works /\ work.task \in Tasks /\ work.next \in Status /\ work.snap \in Status
        /\ status \in [Tasks -> Status] /\ StepKnows(work)
        /\ ~At("idle") /\ work.fresh => work.snap = status[work.task]
    BY WorkTyped DEF Inv, TypeOK, CallInv
  <2>1. StatusUpdate
    BY StatusFrame
  <2>2. /\ ~Conflicts /\ work.task = t /\ status'[t] = work.next /\ work.step = "statusUpdate"
        /\ work.snap = status[t]
    BY <2>0, <2>1 DEF StatusUpdate, Task, At, Conflicts
  <2>3. Move(work.snap, work.next)
    BY <2>0, <2>2 DEF StepKnows
  <2>4. work.next.pr = status[t].pr
    BY <2>0, <2>2, <2>3 DEF Move, Status, Active, markFailed
  <2>5. prs[t][work.next.pr].label # "none" /\ prs[t][work.next.pr].label # "taken" /\ work.next.pr \in PRs
    BY <2>2 DEF AskInv
  <2>6. prs[t][work.next.pr] \in PullRequests
    BY <2>0, <2>5 DEF TypeOK
  <2> QED
    BY <2>4, <2>5, <2>6 DEF PullRequests
<1> QED
  BY <1>1, <1>2, AskStep, Invariant, PTL DEF Spec, RevisionIsAsked

-----------------------------------------------------------------------------
(* The agent that asks                                                     *)

\* The first or resumed run of the task has come to a good end, or has no pod.
Ended(t) == Agent(t) \in {"none", "Succeeded"}

\* So has every run: getPod finds no failure.
Passed(t) == Ended(t) /\ Revision(t) \in {"none", "Succeeded"}

\* What a call that started from the newest status knows of the runs when it is
\* about to give the task up, or to pass it on.
CallHeard(t) ==
    /\ work.step \in {"findPR", "listPRFiles", "rejectComment", "rejectClose", "findLink", "prComment"} => Passed(t)
    /\ work.step = "clarification" => Quiet(t)
    /\ work.step \in {"deleteNamespace", "statusUpdate"} =>
         /\ work.next.phase = "AwaitingReview" => Ended(t)
         /\ work.next.phase = "Failed" /\ work.snap.phase # "Failed"
              => Passed(t) \/ (thread[t] = "none" /\ Quiet(t))

\* A revision follows a run that has succeeded.
HeardInv ==
    \A t \in Tasks :
        /\ Revision(t) # "none" \/ status[t].phase \in {"AwaitingReview", "AwaitingRevision"}
             \/ cache[t].phase = "AwaitingRevision" => Ended(t)
        /\ ~At("idle") /\ work.task = t /\ work.snap.phase = "AwaitingRevision" => Ended(t)
        /\ work.fresh /\ work.task = t => CallHeard(t)

\* Only an agent begins a clarification.
LEMMA SilenceStays ==
  ASSUME Inv, [Next]_vars, NEW t \in Tasks, thread[t] = "none", ~AgentActs(t)
  PROVE  thread'[t] = "none"
<1>0. thread \in [Tasks -> Threads] /\ work.task \in Tasks
  BY WorkTyped DEF Inv, TypeOK
<1>1. CASE prComment
  BY <1>0, <1>1 DEF prComment, Task
<1>2. CASE Continue
  BY <1>0, <1>1, <1>2 DEF Continue, StatusUpdate, ensureNamespace, ensureNetworkPolicy, ensureTaskSecret, ensurePod,
     CreateForbidden, reconcileActivePod, hasRecentClarificationComment, deleteNamespace, findPR,
     listPRFiles, rejectComment, rejectClose, findLink, isPRMergedOrClosed, prHasLabel,
     removePRLabel, deleteRevisionPod, humanRepliedAfterClarification, ttlDelete, github
<1>3. CASE Kubernetes
  BY <1>0, <1>3 DEF Kubernetes, SyncStatus, TTLElapses, SyncPods, ContentsGone, NamespaceGone, TokenExpires,
     PodStarts, PodSucceeds, PodFails, PodEvicted, PodRemoved, github
<1>4. ASSUME NEW n \in Namespaces, NEW m \in PodNames, NEW u \in Tasks, AgentAsks(n, m, u)
      PROVE  thread'[t] = "none"
  BY <1>0, <1>4 DEF AgentAsks, AgentActs
<1>5. ASSUME NEW u \in Tasks, NEW by, Comment(u, by) PROVE thread'[t] = "none"
  BY <1>0, <1>5 DEF Comment
<1>6. CASE People
  BY <1>4, <1>5, <1>6 DEF People, AgentPushes, AgentOpensPR, PRChanges, ReviewerLabels
<1> QED
  BY <1>2, <1>3, <1>6 DEF Next, Operator, Reconcile, NothingToDo, Abort, vars, github

\* A run that has ended well is not undone while no pod is created for the task.
LEMMA StaysEnded ==
  ASSUME Inv, [Next]_vars, NEW t \in Tasks, ~(ensurePod /\ NsOf[t] = Sandbox)
  PROVE  /\ Ended(t) => Ended(t)'
         /\ Passed(t) => Passed(t)'
         /\ Revision(t)' # "none" => Revision(t) # "none"
<1>1. NsOf[t] \in Namespaces /\ "agent" \in PodNames /\ "agent-rev" \in PodNames
  BY DEF PodNames
<1>2. /\ Agent(t)' = "none" \/ Agent(t) = Agent(t)' \/ Agent(t) \in Live
      /\ Revision(t)' = "none" \/ Revision(t) = Revision(t)' \/ Revision(t) \in Live
  BY <1>1, PodMoves DEF Agent, Revision
<1> QED
  BY <1>2 DEF Ended, Passed, Live

LEMMA HeardPhases ==
  ASSUME OwnNamespaces, "ignoredError" \notin Faults, PodsInv, HeardInv, [Next]_vars, NEW t \in Tasks
  PROVE  /\ Revision(t)' # "none" \/ status'[t].phase \in {"AwaitingReview", "AwaitingRevision"}
              \/ cache'[t].phase = "AwaitingRevision" => Ended(t)'
         /\ ~At("idle")' /\ work'.task = t /\ work'.snap.phase = "AwaitingRevision" => Ended(t)'
<1>0. /\ Inv /\ ReadInv /\ work \in Works /\ work.task \in Tasks /\ work.next \in Status /\ work.snap \in Status
      /\ status \in [Tasks -> Status] /\ cache \in [Tasks -> Status] /\ Sandbox = NsOf[work.task]
      /\ StepKnows(work)
  BY WorkTyped DEF PodsInv, ReadInv, Inv, TypeOK, CallInv, Sandbox, taskNamespace, Task
<1>1. CASE ensurePod /\ NsOf[t] = Sandbox
  <2>1. t = work.task
    BY <1>0, <1>1 DEF OwnNamespaces
  <2>2. work.step = "ensurePod" /\ UNCHANGED <<status, cache>> /\ work'.snap = work.snap
    BY <1>0, <1>1, Creation DEF ensurePod, Write, Works
  <2>3. CASE work.snap.phase = "AwaitingRevision"
    <3>1. Ended(t)
      BY <2>1, <2>2, <2>3 DEF HeardInv, At
    <3> QED
      BY <1>0, <1>1, <2>3, <3>1, Creation DEF Ended
  <2>4. CASE work.snap.phase # "AwaitingRevision"
    <3>1. /\ work.snap.phase \in {"", "BlockedOnClarification"}
          /\ status[t].phase \in {work.snap.phase, "Building"} /\ cache[t].phase \in {work.snap.phase, "Building"}
      BY <1>0, <2>1, <2>2, <2>4, SpawnPhase DEF StepKnows
    <3>2. NoRevision(t) /\ Alive(t)
      BY <1>0, <1>1, <2>1, <2>2, <3>1 DEF PodsInv, FitInv, SpawnFits, At, ensurePod, Alive
    <3>3. Revision(t)' = "none"
      BY <1>0, <1>1, <2>4, <3>2, Creation DEF NoRevision, MayHaveNoEffect
    <3> QED
      BY <2>2, <3>1, <3>3
  <2> QED
    BY <2>3, <2>4
<1>2. CASE ~(ensurePod /\ NsOf[t] = Sandbox)
  <2>1. Ended(t) => Ended(t)'
    BY <1>0, <1>2, StaysEnded
  <2>2. Revision(t)' # "none" => Ended(t)
    BY <1>0, <1>2, StaysEnded DEF HeardInv
  <2>3. ASSUME status'[t].phase \in {"AwaitingReview", "AwaitingRevision"} PROVE Ended(t)
    <3>1. CASE status'[t] = status[t]
      BY <2>3, <3>1 DEF HeardInv
    <3>2. CASE status'[t] # status[t]
      <4>1. /\ StatusUpdate /\ ~Conflicts /\ work.step = "statusUpdate"
            /\ t = work.task /\ status'[t] = work.next
        BY <1>0, <3>2, StatusFrame DEF StatusUpdate, Task, At
      <4>2. /\ work.snap = status[t] /\ Move(status[t], work.next) /\ CallHeard(t)
        BY <1>0, <4>1 DEF Inv, CallInv, StepKnows, HeardInv, Conflicts, At
      <4> QED
        BY <1>0, <2>3, <4>1, <4>2, MovePhases DEF CallHeard, HeardInv
    <3> QED
      BY <3>1, <3>2
  <2>4. ASSUME cache'[t].phase = "AwaitingRevision" PROVE Ended(t)
    <3>1. cache'[t] = cache[t] \/ cache'[t] = status'[t]
      <4>1. CASE StatusUpdate
        BY <4>1 DEF StatusUpdate
      <4>2. CASE ~StatusUpdate
        BY <4>2, <1>0, StatusFrame DEF SyncStatus
      <4> QED
        BY <4>1, <4>2
    <3> QED
      BY <2>3, <2>4, <3>1 DEF HeardInv
  <2>5. ASSUME ~At("idle")', work'.task = t, work'.snap.phase = "AwaitingRevision" PROVE Ended(t)
    <3>1. CASE work' = work \/ MovesOn
      BY <2>5, <3>1 DEF MovesOn, At, HeardInv
    <3>2. CASE work' = Idle
      BY <2>5, <3>2, IdleTyped DEF At
    <3>3. ASSUME NEW u \in Tasks, Reconcile(u) PROVE Ended(t)
      <4>1. u = t /\ work'.snap = cache[t]
        BY <2>5, <3>3, IdleTyped DEF Reconcile, Works
      <4> QED
        BY <2>5, <4>1 DEF HeardInv
    <3> QED
      BY <1>0, <3>1, <3>2, <3>3, CallMoves
  <2> QED
    BY <2>1, <2>2, <2>3, <2>4, <2>5
<1> QED
  BY <1>1, <1>2

LEMMA HeardCalls ==
  ASSUME OwnNamespaces, "podLag" \notin Faults, "ignoredError" \notin Faults, PodsInv, HeardInv, [Next]_vars,
         NEW t \in Tasks, work'.fresh, work'.task = t
  PROVE  CallHeard(t)'
<1>0. /\ Inv /\ HomeInv /\ work \in Works /\ work.task \in Tasks /\ work.next \in Status /\ work.snap \in Status
      /\ Sandbox = NsOf[work.task] /\ StepKnows(work)
  BY WorkTyped DEF PodsInv, ReadInv, Inv, TypeOK, CallInv, Sandbox, taskNamespace, Task
<1>1. ASSUME ~ensurePod
      PROVE  /\ Ended(t) => Ended(t)'
             /\ Passed(t) => Passed(t)'
             /\ Quiet(t) => Quiet(t)'
             /\ thread[t] = "none" /\ Quiet(t) => thread'[t] = "none"
  BY <1>0, <1>1, Steady, StaysEnded, QuietIsSilent, SilenceStays
<1>2. CASE work' = work
  <2>1. ~ensurePod
    BY <1>2, <1>0, Creation
  <2>2. CallHeard(t)
    BY <1>2 DEF HeardInv
  <2> QED
    BY <1>1, <1>2, <2>1, <2>2 DEF CallHeard
<1>3. CASE work' = Idle
  BY <1>3 DEF Idle
<1>4. ASSUME NEW u \in Tasks, Reconcile(u) PROVE CallHeard(t)'
  <2>1. work'.step = FirstStep(u, cache[u])
    BY <1>4, IdleTyped DEF Reconcile, Works
  <2>2. work'.step \notin {"findPR", "listPRFiles", "rejectComment", "rejectClose", "findLink", "prComment", "clarification",
                           "deleteNamespace", "statusUpdate"}
    BY <2>1 DEF FirstStep
  <2> QED
    BY <2>2 DEF CallHeard
<1>5. CASE MovesOn
  <2>0. work.task = t /\ work.fresh /\ CallHeard(t) /\ work'.snap = work.snap
    BY <1>5 DEF MovesOn, HeardInv
  <2>g. ASSUME NEW x, Goto(x) PROVE work'.step = x
    BY <1>0, <2>g DEF Goto, Works
  <2>w. ASSUME NEW s, Write(s) \/ DeleteThenWrite(s)
        PROVE  work'.step \in {"deleteNamespace", "statusUpdate"} /\ work'.next = s
    BY <1>0, <2>w DEF Write, DeleteThenWrite, Works
  <2>p. /\ [Snap EXCEPT !.phase = "Running"].phase = "Running"
        /\ [Snap EXCEPT !.phase = "BlockedOnClarification"].phase = "BlockedOnClarification"
        /\ markFailed(Snap).phase = "Failed"
    BY <1>0 DEF Snap, Status, markFailed
  \* The step that looks at the pods.
  <2>1. CASE reconcileActivePod
    <3> DEFINE ph == getPod(PodView(Sandbox)).phase
    <3>1. ph = IF Revision(t) # "none" THEN Revision(t) ELSE Agent(t)
      BY <1>0, <2>0 DEF getPod, PodView, Revision, Agent
    <3>2. ~ensurePod /\ OnPod(ph)
      BY <2>1 DEF reconcileActivePod, ensurePod, At, MayHaveNoEffect
    <3> HIDE DEF ph
    <3>4. CASE ph = "Succeeded"
      <4>1. work'.step = "findPR"
        BY <3>2, <2>g, <3>4 DEF OnPod
      <4>2. Passed(t)
        BY <3>1, <3>4 DEF HeardInv, Passed, Ended
      <4> QED
        BY <4>1, <4>2, <3>2, <1>1 DEF CallHeard
    <3>5. CASE ph = "Failed"
      <4>1. work'.step = "clarification"
        BY <3>2, <2>g, <3>5 DEF OnPod
      <4>2. Quiet(t)
        BY <3>1, <3>5 DEF HeardInv, Ended, Quiet, Live
      <4> QED
        BY <4>1, <4>2, <3>2, <1>1 DEF CallHeard
    <3>6. CASE ph \notin {"Succeeded", "Failed"}
      <4>1. Return \/ Write([Snap EXCEPT !.phase = "Running"])
        BY <3>2, <3>6 DEF OnPod
      <4>2. work' = Idle \/ (work'.step \in {"deleteNamespace", "statusUpdate"} /\ work'.next.phase = "Running")
        BY <4>1, <2>w, <2>p DEF Return
      <4> QED
        BY <1>3, <4>2 DEF CallHeard
    <3> QED
      BY <3>4, <3>5, <3>6
  <2>2. CASE hasRecentClarificationComment
    <3>1. work.step = "clarification" /\ ~ensurePod
      BY <2>2 DEF hasRecentClarificationComment, ensurePod, At
    <3>2. /\ work'.step \in {"deleteNamespace", "statusUpdate"}
          /\ work'.next.phase = "BlockedOnClarification" \/ (work'.next.phase = "Failed" /\ thread[t] = "none")
      BY <2>0, <2>2, <2>w, <2>p DEF hasRecentClarificationComment, MayHaveNoEffect, clarified, Task
    <3> QED
      BY <3>1, <3>2, <2>0, <1>1 DEF CallHeard
  <2>3. CASE findPR \/ listPRFiles \/ rejectComment \/ rejectClose \/ findLink \/ prComment
    <3>1. /\ work.step \in {"findPR", "listPRFiles", "rejectComment", "rejectClose", "findLink", "prComment"}
          /\ ~ensurePod
      BY <2>3 DEF findPR, listPRFiles, rejectComment, rejectClose, findLink, prComment, ensurePod, At
    <3>2. Passed(t)' /\ Ended(t)'
      BY <3>1, <2>0, <1>1 DEF CallHeard, Passed
    <3>3. work'.step # "clarification"
      BY <1>0, <2>3, <2>g, <2>w DEF findPR, listPRFiles, rejectComment, rejectClose, findLink, prComment, evaluateDiff, Works
    <3> QED
      BY <3>2, <3>3 DEF CallHeard
  <2>4. CASE deleteNamespace
    <3>1. work.step = "deleteNamespace" /\ ~ensurePod /\ work'.step = "statusUpdate" /\ work'.next = work.next
      BY <1>0, <2>4 DEF deleteNamespace, ensurePod, At, Goto, Works
    <3> QED
      BY <3>1, <2>0, <1>1 DEF CallHeard
  <2>5. CASE ~(\/ reconcileActivePod \/ hasRecentClarificationComment \/ findPR \/ listPRFiles \/ rejectComment
               \/ rejectClose \/ findLink \/ prComment \/ deleteNamespace)
    <3>1. work'.step \notin {"findPR", "listPRFiles", "rejectComment", "rejectClose", "findLink", "prComment", "clarification"}
      BY <1>0, <1>5, <2>5, IdleTyped
      DEF MovesOn, Continue, StatusUpdate, ensureNamespace, ensureNetworkPolicy, ensureTaskSecret, ensurePod,
          CreateForbidden, isPRMergedOrClosed, prHasLabel, removePRLabel,
          deleteRevisionPod, humanRepliedAfterClarification, ttlDelete,
          Goto, Write, DeleteThenWrite, Return, Works
    <3>2. work'.step \in {"deleteNamespace", "statusUpdate"}
            => \/ work'.next.phase \notin {"AwaitingReview", "Failed"}
               \/ work.snap.phase = "Failed" /\ work'.next.phase = "Failed"
      BY <1>0, <1>5, <2>5, Settles DEF ttlDelete, At, StepKnows
    <3> QED
      BY <2>0, <3>1, <3>2 DEF CallHeard
  <2> QED
    BY <2>1, <2>2, <2>3, <2>4, <2>5
<1> QED
  BY <1>0, <1>2, <1>3, <1>4, <1>5, CallMoves

\* An agent's question is not lost: a task whose agent failed after asking is not
\* given up, although the comments are read several calls before the write.
THEOREM ClarificationsHeard ==
  ASSUME OwnNamespaces, "podLag" \notin Faults, "ignoredError" \notin Faults
  PROVE  Spec => ClarificationIsHeard
<1>1. Init => HeardInv
  <2> SUFFICES ASSUME Init, NEW t \in Tasks PROVE Ended(t) /\ work.step = "idle" /\ ~work.fresh
    BY DEF HeardInv, At
  <2>1. pods[NsOf[t]]["agent"].phase = "none"
    BY NoPodTyped DEF Init, PodNames
  <2> QED
    BY <2>1, IdleTyped DEF Init, Ended, Agent, Idle
<1>2. PodsInv /\ HeardInv /\ [Next]_vars => HeardInv'
  <2> SUFFICES ASSUME PodsInv, HeardInv, [Next]_vars PROVE HeardInv'
    OBVIOUS
  <2>1. ASSUME NEW t \in Tasks
        PROVE  /\ Revision(t)' # "none" \/ status'[t].phase \in {"AwaitingReview", "AwaitingRevision"}
                    \/ cache'[t].phase = "AwaitingRevision" => Ended(t)'
               /\ ~At("idle")' /\ work'.task = t /\ work'.snap.phase = "AwaitingRevision" => Ended(t)'
    BY HeardPhases
  <2>2. ASSUME NEW t \in Tasks, work'.fresh, work'.task = t PROVE CallHeard(t)'
    BY <2>2, HeardCalls
  <2> QED
    BY <2>1, <2>2 DEF HeardInv
<1>3. PodsInv /\ HeardInv /\ [Next]_vars
        => [\A t \in Tasks :
              /\ status[t].phase \in Active /\ status'[t].phase = "Failed"
              /\ getPod(pods[taskNamespace(t)]).phase = "Failed"
              => thread[t] = "none"]_vars
  <2> SUFFICES ASSUME PodsInv, HeardInv, [Next]_vars, NEW t \in Tasks,
                      status[t].phase \in Active, status'[t].phase = "Failed",
                      getPod(pods[taskNamespace(t)]).phase = "Failed"
               PROVE  thread[t] = "none"
    OBVIOUS
  <2>0. /\ Inv /\ work.task \in Tasks /\ status \in [Tasks -> Status]
        /\ ~At("idle") /\ work.fresh => work.snap = status[work.task]
    BY WorkTyped DEF PodsInv, ReadInv, Inv, TypeOK, CallInv
  <2>1. /\ StatusUpdate /\ ~Conflicts /\ work.step = "statusUpdate"
        /\ t = work.task /\ status'[t] = work.next
    BY <2>0, StatusFrame DEF StatusUpdate, Task, At, Active
  <2>2. work.snap = status[t] /\ CallHeard(t)
    BY <2>0, <2>1 DEF HeardInv, Conflicts, At
  <2>3. ~Passed(t)
    BY DEF getPod, taskNamespace, Passed, Ended, Agent, Revision
  <2> QED
    BY <2>1, <2>2, <2>3 DEF CallHeard, Active
<1> QED
  BY <1>1, <1>2, <1>3, PodsInvariant, PTL DEF Spec, ClarificationIsHeard

=============================================================================
