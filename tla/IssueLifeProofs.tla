---------------------------- MODULE IssueLifeProofs ----------------------------
(***************************************************************************)
(* Proofs about the life of an issue: for any number of comments, triage   *)
(* jobs and failing calls.  Where a property needs the thread to fit the   *)
(* one page the operator reads, one triage job at a time, or people who    *)
(* leave the pipeline's own markers to it, its theorem says so.            *)
(***************************************************************************)
EXTENDS IssueLife, TLAPS

USE AppAssumption, PageAssumption, OthersAssumption

-----------------------------------------------------------------------------
(* The thread                                                              *)

\* What the operator reads is the beginning of the thread.
LEMMA Page ==
  ASSUME comments \in Seq(Comments)
  PROVE  /\ listComments \in Seq(Comments)
         /\ Len(listComments) = IF Len(comments) < PageSize THEN Len(comments) ELSE PageSize
         /\ \A i \in DOMAIN listComments : i \in DOMAIN comments /\ listComments[i] = comments[i]
  BY DEF listComments

LEMMA PlanTyped == \A v \in Verdicts : Plan(v) \in {"safePlan", "riskyPlan", "clarificationNeeded"}
  BY DEF Plan, Verdicts

\* A step leaves the thread alone or adds one comment, of an author who may.
PostStep(c) ==
    /\ comments' = Append(comments, c) /\ Len(comments) < MaxComments
    /\ \/ c.by = "triage" /\ \E j \in Jobs : CommentPlan(j) /\ c.kind = Plan(job[j].verdict)
       \/ c.by = "operator" /\ c.kind = "link" /\ postLink
       \/ c.by = "agent" /\ c.kind \in {"clarification", "link"} /\ agent = "Running"
       \/ c.by \in {"maintainer", "stranger"} /\ c.kind \in OthersPost

LEMMA ThreadGrows ==
  ASSUME TypeOK, [Next]_vars
  PROVE  comments' = comments \/ \E c \in Comments : PostStep(c)
<1>0. job \in [Jobs -> JobState] /\ \A j \in Jobs : job[j].verdict \in Verdicts
  BY DEF TypeOK, JobState
<1>1. ASSUME NEW by \in Authors, NEW kind \in Kinds, Post(by, kind),
             \/ by = "triage" /\ \E j \in Jobs : CommentPlan(j) /\ kind = Plan(job[j].verdict)
             \/ by = "operator" /\ kind = "link" /\ postLink
             \/ by = "agent" /\ kind \in {"clarification", "link"} /\ agent = "Running"
             \/ by \in {"maintainer", "stranger"} /\ kind \in OthersPost
      PROVE  \E c \in Comments : PostStep(c)
  <2> DEFINE c == [by |-> by, kind |-> kind]
  <2>1. c \in Comments /\ c.by = by /\ c.kind = kind
    BY DEF Comments
  <2>2. comments' = Append(comments, c) /\ Len(comments) < MaxComments
    BY <1>1 DEF Post
  <2> HIDE DEF c
  <2>3. PostStep(c)
    BY <1>1, <2>1, <2>2 DEF PostStep
  <2> QED
    BY <2>1, <2>3
<1>2. ASSUME NEW j \in Jobs, CommentPlan(j) PROVE \E c \in Comments : PostStep(c)
  <2>1. Plan(job[j].verdict) \in Kinds /\ "triage" \in Authors
    BY <1>0, PlanTyped DEF Kinds, Authors, Pipeline
  <2> QED
    BY <1>1, <1>2, <2>1 DEF CommentPlan
<1>3. CASE postLink
  BY <1>1, <1>3 DEF postLink, Kinds, Authors, Pipeline
<1>4. ASSUME NEW kind \in {"clarification", "link"}, AgentComments(kind) PROVE \E c \in Comments : PostStep(c)
  BY <1>1, <1>4 DEF AgentComments, Kinds, Authors, Pipeline
<1>5. ASSUME NEW by \in {"maintainer", "stranger"}, NEW kind \in OthersPost, Comment(by, kind)
      PROVE  \E c \in Comments : PostStep(c)
  BY <1>1, <1>5 DEF Comment, Authors
<1>6. CASE TriageNext
  BY <1>2, <1>6 DEF TriageNext, ListIssues, Guard, RemoveLabel, AddLabel, CutShort, Approve, Retriage
<1>7. CASE Operator
  BY <1>3, <1>7 DEF Operator, reconcileActivePod, StatusUpdate, rejectComment, rejectClose, findLink, replied, Resume,
     tvars
<1> QED
  BY <1>4, <1>5, <1>6, <1>7 DEF Next, PollerCreates, Abort, listCommentsFails, AgentPushes, PodEnds, Revise, Completes,
     vars, tvars

\* One more comment is one more place in the thread.
LEMMA Appended ==
  ASSUME comments \in Seq(Comments), NEW c \in Comments, comments' = Append(comments, c)
  PROVE  /\ Len(comments) \in Nat /\ Len(comments') = Len(comments) + 1
         /\ DOMAIN comments = 1 .. Len(comments) /\ DOMAIN comments' = 1 .. Len(comments) + 1
         /\ \A i \in DOMAIN comments : comments'[i] = comments[i]
         /\ comments'[Len(comments) + 1] = c
  OBVIOUS

LEMMA PostedGrows ==
  ASSUME comments \in Seq(Comments), NEW c \in Comments, comments' = Append(comments, c), NEW by, NEW kind
  PROVE  Posted(by, kind)' = Posted(by, kind) \cup
           (IF c.by = by /\ c.kind = kind THEN {Len(comments) + 1} ELSE {})
<1> DEFINE n == Len(comments)
<1>1. /\ n \in Nat /\ DOMAIN comments = 1 .. n /\ DOMAIN comments' = 1 .. n + 1
      /\ (\A i \in 1 .. n : comments'[i] = comments[i]) /\ comments'[n + 1] = c
  BY Appended
<1>2. DOMAIN comments' = DOMAIN comments \cup {n + 1} /\ n + 1 \notin DOMAIN comments
  BY <1>1
<1> HIDE DEF n
<1> QED
  BY <1>1, <1>2 DEF Posted, n

-----------------------------------------------------------------------------
(* Types, and what a call of the operator knows                            *)

\* A call is about a task in the phase it set out from; a blocked task's pod is
\* gone; a rejection has been announced before the close, and a second one only
\* after a failure, as Failed is the end.
CallInv ==
    /\ step \notin {"idle", "resume"} => phase = "Active"
    /\ step = "resume" => phase = "BlockedOnClarification"
    /\ phase = "BlockedOnClarification" => agent = "none"
    /\ pr = "rejected" \/ step = "rejectClose" => rejections > 0
    /\ \/ rejections <= aborts
       \/ rejections = aborts + 1 /\ (step \in {"rejectClose", "fail"} \/ phase = "Failed")

Inv == TypeOK /\ CallInv

LEMMA Initially == Init => Inv
<1> SUFFICES ASSUME Init PROVE Inv
  OBVIOUS
<1>1. comments \in Seq(Comments) /\ Len(comments) = 0
  BY DEF Init, TriageInit
<1>2. job \in [Jobs -> JobState] /\ labels \subseteq Labels
  BY DEF Init, TriageInit, JobState, NoJob, JobSteps, Verdicts, Labels
<1>3. approved \in BOOLEAN
  BY DEF Init, TriageInit
<1>4. /\ resumed \in BOOLEAN /\ recorded \in BOOLEAN /\ phase \in Phases /\ agent = "none" /\ pr = "none"
      /\ rejections = 0 /\ step = "idle" /\ step \in Steps /\ aborts = 0 /\ phase = "absent"
  BY DEF Init, Phases, Steps
<1> QED
  BY <1>1, <1>2, <1>3, <1>4 DEF Inv, TypeOK, CallInv

LEMMA ThreadTyped ==
  ASSUME TypeOK, [Next]_vars
  PROVE  comments' \in Seq(Comments) /\ Len(comments') <= MaxComments
<1>1. comments \in Seq(Comments) /\ Len(comments) \in Nat /\ Len(comments) <= MaxComments
  BY DEF TypeOK
<1>2. ASSUME NEW c \in Comments, PostStep(c) PROVE comments' \in Seq(Comments) /\ Len(comments') <= MaxComments
  BY <1>1, <1>2 DEF PostStep
<1> QED
  BY <1>1, <1>2, ThreadGrows

\* Triage leaves the task alone, and its own variables well typed.
LEMMA TriageTyped ==
  ASSUME TypeOK, TriageNext
  PROVE  labels' \subseteq Labels /\ job' \in [Jobs -> JobState] /\ approved' \in BOOLEAN
<1>0. /\ labels \subseteq Labels /\ job \in [Jobs -> JobState] /\ approved \in BOOLEAN
      /\ NoJob \in JobState
  BY DEF TypeOK, NoJob, JobState, JobSteps, Verdicts
<1>1. ASSUME NEW j \in Jobs, NEW s \in JobSteps, Goto(j, s) PROVE job' \in [Jobs -> JobState]
  BY <1>0, <1>1 DEF Goto, JobState
<1>2. ASSUME NEW j \in Jobs, NEW s \in JobState, job' = [job EXCEPT ![j] = s] PROVE job' \in [Jobs -> JobState]
  BY <1>0, <1>2
<1>3. ASSUME NEW j \in Jobs, Guard(j) PROVE job' \in [Jobs -> JobState]
  <2>1. CASE job' = [job EXCEPT ![j] = NoJob]
    BY <1>0, <1>2, <2>1
  <2>2. ASSUME NEW v \in Verdicts, job' = [job EXCEPT ![j] = [step |-> "removeLabel", verdict |-> v]]
        PROVE  job' \in [Jobs -> JobState]
    <3>1. [step |-> "removeLabel", verdict |-> v] \in JobState
      BY DEF JobState, JobSteps
    <3> QED
      BY <1>2, <2>2, <3>1
  <2> QED
    BY <1>3, <2>1, <2>2 DEF Guard, decide
<1>4. {"guard", "comment", "addLabel"} \subseteq JobSteps
  BY DEF JobSteps
<1>5. ASSUME NEW j \in Jobs PROVE outcome(job[j].verdict) \in Labels
  BY <1>0 DEF outcome, Labels, JobState, Verdicts
<1>6. ASSUME NEW j \in Jobs,
             ListIssues(j) \/ Guard(j) \/ RemoveLabel(j) \/ CommentPlan(j) \/ AddLabel(j) \/ CutShort(j)
      PROVE  labels' \subseteq Labels /\ job' \in [Jobs -> JobState] /\ approved' \in BOOLEAN
  <2>1. job' \in [Jobs -> JobState]
    BY <1>0, <1>1, <1>2, <1>3, <1>4, <1>6 DEF ListIssues, RemoveLabel, CommentPlan, AddLabel, CutShort
  <2>2. labels' \subseteq Labels
    BY <1>0, <1>5, <1>6 DEF ListIssues, Guard, RemoveLabel, CommentPlan, AddLabel, CutShort
  <2>3. approved' \in BOOLEAN
    BY <1>0, <1>6 DEF ListIssues, Guard, RemoveLabel, CommentPlan, AddLabel, CutShort
  <2> QED
    BY <2>1, <2>2, <2>3
<1>7. CASE Approve \/ Retriage
  BY <1>0, <1>7 DEF Approve, Retriage, Labels
<1> QED
  BY <1>6, <1>7 DEF TriageNext

LEMMA Stays == Inv /\ [Next]_vars => Inv'
<1> SUFFICES ASSUME Inv, [Next]_vars PROVE Inv'
  OBVIOUS
<1>1. comments' \in Seq(Comments) /\ Len(comments') <= MaxComments
  BY ThreadTyped DEF Inv
<1>2. labels' \subseteq Labels /\ job' \in [Jobs -> JobState] /\ approved' \in BOOLEAN
  <2>1. CASE TriageNext
    BY <2>1, TriageTyped DEF Inv
  <2>2. CASE UNCHANGED <<labels, job, approved>>
    BY <2>2 DEF Inv, TypeOK
  <2> QED
    BY <2>1, <2>2 DEF Next, Operator, PollerCreates, reconcileActivePod, StatusUpdate, rejectComment, rejectClose,
       findLink, postLink, replied, Resume, Abort, listCommentsFails, AgentComments, AgentPushes, PodEnds, Revise,
       Completes, Comment, vars, tvars
\* The task's variables, action by action.
<1> DEFINE TaskTyped ==
             /\ resumed' \in BOOLEAN /\ recorded' \in BOOLEAN /\ phase' \in Phases
             /\ agent' \in {"none", "Running", "Succeeded", "Failed"}
             /\ pr' \in {"none", "clean", "violating", "rejected", "closed"}
             /\ rejections' \in 0 .. MaxAborts + 1 /\ step' \in Steps /\ aborts' \in 0 .. MaxAborts
<1>3. ASSUME UNCHANGED taskVars PROVE TaskTyped /\ CallInv'
  BY <1>3 DEF Inv, TypeOK, CallInv, taskVars
<1>4. ASSUME PollerCreates PROVE TaskTyped /\ CallInv'
  BY <1>4 DEF PollerCreates, Spawn, Inv, TypeOK, CallInv, Phases
<1>5. ASSUME reconcileActivePod PROVE TaskTyped /\ CallInv'
  BY <1>5 DEF reconcileActivePod, Goes, Inv, TypeOK, CallInv, Steps
<1>6. ASSUME StatusUpdate PROVE TaskTyped /\ CallInv'
  BY <1>6 DEF StatusUpdate, Goes, Inv, TypeOK, CallInv, Steps, Phases
<1>7. ASSUME rejectComment PROVE TaskTyped /\ CallInv'
  BY <1>7 DEF rejectComment, Goes, Inv, TypeOK, CallInv, Steps
<1>8. ASSUME rejectClose PROVE TaskTyped /\ CallInv'
  BY <1>8 DEF rejectClose, Goes, Inv, TypeOK, CallInv, Steps
<1>9. ASSUME findLink PROVE TaskTyped /\ CallInv'
  BY <1>9 DEF findLink, Goes, Inv, TypeOK, CallInv, Steps
<1>10. ASSUME postLink PROVE TaskTyped /\ CallInv'
  BY <1>10 DEF postLink, Goes, Inv, TypeOK, CallInv, Steps
<1>11. ASSUME replied \/ Resume PROVE TaskTyped /\ CallInv'
  BY <1>11 DEF replied, Resume, Spawn, Goes, Inv, TypeOK, CallInv, Steps, Phases
<1>12. ASSUME Abort \/ listCommentsFails PROVE TaskTyped /\ CallInv'
  BY <1>12 DEF Abort, listCommentsFails, Goes, Inv, TypeOK, CallInv, Steps
<1>13. ASSUME AgentPushes("clean") \/ AgentPushes("violating") \/ PodEnds("Succeeded") \/ PodEnds("Failed") PROVE TaskTyped /\ CallInv'
  BY <1>13 DEF AgentPushes, PodEnds, Inv, TypeOK, CallInv
<1>14. ASSUME Revise \/ Completes PROVE TaskTyped /\ CallInv'
  BY <1>14 DEF Revise, Completes, Spawn, Inv, TypeOK, CallInv, Phases
<1>15. TaskTyped /\ CallInv'
  BY <1>3, <1>4, <1>5, <1>6, <1>7, <1>8, <1>9, <1>10, <1>11, <1>12, <1>13, <1>14
  DEF Next, Operator, AgentComments, Comment, vars
<1> QED
  BY <1>1, <1>2, <1>15 DEF Inv, TypeOK

LEMMA Invariant == Spec => []Inv
  BY Initially, Stays, PTL DEF Spec

\* Comments, labels and the task's variables have their types, and the counters
\* their bounds, for any number of jobs.
THEOREM IssueTyped == Spec => []TypeOK
<1>1. Inv => TypeOK
  BY DEF Inv
<1> QED
  BY <1>1, Invariant, PTL

\* The rejection comment comes before the close, and again only after a failure.
THEOREM RejectionsExplained == Spec => []RejectionIsExplained
<1>1. Inv => RejectionIsExplained
  BY DEF Inv, TypeOK, CallInv, RejectionIsExplained
<1> QED
  BY <1>1, Invariant, PTL

-----------------------------------------------------------------------------
(* Triage                                                                  *)

\* The CronJob's job is the only one: nobody runs `make triage` beside it.
OneJob == \A i, j \in Jobs : i = j

\* Triage's comments are the ones its guard looks for; a job that has passed the
\* guard and not commented yet does not follow a comment of triage's.
TurnInv ==
    /\ \A i \in DOMAIN comments :
         comments[i].by = "triage" => comments[i].kind \in {"safePlan", "riskyPlan", "clarificationNeeded"}
    /\ \A j \in Jobs : job[j].step \in {"removeLabel", "comment"} /\ Len(comments) > 0
         => comments[Len(comments)].by # "triage"
    /\ TriageDoesNotRepeat

\* A job's steps up to its comment, taken one after the other.
LEMMA JobMoves ==
  ASSUME Inv, [Next]_vars, NEW j \in Jobs, job'[j].step \in {"removeLabel", "comment"}
  PROVE  \/ job'[j] = job[j]
         \/ Guard(j) /\ ~lastByAgent
         \/ job[j].step = "removeLabel"
<1>0. job \in [Jobs -> JobState] /\ job[j] \in JobState
  BY DEF Inv, TypeOK
<1>1. ASSUME NEW k \in Jobs,
             ListIssues(k) \/ Guard(k) \/ RemoveLabel(k) \/ CommentPlan(k) \/ AddLabel(k) \/ CutShort(k)
      PROVE  job'[j] = job[j] \/ (Guard(j) /\ ~lastByAgent) \/ job[j].step = "removeLabel"
  <2>1. CASE k # j
    <3>1. \E v : job' = [job EXCEPT ![k] = v]
      BY <1>1 DEF ListIssues, Guard, decide, RemoveLabel, CommentPlan, AddLabel, CutShort, Goto
    <3> QED
      BY <1>0, <2>1, <3>1
  <2>2. CASE k = j
    <3>1. ASSUME NEW s, Goto(j, s) PROVE job'[j].step = s
      BY <1>0, <3>1 DEF Goto, JobState
    <3>2. job' = [job EXCEPT ![j] = NoJob] => job'[j].step = "idle"
      BY <1>0 DEF NoJob
    <3> QED
      BY <1>1, <2>2, <3>1, <3>2 DEF ListIssues, Guard, decide, RemoveLabel, CommentPlan, AddLabel, CutShort, At
  <2> QED
    BY <2>1, <2>2
<1>2. CASE TriageNext
  BY <1>1, <1>2 DEF TriageNext, Approve, Retriage
<1> QED
  BY <1>2 DEF Next, Operator, PollerCreates, reconcileActivePod, StatusUpdate, rejectComment, rejectClose,
     findLink, postLink, replied, Resume, Abort, listCommentsFails, AgentComments, AgentPushes, PodEnds, Revise,
     Completes, Comment, vars, tvars

LEMMA TurnStep == ASSUME OneJob, Inv, TurnInv, [Next]_vars PROVE TurnInv'
<1>0. /\ TypeOK /\ comments \in Seq(Comments) /\ Len(comments) \in Nat /\ DOMAIN comments = 1 .. Len(comments)
      /\ job \in [Jobs -> JobState] /\ \A j \in Jobs : job[j].verdict \in Verdicts /\ job[j] \in JobState
  BY DEF Inv, TypeOK, JobState
\* The last comment when a job has just passed the guard.
<1>1. ~lastByAgent /\ Len(comments) > 0 => comments[Len(comments)].by # "triage"
  BY <1>0 DEF lastByAgent, Last, TurnInv
<1>2. CASE comments' = comments
  <2>1. ASSUME NEW j \in Jobs, job'[j].step \in {"removeLabel", "comment"}, Len(comments) > 0
        PROVE  comments[Len(comments)].by # "triage"
    BY <1>1, <2>1, JobMoves DEF TurnInv
  <2> QED
    BY <1>2, <2>1 DEF TurnInv, TriageDoesNotRepeat
<1>3. ASSUME NEW c \in Comments, PostStep(c) PROVE TurnInv'
  <2> DEFINE n == Len(comments)
  <2>1. /\ n \in Nat /\ Len(comments') = n + 1 /\ DOMAIN comments' = 1 .. n + 1
        /\ (\A i \in 1 .. n : comments'[i] = comments[i]) /\ comments'[n + 1] = c
    BY <1>0, <1>3, Appended DEF PostStep
  <2> HIDE DEF n
  <2>2. c.by = "triage" => /\ c.kind \in {"safePlan", "riskyPlan", "clarificationNeeded"}
                           /\ \E j \in Jobs : CommentPlan(j)
    BY <1>0, <1>3, PlanTyped DEF PostStep
  <2>3. \A i \in DOMAIN comments' :
          comments'[i].by = "triage" => comments'[i].kind \in {"safePlan", "riskyPlan", "clarificationNeeded"}
    BY <1>0, <2>1, <2>2 DEF TurnInv, n
  <2>4. ASSUME c.by = "triage", n > 0 PROVE comments[n].by # "triage"
    BY <2>2, <2>4 DEF CommentPlan, At, TurnInv, n
  <2>5. TriageDoesNotRepeat'
    <3> SUFFICES ASSUME NEW i \in 1 .. n PROVE ~(comments'[i].by = "triage" /\ comments'[i + 1].by = "triage")
      BY <2>1 DEF TriageDoesNotRepeat
    <3>1. CASE i = n
      BY <2>1, <2>4, <3>1
    <3>2. CASE i < n
      BY <2>1, <3>2 DEF TurnInv, TriageDoesNotRepeat, n
    <3> QED
      BY <2>1, <3>1, <3>2
  <2>6. ASSUME NEW j \in Jobs, job'[j].step \in {"removeLabel", "comment"} PROVE c.by # "triage"
    <3>1. ASSUME NEW k \in Jobs, CommentPlan(k) PROVE FALSE
      <4>1. k = j /\ job' = [job EXCEPT ![j].step = "addLabel"]
        BY <3>1 DEF OneJob, CommentPlan, Goto
      <4> QED
        BY <1>0, <2>6, <4>1 DEF JobState
    <3> QED
      BY <2>2, <3>1
  <2> QED
    BY <2>1, <2>3, <2>5, <2>6 DEF TurnInv
<1> QED
  BY <1>0, <1>2, <1>3, ThreadGrows

\* With one job at a time, triage does not comment twice in a row, wherever its
\* deadline ends a job and whoever hands the issue back.
THEOREM TriageTakesTurns ==
  ASSUME OneJob
  PROVE  Spec => []TriageDoesNotRepeat
<1>1. Init => TurnInv
  <2> SUFFICES ASSUME Init PROVE TurnInv
    OBVIOUS
  <2>1. comments = <<>> /\ Len(comments) = 0 /\ DOMAIN comments = {}
    BY DEF Init, TriageInit
  <2> QED
    BY <2>1 DEF TurnInv, TriageDoesNotRepeat
<1>2. Inv /\ TurnInv /\ [Next]_vars => TurnInv'
  BY TurnStep
<1>3. TurnInv => TriageDoesNotRepeat
  BY DEF TurnInv
<1> QED
  BY <1>1, <1>2, <1>3, Invariant, PTL DEF Spec

-----------------------------------------------------------------------------
(* The plan gate                                                           *)

HasLatest == \E i \in Plans : \A k \in Plans : k <= i

\* The labels follow the job's steps; a label that lets the task start, or may be
\* turned into one by a maintainer, comes with a plan.
GateInv ==
    /\ \A j \in Jobs :
         /\ job[j].step \in {"guard", "removeLabel"} => labels = {"needs-triage"}
         /\ job[j].step \in {"comment", "addLabel"} => labels = {}
         /\ job[j].step = "addLabel" /\ job[j].verdict # "unclear" => HasLatest
         /\ job[j].step = "addLabel" /\ job[j].verdict = "safe" => PlanIsCleared
    /\ "needs-triage" \in labels => labels = {"needs-triage"}
    /\ "needs-plan-review" \in labels => HasLatest
    /\ "ready-for-development" \in labels => PlanIsCleared

\* Only triage writes plans.
LEMMA PlansKept ==
  ASSUME TypeOK, [Next]_vars, \A j \in Jobs : ~CommentPlan(j)
  PROVE  /\ HasLatest => HasLatest'
         /\ PlanIsCleared /\ (approved => approved') => PlanIsCleared'
         /\ HasLatest /\ approved' => PlanIsCleared'
<1>0. comments \in Seq(Comments)
  BY DEF TypeOK
<1>1. Plans' = Plans /\ \A i \in Plans : comments'[i] = comments[i]
  <2>1. CASE comments' = comments
    BY <2>1 DEF Plans, Posted
  <2>2. ASSUME NEW c \in Comments, PostStep(c)
        PROVE  Plans' = Plans /\ \A i \in Plans : comments'[i] = comments[i]
    <3>1. c.by # "triage" /\ comments' = Append(comments, c)
      BY <2>2 DEF PostStep
    <3>2. Plans' = Plans
      BY <1>0, <3>1, PostedGrows DEF Plans
    <3>3. Plans \subseteq DOMAIN comments
      BY DEF Plans, Posted
    <3> QED
      BY <1>0, <3>1, <3>2, <3>3, Appended
  <2> QED
    BY <2>1, <2>2, ThreadGrows
<1> QED
  BY <1>1 DEF HasLatest, PlanIsCleared

\* What triage has just written is the latest plan.
LEMMA PlanPosted ==
  ASSUME TypeOK, NEW j \in Jobs, CommentPlan(j), job[j].verdict # "unclear"
  PROVE  HasLatest' /\ (job[j].verdict = "safe" => PlanIsCleared')
<1> DEFINE kind == Plan(job[j].verdict)
           c == [by |-> "triage", kind |-> kind]
           n == Len(comments)
<1>0. comments \in Seq(Comments) /\ job[j].verdict \in Verdicts
  BY DEF TypeOK, JobState
<1>1. kind \in {"safePlan", "riskyPlan"} /\ (job[j].verdict = "safe" => kind = "safePlan")
  BY <1>0 DEF Plan, Verdicts
<1>2. comments' = Append(comments, c)
  BY DEF CommentPlan, Post
<1>3. c \in Comments /\ c.by = "triage" /\ c.kind = kind
  BY <1>1 DEF Comments, Authors, Pipeline, Kinds
<1> HIDE DEF c, kind
<1>4. /\ n \in Nat /\ DOMAIN comments' = 1 .. n + 1 /\ comments'[n + 1] = c
  BY <1>0, <1>2, <1>3, Appended
<1>5. n + 1 \in Plans' /\ \A k \in Plans' : k <= n + 1
  BY <1>1, <1>3, <1>4 DEF Plans, Posted
<1> HIDE DEF n
<1> QED
  BY <1>1, <1>3, <1>4, <1>5 DEF HasLatest, PlanIsCleared

LEMMA GateStep == ASSUME Patient, OneJob, Inv, GateInv, [Next]_vars PROVE GateInv'
<1>0. /\ TypeOK /\ job \in [Jobs -> JobState] /\ labels \subseteq Labels
      /\ \A j \in Jobs : job[j] \in JobState /\ job[j].verdict \in Verdicts
  BY DEF Inv, TypeOK, JobState
<1>g. ASSUME NEW j \in Jobs, NEW s, Goto(j, s) PROVE job'[j].step = s /\ job'[j].verdict = job[j].verdict
  BY <1>0, <1>g DEF Goto, JobState
<1>n. ASSUME NEW j \in Jobs, job' = [job EXCEPT ![j] = NoJob] PROVE job'[j].step = "idle"
  BY <1>0, <1>n DEF NoJob
<1>1. CASE UNCHANGED <<labels, job, approved>>
  <2>1. \A j \in Jobs : ~CommentPlan(j)
    BY <1>1, <1>g DEF CommentPlan, At
  <2>2. (HasLatest => HasLatest') /\ (PlanIsCleared => PlanIsCleared')
    BY <1>0, <1>1, <2>1, PlansKept
  <2> QED
    BY <1>1, <2>2 DEF GateInv
<1>2. ASSUME NEW j \in Jobs, CommentPlan(j) PROVE GateInv'
  <2>1. /\ job[j].step = "comment" /\ labels' = labels /\ labels = {}
        /\ job'[j].step = "addLabel" /\ job'[j].verdict = job[j].verdict
    BY <1>2, <1>g DEF CommentPlan, At, GateInv
  <2>2. /\ job[j].verdict # "unclear" => HasLatest'
        /\ job[j].verdict = "safe" => PlanIsCleared'
    BY <1>0, <1>2, PlanPosted
  <2> QED
    BY <2>1, <2>2 DEF GateInv, OneJob
<1>3. ASSUME \A j \in Jobs : ~CommentPlan(j), TriageNext PROVE GateInv'
  <2>0. /\ HasLatest => HasLatest'
        /\ PlanIsCleared /\ (approved => approved') => PlanIsCleared'
        /\ HasLatest /\ approved' => PlanIsCleared'
    BY <1>0, <1>3, PlansKept
  <2>1. ASSUME NEW j \in Jobs, ListIssues(j) PROVE GateInv'
    <3>1. job'[j].step = "guard" /\ labels' = labels /\ labels = {"needs-triage"} /\ approved' = approved
      BY <2>1, <1>g DEF ListIssues, GateInv
    <3> QED
      BY <2>0, <3>1 DEF GateInv, OneJob
  <2>2. ASSUME NEW j \in Jobs, Guard(j) PROVE GateInv'
    <3>1. /\ job[j].step = "guard" /\ labels' = labels /\ approved' = approved
          /\ job'[j].step \in {"idle", "removeLabel"}
      <4>1. ASSUME NEW v, job' = [job EXCEPT ![j] = [step |-> "removeLabel", verdict |-> v]]
            PROVE  job'[j].step = "removeLabel"
        BY <1>0, <4>1
      <4> QED
        BY <2>2, <1>n, <4>1 DEF Guard, decide, At
    <3> QED
      BY <2>0, <3>1 DEF GateInv, OneJob
  <2>3. ASSUME NEW j \in Jobs, RemoveLabel(j) PROVE GateInv'
    <3>1. job'[j].step = "comment" /\ labels' = {}
      BY <2>3, <1>g DEF RemoveLabel, At, GateInv
    <3> QED
      BY <3>1 DEF GateInv, OneJob
  <2>4. ASSUME NEW j \in Jobs, AddLabel(j) PROVE GateInv'
    <3>1. /\ job[j].step = "addLabel" /\ job'[j].step = "idle" /\ approved' = approved
          /\ labels' = {outcome(job[j].verdict)}
      BY <2>4, <1>n DEF AddLabel, At, GateInv
    <3>2. job[j].verdict \in {"safe", "risky", "unclear"}
      BY <1>0 DEF Verdicts
    <3> QED
      BY <2>0, <3>1, <3>2 DEF GateInv, OneJob, outcome
  <2>5. ASSUME NEW j \in Jobs, CutShort(j) PROVE GateInv'
    <3>1. job'[j].step = "idle" /\ labels' = labels /\ approved' = approved
      BY <2>5, <1>n DEF CutShort
    <3> QED
      BY <2>0, <3>1 DEF GateInv, OneJob
  <2>6. CASE Approve
    <3>1. /\ labels' = (labels \ {"needs-plan-review"}) \cup {"ready-for-development"} /\ approved' /\ job' = job
          /\ HasLatest /\ "needs-plan-review" \in labels
      BY <2>6 DEF Approve, GateInv
    <3>2. PlanIsCleared'
      BY <2>0, <3>1
    <3>3. labels # {} /\ labels # {"needs-triage"}
      BY <3>1
    <3>4. "needs-triage" \notin labels' /\ "needs-plan-review" \notin labels'
      BY <3>1, <3>3 DEF GateInv
    <3> QED
      BY <3>1, <3>2, <3>3, <3>4 DEF GateInv
  <2>7. CASE Retriage
    <3>1. labels' = {"needs-triage"} /\ job' = job /\ \A j \in Jobs : job[j].step = "idle"
      BY <2>7 DEF Retriage, At
    <3> QED
      BY <3>1 DEF GateInv
  <2> QED
    BY <1>3, <2>1, <2>2, <2>3, <2>4, <2>5, <2>6, <2>7 DEF TriageNext
<1> QED
  BY <1>1, <1>2, <1>3 DEF Next, Operator, PollerCreates, reconcileActivePod, StatusUpdate, rejectComment, rejectClose,
     findLink, postLink, replied, Resume, Abort, listCommentsFails, AgentComments, AgentPushes, PodEnds, Revise,
     Completes, Comment, vars, tvars

\* No agent starts without a plan that may be worked from, when maintainers hand
\* an issue back only while nothing works on it and one triage job runs at a time.
THEOREM PlansGated ==
  ASSUME Patient, OneJob
  PROVE  Spec => PlanGateHolds
<1>1. Init => GateInv
  BY DEF Init, TriageInit, GateInv, NoJob
<1>2. Inv /\ GateInv /\ [Next]_vars => GateInv'
  BY GateStep
<1>3. Inv /\ GateInv /\ [Next]_vars => [phase = "absent" /\ phase' # "absent" => PlanIsCleared]_vars
  <2> SUFFICES ASSUME Inv, GateInv, [Next]_vars, phase = "absent", phase' # "absent" PROVE PlanIsCleared
    OBVIOUS
  <2>1. PollerCreates
    BY DEF Inv, CallInv, Next, Operator, reconcileActivePod, StatusUpdate, rejectComment, rejectClose,
       findLink, postLink, replied, Resume, Abort, listCommentsFails, AgentComments, AgentPushes, PodEnds, Revise,
       Completes, Comment, vars, taskVars
  <2> QED
    BY <2>1 DEF PollerCreates, GateInv
<1> QED
  BY <1>1, <1>2, <1>3, Invariant, PTL DEF Spec, PlanGateHolds

-----------------------------------------------------------------------------
(* Questions, answers and links                                            *)

\* A comment that was posted stays posted.
LEMMA StaysPosted ==
  ASSUME TypeOK, [Next]_vars, NEW by, NEW kind
  PROVE  Posted(by, kind) \subseteq Posted(by, kind)'
<1>0. comments \in Seq(Comments)
  BY DEF TypeOK
<1>1. CASE comments' = comments
  BY <1>1 DEF Posted
<1>2. ASSUME NEW c \in Comments, PostStep(c) PROVE Posted(by, kind) \subseteq Posted(by, kind)'
  BY <1>0, <1>2, PostedGrows DEF PostStep
<1> QED
  BY <1>1, <1>2, ThreadGrows

\* Who writes the markers, when people leave them to the pipeline.
LEMMA Markers ==
  ASSUME TypeOK, [Next]_vars, NEW kind \in {"clarification", "link"}, kind \notin OthersPost,
         \A i \in DOMAIN comments : comments[i].kind = kind => comments[i].by \in {"agent", "operator"}
  PROVE  \A i \in DOMAIN comments' : comments'[i].kind = kind => comments'[i].by \in {"agent", "operator"}
<1>0. comments \in Seq(Comments) /\ \A j \in Jobs : job[j].verdict \in Verdicts
  BY DEF TypeOK, JobState
<1>1. ASSUME NEW c \in Comments, PostStep(c)
      PROVE  \A i \in DOMAIN comments' : comments'[i].kind = kind => comments'[i].by \in {"agent", "operator"}
  <2> DEFINE n == Len(comments)
  <2>1. /\ n \in Nat /\ DOMAIN comments = 1 .. n /\ DOMAIN comments' = 1 .. n + 1
        /\ (\A i \in 1 .. n : comments'[i] = comments[i]) /\ comments'[n + 1] = c
    BY <1>0, <1>1, Appended DEF PostStep
  <2>2. c.kind = kind => c.by \in {"agent", "operator"}
    BY <1>0, <1>1, PlanTyped DEF PostStep
  <2> HIDE DEF n
  <2> QED
    BY <2>1, <2>2
<1> QED
  BY <1>1, ThreadGrows

\* A maintainer's comment that comes after all of the agent's questions.
LEMMA AnswerStep ==
  ASSUME App, MaxComments <= PageSize, Inv, ResumeIsAnswered, [Next]_vars
  PROVE  ResumeIsAnswered'
<1> SUFFICES ASSUME step' = "resume"
             PROVE  \E i \in DOMAIN comments' :
                      /\ comments'[i].by = "maintainer"
                      /\ \A k \in DOMAIN comments' :
                           comments'[k].by = "agent" /\ comments'[k].kind = "clarification" => k < i
  BY DEF ResumeIsAnswered
<1>0. TypeOK /\ comments \in Seq(Comments) /\ Len(comments) \in Nat /\ DOMAIN comments = 1 .. Len(comments)
      /\ Len(comments) <= MaxComments
  BY DEF Inv, TypeOK
<1>1. CASE replied
  <2> DEFINE n == Len(comments)
  <2>1. comments' = comments
    BY <1>1 DEF replied, tvars
  <2>2. Len(listComments) = n /\ listComments \in Seq(Comments)
    BY <1>0, Page
  <2>3. listComments # <<>> /\ isTrusted(Last(listComments))
    BY <1>1 DEF replied, humanRepliedAfterClarification
  <2>4. n > 0 /\ listComments[n].by = "maintainer"
    BY <1>0, <2>2, <2>3 DEF isTrusted, Last
  <2>5. n \in DOMAIN listComments
    <3>1. DOMAIN listComments = 1 .. Len(listComments)
      BY <2>2
    <3> QED
      BY <1>0, <2>2, <2>4, <3>1
  <2>6. n \in DOMAIN comments /\ comments[n].by = "maintainer"
    BY <1>0, <2>4, <2>5, Page
  <2> HIDE DEF n
  <2> QED
    BY <1>0, <2>1, <2>6 DEF n
<1>2. CASE ~replied
  <2>1. step = "resume"
    BY <1>2 DEF Next, Operator, PollerCreates, reconcileActivePod, StatusUpdate, rejectComment, rejectClose,
       findLink, postLink, Resume, Abort, listCommentsFails, AgentComments, AgentPushes, PodEnds, Revise,
       Completes, Comment, Goes, vars, taskVars
  <2>2. PICK i \in DOMAIN comments :
          /\ comments[i].by = "maintainer"
          /\ \A k \in DOMAIN comments : comments[k].by = "agent" /\ comments[k].kind = "clarification" => k < i
    BY <2>1 DEF ResumeIsAnswered
  <2>3. agent = "none"
    BY <2>1 DEF Inv, CallInv
  <2>4. CASE comments' = comments
    BY <2>2, <2>4
  <2>5. ASSUME NEW c \in Comments, PostStep(c)
        PROVE  /\ i \in DOMAIN comments' /\ comments'[i].by = "maintainer"
               /\ \A k \in DOMAIN comments' :
                    comments'[k].by = "agent" /\ comments'[k].kind = "clarification" => k < i
    <3> DEFINE n == Len(comments)
    <3>1. /\ n \in Nat /\ DOMAIN comments = 1 .. n /\ DOMAIN comments' = 1 .. n + 1
          /\ (\A k \in 1 .. n : comments'[k] = comments[k]) /\ comments'[n + 1] = c
      BY <1>0, <2>5, Appended DEF PostStep
    <3>2. c.by # "agent"
      BY <2>3, <2>5 DEF PostStep
    <3> HIDE DEF n
    <3> QED
      BY <2>2, <3>1, <3>2
  <2> QED
    BY <1>0, <2>4, <2>5, ThreadGrows
<1> QED
  BY <1>1, <1>2

\* An agent is resumed on a maintainer's answer to its last question, when the
\* pipeline is a GitHub App and the thread fits the page that is read.
THEOREM ResumesAnswered ==
  ASSUME App, MaxComments <= PageSize
  PROVE  Spec => []ResumeIsAnswered
<1>1. Init => ResumeIsAnswered
  BY DEF Init, ResumeIsAnswered
<1>2. Inv /\ ResumeIsAnswered /\ [Next]_vars => ResumeIsAnswered'
  BY AnswerStep
<1> QED
  BY <1>1, <1>2, Invariant, PTL DEF Spec

\* A call that is about to post the link has seen none; one that is about to write
\* AwaitingReview has seen or posted it.
LinkInv ==
    /\ \A i \in DOMAIN comments : comments[i].kind = "link" => comments[i].by \in {"agent", "operator"}
    /\ step = "postLink" => Posted("operator", "link") = {}
    /\ step = "review" \/ phase = "AwaitingReview" => Posted("agent", "link") \cup Posted("operator", "link") # {}
    /\ \A i, k \in Posted("operator", "link") : i = k

LEMMA LinkStep ==
  ASSUME "link" \notin OthersPost, MaxComments <= PageSize, Inv, LinkInv, [Next]_vars
  PROVE  LinkInv'
<1>0. TypeOK /\ comments \in Seq(Comments) /\ Len(comments) \in Nat /\ DOMAIN comments = 1 .. Len(comments)
      /\ Len(comments) <= MaxComments
  BY DEF Inv, TypeOK
<1>1. \A i \in DOMAIN comments' : comments'[i].kind = "link" => comments'[i].by \in {"agent", "operator"}
  BY <1>0, Markers DEF LinkInv
\* What findLink finds is what there is.
<1>2. alreadyLinked <=> Posted("agent", "link") \cup Posted("operator", "link") # {}
  <2>1. DOMAIN listComments = DOMAIN comments /\ \A i \in DOMAIN comments : listComments[i] = comments[i]
    <3>1. listComments \in Seq(Comments) /\ Len(listComments) = Len(comments)
      BY <1>0, Page
    <3>2. DOMAIN listComments = 1 .. Len(listComments)
      BY <3>1
    <3> QED
      BY <1>0, <3>1, <3>2, Page
  <2> QED
    BY <2>1 DEF alreadyLinked, Listed, Posted, LinkInv
\* The operator's own links.
<1>3. \/ Posted("operator", "link")' = Posted("operator", "link") /\ ~postLink
      \/ postLink /\ Posted("operator", "link")' = Posted("operator", "link") \cup {Len(comments) + 1}
  <2>1. ASSUME postLink
        PROVE  Posted("operator", "link")' = Posted("operator", "link") \cup {Len(comments) + 1}
    <3> DEFINE c == [by |-> "operator", kind |-> "link"]
    <3>1. c \in Comments /\ comments' = Append(comments, c) /\ c.by = "operator" /\ c.kind = "link"
      BY <2>1 DEF postLink, Post, Comments, Authors, Pipeline, Kinds
    <3> HIDE DEF c
    <3> QED
      BY <1>0, <3>1, PostedGrows
  <2>2. ASSUME ~postLink PROVE Posted("operator", "link")' = Posted("operator", "link")
    <3>1. ASSUME NEW c \in Comments, PostStep(c)
          PROVE  Posted("operator", "link")' = Posted("operator", "link")
      <4>1. c.by # "operator" /\ comments' = Append(comments, c)
        BY <2>2, <3>1 DEF PostStep
      <4>2. Posted("operator", "link")' = Posted("operator", "link") \cup
              (IF c.by = "operator" /\ c.kind = "link" THEN {Len(comments) + 1} ELSE {})
        BY <1>0, <4>1, PostedGrows
      <4>3. Posted("operator", "link")' = Posted("operator", "link") \cup {}
        BY <4>1, <4>2
      <4> QED
        BY <4>3, Zenon
    <3>2. CASE comments' = comments
      BY <3>2 DEF Posted
    <3> QED
      BY <1>0, <3>1, <3>2, ThreadGrows
  <2> QED
    BY <2>1, <2>2
<1>4. Posted("agent", "link") \subseteq Posted("agent", "link")'
  BY <1>0, StaysPosted
<1>5. CASE postLink
  <2>1. Posted("operator", "link")' = {Len(comments) + 1} /\ step' = "review"
    BY <1>3, <1>5 DEF postLink, LinkInv, Goes
  <2> QED
    BY <1>1, <2>1 DEF LinkInv
<1>6. CASE ~postLink
  <2>1. Posted("operator", "link")' = Posted("operator", "link")
    BY <1>3, <1>6
  <2>2. CASE findLink
    <3>1. step' = (IF alreadyLinked THEN "review" ELSE "postLink") /\ phase' = phase
      BY <2>2 DEF findLink, Goes
    <3> QED
      BY <1>1, <1>2, <1>4, <2>1, <3>1 DEF LinkInv
  <2>3. CASE ~findLink
    <3>1. /\ step' = "postLink" => step = "postLink"
          /\ step' = "review" => step = "review"
          /\ phase' = "AwaitingReview" => phase = "AwaitingReview" \/ step = "review"
      BY <1>6, <2>3 DEF Next, Operator, PollerCreates, reconcileActivePod, StatusUpdate, rejectComment, rejectClose,
         replied, Resume, Abort, listCommentsFails, AgentComments, AgentPushes, PodEnds, Revise,
         Completes, Comment, Spawn, Goes, vars, taskVars
    <3> QED
      BY <1>1, <1>4, <2>1, <3>1 DEF LinkInv
  <2> QED
    BY <2>2, <2>3
<1> QED
  BY <1>5, <1>6

\* A task in review is announced, and by the operator once, whatever is retried,
\* when the thread fits the page and only the pipeline writes "PR: https://".
THEOREM ReviewsAnnounced ==
  ASSUME "link" \notin OthersPost, MaxComments <= PageSize
  PROVE  Spec => []ReviewIsAnnounced
<1>1. Init => LinkInv
  BY DEF Init, TriageInit, LinkInv, Posted
<1>2. Inv /\ LinkInv /\ [Next]_vars => LinkInv'
  BY LinkStep
<1>3. LinkInv => ReviewIsAnnounced
  BY DEF LinkInv, ReviewIsAnnounced
<1> QED
  BY <1>1, <1>2, <1>3, Invariant, PTL DEF Spec

=============================================================================
