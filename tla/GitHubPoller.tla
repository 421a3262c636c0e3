------------------------------ MODULE GitHubPoller ------------------------------
(***************************************************************************)
(* The GitHub poller (github_poller.go): every 30 s, for each watched      *)
(* repository in turn, it lists the open issues labelled                   *)
(* ready-for-development, counts the DevTasks that are not in a terminal   *)
(* phase, and creates DevTasks while the count is below                    *)
(* MAX_CONCURRENT_TASKS.  Count and existence are read from the informer   *)
(* cache; creation goes to the API server.                                 *)
(*                                                                         *)
(* The poller goroutine is started outside leader election                 *)
(* (cmd/main.go), so every running operator instance polls.                *)
(***************************************************************************)
EXTENDS Naturals, Sequences, FiniteSetsExt

CONSTANTS
    Pollers,   \* operator instances running at the same time
    Repos,     \* the watched repositories, a sequence (PIPELINE_REPOS)
    Issues,    \* what the issue listings of all watched repositories can hold
    Pulls,     \* the pull requests among them
    Listing,   \* for each repository, its issues as GitHub lists them: newest first
    Limit,     \* maxConcurrentTasks()
    PageSize,  \* issues in the one page of the listing that is read
    Standing,  \* the entries that are labelled all along
    Failures   \* may calls fail and operator instances restart

ASSUME LimitAssumption == Limit \in Nat \ {0}
ASSUME PageAssumption == PageSize \in Nat \ {0}
ASSUME FailuresAssumption == Failures \in BOOLEAN
ASSUME ReposAssumption == /\ Repos \in Seq(DOMAIN Listing)
                          /\ Listing \in [DOMAIN Listing -> Seq(Issues)]
ASSUME IssuesAssumption == IsFiniteSet(Issues) /\ Pulls \subseteq Issues /\ Standing \subseteq Issues

VARIABLES
    labelled,  \* open issues that carry ready-for-development
    task,      \* the DevTask of each issue, in the API server
    view,      \* the same, in the cache of each poller
    poll,      \* each poller's pass over the repositories
    missed     \* history: active tasks each pass has no way to count

vars == <<labelled, task, view, poll, missed>>

TaskStates == {"absent", "active", "terminal"}

\* repo is the index in Repos, 0 between two ticks; todo the places in its listing
\* of the issues still to be looked at; active the poller's count of active tasks.
Polls == [repo: 0 .. Len(Repos), todo: SUBSET Nat, active: Nat, listed: BOOLEAN]
Waiting == [repo |-> 0, todo |-> {}, active |-> 0, listed |-> FALSE]
\* Variant with a bug: one repository too many.
StartRepoPastEnd(r) == IF r <= Len(Repos) + 1 THEN [Waiting EXCEPT !.repo = r] ELSE Waiting

\* The next repository of the tick, or none.
StartRepo(r) == IF r <= Len(Repos) THEN [Waiting EXCEPT !.repo = r] ELSE Waiting

\* The poller's bookkeeping stays well formed: it never leaves the list of
\* repositories, and what it still has to look at is in the one it is at.
TypeOK ==
    /\ labelled \subseteq Issues
    /\ task \in [Issues -> TaskStates]
    /\ view \in [Pollers -> [Issues -> TaskStates]]
    /\ poll \in [Pollers -> Polls]
    /\ missed \in [Pollers -> SUBSET Issues]
    /\ \A q \in Pollers : poll[q].listed =>
         poll[q].repo # 0 /\ poll[q].todo \subseteq DOMAIN Listing[Repos[poll[q].repo]]

Init ==
    /\ labelled = Standing
    /\ task = [i \in Issues |-> "absent"]
    /\ view = [q \in Pollers |-> [i \in Issues |-> "absent"]]
    /\ poll = [q \in Pollers |-> Waiting]
    /\ missed = [q \in Pollers |-> {}]

-----------------------------------------------------------------------------
ActiveIn(tasks) == {i \in Issues : tasks[i] = "active"}

\* Variant with a bug: terminal tasks count as well.
countAllDevTasks(q) == Cardinality({i \in Issues : view[q][i] # "absent"})

countActiveDevTasks(q) == Cardinality(ActiveIn(view[q]))

\* ListByRepo with the label and state filters, first page only.
listByRepo(repo) ==
    LET found == {k \in DOMAIN Listing[repo] : Listing[repo][k] \in labelled}
    IN {k \in found : Cardinality({m \in found : m <= k}) <= PageSize}

Tick(q) ==
    /\ poll[q].repo = 0
    /\ poll' = [poll EXCEPT ![q] = StartRepo(1)]
    /\ UNCHANGED <<labelled, task, view, missed>>

\* pollRepo up to its loop: list the issues, count the active tasks.
pollRepo(q) ==
    /\ poll[q].repo # 0 /\ ~poll[q].listed
    /\ poll' = [poll EXCEPT ![q] = [@ EXCEPT !.todo = listByRepo(Repos[poll[q].repo]),
                                             !.active = countActiveDevTasks(q),
                                             !.listed = TRUE]]
    /\ missed' = [missed EXCEPT ![q] = ActiveIn(task) \ ActiveIn(view[q])]
    /\ UNCHANGED <<labelled, task, view>>

\* Reading the credentials, the listing or the count failed: the error is logged
\* and the next repository is polled.
PollFails(q) ==
    /\ Failures
    /\ poll[q].repo # 0 /\ ~poll[q].listed
    /\ poll' = [poll EXCEPT ![q] = StartRepo(poll[q].repo + 1)]
    /\ UNCHANGED <<labelled, task, view, missed>>

NextIssue(q) == Listing[Repos[poll[q].repo]][Min(poll[q].todo)]
\* Variant with a bug: the tasks a pass creates are not added to its count.
AdvanceUncounted(q, n) == poll' = [poll EXCEPT ![q].todo = @ \ {Min(@)}]

Advance(q, n) == poll' = [poll EXCEPT ![q].todo = @ \ {Min(@)}, ![q].active = @ + n]
InLoop(q) == poll[q].listed /\ poll[q].todo # {}

\* Variant with a bug: one task too many.
allowOneMore(q) == poll[q].active <= Limit

allowCreate(q) == poll[q].active < Limit

\* GitHub's issue listing holds pull requests too.
SkipPull(q) ==
    /\ InLoop(q)
    /\ NextIssue(q) \in Pulls
    /\ Advance(q, 0)
    /\ UNCHANGED <<labelled, task, view, missed>>

\* The loop body calls ensureDevTask, whose cache has no task of that name.
MayCreate(q) ==
    /\ InLoop(q)
    /\ NextIssue(q) \notin Pulls
    /\ view[q][NextIssue(q)] = "absent" /\ allowCreate(q)

\* ensureDevTask finds the task in its cache, or may not create it now.
SkipIssue(q) ==
    /\ InLoop(q)
    /\ NextIssue(q) \notin Pulls
    /\ view[q][NextIssue(q)] # "absent" \/ ~allowCreate(q)
    /\ Advance(q, 0)
    /\ UNCHANGED <<labelled, task, view, missed>>

\* ensureDevTask creates the task and the loop counts it; a pass that has its
\* count already misses it.
CreateTask(q) ==
    /\ MayCreate(q)
    /\ task[NextIssue(q)] = "absent"
    /\ task' = [task EXCEPT ![NextIssue(q)] = "active"]
    /\ Advance(q, 1)
    /\ missed' = [p \in Pollers |-> IF p # q /\ poll[p].listed
                                   THEN missed[p] \cup (ActiveIn(task') \ ActiveIn(task)) ELSE missed[p]]
    /\ UNCHANGED <<labelled, view>>

\* Create is refused (the task exists, though not in the cache, or the call
\* fails): the error is logged, and nothing is counted.
CreateFails(q) ==
    /\ MayCreate(q)
    /\ task[NextIssue(q)] # "absent" \/ Failures
    /\ Advance(q, 0)
    /\ UNCHANGED <<labelled, task, view, missed>>

RepoDone(q) ==
    /\ poll[q].listed /\ poll[q].todo = {}
    /\ poll' = [poll EXCEPT ![q] = StartRepo(poll[q].repo + 1)]
    /\ missed' = [missed EXCEPT ![q] = {}]
    /\ UNCHANGED <<labelled, task, view>>

\* The operator instance stops; its replacement starts with a synced cache.
Restart(q) ==
    /\ Failures
    /\ poll[q].repo # 0
    /\ poll' = [poll EXCEPT ![q] = Waiting]
    /\ view' = [view EXCEPT ![q] = task]
    /\ missed' = [missed EXCEPT ![q] = {}]
    /\ UNCHANGED <<labelled, task>>

-----------------------------------------------------------------------------
(* Around the poller (external)                                            *)

\* Triage, or a maintainer, labels an issue; it is unlabelled or closed.
Label(i) ==
    /\ i \notin labelled
    /\ labelled' = labelled \cup {i}
    /\ UNCHANGED <<task, view, poll, missed>>

Unlabel(i) ==
    /\ i \in labelled \ Standing
    /\ labelled' = labelled \ {i}
    /\ UNCHANGED <<task, view, poll, missed>>

\* The reconciler takes the task to Completed or Failed.
TaskEnds(i) ==
    /\ task[i] = "active"
    /\ task' = [task EXCEPT ![i] = "terminal"]
    /\ UNCHANGED <<labelled, view, poll, missed>>

SyncTask(q, i) ==
    /\ view[q][i] # task[i]
    /\ view' = [view EXCEPT ![q][i] = task[i]]
    /\ UNCHANGED <<labelled, task, poll, missed>>

-----------------------------------------------------------------------------
Poll(q) ==
    \/ Tick(q) \/ pollRepo(q) \/ SkipPull(q) \/ SkipIssue(q)
    \/ CreateTask(q) \/ CreateFails(q) \/ RepoDone(q)

Around ==
    \/ \E i \in Issues : Label(i) \/ Unlabel(i) \/ TaskEnds(i)
    \/ \E q \in Pollers, i \in Issues : SyncTask(q, i)

Next == (\E q \in Pollers : Poll(q) \/ PollFails(q) \/ Restart(q)) \/ Around

Spec == Init /\ [][Next]_vars

\* A step in which no call fails and no operator instance stops.
Calm ==
    \/ \E q \in Pollers :
         Poll(q) /\ (MayCreate(q) /\ task[NextIssue(q)] = "absent" => task' # task)
    \/ Around

\* Failures come to an end, the ticker goes on, informers catch up and every task
\* ends: the last is the reconciler's TaskSettles, plus reviewers who decide.
Fairness ==
    /\ <>[][Calm]_vars
    /\ \A q \in Pollers : WF_vars(Poll(q))
    /\ \A i \in Issues : WF_vars(TaskEnds(i))
    /\ \A q \in Pollers, i \in Issues : WF_vars(SyncTask(q, i))

FairSpec == Spec /\ Fairness

-----------------------------------------------------------------------------
\* At most MAX_CONCURRENT_TASKS tasks are active at once, over all repositories.
CapHolds == Cardinality(ActiveIn(task)) <= Limit

\* What exceeds the cap is only what a pass has no way to count: after a creation
\* at most MAX_CONCURRENT_TASKS tasks are active besides those that the creator's
\* cache did not show when it counted and those that other instances have created
\* since, although a pass counts once and creates several, from a cache that is
\* late, while tasks end, passes fail and instances restart.
CapHoldsForKnown ==
    [][\A q \in Pollers :
          CreateTask(q) => Cardinality(ActiveIn(task') \ missed[q]) <= Limit]_vars

\* An issue deferred because the cap was full is not forgotten: if it keeps its
\* label, some later poll creates its task.
DeferredIssueIsServed ==
    \A i \in Issues \ Pulls : <>[](i \in labelled) => <>(task[i] # "absent")
=============================================================================
