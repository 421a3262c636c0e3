# A TLA+ model of agentic-dev-pipeline

The pipeline turns labelled GitHub issues into pull requests. An operator watches the
issues, makes a `DevTask` of each, runs a coding agent for it in a throw-away Kubernetes
namespace, checks the diff of the pull request it opens, and follows the review. This
directory models the operator's control logic, checks it with TLC and proves with TLAPS all but one
of the invariants and action properties that the passing runs check.

## 1. Inventory

| Component (source) | State | Operations | Interacts with |
|---|---|---|---|
| DevTask controller (`devtask_controller.go`) | none of its own; `DevTask.Status` in the API server | `Reconcile`, by phase | reads DevTasks and pods from the informer cache, writes the API server, calls GitHub |
| Sandbox resources (`namespace.go`, `networkpolicy.go`, `secrets.go`, `pod.go`) | namespace, NetworkPolicy, Secret, pods `agent` and `agent-rev` | create-if-absent, delete, `getPod` | kubelet, namespace controller |
| GitHub helpers (`github_poller.go`, 180-412) | pull requests, labels, comments | find PR, files, reject, link, labels, clarification | agent, reviewer, commenters |
| GitHub poller (`github_poller.go`, 37-178) | position in a pass, count of active tasks | tick, list, count, create | creates DevTasks; counts those the controller has not finished |
| Diff policy (`diff_policy.go`) | pattern lists, caps | `evaluateDiff` | called by the controller |
| App tokens (`github_app.go`, `secrets.go`) and triage token refresher (`triage_token.go`) | cached installation token, ticker, Secrets | mint, copy, refresh | GitHub, triage namespace, task Secrets |
| API types (`devtask_types.go`) | phases, status fields | - | all of the above |
| Agent pod builder, prompts (`pod.go`, `egress.go`) | none | build specs and prompts | the agent does what the prompts ask |
| Start-up (`cmd/main.go`) | - | starts poller and refresher outside leader election | - |
| Triage CronJob (`deploy/triage`) | labels and comments of issues | list, guard, decide, comment, relabel, as a prompt prescribes | the poller reads its labels, the agent its plan |
| Deployment, Makefile, scripts | Secrets | run by hand | - |

What is hard here: `Reconcile` is a sequence of a dozen remote calls without a transaction,
reading from caches that lag, restarted from the beginning after any error or crash, while
pods end, namespaces terminate, tokens expire, agents push and reviewers label between any
two of its calls. Triage, operator, agent, maintainers and strangers talk to each other through
the comments and labels of an issue, which each of them reads in its own way. Each component's correctness is what `PROJECT.json` lists under
`hazards`, with the properties that would catch it going wrong.

## 2. Modules

* **DevTaskReconciler** - the core. `work` is the one `Reconcile` call in progress: the
  status it read, whether that was the newest version, the pull request it found, what it
  will write, and the API call it is about to make. There is one action per API call, named
  after the Go function; everything around the operator (informers, kubelet, namespace
  controller, agent, reviewer, commenters) is external and interleaves freely. Reads whose
  only other outcome is an error (credentials, issue body) are folded into the next call:
  `Abort` covers their failure. `Faults` selects what may go wrong:
  `abort` (a call returns an error, or the operator stops, between two calls),
  `ignoredError` (a call whose error the code drops has no effect; an error of the comment listing
  is taken for a negative answer, and any error of `getPod`'s first read for NotFound, `pod.go:398`),
  `statusLag` and `podLag` (late informers), `expiry` (tokens run out). Because every
  status write needs the newest resourceVersion, the DevTask cache is at most one version
  behind, so a flag (`synced`) is all the model needs. A namespace is absent, active or
  terminating; deletions are asynchronous; nothing is created in a namespace that is not
  active. A terminating namespace is emptied piece by piece (`ContentsGone`, `PodEvicted`,
  `PodRemoved`), so that a pod in its grace period may outlive its NetworkPolicy, and goes when it is
  empty. Listing the comments for an earlier link and posting one are two steps (`findLink`,
  `prComment`); whether the listing shows a link is left open here. A pull request's diff is clean or violating; `vetted` and `owed` are history
  variables, and so is the third value of a pull request's `label`, "taken": a round has been
  started for that label. The issue thread has three classes (no clarification; asked;
  answered), as in App mode, where the agent and the operator comment as a bot; the comments
  themselves are in `IssueLife`.
* **Lifecycle** - the abstract specification: what a watcher of `DevTask.Status` may rely
  on. `DevTaskReconciler!Life` instantiates it with the status fields.
* **ReconcilerLiveness** - fairness and the two liveness properties; from some point on every step
  is a `Calm` one, in which no call is aborted.
* **GitHubPoller** - pollers, each with its cache, their passes, and the cap. A cache learns of a
  task's creation and of its end at any later time (`SyncTask`). `missed` is a history variable: the
  active tasks that a pass has no way to count.
* **IssueThread** - the comments of one issue, by author and by what they begin with, and what
  each component reads out of them: the operator's first page of the listing, its tests for a
  clarification, a link and a trusted human's reply, and triage's test of the last comment.
  `App` says whether the pipeline comments as a bot or as the owner of a PAT.
* **Triage** - the CronJob's jobs on one issue. A job's listing, guard, label removal, comment
  and new label are one step each, and `CutShort` ends it between any two. What the prompt
  decides (clear and safe, clear but touching sensitive surface, unclear) is a free choice.
* **IssueLife** - composes the two with the poller, the controller, the agent and the people of
  one issue. Phases in which an agent is due or at work are one phase here; the calls of the
  controller that read or write comments are steps of their own (`step`), any of which may fail
  (`Abort`), at most `MaxAborts` times.
* **InstallationTokens** - the token's minutes: the App key, the transport that keeps the key it
  was made with and is stored before its first token is minted, the refresher's calls one by one,
  the other users of the token, `make secrets` and key deletion.
* **DiffPolicy** - `evaluateDiff` file by file beside the documented policy. A path is a
  sequence of segments, a glob one of the five forms `globMatch` tells apart; a file may have had
  another name before.
* **MC...** - instances for TLC. **...Proofs** - the theorems: `DevTaskReconcilerProofs` about
  status and calls, `SandboxProofs` about namespaces and pods, `ReviewProofs` about pull requests,
  labels and clarifications, each extending the one before;
  `IssueLifeProofs`, `GitHubPollerProofs`, `InstallationTokensProofs` and `DiffPolicyProofs` about
  their modules.

## 3. Runs

Passing runs:

| Run | Faults and size | Properties | States |
|---|---|---|---|
| `reconciler_faults` | dropped errors, a late pod cache | types, `ImplementsLifecycle` | 1 140 000 (`CoreView`) |
| `reclaim_live` | aborts, a late DevTask cache, expiring tokens | `PodsAreSandboxed`, `NoSandboxIsForgotten`, `AgentsAreCounted`, `ReviewedDiffIsVetted`, `TerminalIsFinal`, `ImplementsLifecycle`, `RevisionIsAsked`, `ClarificationIsHeard`, `SandboxIsReclaimed` | 325 000 |
| `settle_live` | none; two pull requests | `RevisionIsCarriedOut`, `TaskSettles` | 226 000 |
| `poller` | two instances, failures, restarts, late caches | types, `CapHoldsForKnown`, `DeferredIssueIsServed` | 240 000 |
| `issue_life` | jobs cut short, calls failing, anyone's questions | types, `TriageDoesNotRepeat`, `PlanGateHolds`, `ResumeIsAnswered`, `AnswerIsTaken`, `ReviewIsAnnounced`, `RejectionIsExplained` | 1 740 000 |
| `tokens` | failing refreshes, restarts, rotation, `make secrets` | types, `OutageIsBounded`, `OutageEnds`, `ConfigIsPreserved` | 384 000 |
| `diff_policy` | - | `PolicyIsEnforced`, `EveryOffenderIsNamed` | 1 630 000 |

Five runs show a property violated by what the code does where a comment or document says
otherwise; the quotations are in `PROJECT.json` under `findings`:

| Run | What happens |
|---|---|
| `revision_skipped` | crash after `ensurePod`: the retry deletes the running `agent-rev`, accepts the terminating one, and then takes the first run's `agent` pod for the revision |
| `stale_token` | a revision pod gets the Secret of the first round, whose token may have expired |
| `sandbox_shared` | issues of the same number in two repositories share a namespace |
| `stuck_task` | crash between `deleteNamespace` and the status write: NotFound is requeued for ever |
| `cap_exceeded` | one poller, one tick: the count for the second repository misses the task just created for the first, which the cache does not hold yet |

The same modules show more when one constant of a passing run is changed:

| Change | What fails |
|---|---|
| `Faults = {"podLag"}` or `{"ignoredError"}` in `ReclaimLive.cfg` | `ReviewedDiffIsVetted`: the pod cache does not hold the new `agent-rev` yet, or reading it failed (`pod.go:398`); the first run's pod stands in for it, and the agent pushes during review |
| the same | `AgentsAreCounted`: the task ends on what an older pod showed while the newer agent still runs |
| the same | `ClarificationIsHeard`: the wrong pod is looked at, or an error of the comment listing becomes a terminal failure |
| `Faults = {"ignoredError"}` in `ReclaimLive.cfg` | `NoSandboxIsForgotten`, `SandboxIsReclaimed`: `deleteNamespace` failed, its error was dropped, and the final status is not revisited |
| the same | `RevisionIsAsked`: `removePRLabel` failed, its error was only logged, and the label starts another round |
| any one fault but `expiry` in `SettleLive.cfg` | `RevisionIsCarriedOut` |
| `Faults = {"statusLag"}` in `SettleLive.cfg` | `TaskSettles`: a call that set out from an older status deletes the namespace, its write conflicts, and NotFound is requeued for ever, as in `stuck_task` |
| `Pollers = {q1, q2}` in `CapExceeded.cfg` | `CapHolds` again: the poller runs outside leader election, and two instances count before either creates |
| `PageSize = 1` in `Poller.cfg` | `DeferredIssueIsServed`: only the first page (30 issues) of the listing is read, and finished issues keep their label |
| `App = FALSE` in `IssueLife.cfg` | `ResumeIsAnswered`: with a PAT, the default, the agent's own question is a trusted human's last word, and the task resumes at once |
| `PageSize = 3` in `IssueLife.cfg` | `ResumeIsAnswered`, `AnswerIsTaken`, `ReviewIsAnnounced`: once the thread is longer than a page (30 comments), the newest comments are not seen: an old answer resumes every later question, a new answer is ignored, the link is posted again in every round |
| `OthersPost = {"text", "link"}` | `ReviewIsAnnounced`: anyone's link to any pull request stands for the operator's |
| `Patient = FALSE`, or `Jobs = {"cron", "manual"}` | `PlanGateHolds`: `ready-for-development` of an earlier plan, or of the other job's, is still on the issue when `needs-plan-review` is added, and the poller acts on it; with two jobs also `TriageDoesNotRepeat` |

Two properties name the exception the code leaves, and fail without it: `AnswerIsTaken` (a comment
after the answer, by anyone, hides it) and `OutageEnds` (`CanMint`: the transport is cached by App
and installation, so after the rotation `docs/github-app-setup.md` describes, and the deletion of the
old key, nothing is minted before a restart).

What the models show and no property states, because a true statement would only repeat the code:

* A triage job that ends between removing `needs-triage` and adding the next label leaves an issue
  nobody looks at, although the prompt removes the label first "so re-runs are idempotent even if the
  next step fails" (`configmap-prompt.yaml:44`).
* `hasRecentClarificationComment` says "the agent posted" (`github_poller.go:253`) and does not look
  at the author: anyone's `/clarification:` comment, or the agent's own of an earlier round, turns a
  genuine failure into a blocked task. The run has such comments (`OthersPost`).
* `secrets.go:68` and `docs/github-app-setup.md:75` promise a task a freshly minted token of about an
  hour; `installationToken` returns the cached one until a minute before it expires, and a pod may
  run for 30.
* The refresher "keeps the triage namespace's github-token fresh" (`triage_token.go:53`) with the
  same cached token: the triage job may be without a valid one for up to `Period - Skew` minutes,
  which `OutageIsBounded` states as the bound.
* `evaluateDiff` looks at the name a file has now. `ARCHITECTURE.md` speaks of what a pull request
  touches; a file moved out of a restricted directory touches it, and passes (`previous` in
  `DiffPolicy!Files` is never read).

**Bounds.** One task in its own namespace is enough for the properties of a single task:
tasks meet only in the single worker (which serves them one call at a time) and in a shared
namespace; the theorems cover any number of tasks, and `sandbox_shared` uses two. `MaxPR`
(pull requests per task) is 1, and 2 in `settle_live`, which a fault-free state space
allows. The rounds of review and clarification are not bounded. `reconciler_faults` uses a `VIEW`,
`CoreView`, which leaves out the history variables and what no guard reads (the age of a token, the
fields of a cached pod beside its phase): neither property of that run, nor the next value of
anything in the view, depends on them. All five faults together with a pod cache of its own exceed
what TLC does in minutes; the theorems of `DevTaskReconcilerProofs` have them all at once.

The poller has two instances, two repositories with two issues and a pull request and a cap of 1;
one issue and the pull request are labelled all along (`Standing`), the other issue comes and goes.
`issue_life` has one issue of at most five comments, two failing calls and one triage job: a plan, a
question, an answer and the link fit, with a comment of anyone's in between; a page holds all five,
as a page of 30 holds an ordinary thread. The token run's clock ticks every minute with the code's
own numbers (60, 1, 45); the theorems cover every choice of times. Restarts take no time. The diff
run takes lists of up to three files of one or two lines with caps of two files and three lines, so
that both caps are undercut, met and exceeded.

**Faults per run.** A property is checked under faults under which it holds; where another
fault breaks it, a violation run or the table above says so.

**Fairness.** `ReconcilerLiveness`: aborts come to an end, the worker finishes a call (every call returns or times
out), the workqueue serves every DevTask again (all paths but the final ones requeue), the
informers catch up, pods end (`activeDeadlineSeconds`), deleted pods and the contents of deleted
namespaces go (`Removal`), the TTL elapses.
Nothing is assumed of agent, reviewer or commenters. Reconcile of a task needs strong
fairness because the one worker may be busy at any moment. `GitHubPoller!FairSpec`: the
ticker, the informer, that failures come to an end, and that tasks end: the last is the
controller's `TaskSettles` plus a reviewer who decides. `IssueLife!Spec`: the controller goes on
serving the task, nothing else. `InstallationTokens!FairSpec`: time passes, the refresher goes on,
restarts come to an end, and a call that a tick's refresh makes again and again succeeds in the end
(strong fairness: it may fail any number of times before). Nothing is assumed of the refresh at
startup, which `main.go:214` runs before the cache it reads from is started: it may fail every time.
Without the end of restarts `OutageEnds` fails, since an operator that restarts within 45 minutes,
again and again, never reaches a tick.

**The cap on agents.** The documented cap does not hold (`cap_exceeded`). `CapHoldsForKnown` says by
how much it may be exceeded: after a creation, at most the limit is active besides the tasks that
the creator's cache did not show and those that other instances have created since it counted.
`AgentsAreCounted` says that a task which is over has no agent left in a live sandbox. Together they
bound the agents. A single module of poller and controller was tried and given up: with the two
tasks that a cap of one needs, it has more than ten million states before any fault.

## 4. Proofs

`DevTaskReconcilerProofs`, for any tasks, namespaces (shared or not), `MaxPR` and faults:

* `TypeCorrect` - `Spec => []TypeOK`.
* `TerminalStays`, `Refinement` - `Spec => TerminalIsFinal`, `Spec => ImplementsLifecycle`.
  Neither follows from types: a call decides from a cached status and writes many steps
  later. `CallInv` is the inductive invariant: at each step of a call, the phase it set out
  from is one from which what it will write is a legal move (`StepKnows`, `Move`); the cache,
  when synced, equals the status; and a call that set out from the newest version still
  holds it, since only a status write changes the status. The optimistic lock lets no other
  call write, so every write is a `Move` from the current status (`StatusMoves`), and each
  `Move` is a step of `Lifecycle` (`MoveRefines`).
* `AlwaysSandboxed` - `Spec => []PodsAreSandboxed`, a statement about active namespaces: a pod in a
  terminating one may have lost its policy. `EnsureKnows`: if the call's sandbox is active, the
  earlier ensure steps have left their object in it; and an absent namespace is empty. It is the
  conditional on "active" that survives a namespace terminating, being emptied and vanishing
  half-way: only `ensureNamespace` makes it active again.

`SandboxProofs`, where no two tasks share a namespace (`OwnNamespaces`: no two issues have the same
number; `sandbox_shared` shows what happens otherwise):

* `NoneForgotten` - `NoSandboxIsForgotten`, without dropped errors. `ReclaimInv` adds that a call
  about to write a status that names no namespace any more has seen its namespace deleted. Between
  the deletion and the write another call could bring the namespace back only if it started from an
  older status; `LagInv` says that neither cache nor call is more than one `Move` behind the status,
  and behind by the same one, and `HeldInv` that a task past its first phase holds a namespace unless
  it failed. Together they leave no older status from which a pod would be started.
* `EveryAgentCounts` - `AgentsAreCounted`, without late pod cache or dropped errors. `HomeInv`: a
  pod is in its task's namespace; `FitInv`: which of the two pods may be live in each phase, in the
  phase a late cache shows (`SpawnFits`), and at each step of a call from the newest status
  (`CallFits`). The invariant has to name both pods because `getPod` prefers `agent-rev`: an `agent`
  pod still running beside a finished `agent-rev` would be overlooked, and `FitInv` excludes it.

`ReviewProofs`:

* `ReviewedIsVetted` - `ReviewedDiffIsVetted`, with own namespaces and neither late pod cache nor
  dropped errors: the one that `getPod` drops breaks it. `VetInv` follows the verdict through the rest of the call; it holds because `FitInv` leaves no agent that
  could push.
* `RevisionsAsked` - `RevisionIsAsked`, without dropped errors. `AskInv`: a label that has had its
  round is only on the pull request of a task in AwaitingRevision, and is off as soon as the call
  has gone past `removePRLabel`.
* `ClarificationsHeard` - `ClarificationIsHeard`, with own namespaces and neither late pod cache nor
  dropped errors. `HeardInv`: a revision's pod is only ever next to a run that ended well, so that
  the failure `getPod` shows is that of the agent whose question was looked for.

`IssueLifeProofs`, for any number of comments, jobs and failing calls: `IssueTyped`;
`RejectionsExplained` (`CallInv`: a close comes after its comment, and a second comment only after a
failure). With one triage job at a time: `TriageTakesTurns` (`TurnInv`: a job past its guard does not
follow a comment of triage's) and, with patient maintainers, `PlansGated` (`GateInv`: labels follow
the job's steps, and `ready-for-development` comes only with a cleared plan). When nobody else posts
links and the thread fits the page: `ReviewsAnnounced` (`LinkInv`: a call about to post the link has
seen none). With an App and such a thread: `ResumesAnswered`, where the invariant is inductive
because no agent can ask while its task is blocked. The second table of section 3 shows that each
hypothesis is needed.

`DiffPolicyProofs`, for every list of files, issue body and caps: `PolicyEnforced`, `OffendersNamed`.
The pattern lists are shown to mean what the documentation says (`RestrictedMeans`, `RiskyMeans`), and
the loop keeps, for the files looked at, the offenders named (`NameInv`), whether there are any
(`ClearInv`) and the sum of their lines (`TotalInv`). The sum is stated without recursion: running
totals that lead to it exist, and no others fit.

`GitHubPollerProofs`, for any pollers, repositories, limits and failures, with caches however late:
`PollerTyped`; `CapIsKept` - `CapHoldsForKnown`. `CapInv`: the count a pass carries along is at least
the number of active tasks outside `missed`, for that pass; it survives tasks that end (the count
errs on the safe side), creations by others (they are missed) and the pass's own (they are counted).

`InstallationTokensProofs`, for all times with margin < lifetime and margin < period:
`TokensTyped`; `OutageBounded`, from `OutageInv`: since a successful refresh, the
validity left plus the time since the tick exceeds the margin plus the outage so far, and a refresh
in progress has a token with more than the margin in hand; `ConfigPreserved`.

Assumptions are the `ASSUME`s of the modules, which TLC evaluates on every run.

Only model-checked: liveness (`TaskSettles`, `SandboxIsReclaimed`, `DeferredIssueIsServed`,
`AnswerIsTaken`, `OutageEnds`), since the prover has no fairness reasoning; and `RevisionIsCarriedOut`,
which none of the faults leaves standing, so that a theorem would have to exclude them all.

## 5. Not modelled

* Contents of objects: network rules, container spec, environment and scripts of a pod. They are
  static, and what could be said of them over time is not so: NetworkPolicy and Secret are left as
  they are when they exist while pods are built from the operator's present environment, so a change
  of `EGRESS_PROXY_URL` or of the authentication mode between two rounds always shows. (Beside that,
  the scripts of a resumed and of a revising agent do not unset `ANTHROPIC_API_KEY` in oauth mode,
  although the comment at `pod.go:162` says the run script does.)
* Messages, timestamps, flags, metrics, webhooks and generated code.
* Deletion of a DevTask, of the App key or of a Secret by hand.
* Paging of pull requests, of which a task has few.
* What a prompt reads and how it decides; an agent's exit code.
* Set-up scripts and manifests, except `make secrets`, `make triage` and `make demo`.
* Poller and controller in one module (section 3, "The cap on agents").

## 6. Plan

Done: the controller with its life cycle and liveness; the poller and the proof of its cap; the App
tokens with key rotation; the diff policy; the comment thread, triage and their composition.

Left for the proofs: a form of `AgentsAreCounted` and `NoSandboxIsForgotten` that also holds in
shared namespaces, and hypotheses of `ClarificationsHeard` and `EveryAgentCounts` on single calls
rather than on kinds of faults. Left for the models: a bound on `missed` from how long an informer
may be late, which would give the cap a number.
