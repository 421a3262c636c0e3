--------------------------- MODULE GitHubPollerProofs ---------------------------
(***************************************************************************)
(* The concurrency cap, for any number of operator instances, issues and   *)
(* repositories, any limit and caches that are late about everything: a    *)
(* creation keeps the cap, but for the tasks its pass cannot have counted. *)
(***************************************************************************)
EXTENDS GitHubPoller, FiniteSetTheorems, TLAPS

USE LimitAssumption, IssuesAssumption

\* The active tasks besides those in m, and their number.
Known(tasks, m) == ActiveIn(tasks) \ m
Load(tasks, m) == Cardinality(Known(tasks, m))

\* A pass is a record; only its count and its flag matter here.
PassShape(p) == p \in [repo: {p.repo}, todo: {p.todo}, active: Nat, listed: BOOLEAN]

\* Once a pass has counted, its count is no smaller than the load it can know of:
\* tasks that end lower the load, every task the pass creates raises both, and
\* the tasks of other passes are missed.
CapInv ==
    /\ task \in [Issues -> TaskStates]
    /\ missed = [q \in Pollers |-> missed[q]]
    /\ poll = [q \in Pollers |-> poll[q]]
    /\ \A q \in Pollers : PassShape(poll[q])
    /\ \A q \in Pollers : poll[q].listed => Load(task, missed[q]) <= poll[q].active

LEMMA KnownTyped ==
  ASSUME NEW f, NEW m
  PROVE  IsFiniteSet(Known(f, m)) /\ Load(f, m) \in Nat
<1>1. Known(f, m) \in SUBSET Issues
  BY DEF Known, ActiveIn
<1> QED
  BY <1>1, FS_Subset, FS_CardinalityType DEF Load

\* Fewer tasks are no more; one more task is one more at most.
LEMMA LoadMoves ==
  ASSUME NEW f, NEW m, NEW g, NEW n
  PROVE  /\ Known(g, n) \subseteq Known(f, m) => Load(g, n) <= Load(f, m)
         /\ \A i : Known(g, n) \subseteq Known(f, m) \cup {i} => Load(g, n) <= Load(f, m) + 1
<1>1. /\ IsFiniteSet(Known(f, m)) /\ Load(f, m) \in Nat
      /\ IsFiniteSet(Known(g, n)) /\ Load(g, n) \in Nat
  BY KnownTyped
<1>2. ASSUME Known(g, n) \subseteq Known(f, m) PROVE Load(g, n) <= Load(f, m)
  BY <1>1, <1>2, FS_Subset DEF Load
<1>3. ASSUME NEW i, Known(g, n) \subseteq Known(f, m) \cup {i} PROVE Load(g, n) <= Load(f, m) + 1
  <2>1. /\ IsFiniteSet(Known(f, m) \cup {i})
        /\ Cardinality(Known(f, m) \cup {i}) = IF i \in Known(f, m) THEN Load(f, m) ELSE Load(f, m) + 1
    BY <1>1, FS_AddElement DEF Load
  <2>2. Load(g, n) <= Cardinality(Known(f, m) \cup {i})
    BY <1>3, <2>1, FS_Subset DEF Load
  <2> QED
    BY <1>1, <2>1, <2>2
<1> QED
  BY <1>2, <1>3

LEMMA StartShape ==
  ASSUME NEW r
  PROVE  PassShape(StartRepo(r)) /\ ~StartRepo(r).listed /\ PassShape(Waiting) /\ ~Waiting.listed
  BY DEF StartRepo, Waiting, PassShape

\* A step within the loop.
LEMMA AdvanceShape ==
  ASSUME CapInv, NEW q \in Pollers, NEW n \in {0, 1}, Advance(q, n)
  PROVE  /\ poll' = [p \in Pollers |-> poll'[p]]
         /\ \A p \in Pollers : PassShape(poll'[p])
         /\ poll'[q].active = poll[q].active + n /\ poll'[q].listed = poll[q].listed
         /\ \A p \in Pollers : p # q => poll'[p] = poll[p]
<1> DEFINE td == poll[q].todo \ {Min(poll[q].todo)}
           a == poll[q].active + n
           v == [poll[q] EXCEPT !.todo = td, !.active = a]
<1>1. poll' = [poll EXCEPT ![q] = v]
  BY DEF Advance, CapInv
<1>2. PassShape(poll[q]) /\ a \in Nat
  BY DEF CapInv, PassShape
<1> HIDE DEF td, a
<1>3. PassShape(v) /\ v.active = a /\ v.listed = poll[q].listed
  BY <1>2 DEF PassShape
<1> HIDE DEF v
<1> QED
  BY <1>1, <1>3 DEF CapInv, a

\* What a creation does to what the passes know: the creator's load grows by one
\* at most, as its count does, and that of the others not at all.
LEMMA CreationCounts ==
  ASSUME CapInv, NEW q \in Pollers, CreateTask(q)
  PROVE  /\ Load(task', missed[q]) <= Load(task, missed[q]) + 1
         /\ Load(task, missed[q]) <= poll[q].active /\ poll[q].active < Limit
         /\ missed'[q] = missed[q]
         /\ \A p \in Pollers : p # q /\ poll[p].listed => Load(task', missed'[p]) <= Load(task, missed[p])
<1> DEFINE i == NextIssue(q)
<1>1. /\ task' = [task EXCEPT ![i] = "active"]
      /\ missed' = [p \in Pollers |-> IF p # q /\ poll[p].listed THEN missed[p] \cup (ActiveIn(task') \ ActiveIn(task)) ELSE missed[p]]
  BY DEF CreateTask
<1> HIDE DEF i
<1>2. Known(task', missed[q]) \subseteq Known(task, missed[q]) \cup {i}
  BY <1>1 DEF Known, ActiveIn, CapInv
<1>3. ASSUME NEW p \in Pollers, p # q, poll[p].listed
      PROVE  Known(task', missed'[p]) \subseteq Known(task, missed[p])
  BY <1>1, <1>3 DEF Known, ActiveIn, CapInv
<1>4. poll[q].listed /\ poll[q].active < Limit
  BY DEF CreateTask, MayCreate, InLoop, allowCreate
<1> QED
  BY <1>1, <1>2, <1>3, <1>4, LoadMoves DEF CapInv

LEMMA CapStep ==
  ASSUME CapInv, [Next]_vars
  PROVE  CapInv'
<1>0. \A q \in Pollers : Load(task, missed[q]) \in Nat /\ poll[q].active \in Nat
  BY KnownTyped DEF CapInv, PassShape
\* A step that starts or ends a pass.
<1>1. ASSUME NEW q \in Pollers, NEW v, PassShape(v), ~v.listed,
             poll' = [poll EXCEPT ![q] = v], UNCHANGED task,
             missed' = missed \/ missed' = [missed EXCEPT ![q] = {}]
      PROVE  CapInv'
  BY <1>1 DEF CapInv
\* A step within the loop that creates nothing.
<1>3. ASSUME NEW q \in Pollers, Advance(q, 0), UNCHANGED <<task, missed>> PROVE CapInv'
  <2>1. /\ poll' = [p \in Pollers |-> poll'[p]]
        /\ \A p \in Pollers : PassShape(poll'[p])
        /\ \A p \in Pollers : poll'[p].active = poll[p].active /\ poll'[p].listed = poll[p].listed
    BY <1>0, <1>3, AdvanceShape
  <2> QED
    BY <1>3, <2>1 DEF CapInv
<1>4. ASSUME NEW q \in Pollers, CreateTask(q) PROVE CapInv'
  <2>1. /\ poll' = [p \in Pollers |-> poll'[p]]
        /\ \A p \in Pollers : PassShape(poll'[p])
        /\ poll'[q].active = poll[q].active + 1 /\ poll'[q].listed = poll[q].listed
        /\ \A p \in Pollers : p # q => poll'[p] = poll[p]
    BY <1>4, AdvanceShape DEF CreateTask
  <2>2. task' \in [Issues -> TaskStates] /\ missed' = [p \in Pollers |-> missed'[p]]
    BY <1>4 DEF CapInv, CreateTask, TaskStates
  <2>3. \A p \in Pollers : Load(task', missed'[p]) \in Nat
    BY KnownTyped
  <2>4. Load(task', missed'[q]) <= poll'[q].active
    BY <1>0, <1>4, <2>1, <2>3, CreationCounts
  <2>5. ASSUME NEW p \in Pollers, p # q, poll[p].listed PROVE Load(task', missed'[p]) <= poll[p].active
    <3>1. Load(task', missed'[p]) <= Load(task, missed[p])
      BY <1>4, <2>5, CreationCounts
    <3>2. Load(task, missed[p]) <= poll[p].active
      BY <2>5 DEF CapInv
    <3> QED
      BY <1>0, <2>3, <3>1, <3>2
  <2> QED
    BY <2>1, <2>2, <2>4, <2>5 DEF CapInv
<1>5. ASSUME NEW i \in Issues, TaskEnds(i) PROVE CapInv'
  <2>1. task' = [task EXCEPT ![i] = "terminal"] /\ task' \in [Issues -> TaskStates] /\ UNCHANGED <<poll, missed>>
    BY <1>5 DEF CapInv, TaskEnds, TaskStates
  <2>2. ASSUME NEW q \in Pollers, poll[q].listed PROVE Load(task', missed[q]) <= poll[q].active
    <3>1. Known(task', missed[q]) \subseteq Known(task, missed[q])
      BY <2>1 DEF Known, ActiveIn, CapInv
    <3>2. Load(task', missed[q]) <= Load(task, missed[q]) /\ Load(task', missed[q]) \in Nat
      BY <3>1, LoadMoves, KnownTyped
    <3>3. Load(task, missed[q]) <= poll[q].active
      BY <2>2 DEF CapInv
    <3> QED
      BY <1>0, <3>2, <3>3
  <2> QED
    BY <2>1, <2>2 DEF CapInv
<1>6. ASSUME NEW q \in Pollers, pollRepo(q) PROVE CapInv'
  <2> DEFINE td == listByRepo(Repos[poll[q].repo])
             a == countActiveDevTasks(q)
             u == ActiveIn(task) \ ActiveIn(view[q])
             v == [poll[q] EXCEPT !.todo = td, !.active = a, !.listed = TRUE]
  <2>1. a \in Nat /\ Load(task, u) <= a
    <3>1. Known(task, u) \subseteq Known(view[q], {}) /\ Known(view[q], {}) = ActiveIn(view[q])
      BY DEF Known
    <3>2. a = Load(view[q], {})
      BY <3>1 DEF countActiveDevTasks, Load
    <3> QED
      BY <3>1, <3>2, LoadMoves, KnownTyped
  <2>2. poll' = [poll EXCEPT ![q] = v] /\ UNCHANGED task /\ missed' = [missed EXCEPT ![q] = u]
    BY <1>6 DEF pollRepo, CapInv
  <2>3. PassShape(poll[q])
    BY DEF CapInv
  <2> HIDE DEF td, a, u
  <2>4. PassShape(v) /\ v.active = a
    BY <2>1, <2>3 DEF PassShape
  <2> HIDE DEF v
  <2> QED
    BY <2>1, <2>2, <2>4 DEF CapInv
<1>7. ASSUME NEW q \in Pollers, Tick(q) PROVE CapInv'
  BY <1>7, <1>1, StartShape DEF Tick
<1>8. ASSUME NEW q \in Pollers, RepoDone(q) \/ PollFails(q) PROVE CapInv'
  BY <1>8, <1>1, StartShape DEF RepoDone, PollFails
<1>9. ASSUME NEW q \in Pollers, Restart(q) PROVE CapInv'
  BY <1>9, <1>1, StartShape DEF Restart
<1>10. ASSUME NEW q \in Pollers, SkipPull(q) \/ SkipIssue(q) \/ CreateFails(q) PROVE CapInv'
  BY <1>10, <1>3 DEF SkipPull, SkipIssue, CreateFails
<1>11. CASE UNCHANGED <<task, poll, missed>>
  BY <1>11 DEF CapInv
<1> QED
  BY <1>4, <1>5, <1>6, <1>7, <1>8, <1>9, <1>10, <1>11
  DEF Next, Around, Poll, Label, Unlabel, SyncTask, vars

\* A creation leaves at most MAX_CONCURRENT_TASKS tasks active besides those its
\* pass cannot have counted: with any number of operator instances, whatever
\* fails, whenever one restarts and however late the caches are.
THEOREM CapIsKept == Spec => CapHoldsForKnown
<1>1. Init => CapInv
  BY StartShape DEF Init, CapInv, TaskStates
<1>2. CapInv /\ [Next]_vars => CapInv'
  BY CapStep
<1>3. CapInv /\ [Next]_vars
        => [\A q \in Pollers : CreateTask(q) => Cardinality(ActiveIn(task') \ missed[q]) <= Limit]_vars
  <2> SUFFICES ASSUME CapInv, NEW q \in Pollers, CreateTask(q) PROVE Load(task', missed[q]) <= Limit
    BY DEF Load, Known
  <2>1. Load(task', missed[q]) \in Nat /\ Load(task, missed[q]) \in Nat /\ poll[q].active \in Nat
    BY KnownTyped DEF CapInv, PassShape
  <2> QED
    BY <2>1, CreationCounts
<1> QED
  BY <1>1, <1>2, <1>3, PTL DEF Spec, CapHoldsForKnown

-----------------------------------------------------------------------------
(* The pass                                                                *)

\* A pass that has listed is at a repository, and in its listing.
PassOK(p) ==
    /\ p \in Polls
    /\ p.listed => p.repo # 0 /\ p.todo \subseteq DOMAIN Listing[Repos[p.repo]]

LEMMA StartOK ==
  ASSUME NEW r \in Nat \ {0}
  PROVE  PassOK(StartRepo(r)) /\ PassOK(Waiting)
<1>1. Len(Repos) \in Nat
  BY ReposAssumption
<1>2. ASSUME NEW n \in 0 .. Len(Repos)
      PROVE  PassOK([repo |-> n, todo |-> {}, active |-> 0, listed |-> FALSE])
  <2> DEFINE w == [repo |-> n, todo |-> {}, active |-> 0, listed |-> FALSE]
  <2>1. w \in Polls /\ ~w.listed
    BY DEF Polls
  <2> HIDE DEF w
  <2> QED
    BY <2>1 DEF PassOK, w
<1>3. PassOK(Waiting)
  BY <1>1, <1>2 DEF Waiting
<1>4. CASE r <= Len(Repos)
  <2>1. StartRepo(r) = [repo |-> r, todo |-> {}, active |-> 0, listed |-> FALSE]
    BY <1>4 DEF StartRepo, Waiting
  <2> QED
    BY <1>1, <1>2, <1>3, <1>4, <2>1
<1> QED
  BY <1>3, <1>4 DEF StartRepo

LEMMA ListingOK ==
  ASSUME NEW r \in 1 .. Len(Repos)
  PROVE  listByRepo(Repos[r]) \in SUBSET Nat /\ listByRepo(Repos[r]) \subseteq DOMAIN Listing[Repos[r]]
<1>1. Repos[r] \in DOMAIN Listing
  BY ReposAssumption
<1>2. Listing[Repos[r]] \in Seq(Issues)
  BY <1>1, ReposAssumption
<1>3. DOMAIN Listing[Repos[r]] \subseteq Nat
  BY <1>2
<1> QED
  BY <1>3 DEF listByRepo

LEMMA PassStep ==
  ASSUME TypeOK, [Next]_vars
  PROVE  TypeOK'
<1>0. Len(Repos) \in Nat /\ task \in [Issues -> TaskStates] /\ \A q \in Pollers : PassOK(poll[q])
  BY ReposAssumption DEF TypeOK, PassOK
<1>1. ASSUME NEW q \in Pollers, NEW v, PassOK(v), poll' = [poll EXCEPT ![q] = v]
      PROVE  poll' \in [Pollers -> Polls] /\ \A p \in Pollers : PassOK(poll'[p])
  BY <1>0, <1>1 DEF TypeOK, PassOK
<1>2. ASSUME poll' \in [Pollers -> Polls], \A p \in Pollers : PassOK(poll'[p]),
             labelled' \subseteq Issues, task' \in [Issues -> TaskStates], view' \in [Pollers -> [Issues -> TaskStates]],
             missed' \in [Pollers -> SUBSET Issues]
      PROVE  TypeOK'
  BY <1>2 DEF TypeOK, PassOK
<1>3. ASSUME NEW q \in Pollers, NEW n \in {0, 1}, Advance(q, n)
      PROVE  poll' \in [Pollers -> Polls] /\ \A p \in Pollers : PassOK(poll'[p])
  <2> DEFINE td == poll[q].todo \ {Min(poll[q].todo)}
             a == poll[q].active + n
             v == [poll[q] EXCEPT !.todo = td, !.active = a]
  <2>1. poll' = [poll EXCEPT ![q] = v]
    BY <1>3 DEF Advance, TypeOK
  <2>2. poll[q] \in Polls /\ PassOK(poll[q])
    BY <1>0 DEF PassOK
  <2>3. a \in Nat /\ td \subseteq poll[q].todo /\ td \in SUBSET Nat
    BY <2>2 DEF Polls
  <2> HIDE DEF td, a
  <2>4. v \in Polls /\ v.todo = td /\ v.repo = poll[q].repo /\ v.listed = poll[q].listed
    BY <2>2, <2>3 DEF Polls
  <2> HIDE DEF v
  <2>5. PassOK(v)
    BY <2>2, <2>3, <2>4 DEF PassOK
  <2> QED
    BY <1>1, <2>1, <2>5
<1>4. ASSUME NEW q \in Pollers, pollRepo(q)
      PROVE  poll' \in [Pollers -> Polls] /\ \A p \in Pollers : PassOK(poll'[p])
  <2> DEFINE r == poll[q].repo
             td == listByRepo(Repos[r])
             a == countActiveDevTasks(q)
             v == [poll[q] EXCEPT !.todo = td, !.active = a, !.listed = TRUE]
  <2>1. poll' = [poll EXCEPT ![q] = v] /\ r # 0
    BY <1>4 DEF pollRepo, TypeOK
  <2>2. poll[q] \in Polls
    BY <1>0 DEF PassOK
  <2>3. r \in 1 .. Len(Repos)
    BY <1>0, <2>1, <2>2 DEF Polls
  <2>4. a \in Nat
    <3>1. ActiveIn(view[q]) \in SUBSET Issues
      BY DEF ActiveIn
    <3> QED
      BY <3>1, FS_Subset, FS_CardinalityType DEF countActiveDevTasks
  <2>5. td \in SUBSET Nat /\ td \subseteq DOMAIN Listing[Repos[r]]
    BY <2>3, ListingOK
  <2> HIDE DEF td, a
  <2>6. v \in Polls /\ v.todo = td /\ v.repo = r
    BY <2>2, <2>4, <2>5 DEF Polls
  <2> HIDE DEF v
  <2>7. PassOK(v)
    BY <2>1, <2>5, <2>6 DEF PassOK
  <2> QED
    BY <1>1, <2>1, <2>7
<1>5. ASSUME NEW q \in Pollers, Tick(q) \/ RepoDone(q) \/ PollFails(q) PROVE TypeOK'
  <2>1. poll[q].repo + 1 \in Nat \ {0} /\ 1 \in Nat \ {0}
    BY <1>0 DEF PassOK, Polls
  <2>2. PassOK(StartRepo(poll[q].repo + 1)) /\ PassOK(StartRepo(1))
    BY <2>1, StartOK
  <2> QED
    BY <1>1, <1>2, <1>5, <2>2 DEF Tick, RepoDone, PollFails, TypeOK
<1>6. ASSUME NEW q \in Pollers, Restart(q) PROVE TypeOK'
  <2>1. PassOK(Waiting)
    BY StartOK
  <2>2. /\ poll' = [poll EXCEPT ![q] = Waiting] /\ view' = [view EXCEPT ![q] = task]
        /\ missed' = [missed EXCEPT ![q] = {}] /\ UNCHANGED <<labelled, task>>
    BY <1>6 DEF Restart
  <2>3. view' \in [Pollers -> [Issues -> TaskStates]]
    BY <1>0, <2>2 DEF TypeOK
  <2> QED
    BY <1>1, <1>2, <2>1, <2>2, <2>3 DEF TypeOK
<1>7. ASSUME NEW q \in Pollers, SkipPull(q) \/ SkipIssue(q) \/ CreateFails(q) PROVE TypeOK'
  BY <1>2, <1>3, <1>7 DEF SkipPull, SkipIssue, CreateFails, TypeOK
<1>11. ASSUME NEW q \in Pollers, pollRepo(q) PROVE TypeOK'
  <2>1. missed' \in [Pollers -> SUBSET Issues] /\ UNCHANGED <<labelled, task, view>>
    BY <1>11 DEF pollRepo, ActiveIn, TypeOK
  <2> QED
    BY <1>2, <1>4, <1>11, <2>1 DEF TypeOK
<1>8. ASSUME NEW q \in Pollers, CreateTask(q) PROVE TypeOK'
  <2> DEFINE i == NextIssue(q)
  <2>1. /\ task' = [task EXCEPT ![i] = "active"] /\ UNCHANGED <<labelled, view>> /\ Advance(q, 1)
        /\ missed' = [p \in Pollers |-> IF p # q /\ poll[p].listed
                                       THEN missed[p] \cup (ActiveIn(task') \ ActiveIn(task)) ELSE missed[p]]
    BY <1>8 DEF CreateTask
  <2> HIDE DEF i
  <2>2. task' \in [Issues -> TaskStates]
    BY <1>0, <2>1 DEF TaskStates
  <2>3. missed' \in [Pollers -> SUBSET Issues]
    BY <2>1 DEF TypeOK, ActiveIn
  <2> QED
    BY <1>2, <1>3, <2>1, <2>2, <2>3 DEF TypeOK
<1>9. CASE Around
  <2>1. UNCHANGED <<poll, missed>>
    BY <1>9 DEF Around, Label, Unlabel, TaskEnds, SyncTask
  <2>2. labelled' \subseteq Issues
    BY <1>9 DEF Around, Label, Unlabel, TaskEnds, SyncTask, TypeOK
  <2>3. task' \in [Issues -> TaskStates]
    BY <1>0, <1>9 DEF Around, Label, Unlabel, TaskEnds, SyncTask, TaskStates
  <2>4. view' \in [Pollers -> [Issues -> TaskStates]]
    <3>1. ASSUME NEW q \in Pollers, NEW k \in Issues, SyncTask(q, k)
          PROVE  view' \in [Pollers -> [Issues -> TaskStates]]
      <4>1. task[k] \in TaskStates /\ view[q] \in [Issues -> TaskStates] /\ view' = [view EXCEPT ![q][k] = task[k]]
        BY <1>0, <3>1 DEF SyncTask, TypeOK
      <4> QED
        BY <4>1 DEF TypeOK
    <3> QED
      BY <1>9, <3>1 DEF Around, Label, Unlabel, TaskEnds, TypeOK
  <2> QED
    BY <1>0, <1>2, <2>1, <2>2, <2>3, <2>4 DEF TypeOK
<1>10. CASE UNCHANGED vars
  BY <1>10 DEF TypeOK, vars
<1> QED
  BY <1>5, <1>6, <1>7, <1>8, <1>9, <1>10, <1>11 DEF Next, Poll

\* Any number of pollers stay within their repositories and listings, whatever
\* fails and however late their caches are.
THEOREM PollerTyped == Spec => []TypeOK
<1>1. Init => TypeOK
  <2> SUFFICES ASSUME Init PROVE TypeOK
    OBVIOUS
  <2>1. PassOK(Waiting) /\ ~Waiting.listed
    BY StartOK DEF Waiting
  <2> QED
    BY <2>1 DEF Init, TypeOK, TaskStates, PassOK
<1>2. TypeOK /\ [Next]_vars => TypeOK'
  BY PassStep
<1> QED
  BY <1>1, <1>2, PTL DEF Spec
=============================================================================
