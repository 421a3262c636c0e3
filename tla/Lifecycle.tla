------------------------------- MODULE Lifecycle -------------------------------
(***************************************************************************)
(* What the DevTask API promises to whoever watches it: the life of a      *)
(* task's Status, one step per Status().Update, with nothing of how the    *)
(* controller gets there.  ARCHITECTURE.md draws this machine; unlike the  *)
(* drawing, a pod that ends between two polls takes a Building task        *)
(* straight to what it would otherwise reach from Running.                 *)
(***************************************************************************)
EXTENDS Naturals

CONSTANTS Tasks, MaxPR

VARIABLES phase,   \* Status.Phase
          held,    \* Status.Namespace names a sandbox still to be reclaimed
          pr       \* Status.PRNumber, 0 for none

vars == <<phase, held, pr>>

Init ==
    /\ phase = [t \in Tasks |-> ""]
    /\ held = [t \in Tasks |-> FALSE]
    /\ pr = [t \in Tasks |-> 0]

Enter(t, p) == phase' = [phase EXCEPT ![t] = p]

\* An agent is (re)started for a new, a revised or a resumed task.
Spawn(t) ==
    /\ phase[t] \in {"", "AwaitingRevision", "BlockedOnClarification"}
    /\ Enter(t, "Building")
    /\ held' = [held EXCEPT ![t] = TRUE]
    /\ UNCHANGED pr

AgentRuns(t) ==
    /\ phase[t] = "Building"
    /\ Enter(t, "Running")
    /\ UNCHANGED <<held, pr>>

\* A pull request goes to review; once a number is recorded it never changes.
Submit(t) ==
    /\ phase[t] \in {"Building", "Running"}
    /\ Enter(t, "AwaitingReview")
    /\ \E p \in 1 .. MaxPR :
         /\ pr[t] \in {0, p}
         /\ pr' = [pr EXCEPT ![t] = p]
    /\ UNCHANGED held

AskHuman(t) ==
    /\ phase[t] \in {"Building", "Running"}
    /\ Enter(t, "BlockedOnClarification")
    /\ UNCHANGED <<held, pr>>

\* A task fails with its sandbox kept for inspection, or already torn down.
Fail(t) ==
    /\ phase[t] \in {"Building", "Running"}
    /\ Enter(t, "Failed")
    /\ held' \in {held, [held EXCEPT ![t] = FALSE]}
    /\ UNCHANGED pr

RequestRevision(t) ==
    /\ phase[t] = "AwaitingReview"
    /\ Enter(t, "AwaitingRevision")
    /\ UNCHANGED <<held, pr>>

Complete(t) ==
    /\ phase[t] = "AwaitingReview"
    /\ Enter(t, "Completed")
    /\ UNCHANGED <<held, pr>>

\* The sandbox of a failed task is reclaimed; the task stays Failed.
Reclaim(t) ==
    /\ phase[t] = "Failed"
    /\ held[t]
    /\ held' = [held EXCEPT ![t] = FALSE]
    /\ UNCHANGED <<phase, pr>>

Next == \E t \in Tasks :
    \/ Spawn(t) \/ AgentRuns(t) \/ Submit(t) \/ AskHuman(t) \/ Fail(t)
    \/ RequestRevision(t) \/ Complete(t) \/ Reclaim(t)

Spec == Init /\ [][Next]_vars
=============================================================================
