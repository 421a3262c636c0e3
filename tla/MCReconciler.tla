----------------------------- MODULE MCReconciler -----------------------------
(* One task in its own namespace, or two tasks whose issues, of different   *)
(* repositories, have the same number and so the same namespace name.       *)
EXTENDS DevTaskReconciler

CONSTANTS t1, t2, n1

OneNs == [t \in {t1} |-> n1]
SharedNs == [t \in {t1, t2} |-> n1]

\* Everything but history (owed, vetted, taken) and what no guard reads (the
\* age of a token, all of a cached pod but its phase): no other variable and no
\* move of the life cycle depends on them.
CoreView ==
    <<status, cache, synced, work, ns, policy, [n \in Namespaces |-> secret[n] # "none"], pods,
      [n \in Namespaces |-> [m \in PodNames |-> podCache[n][m].phase]],
      [t \in Tasks |-> [p \in PRs |-> <<prs[t][p].state, prs[t][p].head, prs[t][p].label # "none">>]],
      thread, expired>>
=============================================================================
