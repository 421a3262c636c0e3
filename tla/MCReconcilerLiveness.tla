------------------------- MODULE MCReconcilerLiveness -------------------------
(* One task in its own namespace: tasks meet only in the order in which the *)
(* single worker serves them.                                               *)
EXTENDS ReconcilerLiveness

CONSTANTS t1, n1

OneNs == [t \in {t1} |-> n1]
=============================================================================
