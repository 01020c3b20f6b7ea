--------------------------- MODULE MCNodeRegistry ---------------------------
(* The clusters NodeRegistry is model-checked on. *)
EXTENDS NodeRegistry, TLC

CONSTANTS n1, n2, n3, refresh1, refresh2, wait1, wait2, recycle1

OwnIP == n1 :> 1 @@ n2 :> 2 @@ n3 :> 3

\* One goroutine refreshes, another waits for the driver on a node.
RefreshAndWait ==
    [machines |-> {n1, n2, n3}, disabled |-> {n3}, ip |-> OwnIP, uuids |-> 5, churn |-> 1,
     refreshers |-> {refresh1}, waiters |-> {wait1}, recyclers |-> {}]
\* Two wait, on the same node or on two.
TwoWaiters ==
    [machines |-> {n1, n2}, disabled |-> {}, ip |-> OwnIP, uuids |-> 4, churn |-> 0,
     refreshers |-> {refresh1}, waiters |-> {wait1, wait2}, recyclers |-> {}]
TwoRefreshers ==
    [machines |-> {n1, n2}, disabled |-> {}, ip |-> OwnIP, uuids |-> 5, churn |-> 0,
     refreshers |-> {refresh1, refresh2}, waiters |-> {}, recyclers |-> {}]
\* The machine that replaces n1 gets its address.
Recycling ==
    [machines |-> {n1, n2}, disabled |-> {}, ip |-> [OwnIP EXCEPT ![n3] = 1], uuids |-> 4, churn |-> 0,
     refreshers |-> {refresh1}, waiters |-> {}, recyclers |-> {recycle1}]

AllScenes == {RefreshAndWait, TwoWaiters, TwoRefreshers, Recycling}
=============================================================================
