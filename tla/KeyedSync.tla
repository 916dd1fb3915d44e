------------------------------ MODULE KeyedSync ------------------------------
(***************************************************************************)
(* What the sync loop of the RedisCluster operator promises its callers,   *)
(* without queues, workers or goroutines: a key that was marked is handled  *)
(* later, unless a sync of it never finishes; marks that arrive while the   *)
(* key is being handled are not lost, and one key is handled by at most one *)
(* sync at a time.                                                          *)
(***************************************************************************)
CONSTANT Keys

VARIABLES pending,   \* keys marked since their last sync began
          busy       \* keys whose sync is running

vars == <<pending, busy>>

Init == pending = {} /\ busy = {}

\* An event handler, a retry or a resync asks for a sync of k.
Mark(k) ==
    /\ pending' = pending \cup {k}
    /\ UNCHANGED busy

\* The sync of k begins; it answers every mark made so far.
Start(k) ==
    /\ k \in pending
    /\ k \notin busy
    /\ pending' = pending \ {k}
    /\ busy' = busy \cup {k}

Finish(k) ==
    /\ k \in busy
    /\ busy' = busy \ {k}
    /\ UNCHANGED pending

\* The operator process dies and is started again.
Reset == pending' = {} /\ busy' = {}

Next ==
    \/ \E k \in Keys : Mark(k) \/ Start(k) \/ Finish(k)
    \/ Reset

Safety == Init /\ [][Next]_vars

Spec == Safety /\ \A k \in Keys : WF_vars(Start(k))
=============================================================================
