----------------------------- MODULE KeyedQueue -----------------------------
(***************************************************************************)
(* What the controller relies on in its work queue: a key that was added   *)
(* is handed out, and while it is worked on nobody else gets it, even if   *)
(* it is added again.                                                      *)
(***************************************************************************)
CONSTANT Keys

VARIABLES
    pending,  \* keys to be handed out
    active    \* keys being worked on

queueVars == <<pending, active>>

Init == pending = {} /\ active = {}

\* A key is added; it may be one that is pending or worked on.
Mark(k) ==
    /\ pending' = pending \cup {k}
    /\ UNCHANGED active

\* A worker gets the key.
Begin(k) ==
    /\ k \in pending \ active
    /\ pending' = pending \ {k}
    /\ active' = active \cup {k}

\* The worker is done with the key.
Finish(k) ==
    /\ k \in active
    /\ active' = active \ {k}
    /\ UNCHANGED pending

Next == \E k \in Keys : Mark(k) \/ Begin(k) \/ Finish(k)

Spec == Init /\ [][Next]_queueVars

=============================================================================
