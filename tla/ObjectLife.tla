----------------------------- MODULE ObjectLife -----------------------------
(***************************************************************************)
(* The life of a VirtualMachine object, as far as the controller relies on *)
(* it: it is born with our finalizer, whoever creates it; a deletion is    *)
(* never undone; and while a finalizer is there so is the object.          *)
(***************************************************************************)
CONSTANTS
    Uids,        \* incarnations
    Finalizers,
    Ours,        \* our finalizer
    None         \* "no object"

VARIABLE object

Init == object = None

Born ==
    /\ object = None
    /\ \E u \in Uids, f \in SUBSET Finalizers :
          object' = [uid |-> u, deleting |-> FALSE, finalizers |-> f \cup {Ours}]

\* No finalizer is added to an object under deletion.
Written ==
    /\ object # None
    /\ \E f \in SUBSET Finalizers :
          /\ object' = [object EXCEPT !.finalizers = f]
          /\ object.deleting => f # {} /\ f \subseteq object.finalizers

Marked ==
    /\ object # None
    /\ object.finalizers # {}
    /\ object' = [object EXCEPT !.deleting = TRUE]

\* The object goes with its last finalizer.
Gone ==
    /\ object # None
    /\ object.deleting \/ object.finalizers = {}
    /\ object' = None

Next == Born \/ Written \/ Marked \/ Gone

Spec == Init /\ [][Next]_object

=============================================================================
