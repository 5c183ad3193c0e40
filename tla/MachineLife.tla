---------------------------- MODULE MachineLife -----------------------------
(***************************************************************************)
(* What a VirtualMachine object promises its user: a GCE instance of its   *)
(* own, and a secret with the key that opens it.  An object that has its   *)
(* secret keeps instance and key until it is deleted, and the next object  *)
(* of the name starts from nothing.                                        *)
(***************************************************************************)
CONSTANTS
    Uids,      \* incarnations of the object
    KeyPairs,
    None,      \* "no object", "no instance" or "no secret"
    Clean      \* no object goes before its instance

VARIABLES
    object,    \* its incarnation and whether it is under deletion
    key,       \* the key that opens its instance
    secret     \* the key the user has, and the incarnation it was made for

machine == <<object, key, secret>>

Init == object = None /\ key = None /\ secret = None

\* The secret was made for the object that is there now.
Own == object # None /\ secret # None /\ secret.owner = object.uid

\* The user has no key to what is set up with this pair.
New(p) == secret # None => secret.key # p

\* The user creates the object.
Created ==
    /\ object = None
    /\ \E u \in Uids :
          /\ secret # None => secret.owner # u
          /\ object' = [uid |-> u, deleting |-> FALSE]
    /\ UNCHANGED <<key, secret>>

\* The user deletes it.
Marked ==
    /\ object # None
    /\ object' = [object EXCEPT !.deleting = TRUE]
    /\ UNCHANGED <<key, secret>>

\* The object goes, after its instance.
Removed ==
    /\ object # None
    /\ object.deleting
    /\ Clean => key = None
    /\ object' = None
    /\ UNCHANGED <<key, secret>>

\* The object gets its instance.
Booted ==
    /\ object # None
    /\ key = None
    /\ ~Own
    /\ \E p \in KeyPairs : New(p) /\ key' = p
    /\ UNCHANGED <<object, secret>>

\* Nobody has the key of the instance: it gets another one.
Rekeyed ==
    /\ key # None
    /\ ~Own
    /\ \E p \in KeyPairs : New(p) /\ key' = p
    /\ UNCHANGED <<object, secret>>

\* The instance of an object that can be used goes with a deletion only.
Stopped ==
    /\ key # None
    /\ Own => object.deleting
    /\ key' = None
    /\ UNCHANGED <<object, secret>>

\* The user gets the key.
Published ==
    /\ object # None
    /\ key # None
    /\ secret = None
    /\ secret' = [owner |-> object.uid, key |-> key]
    /\ UNCHANGED <<object, key>>

\* The secret is deleted, by a user or as garbage.
Forgotten ==
    /\ secret # None
    /\ secret' = None
    /\ UNCHANGED <<object, key>>

Next ==
    \/ Created \/ Marked \/ Removed
    \/ Booted \/ Rekeyed \/ Stopped
    \/ Published \/ Forgotten

Spec == Init /\ [][Next]_machine

-----------------------------------------------------------------------------
(* What follows for the user.                                              *)

TypeOK ==
    /\ object \in [uid : Uids, deleting : BOOLEAN] \cup {None}
    /\ key \in KeyPairs \cup {None}
    /\ secret \in [owner : Uids, key : KeyPairs] \cup {None}

\* The secret of the object opens its instance.
Opens == Own /\ key # None => secret.key = key

\* Nothing is left of a former object: no instance, and of its secret no use.
StartsAnew ==
    Clean =>
        /\ object = None => key = None
        /\ ~Own /\ secret # None /\ key # None => secret.key # key

=============================================================================
