------------------------------ MODULE Admission ------------------------------
(***************************************************************************)
(* pkg/admission-controller: the reviews of writes to one VirtualMachine   *)
(* object, in the write path of the API server.  Requests of several       *)
(* clients are under way at the same time; the API server sends a review   *)
(* about the object as it was when it read it, and stores the result only  *)
(* if it still is.                                                         *)
(*                                                                         *)
(* The API server is external.  Of an object there is what reviews look at *)
(* (spec, finalizers, whether it decodes) and what the write path needs.   *)
(***************************************************************************)
EXTENDS Naturals

CONSTANTS
    Clients,          \* requests under way at a time
    Specs,            \* values of the spec, equal if they decode to equal ones
    Malformed,        \* those that are no VirtualMachineSpec
    OtherFinalizers,  \* finalizers of other controllers
    None,             \* "no object", "not given"
    MaxRevision       \* bound: writes to the object

VirtualMachineFinalizer == "virtualmachines.ci.openshift.io"

Finalizers == OtherFinalizers \cup {VirtualMachineFinalizer}

Revisions == 1 .. MaxRevision

\* resourceVersion is the revision of the last write, uid that of the first.
Object == [uid             : Revisions,
           resourceVersion : Revisions,
           deleting        : BOOLEAN,
           finalizers      : SUBSET Finalizers,
           spec            : Specs,
           readable        : BOOLEAN]  \* its status decodes

Stages == {"idle", "mutate", "create", "read", "validate", "write"}

\* A request: what the client sent, and the object the API server has read.
Request == [at         : Stages,
            spec       : Specs \cup {None},
            finalizers : {None} \cup SUBSET Finalizers,
            readable   : BOOLEAN,
            base       : Revisions \cup {None},
            old        : Object \cup {None}]

Answered == [at |-> "idle", spec |-> None, finalizers |-> None,
             readable |-> TRUE, base |-> None, old |-> None]

ASSUME BoundAssumption == MaxRevision \in Nat
ASSUME SpecsAssumption == Malformed \subseteq Specs
ASSUME NoneAssumption ==
    /\ None \notin Specs
    /\ \A f \in SUBSET Finalizers : f # None
    /\ None \notin Revisions
    /\ None \notin Object
    /\ None \notin [uid : Revisions, deleting : BOOLEAN, finalizers : SUBSET Finalizers]

VARIABLES
    stored,    \* the object in the API server
    request,   \* the request of each client
    revision   \* of the last write

vars == <<stored, request, revision>>

Init ==
    /\ stored = None
    /\ request = [c \in Clients |-> Answered]
    /\ revision = 0

At(c, stage) == request[c].at = stage

Become(c, r) == request' = [request EXCEPT ![c] = r]

Goto(c, stage) == Become(c, [request[c] EXCEPT !.at = stage])

Answer(c) == Become(c, Answered)

Revise ==
    /\ revision < MaxRevision
    /\ revision' = revision + 1

-----------------------------------------------------------------------------
(* The reviews.                                                            *)

\* deserialize reads a whole VirtualMachine, its status too.
deserialize(o) == o.spec \notin Malformed /\ o.readable

\* Mutant: an object that has finalizers is taken as it is.
mutateIfBare(c) ==
    /\ At(c, "mutate")
    /\ deserialize(request[c])
    /\ Become(c, [request[c] EXCEPT
                    !.at = "create",
                    !.finalizers = IF @ = {} THEN {VirtualMachineFinalizer} ELSE @])
    /\ UNCHANGED <<stored, revision>>

\* mutate, registered for CREATE.
mutate(c) ==
    /\ At(c, "mutate")
    /\ \/ /\ deserialize(request[c])
          /\ Become(c, [request[c] EXCEPT
                          !.at = "create",
                          !.finalizers = @ \cup {VirtualMachineFinalizer}])
       \/ ~deserialize(request[c]) /\ Answer(c)
    /\ UNCHANGED <<stored, revision>>

\* What the request makes of the object it is about.  Its status is not the
\* request's to change.
Proposed(c) ==
    LET r == request[c]
    IN  [r.old EXCEPT !.spec = IF r.spec = None THEN @ ELSE r.spec,
                      !.finalizers = IF r.finalizers = None THEN @ ELSE r.finalizers]

\* Mutant: only objects that are not under deletion are compared.
validateLive(c) ==
    LET new == Proposed(c)
        old == request[c].old
        valid == /\ deserialize(new) /\ deserialize(old)
                 /\ new.spec = old.spec \/ old.deleting
    IN  /\ At(c, "validate")
        /\ IF valid THEN Goto(c, "write") ELSE Answer(c)
        /\ UNCHANGED <<stored, revision>>

\* Mutant: what does not decode is compared as far as it was read.
validatePartly(c) ==
    LET new == Proposed(c)
        old == request[c].old
        valid == new.spec = old.spec
    IN  /\ At(c, "validate")
        /\ IF valid THEN Goto(c, "write") ELSE Answer(c)
        /\ UNCHANGED <<stored, revision>>

\* validate, registered for UPDATE.
validate(c) ==
    LET new == Proposed(c)
        old == request[c].old
        valid == deserialize(new) /\ deserialize(old) /\ new.spec = old.spec
    IN  /\ At(c, "validate")
        /\ IF valid THEN Goto(c, "write") ELSE Answer(c)
        /\ UNCHANGED <<stored, revision>>

\* The API server sends each review to the handler for the operation.
handle(c) == mutate(c) \/ validate(c)

\* Mutant: failurePolicy Ignore.
UnreviewedAccepted(c) ==
    /\ \/ At(c, "mutate") /\ Goto(c, "create")
       \/ At(c, "validate") /\ Goto(c, "write")
    /\ UNCHANGED <<stored, revision>>

\* No answer, because the server is down or its handler panicked, is a "no":
\* failurePolicy Fail.
Unreviewed(c) ==
    /\ At(c, "mutate") \/ At(c, "validate")
    /\ Answer(c)
    /\ UNCHANGED <<stored, revision>>

-----------------------------------------------------------------------------
(* Requests of clients.                                                    *)

\* A new object, which may come with finalizers and a status.
Post(c) ==
    /\ At(c, "idle")
    /\ \E s \in Specs, f \in SUBSET Finalizers, b \in BOOLEAN :
          Become(c, [Answered EXCEPT !.at = "mutate", !.spec = s, !.finalizers = f,
                                     !.readable = b])
    /\ UNCHANGED <<stored, revision>>

\* A whole object, made from one that was read before.  This is how reconcile
\* takes the finalizer off.
Put(c) ==
    /\ At(c, "idle")
    /\ stored # None
    /\ \E s \in Specs, f \in SUBSET Finalizers :
          Become(c, [Answered EXCEPT !.at = "read", !.spec = s, !.finalizers = f,
                                     !.base = stored.resourceVersion])
    /\ UNCHANGED <<stored, revision>>

\* A change to whatever object is there.
Patch(c) ==
    /\ At(c, "idle")
    /\ \E s \in Specs \cup {None}, f \in {None} \cup SUBSET Finalizers :
          Become(c, [Answered EXCEPT !.at = "read", !.spec = s, !.finalizers = f])
    /\ UNCHANGED <<stored, revision>>

-----------------------------------------------------------------------------
(* The API server's write path.                                            *)

\* A new object is stored without the status it came with.
Create(c) ==
    /\ At(c, "create")
    /\ Answer(c)
    /\ \/ UNCHANGED <<stored, revision>>    \* it exists, or storing it fails
       \/ /\ stored = None
          /\ Revise
          /\ stored' = [uid |-> revision', resourceVersion |-> revision',
                        deleting |-> FALSE,
                        finalizers |-> request[c].finalizers,
                        spec |-> request[c].spec,
                        readable |-> TRUE]

\* The object a review will be about; a version the client sent has to be its.
Read(c) ==
    /\ At(c, "read")
    /\ UNCHANGED <<stored, revision>>
    /\ IF stored # None /\ request[c].base \in {None, stored.resourceVersion}
       THEN Become(c, [request[c] EXCEPT !.at = "validate", !.old = stored])
       ELSE Answer(c)

\* No finalizer is added to an object under deletion.
Forbidden(c) ==
    /\ request[c].old.deleting
    /\ ~(Proposed(c).finalizers \subseteq request[c].old.finalizers)

\* The object becomes what the request makes of it, if it still is what was
\* read and reviewed; if not, it is read again.  The object goes with its last
\* finalizer.
Write(c) ==
    /\ At(c, "write")
    /\ \/ Answer(c) /\ UNCHANGED <<stored, revision>>  \* forbidden, or it fails
       \/ /\ ~Forbidden(c)
          /\ stored # request[c].old
          /\ Goto(c, "read")
          /\ UNCHANGED <<stored, revision>>
       \/ /\ ~Forbidden(c)
          /\ stored = request[c].old
          /\ Answer(c)
          /\ Revise
          /\ stored' = IF stored.deleting /\ Proposed(c).finalizers = {}
                       THEN None
                       ELSE [Proposed(c) EXCEPT !.resourceVersion = revision']

\* The status subresource changes the status alone.  It is not reviewed, and
\* deploy/crd.yaml has no schema: the status may be anything.
UpdateStatus ==
    /\ stored # None
    /\ Revise
    /\ \E b \in BOOLEAN :
          stored' = [stored EXCEPT !.readable = b, !.resourceVersion = revision']
    /\ UNCHANGED request

\* Deletion marks an object that has finalizers.
Delete ==
    /\ stored # None
    /\ Revise
    /\ stored' = IF stored.finalizers = {} THEN None
                 ELSE [stored EXCEPT !.deleting = TRUE,
                                     !.resourceVersion = revision']
    /\ UNCHANGED request

Next ==
    \/ \E c \in Clients :
          \/ Post(c) \/ Put(c) \/ Patch(c)
          \/ handle(c) \/ Unreviewed(c)
          \/ Create(c) \/ Read(c) \/ Write(c)
    \/ UpdateStatus \/ Delete

Spec == Init /\ [][Next]_vars

-----------------------------------------------------------------------------
(* Properties.                                                             *)

\* The type of every variable.
TypeOK ==
    /\ stored \in Object \cup {None}
    /\ request \in [Clients -> Request]
    /\ revision \in 0 .. MaxRevision

\* The spec of an object never changes, whatever requests are under way when it
\* is reviewed: the instance that was made from it stays the one it asks for.
SpecKept ==
    [][stored # None /\ stored' # None /\ stored'.uid = stored.uid
         => stored'.spec = stored.spec]_vars

\* Every object lives the life the controller relies on, whoever writes to it
\* at the same time; in particular it is born with our finalizer.
Life == INSTANCE ObjectLife
    WITH Uids <- Revisions, Ours <- VirtualMachineFinalizer,
         object <- IF stored = None THEN None
                   ELSE [uid |-> stored.uid, deleting |-> stored.deleting,
                         finalizers |-> stored.finalizers]

ObjectLives == Life!Spec

\* The spec of what is stored decodes: mutate reads every new object, and
\* whatever is written later has been compared.  This says nothing of the
\* status, which nobody reviews.
StoredSpecsDecode == stored # None => stored.spec \notin Malformed

\* An object whose status does not decode keeps its finalizers, and so cannot
\* go, until somebody repairs the status: no review lets a write through that
\* it cannot compare, also one that was reviewed when the object was readable.
UnreadableKept ==
    [][stored # None /\ ~deserialize(stored)
         => \/ stored' # None /\ stored'.finalizers = stored.finalizers
            \/ stored' = None /\ stored.finalizers = {}]_vars

-----------------------------------------------------------------------------
(* What makes the safety properties inductive.                             *)

\* A request about to be stored was reviewed: it has our finalizer if it is a
\* new object, the spec of the object it was compared with if it is not.
PastReview(c) ==
    LET r == request[c]
    IN  /\ r.at \in {"mutate", "create"} => r.spec # None /\ r.finalizers # None
        /\ r.at = "create" => /\ VirtualMachineFinalizer \in r.finalizers
                              /\ deserialize(r)
        /\ r.at \in {"validate", "write"} => r.old # None
        /\ r.at = "write" => deserialize(r.old) /\ Proposed(c).spec = r.old.spec

Reviewed == \A c \in Clients : PastReview(c)

IInv == TypeOK /\ Reviewed /\ StoredSpecsDecode

=============================================================================
