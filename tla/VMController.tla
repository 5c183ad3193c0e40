---------------------------- MODULE VMController ----------------------------
(***************************************************************************)
(* The reconcile loop of pkg/controller: how one worker drives the GCE     *)
(* instance and the SSH secret of a VirtualMachine towards its record in   *)
(* the API server.  Every remote call is a step of its own, because the    *)
(* user, the cluster and GCE act between any two of them and the process   *)
(* may die there.                                                          *)
(*                                                                         *)
(* The API server, GCE and the garbage collector are external: they are    *)
(* modelled from how the controller uses them.  The work queue is reduced  *)
(* to what it promises (a pending key is handed out, never to two workers  *)
(* at a time).                                                             *)
(***************************************************************************)
EXTENDS Naturals, Sequences

CONSTANTS
    Namespaces,           \* namespaces holding VirtualMachine objects
    Names,                \* object names; also the names of GCE instances
    KeyPairs,             \* SSH key pairs; an unused one is a new one
    Messages,             \* texts of error messages
    OtherFinalizers,      \* finalizers of other controllers on our objects
    None,                 \* "no such object"
    MaxUid,               \* bound: incarnations of one object
    MaxFaults,            \* bound: failures, restarts and disturbances
    NoopElided,           \* the API server drops writes that change nothing
    FingerprintEnforced,  \* GCE refuses metadata sent without fingerprint
    ServedKinds           \* <<apiVersion, kind>> pairs the cluster serves

Keys == Namespaces \X Names

\* The GCE instance of an object: the object's name, without its namespace.
InstanceName(k) == k[2]

VirtualMachineFinalizer == "virtualmachines.ci.openshift.io"

Finalizers == OtherFinalizers \cup {VirtualMachineFinalizer}

\* The owner the SSH secret names, as the controller writes it.
SecretOwnerKind == <<"v1alpha1", "virtualmachine.ci.openshift.io">>

\* The error a status shows: "error running operation: ..." or "error
\* deleting GCE instance: ...".
Error == [flow : {"ensure", "delete"}, text : Messages]

VM == [uid        : 1 .. MaxUid,
       deleting   : BOOLEAN,
       finalizers : SUBSET Finalizers,
       status     : Error \cup {None}]

Secret == [owner : 1 .. MaxUid, key : KeyPairs]

Operation == [kind   : {"insert", "setMetadata", "delete"},
              key    : KeyPairs \cup {None},
              waiter : Keys \cup {None}]

Steps == {"idle", "get", "ensure", "checkSecret", "insert", "refresh",
          "await", "report", "locate", "publish",
          "doom", "delete", "finalize"}

\* What one call of reconcile holds in its local variables.  "current" says
\* that the object it read is still the stored one (same resourceVersion).
Work == [pc      : Steps,
         flow    : {"ensure", "delete"},
         uid     : 0 .. MaxUid,
         current : BOOLEAN,
         key     : KeyPairs \cup {None},
         msg     : Messages \cup {None},
         result  : {"pending", "done", "failed"}]

Idle == [pc |-> "idle", flow |-> "ensure", uid |-> 0, current |-> FALSE,
         key |-> None, msg |-> None, result |-> "pending"]

ASSUME BoundsAssumption == MaxUid \in Nat /\ MaxFaults \in Nat
ASSUME SwitchAssumption == NoopElided \in BOOLEAN /\ FingerprintEnforced \in BOOLEAN
ASSUME NoneAssumption ==
    /\ None \notin KeyPairs
    /\ None \notin Messages
    /\ None \notin Error
    /\ None \notin Keys
    /\ None \notin VM
    /\ None \notin [uid : 1 .. MaxUid, deleting : BOOLEAN, finalizers : SUBSET Finalizers]
    /\ None \notin [uid : 1 .. MaxUid, deleting : BOOLEAN]
    /\ None \notin Secret
ASSUME FinalizerAssumption == VirtualMachineFinalizer \notin OtherFinalizers

VARIABLES
    vms,        \* VirtualMachine objects in the API server
    secrets,    \* SSH secrets in the API server
    instances,  \* GCE: the authorized key of each instance
    ops,        \* GCE: operations accepted and not finished, oldest first
    work,       \* the reconcile call in flight for each key
    pending,    \* keys the work queue still has to hand out
    created,    \* incarnations of each object so far
    faults      \* failures so far

vars == <<vms, secrets, instances, ops, work, pending, created, faults>>

api == <<vms, secrets, created>>
gce == <<instances, ops>>

Init ==
    /\ vms = [k \in Keys |-> None]
    /\ secrets = [k \in Keys |-> None]
    /\ instances = [n \in Names |-> None]
    /\ ops = [n \in Names |-> <<>>]
    /\ work = [k \in Keys |-> Idle]
    /\ pending = {}
    /\ created = [k \in Keys |-> 0]
    /\ faults = 0

-----------------------------------------------------------------------------
(* Helpers of the reconcile steps.                                         *)

Fault == faults < MaxFaults /\ faults' = faults + 1

At(k, pc) == work[k].pc = pc

\* The local variables of k's call become w.
Put(k, w) == work' = [work EXCEPT ![k] = w]

Goto(k, pc) == Put(k, [work[k] EXCEPT !.pc = pc]) /\ UNCHANGED pending

\* reconcile returned nil: handleErr forgets the key, Done releases it.
ReturnNil(k) == Put(k, Idle) /\ UNCHANGED pending

\* reconcile returned an error: handleErr retries the key or, past its limit,
\* drops it; Done releases it.
ReturnErr(k) ==
    /\ Put(k, Idle)
    /\ pending' \in {pending, pending \cup {k}}

\* A GCE call or operation failed: reconcile goes on to record the error.
FailedWith(k, m) ==
    /\ Put(k, [work[k] EXCEPT !.pc = "report", !.msg = m])
    /\ UNCHANGED pending

Failed(k) == \E m \in Messages : FailedWith(k, m)

ErrorOf(k, m) == [flow |-> work[k].flow, text |-> m]

Present(k) == instances[InstanceName(k)] # None

\* newSSHKeypair: a pair nothing refers to stands for a newly generated one.
UsedKeyPairs ==
    {instances[n] : n \in Names}
      \cup (UNION {{ops[n][i].key : i \in DOMAIN ops[n]} : n \in Names})
      \cup {work[k].key : k \in Keys}
      \cup {secrets[k].key : k \in {k \in Keys : secrets[k] # None}}

newSSHKeypair == CHOOSE p \in KeyPairs : p \notin UsedKeyPairs

CanGenerate == \E p \in KeyPairs : p \notin UsedKeyPairs

\* The operation GCE returns for an accepted call of k.
Accept(k, kind, key, waiter) ==
    ops' = [ops EXCEPT ![InstanceName(k)] =
              Append(@, [kind |-> kind, key |-> key, waiter |-> waiter])]

\* Mutant: the key pair of the operation is not kept.
AwaitForgettingKey(k, key) ==
    /\ Put(k, [work[k] EXCEPT !.pc = "await", !.key = None, !.result = "pending"])
    /\ UNCHANGED pending

\* The call of k is under way: reconcile waits for the operation.
Await(k, key) ==
    /\ Put(k, [work[k] EXCEPT !.pc = "await", !.key = key, !.result = "pending"])
    /\ UNCHANGED pending

\* Operations the callers of K no longer wait for go on without a waiter.
Unattended(s, K) ==
    [i \in DOMAIN s |-> IF s[i].waiter \in K THEN [s[i] EXCEPT !.waiter = None]
                                             ELSE s[i]]

Abandon(k) ==
    ops' = [ops EXCEPT ![InstanceName(k)] = Unattended(@, {k})]

-----------------------------------------------------------------------------
(* reconcile.                                                              *)

\* processNextWorkItem: a worker takes a key no other worker has.  That the queue
\* hands out no other is assumed here, as KeyedQueue states it, and kept by
\* WorkQueue.
Begin(k) ==
    /\ k \in pending
    /\ At(k, "idle")
    /\ pending' = pending \ {k}
    /\ Put(k, [work[k] EXCEPT !.pc = "get"])
    /\ UNCHANGED <<api, gce, faults>>

\* Nothing to do for an object that is gone, or under deletion and no longer
\* held by our finalizer.
NeedsWork(k) ==
    /\ vms[k] # None
    /\ vms[k].deleting => VirtualMachineFinalizer \in vms[k].finalizers

\* VirtualMachines.Get.
GetVM(k) ==
    /\ At(k, "get")
    /\ UNCHANGED <<api, gce>>
    /\ \/ ~NeedsWork(k) /\ ReturnNil(k) /\ UNCHANGED faults
       \/ /\ NeedsWork(k)
          /\ LET flow == IF vms[k].deleting THEN "delete" ELSE "ensure" IN
             Put(k, [work[k] EXCEPT
                       !.pc = IF flow = "delete" THEN "doom" ELSE "ensure",
                       !.flow = flow,
                       !.uid = vms[k].uid,
                       !.current = TRUE])
          /\ UNCHANGED <<pending, faults>>
       \/ Fault /\ ReturnErr(k)

\* The Update that removes our finalizer.  The API server removes an object
\* under deletion with its last finalizer and refuses an outdated version.
WithoutFinalizer(vm) ==
    LET left == vm.finalizers \ {VirtualMachineFinalizer}
    IN  IF vm.deleting /\ left = {} THEN None
        ELSE [vm EXCEPT !.finalizers = left]

RemoveFinalizer(k) ==
    /\ At(k, "finalize")
    /\ UNCHANGED <<secrets, created, gce>>
    /\ \/ /\ work[k].current
          /\ vms' = [vms EXCEPT ![k] = WithoutFinalizer(@)]
          /\ \/ ReturnNil(k) /\ UNCHANGED faults
             \/ Fault /\ ReturnErr(k)    \* applied, the answer is lost
       \/ ~work[k].current /\ ReturnErr(k) /\ UNCHANGED <<vms, faults>>
       \/ Fault /\ ReturnErr(k) /\ UNCHANGED vms

-----------------------------------------------------------------------------
(* deleteVM.                                                               *)

\* Mutant: any error counts as "not found", as it does in ensureVM.
FindDoomedLeniently(k) ==
    /\ At(k, "doom")
    /\ UNCHANGED <<api, gce>>
    /\ \/ ~Present(k) /\ Goto(k, "finalize") /\ UNCHANGED faults
       \/ Present(k) /\ Goto(k, "delete") /\ UNCHANGED faults
       \/ Fault /\ Goto(k, "finalize")

\* Mutant: "not found" is an error like any other.
FindDoomedStrictly(k) ==
    /\ At(k, "doom")
    /\ UNCHANGED <<api, gce>>
    /\ \/ ~Present(k) /\ ReturnErr(k) /\ UNCHANGED faults
       \/ Present(k) /\ Goto(k, "delete") /\ UNCHANGED faults
       \/ Fault /\ ReturnErr(k)

\* InstancesGet: a missing instance needs no deletion.
FindDoomed(k) ==
    /\ At(k, "doom")
    /\ UNCHANGED <<api, gce>>
    /\ \/ ~Present(k) /\ Goto(k, "finalize") /\ UNCHANGED faults
       \/ Present(k) /\ Goto(k, "delete") /\ UNCHANGED faults
       \/ Fault /\ ReturnErr(k)

\* InstancesDelete.
DeleteInstance(k) ==
    /\ At(k, "delete")
    /\ UNCHANGED <<api, instances>>
    /\ \/ /\ Present(k)
          /\ Accept(k, "delete", None, k)
          /\ Await(k, None)
          /\ UNCHANGED faults
       \/ ~Present(k) /\ Failed(k) /\ UNCHANGED <<ops, faults>>
       \/ Fault /\ Failed(k) /\ UNCHANGED ops
       \/ Present(k) /\ Fault /\ Accept(k, "delete", None, None) /\ Failed(k)

-----------------------------------------------------------------------------
(* ensureVM, createNewVM, refreshSSHKey and runVMOpPollSSH.                *)

\* InstancesGet.  An error that is no answer of GCE counts as "not found".
FindInstance(k) ==
    /\ At(k, "ensure")
    /\ UNCHANGED <<api, gce>>
    /\ \/ Present(k) /\ Goto(k, "checkSecret") /\ UNCHANGED faults
       \/ ~Present(k) /\ Goto(k, "insert") /\ UNCHANGED faults
       \/ Fault /\ ReturnErr(k)
       \/ Fault /\ Goto(k, "insert")

\* Mutant: an instance without a secret is left as it is.
CheckSecretLeniently(k) ==
    /\ At(k, "checkSecret")
    /\ UNCHANGED <<api, gce>>
    /\ \/ ReturnNil(k) /\ UNCHANGED faults
       \/ Fault /\ ReturnErr(k)

\* Mutant: a secret that exists does not end the call.
CheckSecretAnyway(k) ==
    /\ At(k, "checkSecret")
    /\ UNCHANGED <<api, gce>>
    /\ \/ Goto(k, "refresh") /\ UNCHANGED faults
       \/ Fault /\ ReturnErr(k)

\* Secrets.Get for an instance that exists.
CheckSecret(k) ==
    /\ At(k, "checkSecret")
    /\ UNCHANGED <<api, gce>>
    /\ \/ secrets[k] # None /\ ReturnNil(k) /\ UNCHANGED faults
       \/ secrets[k] = None /\ Goto(k, "refresh") /\ UNCHANGED faults
       \/ Fault /\ ReturnErr(k)

\* A new key pair and InstancesInsert; GCE shows an instance as soon as it
\* has accepted the call and refuses a name in use.
InsertInstance(k) ==
    LET p == newSSHKeypair
        Insert(waiter) == /\ CanGenerate /\ ~Present(k)
                          /\ instances' = [instances EXCEPT ![InstanceName(k)] = p]
                          /\ Accept(k, "insert", p, waiter)
    IN  /\ At(k, "insert")
        /\ UNCHANGED api
        /\ \/ Insert(k) /\ Await(k, p) /\ UNCHANGED faults
           \/ Present(k) /\ Failed(k) /\ UNCHANGED <<gce, faults>>
           \/ Fault /\ Failed(k) /\ UNCHANGED gce
           \/ Fault /\ Insert(None) /\ Failed(k)     \* the answer is lost
           \/ Fault /\ ReturnErr(k) /\ UNCHANGED gce \* no key pair

\* A new key pair and SetMetadata, which sends no fingerprint.
RefreshKey(k) ==
    LET p == newSSHKeypair
        Set(waiter) == /\ CanGenerate /\ Present(k) /\ ~FingerprintEnforced
                       /\ Accept(k, "setMetadata", p, waiter)
    IN  /\ At(k, "refresh")
        /\ UNCHANGED <<api, instances>>
        /\ \/ Set(k) /\ Await(k, p) /\ UNCHANGED faults
           \/ /\ ~Present(k) \/ FingerprintEnforced
              /\ Failed(k) /\ UNCHANGED <<ops, faults>>
           \/ Fault /\ Failed(k) /\ UNCHANGED ops
           \/ Fault /\ Set(None) /\ Failed(k)
           \/ Fault /\ ReturnErr(k) /\ UNCHANGED ops

\* Mutant: an operation that is DONE counts as done, its errors unread.
WaitForOperationUnread(k) ==
    /\ At(k, "await")
    /\ UNCHANGED <<api, instances>>
    /\ \/ /\ work[k].result \in {"done", "failed"}
          /\ Goto(k, IF work[k].flow = "delete" THEN "finalize" ELSE "locate")
          /\ UNCHANGED <<ops, faults>>
       \/ Fault /\ Failed(k) /\ Abandon(k)

\* waitForOperation: the operation ended, a poll failed, or the wait timed
\* out.  The text of a timeout holds the time elapsed: it is always new.
WaitForOperation(k) ==
    /\ At(k, "await")
    /\ UNCHANGED <<api, instances>>
    /\ \/ /\ work[k].result = "done"
          /\ Goto(k, IF work[k].flow = "delete" THEN "finalize" ELSE "locate")
          /\ UNCHANGED <<ops, faults>>
       \/ work[k].result = "failed" /\ Failed(k) /\ UNCHANGED <<ops, faults>>
       \/ Fault /\ Failed(k) /\ Abandon(k)
       \/ /\ Fault /\ Abandon(k)
          /\ work[k].result = "pending"
          /\ \E m \in Messages :
                /\ vms[k] # None => vms[k].status # ErrorOf(k, m)
                /\ FailedWith(k, m)

\* Mutant: the caller goes on with the object UpdateStatus returned.
HandleErrorRefreshed(k) ==
    LET error == ErrorOf(k, work[k].msg)
        written == [vms EXCEPT ![k].status = error]
    IN  /\ At(k, "report")
        /\ UNCHANGED <<secrets, created, gce>>
        /\ \/ /\ work[k].current
              /\ vms' = written
              /\ IF work[k].flow = "delete" THEN Goto(k, "finalize") ELSE ReturnNil(k)
              /\ UNCHANGED faults
           \/ ~work[k].current /\ ReturnErr(k) /\ UNCHANGED <<vms, faults>>
           \/ Fault /\ ReturnErr(k) /\ UNCHANGED vms

\* handleError: UpdateStatus with the error.  It returns the error of the
\* update only: after a successful one the caller goes on as if all was well.
HandleError(k) ==
    LET error == ErrorOf(k, work[k].msg)
        written == [vms EXCEPT ![k].status = error]
    IN  /\ At(k, "report")
        /\ UNCHANGED <<secrets, created, gce>>
        /\ \/ /\ work[k].current
              /\ vms' = written
              /\ IF work[k].flow = "delete"
                 THEN /\ Put(k, [work[k] EXCEPT
                                   !.pc = "finalize",
                                   !.current = NoopElided /\ vms[k].status = error])
                      /\ UNCHANGED pending
                 ELSE ReturnNil(k)
              /\ UNCHANGED faults
           \/ work[k].current /\ Fault /\ vms' = written /\ ReturnErr(k)
           \/ ~work[k].current /\ ReturnErr(k) /\ UNCHANGED <<vms, faults>>
           \/ Fault /\ ReturnErr(k) /\ UNCHANGED vms

\* InstancesGet for the address; the SSH probe that follows changes nothing
\* whatever its outcome.
LocateInstance(k) ==
    /\ At(k, "locate")
    /\ UNCHANGED <<api, gce>>
    /\ \/ Present(k) /\ Goto(k, "publish") /\ UNCHANGED faults
       \/ ~Present(k) /\ ReturnErr(k) /\ UNCHANGED faults
       \/ Fault /\ ReturnErr(k)

\* Secrets.Create with the private key, owned by the object.
PublishSecret(k) ==
    LET stored == [secrets EXCEPT ![k] = [owner |-> work[k].uid,
                                          key |-> work[k].key]]
    IN  /\ At(k, "publish")
        /\ UNCHANGED <<vms, created, gce>>
        /\ \/ /\ secrets[k] = None /\ secrets' = stored
              /\ \/ ReturnNil(k) /\ UNCHANGED faults
                 \/ Fault /\ ReturnErr(k)    \* applied, the answer is lost
           \/ secrets[k] # None /\ ReturnErr(k) /\ UNCHANGED <<secrets, faults>>
           \/ Fault /\ ReturnErr(k) /\ UNCHANGED secrets

Reconcile(k) ==
    \/ GetVM(k)          \/ FindDoomed(k)       \/ DeleteInstance(k)
    \/ FindInstance(k)   \/ CheckSecret(k)      \/ InsertInstance(k)
    \/ RefreshKey(k)     \/ WaitForOperation(k) \/ HandleError(k)
    \/ LocateInstance(k) \/ PublishSecret(k)    \/ RemoveFinalizer(k)

-----------------------------------------------------------------------------
(* GCE works off the operations of an instance one after the other.        *)

Waiters(s) == {s[i].waiter : i \in DOMAIN s} \ {None}

\* The reconcile calls polling these operations see how they ended.
Report(done, failed) ==
    work' = [k \in Keys |->
               IF k \in done THEN [work[k] EXCEPT !.result = "done"]
               ELSE IF k \in failed THEN [work[k] EXCEPT !.result = "failed"]
               ELSE work[k]]

\* An instance disappears with everything still to be done to it.
RemoveInstance(n) ==
    /\ instances' = [instances EXCEPT ![n] = None]
    /\ ops' = [ops EXCEPT ![n] = <<>>]

CompleteOperation(n) ==
    LET op == Head(ops[n])
        rest == Tail(ops[n])
        done == {op.waiter} \ {None}
    IN  /\ ops[n] # <<>>
        /\ UNCHANGED <<api, pending, faults>>
        /\ \/ /\ op.kind \in {"insert", "setMetadata"}
              /\ instances' = [instances EXCEPT ![n] = op.key]
              /\ ops' = [ops EXCEPT ![n] = rest]
              /\ Report(done, {})
           \/ /\ op.kind = "delete"
              /\ RemoveInstance(n)
              /\ Report(done, Waiters(rest))

FailOperation(n) ==
    LET op == Head(ops[n])
        rest == Tail(ops[n])
    IN  /\ ops[n] # <<>>
        /\ Fault
        /\ UNCHANGED <<api, pending>>
        /\ \/ /\ op.kind = "insert"
              /\ RemoveInstance(n)
              /\ Report({}, Waiters(ops[n]))
           \/ /\ op.kind \in {"setMetadata", "delete"}
              /\ ops' = [ops EXCEPT ![n] = rest]
              /\ UNCHANGED instances
              /\ Report({}, Waiters(<<op>>))

-----------------------------------------------------------------------------
(* Users, the cluster and the process.                                     *)

\* A write to an object by anyone else outdates what its reconcile call read.
Outdated(k) == Put(k, [work[k] EXCEPT !.current = FALSE])

\* Mutant: the admission controller lets the object pass as it is.
mutateNothing(finalizers) == finalizers

\* mutate: the admission controller inserts our finalizer on creation.
mutate(finalizers) == finalizers \cup {VirtualMachineFinalizer}

CreateVM(k, finalizers) ==
    /\ vms[k] = None
    /\ created[k] < MaxUid
    /\ created' = [created EXCEPT ![k] = @ + 1]
    /\ vms' = [vms EXCEPT ![k] = [uid |-> created'[k], deleting |-> FALSE,
                                  finalizers |-> mutate(finalizers),
                                  status |-> None]]
    /\ Outdated(k)
    /\ UNCHANGED <<secrets, gce, pending, faults>>

\* With finalizers on it, deleting an object only marks it.
DeleteVM(k) ==
    /\ vms[k] # None
    /\ ~vms[k].deleting
    /\ vms' = [vms EXCEPT ![k] = IF @.finalizers = {} THEN None
                                 ELSE [@ EXCEPT !.deleting = TRUE]]
    /\ Outdated(k)
    /\ UNCHANGED <<secrets, created, gce, pending, faults>>

\* An update that changes neither spec nor finalizers: a label, say.
UpdateVM(k) ==
    /\ vms[k] # None
    /\ Fault
    /\ Outdated(k)
    /\ UNCHANGED <<api, gce, pending>>

\* Another controller is done with an object under deletion.
DropOtherFinalizers(k) ==
    /\ vms[k] # None
    /\ vms[k].deleting
    /\ vms[k].finalizers \cap OtherFinalizers # {}
    /\ LET left == vms[k].finalizers \ OtherFinalizers IN
       vms' = [vms EXCEPT ![k] = IF left = {} THEN None
                                 ELSE [@ EXCEPT !.finalizers = left]]
    /\ Outdated(k)
    /\ UNCHANGED <<secrets, created, gce, pending, faults>>

DeleteSecret(k) ==
    /\ secrets[k] # None
    /\ Fault
    /\ secrets' = [secrets EXCEPT ![k] = None]
    /\ UNCHANGED <<vms, created, gce, work, pending>>

\* The garbage collector finds the owner of a secret by its kind and version.
CollectSecret(k) ==
    /\ SecretOwnerKind \in ServedKinds
    /\ secrets[k] # None
    /\ vms[k] # None => vms[k].uid # secrets[k].owner
    /\ secrets' = [secrets EXCEPT ![k] = None]
    /\ UNCHANGED <<vms, created, gce, work, pending, faults>>

\* The handlers add, update and delete: an event or the periodic resync puts
\* the key in the queue.
Enqueue(k) ==
    /\ created[k] > 0
    /\ k \notin pending
    /\ pending' = pending \cup {k}
    /\ UNCHANGED <<api, gce, work, faults>>

\* The process dies (a panic, a signal) and is started again.
Restart ==
    /\ Fault
    /\ work' = [k \in Keys |-> Idle]
    /\ pending' = {}
    /\ ops' = [n \in Names |-> Unattended(ops[n], Keys)]
    /\ UNCHANGED <<api, instances>>

Next ==
    \/ \E k \in Keys :
          \/ Begin(k) \/ Reconcile(k) \/ Enqueue(k)
          \/ \E f \in SUBSET OtherFinalizers : CreateVM(k, f)
          \/ DeleteVM(k) \/ UpdateVM(k) \/ DropOtherFinalizers(k)
          \/ DeleteSecret(k) \/ CollectSecret(k)
    \/ \E n \in Names : CompleteOperation(n) \/ FailOperation(n)
    \/ Restart

Spec == Init /\ [][Next]_vars

\* The workers run, the informer resyncs every object in its cache, GCE ends
\* every operation, and the rest of the cluster does its part.
Resync(k) == vms[k] # None /\ Enqueue(k)

Fairness ==
    /\ \A k \in Keys : /\ WF_vars(Begin(k))
                       /\ WF_vars(Reconcile(k))
                       /\ WF_vars(Resync(k))
                       /\ WF_vars(DropOtherFinalizers(k))
                       /\ WF_vars(CollectSecret(k))
    /\ \A n \in Names : WF_vars(CompleteOperation(n))

FairSpec == Spec /\ Fairness

-----------------------------------------------------------------------------
(* Properties.                                                             *)

\* The type of every variable; in particular a reconcile call past its Get
\* holds a uid, and an operation is on behalf of a known object.
TypeOK ==
    /\ vms \in [Keys -> VM \cup {None}]
    /\ secrets \in [Keys -> Secret \cup {None}]
    /\ instances \in [Names -> KeyPairs \cup {None}]
    /\ ops \in [Names -> Seq(Operation)]
    /\ work \in [Keys -> Work]
    /\ pending \in SUBSET Keys
    /\ created \in [Keys -> 0 .. MaxUid]
    /\ faults \in 0 .. MaxFaults

Holds(k) == vms[k] # None /\ VirtualMachineFinalizer \in vms[k].finalizers

\* A GCE instance is some object's: whenever an instance exists, an object of
\* its name still holds our finalizer.  This is what the finalizer is for.
NoLeak ==
    \A n \in Names : instances[n] # None =>
        \E k \in Keys : InstanceName(k) = n /\ Holds(k)

\* No other namespace has an object of this name.
Sole(k) == \A j \in Keys : InstanceName(j) = InstanceName(k) => j = k

\* handleError wrote the same deletion error a second time and returned nil.
Swallowed(k) ==
    NoopElided /\ vms[k].status \in [flow : {"delete"}, text : Messages]

\* Where no two namespaces share the name, reconcile gives the finalizer up
\* only when no instance is left or - handleError having swallowed a second,
\* identical failure - the object carries that error.
FinalizerCovers ==
    [][\A k \in Keys : Sole(k) /\ Holds(k) /\ ~Holds(k)' =>
          ~Present(k) \/ Swallowed(k)]_vars

\* The secret was made for the object that is there now.
Owned(k) ==
    vms[k] # None /\ secrets[k] # None /\ secrets[k].owner = vms[k].uid

\* Where no two namespaces share the name, the key in a secret of the present
\* object opens its instance, whatever failed, retried or restarted between
\* generating the pair and publishing it.
OpensInstance(k) ==
    Owned(k) /\ Present(k) => secrets[k].key = instances[InstanceName(k)]

SecretOpensInstance == \A k \in Keys : Sole(k) => OpensInstance(k)

\* The same for every object nobody deletes, whatever happens to objects of its
\* name in other namespaces.
SecretOpensInstanceAnywhere ==
    \A k \in Keys : Owned(k) /\ ~vms[k].deleting => OpensInstance(k)

\* A secret is created only for the object that exists then, never for a
\* predecessor of the same name or an object already gone.
SecretForPresentObject ==
    [][\A k \in Keys : secrets[k] = None /\ secrets'[k] # None =>
          vms[k] # None /\ secrets'[k].owner = vms[k].uid]_vars

\* An instance that came up goes only when an object of its name is being
\* deleted: no late or repeated deletion hits a successor.
LiveInstanceKept ==
    [][\A n \in Names : instances[n] # None /\ instances'[n] = None =>
          \/ Head(ops[n]).kind = "insert"
          \/ \E k \in Keys : /\ InstanceName(k) = n
                             /\ vms[k] # None /\ vms[k].deleting]_vars

\* An object lives as ObjectLife says: what is assumed here of those who write
\* to it is what Admission keeps.
Seen(k) ==
    IF vms[k] = None THEN None
    ELSE [uid |-> vms[k].uid, deleting |-> vms[k].deleting,
          finalizers |-> vms[k].finalizers]

Life(k) == INSTANCE ObjectLife
    WITH Uids <- 1 .. MaxUid, Ours <- VirtualMachineFinalizer, object <- Seen(k)

ObjectLives == [][\A k \in Keys : Life(k)!Next \/ UNCHANGED Seen(k)]_vars

\* Object, instance and secret of a name that is nobody else's keep together
\* what MachineLife promises.
Incarnation(k) ==
    IF vms[k] = None THEN None
    ELSE [uid |-> vms[k].uid, deleting |-> vms[k].deleting]

Machine(k) == INSTANCE MachineLife
    WITH Uids <- 1 .. MaxUid, Clean <- ~NoopElided, object <- Incarnation(k),
         key <- instances[InstanceName(k)], secret <- secrets[k]

MachinesLive ==
    /\ \A k \in Keys : Machine(k)!Init
    /\ [][\A k \in Keys : Sole(k) =>
            Machine(k)!Next \/ UNCHANGED Machine(k)!machine]_vars

\* Deletion completes: an object under deletion disappears.
DeletionCompletes ==
    \A k \in Keys : (vms[k] # None /\ vms[k].deleting) ~> (vms[k] = None)

\* Creation completes: an object that is not deleted gets its instance and a
\* secret that opens it.
Reachable(k) ==
    /\ Present(k)
    /\ secrets[k] # None
    /\ secrets[k].key = instances[InstanceName(k)]

Live(k) == vms[k] # None /\ ~vms[k].deleting

CreationCompletes == \A k \in Keys : Live(k) ~> (Reachable(k) \/ ~Live(k))

\* The secret of a deleted object is garbage collected.
SecretsCollected ==
    \A k \in Keys :
        (secrets[k] # None /\ vms[k] = None) ~> (secrets[k] = None \/ vms[k] # None)

-----------------------------------------------------------------------------
(* What makes the safety properties inductive.                             *)

\* An object is born with our finalizer and keeps it until it is deleted.
Stamped == \A k \in Keys : vms[k] # None /\ ~vms[k].deleting => Holds(k)

\* A call past its Get works on the stored incarnation: our finalizer keeps it
\* there, only the key's own call takes the finalizer off, and a deletion is
\* not undone.
Held ==
    \A k \in Keys : work[k].pc \notin {"idle", "get"} =>
        /\ Holds(k)
        /\ work[k].uid = vms[k].uid
        /\ work[k].flow = "delete" => vms[k].deleting

\* Every step has the local variables it works with: its flow, the error it
\* reports, the key pair it publishes.
Locals ==
    \A k \in Keys :
        LET w == work[k]
        IN  /\ w.pc \in {"doom", "delete", "finalize"} => w.flow = "delete"
            /\ w.pc \in {"ensure", "checkSecret", "insert", "refresh",
                         "locate", "publish"} => w.flow = "ensure"
            /\ w.pc = "report" => w.msg # None
            /\ w.pc \in {"await", "locate", "publish"} /\ w.flow = "ensure"
                 => w.key # None

\* A polled operation is polled by one call, which waits for this operation of
\* this instance, and a call waits for a deletion in deleteVM only.
Polled ==
    \A n \in Names : \A i \in DOMAIN ops[n] :
        LET op == ops[n][i]
            k == op.waiter
        IN  k # None =>
              /\ InstanceName(k) = n
              /\ work[k].pc = "await" /\ work[k].result = "pending"
              /\ (op.kind = "delete") <=> (work[k].flow = "delete")
              /\ \A j \in DOMAIN ops[n] : ops[n][j].waiter = k => j = i

\* No call waits in vain: a call that polls an operation polls one that GCE has
\* still to carry out.
Awaited ==
    \A k \in Keys : work[k].pc = "await" /\ work[k].result = "pending" =>
        \E i \in DOMAIN ops[InstanceName(k)] : ops[InstanceName(k)][i].waiter = k

\* Operations are those of an instance, and leave it with a key.
OfInstance ==
    \A n \in Names :
        /\ instances[n] = None => ops[n] = <<>>
        /\ \A i \in DOMAIN ops[n] : ops[n][i].kind # "delete" => ops[n][i].key # None

\* The call takes the finalizer off next, unless its read is outdated.
Leaving(k) ==
    /\ work[k].flow = "delete"
    /\ \/ work[k].pc = "await" /\ work[k].result = "done"
       \/ work[k].pc = "finalize" /\ work[k].current

Covered ==
    \A k \in Keys : Sole(k) /\ Leaving(k) =>
        ~Present(k) \/ (work[k].pc = "finalize" /\ Swallowed(k))

Answered ==
    ~NoopElided =>
        \A n \in Names : instances[n] # None =>
            \E k \in Keys : InstanceName(k) = n /\ Holds(k) /\ ~Leaving(k)

\* A deletion that GCE has still to carry out is one of an object that is not
\* about to go.
Doomed ==
    ~NoopElided =>
        \A n \in Names : \A i \in DOMAIN ops[n] : ops[n][i].kind = "delete" =>
            \E k \in Keys : /\ InstanceName(k) = n
                            /\ Holds(k) /\ vms[k].deleting /\ ~Leaving(k)

\* A deletion in flight never outruns what it deletes.
FinalizerInv ==
    /\ TypeOK
    /\ Stamped
    /\ Held
    /\ Locals
    /\ Polled
    /\ Awaited
    /\ OfInstance
    /\ Covered
    /\ Answered
    /\ Doomed

\* No object or secret is of an incarnation still to come.
Numbered(k) ==
    /\ vms[k] # None => vms[k].uid <= created[k]
    /\ secrets[k] # None => secrets[k].owner <= created[k]

\* k's call is past its Get, in ensureVM.
Ensuring(k) == work[k].flow = "ensure" /\ work[k].pc \notin {"idle", "get"}

\* The operation that k's call polls is the last of the instance and is about
\* the key pair that the call holds.
LastInLine(k) ==
    LET s == ops[InstanceName(k)]
    IN  \A i \in DOMAIN s : s[i].waiter = k =>
          /\ \A j \in DOMAIN s : j <= i
          /\ work[k].flow = "ensure" => s[i].key = work[k].key

\* Between the end of its operation and the secret, the key pair of k's call is
\* the one of the instance, and nothing is under way that could change it.
Landed(k) ==
    /\ Ensuring(k)
    /\ \/ work[k].pc = "await" /\ work[k].result = "done"
       \/ work[k].pc \in {"locate", "publish"}
    => /\ Present(k)
       /\ instances[InstanceName(k)] = work[k].key
       /\ ops[InstanceName(k)] = <<>>

\* A call with a new key pair is one for an object without a secret of its own.
Unpublished(k) ==
    Ensuring(k) /\ work[k].pc \in {"refresh", "await", "locate", "publish"}
    => ~Owned(k)

\* Once an object has its secret its instance keeps the key until a deletion
\* takes it, and there is no other instance for this object.
Settled(k) ==
    Owned(k) =>
        LET s == ops[InstanceName(k)]
        IN  /\ OpensInstance(k)
            /\ \A i \in DOMAIN s : s[i].kind = "delete"
            /\ \/ Present(k) /\ s = <<>>
               \/ vms[k].deleting /\ ~Ensuring(k)

\* No operation is about the key of the secret: a pair is used once.
Fresh(k) ==
    secrets[k] # None =>
        \A i \in DOMAIN ops[InstanceName(k)] :
            ops[InstanceName(k)][i].key # secrets[k].key

\* A secret that outlived its object does not open the instance of the next.
Retired(k) ==
    ~NoopElided =>
        (Present(k) /\ secrets[k] # None /\ ~Owned(k)
         => secrets[k].key # instances[InstanceName(k)])

\* What makes a published key the right one, where k has its name to itself.
KeyInv(k) ==
    /\ Numbered(k)
    /\ Fresh(k)
    /\ Retired(k)
    /\ LastInLine(k)
    /\ Landed(k)
    /\ Unpublished(k)
    /\ Settled(k)

\* The facts above hold together, from any state with them to the next.
IInv == FinalizerInv /\ \A k \in Keys : Sole(k) => KeyInv(k)

=============================================================================
