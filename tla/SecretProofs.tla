---------------------------- MODULE SecretProofs ----------------------------
(***************************************************************************)
(* Theorems about VMController, continued: the SSH secret that reconcile   *)
(* publishes opens the instance, and what GCE does to an instance late is  *)
(* never done to a successor.                                              *)
(***************************************************************************)
EXTENDS VMControllerProofs

USE DEF Keys

-----------------------------------------------------------------------------
(* What a step leaves of what belongs to one object.                       *)

\* The instance, its operations, and what the API server stores for k.
Stored(k) ==
    <<vms[k], secrets[k], created[k], instances[InstanceName(k)], ops[InstanceName(k)]>>

\* The local variables of k's call that say which key pair it is about.
Course(k) == <<work[k].pc, work[k].flow, work[k].key, work[k].result>>

\* Nothing that a published key depends on has changed.
LEMMA KeySame ==
  ASSUME NEW k \in Keys, KeyInv(k), UNCHANGED Stored(k), UNCHANGED Course(k)
  PROVE  KeyInv(k)'
<1> USE DEF Stored, Course
<1>1. Ensuring(k)' = Ensuring(k)
  BY DEF Ensuring
<1>2. Owned(k)' = Owned(k) /\ Present(k)' = Present(k)
  BY DEF Owned, Present
<1>3. Numbered(k)'
  BY DEF KeyInv, Numbered
<1>4. LastInLine(k)'
  BY DEF KeyInv, LastInLine
<1>5. Landed(k)'
  BY <1>1, <1>2 DEF KeyInv, Landed
<1>6. Unpublished(k)'
  BY <1>1, <1>2 DEF KeyInv, Unpublished
<1>7. Settled(k)'
  BY <1>1, <1>2 DEF KeyInv, Settled, OpensInstance
<1>8. Fresh(k)' /\ Retired(k)'
  BY <1>2 DEF KeyInv, Fresh, Retired
<1>9. QED
  BY <1>3, <1>4, <1>5, <1>6, <1>7, <1>8 DEF KeyInv

\* k's call goes on and nothing else happens.  What it then is about to do, it
\* had the right to do before.
LEMMA CallMoves ==
  ASSUME NEW k \in Keys, KeyInv(k), UNCHANGED Stored(k), Free(k),
         InstanceName(k) \in Names,
         Ensuring(k)' => Ensuring(k) \/ ~vms[k].deleting,
         /\ Ensuring(k)'
         /\ \/ work'[k].pc = "await" /\ work'[k].result = "done"
            \/ work'[k].pc \in {"locate", "publish"}
         => /\ Ensuring(k)
            /\ \/ work[k].pc = "await" /\ work[k].result = "done"
               \/ work[k].pc \in {"locate", "publish"}
            /\ work'[k].key = work[k].key,
         Ensuring(k)' /\ work'[k].pc \in {"refresh", "await", "locate", "publish"}
         => ~Owned(k)
  PROVE  KeyInv(k)'
<1> USE DEF Stored
<1>1. Owned(k)' = Owned(k) /\ Present(k)' = Present(k)
  BY DEF Owned, Present
<1>2. Numbered(k)'
  BY DEF KeyInv, Numbered
<1>3. LastInLine(k)'
  BY DEF LastInLine, Free
<1>4. Landed(k)'
  BY <1>1 DEF KeyInv, Landed
<1>5. Unpublished(k)'
  BY <1>1 DEF Unpublished
<1>6. Settled(k)'
  BY <1>1 DEF KeyInv, Settled, OpensInstance
<1>7. Fresh(k)' /\ Retired(k)'
  BY <1>1 DEF KeyInv, Fresh, Retired
<1>8. QED
  BY <1>2, <1>3, <1>4, <1>5, <1>6, <1>7 DEF KeyInv

\* A call that ends, or leaves ensureVM, or reports an error, needs nothing.
LEMMA CallEnds ==
  ASSUME NEW k \in Keys, KeyInv(k), UNCHANGED Stored(k), Free(k),
         InstanceName(k) \in Names,
         ~Ensuring(k)' \/ (Ensuring(k) /\ work'[k].pc \in {"report", "insert", "checkSecret"})
  PROVE  KeyInv(k)'
<1>1. QED
  BY CallMoves

LEMMA NameOfKey ==
  ASSUME NEW k \in Keys
  PROVE  InstanceName(k) \in Names
BY DEF InstanceName

\* What belongs to k when only k's call has changed.
LEMMA StoredSame ==
  ASSUME UNCHANGED <<api, gce>>, NEW k \in Keys
  PROVE  UNCHANGED Stored(k)
BY DEF Stored, api, gce

-----------------------------------------------------------------------------
(* The steps of the object's own call.                                     *)

\* The steps that only look something up.
LEMMA KeyLookup ==
  ASSUME FinalizerInv, NEW k \in Keys, KeyInv(k),
         GetVM(k) \/ FindDoomed(k) \/ FindInstance(k) \/ CheckSecret(k)
           \/ LocateInstance(k)
  PROVE  KeyInv(k)'
<1> USE DEF FinalizerInv
<1>1. UNCHANGED Stored(k)
  BY StoredSame DEF GetVM, FindDoomed, FindInstance, CheckSecret, LocateInstance
<1>2. Free(k)
  BY FreeUnlessAwaiting DEF GetVM, FindDoomed, FindInstance, CheckSecret,
                            LocateInstance, At
<1>3. ReturnNil(k) \/ ReturnErr(k) => KeyInv(k)'
  <2>1. ReturnNil(k) \/ ReturnErr(k) => ~Ensuring(k)'
    BY SetLocals DEF Idle, Ensuring
  <2>2. QED
    BY <1>1, <1>2, <2>1, CallEnds, NameOfKey
<1>4. CASE GetVM(k)
  <2>1. ASSUME NEW flow \in {"ensure", "delete"}, NeedsWork(k),
               flow = (IF vms[k].deleting THEN "delete" ELSE "ensure"),
               Put(k, [work[k] EXCEPT
                         !.pc = IF flow = "delete" THEN "doom" ELSE "ensure",
                         !.flow = flow, !.uid = vms[k].uid, !.current = TRUE])
        PROVE  KeyInv(k)'
    <3>1. work[k] \in Work
      BY DEF TypeOK
    <3>2. work'[k].flow = flow /\ work'[k].pc \in {"doom", "ensure"}
      BY <2>1, <3>1 DEF Put, TypeOK, Work
    <3>3. Ensuring(k)' => ~vms[k].deleting
      BY <2>1, <3>2 DEF Ensuring
    <3>4. QED
      BY <1>1, <1>2, <3>2, <3>3, CallMoves, NameOfKey
  <2>2. QED
    BY <1>3, <1>4, <2>1 DEF GetVM
<1>5. CASE FindDoomed(k)
  <2>1. work[k].flow = "delete"
    BY <1>5 DEF FindDoomed, At, Locals
  <2>2. ASSUME NEW pc, Goto(k, pc) PROVE KeyInv(k)'
    <3>1. ~Ensuring(k)'
      BY <2>1, <2>2, SetLocals DEF Ensuring
    <3>2. QED
      BY <1>1, <1>2, <3>1, CallEnds, NameOfKey
  <2>3. QED
    BY <1>3, <1>5, <2>2 DEF FindDoomed
<1>6. CASE FindInstance(k)
  <2>1. Ensuring(k)
    BY <1>6 DEF FindInstance, At, Locals, Ensuring
  <2>2. ASSUME NEW pc \in {"checkSecret", "insert"}, Goto(k, pc) PROVE KeyInv(k)'
    <3>1. work'[k].pc \in {"insert", "checkSecret"}
      BY <2>2, SetLocals
    <3>2. QED
      BY <1>1, <1>2, <2>1, <3>1, CallEnds, NameOfKey
  <2>3. QED
    BY <1>3, <1>6, <2>2 DEF FindInstance
<1>7. CASE CheckSecret(k)
  <2>1. Ensuring(k)
    BY <1>7 DEF CheckSecret, At, Locals, Ensuring
  <2>2. ASSUME secrets[k] = None, Goto(k, "refresh") PROVE KeyInv(k)'
    <3>1. work'[k].pc = "refresh" /\ ~Owned(k)
      BY <2>2, SetLocals DEF Owned
    <3>2. QED
      BY <1>1, <1>2, <2>1, <3>1, CallMoves, NameOfKey
  <2>3. QED
    BY <1>3, <1>7, <2>2 DEF CheckSecret
<1>8. CASE LocateInstance(k)
  <2>1. Ensuring(k) /\ work[k].pc = "locate"
    BY <1>8 DEF LocateInstance, At, Locals, Ensuring
  <2>2. ~Owned(k)
    BY <2>1 DEF KeyInv, Unpublished
  <2>3. ASSUME Goto(k, "publish") PROVE KeyInv(k)'
    <3>1. work'[k].pc = "publish" /\ work'[k].key = work[k].key
      BY <2>3, SetLocals
    <3>2. QED
      BY <1>1, <1>2, <2>1, <2>2, <3>1, CallMoves, NameOfKey
  <2>4. QED
    BY <1>3, <1>8, <2>3 DEF LocateInstance
<1>9. QED
  BY <1>4, <1>5, <1>6, <1>7, <1>8

\* A key pair that an operation brings is none a secret holds.
LEMMA AskedIsNew ==
  ASSUME TypeOK, NEW k \in Keys, NEW kind, NEW p, NEW w, Asks(k, kind, p, w)
  PROVE  secrets[k] # None => p # secrets[k].key
<1>1. SUFFICES ASSUME secrets[k] # None PROVE p # secrets[k].key
  OBVIOUS
<1>2. secrets[k] \in Secret
  BY <1>1 DEF TypeOK
<1>3. secrets[k].key \in KeyPairs
  BY <1>2 DEF Secret
<1>4. secrets[k].key \in UsedKeyPairs
  BY <1>1 DEF UsedKeyPairs
<1>5. p = None \/ p \notin UsedKeyPairs
  BY NewKeypair DEF Asks
<1>6. QED
  BY <1>3, <1>4, <1>5, NoneAssumption

\* An object's instance gets another operation from the object's own call.  An
\* insertion or a new key is for an object without a secret of its own.
LEMMA KeyAsks ==
  ASSUME FinalizerInv, NEW k \in Keys, KeyInv(k),
         NEW kind, NEW p, NEW w, Asks(k, kind, p, w)
  PROVE  KeyInv(k)'
<1> USE DEF FinalizerInv
<1> DEFINE op == [kind |-> kind, key |-> p, waiter |-> w]
<1>1. PICK n \in Names, last \in Nat : n = InstanceName(k) /\ Grown(n, last, op)
  BY Accepted, NameOfKey DEF Asks
<1>2. UNCHANGED <<vms, secrets, created>>
  BY DEF Asks, DeleteInstance, InsertInstance, RefreshKey, api
<1>3. Free(k) /\ work[k].pc \in {"delete", "insert", "refresh"}
  BY FreeUnlessAwaiting DEF Asks, DeleteInstance, InsertInstance, RefreshKey, At
<1>4. /\ work'[k].flow = work[k].flow
      /\ \/ w = k /\ work'[k].pc = "await" /\ work'[k].key = p
            /\ work'[k].result = "pending"
         \/ w = None /\ work'[k].pc = "report"
  BY SetLocals DEF Asks, Failed
<1>5. Owned(k)' = Owned(k)
  BY <1>2 DEF Owned
<1>6. \A i \in DOMAIN ops'[n] :
        \/ i \in DOMAIN ops[n] /\ ops'[n][i] = ops[n][i] /\ ops'[n][i].waiter # k
        \/ i = last /\ ops'[n][i] = op
  BY <1>1, <1>3 DEF Grown, Free
<1>7. Numbered(k)'
  BY <1>2 DEF KeyInv, Numbered
<1>8. LastInLine(k)'
  <2>1. SUFFICES ASSUME NEW i \in DOMAIN ops'[n], ops'[n][i].waiter = k
                 PROVE  /\ \A j \in DOMAIN ops'[n] : j <= i
                        /\ work'[k].flow = "ensure" => ops'[n][i].key = work'[k].key
    BY <1>1 DEF LastInLine
  <2>2. i = last /\ op.waiter = k
    BY <1>6, <2>1
  <2>3. \A j \in DOMAIN ops'[n] : j <= last
    BY <1>1 DEF Grown
  <2>4. w = k /\ ops'[n][i].key = p
    BY <1>6, <2>1, <2>2, <1>1 DEF Grown
  <2>5. work'[k].key = p
    BY <1>4, <2>4, NoneAssumption
  <2>6. QED
    BY <2>2, <2>3, <2>4, <2>5
<1>9. Landed(k)'
  BY <1>4 DEF Landed
<1>10. secrets[k] # None => p # secrets[k].key
  BY AskedIsNew
<1>11. Fresh(k)'
  <2>1. SUFFICES ASSUME secrets[k] # None, NEW i \in DOMAIN ops'[n]
                 PROVE  ops'[n][i].key # secrets[k].key
    BY <1>1, <1>2 DEF Fresh
  <2>2. ops'[n][i] = op => ops'[n][i].key = p
    OBVIOUS
  <2>3. QED
    BY <1>1, <1>6, <1>10, <2>1, <2>2 DEF KeyInv, Fresh
<1>12. Retired(k)'
  <2>1. instances'[n] = instances[n] \/ instances'[n] = p
    BY <1>1 DEF Asks, DeleteInstance, RefreshKey, TypeOK
  <2>2. CASE instances'[n] = instances[n]
    BY <1>1, <1>2, <1>5, <2>2 DEF KeyInv, Retired, Present
  <2>3. CASE instances'[n] = p
    BY <1>1, <1>2, <1>10, <2>3 DEF Retired
  <2>4. QED
    BY <2>1, <2>2, <2>3
<1>13. Numbered(k)' /\ LastInLine(k)' /\ Landed(k)' /\ Fresh(k)' /\ Retired(k)'
  BY <1>7, <1>8, <1>9, <1>11, <1>12
<1>14. CASE kind = "delete"
  <2>1. DeleteInstance(k)
    BY <1>14 DEF Asks
  <2>2. work[k].flow = "delete" /\ work[k].pc = "delete" /\ instances' = instances
    BY <2>1 DEF DeleteInstance, At, Locals
  <2>3. ~Ensuring(k)' /\ vms[k].deleting
    BY <1>4, <2>2 DEF Ensuring, Held
  <2>4. Unpublished(k)'
    BY <2>3 DEF Unpublished
  <2>5. OpensInstance(k)' = OpensInstance(k)
    BY <1>2, <1>5, <2>2 DEF OpensInstance, Present
  <2>6. ASSUME Owned(k)
        PROVE  /\ OpensInstance(k)'
               /\ \A i \in DOMAIN ops'[n] : ops'[n][i].kind = "delete"
    <3>1. OpensInstance(k) /\ \A i \in DOMAIN ops[n] : ops[n][i].kind = "delete"
      BY <1>1, <2>6 DEF KeyInv, Settled
    <3>2. QED
      BY <1>6, <1>14, <2>5, <3>1
  <2>7. Settled(k)'
    BY <1>1, <1>2, <1>5, <2>3, <2>6 DEF Settled
  <2>8. QED
    BY <1>13, <2>4, <2>7 DEF KeyInv
<1>15. CASE kind \in {"insert", "setMetadata"}
  <2>1. \/ InsertInstance(k) /\ ~Present(k) /\ work[k].pc = "insert"
        \/ RefreshKey(k) /\ work[k].pc = "refresh"
    BY <1>15 DEF Asks, InsertInstance, RefreshKey, At
  <2>2. Ensuring(k)
    BY <2>1 DEF Locals, Ensuring
  <2>3. ~Owned(k)
    BY <2>1, <2>2 DEF KeyInv, Settled, Unpublished
  <2>4. Unpublished(k)' /\ Settled(k)'
    BY <1>5, <2>3 DEF Unpublished, Settled
  <2>5. QED
    BY <1>13, <2>4 DEF KeyInv
<1>16. QED
  BY <1>14, <1>15 DEF Asks

\* A call that stops waiting leaves the operation to itself.
LEMMA KeyUnattended ==
  ASSUME FinalizerInv, NEW k \in Keys, KeyInv(k),
         UNCHANGED <<vms, secrets, created, instances>>,
         SameButWaiters(ops[InstanceName(k)], ops'[InstanceName(k)]), Free(k)',
         ~Ensuring(k)' \/ (Ensuring(k) /\ work'[k].pc = "report")
  PROVE  KeyInv(k)'
<1> USE DEF FinalizerInv
<1>1. PICK n \in Names : n = InstanceName(k)
  BY NameOfKey
<1>2. Owned(k)' = Owned(k) /\ Present(k)' = Present(k)
  BY DEF Owned, Present
<1>3. Numbered(k)'
  BY DEF KeyInv, Numbered
<1>4. LastInLine(k)'
  BY <1>1 DEF LastInLine, Free
<1>5. Landed(k)' /\ Unpublished(k)'
  BY DEF Landed, Unpublished
<1>6. Settled(k)'
  <2>1. SUFFICES ASSUME Owned(k)
                 PROVE  /\ OpensInstance(k)'
                        /\ \A i \in DOMAIN ops'[n] : ops'[n][i].kind = "delete"
                        /\ \/ Present(k)' /\ ops'[n] = <<>>
                           \/ vms'[k].deleting /\ ~Ensuring(k)'
    BY <1>1, <1>2 DEF Settled
  <2>2. /\ OpensInstance(k)
        /\ \A i \in DOMAIN ops[n] : ops[n][i].kind = "delete"
        /\ \/ Present(k) /\ ops[n] = <<>>
           \/ vms[k].deleting /\ ~Ensuring(k)
    BY <1>1, <2>1 DEF KeyInv, Settled
  <2>3. OpensInstance(k)'
    BY <1>2, <2>2 DEF OpensInstance
  <2>4. QED
    BY <1>1, <1>2, <2>2, <2>3 DEF SameButWaiters
<1>7. Fresh(k)' /\ Retired(k)'
  BY <1>1, <1>2 DEF KeyInv, Fresh, Retired, SameButWaiters
<1>8. QED
  BY <1>3, <1>4, <1>5, <1>6, <1>7 DEF KeyInv

\* Waiting for an operation: the next step has the key that the instance got.
LEMMA KeyAwaited ==
  ASSUME FinalizerInv, NEW k \in Keys, KeyInv(k), WaitForOperation(k)
  PROVE  KeyInv(k)'
<1> USE DEF FinalizerInv
<1>1. work[k].pc = "await" /\ work[k] \in Work
  BY DEF WaitForOperation, At, TypeOK
<1>2. work[k].flow = "ensure" => Ensuring(k) /\ ~Owned(k)
  BY <1>1 DEF Ensuring, KeyInv, Unpublished
<1>3. work[k].flow \in {"ensure", "delete"}
  BY <1>1 DEF Work
<1>4. CASE Abandon(k) /\ Failed(k)
  <2>1. SameOps /\ Free(k)'
    BY <1>4, Abandoned
  <2>2. work'[k].pc = "report" /\ work'[k].flow = work[k].flow
    BY <1>4, SetLocals DEF Failed
  <2>3. ~Ensuring(k)' \/ (Ensuring(k) /\ work'[k].pc = "report")
    BY <1>2, <1>3, <2>2 DEF Ensuring
  <2>4. UNCHANGED <<vms, secrets, created, instances>>
    BY DEF WaitForOperation, api
  <2>5. QED
    BY <2>1, <2>3, <2>4, KeyUnattended, NameOfKey DEF SameOps
<1>5. CASE /\ ops' = ops /\ work[k].result \in {"done", "failed"}
           /\ \/ Failed(k)
              \/ /\ work[k].result = "done"
                 /\ Goto(k, IF work[k].flow = "delete" THEN "finalize" ELSE "locate")
  <2>1. UNCHANGED Stored(k)
    BY <1>5 DEF Stored, WaitForOperation, api
  <2>2. Free(k)
    BY <1>5, FreeUnlessAwaiting
  <2>3. CASE Failed(k)
    <3>1. work'[k].pc = "report" /\ work'[k].flow = work[k].flow
      BY <2>3, SetLocals DEF Failed
    <3>2. ~Ensuring(k)' \/ (Ensuring(k) /\ work'[k].pc = "report")
      BY <1>2, <1>3, <3>1 DEF Ensuring
    <3>3. QED
      BY <2>1, <2>2, <3>2, CallEnds, NameOfKey
  <2>4. CASE /\ work[k].result = "done"
             /\ Goto(k, IF work[k].flow = "delete" THEN "finalize" ELSE "locate")
    <3>1. /\ work'[k].pc = IF work[k].flow = "delete" THEN "finalize" ELSE "locate"
          /\ work'[k].flow = work[k].flow
          /\ work'[k].key = work[k].key
      BY <2>4, SetLocals
    <3>2. QED
      BY <1>1, <1>2, <1>3, <2>1, <2>2, <2>4, <3>1, CallMoves, NameOfKey DEF Ensuring
  <2>5. QED
    BY <1>5, <2>3, <2>4
<1>6. QED
  BY <1>4, <1>5 DEF WaitForOperation, Failed

-----------------------------------------------------------------------------
(* The object and its secret.                                              *)

\* An object that appears is one that a user creates.
LEMMA Born ==
  ASSUME CallInv, [Next]_vars, NEW k \in Keys, vms[k] = None, vms'[k] # None
  PROVE  \E f \in SUBSET OtherFinalizers : CreateVM(k, f)
<1> USE DEF CallInv
<1>1. vms'[k] # vms[k]
  OBVIOUS
<1>2. ASSUME NEW j \in Keys, Reconcile(j) PROVE vms'[k] = vms[k]
  <2>1. CASE j # k
    BY <1>2, <2>1, StepsKeepObjects
  <2>2. CASE j = k
    <3>1. work[k].pc \in {"idle", "get"}
      BY DEF Held, Holds
    <3>2. GetVM(k)
      BY <1>2, <2>2, <3>1 DEF Reconcile, FindDoomed, DeleteInstance, FindInstance,
         CheckSecret, InsertInstance, RefreshKey, WaitForOperation, HandleError,
         LocateInstance, PublishSecret, RemoveFinalizer, At
    <3>3. QED
      BY <3>2 DEF GetVM, api
  <2>3. QED
    BY <2>1, <2>2
<1>3. ASSUME NEW j \in Keys,
             \/ DeleteVM(j) \/ UpdateVM(j) \/ DropOtherFinalizers(j)
             \/ j # k /\ \E f \in SUBSET OtherFinalizers : CreateVM(j, f)
      PROVE  vms'[k] = vms[k]
  <2>1. CASE j # k
    BY <1>3, <2>1, WritesKeepObjects
  <2>2. CASE j = k
    BY <1>3, <2>2 DEF DeleteVM, UpdateVM, DropOtherFinalizers, api
  <2>3. QED
    BY <2>1, <2>2
<1>4. UNCHANGED vars => vms' = vms
  BY DEF vars
<1>5. QED
  BY <1>1, <1>2, <1>3, <1>4, OthersKeep DEF Next

\* A secret changes when it goes, or when its object's call publishes it.
LEMMA SecretChanges ==
  ASSUME TypeOK, [Next]_vars, NEW k \in Keys, secrets'[k] # secrets[k]
  PROVE  \/ secrets'[k] = None
         \/ /\ PublishSecret(k) /\ secrets[k] = None
            /\ ReturnNil(k) \/ ReturnErr(k)
            /\ secrets'[k] = [owner |-> work[k].uid, key |-> work[k].key]
<1>1. PICK j \in Keys : PublishSecret(j) \/ DeleteSecret(j) \/ CollectSecret(j)
  BY DEF vars, Next, Reconcile, Begin, GetVM, RemoveFinalizer, FindDoomed,
         DeleteInstance, FindInstance, CheckSecret, InsertInstance, RefreshKey,
         WaitForOperation, HandleError, LocateInstance, CreateVM, DeleteVM,
         UpdateVM, DropOtherFinalizers, Enqueue, CompleteOperation,
         FailOperation, Restart, api
<1>2. j = k
  BY <1>1 DEF PublishSecret, DeleteSecret, CollectSecret, TypeOK
<1>3. QED
  BY <1>1, <1>2 DEF PublishSecret, DeleteSecret, CollectSecret, TypeOK

\* Incarnations are counted up.
LEMMA CountedUp ==
  ASSUME TypeOK, [Next]_vars, NEW k \in Keys
  PROVE  created[k] \in Nat /\ created'[k] \in Nat /\ created[k] <= created'[k]
<1>1. created[k] \in Nat
  BY BoundsAssumption DEF TypeOK
<1>2. ASSUME NEW j \in Keys, NEW f, CreateVM(j, f)
      PROVE  created'[k] \in {created[k], created[k] + 1}
  BY <1>2 DEF CreateVM, TypeOK
<1>3. \/ created' = created
      \/ \E j \in Keys : \E f \in SUBSET OtherFinalizers : CreateVM(j, f)
  BY DEF vars, Next, Reconcile, Begin, GetVM, RemoveFinalizer, FindDoomed,
         DeleteInstance, FindInstance, CheckSecret, InsertInstance, RefreshKey,
         WaitForOperation, HandleError, LocateInstance, PublishSecret, DeleteVM,
         UpdateVM, DropOtherFinalizers, DeleteSecret, CollectSecret, Enqueue,
         CompleteOperation, FailOperation, Restart, api
<1>4. QED
  BY <1>1, <1>2, <1>3

\* No object or secret is of an incarnation still to come.
LEMMA NumberedNext ==
  ASSUME CallInv, [Next]_vars, NEW k \in Keys, Numbered(k)
  PROVE  Numbered(k)'
<1> USE DEF CallInv
<1>1. created[k] \in Nat /\ created'[k] \in Nat /\ created[k] <= created'[k]
  BY CountedUp
<1>2. vms[k] # None => vms[k].uid \in Nat /\ vms[k].uid <= created[k]
  <2>1. vms[k] # None => vms[k] \in VM
    BY DEF TypeOK
  <2>2. QED
    BY <2>1, BoundsAssumption DEF Numbered, VM
<1>3. secrets[k] # None => secrets[k].owner \in Nat /\ secrets[k].owner <= created[k]
  <2>1. secrets[k] # None => secrets[k] \in Secret
    BY DEF TypeOK
  <2>2. QED
    BY <2>1, BoundsAssumption DEF Numbered, Secret
<1>4. ASSUME vms'[k] # None PROVE vms'[k].uid <= created'[k]
  <2>1. CASE vms[k] # None
    BY <1>1, <1>2, <1>4, <2>1, SameIncarnation
  <2>2. CASE vms[k] = None
    <3>1. PICK f \in SUBSET OtherFinalizers : CreateVM(k, f)
      BY <1>4, <2>2, Born
    <3>2. vms'[k].uid = created'[k]
      BY <3>1 DEF CreateVM, TypeOK
    <3>3. QED
      BY <1>1, <3>2
  <2>3. QED
    BY <2>1, <2>2
<1>5. ASSUME secrets'[k] # None PROVE secrets'[k].owner <= created'[k]
  <2>1. CASE secrets'[k] = secrets[k]
    BY <1>1, <1>3, <1>5, <2>1
  <2>2. CASE secrets'[k] # secrets[k]
    <3>0. /\ PublishSecret(k)
          /\ secrets'[k] = [owner |-> work[k].uid, key |-> work[k].key]
      BY <1>5, <2>2, SecretChanges
    <3>1. PublishSecret(k) /\ secrets'[k].owner = work[k].uid
      BY <3>0
    <3>2. vms[k] # None /\ work[k].uid = vms[k].uid
      BY <3>1 DEF PublishSecret, At, Held, Holds
    <3>3. QED
      BY <1>1, <1>2, <3>1, <3>2
  <2>3. QED
    BY <2>1, <2>2
<1>6. QED
  BY <1>4, <1>5 DEF Numbered

\* A secret that is not written is the object's own only if it was before.
LEMMA OwnedBefore ==
  ASSUME CallInv, [Next]_vars, NEW k \in Keys, Numbered(k),
         Owned(k)', secrets'[k] = secrets[k]
  PROVE  Owned(k) /\ (vms[k].deleting => vms'[k].deleting)
<1>1. vms'[k] # None /\ secrets[k] # None /\ secrets[k].owner = vms'[k].uid
  BY DEF Owned
<1>2. CASE vms[k] # None
  BY <1>1, <1>2, SameIncarnation DEF Owned
<1>3. CASE vms[k] = None
  <2>1. PICK f \in SUBSET OtherFinalizers : CreateVM(k, f)
    BY <1>1, <1>3, Born
  <2>2. vms'[k].uid = created[k] + 1 /\ created[k] \in Nat
    BY <2>1, BoundsAssumption DEF CreateVM, CallInv, TypeOK
  <2>3. secrets[k] \in Secret
    BY <1>1 DEF CallInv, TypeOK
  <2>4. secrets[k].owner \in Nat /\ secrets[k].owner <= created[k]
    BY <1>1, <2>3, BoundsAssumption DEF Numbered, Secret
  <2>5. QED
    BY <1>1, <2>2, <2>4
<1>4. QED
  BY <1>2, <1>3

\* The object and its secret change, the instance and its operations do not,
\* and the call goes no further than to its end.
LEMMA KeyRecorded ==
  ASSUME FinalizerInv, [Next]_vars, NEW k \in Keys, Sole(k), KeyInv(k),
         UNCHANGED <<instances[InstanceName(k)], ops[InstanceName(k)]>>,
         secrets'[k] \in {secrets[k], None},
         UNCHANGED Course(k) \/ (Free(k) /\ ~Ensuring(k)')
  PROVE  KeyInv(k)'
<1>1. InstanceName(k) \in Names
  BY NameOfKey
<1>2. CallInv
  BY DEF FinalizerInv, CallInv
<1>3. Numbered(k)'
  BY <1>2, NumberedNext DEF KeyInv
<1>4. Owned(k)' => /\ Owned(k) /\ secrets'[k] = secrets[k]
                   /\ vms[k].deleting => vms'[k].deleting
  BY <1>2, OwnedBefore DEF KeyInv, Owned
<1>5. Ensuring(k)' => Ensuring(k) /\ UNCHANGED Course(k)
  BY DEF Ensuring, Course
<1>6. Present(k)' = Present(k)
  BY DEF Present
<1>7. LastInLine(k)'
  BY <1>1 DEF KeyInv, LastInLine, Course, Free
<1>8. Landed(k)'
  BY <1>5, <1>6 DEF KeyInv, Landed, Course
<1>9. Unpublished(k)'
  BY <1>4, <1>5 DEF KeyInv, Unpublished, Course
<1>10. Settled(k)'
  BY <1>4, <1>5, <1>6 DEF KeyInv, Settled, OpensInstance
<1>11. Fresh(k)'
  BY <1>1 DEF KeyInv, Fresh
<1>12. Retired(k)'
  <2>1. SUFFICES ASSUME ~NoopElided, Present(k), secrets[k] # None,
                        secrets'[k] = secrets[k], ~Owned(k)'
                 PROVE  secrets[k].key # instances[InstanceName(k)]
    BY <1>6 DEF Retired
  <2>2. CASE ~Owned(k)
    BY <2>1, <2>2 DEF KeyInv, Retired
  <2>3. CASE Owned(k)
    <3>1. Holds(k)'
      <4>1. Answered' /\ instances'[InstanceName(k)] # None
        BY <2>1, FinalizerNext DEF FinalizerInv, Present
      <4>2. \E j \in Keys : InstanceName(j) = InstanceName(k) /\ Holds(j)'
        BY <1>1, <2>1, <4>1 DEF Answered, InstanceName
      <4>3. QED
        BY <4>2 DEF Sole
    <3>2. vms[k] # None /\ vms'[k] # None
      BY <2>3, <3>1 DEF Owned, Holds
    <3>3. Owned(k)'
      BY <1>2, <2>1, <2>3, <3>2, SameIncarnation DEF Owned
    <3>4. QED
      BY <2>1, <3>3
  <2>4. QED
    BY <2>2, <2>3
<1>13. QED
  BY <1>3, <1>7, <1>8, <1>9, <1>10, <1>11, <1>12 DEF KeyInv

\* The key that is published is the one of the instance, and nothing is under
\* way that could change it.
LEMMA KeyPublished ==
  ASSUME FinalizerInv, [Next]_vars, NEW k \in Keys, KeyInv(k), PublishSecret(k),
         ReturnNil(k) \/ ReturnErr(k),
         secrets'[k] = [owner |-> work[k].uid, key |-> work[k].key]
  PROVE  KeyInv(k)'
<1> USE DEF FinalizerInv
<1>1. PICK n \in Names : n = InstanceName(k)
  BY NameOfKey
<1>2. work[k].pc = "publish" /\ Ensuring(k)
  BY DEF PublishSecret, At, Locals, Ensuring
<1>3. Present(k) /\ instances[n] = work[k].key /\ ops[n] = <<>>
  BY <1>1, <1>2 DEF KeyInv, Landed
<1>4. instances' = instances /\ ops' = ops
  BY DEF PublishSecret, gce
<1>5. ~Ensuring(k)'
  BY SetLocals DEF Idle, Ensuring
<1>6. Free(k)
  BY <1>2, FreeUnlessAwaiting
<1>7. Numbered(k)'
  BY NumberedNext DEF KeyInv, CallInv
<1>8. LastInLine(k)'
  BY <1>1, <1>4, <1>6 DEF LastInLine, Free
<1>9. Landed(k)' /\ Unpublished(k)'
  BY <1>5 DEF Landed, Unpublished
<1>10. Settled(k)'
  <2>1. Present(k)' /\ ops'[n] = <<>>
    BY <1>3, <1>4 DEF Present
  <2>2. OpensInstance(k)'
    BY <1>1, <1>3, <1>4 DEF OpensInstance
  <2>3. DOMAIN ops'[n] = {}
    BY <2>1
  <2>4. QED
    BY <1>1, <2>1, <2>2, <2>3 DEF Settled
<1>11. Fresh(k)'
  <2>1. DOMAIN ops'[n] = {}
    BY <1>3, <1>4
  <2>2. QED
    BY <1>1, <2>1 DEF Fresh
<1>12. Retired(k)'
  <2>1. Holds(k) /\ work[k].uid = vms[k].uid /\ vms' = vms
    BY <1>2 DEF Held, PublishSecret
  <2>2. secrets'[k] # None
    <3>1. TypeOK' /\ work[k].uid \in 1 .. MaxUid /\ work[k].key \in KeyPairs
      <4>1. TypeOK' /\ vms[k] \in VM /\ work[k] \in Work /\ work[k].key # None
        BY <1>2, <2>1, FinalizerNext DEF TypeOK, Holds, Locals, Ensuring
      <4>2. QED
        BY <2>1, <4>1 DEF VM, Work
    <3>2. secrets'[k] \in Secret
      BY <3>1 DEF Secret
    <3>3. QED
      BY <3>2, NoneAssumption
  <2>3. Owned(k)'
    BY <2>1, <2>2 DEF Owned, Holds
  <2>4. QED
    BY <2>3 DEF Retired
<1>13. QED
  BY <1>7, <1>8, <1>9, <1>10, <1>11, <1>12 DEF KeyInv

\* The object's own call, whatever its step.
LEMMA KeyReconciled ==
  ASSUME FinalizerInv, [Next]_vars, NEW k \in Keys, Sole(k), KeyInv(k), Reconcile(k)
  PROVE  KeyInv(k)'
<1> USE DEF FinalizerInv
<1>1. InstanceName(k) \in Names /\ work[k] \in Work
  BY NameOfKey DEF TypeOK
<1>2. CASE GetVM(k) \/ FindDoomed(k) \/ FindInstance(k) \/ CheckSecret(k)
             \/ LocateInstance(k)
  BY <1>2, KeyLookup
<1>3. CASE WaitForOperation(k)
  BY <1>3, KeyAwaited
<1>4. CASE \E kind, p, w : Asks(k, kind, p, w)
  BY <1>4, KeyAsks
<1>5. CASE /\ DeleteInstance(k) \/ InsertInstance(k) \/ RefreshKey(k)
           /\ UNCHANGED gce
           /\ Failed(k) \/ ReturnErr(k)
  <2>1. UNCHANGED Stored(k)
    BY <1>5, StoredSame DEF DeleteInstance, InsertInstance, RefreshKey
  <2>2. Free(k)
    BY <1>5, FreeUnlessAwaiting DEF DeleteInstance, InsertInstance, RefreshKey, At
  <2>3. work[k].pc \in {"delete", "insert", "refresh"}
    BY <1>5 DEF DeleteInstance, InsertInstance, RefreshKey, At
  <2>4. \/ ~Ensuring(k)'
        \/ Ensuring(k) /\ work'[k].pc \in {"report", "insert", "checkSecret"}
    BY <1>5, <2>3, SetLocals DEF Ensuring, Failed, Idle
  <2>5. QED
    BY <1>1, <2>1, <2>2, <2>4, CallEnds
<1>6. CASE HandleError(k) \/ RemoveFinalizer(k)
  <2>1. UNCHANGED <<instances[InstanceName(k)], ops[InstanceName(k)], secrets[k]>>
    BY <1>6 DEF HandleError, RemoveFinalizer, gce
  <2>2. Free(k)
    BY <1>6, FreeUnlessAwaiting DEF HandleError, RemoveFinalizer, At
  <2>3. ReturnNil(k) \/ ReturnErr(k) => ~Ensuring(k)'
    BY SetLocals DEF Idle, Ensuring
  <2>4. ASSUME NEW b, work[k].flow = "delete",
               Put(k, [work[k] EXCEPT !.pc = "finalize", !.current = b])
        PROVE  ~Ensuring(k)'
    BY <1>1, <2>4 DEF Put, TypeOK, Work, Ensuring
  <2>5. ~Ensuring(k)'
    BY <1>6, <2>3, <2>4 DEF HandleError, RemoveFinalizer
  <2>6. QED
    BY <2>1, <2>2, <2>5, KeyRecorded
<1>7. CASE PublishSecret(k)
  <2>1. CASE secrets'[k] = secrets[k] \/ secrets'[k] = None
    <3>1. UNCHANGED <<instances[InstanceName(k)], ops[InstanceName(k)]>>
      BY <1>7 DEF PublishSecret, gce
    <3>2. Free(k)
      BY <1>7, FreeUnlessAwaiting DEF PublishSecret, At
    <3>3. ~Ensuring(k)'
      BY <1>7, SetLocals DEF PublishSecret, Idle, Ensuring
    <3>4. QED
      BY <2>1, <3>1, <3>2, <3>3, KeyRecorded
  <2>2. CASE secrets'[k] # secrets[k] /\ secrets'[k] # None
    BY <2>2, SecretChanges, KeyPublished
  <2>3. QED
    BY <2>1, <2>2
<1>8. CASE DeleteInstance(k) \/ InsertInstance(k) \/ RefreshKey(k)
  <2>1. \/ \E kind, p, w : Asks(k, kind, p, w)
        \/ UNCHANGED gce /\ (Failed(k) \/ ReturnErr(k))
    BY <1>8 DEF DeleteInstance, InsertInstance, RefreshKey, Asks, gce
  <2>2. QED
    BY <1>4, <1>5, <1>8, <2>1
<1>9. QED
  BY <1>2, <1>3, <1>6, <1>7, <1>8 DEF Reconcile

-----------------------------------------------------------------------------
(* The steps of everybody else.                                            *)

\* The call of another object has another instance.
LEMMA KeyElsewhere ==
  ASSUME FinalizerInv, NEW k \in Keys, Sole(k), KeyInv(k),
         NEW j \in Keys \ {k}, Reconcile(j)
  PROVE  KeyInv(k)'
<1> USE DEF FinalizerInv
<1>1. PICK n \in Names : n = InstanceName(k) /\ n # InstanceName(j)
  BY NameOfKey DEF Sole
<1>2. work'[k] = work[k] /\ vms'[k] = vms[k]
  BY OtherCalls, StepsKeepObjects
<1>3. created' = created
  BY DEF Reconcile, GetVM, RemoveFinalizer, FindDoomed, DeleteInstance, FindInstance,
         CheckSecret, InsertInstance, RefreshKey, WaitForOperation, HandleError,
         LocateInstance, PublishSecret, api
<1>4. secrets'[k] = secrets[k]
  <2>1. CASE PublishSecret(j)
    BY <2>1 DEF PublishSecret, TypeOK
  <2>2. CASE ~PublishSecret(j)
    BY <2>2 DEF Reconcile, GetVM, RemoveFinalizer, FindDoomed, DeleteInstance,
                FindInstance, CheckSecret, InsertInstance, RefreshKey,
                WaitForOperation, HandleError, LocateInstance, api
  <2>3. QED
    BY <2>1, <2>2
<1>5. instances'[n] = instances[n]
  <2>1. CASE InsertInstance(j)
    BY <1>1, <2>1 DEF InsertInstance, gce, TypeOK
  <2>2. CASE ~InsertInstance(j)
    BY <2>2 DEF Reconcile, GetVM, RemoveFinalizer, FindDoomed, DeleteInstance,
                FindInstance, CheckSecret, RefreshKey, WaitForOperation,
                HandleError, LocateInstance, PublishSecret, gce
  <2>3. QED
    BY <2>1, <2>2
<1>6. ops'[n] = ops[n]
  <2>1. ASSUME NEW kind, NEW p, NEW w, Asks(j, kind, p, w)
        PROVE  ops'[n] = ops[n]
    BY <1>1, <2>1 DEF Asks, Accept, TypeOK
  <2>2. Abandon(j) => ops'[n] = ops[n]
    BY <1>1 DEF Abandon, TypeOK
  <2>3. QED
    BY <2>1, <2>2, CallOperations
<1>7. UNCHANGED Stored(k) /\ UNCHANGED Course(k)
  BY <1>1, <1>2, <1>3, <1>4, <1>5, <1>6 DEF Stored, Course
<1>8. QED
  BY <1>7, KeySame

\* An operation of another instance ends.
LEMMA KeyEndedElsewhere ==
  ASSUME FinalizerInv, NEW k \in Keys, KeyInv(k),
         NEW m \in Names, m # InstanceName(k), CompleteOperation(m) \/ FailOperation(m)
  PROVE  KeyInv(k)'
<1> USE DEF FinalizerInv
<1>1. PICK n \in Names : n = InstanceName(k)
  BY NameOfKey
<1>2. ops'[n] = ops[n]
  BY <1>1, Ended
<1>3. instances'[n] = instances[n]
  BY <1>1 DEF TypeOK, CompleteOperation, FailOperation, RemoveInstance
<1>4. \A i \in DOMAIN ops[m] : ops[m][i].waiter # k
  BY NoneAssumption DEF Polled
<1>5. work'[k].result = work[k].result
  BY <1>4, Ended
<1>6. UNCHANGED Course(k)
  BY <1>5, ReportKeeps DEF CompleteOperation, FailOperation, Course
<1>7. UNCHANGED Stored(k)
  BY <1>1, <1>2, <1>3 DEF CompleteOperation, FailOperation, api, Stored
<1>8. QED
  BY <1>6, <1>7, KeySame

\* An operation of the object's instance ends.  If the object's call sees it
\* done, it was the last one, and the instance has the key of that call.
LEMMA KeyEnded ==
  ASSUME FinalizerInv, NEW k \in Keys, KeyInv(k), NEW n \in Names, n = InstanceName(k),
         CompleteOperation(n) \/ FailOperation(n)
  PROVE  KeyInv(k)'
<1> USE DEF FinalizerInv
<1> DEFINE op == ops[n][1]
<1>1. /\ ops[n] # <<>> /\ 1 \in DOMAIN ops[n] /\ Head(ops[n]) = op
      /\ ops'[n] = <<>> \/ ops'[n] = Tail(ops[n])
  BY Ended, Shrunk
<1>2. /\ UNCHANGED <<vms, secrets, created>>
      /\ Owned(k)' = Owned(k)
  BY DEF CompleteOperation, FailOperation, api, Owned
<1>3. /\ work'[k].pc = work[k].pc /\ work'[k].flow = work[k].flow
      /\ work'[k].key = work[k].key
      /\ Ensuring(k)' = Ensuring(k)
  BY ReportKeeps DEF CompleteOperation, FailOperation, Ensuring
<1>4. \A i \in DOMAIN ops'[n] : /\ i \in Nat /\ i + 1 \in DOMAIN ops[n] /\ i + 1 # 1
                                /\ ops'[n][i] = ops[n][i + 1]
  <2>1. CASE ops'[n] = <<>>
    BY <2>1
  <2>2. CASE ops'[n] = Tail(ops[n])
    BY <1>1, <2>2, Shrunk
  <2>3. QED
    BY <1>1, <2>1, <2>2
<1>5. Numbered(k)'
  BY <1>2 DEF KeyInv, Numbered
<1>6. LastInLine(k)'
  <2>1. SUFFICES ASSUME NEW i \in DOMAIN ops'[n], ops'[n][i].waiter = k
                 PROVE  /\ \A j \in DOMAIN ops'[n] : j <= i
                        /\ work'[k].flow = "ensure" => ops'[n][i].key = work'[k].key
    BY DEF LastInLine
  <2>2. i \in Nat /\ i + 1 \in DOMAIN ops[n] /\ ops[n][i + 1].waiter = k
          /\ ops'[n][i].key = ops[n][i + 1].key
    BY <1>4, <2>1
  <2>3. /\ \A j \in DOMAIN ops[n] : j <= i + 1
        /\ work[k].flow = "ensure" => ops[n][i + 1].key = work[k].key
    BY <2>2 DEF KeyInv, LastInLine
  <2>4. ASSUME NEW j \in DOMAIN ops'[n] PROVE j <= i
    <3>1. j \in Nat /\ j + 1 <= i + 1
      BY <1>4, <2>3
    <3>2. QED
      BY <2>2, <3>1
  <2>5. QED
    BY <1>3, <2>2, <2>3, <2>4
<1>7. Landed(k)'
  <2>1. SUFFICES ASSUME Ensuring(k),
                        \/ work[k].pc = "await" /\ work'[k].result = "done"
                        \/ work[k].pc \in {"locate", "publish"}
                 PROVE  /\ instances'[n] # None
                        /\ instances'[n] = work[k].key
                        /\ ops'[n] = <<>>
    BY <1>3 DEF Landed, Present
  <2>2. work[k].pc = "await" /\ work[k].result # "done" /\ work'[k].result = "done"
    BY <1>1, <2>1 DEF KeyInv, Landed
  <2>3. CompleteOperation(n) /\ op.waiter = k
    <3>1. \A failed : ~Report({}, failed)
      BY <2>2, ReportKeeps
    <3>2. CompleteOperation(n)
      BY <3>1 DEF FailOperation
    <3>3. \A failed : Report({op.waiter} \ {None}, failed) => k = op.waiter
      <4>1. ASSUME NEW failed, Report({op.waiter} \ {None}, failed)
            PROVE  k \in {op.waiter} \ {None}
        BY <2>2, <4>1, ReportKeeps
      <4>2. QED
        BY <4>1
    <3>4. QED
      BY <1>1, <3>2, <3>3 DEF CompleteOperation
  <2>4. op.kind # "delete"
    BY <1>1, <2>1, <2>3, NoneAssumption DEF Polled, Ensuring
  <2>5. op.key = work[k].key /\ \A j \in DOMAIN ops[n] : j <= 1
    BY <1>1, <2>1, <2>3 DEF KeyInv, LastInLine, Ensuring
  <2>6. instances'[n] = op.key /\ ops'[n] = Tail(ops[n])
    BY <1>1, <2>3, <2>4 DEF CompleteOperation, TypeOK
  <2>7. DOMAIN ops'[n] = {}
    BY <1>4, <2>5
  <2>8. ops'[n] \in Seq(Operation)
    BY OperationType DEF TypeOK
  <2>9. op.key # None
    BY <1>1, <2>4 DEF OfInstance
  <2>10. QED
    BY <2>5, <2>6, <2>7, <2>8, <2>9, EmptySeq
<1>8. Fresh(k)'
  BY <1>2, <1>4 DEF KeyInv, Fresh
<1>9. Retired(k)'
  <2>1. instances'[n] \in {instances[n], None, op.key}
    BY <1>1 DEF CompleteOperation, FailOperation, RemoveInstance, TypeOK
  <2>2. secrets[k] # None => op.key # secrets[k].key
    BY <1>1 DEF KeyInv, Fresh
  <2>3. QED
    BY <1>2, <2>1, <2>2 DEF KeyInv, Retired, Present
<1>10. CASE ~Owned(k)
  <2>1. Unpublished(k)' /\ Settled(k)'
    BY <1>2, <1>10 DEF Unpublished, Settled
  <2>2. QED
    BY <1>5, <1>6, <1>7, <1>8, <1>9, <2>1 DEF KeyInv
<1>11. CASE Owned(k)
  <2>1. /\ OpensInstance(k)
        /\ \A i \in DOMAIN ops[n] : ops[n][i].kind = "delete"
        /\ vms[k].deleting /\ ~Ensuring(k)
    BY <1>1, <1>11 DEF KeyInv, Settled
  <2>2. Unpublished(k)'
    BY <1>3, <2>1 DEF Unpublished
  <2>3. instances'[n] \in {instances[n], None}
    BY <1>1, <2>1 DEF CompleteOperation, FailOperation, RemoveInstance, TypeOK
  <2>4. OpensInstance(k)'
    BY <1>2, <2>1, <2>3 DEF OpensInstance, Present, Owned
  <2>5. \A i \in DOMAIN ops'[n] : ops'[n][i].kind = "delete"
    BY <1>4, <2>1
  <2>6. Settled(k)'
    BY <1>2, <1>3, <2>1, <2>4, <2>5 DEF Settled
  <2>7. QED
    BY <1>5, <1>6, <1>7, <1>8, <1>9, <2>2, <2>6 DEF KeyInv
<1>12. QED
  BY <1>10, <1>11

\* Users, the garbage collector and the queue leave the instance alone, and tell
\* a call at most that what it read is old.
LEMMA KeyWrites ==
  ASSUME FinalizerInv, [Next]_vars, NEW k \in Keys, Sole(k), KeyInv(k), NEW j \in Keys,
         \/ Begin(j) \/ Enqueue(j)
         \/ \E f \in SUBSET OtherFinalizers : CreateVM(j, f)
         \/ DeleteVM(j) \/ UpdateVM(j) \/ DropOtherFinalizers(j)
         \/ DeleteSecret(j) \/ CollectSecret(j)
  PROVE  KeyInv(k)'
<1> USE DEF FinalizerInv
<1>1. UNCHANGED <<instances[InstanceName(k)], ops[InstanceName(k)]>>
  BY DEF Begin, Enqueue, CreateVM, DeleteVM, UpdateVM, DropOtherFinalizers,
         DeleteSecret, CollectSecret, gce
<1>2. secrets'[k] \in {secrets[k], None}
  BY DEF Begin, Enqueue, CreateVM, DeleteVM, UpdateVM, DropOtherFinalizers,
         DeleteSecret, CollectSecret, api, TypeOK
<1>3. UNCHANGED Course(k) \/ (Free(k) /\ ~Ensuring(k)')
  <2>1. CASE Outdated(j)
    BY <2>1, OutdatedKeeps DEF Course
  <2>2. CASE Begin(j) /\ j = k
    <3>1. work[k] \in Work
      BY DEF TypeOK
    <3>2. work'[k].pc = "get" /\ work[k].pc = "idle"
      BY <2>2, <3>1 DEF Begin, At, Put, TypeOK, Work
    <3>3. QED
      BY <3>2, FreeUnlessAwaiting DEF Ensuring
  <2>3. CASE Begin(j) /\ j # k
    BY <2>3 DEF Begin, Put, TypeOK, Course
  <2>4. CASE work' = work
    BY <2>4 DEF Course
  <2>5. QED
    BY <2>1, <2>2, <2>3, <2>4
       DEF Enqueue, CreateVM, DeleteVM, UpdateVM, DropOtherFinalizers,
           DeleteSecret, CollectSecret
<1>4. QED
  BY <1>1, <1>2, <1>3, KeyRecorded

\* After a restart no call waits for anything.
LEMMA KeyRestarted ==
  ASSUME FinalizerInv, NEW k \in Keys, KeyInv(k), Restart
  PROVE  KeyInv(k)'
<1> USE DEF FinalizerInv
<1>1. \A n \in Names : /\ SameButWaiters(ops[n], ops'[n])
                       /\ \A i \in DOMAIN ops[n] :
                            ops[n][i].waiter \in Keys => ops'[n][i].waiter = None
  BY Unattend DEF Restart
<1>2. Free(k)'
  BY <1>1, NoneAssumption DEF Free, SameButWaiters
<1>3. ~Ensuring(k)'
  BY DEF Restart, Idle, Ensuring
<1>4. UNCHANGED <<vms, secrets, created, instances>>
  BY DEF Restart, api
<1>5. QED
  BY <1>1, <1>2, <1>3, <1>4, KeyUnattended, NameOfKey

-----------------------------------------------------------------------------
(* The inductive invariant and what follows from it.                       *)

LEMMA KeyInit == Init => \A k \in Keys : KeyInv(k)
<1>1. ASSUME Init, NEW k \in Keys PROVE KeyInv(k)
  <2>1. /\ vms[k] = None /\ secrets[k] = None /\ work[k] = Idle
        /\ ops[InstanceName(k)] = <<>>
    BY <1>1, NameOfKey DEF Init
  <2>2. ~Owned(k) /\ ~Ensuring(k)
    BY <2>1 DEF Owned, Ensuring, Idle
  <2>3. Numbered(k) /\ LastInLine(k)
    BY <2>1 DEF Numbered, LastInLine
  <2>4. Landed(k) /\ Unpublished(k) /\ Settled(k)
    BY <2>2 DEF Landed, Unpublished, Settled
  <2>5. Fresh(k) /\ Retired(k)
    BY <2>1 DEF Fresh, Retired
  <2>6. QED
    BY <2>3, <2>4, <2>5 DEF KeyInv
<1>2. QED
  BY <1>1

LEMMA KeyNext ==
  ASSUME FinalizerInv, [Next]_vars, NEW k \in Keys, Sole(k), KeyInv(k)
  PROVE  KeyInv(k)'
<1>1. ASSUME NEW j \in Keys, Reconcile(j) PROVE KeyInv(k)'
  BY <1>1, KeyReconciled, KeyElsewhere
<1>2. ASSUME NEW n \in Names, CompleteOperation(n) \/ FailOperation(n)
      PROVE  KeyInv(k)'
  BY <1>2, KeyEnded, KeyEndedElsewhere
<1>3. CASE UNCHANGED vars
  BY <1>3, KeySame DEF vars, Stored, Course
<1>4. QED
  BY <1>1, <1>2, <1>3, KeyWrites, KeyRestarted DEF Next

\* Calls, operations, objects, secrets and instances stay in step, whatever
\* fails, is lost or dies between two calls of reconcile's.
THEOREM InductiveInvariant == Spec => []IInv
<1>1. Init => IInv
  BY FinalizerInit, KeyInit DEF IInv
<1>2. IInv /\ [Next]_vars => IInv'
  <2>1. SUFFICES ASSUME IInv, [Next]_vars PROVE IInv'
    OBVIOUS
  <2>2. FinalizerInv'
    BY <2>1, FinalizerNext DEF IInv
  <2>3. ASSUME NEW k \in Keys, Sole(k)' PROVE KeyInv(k)'
    BY <2>1, <2>3, KeyNext DEF IInv, Sole
  <2>4. QED
    BY <2>2, <2>3 DEF IInv
<1>3. QED
  BY <1>1, <1>2, PTL DEF Spec

\* runVMOpPollSSH publishes the key that its instance has and keeps: where an
\* object has its name to itself, its secret opens its instance, whatever was
\* retried, lost or done late between generating the pair and publishing it.
THEOREM PublishedKeysOpen == Spec => []SecretOpensInstance
<1>1. IInv => SecretOpensInstance
  <2>1. ASSUME NEW k \in Keys, KeyInv(k) PROVE OpensInstance(k)
    BY <2>1 DEF KeyInv, Settled, OpensInstance
  <2>2. QED
    BY <2>1 DEF IInv, SecretOpensInstance
<1>2. QED
  BY <1>1, InductiveInvariant, PTL

\* Where every status write makes a new version of the object, an instance that
\* came up goes only while an object of its name is being deleted: a deletion
\* that GCE carries out late finds its object still there, not a successor.
THEOREM NoSuccessorIsHit == ~NoopElided => (Spec => LiveInstanceKept)
<1> DEFINE Goes(n) == instances[n] # None /\ instances'[n] = None
           Due(n) == \/ Head(ops[n]).kind = "insert"
                     \/ \E k \in Keys : /\ InstanceName(k) = n
                                        /\ vms[k] # None /\ vms[k].deleting
<1>1. SUFFICES ASSUME ~NoopElided PROVE Spec => LiveInstanceKept
  OBVIOUS
<1>2. ASSUME FinalizerInv, [Next]_vars PROVE \A n \in Names : Goes(n) => Due(n)
  <2> USE <1>2 DEF FinalizerInv
  <2>1. SUFFICES ASSUME NEW n \in Names, Goes(n) PROVE Due(n)
    OBVIOUS
  <2>2. CompleteOperation(n) \/ FailOperation(n)
    <3>1. ASSUME NEW m \in Names \ {n}, CompleteOperation(m) \/ FailOperation(m)
          PROVE  instances'[n] = instances[n]
      BY <3>1 DEF TypeOK, CompleteOperation, FailOperation, RemoveInstance
    <3>2. ASSUME NEW k \in Keys, InsertInstance(k)
          PROVE  instances'[n] \in {instances[n], newSSHKeypair}
                   /\ (instances' = instances \/ CanGenerate)
      BY <3>2 DEF InsertInstance, gce, TypeOK
    <3>3. \A k \in Keys : ~InsertInstance(k)
      BY <2>1, <3>2, NewKeypair, NoneAssumption
    <3>4. ~UNCHANGED instances
      BY <2>1
    <3>5. QED
      BY <2>1, <3>1, <3>3, <3>4
         DEF vars, Next, Reconcile, Begin, GetVM, RemoveFinalizer, FindDoomed,
             DeleteInstance, FindInstance, CheckSecret, RefreshKey,
             WaitForOperation, HandleError, LocateInstance, PublishSecret,
             CreateVM, DeleteVM, UpdateVM, DropOtherFinalizers, DeleteSecret,
             CollectSecret, Enqueue, Restart, gce
  <2>3. /\ ops[n] # <<>> /\ 1 \in DOMAIN ops[n] /\ Head(ops[n]) = ops[n][1]
    BY <2>2, Ended, Shrunk
  <2>4. ops[n][1].kind # "delete" => ops[n][1].key # None
    BY <2>3 DEF OfInstance
  <2>5. ops[n][1].kind \in {"insert", "delete"}
    BY <2>1, <2>2, <2>3, <2>4 DEF CompleteOperation, FailOperation, TypeOK
  <2>6. ops[n][1].kind = "delete" =>
          \E k \in Keys : InstanceName(k) = n /\ vms[k] # None /\ vms[k].deleting
    BY <1>1, <2>3 DEF Doomed, Holds
  <2>7. QED
    BY <2>3, <2>5, <2>6
<1>3. QED
  BY <1>2, FinalizerInvariant, PTL DEF Spec, LiveInstanceKept

\* Where every status write makes a new version of the object, the key that the
\* user of an object has left does not open what its successor gets: the old
\* secret may be there still when newSSHKeypair makes the new key.
THEOREM OldSecretsOpenNothing ==
  ~NoopElided =>
    (Spec => [](\A k \in Keys :
                  Sole(k) /\ Present(k) /\ secrets[k] # None /\ ~Owned(k)
                  => secrets[k].key # instances[InstanceName(k)]))
<1> DEFINE A == \A k \in Keys :
                  Sole(k) /\ Present(k) /\ secrets[k] # None /\ ~Owned(k)
                  => secrets[k].key # instances[InstanceName(k)]
<1>1. SUFFICES ASSUME ~NoopElided PROVE Spec => []A
  OBVIOUS
<1>2. IInv => A
  BY <1>1 DEF IInv, KeyInv, Retired
<1>3. QED
  BY <1>2, InductiveInvariant, PTL

-----------------------------------------------------------------------------
(* Object, instance and secret live as MachineLife says.                   *)

\* What MachineLife sees of a stored object, now and in the next state.
LEMMA IncarnationSeen ==
  ASSUME TypeOK, NEW k \in Keys
  PROVE  /\ vms[k] = None => Incarnation(k) = None
         /\ vms[k] # None => /\ vms[k] \in VM
                             /\ Incarnation(k) # None
                             /\ Incarnation(k) = [uid |-> vms[k].uid,
                                                  deleting |-> vms[k].deleting]
<1>1. vms[k] # None => vms[k] \in VM
  BY DEF TypeOK
<1>2. vms[k] \in VM =>
        [uid |-> vms[k].uid, deleting |-> vms[k].deleting]
          \in [uid : 1 .. MaxUid, deleting : BOOLEAN]
  BY DEF VM
<1>3. QED
  BY <1>1, <1>2, NoneAssumption DEF Incarnation

LEMMA IncarnationNext ==
  ASSUME NEW k \in Keys
  PROVE  /\ vms'[k] = None => Incarnation(k)' = None
         /\ vms'[k] # None =>
              Incarnation(k)' = [uid |-> vms'[k].uid, deleting |-> vms'[k].deleting]
BY DEF Incarnation

\* The secret is for the object: in the one and in the other specification.
LEMMA OwnSeen ==
  ASSUME TypeOK, NEW k \in Keys
  PROVE  Machine(k)!Own <=> Owned(k)
<1>1. vms[k] = None => Incarnation(k) = None
  BY IncarnationSeen
<1>2. vms[k] # None => Incarnation(k) # None /\ Incarnation(k).uid = vms[k].uid
  BY IncarnationSeen
<1>3. QED
  BY <1>1, <1>2 DEF Machine!Own, Owned

\* An object goes when it is under deletion and, where every status write makes
\* a new version of it, after its instance.
LEMMA Goes ==
  ASSUME FinalizerInv, [Next]_vars, NEW k \in Keys, Sole(k),
         vms[k] # None, vms'[k] = None
  PROVE  vms[k].deleting /\ (~NoopElided => instances'[InstanceName(k)] = None)
<1> USE DEF FinalizerInv
<1>1. vms[k].deleting
  <2>1. ~Holds(k)'
    BY DEF Holds
  <2>2. CASE Holds(k)
    <3>1. Leaving(k) /\ work[k].pc = "finalize"
      BY <2>1, <2>2, LosesFinalizer DEF CallInv
    <3>2. QED
      BY <3>1 DEF Leaving, Held
  <2>3. CASE ~Holds(k)
    BY <2>3 DEF Stamped
  <2>4. QED
    BY <2>2, <2>3
<1>2. ASSUME ~NoopElided, instances'[InstanceName(k)] # None PROVE FALSE
  <2>1. \E j \in Keys : InstanceName(j) = InstanceName(k) /\ Holds(j)'
    BY <1>2, FinalizerNext, NameOfKey DEF Answered, InstanceName
  <2>2. QED
    BY <2>1 DEF Sole, Holds
<1>3. QED
  BY <1>1, <1>2

\* What happens to the object alone.
LEMMA ObjectSteps ==
  ASSUME FinalizerInv, [Next]_vars, NEW k \in Keys, Sole(k), KeyInv(k),
         UNCHANGED <<instances[InstanceName(k)], secrets[k]>>
  PROVE  Machine(k)!Next \/ UNCHANGED Machine(k)!machine
<1> USE DEF FinalizerInv
<1> DEFINE n == InstanceName(k)
<1>1. CASE vms[k] = None /\ vms'[k] = None
  <2>1. UNCHANGED Incarnation(k)
    BY <1>1, IncarnationSeen, IncarnationNext
  <2>2. QED
    BY <2>1 DEF Machine!machine
<1>2. CASE vms[k] = None /\ vms'[k] # None
  <2>1. PICK f \in SUBSET OtherFinalizers : CreateVM(k, f)
    BY <1>2, Born DEF CallInv
  <2> DEFINE u == created'[k]
  <2>2. u = created[k] + 1 /\ created[k] \in Nat /\ u \in 1 .. MaxUid
    BY <2>1, BoundsAssumption DEF CreateVM, TypeOK
  <2>3. vms'[k].uid = u /\ vms'[k].deleting = FALSE
    BY <2>1 DEF CreateVM, TypeOK
  <2>4. secrets[k] # None => secrets[k].owner # u
    <3>1. secrets[k] # None => secrets[k] \in Secret
      BY DEF TypeOK
    <3>2. secrets[k] # None => secrets[k].owner \in Nat /\ secrets[k].owner <= created[k]
      BY <3>1, BoundsAssumption DEF Secret, KeyInv, Numbered
    <3>3. QED
      BY <2>2, <3>2
  <2> HIDE DEF u
  <2>5. Incarnation(k) = None
    BY <1>2, IncarnationSeen
  <2>6. Incarnation(k)' = [uid |-> u, deleting |-> FALSE]
    BY <1>2, <2>3, IncarnationNext
  <2>7. Machine(k)!Created
    BY <2>2, <2>4, <2>5, <2>6 DEF Machine!Created
  <2>8. QED
    BY <2>7 DEF Machine!Next
<1>3. CASE vms[k] # None /\ vms'[k] = None
  <2>1. /\ Incarnation(k) # None /\ Incarnation(k).deleting
        /\ Incarnation(k)' = None
        /\ ~NoopElided => instances[n] = None
    BY <1>3, Goes, IncarnationSeen, IncarnationNext
  <2>2. Machine(k)!Removed
    BY <2>1 DEF Machine!Removed
  <2>3. QED
    BY <2>2 DEF Machine!Next
<1>4. CASE vms[k] # None /\ vms'[k] # None
  <2>1. /\ Incarnation(k) # None
        /\ Incarnation(k) = [uid |-> vms[k].uid, deleting |-> vms[k].deleting]
        /\ Incarnation(k)' = [uid |-> vms[k].uid, deleting |-> vms'[k].deleting]
    BY <1>4, IncarnationSeen, IncarnationNext, SameIncarnation DEF CallInv
  <2>2. CASE vms'[k].deleting = vms[k].deleting
    BY <2>1, <2>2 DEF Machine!machine
  <2>3. CASE vms'[k].deleting # vms[k].deleting
    <3>1. vms[k] \in VM /\ vms'[k] \in VM
      BY <1>4, FinalizerNext DEF TypeOK
    <3>2. vms'[k].deleting \in BOOLEAN /\ vms[k].deleting \in BOOLEAN
      BY <3>1, Zenon DEF VM
    <3>3. vms[k].deleting => vms'[k].deleting
      BY <1>4, SameIncarnation DEF CallInv
    <3>4. vms'[k].deleting = TRUE
      BY <2>3, <3>2, <3>3, Zenon
    <3>5. Incarnation(k)' = [Incarnation(k) EXCEPT !.deleting = vms'[k].deleting]
      BY <2>1
    <3>6. Incarnation(k)' = [Incarnation(k) EXCEPT !.deleting = TRUE]
      BY <3>4, <3>5, Zenon
    <3>7. Machine(k)!Marked
      BY <2>1, <3>6 DEF Machine!Marked
    <3>8. QED
      BY <3>7 DEF Machine!Next
  <2>4. QED
    BY <2>2, <2>3
<1>5. QED
  BY <1>1, <1>2, <1>3, <1>4

\* What happens to the secret: the object's own call publishes it, or it goes.
LEMMA SecretSteps ==
  ASSUME FinalizerInv, [Next]_vars, NEW k \in Keys, KeyInv(k),
         secrets'[k] # secrets[k]
  PROVE  Machine(k)!Next /\ UNCHANGED <<vms, instances>>
<1> USE DEF FinalizerInv
<1>1. PICK j \in Keys : PublishSecret(j) \/ DeleteSecret(j) \/ CollectSecret(j)
  BY DEF vars, Next, Reconcile, Begin, GetVM, RemoveFinalizer, FindDoomed,
         DeleteInstance, FindInstance, CheckSecret, InsertInstance, RefreshKey,
         WaitForOperation, HandleError, LocateInstance, CreateVM, DeleteVM,
         UpdateVM, DropOtherFinalizers, Enqueue, CompleteOperation,
         FailOperation, Restart, api
<1>2. UNCHANGED <<vms, instances>>
  BY <1>1 DEF PublishSecret, DeleteSecret, CollectSecret, gce
<1>3. UNCHANGED <<Incarnation(k), instances[InstanceName(k)]>>
  BY <1>2 DEF Incarnation
<1>4. CASE secrets'[k] = None
  <2>1. Machine(k)!Forgotten
    BY <1>3, <1>4 DEF Machine!Forgotten
  <2>2. QED
    BY <1>2, <2>1 DEF Machine!Next
<1>5. CASE secrets'[k] # None
  <2>1. /\ PublishSecret(k) /\ secrets[k] = None
        /\ secrets'[k] = [owner |-> work[k].uid, key |-> work[k].key]
    BY <1>5, SecretChanges
  <2>2. Ensuring(k) /\ work[k].pc = "publish"
    BY <2>1 DEF PublishSecret, At, Locals, Ensuring
  <2>3. Present(k) /\ instances[InstanceName(k)] = work[k].key
    BY <2>2 DEF KeyInv, Landed
  <2>4. vms[k] # None /\ work[k].uid = vms[k].uid
    BY <2>2 DEF Held, Holds
  <2>5. Incarnation(k) # None /\ Incarnation(k).uid = vms[k].uid
    BY <2>4, IncarnationSeen
  <2>6. Machine(k)!Published
    BY <1>3, <2>1, <2>3, <2>4, <2>5 DEF Machine!Published, Present
  <2>7. QED
    BY <1>2, <2>6 DEF Machine!Next
<1>6. QED
  BY <1>4, <1>5

\* What happens to the instance: the object's own call has it made, and its
\* operations end.
LEMMA InstanceSteps ==
  ASSUME FinalizerInv, [Next]_vars, NEW k \in Keys, Sole(k), KeyInv(k),
         instances'[InstanceName(k)] # instances[InstanceName(k)]
  PROVE  Machine(k)!Next /\ UNCHANGED <<vms, secrets>>
<1> USE DEF FinalizerInv
<1>0. PICK n \in Names : n = InstanceName(k)
  BY NameOfKey
<1>1. \/ \E j \in Keys : InsertInstance(j)
      \/ \E m \in Names : CompleteOperation(m) \/ FailOperation(m)
  BY DEF vars, Next, Reconcile, Begin, GetVM, RemoveFinalizer, FindDoomed,
         DeleteInstance, FindInstance, CheckSecret, RefreshKey, WaitForOperation,
         HandleError, LocateInstance, PublishSecret, CreateVM, DeleteVM, UpdateVM,
         DropOtherFinalizers, DeleteSecret, CollectSecret, Enqueue, Restart, gce
<1>2. UNCHANGED <<vms, secrets>>
  BY <1>1 DEF InsertInstance, CompleteOperation, FailOperation, api
<1>3. UNCHANGED <<Incarnation(k), secrets[k]>>
  BY <1>2 DEF Incarnation
<1>4. Machine(k)!Own <=> Owned(k)
  BY OwnSeen
<1>5. ASSUME NEW j \in Keys, InsertInstance(j)
      PROVE  Machine(k)!Booted
  <2> DEFINE p == newSSHKeypair
  <2>0. instances' # instances
    BY <1>0
  <2>1. /\ instances' = [instances EXCEPT ![InstanceName(j)] = p]
        /\ \/ Accept(j, "insert", p, j) /\ Await(j, p)
           \/ Accept(j, "insert", p, None) /\ Failed(j)
        /\ CanGenerate /\ ~Present(j)
    BY <1>5, <2>0 DEF InsertInstance, gce
  <2>2. j = k
    BY <1>0, <2>1 DEF Sole, TypeOK
  <2>3. Asks(k, "insert", p, k) \/ Asks(k, "insert", p, None)
    BY <1>5, <2>1, <2>2 DEF Asks
  <2>4. instances'[n] = p /\ p \in KeyPairs /\ instances[n] = None
    BY <1>0, <2>1, <2>2, NewKeypair DEF TypeOK, Present
  <2>5. work[k].pc = "insert" /\ Ensuring(k)
    BY <1>5, <2>2 DEF InsertInstance, At, Locals, Ensuring
  <2>6. ~Owned(k)
    BY <2>1, <2>2, <2>5 DEF KeyInv, Settled
  <2>7. Incarnation(k) # None
    BY <2>5, IncarnationSeen DEF Held, Holds
  <2>8. secrets[k] # None => secrets[k].key # p
    BY <2>3, AskedIsNew
  <2>9. QED
    BY <1>0, <1>3, <1>4, <2>4, <2>6, <2>7, <2>8 DEF Machine!Booted, Machine!New
<1>6. ASSUME NEW m \in Names, CompleteOperation(m) \/ FailOperation(m)
      PROVE  Machine(k)!Rekeyed \/ Machine(k)!Stopped
  <2> DEFINE op == ops[n][1]
  <2>1. m = n
    BY <1>0, <1>6 DEF CompleteOperation, FailOperation, RemoveInstance, TypeOK
  <2>2. /\ ops[n] # <<>> /\ 1 \in DOMAIN ops[n] /\ Head(ops[n]) = op
        /\ op \in Operation /\ op.key \in KeyPairs \cup {None}
    BY <1>6, <2>1, Ended, Shrunk, OpsType
  <2>3. instances[n] # None /\ (op.kind # "delete" => op.key # None)
    BY <2>2 DEF OfInstance
  <2>4. secrets[k] # None => op.key # secrets[k].key
    BY <1>0, <2>2 DEF KeyInv, Fresh
  <2>5. Owned(k) => op.kind = "delete" /\ vms[k].deleting
    BY <1>0, <2>2 DEF KeyInv, Settled
  <2>6. Owned(k) => Incarnation(k).deleting
    BY <2>5, IncarnationSeen DEF Owned
  <2>7. CASE op.kind # "delete" /\ instances'[n] = op.key
    BY <1>0, <1>3, <1>4, <2>2, <2>3, <2>4, <2>5, <2>7 DEF Machine!Rekeyed, Machine!New
  <2>8. CASE instances'[n] = None
    BY <1>0, <1>3, <1>4, <2>3, <2>6, <2>8 DEF Machine!Stopped
  <2>9. \/ op.kind # "delete" /\ instances'[n] = op.key
        \/ instances'[n] = None
    BY <1>0, <1>6, <2>1, <2>2 DEF CompleteOperation, FailOperation, RemoveInstance, TypeOK
  <2>10. QED
    BY <2>7, <2>8, <2>9
<1>7. QED
  BY <1>1, <1>2, <1>5, <1>6 DEF Machine!Next

\* Whatever fails, is lost or dies, the controller, GCE and those who write the
\* objects take only steps that MachineLife allows, for every object whose name
\* is nobody else's: what ensureVM, deleteVM and runVMOpPollSSH do in many calls
\* amounts to one instance and one key for each object.
THEOREM ControllerImplementsMachineLife == Spec => MachinesLive
<1> DEFINE A == \A k \in Keys : Sole(k) =>
                  Machine(k)!Next \/ UNCHANGED Machine(k)!machine
<1>1. Init => \A k \in Keys : Machine(k)!Init
  BY NameOfKey DEF Init, Machine!Init, Incarnation
<1>2. IInv /\ [Next]_vars => A
  <2> SUFFICES ASSUME IInv, [Next]_vars, NEW k \in Keys, Sole(k)
               PROVE  Machine(k)!Next \/ UNCHANGED Machine(k)!machine
    OBVIOUS
  <2>1. FinalizerInv /\ KeyInv(k)
    BY DEF IInv
  <2>2. QED
    BY <2>1, ObjectSteps, SecretSteps, InstanceSteps
<1>3. QED
  BY <1>1, <1>2, InductiveInvariant, PTL DEF Spec, MachinesLive

\* Once an object has its secret no operation, however late, changes or removes
\* its instance before the object is deleted.
THEOREM PublishedKeysStay ==
  Spec => [][\A k \in Keys : Sole(k) /\ Owned(k) /\ ~vms[k].deleting =>
                instances'[InstanceName(k)] = instances[InstanceName(k)]]_vars
<1> DEFINE A == \A k \in Keys : Sole(k) /\ Owned(k) /\ ~vms[k].deleting =>
                  instances'[InstanceName(k)] = instances[InstanceName(k)]
<1>1. ASSUME IInv, [Next]_vars PROVE A
  <2>1. SUFFICES ASSUME NEW k \in Keys, Sole(k), Owned(k), ~vms[k].deleting,
                        instances'[InstanceName(k)] # instances[InstanceName(k)]
                 PROVE  FALSE
    OBVIOUS
  <2>2. FinalizerInv /\ KeyInv(k) /\ TypeOK
    BY <1>1, <2>1 DEF IInv, FinalizerInv
  <2>3. Machine(k)!Next /\ UNCHANGED <<vms, secrets>>
    BY <1>1, <2>1, <2>2, InstanceSteps
  <2>4. Machine(k)!Own /\ ~Incarnation(k).deleting
    BY <2>1, <2>2, OwnSeen, IncarnationSeen DEF Owned
  <2>5. QED
    BY <2>1, <2>3, <2>4
       DEF Machine!Next, Machine!Created, Machine!Marked, Machine!Removed,
           Machine!Booted, Machine!Rekeyed, Machine!Stopped, Machine!Published,
           Machine!Forgotten
<1>2. QED
  BY <1>1, InductiveInvariant, PTL DEF Spec

=============================================================================
