------------------------- MODULE VMControllerProofs -------------------------
(***************************************************************************)
(* Theorems about VMController, for any number of namespaces, names, key   *)
(* pairs and failures.                                                     *)
(***************************************************************************)
EXTENDS VMController, SequenceTheorems, TLAPS

USE DEF Keys

-----------------------------------------------------------------------------
(* What the helpers of the reconcile steps preserve.                       *)

\* An idle reconcile call is well typed.
LEMMA IdleType == Idle \in Work
  BY BoundsAssumption DEF Idle, Work, Steps

\* A fault is counted up to its bound.
LEMMA FaultType ==
  ASSUME faults \in 0 .. MaxFaults, Fault
  PROVE  faults' \in 0 .. MaxFaults
  BY BoundsAssumption DEF Fault

\* Well-typed local variables keep the calls well typed.
LEMMA PutType ==
  ASSUME NEW k \in Keys, NEW w \in Work, work \in [Keys -> Work], Put(k, w)
  PROVE  work' \in [Keys -> Work]
  BY DEF Put

\* Leaving reconcile, with or without an error, keeps the types.
LEMMA ReturnType ==
  ASSUME NEW k \in Keys, work \in [Keys -> Work], pending \in SUBSET Keys,
         ReturnNil(k) \/ ReturnErr(k)
  PROVE  work' \in [Keys -> Work] /\ pending' \in SUBSET Keys
  BY IdleType, PutType DEF ReturnNil, ReturnErr

\* So does going on to another step of it.
LEMMA GotoType ==
  ASSUME NEW k \in Keys, NEW pc \in Steps,
         work \in [Keys -> Work], pending \in SUBSET Keys, Goto(k, pc)
  PROVE  work' \in [Keys -> Work] /\ pending' \in SUBSET Keys
<1>1. [work[k] EXCEPT !.pc = pc] \in Work
  BY DEF Work
<1>2. QED
  BY <1>1, PutType DEF Goto

\* So does turning to a failure to report.
LEMMA FailedType ==
  ASSUME NEW k \in Keys, NEW m \in Messages,
         work \in [Keys -> Work], pending \in SUBSET Keys, FailedWith(k, m)
  PROVE  work' \in [Keys -> Work] /\ pending' \in SUBSET Keys
<1>1. work[k] \in Work /\ "report" \in Steps /\ m \in Messages \cup {None}
  BY DEF Steps
<1>2. [work[k] EXCEPT !.pc = "report", !.msg = m] \in Work
  BY <1>1 DEF Work
<1>3. QED
  BY <1>2, PutType DEF FailedWith

\* So does waiting for an operation.
LEMMA AwaitType ==
  ASSUME NEW k \in Keys, NEW p \in KeyPairs \cup {None},
         work \in [Keys -> Work], pending \in SUBSET Keys, Await(k, p)
  PROVE  work' \in [Keys -> Work] /\ pending' \in SUBSET Keys
<1>1. work[k] \in Work /\ "await" \in Steps
  BY DEF Steps
<1>2. [work[k] EXCEPT !.pc = "await", !.key = p, !.result = "pending"] \in Work
  BY <1>1 DEF Work
<1>3. QED
  BY <1>2, PutType DEF Await

\* A generated key pair is one nobody uses.
LEMMA NewKeypair ==
  ASSUME CanGenerate
  PROVE  newSSHKeypair \in KeyPairs /\ newSSHKeypair \notin UsedKeyPairs
  BY DEF CanGenerate, newSSHKeypair

\* An accepted call adds an operation to those of the key's instance.
LEMMA AcceptType ==
  ASSUME NEW k \in Keys, ops \in [Names -> Seq(Operation)],
         NEW kind \in {"insert", "setMetadata", "delete"},
         NEW p \in KeyPairs \cup {None}, NEW w \in Keys \cup {None},
         Accept(k, kind, p, w)
  PROVE  ops' \in [Names -> Seq(Operation)]
<1>1. InstanceName(k) \in Names
  BY DEF InstanceName
<1>2. [kind |-> kind, key |-> p, waiter |-> w] \in Operation
  BY DEF Operation
<1>3. Append(ops[InstanceName(k)], [kind |-> kind, key |-> p, waiter |-> w])
        \in Seq(Operation)
  BY <1>1, <1>2
<1>4. QED
  BY <1>3 DEF Accept

\* Operations nobody waits for are still those operations.
LEMMA UnattendedType ==
  ASSUME NEW s \in Seq(Operation), NEW K
  PROVE  Unattended(s, K) \in Seq(Operation)
<1>1. \A i \in DOMAIN s : s[i] \in Operation
  OBVIOUS
<1>2. \A i \in DOMAIN s :
        (IF s[i].waiter \in K THEN [s[i] EXCEPT !.waiter = None] ELSE s[i])
          \in Operation
  BY <1>1 DEF Operation
<1>3. DOMAIN s = 1 .. Len(s) /\ Len(s) \in Nat
  OBVIOUS
<1>4. Unattended(s, K) \in [1 .. Len(s) -> Operation]
  BY <1>2, <1>3 DEF Unattended
<1>5. QED
  BY <1>3, <1>4, SeqDef

\* Polling callers that see how their operations ended stay well typed.
LEMMA ReportType ==
  ASSUME work \in [Keys -> Work], NEW done, NEW failed, Report(done, failed)
  PROVE  work' \in [Keys -> Work]
<1>1. \A k \in Keys : /\ [work[k] EXCEPT !.result = "done"] \in Work
                     /\ [work[k] EXCEPT !.result = "failed"] \in Work
  BY DEF Work
<1>2. QED
  BY <1>1 DEF Report

\* So do callers whose object was written by someone else.
LEMMA OutdatedType ==
  ASSUME NEW k \in Keys, work \in [Keys -> Work], Outdated(k)
  PROVE  work' \in [Keys -> Work]
<1>1. work[k] \in Work
  OBVIOUS
<1>2. [work[k] EXCEPT !.current = FALSE] \in Work
  BY <1>1, Zenon DEF Work
<1>3. QED
  BY <1>2, PutType DEF Outdated

\* Any step and any truth about the read object make well-typed variables.
LEMMA StepType ==
  ASSUME NEW w \in Work, NEW pc \in Steps, NEW b \in BOOLEAN
  PROVE  [w EXCEPT !.pc = pc, !.current = b] \in Work
<1>1. [w EXCEPT !.pc = pc] \in Work
  BY DEF Work
<1>2. [[w EXCEPT !.pc = pc] EXCEPT !.current = b] \in Work
  BY <1>1, Zenon DEF Work
<1>3. [w EXCEPT !.pc = pc, !.current = b] = [[w EXCEPT !.pc = pc] EXCEPT !.current = b]
  OBVIOUS
<1>4. QED
  BY <1>2, <1>3

-----------------------------------------------------------------------------
(* Type correctness: one lemma per kind of step.                           *)

\* The part of the types that every step of a call has to keep.
CallsType ==
    /\ work \in [Keys -> Work]
    /\ pending \in SUBSET Keys
    /\ faults \in 0 .. MaxFaults

\* Taking a key.
LEMMA BeginType ==
  ASSUME TypeOK, NEW k \in Keys, Begin(k)
  PROVE  TypeOK'
<1>1. work[k] \in Work /\ "get" \in Steps
  BY DEF TypeOK, Steps
<1>2. [work[k] EXCEPT !.pc = "get"] \in Work
  BY <1>1 DEF Work
<1>3. work' \in [Keys -> Work]
  BY <1>2, PutType DEF Begin, TypeOK
<1>4. pending' \in SUBSET Keys
  BY DEF Begin, TypeOK
<1>5. QED
  BY <1>3, <1>4 DEF Begin, TypeOK, api, gce

\* Reading the object.
LEMMA GetVMType ==
  ASSUME TypeOK, NEW k \in Keys, GetVM(k)
  PROVE  TypeOK'
<1>1. CallsType'
  <2>1. CASE ~NeedsWork(k) /\ ReturnNil(k) /\ UNCHANGED faults
    BY <2>1, ReturnType DEF TypeOK, CallsType
  <2>2. CASE Fault /\ ReturnErr(k)
    BY <2>2, ReturnType, FaultType DEF TypeOK, CallsType
  <2>3. ASSUME NEW flow \in {"ensure", "delete"}, NeedsWork(k),
               Put(k, [work[k] EXCEPT
                         !.pc = IF flow = "delete" THEN "doom" ELSE "ensure",
                         !.flow = flow, !.uid = vms[k].uid, !.current = TRUE]),
               UNCHANGED <<pending, faults>>
        PROVE  CallsType'
    <3>1. vms[k] \in VM
      BY <2>3 DEF NeedsWork, TypeOK
    <3>2. vms[k].uid \in 0 .. MaxUid
      BY <3>1, BoundsAssumption DEF VM
    <3> DEFINE pc == IF flow = "delete" THEN "doom" ELSE "ensure"
               w == [work[k] EXCEPT !.flow = flow, !.uid = vms[k].uid]
    <3>3. work[k] \in Work
      BY DEF TypeOK
    <3>4. w \in Work /\ pc \in Steps
      BY <3>2, <3>3 DEF Work, Steps
    <3>5. [w EXCEPT !.pc = pc, !.current = TRUE] \in Work
      BY <3>4, StepType
    <3>6. [work[k] EXCEPT !.pc = pc, !.flow = flow, !.uid = vms[k].uid, !.current = TRUE]
            = [w EXCEPT !.pc = pc, !.current = TRUE]
      BY <3>3 DEF Work
    <3>7. QED
      BY <2>3, <3>5, <3>6, PutType DEF TypeOK, CallsType
  <2>4. QED
    BY <2>1, <2>2, <2>3 DEF GetVM
<1>2. QED
  BY <1>1 DEF CallsType, GetVM, TypeOK, api, gce

\* Removing the finalizer, and with the last one the object.
LEMMA RemoveFinalizerType ==
  ASSUME TypeOK, Held, NEW k \in Keys, RemoveFinalizer(k)
  PROVE  TypeOK'
<1>1. CallsType'
  BY ReturnType, FaultType DEF RemoveFinalizer, TypeOK, CallsType
<1>2. vms[k] \in VM => WithoutFinalizer(vms[k]) \in VM \cup {None}
  BY DEF WithoutFinalizer, VM
<1>3. vms[k] \in VM
  BY DEF TypeOK, Held, Holds, RemoveFinalizer, At
<1>4. vms' \in [Keys -> VM \cup {None}]
  BY <1>2, <1>3 DEF RemoveFinalizer, TypeOK
<1>5. QED
  BY <1>1, <1>4 DEF CallsType, RemoveFinalizer, TypeOK, gce

\* The steps that only look something up.
LEMMA LookupType ==
  ASSUME TypeOK, NEW k \in Keys,
         FindDoomed(k) \/ FindInstance(k) \/ CheckSecret(k) \/ LocateInstance(k)
  PROVE  TypeOK'
<1>1. {"finalize", "delete", "checkSecret", "insert", "refresh", "publish"} \subseteq Steps
  BY DEF Steps
<1>2. CallsType'
  <2>1. CASE FindDoomed(k)
    BY <1>1, <2>1, GotoType, ReturnType, FaultType DEF FindDoomed, TypeOK, CallsType
  <2>2. CASE FindInstance(k)
    BY <1>1, <2>2, GotoType, ReturnType, FaultType DEF FindInstance, TypeOK, CallsType
  <2>3. CASE CheckSecret(k)
    BY <1>1, <2>3, GotoType, ReturnType, FaultType DEF CheckSecret, TypeOK, CallsType
  <2>4. CASE LocateInstance(k)
    BY <1>1, <2>4, GotoType, ReturnType, FaultType DEF LocateInstance, TypeOK, CallsType
  <2>5. QED
    BY <2>1, <2>2, <2>3, <2>4
<1>3. UNCHANGED <<api, gce>>
  BY DEF FindDoomed, FindInstance, CheckSecret, LocateInstance
<1>4. QED
  BY <1>2, <1>3 DEF CallsType, TypeOK, api, gce

\* Asking GCE to delete the instance.
LEMMA DeleteInstanceType ==
  ASSUME TypeOK, NEW k \in Keys, DeleteInstance(k)
  PROVE  TypeOK'
<1>1. CallsType'
  BY AwaitType, FailedType, FaultType DEF DeleteInstance, Failed, TypeOK, CallsType
<1>2. ops' \in [Names -> Seq(Operation)]
  BY AcceptType DEF DeleteInstance, TypeOK
<1>3. QED
  BY <1>1, <1>2 DEF CallsType, DeleteInstance, TypeOK, api

\* Asking GCE to create the instance.
LEMMA InsertInstanceType ==
  ASSUME TypeOK, NEW k \in Keys, InsertInstance(k)
  PROVE  TypeOK'
<1> DEFINE p == newSSHKeypair
           inserted == [instances EXCEPT ![InstanceName(k)] = p]
<1>1. CallsType'
  BY AwaitType, FailedType, FaultType, ReturnType, NewKeypair
     DEF InsertInstance, Failed, TypeOK, CallsType
<1>2. CASE UNCHANGED gce
  BY <1>1, <1>2 DEF CallsType, InsertInstance, TypeOK, api, gce
<1>3. ASSUME CanGenerate, instances' = inserted,
             Accept(k, "insert", p, k) \/ Accept(k, "insert", p, None)
      PROVE  TypeOK'
  <2>1. p \in KeyPairs
    BY <1>3, NewKeypair
  <2>2. ops' \in [Names -> Seq(Operation)]
    BY <1>3, <2>1, AcceptType DEF TypeOK
  <2>3. instances' \in [Names -> KeyPairs \cup {None}]
    BY <1>3, <2>1 DEF TypeOK
  <2>4. QED
    BY <1>1, <2>2, <2>3 DEF CallsType, InsertInstance, TypeOK, api
<1>4. QED
  BY <1>2, <1>3 DEF InsertInstance

\* Asking GCE to replace the instance's authorized key.
LEMMA RefreshKeyType ==
  ASSUME TypeOK, NEW k \in Keys, RefreshKey(k)
  PROVE  TypeOK'
<1>1. CallsType'
  BY AwaitType, FailedType, FaultType, ReturnType, NewKeypair
     DEF RefreshKey, Failed, TypeOK, CallsType
<1>2. ops' \in [Names -> Seq(Operation)]
  BY AcceptType, NewKeypair DEF RefreshKey, TypeOK
<1>3. QED
  BY <1>1, <1>2 DEF CallsType, RefreshKey, TypeOK, api

\* Giving an operation up.
LEMMA AbandonType ==
  ASSUME TypeOK, NEW k \in Keys, Abandon(k)
  PROVE  ops' \in [Names -> Seq(Operation)]
<1>1. InstanceName(k) \in Names
  BY DEF InstanceName
<1>2. Unattended(ops[InstanceName(k)], {k}) \in Seq(Operation)
  BY <1>1, UnattendedType DEF TypeOK
<1>3. QED
  BY <1>2 DEF Abandon, TypeOK

\* Waiting for an operation.
LEMMA WaitForOperationType ==
  ASSUME TypeOK, NEW k \in Keys, WaitForOperation(k)
  PROVE  TypeOK'
<1>1. {"finalize", "locate"} \subseteq Steps
  BY DEF Steps
<1>2. CallsType'
  BY <1>1, GotoType, FailedType, FaultType DEF WaitForOperation, Failed, TypeOK, CallsType
<1>3. ops' \in [Names -> Seq(Operation)]
  BY AbandonType DEF WaitForOperation, TypeOK
<1>4. QED
  BY <1>2, <1>3 DEF CallsType, WaitForOperation, TypeOK, api

\* Recording an error.
LEMMA HandleErrorType ==
  ASSUME TypeOK, Held, Locals, NEW k \in Keys, HandleError(k)
  PROVE  TypeOK'
<1> DEFINE error == ErrorOf(k, work[k].msg)
           written == [vms EXCEPT ![k].status = error]
           w == [work[k] EXCEPT !.pc = "finalize",
                                !.current = NoopElided /\ vms[k].status = error]
<1>1. CallsType'
  <2>1. w \in Work
    <3>1. work[k] \in Work /\ "finalize" \in Steps
      BY DEF TypeOK, Steps
    <3>2. (NoopElided /\ vms[k].status = error) \in BOOLEAN
      OBVIOUS
    <3>3. QED
      BY <3>1, <3>2, StepType
  <2>2. Put(k, w) => work' \in [Keys -> Work]
    BY <2>1, PutType DEF TypeOK
  <2>3. QED
    BY <2>2, ReturnType, FaultType DEF HandleError, TypeOK, CallsType
<1>2. vms' \in [Keys -> VM \cup {None}]
  <2>1. vms[k] \in VM
    BY DEF TypeOK, Held, Holds, HandleError, At
  <2>2. error \in Error
    BY DEF ErrorOf, Error, TypeOK, Work, Locals, HandleError, At
  <2>3. [vms[k] EXCEPT !.status = error] \in VM
    BY <2>1, <2>2 DEF VM
  <2>4. written \in [Keys -> VM \cup {None}]
    BY <2>3 DEF TypeOK
  <2>5. vms' = vms \/ vms' = written
    BY DEF HandleError
  <2>6. QED
    BY <2>4, <2>5 DEF TypeOK
<1>3. QED
  BY <1>1, <1>2 DEF CallsType, HandleError, TypeOK, gce

\* Publishing the private key.
LEMMA PublishSecretType ==
  ASSUME TypeOK, Held, Locals, NEW k \in Keys, PublishSecret(k)
  PROVE  TypeOK'
<1>1. CallsType'
  BY ReturnType, FaultType DEF PublishSecret, TypeOK, CallsType
<1>2. [owner |-> work[k].uid, key |-> work[k].key] \in Secret
  <2>1. vms[k] \in VM /\ work[k].uid = vms[k].uid
    BY DEF TypeOK, Held, Holds, PublishSecret, At
  <2>2. work[k].key \in KeyPairs
    BY DEF TypeOK, Work, Locals, PublishSecret, At
  <2>3. QED
    BY <2>1, <2>2 DEF VM, Secret
<1>3. secrets' \in [Keys -> Secret \cup {None}]
  BY <1>2 DEF PublishSecret, TypeOK
<1>4. QED
  BY <1>1, <1>3 DEF CallsType, PublishSecret, TypeOK, gce

\* Every step of a reconcile call.
LEMMA ReconcileType ==
  ASSUME TypeOK, Held, Locals, NEW k \in Keys, Reconcile(k)
  PROVE  TypeOK'
BY GetVMType, LookupType, DeleteInstanceType, InsertInstanceType, RefreshKeyType,
   WaitForOperationType, HandleErrorType, PublishSecretType, RemoveFinalizerType
   DEF Reconcile

\* GCE finishing an operation, one way or the other.
LEMMA OperationType ==
  ASSUME TypeOK, NEW n \in Names, CompleteOperation(n) \/ FailOperation(n)
  PROVE  TypeOK'
<1>1. work' \in [Keys -> Work]
  BY ReportType DEF TypeOK, CompleteOperation, FailOperation
<1>2. ops[n] \in Seq(Operation) /\ ops[n] # <<>>
  BY DEF TypeOK, CompleteOperation, FailOperation
<1>3. Head(ops[n]) \in Operation /\ Tail(ops[n]) \in Seq(Operation)
  BY <1>2, HeadTailProperties
<1>4. instances' \in [Names -> KeyPairs \cup {None}]
  BY <1>3 DEF TypeOK, Operation, CompleteOperation, FailOperation, RemoveInstance
<1>5. <<>> \in Seq(Operation)
  OBVIOUS
<1>6. ops' \in [Names -> Seq(Operation)]
  BY <1>3, <1>5 DEF TypeOK, CompleteOperation, FailOperation, RemoveInstance
<1>7. faults' \in 0 .. MaxFaults
  BY FaultType DEF TypeOK, CompleteOperation, FailOperation
<1>8. QED
  BY <1>1, <1>4, <1>6, <1>7 DEF TypeOK, CompleteOperation, FailOperation, api

\* The user creating an object.
LEMMA CreateVMType ==
  ASSUME TypeOK, NEW k \in Keys, NEW f \in SUBSET OtherFinalizers, CreateVM(k, f)
  PROVE  TypeOK'
<1>1. created[k] \in 0 .. MaxUid /\ created[k] < MaxUid
  BY DEF TypeOK, CreateVM
<1>2. created[k] + 1 \in 1 .. MaxUid
  BY <1>1, BoundsAssumption
<1>3. created' \in [Keys -> 0 .. MaxUid] /\ created'[k] \in 1 .. MaxUid
  BY <1>2 DEF TypeOK, CreateVM
<1>4. mutate(f) \in SUBSET Finalizers
  BY DEF mutate, Finalizers
<1>5. [uid |-> created'[k], deleting |-> FALSE, finalizers |-> mutate(f),
       status |-> None] \in VM
  BY <1>3, <1>4 DEF VM
<1>6. vms' \in [Keys -> VM \cup {None}]
  BY <1>5 DEF TypeOK, CreateVM
<1>7. work' \in [Keys -> Work]
  BY OutdatedType DEF TypeOK, CreateVM
<1>8. QED
  BY <1>3, <1>6, <1>7 DEF TypeOK, CreateVM, gce

\* Users and controllers writing to an object.
LEMMA WriteVMType ==
  ASSUME TypeOK, NEW k \in Keys,
         DeleteVM(k) \/ UpdateVM(k) \/ DropOtherFinalizers(k)
  PROVE  TypeOK'
<1>1. work' \in [Keys -> Work]
  BY OutdatedType DEF TypeOK, DeleteVM, UpdateVM, DropOtherFinalizers
<1>2. vms[k] \in VM
  BY DEF TypeOK, DeleteVM, UpdateVM, DropOtherFinalizers
<1>3. [vms[k] EXCEPT !.deleting = TRUE] \in VM
  BY <1>2, Zenon DEF VM
<1>4. \A F \in SUBSET Finalizers : [vms[k] EXCEPT !.finalizers = F] \in VM
  BY <1>2 DEF VM
<1>5. vms[k].finalizers \ OtherFinalizers \in SUBSET Finalizers
  BY <1>2 DEF VM
<1>6. vms' \in [Keys -> VM \cup {None}]
  BY <1>3, <1>4, <1>5 DEF TypeOK, DeleteVM, UpdateVM, DropOtherFinalizers, api
<1>7. faults' \in 0 .. MaxFaults
  BY FaultType DEF TypeOK, DeleteVM, UpdateVM, DropOtherFinalizers
<1>8. QED
  BY <1>1, <1>6, <1>7
     DEF TypeOK, DeleteVM, UpdateVM, DropOtherFinalizers, api, gce

\* Secrets disappearing, and events arriving.
LEMMA ClusterType ==
  ASSUME TypeOK, NEW k \in Keys,
         DeleteSecret(k) \/ CollectSecret(k) \/ Enqueue(k)
  PROVE  TypeOK'
BY FaultType DEF TypeOK, DeleteSecret, CollectSecret, Enqueue, api, gce

\* The process dying.
LEMMA RestartType ==
  ASSUME TypeOK, Restart
  PROVE  TypeOK'
<1>1. work' \in [Keys -> Work]
  BY IdleType DEF Restart
<1>2. ops' \in [Names -> Seq(Operation)]
  BY UnattendedType DEF TypeOK, Restart
<1>3. QED
  BY <1>1, <1>2, FaultType DEF TypeOK, Restart, api

-----------------------------------------------------------------------------
(* The finalizer keeps what a call works on.                               *)

\* What the steps of k's call may do to its local variables: end the call, or
\* go on for the same incarnation and in the same flow.
GoesOn(k) ==
    /\ \A j \in Keys \ {k} : work'[j] = work[j]
    /\ \/ work'[k] = Idle
       \/ /\ work[k].pc \notin {"idle", "get"}
          /\ work'[k].uid = work[k].uid
          /\ work'[k].flow = work[k].flow

\* Every step of reconcile but the Get does just that.
LEMMA StepsGoOn ==
  ASSUME TypeOK, NEW k \in Keys, Reconcile(k), ~GetVM(k)
  PROVE  GoesOn(k)
<1>1. work[k] \in Work
  BY DEF TypeOK
<1>2. ReturnNil(k) \/ ReturnErr(k) => GoesOn(k)
  BY DEF ReturnNil, ReturnErr, Put, GoesOn, TypeOK
<1>3. ASSUME work[k].pc \notin {"idle", "get"}, NEW pc, Goto(k, pc)
      PROVE  GoesOn(k)
  BY <1>1, <1>3 DEF Goto, Put, GoesOn, TypeOK, Work
<1>4. ASSUME work[k].pc \notin {"idle", "get"}, NEW m, FailedWith(k, m)
      PROVE  GoesOn(k)
  BY <1>1, <1>4 DEF FailedWith, Put, GoesOn, TypeOK, Work
<1>5. ASSUME work[k].pc \notin {"idle", "get"}, NEW p, Await(k, p)
      PROVE  GoesOn(k)
  BY <1>1, <1>5 DEF Await, Put, GoesOn, TypeOK, Work
<1>6. CASE FindDoomed(k)
  BY <1>2, <1>3, <1>6 DEF FindDoomed, At
<1>7. CASE DeleteInstance(k)
  BY <1>4, <1>5, <1>7 DEF DeleteInstance, At, Failed
<1>8. CASE FindInstance(k)
  BY <1>2, <1>3, <1>8 DEF FindInstance, At
<1>9. CASE CheckSecret(k)
  BY <1>2, <1>3, <1>9 DEF CheckSecret, At
<1>10. CASE InsertInstance(k)
  BY <1>2, <1>4, <1>5, <1>10 DEF InsertInstance, At, Failed
<1>11. CASE RefreshKey(k)
  BY <1>2, <1>4, <1>5, <1>11 DEF RefreshKey, At, Failed
<1>12. CASE WaitForOperation(k)
  BY <1>3, <1>4, <1>12 DEF WaitForOperation, At, Failed
<1>13. CASE HandleError(k)
  <2>1. ASSUME NEW b, work[k].pc = "report",
               Put(k, [work[k] EXCEPT !.pc = "finalize", !.current = b])
        PROVE  GoesOn(k)
    BY <1>1, <2>1 DEF Put, GoesOn, TypeOK, Work
  <2>2. QED
    BY <1>2, <1>13, <2>1 DEF HandleError, At
<1>14. CASE LocateInstance(k)
  BY <1>2, <1>3, <1>14 DEF LocateInstance, At
<1>15. CASE PublishSecret(k)
  BY <1>2, <1>15 DEF PublishSecret, At
<1>16. CASE RemoveFinalizer(k)
  BY <1>2, <1>16 DEF RemoveFinalizer, At
<1>17. QED
  BY <1>6, <1>7, <1>8, <1>9, <1>10, <1>11, <1>12, <1>13, <1>14, <1>15, <1>16
     DEF Reconcile

\* An object keeps our finalizer, its incarnation and its deletion mark, and one
\* that appears has our finalizer.
SameObject(k) ==
    /\ Holds(k) => Holds(k)' /\ vms'[k].uid = vms[k].uid
    /\ vms[k] # None /\ vms[k].deleting /\ vms'[k] # None => vms'[k].deleting
    /\ vms[k] = None /\ vms'[k] # None => Holds(k)'

\* Only the removal of its finalizer, which ends the call, takes an object away
\* from the call that works on it.
LEMMA StepsKeepObjects ==
  ASSUME TypeOK, Held, Locals, NEW k \in Keys, Reconcile(k)
  PROVE  /\ \A j \in Keys \ {k} : vms'[j] = vms[j]
         /\ (work'[k] = Idle /\ RemoveFinalizer(k)) \/ SameObject(k)
<1>1. CASE RemoveFinalizer(k)
  <2>1. ReturnNil(k) \/ ReturnErr(k) => work'[k] = Idle
    BY DEF ReturnNil, ReturnErr, Put, TypeOK
  <2>2. work'[k] = Idle
    BY <1>1, <2>1 DEF RemoveFinalizer
  <2>3. \A j \in Keys \ {k} : vms'[j] = vms[j]
    BY <1>1 DEF RemoveFinalizer, TypeOK
  <2>4. QED
    BY <1>1, <2>2, <2>3
<1>2. CASE HandleError(k)
  <2>1. vms[k] \in VM
    BY <1>2 DEF TypeOK, Held, Holds, HandleError, At
  <2>2. vms' = vms \/ vms' = [vms EXCEPT ![k].status = ErrorOf(k, work[k].msg)]
    BY <1>2 DEF HandleError
  <2>3. CASE vms' = vms
    BY <2>3 DEF SameObject, Holds
  <2>4. CASE vms' = [vms EXCEPT ![k].status = ErrorOf(k, work[k].msg)]
    <3> DEFINE vm == [vms[k] EXCEPT !.status = ErrorOf(k, work[k].msg)]
    <3>1. vms'[k] = vm /\ \A j \in Keys \ {k} : vms'[j] = vms[j]
      BY <2>4 DEF TypeOK
    <3>2. /\ vm.finalizers = vms[k].finalizers
          /\ vm.uid = vms[k].uid
          /\ vms[k].deleting => vm.deleting
      BY <2>1 DEF VM
    <3>3. vm # None
      <4>1. ErrorOf(k, work[k].msg) \in Error
        BY <1>2 DEF TypeOK, Work, Locals, HandleError, At, ErrorOf, Error
      <4>2. vm \in VM
        BY <2>1, <4>1 DEF VM
      <4>3. QED
        BY <4>2, NoneAssumption
    <3>4. vms[k] # None
      BY <2>1, NoneAssumption
    <3>5. QED
      BY <3>1, <3>2, <3>3, <3>4 DEF SameObject, Holds
  <2>5. QED
    BY <2>2, <2>3, <2>4
<1>3. CASE ~RemoveFinalizer(k) /\ ~HandleError(k)
  <2>1. vms' = vms
    BY <1>3 DEF Reconcile, GetVM, FindDoomed, DeleteInstance, FindInstance,
                CheckSecret, InsertInstance, RefreshKey, WaitForOperation,
                LocateInstance, PublishSecret, api
  <2>2. QED
    BY <2>1 DEF SameObject, Holds
<1>4. QED
  BY <1>1, <1>2, <1>3

\* A write by someone else changes nothing of a call but that its read is old.
LEMMA OutdatedKeeps ==
  ASSUME TypeOK, NEW k \in Keys, Outdated(k), NEW j \in Keys
  PROVE  /\ work'[j].pc = work[j].pc
         /\ work'[j].uid = work[j].uid
         /\ work'[j].flow = work[j].flow
         /\ work'[j].key = work[j].key
         /\ work'[j].msg = work[j].msg
         /\ work'[j].result = work[j].result
         /\ j # k => work'[j].current = work[j].current
         /\ j = k => ~work'[j].current
<1>1. work[k] \in Work
  BY DEF TypeOK
<1>2. CASE j = k
  <2>1. work'[k] = [work[k] EXCEPT !.current = FALSE]
    BY DEF Outdated, Put, TypeOK
  <2>2. QED
    BY <1>1, <1>2, <2>1 DEF Work
<1>3. CASE j # k
  BY <1>3 DEF Outdated, Put, TypeOK
<1>4. QED
  BY <1>2, <1>3

\* Nor does anybody else.
LEMMA WritesKeepObjects ==
  ASSUME TypeOK, Stamped, NEW k \in Keys,
         DeleteVM(k) \/ UpdateVM(k) \/ DropOtherFinalizers(k)
           \/ \E f \in SUBSET OtherFinalizers : CreateVM(k, f)
  PROVE  /\ \A j \in Keys \ {k} : vms'[j] = vms[j]
         /\ SameObject(k)
         /\ \A j \in Keys : /\ work'[j].pc = work[j].pc
                           /\ work'[j].uid = work[j].uid
                           /\ work'[j].flow = work[j].flow
<1>1. \A j \in Keys : /\ work'[j].pc = work[j].pc
                     /\ work'[j].uid = work[j].uid
                     /\ work'[j].flow = work[j].flow
  BY OutdatedKeeps DEF DeleteVM, UpdateVM, DropOtherFinalizers, CreateVM
<1>2. \A j \in Keys \ {k} : vms'[j] = vms[j]
  BY DEF DeleteVM, UpdateVM, DropOtherFinalizers, CreateVM, TypeOK, api
<1>3. SameObject(k)
  <2>1. ASSUME vms[k] = None, NEW f \in SUBSET OtherFinalizers, CreateVM(k, f)
        PROVE  SameObject(k)
    <3> DEFINE vm == [uid |-> created'[k], deleting |-> FALSE,
                      finalizers |-> mutate(f), status |-> None]
    <3>1. vms'[k] = vm /\ VirtualMachineFinalizer \in vm.finalizers
      BY <2>1 DEF CreateVM, TypeOK, mutate
    <3>2. vms' \in [Keys -> VM \cup {None}]
      BY <2>1, CreateVMType DEF TypeOK
    <3>3. QED
      BY <2>1, <3>1 DEF SameObject, Holds
  <2>2. CASE UpdateVM(k)
    BY <2>2 DEF UpdateVM, SameObject, Holds, api
  <2>3. CASE vms[k] # None /\ DeleteVM(k)
    <3>1. vms[k] \in VM
      BY <2>3 DEF TypeOK
    <3> DEFINE vm == [vms[k] EXCEPT !.deleting = TRUE]
    <3>2. vm \in VM
      BY <3>1, Zenon DEF VM
    <3>3. vm.deleting /\ vm.finalizers = vms[k].finalizers /\ vm.uid = vms[k].uid
      BY <3>1 DEF VM
    <3>4. vm # None
      BY <3>2, NoneAssumption
    <3>5. vms'[k] = IF vms[k].finalizers = {} THEN None ELSE vm
      BY <2>3 DEF DeleteVM, TypeOK
    <3>6. QED
      BY <2>3, <3>3, <3>4, <3>5 DEF SameObject, Holds
  <2>4. CASE vms[k] # None /\ DropOtherFinalizers(k)
    <3>1. vms[k] \in VM
      BY <2>4 DEF TypeOK
    <3> DEFINE left == vms[k].finalizers \ OtherFinalizers
               vm == [vms[k] EXCEPT !.finalizers = left]
    <3>2. vm \in VM
      BY <3>1 DEF VM
    <3>3. vm.finalizers = left /\ vm.uid = vms[k].uid
            /\ (vms[k].deleting => vm.deleting)
      BY <3>1 DEF VM
    <3>4. vm # None
      BY <3>2, NoneAssumption
    <3>5. vms'[k] = IF left = {} THEN None ELSE vm
      BY <2>4 DEF DropOtherFinalizers, TypeOK
    <3>6. VirtualMachineFinalizer \in vms[k].finalizers => VirtualMachineFinalizer \in left
      BY FinalizerAssumption
    <3>7. QED
      BY <2>4, <3>3, <3>4, <3>5, <3>6 DEF SameObject, Holds
  <2>5. QED
    BY <2>1, <2>2, <2>3, <2>4 DEF CreateVM, DeleteVM, DropOtherFinalizers
<1>4. QED
  BY <1>1, <1>2, <1>3

\* The end of an operation changes what a call sees of it, and nothing else.
LEMMA ReportKeeps ==
  ASSUME TypeOK, NEW done, NEW failed, Report(done, failed), NEW j \in Keys
  PROVE  /\ work'[j].pc = work[j].pc
         /\ work'[j].uid = work[j].uid
         /\ work'[j].flow = work[j].flow
         /\ work'[j].key = work[j].key
         /\ work'[j].msg = work[j].msg
         /\ work'[j].current = work[j].current
         /\ work'[j].result = IF j \in done THEN "done"
                              ELSE IF j \in failed THEN "failed"
                              ELSE work[j].result
<1>1. work[j] \in Work
  BY DEF TypeOK
<1>2. QED
  BY <1>1 DEF Report, Work

\* The object of each key after a step that is none of its call's or users'.
LEMMA OthersKeep ==
  ASSUME TypeOK,
         \/ \E k \in Keys : Begin(k) \/ Enqueue(k) \/ DeleteSecret(k) \/ CollectSecret(k)
         \/ \E n \in Names : CompleteOperation(n) \/ FailOperation(n)
         \/ Restart
  PROVE  /\ vms' = vms
         /\ \A j \in Keys : \/ work'[j].pc \in {"idle", "get"}
                           \/ /\ work'[j].pc = work[j].pc
                              /\ work'[j].uid = work[j].uid
                              /\ work'[j].flow = work[j].flow
                              /\ work'[j].key = work[j].key
                              /\ work'[j].msg = work[j].msg
<1>1. vms' = vms
  BY DEF Begin, Enqueue, DeleteSecret, CollectSecret, CompleteOperation,
         FailOperation, Restart, api
<1>2. CASE \E n \in Names : CompleteOperation(n) \/ FailOperation(n)
  BY <1>1, <1>2, ReportKeeps DEF CompleteOperation, FailOperation
<1>3. CASE \E k \in Keys : Begin(k)
  <2>1. PICK k \in Keys : Begin(k)
    BY <1>3
  <2>2. work[k] \in Work
    BY DEF TypeOK
  <2>3. work'[k].pc = "get" /\ \A j \in Keys \ {k} : work'[j] = work[j]
    BY <2>1, <2>2 DEF Begin, Put, TypeOK, Work
  <2>4. QED
    BY <1>1, <2>3
<1>4. CASE \E k \in Keys : Enqueue(k) \/ DeleteSecret(k) \/ CollectSecret(k)
  BY <1>1, <1>4 DEF Enqueue, DeleteSecret, CollectSecret
<1>5. CASE Restart
  BY <1>1, <1>5 DEF Restart, Idle
<1>6. QED
  BY <1>2, <1>3, <1>4, <1>5

\* A call goes on holding the incarnation it read.
LEMMA HeldNext ==
  ASSUME TypeOK, Stamped, Held, Locals, [Next]_vars
  PROVE  Held'
<1> DEFINE HeldAt(j) ==
             work[j].pc \notin {"idle", "get"} =>
                 /\ Holds(j)
                 /\ work[j].uid = vms[j].uid
                 /\ work[j].flow = "delete" => vms[j].deleting
<1>1. ASSUME NEW k \in Keys, GetVM(k), NEW j \in Keys
      PROVE  HeldAt(j)'
  <2>1. vms' = vms
    BY <1>1 DEF GetVM, api
  <2>2. \/ work'[k].pc \in {"idle", "get"}
        \/ /\ NeedsWork(k)
           /\ work'[k].uid = vms[k].uid
           /\ work'[k].flow = "delete" => vms[k].deleting
    <3>1. ReturnNil(k) \/ ReturnErr(k) => work'[k].pc = "idle"
      BY DEF ReturnNil, ReturnErr, Put, Idle, TypeOK
    <3>2. work[k] \in Work
      BY DEF TypeOK
    <3>3. ASSUME NEW flow, flow = (IF vms[k].deleting THEN "delete" ELSE "ensure"),
                 NEW pc,
                 Put(k, [work[k] EXCEPT !.pc = pc, !.flow = flow,
                                        !.uid = vms[k].uid, !.current = TRUE])
          PROVE  work'[k].uid = vms[k].uid /\ (work'[k].flow = "delete" => vms[k].deleting)
      BY <3>2, <3>3 DEF Put, TypeOK, Work
    <3>4. QED
      BY <1>1, <3>1, <3>3 DEF GetVM
  <2>3. NeedsWork(k) => Holds(k)
    BY DEF NeedsWork, Stamped, Holds
  <2>4. j # k => work'[j] = work[j]
    BY <1>1 DEF GetVM, ReturnNil, ReturnErr, Put, TypeOK
  <2>5. QED
    BY <2>1, <2>2, <2>3, <2>4 DEF Held, Holds
<1>2. ASSUME NEW k \in Keys, Reconcile(k), ~GetVM(k), NEW j \in Keys
      PROVE  HeldAt(j)'
  <2>1. GoesOn(k)
    BY <1>2, StepsGoOn
  <2>2. CASE j # k
    <3>1. work'[j] = work[j] /\ vms'[j] = vms[j]
      BY <1>2, <2>1, <2>2, StepsKeepObjects DEF GoesOn
    <3>2. QED
      BY <3>1 DEF Held, Holds
  <2>3. CASE j = k /\ work'[k] = Idle
    BY <2>3 DEF Idle
  <2>4. CASE j = k /\ work'[k] # Idle
    <3>1. SameObject(k)
      BY <1>2, <2>4, StepsKeepObjects
    <3>2. HeldAt(k) /\ work[k].pc \notin {"idle", "get"}
      BY <2>1, <2>4 DEF Held, GoesOn
    <3>3. QED
      BY <2>1, <2>4, <3>1, <3>2 DEF SameObject, Holds, GoesOn
  <2>5. QED
    BY <2>2, <2>3, <2>4
<1>3. ASSUME NEW k \in Keys,
             DeleteVM(k) \/ UpdateVM(k) \/ DropOtherFinalizers(k)
               \/ \E f \in SUBSET OtherFinalizers : CreateVM(k, f),
             NEW j \in Keys
      PROVE  HeldAt(j)'
  <2>1. j # k => vms'[j] = vms[j]
    BY <1>3, WritesKeepObjects
  <2>2. SameObject(k)
    BY <1>3, WritesKeepObjects
  <2>3. work'[j].pc = work[j].pc /\ work'[j].uid = work[j].uid
          /\ work'[j].flow = work[j].flow
    BY <1>3, WritesKeepObjects
  <2>4. QED
    BY <2>1, <2>2, <2>3 DEF Held, SameObject, Holds
<1>4. ASSUME vms' = vms,
             NEW j \in Keys,
             \/ work'[j].pc \in {"idle", "get"}
             \/ /\ work'[j].pc = work[j].pc
                /\ work'[j].uid = work[j].uid
                /\ work'[j].flow = work[j].flow
      PROVE  HeldAt(j)'
  BY <1>4 DEF Held, Holds
<1>5. CASE UNCHANGED vars
  BY <1>5 DEF vars, Held, Holds
<1>6. QED
  <2>1. SUFFICES ASSUME NEW j \in Keys, Next PROVE HeldAt(j)'
    BY <1>5 DEF Held
  <2>2. QED
    BY <2>1, <1>1, <1>2, <1>3, <1>4, OthersKeep DEF Next

\* An object keeps our finalizer until it is deleted.
LEMMA StampedNext ==
  ASSUME TypeOK, Stamped, Held, Locals, [Next]_vars
  PROVE  Stamped'
<1> DEFINE StampedAt(j) == vms[j] # None /\ ~vms[j].deleting => Holds(j)
<1>1. ASSUME NEW j \in Keys, vms'[j] = vms[j] \/ SameObject(j)
      PROVE  StampedAt(j)'
  BY <1>1 DEF Stamped, SameObject, Holds
<1>2. ASSUME NEW k \in Keys, Reconcile(k), NEW j \in Keys
      PROVE  StampedAt(j)'
  <2>1. CASE j # k \/ ~RemoveFinalizer(k)
    BY <1>1, <1>2, <2>1, StepsKeepObjects
  <2>2. CASE j = k /\ RemoveFinalizer(k)
    <3>1. vms[k] \in VM /\ vms[k].deleting
      BY <2>2 DEF TypeOK, Held, Holds, Locals, RemoveFinalizer, At
    <3>2. WithoutFinalizer(vms[k]) = None \/ WithoutFinalizer(vms[k]).deleting
      BY <3>1 DEF WithoutFinalizer, VM
    <3>3. vms'[k] = vms[k] \/ vms'[k] = WithoutFinalizer(vms[k])
      BY <2>2 DEF RemoveFinalizer, TypeOK
    <3>4. QED
      BY <2>2, <3>1, <3>2, <3>3
  <2>3. QED
    BY <2>1, <2>2
<1>3. ASSUME NEW k \in Keys,
             DeleteVM(k) \/ UpdateVM(k) \/ DropOtherFinalizers(k)
               \/ \E f \in SUBSET OtherFinalizers : CreateVM(k, f),
             NEW j \in Keys
      PROVE  StampedAt(j)'
  BY <1>1, <1>3, WritesKeepObjects
<1>4. CASE UNCHANGED vars
  BY <1>1, <1>4 DEF vars, Stamped
<1>5. QED
  <2>1. SUFFICES ASSUME NEW j \in Keys, Next PROVE StampedAt(j)'
    BY <1>4 DEF Stamped
  <2>2. QED
    BY <2>1, <1>1, <1>2, <1>3, OthersKeep DEF Next

\* How each kind of step of k's call sets its local variables.
LEMMA SetLocals ==
  ASSUME TypeOK, NEW k \in Keys
  PROVE  /\ ReturnNil(k) \/ ReturnErr(k) => work'[k] = Idle
         /\ \A pc : Goto(k, pc) =>
              /\ work'[k].pc = pc
              /\ work'[k].flow = work[k].flow
              /\ work'[k].key = work[k].key
              /\ work'[k].msg = work[k].msg
              /\ work'[k].result = work[k].result
              /\ work'[k].current = work[k].current
         /\ \A m : FailedWith(k, m) =>
              /\ work'[k].pc = "report"
              /\ work'[k].flow = work[k].flow
              /\ work'[k].msg = m
              /\ work'[k].current = work[k].current
         /\ \A p : Await(k, p) =>
              /\ work'[k].pc = "await"
              /\ work'[k].flow = work[k].flow
              /\ work'[k].key = p
              /\ work'[k].result = "pending"
              /\ work'[k].current = work[k].current
<1>1. work[k] \in Work
  BY DEF TypeOK
<1>2. ReturnNil(k) \/ ReturnErr(k) => work'[k] = Idle
  BY DEF ReturnNil, ReturnErr, Put, TypeOK
<1>3. ASSUME NEW pc, Goto(k, pc)
      PROVE  /\ work'[k].pc = pc
             /\ work'[k].flow = work[k].flow
             /\ work'[k].key = work[k].key
             /\ work'[k].msg = work[k].msg
             /\ work'[k].result = work[k].result
             /\ work'[k].current = work[k].current
  BY <1>1, <1>3 DEF Goto, Put, TypeOK, Work
<1>4. ASSUME NEW m, FailedWith(k, m)
      PROVE  /\ work'[k].pc = "report"
             /\ work'[k].flow = work[k].flow
             /\ work'[k].msg = m
             /\ work'[k].current = work[k].current
  BY <1>1, <1>4 DEF FailedWith, Put, TypeOK, Work
<1>5. ASSUME NEW p, Await(k, p)
      PROVE  /\ work'[k].pc = "await"
             /\ work'[k].flow = work[k].flow
             /\ work'[k].key = p
             /\ work'[k].result = "pending"
             /\ work'[k].current = work[k].current
  BY <1>1, <1>5 DEF Await, Put, TypeOK, Work
<1>6. QED
  BY <1>2, <1>3, <1>4, <1>5

\* What a call's steps leave to the other calls.
LEMMA OtherCalls ==
  ASSUME TypeOK, NEW k \in Keys, Reconcile(k), NEW j \in Keys \ {k}
  PROVE  work'[j] = work[j]
<1>1. CASE GetVM(k)
  BY <1>1 DEF GetVM, ReturnNil, ReturnErr, Put, TypeOK
<1>2. CASE ~GetVM(k)
  BY <1>2, StepsGoOn DEF GoesOn
<1>3. QED
  BY <1>1, <1>2

\* Every step finds the local variables it needs.
LEMMA LocalsNext ==
  ASSUME TypeOK, Locals, [Next]_vars
  PROVE  Locals'
<1> DEFINE LocalsAt(j) ==
             LET w == work[j]
             IN  /\ w.pc \in {"doom", "delete", "finalize"} => w.flow = "delete"
                 /\ w.pc \in {"ensure", "checkSecret", "insert", "refresh",
                              "locate", "publish"} => w.flow = "ensure"
                 /\ w.pc = "report" => w.msg # None
                 /\ w.pc \in {"await", "locate", "publish"} /\ w.flow = "ensure"
                      => w.key # None
<1>1. ASSUME NEW k \in Keys, Reconcile(k)
      PROVE  LocalsAt(k)'
  <2>1. LocalsAt(k) /\ work[k] \in Work
    BY DEF Locals, TypeOK
  <2>2. ReturnNil(k) \/ ReturnErr(k) => LocalsAt(k)'
    BY SetLocals DEF Idle
  <2>3. Failed(k) => LocalsAt(k)'
    BY SetLocals, NoneAssumption DEF Failed
  <2>4. CASE GetVM(k)
    <3>1. ASSUME NEW flow \in {"ensure", "delete"},
                 Put(k, [work[k] EXCEPT
                           !.pc = IF flow = "delete" THEN "doom" ELSE "ensure",
                           !.flow = flow, !.uid = vms[k].uid, !.current = TRUE])
          PROVE  LocalsAt(k)'
      BY <2>1, <3>1 DEF Put, TypeOK, Work
    <3>2. QED
      BY <2>2, <2>4, <3>1 DEF GetVM
  <2>5. CASE FindDoomed(k)
    BY <2>1, <2>2, <2>5, SetLocals DEF FindDoomed, At
  <2>6. CASE DeleteInstance(k)
    BY <2>1, <2>3, <2>6, SetLocals DEF DeleteInstance, At
  <2>7. CASE FindInstance(k)
    BY <2>1, <2>2, <2>7, SetLocals DEF FindInstance, At
  <2>8. CASE CheckSecret(k)
    BY <2>1, <2>2, <2>8, SetLocals DEF CheckSecret, At
  <2>9. CASE InsertInstance(k)
    <3>1. ASSUME CanGenerate, Await(k, newSSHKeypair)
          PROVE  LocalsAt(k)'
      <4>1. newSSHKeypair # None
        BY <3>1, NewKeypair, NoneAssumption
      <4>2. QED
        BY <3>1, <4>1, SetLocals
    <3>2. QED
      BY <2>2, <2>3, <2>9, <3>1 DEF InsertInstance
  <2>10. CASE RefreshKey(k)
    <3>1. ASSUME CanGenerate, Await(k, newSSHKeypair)
          PROVE  LocalsAt(k)'
      <4>1. newSSHKeypair # None
        BY <3>1, NewKeypair, NoneAssumption
      <4>2. QED
        BY <3>1, <4>1, SetLocals
    <3>2. QED
      BY <2>2, <2>3, <2>10, <3>1 DEF RefreshKey
  <2>11. CASE WaitForOperation(k)
    <3>1. ASSUME work[k].pc = "await",
                 Goto(k, IF work[k].flow = "delete" THEN "finalize" ELSE "locate")
          PROVE  LocalsAt(k)'
      BY <2>1, <3>1, SetLocals DEF Work
    <3>2. QED
      BY <2>3, <2>11, <3>1 DEF WaitForOperation, At, Failed
  <2>12. CASE HandleError(k)
    <3>1. ASSUME NEW b, work[k].flow = "delete",
                 Put(k, [work[k] EXCEPT !.pc = "finalize", !.current = b])
          PROVE  LocalsAt(k)'
      BY <2>1, <3>1 DEF Put, TypeOK, Work
    <3>2. QED
      BY <2>2, <2>12, <3>1 DEF HandleError
  <2>13. CASE LocateInstance(k)
    BY <2>1, <2>2, <2>13, SetLocals DEF LocateInstance, At
  <2>14. CASE PublishSecret(k)
    BY <2>2, <2>14 DEF PublishSecret
  <2>15. CASE RemoveFinalizer(k)
    BY <2>2, <2>15 DEF RemoveFinalizer
  <2>16. QED
    BY <1>1, <2>4, <2>5, <2>6, <2>7, <2>8, <2>9, <2>10, <2>11, <2>12, <2>13,
       <2>14, <2>15 DEF Reconcile
<1>2. ASSUME NEW k \in Keys,
             DeleteVM(k) \/ UpdateVM(k) \/ DropOtherFinalizers(k)
               \/ \E f \in SUBSET OtherFinalizers : CreateVM(k, f),
             NEW j \in Keys
      PROVE  LocalsAt(j)'
  <2>1. Outdated(k)
    BY <1>2 DEF DeleteVM, UpdateVM, DropOtherFinalizers, CreateVM
  <2>2. QED
    BY <2>1, OutdatedKeeps DEF Locals
<1>3. ASSUME NEW j \in Keys, LocalsAt(j),
             \/ work'[j] = work[j]
             \/ work'[j].pc \in {"idle", "get"}
             \/ /\ work'[j].pc = work[j].pc
                /\ work'[j].flow = work[j].flow
                /\ work'[j].key = work[j].key
                /\ work'[j].msg = work[j].msg
      PROVE  LocalsAt(j)'
  BY <1>3
<1>4. SUFFICES ASSUME NEW j \in Keys PROVE LocalsAt(j)'
  BY DEF Locals
<1>5. LocalsAt(j)
  BY DEF Locals
<1>6. CASE UNCHANGED vars
  BY <1>3, <1>5, <1>6 DEF vars
<1>7. CASE \E k \in Keys : Reconcile(k)
  BY <1>1, <1>3, <1>5, <1>7, OtherCalls
<1>8. QED
  BY <1>2, <1>3, <1>5, <1>6, <1>7, OthersKeep DEF Next

-----------------------------------------------------------------------------
(* Type correctness.                                                       *)

\* The part of the inductive invariant that is about calls and their objects.
CallInv == TypeOK /\ Stamped /\ Held /\ Locals

LEMMA CallInit ==
  ASSUME Init
  PROVE  CallInv
<1>1. \A k \in Keys : work[k] = Idle /\ vms[k] = None
  BY DEF Init
<1>2. Stamped /\ Held /\ Locals
  BY <1>1 DEF Stamped, Held, Locals, Idle
<1>3. TypeOK
  BY IdleType, BoundsAssumption DEF Init, TypeOK
<1>4. QED
  BY <1>2, <1>3 DEF CallInv

\* Every step keeps every variable in its type, given what calls hold.
LEMMA TypeNext ==
  ASSUME CallInv, [Next]_vars
  PROVE  TypeOK'
<1>1. CASE UNCHANGED vars
  BY <1>1 DEF CallInv, vars, TypeOK
<1>2. CASE Next
  BY <1>2, BeginType, ReconcileType, OperationType, CreateVMType, WriteVMType,
     ClusterType, RestartType DEF CallInv, Next
<1>3. QED
  BY <1>1, <1>2

LEMMA CallNext ==
  ASSUME CallInv, [Next]_vars
  PROVE  CallInv'
BY TypeNext, StampedNext, HeldNext, LocalsNext DEF CallInv

LEMMA CallInvariant == Spec => []CallInv
<1>1. Init => CallInv
  BY CallInit
<1>2. CallInv /\ [Next]_vars => CallInv'
  BY CallNext
<1>3. QED
  BY <1>1, <1>2, PTL DEF Spec

\* Every variable keeps its type, for any number of objects, key pairs and
\* failures: no step of reconcile works on local variables it did not set or
\* writes to an object that is gone.
THEOREM TypeCorrectness == Spec => []TypeOK
<1>1. CallInv => TypeOK
  BY DEF CallInv
<1>2. QED
  BY <1>1, CallInvariant, PTL

\* runVMOpPollSSH publishes a key only for the incarnation it was generated
\* for: our finalizer keeps the object there until its own call lets it go.
THEOREM SecretsArePublishedForPresentObjects == Spec => SecretForPresentObject
<1> DEFINE A == \A k \in Keys : secrets[k] = None /\ secrets'[k] # None =>
                  vms[k] # None /\ secrets'[k].owner = vms[k].uid
<1>1. ASSUME CallInv, [Next]_vars PROVE A
  <2>1. SUFFICES ASSUME NEW k \in Keys, secrets[k] = None, secrets'[k] # None
                 PROVE  vms[k] # None /\ secrets'[k].owner = vms[k].uid
    OBVIOUS
  <2>2. ~UNCHANGED secrets
    BY <2>1
  <2>3. PICK j \in Keys : PublishSecret(j) \/ DeleteSecret(j) \/ CollectSecret(j)
    BY <1>1, <2>2
       DEF vars, Next, Reconcile, Begin, GetVM, RemoveFinalizer, FindDoomed,
           DeleteInstance, FindInstance, CheckSecret, InsertInstance, RefreshKey,
           WaitForOperation, HandleError, LocateInstance, CompleteOperation,
           FailOperation, CreateVM, DeleteVM, UpdateVM, DropOtherFinalizers,
           Enqueue, Restart, api
  <2>4. secrets \in [Keys -> Secret \cup {None}]
    BY <1>1 DEF CallInv, TypeOK
  <2>5. PublishSecret(j) /\ j = k
    BY <2>1, <2>3, <2>4 DEF PublishSecret, DeleteSecret, CollectSecret
  <2>6. secrets'[k].owner = work[k].uid
    BY <2>1, <2>4, <2>5 DEF PublishSecret
  <2>7. Holds(k) /\ work[k].uid = vms[k].uid
    BY <1>1, <2>5 DEF CallInv, Held, PublishSecret, At
  <2>8. QED
    BY <2>6, <2>7 DEF Holds
<1>2. QED
  BY <1>1, CallInvariant, PTL DEF Spec, SecretForPresentObject

-----------------------------------------------------------------------------
(* Operations and the calls that poll them.                                *)

\* No operation is polled by k's call.
Free(k) == \A n \in Names : \A i \in DOMAIN ops[n] : ops[n][i].waiter # k

LEMMA OpsType ==
  ASSUME TypeOK, NEW n \in Names
  PROVE  /\ DOMAIN ops[n] = 1 .. Len(ops[n])
         /\ Len(ops[n]) \in Nat
         /\ \A i \in DOMAIN ops[n] :
              /\ ops[n][i] \in Operation
              /\ ops[n][i].waiter \in Keys \cup {None}
              /\ ops[n][i].key \in KeyPairs \cup {None}
<1>1. ops[n] \in Seq(Operation)
  BY DEF TypeOK
<1>2. \A i \in DOMAIN ops[n] : ops[n][i] \in Operation
  BY <1>1
<1>3. QED
  BY <1>1, <1>2 DEF Operation

\* A call that does not wait polls nothing.
LEMMA FreeUnlessAwaiting ==
  ASSUME Polled, NEW k \in Keys, work[k].pc # "await" \/ work[k].result # "pending"
  PROVE  Free(k)
BY NoneAssumption DEF Polled, Free

\* A step that leaves the operations alone, and of the calls that poll one what
\* they poll it for.
LEMMA PolledSame ==
  ASSUME TypeOK, Polled, ops' = ops,
         \A j \in Keys : \/ Free(j)
                        \/ /\ work'[j].pc = work[j].pc
                           /\ work'[j].flow = work[j].flow
                           /\ work'[j].result = work[j].result
  PROVE  Polled'
<1>1. \A n \in Names : \A i \in DOMAIN ops[n] :
        ops[n][i].waiter # None => ops[n][i].waiter \in Keys
  BY OpsType
<1>2. QED
  BY <1>1 DEF Polled, Free

\* The operations of n have grown by op, those of other instances are the same.
Grown(n, last, op) ==
    /\ \A m \in Names \ {n} : ops'[m] = ops[m]
    /\ DOMAIN ops[n] = 1 .. last - 1
    /\ DOMAIN ops'[n] = 1 .. last
    /\ last \in DOMAIN ops'[n]
    /\ \A i \in DOMAIN ops'[n] \ {last} :
          i \in DOMAIN ops[n] /\ ops'[n][i] = ops[n][i]
    /\ ops'[n][last] = op

\* So they do when GCE accepts a call.
LEMMA Accepted ==
  ASSUME TypeOK, NEW k \in Keys, NEW kind, NEW p, NEW w, Accept(k, kind, p, w)
  PROVE  /\ InstanceName(k) \in Names
         /\ \E last \in Nat : Grown(InstanceName(k), last,
                                    [kind |-> kind, key |-> p, waiter |-> w])
<1> DEFINE op == [kind |-> kind, key |-> p, waiter |-> w]
<1>0. PICK n \in Names : n = InstanceName(k)
  BY DEF InstanceName
<1>1. n \in Names
  OBVIOUS
<1>2. ops'[n] = Append(ops[n], op) /\ \A m \in Names \ {n} : ops'[m] = ops[m]
  BY <1>0 DEF Accept, TypeOK
<1>3. ops[n] \in Seq(Operation)
  BY <1>1 DEF TypeOK
<1>4. DOMAIN ops[n] = 1 .. Len(ops[n]) /\ Len(ops[n]) \in Nat
  BY <1>3
<1>5. ops[n] \in Seq(Operation \cup {op}) /\ op \in Operation \cup {op}
  BY <1>3, <1>4, SeqDef
<1>6. /\ DOMAIN Append(ops[n], op) = 1 .. Len(ops[n]) + 1
      /\ \A i \in 1 .. Len(ops[n]) : Append(ops[n], op)[i] = ops[n][i]
      /\ Append(ops[n], op)[Len(ops[n]) + 1] = op
  BY <1>5
<1> DEFINE last == Len(ops[n]) + 1
<1>7. last \in Nat /\ 1 .. last - 1 = 1 .. Len(ops[n]) /\ last \in 1 .. last
  BY <1>4
<1>8. \A i \in 1 .. last : i # last => i \in 1 .. Len(ops[n])
  BY <1>4
<1>9. Grown(n, last, op)
  <2>1. DOMAIN ops'[n] = 1 .. last /\ DOMAIN ops[n] = 1 .. last - 1
    BY <1>2, <1>4, <1>6, <1>7
  <2>2. last \in DOMAIN ops'[n] /\ ops'[n][last] = op
    BY <1>2, <1>6, <1>7, <2>1
  <2>3. \A i \in DOMAIN ops'[n] \ {last} :
          i \in DOMAIN ops[n] /\ ops'[n][i] = ops[n][i]
    BY <1>2, <1>4, <1>6, <1>8, <2>1
  <2>4. QED
    BY <1>2, <2>1, <2>2, <2>3 DEF Grown
<1>10. QED
  BY <1>0, <1>7, <1>9

\* A new operation is polled by the call that asked for it, or by none.
LEMMA PolledAccepted ==
  ASSUME TypeOK, Polled, NEW k \in Keys, NEW kind, NEW p, NEW w \in {k, None},
         Accept(k, kind, p, w), Free(k),
         \A j \in Keys \ {k} : work'[j] = work[j],
         w = k => /\ work'[k].pc = "await"
                  /\ work'[k].result = "pending"
                  /\ (kind = "delete") <=> (work'[k].flow = "delete")
  PROVE  Polled'
<1> DEFINE op == [kind |-> kind, key |-> p, waiter |-> w]
<1>1. PICK n \in Names, last \in Nat : n = InstanceName(k) /\ Grown(n, last, op)
  BY Accepted
<1>2. \A q \in Names : \A l \in DOMAIN ops[q] :
        ops[q][l].waiter # None => ops[q][l].waiter \in Keys \ {k}
  BY OpsType DEF Free
<1>3. SUFFICES ASSUME NEW m \in Names, NEW i \in DOMAIN ops'[m],
                      NEW j, j = ops'[m][i].waiter, j # None
               PROVE  /\ InstanceName(j) = m
                      /\ work'[j].pc = "await" /\ work'[j].result = "pending"
                      /\ (ops'[m][i].kind = "delete") <=> (work'[j].flow = "delete")
                      /\ \A l \in DOMAIN ops'[m] : ops'[m][l].waiter = j => l = i
  BY DEF Polled, InstanceName
<1>4. CASE m # n
  BY <1>1, <1>2, <1>3, <1>4 DEF Polled, Grown
<1>5. CASE m = n /\ i = last
  <2>1. j = k /\ w = k /\ ops'[m][i].kind = kind
    BY <1>1, <1>3, <1>5 DEF Grown
  <2>2. \A l \in DOMAIN ops'[n] : l # last => ops'[n][l].waiter # k
    BY <1>1 DEF Free, Grown
  <2>3. QED
    BY <1>1, <1>5, <2>1, <2>2
<1>6. CASE m = n /\ i # last
  <2>1. i \in DOMAIN ops[n] /\ ops'[n][i] = ops[n][i]
    BY <1>1, <1>6 DEF Grown
  <2>2. j = ops[n][i].waiter /\ j \in Keys \ {k} /\ work'[j] = work[j]
    BY <1>2, <1>3, <1>6, <2>1
  <2>3. ops'[n][last].waiter # j
    BY <1>1, <1>3, <2>2 DEF Grown
  <2>4. \A l \in DOMAIN ops'[n] : ops'[n][l].waiter = j => l = i
    BY <1>1, <1>3, <2>1, <2>2, <2>3 DEF Polled, Grown
  <2>5. QED
    BY <1>3, <1>6, <2>1, <2>2, <2>4 DEF Polled
<1>7. QED
  BY <1>4, <1>5, <1>6

\* The operations are the same but for waiters: each keeps its own or has none.
SameButWaiters(s, u) ==
    /\ DOMAIN u = DOMAIN s
    /\ s = <<>> => u = <<>>
    /\ \A i \in DOMAIN s : /\ u[i].kind = s[i].kind
                          /\ u[i].key = s[i].key
                          /\ u[i].waiter \in {None, s[i].waiter}

SameOps == \A n \in Names : SameButWaiters(ops[n], ops'[n])

\* So they are when calls stop waiting, and no one waits for those calls' ones.
LEMMA Unattend ==
  ASSUME TypeOK, NEW n \in Names, NEW K, NEW u, u = Unattended(ops[n], K)
  PROVE  /\ SameButWaiters(ops[n], u)
         /\ \A i \in DOMAIN ops[n] : ops[n][i].waiter \in K => u[i].waiter = None
<1>1. DOMAIN u = DOMAIN ops[n]
  BY DEF Unattended
<1>2. \A i \in DOMAIN ops[n] :
        /\ u[i].kind = ops[n][i].kind
        /\ u[i].key = ops[n][i].key
        /\ u[i].waiter \in {None, ops[n][i].waiter}
        /\ ops[n][i].waiter \in K => u[i].waiter = None
  BY OpsType DEF Unattended, Operation
<1>3. ops[n] = <<>> => u = <<>>
  <2>1. u \in Seq(Operation)
    BY UnattendedType DEF TypeOK
  <2>2. ops[n] = <<>> => DOMAIN u = {}
    BY <1>1
  <2>3. u # <<>> => 1 \in DOMAIN u
    BY <2>1
  <2>4. QED
    BY <2>2, <2>3
<1>4. QED
  BY <1>1, <1>2, <1>3 DEF SameButWaiters

LEMMA Abandoned ==
  ASSUME TypeOK, Polled, NEW k \in Keys, Abandon(k)
  PROVE  SameOps /\ Free(k)'
<1>1. \A n \in Names : ops'[n] = IF n = InstanceName(k) THEN Unattended(ops[n], {k})
                                 ELSE ops[n]
  BY DEF Abandon, TypeOK
<1>2. SameOps
  <2>1. SUFFICES ASSUME NEW n \in Names PROVE SameButWaiters(ops[n], ops'[n])
    BY DEF SameOps
  <2>2. CASE n = InstanceName(k)
    BY <1>1, <2>2, Unattend
  <2>3. CASE n # InstanceName(k)
    BY <1>1, <2>3 DEF SameButWaiters
  <2>4. QED
    BY <2>2, <2>3
<1>3. SUFFICES ASSUME NEW n \in Names, NEW i \in DOMAIN ops'[n], ops'[n][i].waiter = k
               PROVE  FALSE
  BY <1>2 DEF Free
<1>4. ops[n][i].waiter = k /\ i \in DOMAIN ops[n]
  BY <1>2, <1>3, NoneAssumption DEF SameOps, SameButWaiters
<1>5. InstanceName(k) = n
  BY <1>4, NoneAssumption DEF Polled
<1>6. ops'[n][i].waiter = None
  BY <1>1, <1>4, <1>5, Unattend
<1>7. QED
  BY <1>3, <1>6, NoneAssumption

\* Whoever still polls an operation then polled it before, for the same thing.
LEMMA PolledSameOps ==
  ASSUME TypeOK, Polled, SameOps,
         \A j \in Keys : \/ Free(j)'
                        \/ /\ work'[j].pc = work[j].pc
                           /\ work'[j].flow = work[j].flow
                           /\ work'[j].result = work[j].result
  PROVE  Polled'
<1>1. SUFFICES ASSUME NEW n \in Names, NEW i \in DOMAIN ops'[n],
                      NEW j, j = ops'[n][i].waiter, j # None
               PROVE  /\ InstanceName(j) = n
                      /\ work'[j].pc = "await" /\ work'[j].result = "pending"
                      /\ (ops'[n][i].kind = "delete") <=> (work'[j].flow = "delete")
                      /\ \A l \in DOMAIN ops'[n] : ops'[n][l].waiter = j => l = i
  BY DEF Polled, InstanceName
<1>2. i \in DOMAIN ops[n] /\ ops[n][i].waiter = j /\ ops'[n][i].kind = ops[n][i].kind
  BY <1>1 DEF SameOps, SameButWaiters
<1>3. j \in Keys
  BY <1>1, <1>2, OpsType
<1>4. /\ work'[j].pc = work[j].pc
      /\ work'[j].flow = work[j].flow
      /\ work'[j].result = work[j].result
  BY <1>1, <1>3 DEF Free
<1>5. \A l \in DOMAIN ops'[n] : ops'[n][l].waiter = j => ops[n][l].waiter = j
  BY <1>1 DEF SameOps, SameButWaiters
<1>6. QED
  BY <1>1, <1>2, <1>4, <1>5 DEF Polled, SameOps, SameButWaiters

\* The operations of n after its first one ended.
LEMMA Shrunk ==
  ASSUME TypeOK, NEW n \in Names, ops[n] # <<>>
  PROVE  /\ 1 \in DOMAIN ops[n]
         /\ Head(ops[n]) = ops[n][1]
         /\ \A i \in DOMAIN Tail(ops[n]) :
              /\ Tail(ops[n])[i] = ops[n][i + 1]
              /\ i \in Nat
              /\ i + 1 \in DOMAIN ops[n]
              /\ i + 1 # 1
<1>1. ops[n] \in Seq(Operation)
  BY DEF TypeOK
<1>2. /\ Len(Tail(ops[n])) = Len(ops[n]) - 1
      /\ \A i \in 1 .. Len(Tail(ops[n])) : Tail(ops[n])[i] = ops[n][i + 1]
      /\ Tail(ops[n]) \in Seq(Operation)
  BY <1>1, HeadTailProperties
<1>3. Len(ops[n]) \in Nat /\ Len(ops[n]) # 0 /\ DOMAIN ops[n] = 1 .. Len(ops[n])
  BY <1>1, EmptySeq
<1>4. QED
  BY <1>1, <1>2, <1>3

\* The end of an operation is the end of it alone or, when the instance goes, of
\* all operations of the instance; the calls that poll these see it, no others.
LEMMA Ended ==
  ASSUME TypeOK, NEW n \in Names, CompleteOperation(n) \/ FailOperation(n)
  PROVE  /\ ops[n] # <<>>
         /\ \A m \in Names \ {n} : ops'[m] = ops[m]
         /\ ops'[n] = <<>> \/ ops'[n] = Tail(ops[n])
         /\ \A j \in Keys :
              \/ work'[j].result = work[j].result
              \/ \E i \in DOMAIN ops[n] :
                    ops[n][i].waiter = j /\ (i = 1 \/ ops'[n] = <<>>)
<1> DEFINE Touched(j) == \E i \in DOMAIN ops[n] :
                           ops[n][i].waiter = j /\ (i = 1 \/ ops'[n] = <<>>)
<1>1. ops[n] # <<>>
  BY DEF CompleteOperation, FailOperation
<1>2. (\A m \in Names \ {n} : ops'[m] = ops[m])
        /\ (ops'[n] = <<>> \/ ops'[n] = Tail(ops[n]))
  BY DEF TypeOK, CompleteOperation, FailOperation, RemoveInstance
<1>3. \A j \in Waiters(<<Head(ops[n])>>) \cup ({Head(ops[n]).waiter} \ {None}) : Touched(j)
  BY <1>1, Shrunk DEF Waiters
<1>4. \A j \in Waiters(Tail(ops[n])) : ops'[n] = <<>> => Touched(j)
  BY <1>1, Shrunk DEF Waiters
<1>5. \A j \in Waiters(ops[n]) : ops'[n] = <<>> => Touched(j)
  BY DEF Waiters
<1>6. ops'[n] = <<>> \/ ~RemoveInstance(n)
  BY DEF RemoveInstance, TypeOK
<1>7. ASSUME NEW j \in Keys, work'[j].result # work[j].result
      PROVE  Touched(j)
  <2>1. CASE CompleteOperation(n)
    BY <1>3, <1>4, <1>6, <1>7, <2>1, ReportKeeps DEF CompleteOperation
  <2>2. CASE FailOperation(n)
    BY <1>3, <1>5, <1>6, <1>7, <2>2, ReportKeeps DEF FailOperation
  <2>3. QED
    BY <2>1, <2>2
<1>8. QED
  BY <1>1, <1>2, <1>7

LEMMA PolledEnded ==
  ASSUME TypeOK, Polled, NEW n \in Names, CompleteOperation(n) \/ FailOperation(n)
  PROVE  Polled'
<1>1. SUFFICES ASSUME NEW m \in Names, NEW i \in DOMAIN ops'[m],
                      NEW j, j = ops'[m][i].waiter, j # None
               PROVE  /\ InstanceName(j) = m
                      /\ work'[j].pc = "await" /\ work'[j].result = "pending"
                      /\ (ops'[m][i].kind = "delete") <=> (work'[j].flow = "delete")
                      /\ \A l \in DOMAIN ops'[m] : ops'[m][l].waiter = j => l = i
  BY DEF Polled, InstanceName
<1>2. \A k \in Keys : work'[k].pc = work[k].pc /\ work'[k].flow = work[k].flow
  BY ReportKeeps DEF CompleteOperation, FailOperation
<1>3. CASE m # n
  <2>1. ops'[m] = ops[m]
    BY <1>3, Ended
  <2>2. j \in Keys /\ InstanceName(j) = m
    BY <1>1, <2>1, OpsType DEF Polled
  <2>3. work'[j].result = work[j].result
    BY <1>1, <1>3, <2>2, Ended DEF Polled
  <2>4. QED
    BY <1>1, <1>2, <2>1, <2>2, <2>3 DEF Polled
<1>4. CASE m = n
  <2>1. ops'[n] = Tail(ops[n]) /\ ops'[n] # <<>>
    BY <1>1, <1>4, Ended
  <2>2. /\ ops'[n][i] = ops[n][i + 1]
        /\ i \in Nat /\ i + 1 \in DOMAIN ops[n] /\ i + 1 # 1
    BY <1>1, <1>4, <2>1, Ended, Shrunk
  <2>3. j \in Keys /\ j = ops[n][i + 1].waiter
    BY <1>1, <1>4, <2>2, OpsType
  <2>4. work'[j].result = work[j].result
    <3>1. ops[n][1].waiter # j
      BY <1>1, <2>2, <2>3, Ended, Shrunk DEF Polled
    <3>2. \/ work'[j].result = work[j].result
          \/ \E q \in DOMAIN ops[n] : ops[n][q].waiter = j /\ (q = 1 \/ ops'[n] = <<>>)
      BY <2>3, Ended
    <3>3. QED
      BY <2>1, <3>1, <3>2
  <2>5. \A l \in DOMAIN ops'[n] : ops'[n][l].waiter = j => l = i
    <3>1. SUFFICES ASSUME NEW l \in DOMAIN ops'[n], ops'[n][l].waiter = j
                   PROVE  l = i
      OBVIOUS
    <3>2. l \in Nat /\ l + 1 \in DOMAIN ops[n] /\ ops[n][l + 1].waiter = j
      BY <2>1, <3>1, Ended, Shrunk
    <3>3. l + 1 = i + 1
      BY <1>1, <2>2, <2>3, <3>2 DEF Polled
    <3>4. QED
      BY <2>2, <3>2, <3>3
  <2>6. QED
    BY <1>1, <1>2, <1>4, <2>2, <2>3, <2>4, <2>5 DEF Polled
<1>5. QED
  BY <1>3, <1>4

\* An operation is polled by one call, which waits for this operation.
LEMMA PolledNext ==
  ASSUME TypeOK, Polled, Locals, [Next]_vars
  PROVE  Polled'
<1>1. ASSUME NEW k \in Keys, Reconcile(k)
      PROVE  Polled'
  <2>1. \A j \in Keys \ {k} : work'[j] = work[j]
    BY <1>1, OtherCalls
  <2>2. Free(k) /\ ops' = ops => Polled'
    BY <2>1, PolledSame
  <2>3. CASE DeleteInstance(k)
    <3>1. Free(k) /\ work[k].flow = "delete"
      BY <2>3, FreeUnlessAwaiting DEF DeleteInstance, At, Locals
    <3>2. Accept(k, "delete", None, k) /\ Await(k, None) => Polled'
      BY <2>1, <3>1, PolledAccepted, SetLocals
    <3>3. Accept(k, "delete", None, None) => Polled'
      BY <2>1, <3>1, PolledAccepted, NoneAssumption
    <3>4. QED
      BY <2>2, <2>3, <3>1, <3>2, <3>3 DEF DeleteInstance
  <2>4. CASE InsertInstance(k)
    <3> DEFINE p == newSSHKeypair
    <3>1. Free(k) /\ work[k].flow = "ensure"
      BY <2>4, FreeUnlessAwaiting DEF InsertInstance, At, Locals
    <3>2. Accept(k, "insert", p, k) /\ Await(k, p) => Polled'
      BY <2>1, <3>1, PolledAccepted, SetLocals
    <3>3. Accept(k, "insert", p, None) => Polled'
      BY <2>1, <3>1, PolledAccepted, NoneAssumption
    <3>4. QED
      BY <2>2, <2>4, <3>1, <3>2, <3>3 DEF InsertInstance, gce
  <2>5. CASE RefreshKey(k)
    <3> DEFINE p == newSSHKeypair
    <3>1. Free(k) /\ work[k].flow = "ensure"
      BY <2>5, FreeUnlessAwaiting DEF RefreshKey, At, Locals
    <3>2. Accept(k, "setMetadata", p, k) /\ Await(k, p) => Polled'
      BY <2>1, <3>1, PolledAccepted, SetLocals
    <3>3. Accept(k, "setMetadata", p, None) => Polled'
      BY <2>1, <3>1, PolledAccepted, NoneAssumption
    <3>4. QED
      BY <2>2, <2>5, <3>1, <3>2, <3>3 DEF RefreshKey
  <2>6. CASE WaitForOperation(k)
    <3>1. Abandon(k) => Polled'
      BY <2>1, Abandoned, PolledSameOps
    <3>2. work[k].result # "pending" /\ ops' = ops => Polled'
      BY <2>2, FreeUnlessAwaiting
    <3>3. QED
      BY <2>6, <3>1, <3>2 DEF WaitForOperation
  <2>7. CASE /\ ~DeleteInstance(k) /\ ~InsertInstance(k) /\ ~RefreshKey(k)
             /\ ~WaitForOperation(k)
    <3>1. work[k].pc # "await" /\ ops' = ops
      BY <1>1, <2>7
         DEF Reconcile, GetVM, FindDoomed, FindInstance, CheckSecret, HandleError,
             LocateInstance, PublishSecret, RemoveFinalizer, At, gce
    <3>2. QED
      BY <2>2, <3>1, FreeUnlessAwaiting
  <2>8. QED
    BY <2>3, <2>4, <2>5, <2>6, <2>7
<1>2. ASSUME NEW k \in Keys,
             DeleteVM(k) \/ UpdateVM(k) \/ DropOtherFinalizers(k)
               \/ \E f \in SUBSET OtherFinalizers : CreateVM(k, f)
      PROVE  Polled'
  <2>1. Outdated(k) /\ ops' = ops
    BY <1>2 DEF DeleteVM, UpdateVM, DropOtherFinalizers, CreateVM, gce
  <2>2. QED
    BY <2>1, OutdatedKeeps, PolledSame
<1>3. ASSUME NEW k \in Keys, Begin(k)
      PROVE  Polled'
  <2>1. Free(k)
    BY <1>3, FreeUnlessAwaiting DEF Begin, At
  <2>2. ops' = ops /\ \A j \in Keys \ {k} : work'[j] = work[j]
    BY <1>3 DEF Begin, Put, TypeOK, gce
  <2>3. QED
    BY <2>1, <2>2, PolledSame
<1>4. ASSUME NEW k \in Keys, Enqueue(k) \/ DeleteSecret(k) \/ CollectSecret(k)
      PROVE  Polled'
  BY <1>4, PolledSame DEF Enqueue, DeleteSecret, CollectSecret, gce
<1>5. CASE Restart
  <2>1. \A n \in Names : ops'[n] = Unattended(ops[n], Keys)
    BY <1>5 DEF Restart
  <2>2. SameOps
    BY <2>1, Unattend DEF SameOps
  <2>3. \A j \in Keys : Free(j)'
    <3>1. SUFFICES ASSUME NEW j \in Keys, NEW n \in Names, NEW i \in DOMAIN ops'[n],
                          ops'[n][i].waiter = j
                   PROVE  FALSE
      BY DEF Free
    <3>2. i \in DOMAIN ops[n] /\ ops[n][i].waiter \in Keys
      BY <2>2, <3>1, NoneAssumption DEF SameOps, SameButWaiters
    <3>3. ops'[n][i].waiter = None
      BY <2>1, <3>2, Unattend
    <3>4. QED
      BY <3>1, <3>3, NoneAssumption
  <2>4. QED
    BY <2>2, <2>3, PolledSameOps
<1>6. CASE UNCHANGED vars
  BY <1>6, PolledSame DEF vars
<1>7. QED
  BY <1>1, <1>2, <1>3, <1>4, <1>5, <1>6, PolledEnded DEF Next

\* The call of j polls an operation of its instance.
Polls(j) == \E i \in DOMAIN ops[InstanceName(j)] : ops[InstanceName(j)][i].waiter = j

AwaitedAt(j) == work[j].pc = "await" /\ work[j].result = "pending" => Polls(j)

\* Only a call that has just had an operation accepted comes to poll one.
LEMMA ComesToAwait ==
  ASSUME TypeOK, NEW k \in Keys, Reconcile(k), work'[k].pc = "await"
  PROVE  \E kind, p : Accept(k, kind, p, k)
<1>1. ~ReturnNil(k) /\ ~ReturnErr(k) /\ ~Failed(k)
  BY SetLocals DEF Idle, Failed
<1>2. ASSUME NEW pc, pc # "await"
      PROVE  ~Goto(k, pc)
  BY <1>2, SetLocals
<1>3. work[k] \in Work
  BY DEF TypeOK
<1>4. ~GetVM(k)
  <2>1. ASSUME NEW flow,
               Put(k, [work[k] EXCEPT
                         !.pc = IF flow = "delete" THEN "doom" ELSE "ensure",
                         !.flow = flow, !.uid = vms[k].uid, !.current = TRUE])
        PROVE  FALSE
    BY <1>3, <2>1 DEF Put, TypeOK, Work
  <2>2. QED
    BY <1>1, <2>1 DEF GetVM
<1>5. ~HandleError(k)
  <2>1. ASSUME NEW b, Put(k, [work[k] EXCEPT !.pc = "finalize", !.current = b])
        PROVE  FALSE
    BY <1>3, <2>1 DEF Put, TypeOK, Work
  <2>2. QED
    BY <1>1, <2>1 DEF HandleError
<1>6. ~WaitForOperation(k)
  <2>1. \A m \in Messages : ~FailedWith(k, m)
    BY <1>1 DEF Failed
  <2>2. QED
    BY <1>1, <1>2, <2>1 DEF WaitForOperation
<1>7. ~FindDoomed(k) /\ ~FindInstance(k) /\ ~CheckSecret(k) /\ ~LocateInstance(k)
  BY <1>1, <1>2 DEF FindDoomed, FindInstance, CheckSecret, LocateInstance
<1>8. ~PublishSecret(k) /\ ~RemoveFinalizer(k)
  BY <1>1 DEF PublishSecret, RemoveFinalizer
<1>9. DeleteInstance(k) \/ InsertInstance(k) \/ RefreshKey(k)
  BY <1>4, <1>5, <1>6, <1>7, <1>8 DEF Reconcile
<1>10. QED
  BY <1>1, <1>9 DEF DeleteInstance, InsertInstance, RefreshKey

\* A call of reconcile's takes no operation from another call.
LEMMA PollsElsewhere ==
  ASSUME TypeOK, NEW k \in Keys, Reconcile(k), NEW j \in Keys \ {k}, Polls(j)
  PROVE  Polls(j)'
<1>1. PICK n \in Names : n = InstanceName(j)
  BY DEF InstanceName
<1>2. PICK i \in DOMAIN ops[n] : ops[n][i].waiter = j
  BY <1>1 DEF Polls
<1>3. SUFFICES \E l \in DOMAIN ops'[n] : ops'[n][l].waiter = j
  BY <1>1 DEF Polls, InstanceName
<1>4. CASE ops' = ops
  BY <1>2, <1>4
<1>5. ASSUME NEW kind, NEW p, NEW w, Accept(k, kind, p, w)
      PROVE  \E l \in DOMAIN ops'[n] : ops'[n][l].waiter = j
  <2>1. PICK last \in Nat : Grown(InstanceName(k), last,
                                  [kind |-> kind, key |-> p, waiter |-> w])
    BY <1>5, Accepted
  <2>2. CASE n = InstanceName(k)
    <3>1. /\ DOMAIN ops[n] = 1 .. last - 1 /\ DOMAIN ops'[n] = 1 .. last
          /\ \A l \in DOMAIN ops'[n] \ {last} : ops'[n][l] = ops[n][l]
      BY <2>1, <2>2 DEF Grown
    <3>2. i \in DOMAIN ops'[n] \ {last}
      BY <3>1
    <3>3. QED
      BY <1>2, <3>1, <3>2
  <2>3. CASE n # InstanceName(k)
    BY <1>2, <2>1, <2>3 DEF Grown
  <2>4. QED
    BY <2>2, <2>3
<1>6. ASSUME Abandon(k)
      PROVE  \E l \in DOMAIN ops'[n] : ops'[n][l].waiter = j
  <2>1. ops'[n] = IF n = InstanceName(k) THEN Unattended(ops[n], {k}) ELSE ops[n]
    BY <1>6 DEF Abandon, TypeOK
  <2>2. i \in DOMAIN ops'[n] /\ ops'[n][i].waiter = j
    BY <1>2, <2>1 DEF Unattended
  <2>3. QED
    BY <2>2
<1>7. QED
  BY <1>4, <1>5, <1>6
     DEF Reconcile, GetVM, FindDoomed, DeleteInstance, FindInstance, CheckSecret,
         InsertInstance, RefreshKey, WaitForOperation, HandleError, LocateInstance,
         PublishSecret, RemoveFinalizer, gce

\* Whoever polled an operation that ended sees how it ended.
LEMMA EndIsSeen ==
  ASSUME TypeOK, NEW n \in Names, CompleteOperation(n) \/ FailOperation(n),
         NEW j \in Keys, NEW i \in DOMAIN ops[n], ops[n][i].waiter = j,
         i = 1 \/ ops'[n] # Tail(ops[n])
  PROVE  work'[j].result # "pending"
<1> DEFINE op == Head(ops[n])
           rest == Tail(ops[n])
<1>1. ops[n] # <<>> /\ j # None
  BY Ended, NoneAssumption
<1>2. op = ops[n][1] /\ 1 \in DOMAIN ops[n]
  BY <1>1, Shrunk
<1>3. j \in Waiters(ops[n])
  BY <1>1 DEF Waiters
<1>4. i # 1 => j \in Waiters(rest)
  <2>1. ASSUME i # 1
        PROVE  i - 1 \in DOMAIN rest /\ rest[i - 1] = ops[n][i]
    <3>1. ops[n] \in Seq(Operation)
      BY DEF TypeOK
    <3>2. /\ Len(rest) = Len(ops[n]) - 1 /\ rest \in Seq(Operation)
          /\ \A l \in 1 .. Len(rest) : rest[l] = ops[n][l + 1]
          /\ Len(ops[n]) \in Nat /\ DOMAIN ops[n] = 1 .. Len(ops[n])
      BY <1>1, <3>1, HeadTailProperties
    <3>3. i \in 1 .. Len(ops[n])
      BY <3>2
    <3> DEFINE len == Len(ops[n])
    <3>4. Len(rest) = len - 1 /\ len \in Nat /\ i \in 1 .. len
      BY <3>2, <3>3
    <3> HIDE DEF len
    <3>5. i - 1 \in 1 .. Len(rest) /\ i - 1 + 1 = i
      BY <2>1, <3>4
    <3>6. DOMAIN rest = 1 .. Len(rest)
      BY <3>2
    <3>7. QED
      BY <3>2, <3>5, <3>6
  <2>2. QED
    BY <1>1, <2>1 DEF Waiters
<1>5. i = 1 => op.waiter = j /\ j \in Waiters(<<op>>)
  BY <1>1, <1>2 DEF Waiters
<1>6. n = n /\ (RemoveInstance(n) \/ ops' = [ops EXCEPT ![n] = rest])
  BY DEF CompleteOperation, FailOperation
<1>7. ops' = [ops EXCEPT ![n] = rest] => ops'[n] = rest
  BY DEF TypeOK
<1>8. CASE CompleteOperation(n)
  <2>1. CASE ops' = [ops EXCEPT ![n] = rest] /\ Report({op.waiter} \ {None}, {})
    BY <1>1, <1>5, <1>7, <2>1, ReportKeeps
  <2>2. CASE Report({op.waiter} \ {None}, Waiters(rest))
    BY <1>1, <1>4, <1>5, <2>2, ReportKeeps
  <2>3. QED
    BY <1>8, <2>1, <2>2 DEF CompleteOperation
<1>9. CASE FailOperation(n)
  <2>1. CASE Report({}, Waiters(ops[n]))
    BY <1>3, <2>1, ReportKeeps
  <2>2. CASE ops' = [ops EXCEPT ![n] = rest] /\ Report({}, Waiters(<<op>>))
    BY <1>5, <1>7, <2>2, ReportKeeps
  <2>3. QED
    BY <1>9, <2>1, <2>2 DEF FailOperation
<1>10. QED
  BY <1>8, <1>9

\* No call waits in vain.
LEMMA AwaitedNext ==
  ASSUME TypeOK, Polled, Awaited, [Next]_vars
  PROVE  Awaited'
<1>1. \A j \in Keys : AwaitedAt(j)
  BY DEF Awaited, AwaitedAt, Polls
<1>2. SUFFICES ASSUME NEW j \in Keys, work'[j].pc = "await", work'[j].result = "pending"
               PROVE  Polls(j)'
  BY DEF Awaited, Polls, InstanceName
<1>3. ASSUME ops' = ops, work'[j].pc = work[j].pc, work'[j].result = work[j].result
      PROVE  Polls(j)'
  BY <1>1, <1>2, <1>3 DEF AwaitedAt, Polls, InstanceName
<1>4. ASSUME NEW k \in Keys, Reconcile(k)
      PROVE  Polls(j)'
  <2>1. CASE j = k
    <3>1. PICK kind, p : Accept(k, kind, p, k)
      BY <1>2, <1>4, <2>1, ComesToAwait
    <3>2. PICK last \in Nat : Grown(InstanceName(k), last,
                                    [kind |-> kind, key |-> p, waiter |-> k])
      BY <3>1, Accepted
    <3>3. QED
      BY <2>1, <3>2 DEF Grown, Polls, InstanceName
  <2>2. CASE j # k
    <3>1. work'[j] = work[j]
      BY <1>4, <2>2, OtherCalls
    <3>2. Polls(j)
      BY <1>1, <1>2, <3>1 DEF AwaitedAt
    <3>3. QED
      BY <1>4, <2>2, <3>2, PollsElsewhere
  <2>3. QED
    BY <2>1, <2>2
<1>5. ASSUME NEW k \in Keys,
             DeleteVM(k) \/ UpdateVM(k) \/ DropOtherFinalizers(k)
               \/ \E f \in SUBSET OtherFinalizers : CreateVM(k, f)
      PROVE  Polls(j)'
  <2>1. Outdated(k) /\ ops' = ops
    BY <1>5 DEF DeleteVM, UpdateVM, DropOtherFinalizers, CreateVM, gce
  <2>2. QED
    BY <1>3, <2>1, OutdatedKeeps
<1>6. ASSUME NEW k \in Keys, Begin(k)
      PROVE  Polls(j)'
  <2>1. ops' = ops /\ work' = [work EXCEPT ![k] = [work[k] EXCEPT !.pc = "get"]]
    BY <1>6 DEF Begin, Put, gce
  <2>2. work[k] \in Work
    BY DEF TypeOK
  <2>3. j # k /\ work'[j] = work[j]
    BY <1>2, <2>1, <2>2 DEF TypeOK, Work
  <2>4. QED
    BY <1>3, <2>1, <2>3
<1>7. ASSUME NEW k \in Keys, Enqueue(k) \/ DeleteSecret(k) \/ CollectSecret(k)
      PROVE  Polls(j)'
  BY <1>3, <1>7 DEF Enqueue, DeleteSecret, CollectSecret, gce
<1>8. ASSUME NEW n \in Names, CompleteOperation(n) \/ FailOperation(n)
      PROVE  Polls(j)'
  <2>1. work'[j].pc = work[j].pc
    BY <1>8, ReportKeeps DEF CompleteOperation, FailOperation
  <2>2. /\ \A m \in Names \ {n} : ops'[m] = ops[m]
        /\ ops'[n] = <<>> \/ ops'[n] = Tail(ops[n])
        /\ \/ work'[j].result = work[j].result
           \/ \E i \in DOMAIN ops[n] : /\ ops[n][i].waiter = j
                                       /\ i = 1 \/ ops'[n] = <<>>
    BY <1>8, Ended
  <2>3. work[j].result = "pending"
    <3>1. ASSUME NEW i \in DOMAIN ops[n], ops[n][i].waiter = j
          PROVE  work[j].result = "pending"
      BY <3>1, NoneAssumption DEF Polled
    <3>2. QED
      BY <1>2, <2>2, <3>1
  <2>4. PICK m \in Names : m = InstanceName(j)
    BY DEF InstanceName
  <2>5. PICK i \in DOMAIN ops[m] : ops[m][i].waiter = j
    BY <1>1, <1>2, <2>1, <2>3, <2>4 DEF AwaitedAt, Polls
  <2>6. CASE m # n
    BY <2>2, <2>4, <2>5, <2>6 DEF Polls, InstanceName
  <2>7. CASE m = n
    <3>1. i # 1 /\ ops'[n] = Tail(ops[n])
      BY <1>2, <1>8, <2>5, <2>7, EndIsSeen
    <3>2. ops[n] \in Seq(Operation) /\ ops[n] # <<>>
      BY <1>8, Ended DEF TypeOK
    <3>3. /\ Len(Tail(ops[n])) = Len(ops[n]) - 1 /\ Tail(ops[n]) \in Seq(Operation)
          /\ \A l \in 1 .. Len(Tail(ops[n])) : Tail(ops[n])[l] = ops[n][l + 1]
          /\ Len(ops[n]) \in Nat /\ DOMAIN ops[n] = 1 .. Len(ops[n])
      BY <3>2, HeadTailProperties
    <3> DEFINE rest == Tail(ops[n])
               len == Len(ops[n])
    <3>4. /\ i \in 1 .. len /\ i # 1 /\ len \in Nat /\ Len(rest) = len - 1
          /\ DOMAIN rest = 1 .. Len(rest)
      BY <2>5, <2>7, <3>1, <3>3
    <3>5. \A l \in 1 .. Len(rest) : rest[l] = ops[n][l + 1]
      BY <3>3
    <3>6. ops'[n] = rest
      BY <3>1
    <3> HIDE DEF rest, len
    <3>7. i - 1 \in DOMAIN rest /\ i - 1 + 1 = i
      BY <3>4
    <3>8. rest[i - 1].waiter = j
      BY <2>5, <2>7, <3>4, <3>5, <3>7
    <3>9. QED
      BY <2>4, <2>7, <3>6, <3>7, <3>8 DEF Polls, InstanceName
  <2>8. QED
    BY <2>6, <2>7
<1>9. CASE Restart
  BY <1>2, <1>9 DEF Restart, Idle
<1>10. CASE UNCHANGED vars
  BY <1>3, <1>10 DEF vars
<1>11. QED
  BY <1>4, <1>5, <1>6, <1>7, <1>8, <1>9, <1>10 DEF Next

-----------------------------------------------------------------------------
(* Instances come with an accepted insertion and have operations only then.  *)

\* Operations are those of an instance, and leave it with a key.
LEMMA OfInstanceNext ==
  ASSUME TypeOK, Polled, OfInstance, [Next]_vars
  PROVE  OfInstance'
<1> DEFINE OfInstanceAt(m) ==
             /\ instances[m] = None => ops[m] = <<>>
             /\ \A i \in DOMAIN ops[m] : ops[m][i].kind # "delete" => ops[m][i].key # None
<1>1. ASSUME instances' = instances, SameOps
      PROVE  OfInstance'
  BY <1>1 DEF OfInstance, SameOps, SameButWaiters
<1>2. ASSUME instances' = instances, ops' = ops
      PROVE  OfInstance'
  BY <1>2 DEF OfInstance
<1>3. ASSUME NEW k \in Keys, NEW kind, NEW p, NEW w, Accept(k, kind, p, w),
             kind # "delete" => p # None,
             instances'[InstanceName(k)] # None,
             \A m \in Names \ {InstanceName(k)} : instances'[m] = instances[m]
      PROVE  OfInstance'
  <2> DEFINE op == [kind |-> kind, key |-> p, waiter |-> w]
  <2>1. PICK n \in Names, last \in Nat : n = InstanceName(k) /\ Grown(n, last, op)
    BY <1>3, Accepted
  <2>2. SUFFICES ASSUME NEW m \in Names PROVE OfInstanceAt(m)'
    BY DEF OfInstance
  <2>3. CASE m # n
    BY <1>3, <2>1, <2>3 DEF OfInstance, Grown
  <2>4. CASE m = n
    BY <1>3, <2>1, <2>4 DEF OfInstance, Grown
  <2>5. QED
    BY <2>3, <2>4
<1>4. ASSUME NEW k \in Keys, Reconcile(k)
      PROVE  OfInstance'
  <2>1. CASE DeleteInstance(k)
    BY <1>2, <1>3, <2>1 DEF DeleteInstance, Present, InstanceName
  <2>2. CASE InsertInstance(k)
    <3> DEFINE p == newSSHKeypair
    <3>1. ASSUME CanGenerate, NEW w, Accept(k, "insert", p, w),
                 instances' = [instances EXCEPT ![InstanceName(k)] = p]
          PROVE  OfInstance'
      <4>1. p # None
        BY <3>1, NewKeypair, NoneAssumption
      <4>2. instances'[InstanceName(k)] = p
              /\ \A m \in Names \ {InstanceName(k)} : instances'[m] = instances[m]
        BY <3>1 DEF TypeOK, InstanceName
      <4>3. QED
        BY <1>3, <3>1, <4>1, <4>2
    <3>2. QED
      BY <1>2, <2>2, <3>1 DEF InsertInstance, gce
  <2>3. CASE RefreshKey(k)
    <3>1. CanGenerate => newSSHKeypair # None
      BY NewKeypair, NoneAssumption
    <3>2. QED
      BY <1>2, <1>3, <2>3, <3>1 DEF RefreshKey, Present
  <2>4. CASE WaitForOperation(k)
    BY <1>1, <1>2, <2>4, Abandoned DEF WaitForOperation
  <2>5. CASE /\ ~DeleteInstance(k) /\ ~InsertInstance(k) /\ ~RefreshKey(k)
             /\ ~WaitForOperation(k)
    BY <1>2, <1>4, <2>5
       DEF Reconcile, GetVM, FindDoomed, FindInstance, CheckSecret, HandleError,
           LocateInstance, PublishSecret, RemoveFinalizer, gce
  <2>6. QED
    BY <2>1, <2>2, <2>3, <2>4, <2>5
<1>5. ASSUME NEW n \in Names, CompleteOperation(n) \/ FailOperation(n)
      PROVE  OfInstance'
  <2>1. SUFFICES ASSUME NEW m \in Names PROVE OfInstanceAt(m)'
    BY DEF OfInstance
  <2>2. CASE m # n
    <3>1. instances'[m] = instances[m]
      BY <1>5, <2>2 DEF TypeOK, CompleteOperation, FailOperation, RemoveInstance
    <3>2. QED
      BY <1>5, <2>2, <3>1, Ended DEF OfInstance
  <2>3. CASE m = n /\ ops'[n] = <<>>
    BY <2>3
  <2>4. CASE m = n /\ ops'[n] # <<>>
    <3>1. ops'[n] = Tail(ops[n]) /\ ~RemoveInstance(n)
      BY <1>5, <2>4, Ended DEF RemoveInstance, TypeOK
    <3>2. instances[n] # None /\ 1 \in DOMAIN ops[n] /\ Head(ops[n]) = ops[n][1]
      BY <1>5, Ended, Shrunk DEF OfInstance
    <3>3. instances'[n] # None
      BY <1>5, <3>1, <3>2 DEF OfInstance, TypeOK, CompleteOperation, FailOperation
    <3>4. QED
      BY <1>5, <2>4, <3>1, <3>3, Ended, Shrunk DEF OfInstance
  <2>5. QED
    BY <2>2, <2>3, <2>4
<1>6. CASE Restart
  <2>1. SameOps
    BY <1>6, Unattend DEF Restart, SameOps
  <2>2. QED
    BY <1>1, <1>6, <2>1 DEF Restart
<1>7. CASE UNCHANGED vars
  BY <1>2, <1>7 DEF vars
<1>8. ASSUME NEW k \in Keys,
             \/ Begin(k) \/ Enqueue(k)
             \/ \E f \in SUBSET OtherFinalizers : CreateVM(k, f)
             \/ DeleteVM(k) \/ UpdateVM(k) \/ DropOtherFinalizers(k)
             \/ DeleteSecret(k) \/ CollectSecret(k)
      PROVE  OfInstance'
  BY <1>2, <1>8 DEF Begin, Enqueue, CreateVM, DeleteVM, UpdateVM,
                    DropOtherFinalizers, DeleteSecret, CollectSecret, gce
<1>9. QED
  BY <1>4, <1>5, <1>6, <1>7, <1>8 DEF Next

\* An instance appears by an accepted insertion only.
LEMMA Appears ==
  ASSUME TypeOK, OfInstance, [Next]_vars, NEW n \in Names,
         instances[n] = None, instances'[n] # None
  PROVE  \E k \in Keys : /\ InstanceName(k) = n /\ InsertInstance(k)
                         /\ CanGenerate /\ (Await(k, newSSHKeypair) \/ Failed(k))
<1>1. \A m \in Names : ~(CompleteOperation(m) \/ FailOperation(m))
  <2>1. SUFFICES ASSUME NEW m \in Names, CompleteOperation(m) \/ FailOperation(m)
                 PROVE  FALSE
    OBVIOUS
  <2>2. CASE m = n
    BY <2>1, <2>2, Ended DEF OfInstance
  <2>3. CASE m # n
    BY <2>1, <2>3 DEF TypeOK, CompleteOperation, FailOperation, RemoveInstance
  <2>4. QED
    BY <2>2, <2>3
<1>2. ~UNCHANGED instances
  OBVIOUS
<1>3. PICK k \in Keys : InsertInstance(k)
  BY <1>1, <1>2
     DEF vars, Next, Reconcile, Begin, GetVM, RemoveFinalizer, FindDoomed,
         DeleteInstance, FindInstance, CheckSecret, RefreshKey,
         WaitForOperation, HandleError, LocateInstance, PublishSecret, CreateVM,
         DeleteVM, UpdateVM, DropOtherFinalizers, DeleteSecret, CollectSecret,
         Enqueue, Restart, gce
<1>4. instances' = [instances EXCEPT ![InstanceName(k)] = newSSHKeypair]
        /\ CanGenerate /\ (Await(k, newSSHKeypair) \/ Failed(k))
  BY <1>2, <1>3 DEF InsertInstance, gce
<1>5. InstanceName(k) = n
  BY <1>4 DEF TypeOK
<1>6. QED
  BY <1>3, <1>4, <1>5

-----------------------------------------------------------------------------
(* What a step does to the operations of an instance, and to an object.    *)

\* k's call has GCE accept an operation: it waits for it, or does not know of it.
Asks(k, kind, p, w) ==
    /\ Accept(k, kind, p, w)
    /\ (w = k /\ Await(k, p)) \/ (w = None /\ Failed(k))
    /\ \/ kind = "delete" /\ DeleteInstance(k) /\ p = None
       \/ /\ kind = "insert" /\ InsertInstance(k) /\ ~Present(k)
          /\ CanGenerate /\ p = newSSHKeypair
          /\ instances' = [instances EXCEPT ![InstanceName(k)] = p]
       \/ kind = "setMetadata" /\ RefreshKey(k) /\ CanGenerate /\ p = newSSHKeypair

\* A call whose step changes the operations asks for one or gives its own up.
LEMMA CallOperations ==
  ASSUME TypeOK, Polled, NEW k \in Keys, Reconcile(k)
  PROVE  \/ ops' = ops
         \/ WaitForOperation(k) /\ Abandon(k)
         \/ \E kind, p, w : Asks(k, kind, p, w)
<1>1. CASE DeleteInstance(k)
  BY <1>1 DEF DeleteInstance, Asks
<1>2. CASE InsertInstance(k)
  BY <1>2 DEF InsertInstance, Asks, gce
<1>3. CASE RefreshKey(k)
  BY <1>3 DEF RefreshKey, Asks
<1>4. CASE WaitForOperation(k)
  BY <1>4 DEF WaitForOperation
<1>5. CASE /\ ~DeleteInstance(k) /\ ~InsertInstance(k) /\ ~RefreshKey(k)
           /\ ~WaitForOperation(k)
  BY <1>5 DEF Reconcile, GetVM, FindDoomed, FindInstance, CheckSecret, HandleError,
              LocateInstance, PublishSecret, RemoveFinalizer, gce
<1>6. QED
  BY <1>1, <1>2, <1>3, <1>4, <1>5

\* The operations of an instance change by a call of one of its objects, or by
\* the end of one of them; otherwise they only lose waiters.
LEMMA OperationsNext ==
  ASSUME TypeOK, Polled, [Next]_vars, NEW n \in Names
  PROVE  \/ SameButWaiters(ops[n], ops'[n])
         \/ \E k \in Keys : InstanceName(k) = n /\ \E kind, p, w : Asks(k, kind, p, w)
         \/ CompleteOperation(n) \/ FailOperation(n)
<1>1. ops'[n] = ops[n] => SameButWaiters(ops[n], ops'[n])
  BY DEF SameButWaiters
<1>2. ASSUME NEW k \in Keys, Reconcile(k)
      PROVE  \/ SameButWaiters(ops[n], ops'[n])
             \/ InstanceName(k) = n /\ \E kind, p, w : Asks(k, kind, p, w)
  <2>1. Abandon(k) => SameButWaiters(ops[n], ops'[n])
    BY Abandoned DEF SameOps
  <2>2. ASSUME NEW kind, NEW p, NEW w, Asks(k, kind, p, w), InstanceName(k) # n
        PROVE  ops'[n] = ops[n]
    BY <2>2 DEF Asks, Accept, TypeOK
  <2>3. QED
    BY <1>1, <1>2, <2>1, <2>2, CallOperations
<1>3. ASSUME NEW m \in Names \ {n}, CompleteOperation(m) \/ FailOperation(m)
      PROVE  ops'[n] = ops[n]
  BY <1>3, Ended
<1>4. Restart => SameButWaiters(ops[n], ops'[n])
  BY Unattend DEF Restart
<1>5. ASSUME NEW k \in Keys,
             \/ Begin(k) \/ Enqueue(k)
             \/ \E f \in SUBSET OtherFinalizers : CreateVM(k, f)
             \/ DeleteVM(k) \/ UpdateVM(k) \/ DropOtherFinalizers(k)
             \/ DeleteSecret(k) \/ CollectSecret(k)
      PROVE  ops' = ops
  BY <1>5 DEF Begin, Enqueue, CreateVM, DeleteVM, UpdateVM,
              DropOtherFinalizers, DeleteSecret, CollectSecret, gce
<1>6. UNCHANGED vars => ops' = ops
  BY DEF vars
<1>7. QED
  BY <1>1, <1>2, <1>3, <1>4, <1>5, <1>6 DEF Next

\* An object that stays keeps its incarnation and its deletion mark.
LEMMA SameIncarnation ==
  ASSUME CallInv, [Next]_vars, NEW k \in Keys, vms[k] # None, vms'[k] # None
  PROVE  vms'[k].uid = vms[k].uid /\ (vms[k].deleting => vms'[k].deleting)
<1> DEFINE Same == vms'[k].uid = vms[k].uid /\ (vms[k].deleting => vms'[k].deleting)
<1> USE DEF CallInv
<1>1. vms[k] \in VM
  BY DEF TypeOK
<1>2. vms'[k] = vms[k] => Same
  OBVIOUS
<1>3. CASE RemoveFinalizer(k)
  <2>1. vms'[k] = vms[k] \/ vms'[k] = WithoutFinalizer(vms[k])
    BY <1>3 DEF RemoveFinalizer, TypeOK
  <2>2. QED
    BY <1>1, <2>1 DEF WithoutFinalizer, VM
<1>4. ASSUME Reconcile(k), ~RemoveFinalizer(k)
      PROVE  Same
  <2>1. CASE HandleError(k)
    <3>1. vms'[k] = vms[k] \/ \E e : vms'[k] = [vms[k] EXCEPT !.status = e]
      BY <2>1 DEF HandleError, TypeOK
    <3>2. QED
      BY <1>1, <3>1 DEF VM
  <2>2. CASE ~HandleError(k)
    BY <1>4, <2>2
       DEF Reconcile, GetVM, FindDoomed, DeleteInstance, FindInstance, CheckSecret,
           InsertInstance, RefreshKey, WaitForOperation, LocateInstance,
           PublishSecret, api
  <2>3. QED
    BY <2>1, <2>2
<1>5. CASE DeleteVM(k)
  <2>1. vms'[k] = [vms[k] EXCEPT !.deleting = TRUE]
    BY <1>5 DEF DeleteVM, TypeOK
  <2>2. QED
    BY <1>1, <2>1 DEF VM
<1>6. CASE DropOtherFinalizers(k)
  <2>1. vms'[k] = [vms[k] EXCEPT !.finalizers = vms[k].finalizers \ OtherFinalizers]
    BY <1>6 DEF DropOtherFinalizers, TypeOK
  <2>2. QED
    BY <1>1, <2>1 DEF VM
<1>7. \A f \in SUBSET OtherFinalizers : ~CreateVM(k, f)
  BY DEF CreateVM
<1>8. CASE UpdateVM(k)
  BY <1>8 DEF UpdateVM, api
<1>9. ASSUME NEW j \in Keys \ {k},
             \/ Reconcile(j)
             \/ DeleteVM(j) \/ UpdateVM(j) \/ DropOtherFinalizers(j)
             \/ \E f \in SUBSET OtherFinalizers : CreateVM(j, f)
      PROVE  vms'[k] = vms[k]
  BY <1>9, StepsKeepObjects, WritesKeepObjects
<1>10. UNCHANGED vars => vms' = vms
  BY DEF vars
<1>11. QED
  BY <1>2, <1>3, <1>4, <1>5, <1>6, <1>7, <1>8, <1>9, <1>10, OthersKeep DEF Next

-----------------------------------------------------------------------------
(* The finalizer goes last.                                                *)

\* The call of an object that loses our finalizer was about to take it off.
LEMMA LosesFinalizer ==
  ASSUME CallInv, [Next]_vars, NEW k \in Keys, Holds(k), ~Holds(k)'
  PROVE  Leaving(k) /\ work[k].pc = "finalize"
<1>1. vms'[k] # vms[k]
  BY DEF Holds
<1>2. ~SameObject(k)
  BY DEF SameObject
<1>3. RemoveFinalizer(k)
  BY <1>1, <1>2, StepsKeepObjects, WritesKeepObjects, OthersKeep DEF CallInv, Next, vars
<1>4. work[k].current /\ work[k].pc = "finalize"
  BY <1>1, <1>3 DEF RemoveFinalizer, At
<1>5. QED
  BY <1>4 DEF CallInv, Locals, Leaving

\* A call comes to take the finalizer off when its instance is gone, or when
\* handleError wrote what the status said already.
LEMMA ComesToLeave ==
  ASSUME CallInv, Polled, OfInstance, [Next]_vars, NEW k \in Keys,
         ~Leaving(k), Leaving(k)'
  PROVE  \/ ~Present(k)'
         \/ work'[k].pc = "finalize" /\ NoopElided /\ Swallowed(k)'
<1> USE DEF CallInv
<1>1. work'[k] # work[k]
  BY DEF Leaving
<1>2. InstanceName(k) \in Names
  BY DEF InstanceName
<1>3. ASSUME Reconcile(k)
      PROVE  \/ ~Present(k)'
             \/ work'[k].pc = "finalize" /\ NoopElided /\ Swallowed(k)'
  <2>1. work'[k].pc \in {"await", "finalize"} /\ work'[k].flow = "delete"
          /\ (work'[k].pc = "await" => work'[k].result = "done")
    BY DEF Leaving
  <2>2. CASE GetVM(k)
    <3>1. ReturnNil(k) \/ ReturnErr(k) => work'[k].pc = "idle"
      BY SetLocals DEF Idle
    <3>2. ASSUME NEW pc \in {"doom", "ensure"}, NEW flow, NEW uid,
                 Put(k, [work[k] EXCEPT !.pc = pc, !.flow = flow,
                                        !.uid = uid, !.current = TRUE])
          PROVE  work'[k].pc = pc
      <4>1. work[k] \in Work
        BY DEF TypeOK
      <4>2. QED
        BY <3>2, <4>1 DEF Put, TypeOK, Work
    <3>3. work'[k].pc \in {"idle", "doom", "ensure"}
      BY <2>2, <3>1, <3>2 DEF GetVM
    <3>4. QED
      BY <2>1, <3>3
  <2>3. ReturnNil(k) \/ ReturnErr(k) => work'[k].pc = "idle"
    BY SetLocals DEF Idle
  <2>4. Failed(k) => work'[k].pc = "report"
    BY SetLocals DEF Failed
  <2>5. CASE FindDoomed(k)
    <3>1. ~Present(k) /\ UNCHANGED gce
      BY <2>1, <2>3, <2>5, SetLocals DEF FindDoomed
    <3>2. QED
      BY <3>1 DEF Present, gce
  <2>6. CASE DeleteInstance(k)
    BY <2>1, <2>4, <2>6, SetLocals DEF DeleteInstance
  <2>7. CASE FindInstance(k) \/ CheckSecret(k) \/ LocateInstance(k)
    BY <2>1, <2>3, <2>7, SetLocals DEF FindInstance, CheckSecret, LocateInstance
  <2>8. CASE InsertInstance(k) \/ RefreshKey(k)
    BY <2>1, <2>3, <2>4, <2>8, SetLocals DEF InsertInstance, RefreshKey
  <2>9. CASE WaitForOperation(k)
    <3>1. work[k].pc = "await" /\ work[k].result = "done"
            /\ \E pc : Goto(k, pc)
      BY <2>1, <2>4, <2>9 DEF WaitForOperation, At, Failed
    <3>2. work[k].flow = "delete"
      BY <2>1, <3>1, SetLocals
    <3>3. QED
      BY <3>1, <3>2 DEF Leaving
  <2>10. CASE HandleError(k)
    <3> DEFINE error == ErrorOf(k, work[k].msg)
               b == NoopElided /\ vms[k].status = error
    <3>1. /\ work[k].flow = "delete"
          /\ vms' = [vms EXCEPT ![k].status = error]
          /\ Put(k, [work[k] EXCEPT !.pc = "finalize", !.current = b])
      BY <2>1, <2>3, <2>10 DEF HandleError
    <3>2. work'[k].pc = "finalize" /\ work'[k].current = b
      <4>1. work[k] \in Work
        BY DEF TypeOK
      <4>2. QED
        BY <3>1, <4>1 DEF Put, TypeOK, Work
    <3>3. NoopElided
      BY <3>2 DEF Leaving
    <3>4. vms'[k].status = error
      <4>1. vms[k] \in VM
        BY <2>10 DEF TypeOK, Held, Holds, HandleError, At
      <4>2. vms'[k] = [vms[k] EXCEPT !.status = error]
        BY <3>1 DEF TypeOK
      <4>3. QED
        BY <4>1, <4>2 DEF VM
    <3>5. error \in [flow : {"delete"}, text : Messages]
      BY <2>10, <3>1 DEF ErrorOf, TypeOK, Work, Locals, HandleError, At
    <3>6. QED
      BY <3>2, <3>3, <3>4, <3>5 DEF Swallowed
  <2>11. CASE PublishSecret(k) \/ RemoveFinalizer(k)
    BY <2>1, <2>3, <2>11 DEF PublishSecret, RemoveFinalizer
  <2>12. QED
    BY <1>3, <2>2, <2>5, <2>6, <2>7, <2>8, <2>9, <2>10, <2>11 DEF Reconcile
<1>4. ASSUME NEW n \in Names, CompleteOperation(n) \/ FailOperation(n)
      PROVE  ~Present(k)'
  <2>1. work'[k].result = "done" /\ work[k].result # "done" /\ work[k].flow = "delete"
    BY <1>4, ReportKeeps DEF Leaving, CompleteOperation, FailOperation
  <2>2. CompleteOperation(n) /\ k = Head(ops[n]).waiter
    <3>1. CASE CompleteOperation(n)
      BY <2>1, <3>1, ReportKeeps DEF CompleteOperation
    <3>2. CASE FailOperation(n)
      BY <2>1, <3>2, ReportKeeps DEF FailOperation
    <3>3. QED
      BY <1>4, <3>1, <3>2
  <2>3. InstanceName(k) = n /\ Head(ops[n]).kind = "delete"
    BY <1>4, <2>1, <2>2, Ended, Shrunk, NoneAssumption DEF Polled
  <2>4. RemoveInstance(n)
    BY <2>2, <2>3 DEF CompleteOperation
  <2>5. QED
    BY <2>3, <2>4 DEF RemoveInstance, Present, TypeOK
<1>5. ASSUME NEW j \in Keys, Reconcile(j), j # k
      PROVE  FALSE
  BY <1>1, <1>5, OtherCalls
<1>6. ASSUME NEW j \in Keys,
             DeleteVM(j) \/ UpdateVM(j) \/ DropOtherFinalizers(j)
               \/ \E f \in SUBSET OtherFinalizers : CreateVM(j, f)
      PROVE  FALSE
  <2>1. Outdated(j)
    BY <1>6 DEF DeleteVM, UpdateVM, DropOtherFinalizers, CreateVM
  <2>2. QED
    BY <2>1, OutdatedKeeps DEF Leaving
<1>7. ASSUME NEW j \in Keys, Begin(j)
      PROVE  FALSE
  <2>1. work'[k].pc = "get" \/ work'[k] = work[k]
    BY <1>7 DEF Begin, Put, TypeOK, Work
  <2>2. QED
    BY <1>1, <2>1 DEF Leaving
<1>8. CASE Restart
  BY <1>8 DEF Restart, Leaving, Idle
<1>9. ~UNCHANGED vars
  BY <1>1 DEF vars
<1>10. \A j \in Keys : ~(Enqueue(j) \/ DeleteSecret(j) \/ CollectSecret(j))
  BY <1>1 DEF Enqueue, DeleteSecret, CollectSecret
<1>11. QED
  BY <1>3, <1>4, <1>5, <1>6, <1>7, <1>8, <1>9, <1>10 DEF Next

\* A call that is to take the finalizer off does so next, or its read is old.
LEMMA StaysLeaving ==
  ASSUME CallInv, [Next]_vars, NEW k \in Keys, Leaving(k), Leaving(k)'
  PROVE  work[k].pc = "finalize" => work'[k].pc = "finalize" /\ vms'[k] = vms[k]
<1> USE DEF CallInv
<1>1. SUFFICES ASSUME work[k].pc = "finalize"
               PROVE  work'[k].pc = "finalize" /\ vms'[k] = vms[k]
  OBVIOUS
<1>2. ASSUME Reconcile(k)
      PROVE  FALSE
  <2>1. RemoveFinalizer(k)
    BY <1>1, <1>2 DEF Reconcile, GetVM, FindDoomed, DeleteInstance, FindInstance,
         CheckSecret, InsertInstance, RefreshKey, WaitForOperation, HandleError,
         LocateInstance, PublishSecret, At
  <2>2. work'[k] = Idle
    BY <2>1, SetLocals DEF RemoveFinalizer
  <2>3. QED
    BY <2>2 DEF Leaving, Idle
<1>3. ASSUME NEW j \in Keys \ {k}, Reconcile(j)
      PROVE  work'[k] = work[k] /\ vms'[k] = vms[k]
  BY <1>3, OtherCalls, StepsKeepObjects
<1>4. ASSUME NEW j \in Keys,
             DeleteVM(j) \/ UpdateVM(j) \/ DropOtherFinalizers(j)
               \/ \E f \in SUBSET OtherFinalizers : CreateVM(j, f)
      PROVE  work'[k].pc = work[k].pc /\ vms'[k] = vms[k]
  <2>1. Outdated(j)
    BY <1>4 DEF DeleteVM, UpdateVM, DropOtherFinalizers, CreateVM
  <2>2. work'[k].pc = work[k].pc /\ (j = k => ~work'[k].current)
    BY <2>1, OutdatedKeeps
  <2>3. j # k
    BY <1>1, <2>2 DEF Leaving
  <2>4. QED
    BY <1>4, <2>2, <2>3, WritesKeepObjects
<1>5. CASE UNCHANGED vars
  BY <1>1, <1>5 DEF vars
<1>6. work'[k].pc \in {"idle", "get"} => ~Leaving(k)'
  BY DEF Leaving
<1>7. QED
  BY <1>1, <1>2, <1>3, <1>4, <1>5, <1>6, OthersKeep DEF Next

\* Where the name is the object's own, the finalizer goes last.
LEMMA CoveredNext ==
  ASSUME CallInv, Polled, OfInstance, Covered, [Next]_vars
  PROVE  Covered'
<1>1. SUFFICES ASSUME NEW k \in Keys, Sole(k), Leaving(k)', Present(k)'
               PROVE  work'[k].pc = "finalize" /\ Swallowed(k)'
  BY DEF Covered, Sole
<1>2. CASE ~Leaving(k)
  BY <1>1, <1>2, ComesToLeave
<1>3. CASE Leaving(k) /\ ~Present(k)
  <2>1. InstanceName(k) \in Names
    BY DEF InstanceName
  <2>2. PICK j \in Keys : InstanceName(j) = InstanceName(k) /\ InsertInstance(j)
    BY <1>1, <1>3, <2>1, Appears DEF Present, CallInv
  <2>3. j = k
    BY <1>1, <2>2 DEF Sole
  <2>4. QED
    BY <1>3, <2>2, <2>3 DEF Leaving, InsertInstance, At
<1>4. CASE Leaving(k) /\ Present(k)
  <2>1. work[k].pc = "finalize" /\ Swallowed(k)
    BY <1>1, <1>4 DEF Covered
  <2>2. work'[k].pc = "finalize" /\ vms'[k] = vms[k]
    BY <1>1, <1>4, <2>1, StaysLeaving
  <2>3. QED
    BY <2>1, <2>2 DEF Swallowed
<1>5. QED
  BY <1>2, <1>3, <1>4

\* Where every status write is a new version, some object that is not about to
\* go answers for every instance.
LEMMA AnsweredNext ==
  ASSUME CallInv, Polled, OfInstance, Answered, [Next]_vars
  PROVE  Answered'
<1>1. SUFFICES ASSUME ~NoopElided, NEW n \in Names, instances'[n] # None
               PROVE  \E k \in Keys : InstanceName(k) = n /\ Holds(k)' /\ ~Leaving(k)'
  BY DEF Answered, InstanceName
<1>2. Held'
  BY CallNext DEF CallInv
<1>3. CASE instances[n] = None
  <2>1. PICK k \in Keys : /\ InstanceName(k) = n /\ InsertInstance(k)
                          /\ CanGenerate /\ (Await(k, newSSHKeypair) \/ Failed(k))
    BY <1>1, <1>3, Appears DEF CallInv
  <2>2. work[k].flow = "ensure" /\ work[k].pc = "insert"
    BY <2>1 DEF InsertInstance, At, CallInv, Locals
  <2>3. work'[k].flow = "ensure" /\ work'[k].pc \in {"await", "report"}
    BY <2>1, <2>2, SetLocals DEF CallInv, Failed
  <2>4. Holds(k)' /\ ~Leaving(k)'
    BY <1>2, <2>3 DEF Held, Leaving
  <2>5. QED
    BY <2>1, <2>4
<1>4. CASE instances[n] # None
  <2>1. PICK k \in Keys : InstanceName(k) = n /\ Holds(k) /\ ~Leaving(k)
    BY <1>1, <1>4 DEF Answered
  <2>2. Holds(k)'
    BY <2>1, LosesFinalizer
  <2>3. ~Leaving(k)'
    BY <1>1, <2>1, ComesToLeave DEF Present
  <2>4. QED
    BY <2>1, <2>2, <2>3
<1>5. QED
  BY <1>3, <1>4

\* An operation is one that was there, or one that a call asks for.
LEMMA OperationComesBy ==
  ASSUME TypeOK, Polled, [Next]_vars, NEW n \in Names, NEW i \in DOMAIN ops'[n]
  PROVE  \/ \E j \in DOMAIN ops[n] : ops'[n][i].kind = ops[n][j].kind
         \/ \E k \in Keys : /\ InstanceName(k) = n
                            /\ \E kind, p, w : /\ Asks(k, kind, p, w)
                                                /\ ops'[n][i].kind = kind
<1>1. CASE SameButWaiters(ops[n], ops'[n])
  BY <1>1 DEF SameButWaiters
<1>2. CASE CompleteOperation(n) \/ FailOperation(n)
  <2>1. ops'[n] = Tail(ops[n]) /\ ops[n] # <<>>
    BY <1>2, Ended
  <2>2. QED
    BY <2>1, Shrunk
<1>3. ASSUME NEW k \in Keys, InstanceName(k) = n,
             NEW kind, NEW p, NEW w, Asks(k, kind, p, w)
      PROVE  \/ \E j \in DOMAIN ops[n] : ops'[n][i].kind = ops[n][j].kind
             \/ ops'[n][i].kind = kind
  <2>1. PICK last \in Nat :
          Grown(n, last, [kind |-> kind, key |-> p, waiter |-> w])
    BY <1>3, Accepted DEF Asks
  <2>2. QED
    BY <2>1 DEF Grown
<1>4. QED
  BY <1>1, <1>2, <1>3, OperationsNext

\* A deletion under way is one of an object that is not about to go.
LEMMA DoomedNext ==
  ASSUME CallInv, Polled, OfInstance, Doomed, [Next]_vars
  PROVE  Doomed'
<1>1. SUFFICES ASSUME ~NoopElided, NEW n \in Names, NEW i \in DOMAIN ops'[n],
                      ops'[n][i].kind = "delete"
               PROVE  \E k \in Keys : /\ InstanceName(k) = n
                                      /\ Holds(k)' /\ vms'[k].deleting /\ ~Leaving(k)'
  BY DEF Doomed, InstanceName
<1>2. Held'
  BY CallNext DEF CallInv
<1>3. CASE \E j \in DOMAIN ops[n] : ops[n][j].kind = "delete"
  <2>1. PICK k \in Keys : /\ InstanceName(k) = n
                          /\ Holds(k) /\ vms[k].deleting /\ ~Leaving(k)
    BY <1>1, <1>3 DEF Doomed
  <2>2. Holds(k)'
    BY <2>1, LosesFinalizer
  <2>3. vms'[k].deleting
    BY <2>1, <2>2, SameIncarnation DEF Holds
  <2>4. ~Leaving(k)'
    <3>1. SUFFICES ASSUME Leaving(k)' PROVE FALSE
      OBVIOUS
    <3>2. instances'[n] = None
      BY <1>1, <2>1, <3>1, ComesToLeave DEF Present
    <3>3. ops'[n] = <<>>
      BY <3>2, OfInstanceNext DEF OfInstance, CallInv
    <3>4. QED
      BY <1>1, <3>3
  <2>5. QED
    BY <2>1, <2>2, <2>3, <2>4
<1>4. CASE ~\E j \in DOMAIN ops[n] : ops[n][j].kind = "delete"
  <2>1. PICK k \in Keys : /\ InstanceName(k) = n
                          /\ \E p, w : Asks(k, "delete", p, w)
    BY <1>1, <1>4, OperationComesBy DEF CallInv
  <2>2. DeleteInstance(k) /\ (Failed(k) \/ \E p : Await(k, p))
    BY <2>1 DEF Asks
  <2>3. work[k].flow = "delete"
    BY <2>2 DEF DeleteInstance, At, CallInv, Locals
  <2>4. /\ work'[k].flow = "delete"
        /\ \/ work'[k].pc = "await" /\ work'[k].result = "pending"
           \/ work'[k].pc = "report"
    BY <2>2, <2>3, SetLocals DEF CallInv, Failed
  <2>5. Holds(k)' /\ vms'[k].deleting /\ ~Leaving(k)'
    BY <1>2, <2>4 DEF Held, Leaving
  <2>6. QED
    BY <2>1, <2>5
<1>5. QED
  BY <1>3, <1>4

-----------------------------------------------------------------------------
(* The inductive invariant and what follows from it.                       *)

LEMMA FinalizerInit == Init => FinalizerInv
<1>1. ASSUME Init PROVE FinalizerInv
  <2>1. CallInv
    BY <1>1, CallInit
  <2>2. /\ \A k \in Keys : work[k] = Idle
        /\ \A n \in Names : instances[n] = None /\ ops[n] = <<>>
    BY <1>1 DEF Init
  <2>3. Polled /\ OfInstance
    BY <2>2 DEF Polled, OfInstance
  <2>4. Covered /\ Answered /\ Doomed
    BY <2>2 DEF Covered, Answered, Doomed, Leaving, Idle
  <2>5. Awaited
    BY <2>2 DEF Awaited, Idle
  <2>6. QED
    BY <2>1, <2>3, <2>4, <2>5 DEF FinalizerInv, CallInv
<1>2. QED
  BY <1>1

LEMMA FinalizerNext == FinalizerInv /\ [Next]_vars => FinalizerInv'
<1>1. ASSUME FinalizerInv, [Next]_vars PROVE FinalizerInv'
  <2>1. CallInv /\ Polled /\ Awaited /\ OfInstance /\ Covered /\ Answered /\ Doomed
    BY <1>1 DEF FinalizerInv, CallInv
  <2>2. CallInv'
    BY <1>1, <2>1, CallNext
  <2>3. Polled' /\ OfInstance'
    BY <1>1, <2>1, PolledNext, OfInstanceNext DEF CallInv
  <2>4. Covered' /\ Answered' /\ Doomed'
    BY <1>1, <2>1, CoveredNext, AnsweredNext, DoomedNext
  <2>5. Awaited'
    BY <1>1, <2>1, AwaitedNext DEF CallInv
  <2>6. QED
    BY <2>2, <2>3, <2>4, <2>5 DEF FinalizerInv, CallInv
<1>2. QED
  BY <1>1

\* Calls, operations and objects stay in step, whatever fails, is lost or dies
\* between two calls of reconcile's.
THEOREM FinalizerInvariant == Spec => []FinalizerInv
BY FinalizerInit, FinalizerNext, PTL DEF Spec

\* A call that polls an operation polls one that GCE has still to carry out, also
\* where names are shared and calls died: what waitForOperation waits for comes.
THEOREM NoCallWaitsInVain == Spec => []Awaited
<1>1. FinalizerInv => Awaited
  BY DEF FinalizerInv
<1>2. QED
  BY <1>1, FinalizerInvariant, PTL

\* Where every status write makes a new version of the object, no GCE instance
\* outlives the objects of its name: deleteVM is done before the finalizer goes.
THEOREM InstancesDoNotLeak == ~NoopElided => (Spec => []NoLeak)
<1>1. SUFFICES ASSUME ~NoopElided PROVE Spec => []NoLeak
  OBVIOUS
<1>2. FinalizerInv => NoLeak
  BY <1>1 DEF FinalizerInv, Answered, NoLeak
<1>3. QED
  BY <1>2, FinalizerInvariant, PTL

\* Where an object has its name to itself, reconcile takes the finalizer off
\* only when the instance is gone, or when handleError wrote a deletion error
\* that the status carried already.
THEOREM FinalizerGoesLast == Spec => FinalizerCovers
<1> DEFINE A == \A k \in Keys : Sole(k) /\ Holds(k) /\ ~Holds(k)' =>
                  ~Present(k) \/ Swallowed(k)
<1>1. ASSUME FinalizerInv, [Next]_vars PROVE A
  <2>1. SUFFICES ASSUME NEW k \in Keys, Sole(k), Holds(k), ~Holds(k)'
                 PROVE  ~Present(k) \/ Swallowed(k)
    OBVIOUS
  <2>2. Leaving(k)
    BY <1>1, <2>1, LosesFinalizer DEF FinalizerInv, CallInv
  <2>3. QED
    BY <1>1, <2>1, <2>2 DEF FinalizerInv, Covered
<1>2. QED
  BY <1>1, FinalizerInvariant, PTL DEF Spec, FinalizerCovers

-----------------------------------------------------------------------------
(* Objects live as ObjectLife says.                                        *)

\* What ObjectLife sees of a stored object, now and in the next state.
LEMMA SeenObject ==
  ASSUME TypeOK, NEW k \in Keys, vms[k] # None
  PROVE  /\ vms[k] \in VM
         /\ Seen(k) = [uid |-> vms[k].uid, deleting |-> vms[k].deleting,
                       finalizers |-> vms[k].finalizers]
         /\ Seen(k) # None
<1>1. vms[k] \in VM
  BY DEF TypeOK
<1>2. QED
  BY <1>1, NoneAssumption DEF Seen, VM

LEMMA SeenNext ==
  ASSUME TypeOK', NEW k \in Keys, vms'[k] # None
  PROVE  Seen(k)' = [uid |-> vms'[k].uid, deleting |-> vms'[k].deleting,
                     finalizers |-> vms'[k].finalizers]
BY DEF Seen

\* An object that loses finalizers.
LEMMA Loses ==
  ASSUME TypeOK, TypeOK', NEW k \in Keys, vms[k] # None,
         NEW f \in SUBSET vms[k].finalizers,
         vms'[k] = IF vms[k].deleting /\ f = {} THEN None
                   ELSE [vms[k] EXCEPT !.finalizers = f]
  PROVE  Life(k)!Next
<1>1. CASE vms[k].deleting /\ f = {}
  <2>1. Seen(k)' = None
    BY <1>1 DEF Seen
  <2>2. Seen(k) # None /\ Seen(k).deleting
    BY <1>1, SeenObject
  <2>3. QED
    BY <2>1, <2>2 DEF Life!Next, Life!Gone, Seen
<1>2. CASE ~(vms[k].deleting /\ f = {})
  <2> DEFINE vm == [vms[k] EXCEPT !.finalizers = f]
  <2>1. vms[k] \in VM /\ f \in SUBSET Finalizers
    BY SeenObject DEF VM
  <2>2. vms'[k] = vm /\ vm \in VM
    BY <1>2, <2>1 DEF VM
  <2>3. /\ vm.uid = vms[k].uid /\ vm.deleting = vms[k].deleting
        /\ vm.finalizers = f
    BY <2>1 DEF VM
  <2>4. vms'[k] # None
    BY <2>2, NoneAssumption
  <2>5. Seen(k)' = [uid |-> vms[k].uid, deleting |-> vms[k].deleting, finalizers |-> f]
    BY <2>2, <2>3, <2>4, SeenNext
  <2>6. Seen(k)' = [Seen(k) EXCEPT !.finalizers = f]
    BY <2>5, SeenObject
  <2>7. Seen(k) # None /\ (Seen(k).deleting => f # {} /\ f \subseteq Seen(k).finalizers)
    BY <1>2, SeenObject
  <2>8. Life(k)!Written
    BY <2>1, <2>6, <2>7 DEF Life!Written, Seen
  <2>9. QED
    BY <2>8 DEF Life!Next
<1>3. QED
  BY <1>1, <1>2

\* An object whose status changes.
LEMMA StatusUnseen ==
  ASSUME TypeOK, TypeOK', NEW k \in Keys, vms[k] # None, NEW e \in Error,
         vms'[k] = [vms[k] EXCEPT !.status = e]
  PROVE  UNCHANGED Seen(k)
<1>1. vms[k] \in VM
  BY SeenObject
<1>2. vms'[k] \in VM
  BY <1>1 DEF VM
<1>3. vms'[k] # None
  BY <1>2, NoneAssumption
<1>4. /\ vms'[k].uid = vms[k].uid /\ vms'[k].deleting = vms[k].deleting
      /\ vms'[k].finalizers = vms[k].finalizers
  BY <1>1 DEF VM
<1>5. QED
  BY <1>3, <1>4, SeenObject, SeenNext

\* The controller writes the status, and takes our finalizer off.
LEMMA ReconcileLives ==
  ASSUME FinalizerInv, TypeOK', NEW k \in Keys, Reconcile(k)
  PROVE  /\ \A j \in Keys \ {k} : vms'[j] = vms[j]
         /\ Life(k)!Next \/ UNCHANGED Seen(k)
<1> USE DEF FinalizerInv
<1>1. \A j \in Keys \ {k} : vms'[j] = vms[j]
  BY StepsKeepObjects
<1>2. CASE RemoveFinalizer(k)
  <2>1. vms[k] # None /\ vms[k] \in VM
    BY <1>2, SeenObject DEF Held, Holds, RemoveFinalizer, At
  <2>2. CASE vms' = vms
    BY <2>2 DEF Seen
  <2>3. CASE vms' = [vms EXCEPT ![k] = WithoutFinalizer(@)]
    <3> DEFINE left == vms[k].finalizers \ {VirtualMachineFinalizer}
    <3>1. vms'[k] = IF vms[k].deleting /\ left = {} THEN None
                    ELSE [vms[k] EXCEPT !.finalizers = left]
      BY <2>3 DEF WithoutFinalizer, TypeOK
    <3>2. left \in SUBSET vms[k].finalizers
      OBVIOUS
    <3> HIDE DEF left
    <3>3. QED
      BY <1>1, <2>1, <3>1, <3>2, Loses
  <2>4. QED
    BY <1>1, <1>2, <2>2, <2>3 DEF RemoveFinalizer
<1>3. CASE HandleError(k)
  <2>1. vms[k] # None /\ ErrorOf(k, work[k].msg) \in Error
    BY <1>3 DEF TypeOK, Held, Holds, Work, Locals, HandleError, At, ErrorOf, Error
  <2>2. CASE vms' = vms
    BY <1>1, <2>2 DEF Seen
  <2>3. CASE vms' = [vms EXCEPT ![k].status = ErrorOf(k, work[k].msg)]
    <3>1. vms'[k] = [vms[k] EXCEPT !.status = ErrorOf(k, work[k].msg)]
      BY <2>3 DEF TypeOK
    <3>2. QED
      BY <1>1, <2>1, <3>1, StatusUnseen
  <2>4. QED
    BY <1>3, <2>2, <2>3 DEF HandleError
<1>4. CASE ~RemoveFinalizer(k) /\ ~HandleError(k)
  <2>1. vms' = vms
    BY <1>4 DEF Reconcile, GetVM, FindDoomed, DeleteInstance, FindInstance,
                CheckSecret, InsertInstance, RefreshKey, WaitForOperation,
                LocateInstance, PublishSecret, api
  <2>2. QED
    BY <2>1 DEF Seen
<1>5. QED
  BY <1>2, <1>3, <1>4

\* Users create and delete, other controllers take their finalizers off.
LEMMA WritesLive ==
  ASSUME FinalizerInv, TypeOK', NEW k \in Keys,
         DeleteVM(k) \/ UpdateVM(k) \/ DropOtherFinalizers(k)
           \/ \E f \in SUBSET OtherFinalizers : CreateVM(k, f)
  PROVE  /\ \A j \in Keys \ {k} : vms'[j] = vms[j]
         /\ Life(k)!Next \/ UNCHANGED Seen(k)
<1> USE DEF FinalizerInv
<1>1. \A j \in Keys \ {k} : vms'[j] = vms[j]
  BY WritesKeepObjects
<1>2. ASSUME NEW f \in SUBSET OtherFinalizers, CreateVM(k, f)
      PROVE  Life(k)!Next
  <2> DEFINE g == f \cup {VirtualMachineFinalizer}
             u == created'[k]
             vm == [uid |-> u, deleting |-> FALSE, finalizers |-> g, status |-> None]
  <2>1. vms'[k] = vm
    BY <1>2 DEF CreateVM, TypeOK, mutate
  <2>2. u \in 1 .. MaxUid
    BY <1>2, BoundsAssumption DEF CreateVM, TypeOK
  <2>3. f \in SUBSET Finalizers /\ g \in SUBSET Finalizers
    BY DEF Finalizers
  <2> HIDE DEF u, g
  <2>4. vm \in VM
    BY <2>2, <2>3 DEF VM
  <2>5. vms'[k] # None
    BY <2>1, <2>4, NoneAssumption
  <2>6. Seen(k)' = [uid |-> u, deleting |-> FALSE, finalizers |-> g]
    BY <2>1, <2>5, SeenNext
  <2>7. Seen(k) = None
    BY <1>2 DEF CreateVM, Seen
  <2>8. Life(k)!Born
    BY <2>2, <2>3, <2>6, <2>7 DEF Life!Born, Seen, g
  <2>9. QED
    BY <2>8 DEF Life!Next
<1>3. CASE DeleteVM(k)
  <2>1. vms[k] # None /\ vms[k] \in VM
    BY <1>3, SeenObject DEF DeleteVM
  <2>2. CASE vms[k].finalizers = {}
    <3>1. vms'[k] = None
      BY <1>3, <2>2 DEF DeleteVM, TypeOK
    <3>2. Seen(k)' = None
      BY <3>1 DEF Seen
    <3>3. Seen(k) # None /\ Seen(k).finalizers = {}
      BY <2>1, <2>2, SeenObject
    <3>4. Life(k)!Gone
      BY <3>2, <3>3 DEF Life!Gone, Seen
    <3>5. QED
      BY <1>1, <3>4 DEF Life!Next
  <2>3. CASE vms[k].finalizers # {}
    <3>1. PICK t : t = TRUE
      OBVIOUS
    <3> DEFINE vm == [vms[k] EXCEPT !.deleting = t]
    <3>2. vms'[k] = vm
      BY <1>3, <2>3, <3>1 DEF DeleteVM, TypeOK
    <3>3. vm \in VM
      BY <2>1, <3>1, Zenon DEF VM
    <3>4. vms'[k] # None
      BY <3>2, <3>3, NoneAssumption
    <3>5. /\ vm.uid = vms[k].uid /\ vm.deleting = t
          /\ vm.finalizers = vms[k].finalizers
      BY <2>1 DEF VM
    <3>6. Seen(k)' = [uid |-> vms[k].uid, deleting |-> t,
                      finalizers |-> vms[k].finalizers]
      BY <3>2, <3>4, <3>5, SeenNext
    <3>7. Seen(k)' = [Seen(k) EXCEPT !.deleting = t]
      BY <2>1, <3>6, SeenObject
    <3>8. Seen(k)' = [Seen(k) EXCEPT !.deleting = TRUE]
      BY <3>1, <3>7, Zenon
    <3>9. Seen(k) # None /\ Seen(k).finalizers # {}
      BY <2>1, <2>3, SeenObject
    <3>10. Life(k)!Marked
      BY <3>8, <3>9 DEF Life!Marked, Seen
    <3>11. QED
      BY <1>1, <3>10 DEF Life!Next
  <2>4. QED
    BY <2>2, <2>3
<1>4. CASE DropOtherFinalizers(k)
  <2> DEFINE left == vms[k].finalizers \ OtherFinalizers
  <2>1. vms[k] # None /\ vms[k].deleting
    BY <1>4 DEF DropOtherFinalizers
  <2>2. vms'[k] = IF left = {} THEN None ELSE [vms[k] EXCEPT !.finalizers = left]
    BY <1>4 DEF DropOtherFinalizers, TypeOK
  <2>3. left \in SUBSET vms[k].finalizers
    OBVIOUS
  <2> HIDE DEF left
  <2>4. QED
    BY <1>1, <2>1, <2>2, <2>3, Loses
<1>5. CASE UpdateVM(k)
  BY <1>1, <1>5 DEF UpdateVM, api, Seen
<1>6. QED
  BY <1>1, <1>2, <1>3, <1>4, <1>5

\* Whatever fails or restarts, the controller and those who write to its objects
\* take only steps that ObjectLife allows: what Admission keeps is all that is
\* assumed of them.
THEOREM ControllerImplementsObjectLife == Spec => ObjectLives
<1> DEFINE A == \A k \in Keys : Life(k)!Next \/ UNCHANGED Seen(k)
<1>1. FinalizerInv /\ [Next]_vars => A
  <2> SUFFICES ASSUME FinalizerInv, [Next]_vars, NEW k \in Keys
               PROVE  Life(k)!Next \/ UNCHANGED Seen(k)
    OBVIOUS
  <2>1. TypeOK'
    BY FinalizerNext DEF FinalizerInv
  <2>2. ASSUME vms'[k] = vms[k] PROVE UNCHANGED Seen(k)
    BY <2>2 DEF Seen
  <2>3. ASSUME NEW j \in Keys, Reconcile(j) PROVE Life(k)!Next \/ UNCHANGED Seen(k)
    BY <2>1, <2>2, <2>3, ReconcileLives
  <2>4. ASSUME NEW j \in Keys,
               DeleteVM(j) \/ UpdateVM(j) \/ DropOtherFinalizers(j)
                 \/ \E f \in SUBSET OtherFinalizers : CreateVM(j, f)
        PROVE  Life(k)!Next \/ UNCHANGED Seen(k)
    BY <2>1, <2>2, <2>4, WritesLive
  <2>5. ASSUME UNCHANGED vms PROVE UNCHANGED Seen(k)
    BY <2>5 DEF Seen
  <2>6. QED
    BY <2>3, <2>4, <2>5
       DEF Next, vars, Begin, Enqueue, DeleteSecret, CollectSecret, Restart,
           CompleteOperation, FailOperation, api
<1>2. QED
  BY <1>1, FinalizerInvariant, PTL DEF Spec, ObjectLives

=============================================================================
