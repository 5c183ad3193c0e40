# TLA+ models of ci-vm-operator

`ci-vm-operator` keeps virtual machines in Google Compute Engine in step with
`VirtualMachine` objects in a Kubernetes API server. This directory holds TLA+
models of it, configurations that check them with TLC, and proofs that TLAPS
checks. Source paths below are relative to the repository (`src/`).

## The system

| Part | State it keeps | Operations | Talks to |
|---|---|---|---|
| **Reconcile loop** (`pkg/controller/controller.go`, `gce.go`) | nothing but the local variables of a running call | `reconcile`, `ensureVM`, `createNewVM`, `refreshSSHKey`, `deleteVM`, `runVMOpPollSSH`, `waitForOperation`, `checkOp`, `handleError` | API server (objects, secrets), GCE (instances, operations) |
| **Work queue** (`workqueue.Type` under a delaying and a rate limiting queue, vendored) | `queue`, `dirty`, `processing`, the heap of delayed keys, failures per key | `Add`, `Get`, `Done`, `AddRateLimited`, `Forget`, `ShutDown` | event handlers put keys in, ten workers take them out |
| **Workers** (`Run`, `worker`, `processNextWorkItem`, `handleErr`) | – | take a key, reconcile it, retry it up to 15 times, drop it | queue, reconcile loop |
| **Informer, lister** (generated, over the vendored reflector, `DeltaFIFO` and shared informer) | a cache of objects, the deltas still to be handled, pending notifications | list, watch, list again when a watch fails, resync every 30 s | typed client; event handlers `add`, `update`, `delete` |
| **SSH key pair and probe** (`secrets.go`) | – | `newSSHKeypair`, `pollForSSHConnection` | the instance |
| **Admission controller** (`pkg/admission-controller`) | – | `handle`, `validate` (spec is immutable), `mutate` (insert the finalizer) | API server |
| **Process** (`cmd/ci-vm-operator`) | the channels `c` and `stop`, what the factory knows | the steps of `main`, first and second signal | all of the above |
| **Configuration** (`config.go`) | project, zone, numbers of the SSH probe | read once | – |
| **Metrics** | one gauge | registered once | – |
| **Generated client, deep copies, fakes** | – | requests | API server |

How they interact: a user writes an object; the API server asks the admission
controller (`mutate` puts our finalizer on every new object), stores it and
tells the informer; a handler puts the object's key in the queue; a worker takes
it and `reconcile` reads the object *from the API server* (never from the cache)
and drives GCE. `ensureVM` inserts the instance with a fresh SSH key, waits for
GCE's operation and stores the private key in a secret. `deleteVM` deletes the
instance, waits, and `reconcile` then removes the finalizer, which lets the API
server remove the object. Errors end the call, and `handleErr` puts the key back
after a delay.

What is hard about it:

* every remote call may fail, be applied with its answer lost, or be the last
  one before the process dies: nothing is persisted but what is in the API
  server and GCE;
* users, other controllers, the garbage collector and GCE act between any two
  calls, and one call of `reconcile` may wait ten minutes with an object in hand
  that it then writes back;
* the name of an instance is the name of the object *without its namespace*;
* failures are recorded by writes to the very object whose version guards the
  last step of a deletion;
* ten workers share one queue to which a key may come back while it is worked on;
* what the controller hears of objects goes through a list that may be stale, a
  watch that may fail, a queue that merges deltas and a resync that competes with
  it;
* a process is told to stop while it starts, waits for GCE or for a VM.

What makes the parts correct:

* *reconcile loop*: an instance never outlives the objects it is for
  (`NoLeak`, `FinalizerCovers`); a published key opens the instance
  (`SecretOpensInstance`); a late or repeated deletion never hits the instance of
  a successor (`LiveInstanceKept`); secrets are only made for objects that exist
  (`SecretForPresentObject`); seen from its user an object has one instance and
  one key until it is deleted, and leaves nothing to the next object of its name
  (`MachinesLive`); creation and deletion complete once failures end
  (`CreationCompletes`, `DeletionCompletes`); and, which findings 2 and 3 show broken:
  a secret opens its instance also where names are shared
  (`SecretOpensInstanceAnywhere`), and it is collected (`SecretsCollected`);
* *work queue and workers*: no key is worked on by two workers at a time, no key
  that was added is lost, and a worker is awake while there is work;
* *admission*: every object starts with the finalizer (`ObjectLives`), the spec
  of an object never changes, whatever else is being written at the same time
  (`SpecKept`), and it decodes (`StoredSpecsDecode`); what does not decode, because
  its unreviewed status does not, is not written over (`UnreadableKept`);
* *informer*: no write is lost on its way to the work queue (`NothingMissed`,
  `ChangesAreSeen`), the cache does not go back (`NeverBackwards`), is filled
  when it says so (`SyncedHoldsFirstList`) and is going to show what the watch
  reported (`CacheIsRight`), and what is in it is enqueued again and again
  (`CachedReturn`);
* *process*: it stops when told to (`FirstSignalStops`, `SecondSignalEnds`), the
  first signal is not lost (`FirstSignalKept`) and spares the work under way
  (`FirstSignalSpares`), both parts of `IInv`; its goroutines return after it
  (`GoroutinesReturn`) and not before (`OnlyStopEnds`, a part of `IInv`, too), and it
  waits for nothing that nobody does (`CacheFills`);
* *waits*: they end when their timeouts say (`WaitsEnd`).

## Modules

| Module | What it is |
|---|---|
| `VMController` | The reconcile loop with its environment. State, actions, properties, inductive invariant. |
| `MCVMController` | Values for TLC: which kinds the cluster serves. |
| `VMControllerProofs` | What finalizers and leaks rest on, proved of `VMController`, and that it implements `ObjectLife`. |
| `SecretProofs` | The rest of the inductive invariant, proved: instances, key pairs and secrets; and that `VMController` implements `MachineLife`. |
| `MachineLife` | Abstract: what an object promises its user. One instance and one key until it is deleted, and nothing left for the next object of the name. |
| `MachineLifeProofs` | That what `MachineLife` allows keeps this promise. |
| `KeyedQueue` | Abstract: what `VMController` assumes of its queue and `WorkQueue` keeps. Keys are pending or active; nobody gets a key that is active. |
| `WorkQueue` | The work queue, its workers, the retries and the shutdown. |
| `MCWorkQueue` | Symmetry for TLC. |
| `WorkQueueProofs` | The theorems about `WorkQueue` and their proofs. |
| `ObjectLife` | Abstract: what the controller relies on in the life of an object. It is born with our finalizer, a deletion is never undone, it stays while a finalizer is there. |
| `Admission` | The admission controller in the API server's write path, with the requests of several clients under way. |
| `MCAdmission` | Symmetry for TLC. |
| `AdmissionProofs` | The theorems about `Admission` and their proofs. |
| `Informer` | From a write in the API server to a key of the work queue: reflector, `DeltaFIFO`, cache, handlers. |
| `MCInformer` | `Informer` for TLC. |
| `InformerProofs` | The theorems about `Informer` and their proofs. |
| `Waits` | One worker and the time it spends: `waitForOperation`, `pollForSSHConnection`. |
| `Process` | `main`, signals, and the goroutines they stop; extends `Waits`. |
| `MCProcess` | Two configurations for TLC. |
| `ProcessProofs` | The theorems about `Process` and `Waits` and their proofs. |

`VMController` and `WorkQueue` meet in `KeyedQueue`. `VMController` *assumes* it: the
guard of `Begin` gives a key to a worker only while no other has it, and nothing
is checked there about that. `WorkQueue` *implements* it (`KeysHandedOutOnce`,
checked and proved; pending is `dirty`, active is `processing`), so neither has to
be explored in the states of the other.

`VMController` and `Admission` meet in `ObjectLife`
(`ObjectLives` in both, checked and proved): the one has all that happens to
instances and secrets and the other all that can happen to a write, and both say
the same of when an object is there, marked, and held by which finalizers.

`VMController` implements `MachineLife` (`MachinesLive`, checked and proved): what
takes `ensureVM`, `deleteVM` and GCE many calls and operations, any of which may
fail, be repeated or outlive the call that made it, is for the user one of eight
steps on three things, the object, the key that opens its instance and the secret.
`Booted` and `Rekeyed` are the acceptance of an insertion and the end of a
`SetMetadata`, `Stopped` is the end of a deletion or the failure of an insertion,
`Published` is `Secrets.Create`; every other step of GCE and of `reconcile` but the
removal of the finalizer (`Removed`) is a stutter. `Clean` (no object goes before
its instance) is `~NoopElided`: it is what finding 1 costs.

`Process` is composed with `Waits`: the worker of `Waits` is one of the goroutines
that `Controller.Run` starts and the first signal stops, with its
`shuttingDown`. `WorkQueue` has the other half of the shutdown (many workers, the
channel, the waiting loop) and leaves out what a worker waits for. `Informer`
ends where `VMController` and `WorkQueue` begin: its `enqueue` is their `Enqueue`
and `enqueue`, its `HasSynced` their `CacheSynced`.

### VMController and the code

A step of the model is one remote call of the code (`pc` in `work[k]` names the
call that comes next), because that is where others act and where a call may
fail. What happens between two calls is part of the step before.

| Model | Code |
|---|---|
| `vms[k]`, `secrets[k]`, `created[k]` | objects and secrets in the API server; `uid` is the incarnation |
| `instances[n]`, `ops[n]` | GCE: the authorized key of each instance, and the operations it has accepted and not finished |
| `work[k]` | the local variables of the `reconcile` call for `k`: `current` says that the object it read still is the stored version |
| `pending` | keys the queue still has to hand out |
| `Begin`, `GetVM`, `RemoveFinalizer` | `processNextWorkItem` and `reconcile` |
| `FindDoomed`, `DeleteInstance` | `deleteVM` |
| `FindInstance`, `CheckSecret`, `InsertInstance`, `RefreshKey` | `ensureVM`, `createNewVM`, `refreshSSHKey` |
| `WaitForOperation` | `waitForOperation` and `checkOp` |
| `LocateInstance`, `PublishSecret` | the rest of `runVMOpPollSSH` |
| `HandleError` | `handleError` |
| `ReturnNil`, `ReturnErr` | `handleErr` and `Done` |
| `Enqueue` | the handlers `add`, `update`, `delete`, and the resync |
| `mutate` in `CreateVM` | `mutate` of the admission controller |
| `CompleteOperation`, `FailOperation` | GCE (external) |
| `DeleteVM`, `UpdateVM`, `DropOtherFinalizers`, `DeleteSecret`, `CollectSecret` | users, other controllers and the garbage collector (external) |
| `Restart` | the process dies and is started again |

Two details of the code carry most of the behaviour:

* `ensureVM` tells "not found" from other errors by the type assertion on
  `*googleapi.Error`: an error that is no answer of GCE (a broken connection)
  falls through to `createNewVM`. `deleteVM` has the same assertion but returns
  such errors. `FindInstance` has the extra disjunct, `FindDoomed` has not.
* `handleError` returns the error of `UpdateStatus` only. In `ensureVM` this ends
  the call with success (the next resync tries again); in `deleteVM` it lets
  `reconcile` go on to remove the finalizer with the object it read. Usually
  the status write has made that version outdated and the `Update` is refused.

### WorkQueue and the code

A step is what happens under one lock, or one operation on a channel: between
two of them any other goroutine may run.

| Model | Code |
|---|---|
| `queue`, `dirty`, `processing`, `shuttingDown` | the fields of `workqueue.Type` |
| `at[w]`, `key[w]` | where a worker goroutine is, and the key it got |
| `Add`, `Get`, `Done`, `ShutDown` | the methods, each under the lock of `cond` |
| `parked`, `woken`, `Signalled` | the goroutines in `cond.Wait`; `Signal` wakes one of them, which then has to take the lock like everybody else and may find the queue empty |
| `failures`, `Forget`, the count in `AddRateLimited` | `ItemExponentialFailureRateLimiter`, under its own lock |
| `Succeed`, `Fail` | `reconcile` returns, `handleErr` decides |
| `channel`, `AddAfter` | `waitingForAddCh` and the `select` that sends to it or sees the closed `stopCh` |
| `delayed`, `loop`, `LoopTop` ... `LoopDrained`, `Fire`, `Receive` | the heap and the iteration of `waitingLoop`: check for the shutdown, add what is ready, select, receive until the channel is empty |
| `run`, `StartWorkers`, `CloseStopCh` | `Run` with its deferred `ShutDown` |
| `StartWorker` | `JitterUntil` looks at `stopCh` before it calls `worker` |
| `Signal` | the first signal closes `stop` in `cmd/ci-vm-operator` |

Time is left out: a delay ends at some step (`Fire`), or before the entry is
even received (the second case of `Receive`). How long it is, the longer of an
exponential delay and that of a token bucket (`NewMaxOfRateLimiter`), is left
open, so nothing is said here about the sequence of delays that the comment at
`maxRetries` gives for the exponential limiter alone. A delay is at least 5 ms,
so the branch of `AddAfter` for no delay is never taken. A panic in `reconcile`
ends the process (`HandleCrash` panics again) and with it the queue, so it has
no action here; `Restart` of `VMController` stands for it.

### Admission and the code

A step is a request that a client sends, a review, or a step of the API server
on the way of a request to storage: the requests of several clients are under
way at a time, and each is reviewed against the object as it was when it was read.

| Model | Code |
|---|---|
| `request[c]` | a request: what the client sent, where it is, the object the API server has read for it (the `OldObject` of the review) |
| `handle` | `handle` and the path it is registered with in `deploy/admission-controller-registration.yaml`: `mutate` for CREATE, `validate` for UPDATE |
| `deserialize` | `deserialize`: the whole object decodes, its spec (`Malformed` are the specs that do not) and its status (`readable`) |
| `mutate` | `mutate` with the patch it answers; an object that does not decode is refused |
| `validate` | `validate`: both objects decode, and their specs are equal |
| `Unreviewed` | the server is down, or its handler panicked (`handle` uses the request of a review without looking whether there is one); `failurePolicy: Fail` |
| `Post`, `Put`, `Patch` | `Create`, `Update`, `Patch` of the client; `reconcile` takes the finalizer off with a `Put` |
| `UpdateStatus`, `Delete` | the same of the client, not reviewed: only CREATE and UPDATE of `virtualmachines` are registered, not the status subresource; nor does `deploy/crd.yaml` have a schema, so the status may be anything after it |
| `Create`, `Read`, `Forbidden`, `Write` | the API server (external): read, review, compare with what is stored then, store or read again |

Specs are equal if they decode to equal ones, so two of them stand for all there
is to compare. A new object is stored without the status it was sent with, and no
request but `UpdateStatus` changes one. `validate` lets requests
to the status subresource pass unread, but with the deployed registration it is
never asked about one, so that branch has no step here. Objects created before
the webhooks were registered, or while they were taken out, are out of scope.

### Informer and the code

An object is the number of its last write, its revision. A step is what happens
under the lock of the `DeltaFIFO` or of the indexer, or one call of a handler.
`Pop` holds the lock of the `DeltaFIFO` until `HandleDeltas` has returned
(`Unlocked`), but the indexer changes delta by delta, and readers of it can see
that.

| Model | Code |
|---|---|
| `history`, `Write`, `Erase` | the API server and those who write objects (external) |
| `reflector`, `List`, `WatchEvent`, `WatchFails` | `ListAndWatch` and `watchHandler`; `Listed` and `EventType` are what the typed client's `List` and `Watch` answer |
| `items`, `queue`, `count` | `DeltaFIFO`: `items`, `queue`, `populated` with `initialPopulationCount` |
| `Queued`, `Dedup`, `QueueAction`, `DeleteAction` | `queueActionLocked`, `dedupDeltas`, `Add` and `Update`, `Delete` |
| `Replace`, `Resync` | the methods; `knownObjects` is the indexer |
| `Pop`, `HandleDelta` | `Pop` with `HandleDeltas`, delta by delta |
| `notices`, `Notified` | `processorListener`: `addCh`, the buffer and `run` |
| `add`, `update`, `delete`, `enqueue` | the handlers of `pkg/controller` |
| `HasSynced` | what `WaitForCacheSync` asks in `Run` |

`List(r)` may be of any revision, since `ResourceVersion: "0"` lets the API
server answer from its cache; the watch then begins at that revision. A watch
that is closed, or whose connection is refused, goes on from where it was, which
is no step here; every other failure ends in another list. Left out: objects of
another type, keys that cannot be made, failing stores (the code logs them), and
`syncingListeners`: there is one listener, its period is the one of the resync
timer, which is always started later than the listener computed its next resync,
so `shouldResync` says yes whenever it is asked. A resync that waits for the
lock while the watch fails comes before that failure here. Three variables are
history, for the properties alone: `untold` (written and not enqueued since),
`first` (what is left of the first list) and `listed` (the revision of the last
list). `Coming` says what the cache will show of an object once all that is
queued of it is handled.

### Waits, Process and the code

| Model | Code |
|---|---|
| `main`, `ParseFlags` ... `Go`, `Fatal` | `main`, one step per call that may fail; `logrus.Fatal` ends the process |
| `registered`, `InformerFor`, `Start`, `factory` | the informer factory: an informer is made when it is first asked for, and `Start` runs those it knows then |
| `handled`, `New` | `controller.New`, which asks for the informer and adds the handlers |
| `notified`, `pending`, `channel`, `Kill`, `PassOn` | the runtime and `os/signal` (external), and the channel `c` with its two places |
| `handler`, `closed`, `FirstSignal`, `SecondSignal` | the goroutine that receives from `c`, closes `stop` and then exits |
| `synced`, `run`, `StartWorkers`, `ShutDown` | `Controller.Run` |
| `informer`, `closing`, `PopTests`, `PopWaits`, `PopWakes`, `Close` | the goroutine of the informer in `DeltaFIFO.Pop`, and `Close` |
| `at` | where the worker is in `processNextWorkItem`, `waitForOperation` and `pollForSSHConnection` |
| `Sleep`, `TimesOut`, `Call`, `CheckDone`, `CheckRunning`, `CheckFails` | the loop of `waitForOperation`; `clock` is the time since it began |
| `DialFails`, `DialSucceeds`, `PollFails`, `tries` | the loop of `pollForSSHConnection`; the delay follows a failed dial, also the last |
| `Handshake`, `HandshakeHangs`, `open` | `ssh.NewClientConn` and `Close` |
| `Retry`, `Drop` | `handleErr`: how many retries there are and how long they are delayed is left open; `WorkQueue` counts them |

`main` never gets to its deferred `close(stop)`, because it waits for ever; were
it to return, the second `close` would panic. A private key that `newSSHKeypair`
made always parses, so that error of the poll has no step. A timeout of 0 is no
timeout (`net.DialTimeout`); then the system's own limit applies (`SlowDial`).
The configuration holds natural numbers; a negative one would act like 0 retries
or no delay, or make every dial fail. Scheduling takes no time.

### Assumptions about the environment

* The API server refuses an `Update` or `UpdateStatus` with an outdated
  resourceVersion, removes an object under deletion with its last finalizer, and
  refuses to create a secret that exists. `NoopElided` says whether a write that
  changes nothing leaves the version as it is (it does in etcd-backed servers).
* GCE shows an instance as soon as the insertion is accepted, works off the
  operations of an instance in order, and refuses an insertion of a name in use.
  A call whose answer is lost was applied at once or not at all.
  `FingerprintEnforced` says whether metadata without fingerprint is refused.
* The queue hands out a key only while no worker has it (`KeyedQueue`, implemented
  by `WorkQueue`), and objects are written as `ObjectLife` says (implemented by
  `Admission`).
* Objects decode: `reconcile`'s typed reads of them do not fail for ever. A status
  that somebody else wrote may break that (see the end of Findings).
* Users do not take our finalizer off by hand, and other controllers take theirs
  off only objects under deletion.
* `handleErr` either puts a failed key back or drops it: the model allows both
  at every failure, the code drops after 15.
* The garbage collector collects a secret whose owner is gone only if the kind
  the secret names is served (`ServedKinds`). Collection is an optional step, so
  the safety runs also cover clusters in which it never happens. The liveness
  properties of `reconcile` are about a cluster that serves the kind and a GCE that
  takes metadata without fingerprint; the code's own cluster and documented GCE
  are those of findings 3 and 4, where `CreationCompletes` fails.

### Fairness

`FairSpec` assumes weak fairness of: each key's `Begin` and `Reconcile` (ten
workers in loops, each remote call returns), `Resync` (the informer is created
with a resync period of 30 s in `cmd/ci-vm-operator`, and each resync calls
`update` for every cached object: `CachedReturn` of `Informer`; for an object
that the cache has lost, finding 5, it is not justified), `CompleteOperation`
(GCE ends what it accepted), `DropOtherFinalizers` and `CollectSecret` (other
controllers do their part). It assumes nothing of users and nothing of failures:
these are bounded by `MaxFaults`, so the liveness properties say "once failures
end".

`FairSpec` of `WorkQueue` assumes weak fairness of each worker, of `Run` and of
the steps of `waitingLoop`: a goroutine that can go on does, and `reconcile`
returns. That is an assumption about GCE, the API server and the VMs: calls of
the first two, and the SSH handshake, have no timeout of their own (`Waits`
shows which waits have one). Strong fairness is assumed where a step
can be enabled and disabled again and again:

* `AddAfter(w)`: Go serves the senders blocked on a channel in their order;
* `Receive`: a `select` with several ready cases picks each of them at some time;
* `LoopDrained`: the inner loop receives faster than workers, each of which has
  waited for the network, can send, so it finds the channel empty at some time;
* `Fire(k)`: a key whose delay is over stays ready, and every iteration of the
  loop adds all that are ready.

Nothing is assumed of events, of the first signal, of the sync of the cache, or
of failures: the liveness properties hold even if every reconcile fails.

`FairSpec` of `Informer` assumes weak fairness of `HandleDelta` and of the
handlers, which nothing can disable, and strong fairness of the steps that need
the lock of the `DeltaFIFO` (`List`, `WatchEvent`, `Resync`, `Pop`): `Pop` holds
that lock again and again, and a `sync.Mutex` hands itself to a waiter that
starves. For `List` and `WatchEvent` it also says that the API server answers in
the end. Writes and failures of a watch need not happen.

`FairSpec` of `Process` assumes weak fairness of every goroutine's steps, of
`PassOn` (the runtime) and of `Sync` (the API server can be reached), and that calls
of GCE and dials return. It assumes nothing of signals, of changes of objects
(`Arrive`, `PopWakes`), of `Fatal`, and of a silent VM: `HandshakeHangs` is a step
that may happen and nothing leads out of.

## Runs

Every module has an inductive invariant `IInv` whose first part is its type
invariant `TypeOK`; a run that checks `IInv` checks all its parts.

The runs of `VMController` use six key pairs, enough for a fresh one at every
step (a new pair is one that nothing refers to any more).

| Run | Shows | Bounds |
|---|---|---|
| `reconcile` | `SecretOpensInstance`, `FinalizerCovers`, `SecretForPresentObject` with failures, lost answers and restarts at any step; `ObjectLives`; `DeletionCompletes`, `CreationCompletes` once failures end, if secrets are collected and no fingerprint is demanded | 1 object, 2 incarnations, 2 faults, 2 messages, another finalizer |
| `versioned` | the inductive invariant `IInv`; `MachinesLive`; `NoLeak` and `LiveInstanceKept` hold if every status write makes a new version | the same with 3 faults |
| `queue` | the inductive invariant `IInv` and of its parts `OneWorkerPerKey`, `QueueHasTheWork`, `SleepersNotNeeded`, `RetryIsComing`; `SyncedFirst`; `KeysHandedOutOnce` | 3 workers, 2 keys, 1 retry, a channel of 1 |
| `queue_lives` | `HandedOut`, `Retried`: every dirty key is handed out while a worker runs, every delayed key comes back; `Stops`: worker and waiting loop return after the first signal | 1 worker, 2 keys, 1 retry, a channel of 1 |
| `admission` | the inductive invariant `IInv`, `StoredSpecsDecode`, `SpecKept`, `UnreadableKept` and `ObjectLives` for requests in any order and status writes that nobody reviews | 2 clients, 3 specs (one does not decode), another finalizer, 4 writes |
| `informer` | the inductive invariant `IInv`, `NothingMissed`, `SyncedHoldsFirstList`, `CacheIsRight`, `NeverBackwards`; `ChangesAreSeen`, `CachedReturn` | 2 objects, 3 writes, 2 lists |
| `process` | the inductive invariant `IInv`, `WaitsEnd`; `FirstSignalStops`, `SecondSignalEnds`, `CacheFills`, `GoroutinesReturn` (`WorkerReturns` and `InformerReturns`) | 3 signals of 2 kinds, 2 configurations, 1 worker |
| `leak` | violated: two identical failures of a deletion lose the instance | 3 faults |
| `shared_secret` | violated (`SecretOpensInstanceAnywhere`): two objects of one name, no failure at all | 2 objects |
| `garbage` | violated: nothing collects the secret of a deleted object | no fault |
| `fingerprint` | violated: after one failure the secret can never be made again | 1 fault |
| `stale_cache` | violated: an object that exists stays out of the cache | 1 object, 3 writes, 2 lists |

`IInv` and `MachinesLive` are checked in `versioned`, because three parts of the
invariant (`Answered`, `Doomed`, `Retired`) and `Clean` say nothing while identical
status writes are elided. They were also checked with `NoopElided` true and 3 faults,
and with two namespaces that share a name; the theorems hold for all of these.

Why the bounds are enough for `VMController`: two incarnations give every case
of an object meeting what its predecessor left (instance, operation, secret,
queued key, running call). A fault is one failed call, lost answer, failed
operation, restart, or disturbance by a user; three of them are enough for a
failure, its retry and the loss of the retry's answer. Two messages are needed
because whether a second failure is *identical* decides the `leak`. Two objects
are all the interaction there is across keys, since only those of one name share
anything.

For `WorkQueue`: with two keys one can be worked on, waiting for its retry or
dirty again while the other is; three workers for two keys give one that sleeps,
one that was woken and one that works, so wakeups can go to the wrong worker or
come too late. A channel of one entry is full as soon as it is used, where the
code's holds 1000: this is the case in which workers block. One retry gives the
counter all its values that matter (below the limit, at it). `queue_lives` has one
worker: it makes two keys compete, fills the channel and leaves the worker asleep,
blocked or not yet started when the signal comes. That the shutdown reaches
*several* sleeping workers is a safety property: `InOrder`, a part of `IInv`, says
that nobody is parked once the queue shuts down, and `queue` checks it with three.

For `Admission`: four writes are enough to create an object, mark it, remove it
and create it again while a request that was reviewed against the first one is
still under way; one write in between is all it takes to make a review stale, be
it a status write. Two clients are one such request and one that overtakes it.
Of two specs that decode one is what an object has and the other what a request
would make of it.

For `Informer`: three writes are an object deleted and created again, or a deletion
that a second list finds only by absence, with a write of the other object between;
the second list is one failed watch, and it may be older than the first.
`MaxPending` keeps resyncs from piling up notifications: the code's buffer has no
bound, but a resync every 30 s finds the handlers idle. `IInv` was also checked
with three lists.

For `Process`: one signal more than the two that the channel holds and the
handler receives, so that one can be dropped. The times are scaled down: polls
of 2 in a timeout of 5 give a poll whose answer comes after the deadline. The
first configuration has tries, delay and timeout, the second is one whose
numbers are mostly left out.

## Findings

1. `leak` – `deleteVM` returns what `handleError` returns, and that is `nil` when
   the status could be written. If the failure is the same as the one recorded
   before, the write changes nothing, the version stays, and `reconcile` removes
   the finalizer while the instance exists (`README.md:39-40` promises otherwise).
2. `shared_secret` – objects are namespaced, instances are not: deleting one of two
   objects of a name deletes the instance of the other, which then makes a new
   instance with a new key while its secret keeps the old one. No fingerprint is
   involved (`FingerprintEnforced` is true in this run); where GCE takes metadata
   without one, the second object also replaces the key of the first one's instance.
3. `garbage` – the owner reference has group and kind swapped, so secrets of
   deleted objects stay. An object created again under that name is then content
   with its predecessor's secret, which opens nothing: `CreationCompletes` is
   violated in that cluster, too, without any failure.
4. `fingerprint` – `SetMetadata` without fingerprint is refused by GCE, so a
   secret lost between insertion and publication is never made again.
5. `stale_cache` – a list that finds an object again whose deletion is still
   queued adds nothing to the queue (`queueActionLocked` ignores a `Sync` behind a
   deletion), so once the deletion is handled the object is missing from the cache
   until it is written again. The handler was called once, for the deletion, and
   reads the object from the API server; but a key that is dropped after that is
   brought back by no resync. `CacheFollowsWrites` bounds it: only an object that
   nobody wrote since a second list can be shown wrong. The opposite happens, too:
   an object that is deleted while the watch is down, and whose `Added` is still
   queued then, gets no tombstone from the next list, for which only the cache is
   asked, and stays cached. That costs a key with each resync, for which
   `reconcile` finds no object.

Three more things to know, which no run reports:

* The configured timeout of the probe is one of the dial. A VM that accepts the
  connection and then stays silent keeps a worker for ever, and ten of them all
  workers; `WorkerReturns` excepts it by name (`hung`), and the liveness properties
  of the queue assume that it does not happen.
* `DeltaFIFO.Close` may set `closed` and broadcast between the look and the wait of
  `Pop`, which then waits for ever: the comment at
  `vendor/k8s.io/client-go/tools/cache/delta_fifo.go:425-426` says that the broadcast
  "causes this loop to continue and return from the Pop()". `InformerReturns` is
  about a `Pop` that waits already. What ends the process then, as with a silent VM, is
  the second signal (`SecondSignalEnds`).
* A status that does not decode can be written by whoever may write the status
  subresource. From then on every review of an update of this object fails, and
  so does `reconcile`'s read of it: nothing, not even the removal of the finalizer,
  gets through until the status is repaired (`UnreadableKept`). A typed list that
  meets it fails as a whole; `Informer` and `VMController` assume that it does not.

## Proofs

`VMControllerProofs` and `SecretProofs` prove, for any namespaces, names, key
pairs, messages, finalizers and bounds, from the assumptions named in
`VMController` (`BoundsAssumption`, `SwitchAssumption`, `NoneAssumption`,
`FinalizerAssumption`), that `IInv` is an invariant, and what follows from it. `IInv`
is in two layers: `FinalizerInv` is about all objects, and on top of it `KeyInv(k)`
about each object with a name of its own.

`VMControllerProofs`, the layer of the finalizers:

* `TypeCorrectness`: `Spec => []TypeOK`;
* `FinalizerInvariant`: `Spec => []FinalizerInv`;
* `FinalizerGoesLast`: `Spec => FinalizerCovers`;
* `InstancesDoNotLeak`: `~NoopElided => (Spec => []NoLeak)`, also for namespaces
  that share a name and therefore an instance, a case that no run repeats;
* `SecretsArePublishedForPresentObjects`: `Spec => SecretForPresentObject`;
* `NoCallWaitsInVain`: `Spec => []Awaited`: as long as a call has not seen the end of
  the operation it polls, GCE has this operation in line.

The argument. What must never happen is that the finalizer goes while the
instance is there. A call is about to take the finalizer off when it is at
`finalize` with a version that is current, or when the deletion it waits for is
done (`Leaving`). `Covered` says that then no instance is left, or the status
already held the same error; `Answered` is the form of it for names shared by
several objects: as long as there is an instance, some object of the name holds
the finalizer and is not leaving. To keep these two one needs that

* nobody else takes the finalizer off an object that a call works on, and the
  object stays the incarnation it read (`Stamped`, `Held`);
* an operation that is polled is polled by the call that started it, and a call
  in `deleteVM` waits for a deletion, so that "done" means deleted (`Polled`,
  `OfInstance`): this is why the invariant talks of operations at all. That there
  is one to be polled (`Awaited`) needs that an operation leaves the line only by its
  end, and that its call is told then, whoever else has one in the same line;
* a call holds the local variables its step uses (`Locals`).

An insertion cannot undo it: it belongs to a live object of the name, which holds
the finalizer (`Stamped`) and whose call is not leaving (`Held`). The proof has a
step per action, grouped by what an action disturbs: steps of one call
(`work[k]` only), acceptances of operations, ends of operations, steps of users,
restarts.

`SecretProofs`, the layer of the keys:

* `InductiveInvariant`: `Spec => []IInv`;
* `PublishedKeysOpen`: `Spec => []SecretOpensInstance`, and `PublishedKeysStay`: the
  instance of an object that has its secret neither changes nor goes before the
  object is deleted;
* `NoSuccessorIsHit`: `~NoopElided => (Spec => LiveInstanceKept)`, also for
  namespaces that share a name;
* `OldSecretsOpenNothing`: if no write is elided, a secret that outlived its object
  opens no instance of the next;
* `ControllerImplementsMachineLife`: `Spec => MachinesLive`.

The argument. A key is published several calls after it was generated, and the
instance may change between any two of them. `Landed` says that it does not: from
the end of the operation that brought the key pair of a call until its secret is
created, the instance has this key and GCE has no operation left for it. That is
true at the end of the operation only if it was the last one, hence `LastInLine`:
what a call polls is the last operation of the instance, and about the pair the
call holds. Nobody but this call asks for another one, since the name is the
object's own and the work queue has its key in one worker; what earlier calls
asked for and gave up waiting for (a timeout, a lost answer, a restart) is before
it in GCE's line. `Settled` says what is true from the secret on: what is still in
line are deletions, and only for an object under deletion, whose calls are all in
`deleteVM` then. It needs `Unpublished` - a call with a new pair is one for an object
without a secret of its own, which is what the look at the secret in `ensureVM` is
for - and `Numbered`: a new object has never been seen before, so no secret is its own.

`NoSuccessorIsHit` is about the deletions themselves. `Doomed` says that as long as
GCE has one to carry out, some object of the name is under deletion, holds the
finalizer and is not about to lose it: a call that leaves `deleteVM` in good order
has found no instance or has waited for the end of its own deletion, which removed
the instance and with it all that was in line. A call whose deletion fails, or that
stops waiting for it, may go on as well, but the record of its error in the status
makes the version it read outdated - unless the write is elided, hence the
hypothesis. `Fresh` and `Retired` are what
`MachineLife` adds: a pair is used once, so a secret that a former object left
never opens what comes after it.

The refinement is proved per kind of step: `ObjectSteps` (the object changes, and
nothing else of the three does), `SecretSteps`, `InstanceSteps`; each finds the
one action of `MachineLife` that the step is. A key that is set replaces one that
is in nobody's secret by `Settled`; an instance goes under a deletion by `Settled`,
too; the finalizer goes after the instance by `Covered`.

`MachineLifeProofs` proves of any incarnations and key pairs (`Distinct`: none of them
is `None`) `PromiseKept`: `Spec => [](Opens /\ StartsAnew)`. So the promise
follows from the eight steps alone.

`WorkQueueProofs` proves, for any keys, any finite set of workers, any limit of
retries and any capacity of the channel (`RetriesAssumption`,
`WorkersAssumption`, `NoKeyAssumption`):

* `QueueInvariant`: `Spec => []IInv`, and from it `TypeCorrectness`,
  `MutualExclusion` (`OneWorkerPerKey`), `NoKeyIsLost` (`QueueHasTheWork`),
  `NoWakeupIsLost` (`SleepersNotNeeded`), `NoRetryIsLost` (`RetryIsComing`),
  `CacheComesFirst` (`SyncedFirst`);
* `QueueImplementsKeyedQueue`: `Spec => KeysHandedOutOnce`.

The argument. The processing set is what the workers hold (`Holding`), the queue
is what is dirty and not processed, once each (`QueueHasTheWork`); a key that a
worker takes from the queue is therefore nobody else's (`OneWorkerPerKey`). That
makes the failures of a key safe although they are read and counted in two steps
outside the queue's lock: whoever is about to count one still has the key, and
nobody else can have counted meanwhile (`CountsLeft`, for the bound in `TypeOK`).
A retry is not lost because the worker sends the key before it gives it back
(`RetryIsSent`). `SleepersNotNeeded` counts: while somebody sleeps, there are at
least as many woken workers as keys in the queue. A key that is added wakes one
more, a worker that takes a key with it takes at most one from each side, and a
worker that falls asleep has found the queue empty; this step is where finite
sets and their cardinalities enter the proof. `InOrder` relates Run's progress to
the workers: none runs before the cache is filled, since `Run` starts them
without it only when `stopCh` is closed, and then they return at once.

The liveness properties `HandedOut`, `Retried` and `Stops` are model-checked.

`AdmissionProofs` proves, for any clients, specs, finalizers of others and
any number of writes (`BoundAssumption`, `SpecsAssumption`, `NoneAssumption`):

* `ReviewsCover`: `Spec => []IInv`, and from it `SpecsDecode` (`StoredSpecsDecode`);
* `SpecsAreKept`: `Spec => SpecKept`;
* `UnreadableObjectsStay`: `Spec => UnreadableKept`;
* `AdmissionImplementsObjectLife`: `Spec => ObjectLives`.

The argument. The invariant (`Reviewed`) is about the requests: one that is
about to be stored was reviewed, so a new object has our finalizer and decodes,
and a changed one has the spec of the object it was compared with, which
decoded. That this object is still the stored one at the write is the API
server's comparison, in the same step (`stored = request[c].old`): the review
may be old, what it said holds of the very object that is replaced. Without this
comparison `validate` would not keep the spec of an object, however it compares,
and a request reviewed before a status write would go over an object that no
longer decodes.

`ControllerImplementsObjectLife` in `VMControllerProofs` is the other half:
`Spec => ObjectLives` for every object of `VMController`.

`InformerProofs` proves, for any finite set of keys, whatever exists at the start,
and any number of writes and lists (`BoundsAssumption`, `KeysAssumption`,
`ExistingAssumption`):

* `InductiveInvariant`: `Spec => []IInv`, and from it `TypeCorrectness`,
  `NoWriteIsMissed` (`NothingMissed`), `FifoInStep` (`QueueHoldsItems`),
  `FirstListIsHandled` (`SyncedHoldsFirstList`), `CacheFollowsWrites`
  (`CacheIsRight`), `CacheHoldsWhatWasWritten` (`CacheHoldsWrites`: whatever is cached
  or queued is a state that somebody wrote to this object, after any number of lists);
* `CacheSettles`: a key that is neither queued nor in hand is cached as the watch
  left it, except where `CacheIsRight` makes an exception;
* `CacheNeverGoesBack`: `Spec => NeverBackwards`.

The argument. The news of a key is somewhere (`OnItsWay`): each step passes it
on to the next place, and where a delta is left out another one of that key
stays. A list needs no more than `Exists`: what it does not show is written
after its revision, so the watch has it to report. For `FirstListIsHandled` the
queue is cut at `count`: the keys of the first list are among the first `count`
keys, which are the next to be popped (`FirstInFront`). For `CacheNeverGoesBack`
the deltas of a key, in the queue and in `HandleDeltas`, are in the order of its
writes and not older than the cache (`KeyInOrder`); a resync keeps that because
it leaves alone the keys that have something queued. `CacheIsRight` is about the
last delta of a key (`AfterQueued`): an event of the watch becomes the last one,
or is a deletion behind or in front of another (`Dedup`), or one of what is
neither cached nor queued; each way the entry to come is what the event says. A
resync queues what is cached already. Only a `Sync` can be dropped behind a
deletion; the first list finds nothing queued, and after a later one the watch
has reported nothing yet, which is where the property makes its exception.
`ObjectWritten`, `ObjectKept` and `ObjectNext` say what a write makes of
`ObjectAt`, which is a choice of the last of several writes.

`ProcessProofs` proves, for any signals, any configurations and any times
(`SignalsAssumption`, `NoneAssumption`, `ConfigsAssumption`, `TimesAssumption`):

* `InductiveInvariant`: `Spec => []IInv`, and from it `TypeCorrectness`,
  `StopIsClosedOnce` (`StopClosedOnce`), `FirstSignalOnlyStops`
  (`FirstSignalSpares`), `FirstSignalIsNotLost` (`FirstSignalKept`),
  `RunWaitsForAnInformer`, `NothingEndsEarly`;
* `WaitsAreBounded`: `Spec => []WaitsEnd`.

The argument. Signals are counted: each that was sent is pending, in the
channel, received or dropped (`SignalsSpent`), so a process that exits at its
second has been sent two. The goroutines begin after `signal.Notify`
(`StartOrder`), so only then a signal can kill. The first signal is not lost
since the channel is full only when there are others in it (`FirstSignalKept`).
`HandlersFirst` carries the order of `main` (`New`, `Notify`, `Go`) over to the
goroutines it starts: the handlers are there before an informer runs, and `Run`
waits for an informer that runs or is going to. `OnlyStopEnds` goes from each
goroutine that ended back to `stop`. `TimeLeft` bounds the clock by what the
tries so far may have taken, place by place; the product of tries and time per
try is the reason for the two lemmas about multiplication.

Every invariant and every action property that a passing run checks is stated by a
theorem. Only model-checked are the liveness properties, which under fairness
are out of the prover's reach: `DeletionCompletes`, `CreationCompletes`,
`HandedOut`, `Retried`, `Stops`, `ChangesAreSeen`, `CachedReturn`,
`FirstSignalStops`, `SecondSignalEnds`, `CacheFills`, `GoroutinesReturn`.

## Not modelled

* The lookup of the image, disk, network and address settings in the instance
  request: they decide what is created, not when.
* Project and zone: the same in every call.
* Metrics: a gauge registered once under a lock, and never set.
* Deep copies and fake clients: generated; a value of the model is not shared with
  anybody, and the fakes serve tests that the repository does not have.
* The reads of the lister (`List`, `Get`): nobody calls them. `reconcile` reads the
  API server; the cache matters only for what it makes the handlers hear.
* `ForResource`, `WaitForCacheSync` and the other entry points of the factory that
  `main` does not use.
* The event recorder: it is created and never used.
* The TLS server and the flags of the admission controller.

## Plan

1. `VMController` with proofs (done).
2. `KeyedQueue`, `WorkQueue` with proofs, and the refinement (done).
3. `ObjectLife`, `Admission` with proofs, and the refinements (done).
4. `Informer` with proofs (done).
5. `Waits` and `Process` with proofs: start, signals, probe (done).
6. `MachineLife`, the abstract life of object, instance and key, that `VMController`
   implements, with proofs (done).
7. `SecretProofs`: `SecretOpensInstance`, `LiveInstanceKept` and the refinement (done).
