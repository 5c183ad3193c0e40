----------------------------- MODULE WorkQueue ------------------------------
(***************************************************************************)
(* The work queue of pkg/controller and its workers: workqueue.Type, the   *)
(* delaying and the rate limiting queue on top of it, processNextWorkItem, *)
(* handleErr and Run.  A step is what happens under one lock, or one       *)
(* operation on a channel.                                                 *)
(*                                                                         *)
(* Time is left out: a delayed key becomes ready at some time.             *)
(***************************************************************************)
EXTENDS Naturals, Sequences, FiniteSets, Functions

CONSTANTS
    Keys,        \* keys of objects
    Workers,     \* worker goroutines (num-workers)
    None,        \* "no key"
    MaxRetries,  \* maxRetries
    Capacity     \* of the channel waitingForAddCh

ASSUME RetriesAssumption == MaxRetries \in Nat /\ Capacity \in Nat \ {0}
ASSUME WorkersAssumption == IsFiniteSet(Workers)
ASSUME NoKeyAssumption == None \notin Keys

VARIABLES
    queue,         \* the order in which keys are worked on
    dirty,         \* keys that need to be worked on
    processing,    \* keys that are worked on
    shuttingDown,  \* the queue takes no more keys
    at,            \* where each worker is
    key,           \* the key each worker has
    failures,      \* rate limiter: failures of a key in a row
    channel,       \* waitingForAddCh
    delayed,       \* keys in the heap of the waiting loop
    loop,          \* where the waiting loop is
    run,           \* where Run is
    synced,        \* the informer's cache is filled
    stop           \* the controller's stopCh is closed

vars == <<queue, dirty, processing, shuttingDown, at, key, failures,
          channel, delayed, loop, run, synced, stop>>

store == <<queue, dirty, processing>>
delays == <<channel, delayed, loop>>
process == <<shuttingDown, run, synced, stop>>

\* Where a worker is: not started, in JitterUntil, about to take the lock in
\* Get, in cond.Wait, signalled; in reconcile, in AddRateLimited, in the
\* select of AddAfter, about to call Done; gone.
Places == {"unborn", "started", "getting", "parked", "woken",
           "reconcile", "limit", "send", "done", "gone"}

Busy == {"reconcile", "limit", "send", "done"}

Init ==
    /\ queue = <<>>
    /\ dirty = {}
    /\ processing = {}
    /\ shuttingDown = FALSE
    /\ at = [w \in Workers |-> "unborn"]
    /\ key = [w \in Workers |-> None]
    /\ failures = [k \in Keys |-> 0]
    /\ channel = <<>>
    /\ delayed = {}
    /\ loop = "top"
    /\ run = "sync"
    /\ synced = FALSE
    /\ stop = FALSE

-----------------------------------------------------------------------------
(* workqueue.Type.                                                         *)

Parked(a) == {w \in Workers : a[w] = "parked"}

\* cond.Signal, when the workers are at a: one of those that wait goes on.
Signalled(a) ==
    IF Parked(a) = {} THEN {a}
                      ELSE {[a EXCEPT ![w] = "woken"] : w \in Parked(a)}

\* Mutant: a key that is being worked on is queued at once.
AddAgain(k) ==
    \/ /\ shuttingDown \/ k \in dirty
       /\ UNCHANGED <<store, at>>
    \/ /\ ~shuttingDown
       /\ k \notin dirty
       /\ dirty' = dirty \cup {k}
       /\ queue' = Append(queue, k)
       /\ at' \in Signalled(at)
       /\ UNCHANGED processing

\* Mutant: nobody is signalled.
AddSilently(k) ==
    \/ /\ shuttingDown \/ k \in dirty
       /\ UNCHANGED <<store, at>>
    \/ /\ ~shuttingDown
       /\ k \notin dirty
       /\ dirty' = dirty \cup {k}
       /\ UNCHANGED <<processing, at>>
       /\ queue' = IF k \in processing THEN queue ELSE Append(queue, k)

\* Add.
Add(k) ==
    \/ /\ shuttingDown \/ k \in dirty
       /\ UNCHANGED <<store, at>>
    \/ /\ ~shuttingDown
       /\ k \notin dirty
       /\ dirty' = dirty \cup {k}
       /\ UNCHANGED processing
       /\ \/ k \in processing /\ UNCHANGED <<queue, at>>
          \/ /\ k \notin processing
             /\ queue' = Append(queue, k)
             /\ at' \in Signalled(at)

Goto(w, place) == at' = [at EXCEPT ![w] = place]

\* Mutant: the key is not inserted into the processing set.
GetUnmarked(w) ==
    /\ at[w] \in {"getting", "woken"}
    /\ UNCHANGED <<processing, failures, delays, process>>
    /\ \/ /\ queue # <<>>
          /\ queue' = Tail(queue)
          /\ dirty' = dirty \ {Head(queue)}
          /\ key' = [key EXCEPT ![w] = Head(queue)]
          /\ Goto(w, "reconcile")
       \/ /\ queue = <<>>
          /\ Goto(w, IF shuttingDown THEN "gone" ELSE "parked")
          /\ UNCHANGED <<queue, dirty, key>>

\* Get, from the point where the worker has the lock.
Get(w) ==
    /\ at[w] \in {"getting", "woken"}
    /\ UNCHANGED <<failures, delays, process>>
    /\ \/ /\ queue # <<>>
          /\ queue' = Tail(queue)
          /\ processing' = processing \cup {Head(queue)}
          /\ dirty' = dirty \ {Head(queue)}
          /\ key' = [key EXCEPT ![w] = Head(queue)]
          /\ Goto(w, "reconcile")
       \/ /\ queue = <<>>
          /\ Goto(w, IF shuttingDown THEN "gone" ELSE "parked")
          /\ UNCHANGED <<store, key>>

\* Mutant: a key that became dirty meanwhile is not queued.
DoneForgetting(w) ==
    /\ at[w] = "done"
    /\ key' = [key EXCEPT ![w] = None]
    /\ processing' = processing \ {key[w]}
    /\ Goto(w, "getting")
    /\ UNCHANGED <<queue, dirty, failures, delays, process>>

\* Mutant: the key is queued without a signal.
DoneSilently(w) ==
    /\ at[w] = "done"
    /\ key' = [key EXCEPT ![w] = None]
    /\ processing' = processing \ {key[w]}
    /\ queue' = IF key[w] \in dirty THEN Append(queue, key[w]) ELSE queue
    /\ Goto(w, "getting")
    /\ UNCHANGED <<dirty, failures, delays, process>>

\* Done, deferred in processNextWorkItem.
Done(w) ==
    /\ at[w] = "done"
    /\ key' = [key EXCEPT ![w] = None]
    /\ processing' = processing \ {key[w]}
    /\ UNCHANGED <<dirty, failures, delays, process>>
    /\ \/ key[w] \notin dirty /\ Goto(w, "getting") /\ UNCHANGED queue
       \/ /\ key[w] \in dirty
          /\ queue' = Append(queue, key[w])
          /\ at' \in Signalled([at EXCEPT ![w] = "getting"])

-----------------------------------------------------------------------------
(* Workers: processNextWorkItem and handleErr.                             *)

\* Mutant: the worker is called whether stopCh is closed or not.
StartWorkerAnyway(w) ==
    /\ at[w] = "started"
    /\ Goto(w, "getting")
    /\ UNCHANGED <<store, key, failures, delays, process>>

\* The goroutine wait.Until starts looks at stopCh before it calls worker.
StartWorker(w) ==
    /\ at[w] = "started"
    /\ Goto(w, IF stop THEN "gone" ELSE "getting")
    /\ UNCHANGED <<store, key, failures, delays, process>>

\* The rate limiter's Forget.
Forget(k) == failures' = [failures EXCEPT ![k] = 0]

\* reconcile returned nil.
Succeed(w) ==
    /\ at[w] = "reconcile"
    /\ Forget(key[w])
    /\ Goto(w, "done")
    /\ UNCHANGED <<store, key, delays, process>>

\* Mutant: a key that is dropped keeps its failures.
FailRemembered(w) ==
    /\ at[w] = "reconcile"
    /\ Goto(w, IF failures[key[w]] < MaxRetries THEN "limit" ELSE "done")
    /\ UNCHANGED <<store, key, failures, delays, process>>

\* reconcile returned an error.
Fail(w) ==
    /\ at[w] = "reconcile"
    /\ UNCHANGED <<store, key, delays, process>>
    /\ \/ /\ failures[key[w]] < MaxRetries
          /\ Goto(w, "limit")
          /\ UNCHANGED failures
       \/ /\ failures[key[w]] >= MaxRetries
          /\ Forget(key[w])
          /\ Goto(w, "done")

\* AddRateLimited up to the select of AddAfter: the failure is counted, the
\* delay computed, and nothing added once the queue shuts down.
AddRateLimited(w) ==
    /\ at[w] = "limit"
    /\ failures' = [failures EXCEPT ![key[w]] = @ + 1]
    /\ Goto(w, IF shuttingDown THEN "done" ELSE "send")
    /\ UNCHANGED <<store, key, delays, process>>

\* The queue's own stopCh is closed last.
StopChClosed == run = "returned"

\* Mutant: stopCh is not looked at.
AddAfterStuck(w) ==
    /\ at[w] = "send"
    /\ Goto(w, "done")
    /\ Len(channel) < Capacity
    /\ channel' = Append(channel, key[w])
    /\ UNCHANGED <<store, key, failures, delayed, loop, process>>

\* The select of AddAfter.
AddAfter(w) ==
    /\ at[w] = "send"
    /\ Goto(w, "done")
    /\ \/ /\ Len(channel) < Capacity
          /\ channel' = Append(channel, key[w])
       \/ StopChClosed /\ UNCHANGED channel
    /\ UNCHANGED <<store, key, failures, delayed, loop, process>>

-----------------------------------------------------------------------------
(* waitingLoop of the delaying queue.                                      *)

LoopGoto(from, to) ==
    /\ loop = from
    /\ loop' = to
    /\ UNCHANGED <<store, at, key, failures, channel, delayed, process>>

\* An iteration begins and ends with the entries that are ready; the select
\* ends with the timer, the heartbeat or the stop.
LoopTop == LoopGoto("top", IF shuttingDown THEN "returned" ELSE "fire")
LoopSelect == LoopGoto("fire", "select")
LoopTimer == LoopGoto("select", "top")
LoopStop == StopChClosed /\ LoopGoto("select", "returned")
LoopDrained == channel = <<>> /\ LoopGoto("drain", "top")

\* The first entry of the heap is ready.
Fire(k) ==
    /\ loop = "fire"
    /\ k \in delayed
    /\ delayed' = delayed \ {k}
    /\ Add(k)
    /\ UNCHANGED <<key, failures, channel, loop, process>>

\* Mutant: an entry that is ready by now is not added.
ReceiveLate ==
    /\ loop \in {"select", "drain"}
    /\ channel # <<>>
    /\ channel' = Tail(channel)
    /\ loop' = "drain"
    /\ \/ delayed' = delayed \cup {Head(channel)}
       \/ UNCHANGED delayed
    /\ UNCHANGED <<store, at, key, failures, process>>

\* An entry comes from the channel, ready by now or not; insert keeps one
\* entry for each key.
Receive ==
    /\ loop \in {"select", "drain"}
    /\ channel # <<>>
    /\ channel' = Tail(channel)
    /\ loop' = "drain"
    /\ \/ delayed' = delayed \cup {Head(channel)} /\ UNCHANGED <<store, at>>
       \/ Add(Head(channel)) /\ UNCHANGED delayed
    /\ UNCHANGED <<key, failures, process>>

-----------------------------------------------------------------------------
(* The informer's handlers, Run and the signal handler.                    *)

\* The handlers add, update and delete.
enqueue(k) ==
    /\ Add(k)
    /\ UNCHANGED <<key, failures, delays, process>>

CacheSynced ==
    /\ ~synced
    /\ synced' = TRUE
    /\ UNCHANGED <<store, at, key, failures, delays, shuttingDown, run, stop>>

\* Run starts the workers when WaitForCacheSync returns, whatever it returns.
StartWorkers ==
    /\ run = "sync"
    /\ synced \/ stop
    /\ run' = "running"
    /\ at' = [w \in Workers |-> "started"]
    /\ UNCHANGED <<store, key, failures, delays, shuttingDown, synced, stop>>

\* The first signal.
Signal ==
    /\ ~stop
    /\ stop' = TRUE
    /\ UNCHANGED <<store, at, key, failures, delays, shuttingDown, run, synced>>

\* Mutant: cond.Signal in place of cond.Broadcast.
ShutDownSignalling ==
    /\ run = "running"
    /\ stop
    /\ run' = "closing"
    /\ shuttingDown' = TRUE
    /\ at' \in Signalled(at)
    /\ UNCHANGED <<store, key, failures, delays, synced, stop>>

\* ShutDown of workqueue.Type, with cond.Broadcast.
ShutDown ==
    /\ run = "running"
    /\ stop
    /\ run' = "closing"
    /\ shuttingDown' = TRUE
    /\ at' = [w \in Workers |-> IF at[w] = "parked" THEN "woken" ELSE at[w]]
    /\ UNCHANGED <<store, key, failures, delays, synced, stop>>

\* The rest of ShutDown of the delaying queue.
CloseStopCh ==
    /\ run = "closing"
    /\ run' = "returned"
    /\ UNCHANGED <<store, at, key, failures, delays, shuttingDown, synced, stop>>

-----------------------------------------------------------------------------
Reconciled(w) == Succeed(w) \/ Fail(w)

Work(w) ==
    \/ StartWorker(w) \/ Get(w) \/ Reconciled(w)
    \/ AddRateLimited(w) \/ AddAfter(w) \/ Done(w)

WaitingLoop == LoopTop \/ LoopSelect \/ LoopTimer \/ LoopStop \/ LoopDrained \/ Receive

Run == StartWorkers \/ ShutDown \/ CloseStopCh

Next ==
    \/ \E w \in Workers : Work(w)
    \/ WaitingLoop \/ Run \/ CacheSynced \/ Signal
    \/ \E k \in Keys : Fire(k) \/ enqueue(k)

Spec == Init /\ [][Next]_vars

\* Every goroutine goes on when it can, and reconcile returns.  A delayed key
\* becomes ready and stays so, and the loop comes round every ten seconds; it
\* reads the channel faster than failing workers, which wait for the network,
\* can fill it, so at some time it finds it empty.  Senders that wait for room
\* in a channel are served in their order.
Fairness ==
    /\ \A w \in Workers : WF_vars(Work(w)) /\ SF_vars(AddAfter(w))
    /\ WF_vars(LoopTop) /\ WF_vars(LoopSelect) /\ WF_vars(LoopTimer)
    /\ WF_vars(LoopStop) /\ SF_vars(LoopDrained) /\ SF_vars(Receive)
    /\ WF_vars(Run)
    /\ \A k \in Keys : SF_vars(Fire(k))

FairSpec == Spec /\ Fairness

-----------------------------------------------------------------------------
(* Properties.                                                             *)

\* The type of every variable; in particular no key is retried more than
\* maxRetries times, although its failures are counted outside the queue's
\* lock.
TypeOK ==
    /\ queue \in Seq(Keys)
    /\ dirty \in SUBSET Keys
    /\ processing \in SUBSET Keys
    /\ shuttingDown \in BOOLEAN
    /\ at \in [Workers -> Places]
    /\ key \in [Workers -> Keys \cup {None}]
    /\ failures \in [Keys -> 0 .. MaxRetries]
    /\ channel \in Seq(Keys)
    /\ Len(channel) <= Capacity
    /\ delayed \in SUBSET Keys
    /\ loop \in {"top", "fire", "select", "drain", "returned"}
    /\ run \in {"sync", "running", "closing", "returned"}
    /\ synced \in BOOLEAN
    /\ stop \in BOOLEAN

\* The queue implements what the controller relies on: dirty keys are pending,
\* processed ones are active.
Q == INSTANCE KeyedQueue WITH pending <- dirty, active <- processing

KeysHandedOutOnce == Q!Spec

\* worker: "It enforces that the syncHandler is never invoked concurrently
\* with the same key."
OneWorkerPerKey ==
    \A v, w \in Workers : key[v] = key[w] /\ key[v] # None => v = w

\* Type.queue: "Every element of queue should be in the dirty set and not in
\* the processing set."  It is there once, and nothing else is dirty without
\* being processed: no key is lost.
QueueHasTheWork ==
    /\ Range(queue) = dirty \ processing
    /\ IsInjective(queue)

\* No wakeup is lost: while a worker waits, enough of the others have been
\* signalled to take every key in the queue.
Woken == {w \in Workers : at[w] = "woken"}

SleepersNotNeeded ==
    Parked(at) # {} => Len(queue) <= Cardinality(Woken)

\* No retry is lost: until the queue shuts down, a key with failures is being
\* worked on, or is going to be.
RetryIsComing ==
    ~shuttingDown =>
        \A k \in Keys : failures[k] > 0 =>
            k \in dirty \cup processing \cup Range(channel) \cup delayed

\* Although Run starts the workers even if the cache never synced, no key is
\* worked on before it has.
SyncedFirst == processing # {} => synced

\* Every dirty key is handed out as long as a worker runs, in the middle of a
\* shutdown too: the workers drain the queue.
Running == \E w \in Workers : at[w] \notin {"unborn", "started", "gone"}

HandedOut == \A k \in Keys : (k \in dirty /\ Running) ~> (k \notin dirty)

\* A delayed key comes back unless the queue shuts down.
Retried ==
    \A k \in Keys : (k \in Range(channel) \cup delayed) ~> (k \in dirty \/ shuttingDown)

\* After the first signal every goroutine returns: nobody sleeps through the
\* shutdown or waits for a channel nobody reads any more.
Stops == stop ~> (loop = "returned" /\ \A w \in Workers : at[w] = "gone")

-----------------------------------------------------------------------------
(* What makes the safety properties inductive.                             *)

\* The processing set is what the workers have.
Holding ==
    /\ \A w \in Workers : at[w] \in Busy <=> key[w] # None
    /\ processing = {key[w] : w \in Workers} \ {None}

\* A worker about to count a failure has one left to count.
CountsLeft == \A w \in Workers : at[w] = "limit" => failures[key[w]] < MaxRetries

\* A worker that failed, and did not drop the key, has seen to its retry before
\* it gives the key back.
RetryIsSent ==
    ~shuttingDown =>
        \A w \in Workers : at[w] = "done" /\ failures[key[w]] > 0 =>
            key[w] \in dirty \cup Range(channel) \cup delayed

\* Run takes its steps in order: workers, signal, queue.
InOrder ==
    /\ run = "sync" => \A w \in Workers : at[w] = "unborn"
    /\ run # "sync" => synced \/ stop
    /\ Running => synced
    /\ shuttingDown <=> run \in {"closing", "returned"}
    /\ shuttingDown => Parked(at) = {}

\* All of it, from any state that has it to the next.
IInv ==
    /\ TypeOK
    /\ Holding
    /\ OneWorkerPerKey
    /\ QueueHasTheWork
    /\ SleepersNotNeeded
    /\ CountsLeft
    /\ RetryIsSent
    /\ RetryIsComing
    /\ InOrder

=============================================================================
