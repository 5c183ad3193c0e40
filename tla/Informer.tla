------------------------------ MODULE Informer ------------------------------
(***************************************************************************)
(* How the controller hears of virtual machines: the shared informer of    *)
(* pkg/client/informers, i.e. a reflector that lists and watches through   *)
(* the typed client, the DeltaFIFO it fills, HandleDeltas that moves the   *)
(* deltas into the indexer, and the notifications that the handlers of     *)
(* pkg/controller turn into keys of the work queue.                        *)
(*                                                                         *)
(* An object is the revision of its last write, 0 when there is none.  A   *)
(* step is what happens under the lock of the DeltaFIFO or of the indexer, *)
(* or one call of a handler.                                               *)
(***************************************************************************)
EXTENDS Naturals, Sequences, FiniteSets, SequencesExt

CONSTANTS
    Keys,         \* keys of objects
    None,         \* "no key"
    Existing,     \* keys of the objects there are when the process starts
    MaxRevision,  \* bound: writes
    MaxLists,     \* bound: lists, i.e. one more than failures of a watch
    MaxPending    \* bound: notifications pending when a resync begins

ASSUME BoundsAssumption ==
    MaxRevision \in Nat /\ MaxLists \in Nat \ {0} /\ MaxPending \in Nat
ASSUME KeysAssumption == IsFiniteSet(Keys) /\ None \notin Keys \cup Nat
ASSUME ExistingAssumption == Existing \subseteq Keys

VARIABLES
    history,    \* the writes to all objects, in their order
    reflector,  \* where ListAndWatch is, and its resourceVersion
    items,      \* DeltaFIFO: the deltas of each key
    queue,      \* DeltaFIFO: the order in which keys are popped
    count,      \* DeltaFIFO: initialPopulationCount, None until populated
    handling,   \* what HandleDeltas has still to do
    indexer,    \* the cached objects
    notices,    \* notifications pending for the handlers
    untold,     \* history: keys written since they were last enqueued
    first,      \* history: keys of the first list not handled yet
    lists,      \* number of lists so far
    listed      \* history: the revision of the last list

fifo == <<items, queue, count>>
ghosts == <<untold, first, lists, listed>>
vars == <<history, reflector, fifo, handling, indexer, notices, ghosts>>

\* The object k after the first r writes.
ObjectAt(k, r) ==
    LET writes == {i \in 1 .. r : history[i].key = k}
    IN  IF \E i \in writes : history[i].exists /\ \A j \in writes : j <= i
        THEN CHOOSE i \in writes : \A j \in writes : j <= i
        ELSE 0

Now == Len(history)
Exists(k) == ObjectAt(k, Now) # 0

Init ==
    /\ \E ks \in SetToSeqs(Existing) :
          history = [i \in 1 .. Len(ks) |-> [key |-> ks[i], exists |-> TRUE]]
    /\ reflector = [at |-> "list", revision |-> 0]
    /\ items = [k \in Keys |-> <<>>]
    /\ queue = <<>>
    /\ count = None
    /\ handling = [key |-> None, deltas |-> <<>>]
    /\ indexer = [k \in Keys |-> 0]
    /\ notices = <<>>
    /\ untold = Existing
    /\ first = {}
    /\ lists = 0
    /\ listed = 0

-----------------------------------------------------------------------------
(* The API server.                                                         *)

\* Somebody creates or updates k.
Write(k) ==
    /\ Now < MaxRevision
    /\ history' = Append(history, [key |-> k, exists |-> TRUE])
    /\ untold' = untold \cup {k}
    /\ UNCHANGED <<reflector, fifo, handling, indexer, notices, first, lists, listed>>

\* k goes.  Nothing is to be told: reconcile leaves an absent object alone.
Erase(k) ==
    /\ Now < MaxRevision
    /\ Exists(k)
    /\ history' = Append(history, [key |-> k, exists |-> FALSE])
    /\ untold' = untold \ {k}
    /\ UNCHANGED <<reflector, fifo, handling, indexer, notices, first, lists, listed>>

-----------------------------------------------------------------------------
(* DeltaFIFO.                                                              *)

\* The lock of the DeltaFIFO, which Pop holds until HandleDeltas is done.
Unlocked == handling.deltas = <<>>

Delta(type, revision) == [type |-> type, revision |-> revision]

\* The last known state of an object that a list no longer has:
\* DeletedFinalStateUnknown.
Tombstone(k) == [type |-> "Unknown", revision |-> indexer[k]]

IsDeletion(d) == d.type \in {"Deleted", "Unknown"}

\* isDeletionDup: of two deletions in a row the one that knows more.
Dedup(older, newer) ==
    IF IsDeletion(older) /\ IsDeletion(newer)
    THEN IF older.type = "Unknown" THEN <<newer>> ELSE <<older>>
    ELSE <<older, newer>>

\* queueActionLocked for one key: its deltas ds once d is added.
Queued(ds, d) ==
    IF ds = <<>>
    THEN <<d>>
    ELSE IF d.type = "Sync" /\ IsDeletion(Last(ds))
    THEN ds
    ELSE Front(ds) \o Dedup(Last(ds), d)

\* Mutant: the key is queued for every delta.
QueueActionTwice(k, d) ==
    /\ items' = [items EXCEPT ![k] = Queued(@, d)]
    /\ queue' = Append(queue, k)

\* The same for the fifo.
QueueAction(k, d) ==
    /\ items' = [items EXCEPT ![k] = Queued(@, d)]
    /\ queue' = IF items[k] = <<>> THEN Append(queue, k) ELSE queue

\* Mutant: what is not in the cache, but on its way there, counts as unknown.
DeleteActionCached(k, d) ==
    IF indexer[k] = 0
    THEN UNCHANGED <<items, queue>>
    ELSE QueueAction(k, d)

\* Delete: unless nobody knows the object.
DeleteAction(k, d) ==
    IF indexer[k] = 0 /\ items[k] = <<>>
    THEN UNCHANGED <<items, queue>>
    ELSE QueueAction(k, d)

\* Mutant: a list tells only of objects that were not known.
ReplacedUnknown(r) ==
    [k \in Keys |->
        IF ObjectAt(k, r) # 0
        THEN IF indexer[k] = 0 THEN Queued(items[k], Delta("Sync", ObjectAt(k, r)))
                               ELSE items[k]
        ELSE IF indexer[k] # 0 THEN Queued(items[k], Tombstone(k))
        ELSE items[k]]

\* The deltas of all keys once the fifo holds the list at revision r: a Sync
\* for every object of the list, a tombstone for every known one not in it.
Replaced(r) ==
    [k \in Keys |->
        IF ObjectAt(k, r) # 0 THEN Queued(items[k], Delta("Sync", ObjectAt(k, r)))
        ELSE IF indexer[k] # 0 THEN Queued(items[k], Tombstone(k))
        ELSE items[k]]

Listed(r) == {k \in Keys : ObjectAt(k, r) # 0}
Vanished(r) == {k \in Keys : ObjectAt(k, r) = 0 /\ indexer[k] # 0}

\* The keys of S that are not queued, in some order.
Unqueued(S) == SetToSeqs({k \in S : items[k] = <<>>})

Replace(r) ==
    /\ items' = Replaced(r)
    /\ \E ls \in Unqueued(Listed(r)), vs \in Unqueued(Vanished(r)) :
          queue' = queue \o ls \o vs
    /\ count' = IF count = None
                THEN Cardinality(Listed(r)) + Cardinality(Vanished(r))
                ELSE count

-----------------------------------------------------------------------------
(* The reflector.                                                          *)

\* ListAndWatch, the list: resource version "0" lets the server answer from
\* its cache, which may lag behind.
List(r) ==
    /\ reflector.at = "list"
    /\ Unlocked
    /\ Replace(r)
    /\ reflector' = [at |-> "watch", revision |-> r]
    /\ first' = IF count = None THEN Listed(r) ELSE first
    /\ lists' = lists + 1
    /\ listed' = r
    /\ UNCHANGED <<history, handling, indexer, notices, untold>>

\* What the watch says of the next write.
EventType(r) ==
    LET k == history[r].key
    IN  IF ~history[r].exists THEN "Deleted"
        ELSE IF ObjectAt(k, r - 1) = 0 THEN "Added" ELSE "Updated"

\* Mutant: no event of an object nobody knows gets through.
WatchEventKnown ==
    /\ reflector.at = "watch"
    /\ Unlocked
    /\ reflector.revision < Now
    /\ LET r == reflector.revision + 1
       IN  /\ DeleteAction(history[r].key, Delta(EventType(r), r))
           /\ reflector' = [reflector EXCEPT !.revision = r]
    /\ UNCHANGED <<history, count, handling, indexer, notices, ghosts>>

\* watchHandler, one event.
WatchEvent ==
    /\ reflector.at = "watch"
    /\ Unlocked
    /\ reflector.revision < Now
    /\ LET r == reflector.revision + 1
           d == Delta(EventType(r), r)
       IN  /\ IF d.type = "Deleted" THEN DeleteAction(history[r].key, d)
                                    ELSE QueueAction(history[r].key, d)
           /\ reflector' = [reflector EXCEPT !.revision = r]
    /\ UNCHANGED <<history, count, handling, indexer, notices, ghosts>>

\* An error ends the watch: a second later everything is listed again.  (A
\* watch that is closed, or whose connection is refused, goes on from its
\* revision.)
WatchFails ==
    /\ reflector.at = "watch"
    /\ lists < MaxLists
    /\ reflector' = [reflector EXCEPT !.at = "list"]
    /\ UNCHANGED <<history, fifo, handling, indexer, notices, ghosts>>

\* Mutant: also for objects with something queued.
ResyncedAll ==
    [k \in Keys |-> IF indexer[k] # 0 THEN Queued(items[k], Delta("Sync", indexer[k]))
                                      ELSE items[k]]

\* Mutant: the resync period is 0.
ResyncedNever == items

\* Resync, every 30 s: a Sync for every known object with nothing queued.
Resynced ==
    [k \in Keys |-> IF indexer[k] # 0 /\ items[k] = <<>>
                    THEN <<Delta("Sync", indexer[k])>> ELSE items[k]]

Quiet == Len(notices) <= MaxPending

Resync ==
    /\ reflector.at = "watch"
    /\ Unlocked
    /\ Quiet
    /\ items' = Resynced
    /\ \E ks \in Unqueued({k \in Keys : indexer[k] # 0}) : queue' = queue \o ks
    /\ UNCHANGED <<history, reflector, count, handling, indexer, notices, ghosts>>

-----------------------------------------------------------------------------
(* processLoop and the handlers.                                           *)

\* Pop, up to the call of HandleDeltas.
Pop ==
    /\ Unlocked
    /\ queue # <<>>
    /\ handling' = [key |-> Head(queue), deltas |-> items[Head(queue)]]
    /\ queue' = Tail(queue)
    /\ items' = [items EXCEPT ![Head(queue)] = <<>>]
    /\ count' = IF count = None \/ count = 0 THEN count ELSE count - 1
    /\ UNCHANGED <<history, reflector, indexer, notices, ghosts>>

\* HandleDeltas, one delta: the indexer first, then distribute.
HandleDelta ==
    /\ handling.deltas # <<>>
    /\ LET k == handling.key
           d == Head(handling.deltas)
           kind == IF d.type = "Deleted" THEN "delete"
                   ELSE IF d.type = "Unknown" THEN "tombstone"
                   ELSE IF indexer[k] # 0 THEN "update" ELSE "add"
       IN  /\ indexer' = [indexer EXCEPT ![k] = IF IsDeletion(d) THEN 0 ELSE d.revision]
           /\ notices' = Append(notices, [kind |-> kind, key |-> k])
    /\ handling' = [handling EXCEPT !.deltas = Tail(@)]
    /\ first' = IF Len(handling.deltas) = 1 THEN first \ {handling.key} ELSE first
    /\ UNCHANGED <<history, reflector, fifo, untold, lists, listed>>

\* The key of the object goes to the work queue.
enqueue(k) ==
    /\ notices' = Tail(notices)
    /\ untold' = untold \ {k}
    /\ UNCHANGED <<history, reflector, fifo, handling, indexer, first, lists, listed>>

\* The next notification, which the listener's goroutine hands over.
Notified(kind, k) == notices # <<>> /\ Head(notices) = [kind |-> kind, key |-> k]

\* The handlers; delete takes the object out of a tombstone first.
add(k) == Notified("add", k) /\ enqueue(k)
update(k) == Notified("update", k) /\ enqueue(k)
delete(k) == (Notified("delete", k) \/ Notified("tombstone", k)) /\ enqueue(k)
Handler(k) == add(k) \/ update(k) \/ delete(k)

\* Mutant: the list arrived, though nobody handled it yet.
HasPopulated == Unlocked /\ count # None

\* WaitForCacheSync polls HasSynced, which takes the lock of the DeltaFIFO.
HasSynced == Unlocked /\ count = 0

Next ==
    \/ \E k \in Keys : Write(k) \/ Erase(k) \/ Handler(k)
    \/ \E r \in 0 .. Now : List(r)
    \/ WatchEvent \/ WatchFails \/ Resync \/ Pop \/ HandleDelta

Spec == Init /\ [][Next]_vars

\* The goroutines of the informer go on, and who waits for the lock of the
\* DeltaFIFO gets it in the end.  Writes and failures need not happen.
Fairness ==
    /\ SF_vars(\E r \in 0 .. Now : List(r))
    /\ SF_vars(WatchEvent) /\ SF_vars(Resync) /\ SF_vars(Pop)
    /\ WF_vars(HandleDelta)
    /\ WF_vars(\E k \in Keys : Handler(k))

FairSpec == Spec /\ Fairness

-----------------------------------------------------------------------------
(* Properties.                                                             *)

DeltaTypes == {"Sync", "Added", "Updated", "Deleted", "Unknown"}
Deltas == [type : DeltaTypes, revision : Nat]
Notices == [kind : {"add", "update", "delete", "tombstone"}, key : Keys]

TypeOK ==
    /\ history \in Seq([key : Keys, exists : BOOLEAN])
    /\ reflector \in [at : {"list", "watch"}, revision : Nat]
    /\ reflector.revision <= Now
    /\ items \in [Keys -> Seq(Deltas)]
    /\ queue \in Seq(Keys)
    /\ count \in Nat \cup {None}
    /\ handling \in [key : Keys \cup {None}, deltas : Seq(Deltas)]
    /\ indexer \in [Keys -> Nat]
    /\ notices \in Seq(Notices)
    /\ untold \subseteq Keys
    /\ first \subseteq Keys
    /\ lists \in 0 .. MaxLists
    /\ listed \in Nat

\* "Items in the set are in the queue and vice versa": a key with deltas is
\* queued, once, so that Pop gets to it, and one without is not.
QueueHoldsItems ==
    /\ \A k \in Keys : items[k] # <<>> <=> \E i \in 1 .. Len(queue) : queue[i] = k
    /\ \A i, j \in 1 .. Len(queue) : queue[i] = queue[j] => i = j

\* Where the news of k still is: to be listed, to be watched, in the fifo, in
\* HandleDeltas, or among the notifications.
OnItsWay(k) ==
    \/ reflector.at = "list"
    \/ \E i \in 1 .. Now : i > reflector.revision /\ history[i].key = k
    \/ items[k] # <<>>
    \/ handling.key = k /\ handling.deltas # <<>>
    \/ \E i \in 1 .. Len(notices) : notices[i].key = k

\* No write is lost between the API server and the work queue, whatever list
\* lags behind, watch fails, or delta is merged or left out: an object that
\* was not enqueued since its last write will be.
NothingMissed == \A k \in untold : Exists(k) => OnItsWay(k)

\* The workers start with a cache that holds the first list: when HasSynced
\* says so, every object of that list went through HandleDeltas.
SyncedHoldsFirstList == HasSynced => first = {}

\* The cache never goes back to an older state of an object: a resync does
\* not overtake a change that is already queued.  (A second list may come
\* from a server that lags behind the first.)
NeverBackwards ==
    [][\A k \in Keys : lists' <= 1 /\ indexer'[k] # 0 => indexer'[k] >= indexer[k]]_vars

\* What the cache says of k once the deltas ds are handled.
After(ds, cached) ==
    IF ds = <<>> THEN cached ELSE IF IsDeletion(Last(ds)) THEN 0 ELSE Last(ds).revision

\* What it says of k once all that is queued is handled.
Coming(k) ==
    After(items[k], IF handling.key = k THEN After(handling.deltas, indexer[k])
                                        ELSE indexer[k])

\* The watch reported a write to k since the last list.
Reported(k) ==
    \E i \in 1 .. Now : listed < i /\ i <= reflector.revision /\ history[i].key = k

\* The cache is right: it is going to show every object as the watch left it,
\* none that is gone and none too old.  Only a second list can spoil that, and
\* only for objects that were not written since.
CacheIsRight ==
    \A k \in Keys :
        lists <= 1 \/ Reported(k) => Coming(k) = ObjectAt(k, reflector.revision)

\* Every change of an object that stays is followed by a call of enqueue.
ChangesAreSeen == \A k \in Keys : (k \in untold /\ Exists(k)) ~> (k \notin untold \/ ~Exists(k))

\* A cached object is enqueued again and again, changed or not: the resync is
\* the only retry of a key that handleErr dropped.
CachedReturn ==
    \A k \in Keys : <>[](indexer[k] # 0) => []<><<Handler(k)>>_vars

\* What the reflector promises of the cache: "it's fine for the List() to be
\* served from cache and potentially be delayed relative to etcd contents.
\* Reflector framework will catch up via Watch() eventually."
CacheCatchesUp == \A k \in Keys : <>[]Exists(k) => <>[](indexer[k] # 0)

-----------------------------------------------------------------------------
(* What makes the safety properties inductive.                             *)

\* A deletion leaves nothing to tell.
UntoldExists == \A k \in untold : Exists(k)

\* HandleDeltas is at work on a key.
HandlingKey == ~Unlocked => handling.key \in Keys

\* Nothing moves before the first list, and there is one to come.
FirstListComes ==
    /\ reflector.at = "list" => lists < MaxLists
    /\ lists = 0 <=> count = None
    /\ lists = 0 =>
          /\ reflector.at = "list" /\ Unlocked /\ queue = <<>> /\ first = {}
          /\ \A k \in Keys : items[k] = <<>> /\ indexer[k] = 0

\* The keys of the first list are the first that Pop takes, and counts.
FirstInFront ==
    count # None =>
        /\ count <= Len(queue)
        /\ \A k \in first :
              \/ \E i \in 1 .. count : queue[i] = k
              \/ ~Unlocked /\ handling.key = k

\* While the first list is the only one: the deltas of a key are in the order
\* of its writes, and the cache is behind them.
Between(ds, low, high) ==
    /\ \A i \in 1 .. Len(ds) : low <= ds[i].revision /\ ds[i].revision <= high
    /\ \A i, j \in 1 .. Len(ds) : i <= j => ds[i].revision <= ds[j].revision

KeyInOrder(k) ==
    /\ indexer[k] <= reflector.revision
    /\ Between(items[k], indexer[k], reflector.revision)
    /\ handling.key = k =>
          /\ Between(handling.deltas, indexer[k], reflector.revision)
          /\ \A i \in 1 .. Len(handling.deltas), j \in 1 .. Len(items[k]) :
                handling.deltas[i].revision <= items[k][j].revision

\* What is cached, or is going to be, is what somebody wrote.
Written(k, r) == r \in 1 .. Now /\ history[r] = [key |-> k, exists |-> TRUE]

AllWritten(k, ds) ==
    \A i \in 1 .. Len(ds) : IsDeletion(ds[i]) \/ Written(k, ds[i].revision)

CacheHoldsWrites ==
    \A k \in Keys :
        /\ indexer[k] # 0 => Written(k, indexer[k])
        /\ AllWritten(k, items[k])
        /\ handling.key = k => AllWritten(k, handling.deltas)

DeltasInOrder == lists <= 1 => \A k \in Keys : KeyInOrder(k)

\* All of it, from any state that has it to the next.
IInv ==
    /\ TypeOK
    /\ UntoldExists
    /\ NothingMissed
    /\ QueueHoldsItems
    /\ HandlingKey
    /\ FirstListComes
    /\ FirstInFront
    /\ DeltasInOrder
    /\ CacheIsRight
    /\ CacheHoldsWrites
=============================================================================
