--------------------------- MODULE InformerProofs ---------------------------
(***************************************************************************)
(* Proofs about Informer, for any keys and bounds: its inductive invariant *)
(* and the properties that follow from it.                                 *)
(***************************************************************************)
EXTENDS Informer, SequenceTheorems, FiniteSetTheorems, TLAPS

-----------------------------------------------------------------------------
(* What the operators do.                                                  *)

\* SetToSeqs lists every element of a finite set once.
LEMMA ListingOfSet ==
    ASSUME NEW S, IsFiniteSet(S), NEW s \in SetToSeqs(S)
    PROVE  /\ s \in Seq(S)
           /\ Len(s) = Cardinality(S)
           /\ \A i, j \in 1 .. Len(s) : s[i] = s[j] => i = j
           /\ \A x \in S : \E i \in 1 .. Len(s) : s[i] = x
<1> DEFINE D == 1 .. Cardinality(S)
<1>1. Cardinality(S) \in Nat
  BY FS_CardinalityType
<1>2. /\ s \in [D -> S]
      /\ \A i, j \in D : i # j => s[i] # s[j]
  BY DEF SetToSeqs
<1>3. s \in Seq(S) /\ Len(s) = Cardinality(S)
  BY <1>1, <1>2
<1>4. s \in Injection(D, S)
  BY <1>2, Zenon DEF Injection, IsInjective
<1>5. IsFiniteSet(D) /\ Cardinality(D) = Cardinality(S)
  BY <1>1, FS_Interval
<1>6. s \in Surjection(D, S)
  BY <1>4, <1>5, FS_Injection
<1>7. \A x \in S : \E i \in D : s[i] = x
  BY <1>6 DEF Surjection
<1> QED
  BY <1>2, <1>3, <1>7

\* The writes to k among the first r, and whether the last one leaves k there.
LEMMA LatestWrite ==
    ASSUME NEW h, NEW k, NEW r \in Nat, NEW o,
           o = LET writes == {i \in 1 .. r : h[i].key = k}
               IN  IF \E i \in writes : h[i].exists /\ \A j \in writes : j <= i
                   THEN CHOOSE i \in writes : \A j \in writes : j <= i
                   ELSE 0
    PROVE  /\ o \in 0 .. r
           /\ o # 0 <=> \E i \in 1 .. r : /\ h[i].key = k /\ h[i].exists
                                         /\ \A j \in 1 .. r : h[j].key = k => j <= i
<1> DEFINE writes == {i \in 1 .. r : h[i].key = k}
           Latest(i) == \A j \in writes : j <= i
           There == \E i \in writes : h[i].exists /\ Latest(i)
           top == CHOOSE i \in writes : Latest(i)
           Kept == \E i \in 1 .. r : /\ h[i].key = k /\ h[i].exists
                                    /\ \A j \in 1 .. r : h[j].key = k => j <= i
<1>1. o = IF There THEN top ELSE 0
  OBVIOUS
<1>2. There => top \in writes
  <2> HIDE DEF writes, Latest
  <2> QED
    BY Zenon
<1>3. writes \subseteq 1 .. r
  OBVIOUS
<1>4. There <=> Kept
  OBVIOUS
<1> SUFFICES o \in 0 .. r /\ (o # 0 <=> Kept)
  OBVIOUS
<1> HIDE DEF There, writes, top, Kept
<1>5. There => top \in 1 .. r
  BY <1>2, <1>3
<1> QED
  BY <1>1, <1>4, <1>5

\* The last write to k, among the first r, is one that keeps it.
LastKeeps(h, k, r) ==
    \E i \in 1 .. r : /\ h[i].key = k /\ h[i].exists
                     /\ \A j \in 1 .. r : h[j].key = k => j <= i

LEMMA ObjectThere ==
    ASSUME TypeOK, NEW k \in Keys, NEW r \in 0 .. Now
    PROVE  /\ ObjectAt(k, r) \in 0 .. r
           /\ ObjectAt(k, r) # 0 <=> LastKeeps(history, k, r)
<1>1. r \in Nat
  BY DEF TypeOK, Now
<1> QED
  BY <1>1, LatestWrite DEF ObjectAt, LastKeeps

\* Exists, before and after a step.
LEMMA ExistsThere ==
    ASSUME NEW k \in Keys
    PROVE  /\ TypeOK => (Exists(k) <=> LastKeeps(history, k, Now))
           /\ TypeOK' => (Exists(k)' <=> LastKeeps(history', k, Now'))
<1>1. TypeOK => Now \in Nat
  BY DEF TypeOK, Now
<1>2. TypeOK' => Now' \in Nat
  BY DEF TypeOK, Now
<1>3. TypeOK => (Exists(k) <=> LastKeeps(history, k, Now))
  BY <1>1, LatestWrite DEF Exists, ObjectAt, LastKeeps
<1>4. TypeOK' => (Exists(k)' <=> LastKeeps(history', k, Now'))
  BY <1>2, LatestWrite DEF Exists, ObjectAt, LastKeeps
<1> QED
  BY <1>3, <1>4

\* All but the last element.
LEMMA FrontOf ==
    ASSUME NEW S, NEW s \in Seq(S), s # <<>>
    PROVE  /\ Len(s) \in Nat \ {0}
           /\ Front(s) \in Seq(S) /\ Len(Front(s)) = Len(s) - 1
           /\ \A i \in 1 .. Len(s) - 1 : Front(s)[i] = s[i]
<1>1. Len(s) \in Nat \ {0}
  OBVIOUS
<1>2. /\ SubSeq(s, 1, Len(s) - 1) \in Seq(S)
      /\ Len(SubSeq(s, 1, Len(s) - 1)) = Len(s) - 1
      /\ \A i \in 1 .. Len(s) - 1 : SubSeq(s, 1, Len(s) - 1)[i] = s[i]
  <2>1. \A i \in 1 .. Len(s) - 1 : s[i] \in S
    BY <1>1, ElementOfSeq
  <2> DEFINE n == Len(s) - 1
             f == SubSeq(s, 1, n)
  <2>2. n \in Nat /\ \A i \in 1 .. n : s[i] \in S
    BY <1>1, <2>1
  <2> HIDE DEF n
  <2>3. f \in Seq(S)
    <3>1. 1 \in Int /\ n \in Int
      BY <2>2
    <3> QED
      BY <2>2, <3>1, SubSeqProperties, Zenon
  <2>4. Len(f) = n
    BY <2>2
  <2>5. \A i \in 1 .. n : f[i] = s[i]
    BY <2>2
  <2> QED
    BY <2>3, <2>4, <2>5 DEF n
<1> QED
  BY <1>1, <1>2 DEF Front

\* What queueActionLocked makes of the deltas of a key.
LEMMA QueuedCases ==
    ASSUME NEW ds \in Seq(Deltas), NEW d \in Deltas
    PROVE  \/ ds = <<>> /\ Queued(ds, d) = <<d>>
           \/ ds # <<>> /\ Queued(ds, d) = ds
           \/ ds # <<>> /\ Queued(ds, d) = Append(ds, d)
           \/ ds # <<>> /\ Queued(ds, d) = Append(Front(ds), d)
<1>1. CASE ds = <<>>
  BY <1>1 DEF Queued
<1>2. CASE ds # <<>> /\ Queued(ds, d) # ds
  <2>1. ds # <<>>
    BY <1>2
  <2>2. /\ Front(ds) \in Seq(Deltas) /\ Len(Front(ds)) = Len(ds) - 1
        /\ \A i \in 1 .. Len(ds) - 1 : Front(ds)[i] = ds[i]
        /\ Len(ds) \in Nat \ {0}
    BY <2>1, FrontOf
  <2>3. Last(ds) \in Deltas /\ Last(ds) = ds[Len(ds)]
    BY <2>2 DEF Last
  <2>4. Front(ds) \o <<Last(ds)>> = ds
    BY <2>2, <2>3
  <2>5. Front(ds) \o <<Last(ds), d>> = Append(ds, d)
    BY <2>2, <2>3
  <2>6. Front(ds) \o <<d>> = Append(Front(ds), d)
    BY <2>2
  <2>7. Queued(ds, d) = Front(ds) \o Dedup(Last(ds), d)
    BY <1>2 DEF Queued
  <2>8. Dedup(Last(ds), d) \in {<<d>>, <<Last(ds)>>, <<Last(ds), d>>}
    BY DEF Dedup
  <2> QED
    BY <2>1, <2>4, <2>5, <2>6, <2>7, <2>8
<1> QED
  BY <1>1, <1>2

LEMMA QueuedType ==
    ASSUME NEW ds \in Seq(Deltas), NEW d \in Deltas
    PROVE  Queued(ds, d) \in Seq(Deltas) /\ Queued(ds, d) # <<>>
<1>1. ds # <<>> => Front(ds) \in Seq(Deltas)
  BY FrontOf
<1>2. \A s \in Seq(Deltas) : Append(s, d) \in Seq(Deltas) /\ Append(s, d) # <<>>
  BY AppendProperties
<1>3. <<d>> \in Seq(Deltas) /\ <<d>> # <<>>
  OBVIOUS
<1> HIDE DEF Deltas
<1> QED
  BY <1>1, <1>2, <1>3, QueuedCases

\* A delta that comes last goes last.
LEMMA QueuedBetween ==
    ASSUME NEW ds \in Seq(Deltas), NEW d \in Deltas, NEW low \in Nat, NEW high \in Nat,
           Between(ds, low, high), high <= d.revision, low <= d.revision
    PROVE  Between(Queued(ds, d), low, d.revision)
<1>1. \A i \in 1 .. Len(ds) : ds[i].revision \in Nat
  <2>1. \A i \in 1 .. Len(ds) : ds[i] \in Deltas
    BY ElementOfSeq
  <2> QED
    BY <2>1 DEF Deltas
<1>2. d.revision \in Nat
  BY DEF Deltas
<1>3. ds # <<>> => /\ Front(ds) \in Seq(Deltas) /\ Len(Front(ds)) = Len(ds) - 1
                   /\ \A i \in 1 .. Len(ds) - 1 : Front(ds)[i] = ds[i]
  BY FrontOf
<1>4. CASE ds = <<>> /\ Queued(ds, d) = <<d>>
  BY <1>2, <1>4 DEF Between
<1>5. CASE Queued(ds, d) = ds
  BY <1>1, <1>2, <1>5 DEF Between
<1>6. CASE Queued(ds, d) = Append(ds, d)
  BY <1>1, <1>2, <1>6 DEF Between
<1>7. CASE ds # <<>> /\ Queued(ds, d) = Append(Front(ds), d)
  <2> DEFINE es == Queued(ds, d)
             n == Len(ds)
  <2>1. n \in Nat \ {0} /\ Len(es) = n /\ es[n] = d
    BY <1>3, <1>7, FrontOf, AppendProperties
  <2>2. \A i \in 1 .. n - 1 : es[i] = ds[i]
    BY <1>3, <1>7, <2>1, AppendProperties
  <2> HIDE DEF es
  <2>3. \A i \in 1 .. n - 1 : es[i].revision \in Nat
                            /\ low <= es[i].revision /\ es[i].revision <= d.revision
    BY <1>1, <1>2, <2>1, <2>2 DEF Between
  <2>4. \A i, j \in 1 .. n - 1 : i <= j => es[i].revision <= es[j].revision
    BY <1>1, <2>1, <2>2 DEF Between
  <2>5. 1 .. n = (1 .. n - 1) \cup {n}
    BY <2>1
  <2>6. Between(es, low, d.revision)
    BY <1>2, <2>1, <2>3, <2>4, <2>5 DEF Between
  <2> QED
    BY <2>6 DEF es
<1> QED
  BY <1>4, <1>5, <1>6, <1>7, QueuedCases

-----------------------------------------------------------------------------
(* What the steps of the reflector do to the fifo.                         *)

\* The keys that a list or a resync adds to the queue.
LEMMA UnqueuedListing ==
    ASSUME TypeOK, NEW S \in SUBSET Keys, NEW s \in Unqueued(S)
    PROVE  /\ s \in Seq(Keys)
           /\ \A i, j \in 1 .. Len(s) : s[i] = s[j] => i = j
           /\ \A i \in 1 .. Len(s) : s[i] \in S /\ items[s[i]] = <<>>
           /\ \A k \in S : items[k] = <<>> => \E i \in 1 .. Len(s) : s[i] = k
           /\ Len(s) = Cardinality({k \in S : items[k] = <<>>})
<1> DEFINE T == {k \in S : items[k] = <<>>}
<1>1. IsFiniteSet(T) /\ T \subseteq Keys
  BY KeysAssumption, FS_Subset
<1>2. s \in SetToSeqs(T)
  BY DEF Unqueued
<1>3. /\ s \in Seq(T)
      /\ Len(s) = Cardinality(T)
      /\ \A i, j \in 1 .. Len(s) : s[i] = s[j] => i = j
      /\ \A x \in T : \E i \in 1 .. Len(s) : s[i] = x
  <2> HIDE DEF T
  <2> QED
    BY <1>1, <1>2, ListingOfSet, Zenon
<1>4. s \in Seq(Keys)
  BY <1>1, <1>3, SeqMonotonic
<1>5. \A i \in 1 .. Len(s) : s[i] \in T
  BY <1>3, ElementOfSeq
<1> QED
  BY <1>3, <1>4, <1>5

LEMMA ReplacedItems ==
    ASSUME TypeOK, NEW r \in 0 .. Now
    PROVE  /\ Replaced(r) \in [Keys -> Seq(Deltas)]
           /\ \A k \in Keys : Replaced(r)[k] # <<>> <=>
                 items[k] # <<>> \/ k \in Listed(r) \/ k \in Vanished(r)
<1> SUFFICES ASSUME NEW k \in Keys
             PROVE  /\ Replaced(r)[k] \in Seq(Deltas)
                    /\ Replaced(r)[k] # <<>> <=>
                          items[k] # <<>> \/ k \in Listed(r) \/ k \in Vanished(r)
  BY DEF Replaced
<1>1. items[k] \in Seq(Deltas)
  BY DEF TypeOK
<1>2. Delta("Sync", ObjectAt(k, r)) \in Deltas
  <2>1. ObjectAt(k, r) \in Nat
    BY ObjectThere DEF TypeOK, Now
  <2> QED
    BY <2>1 DEF Delta, Deltas, DeltaTypes
<1>3. Tombstone(k) \in Deltas
  BY DEF Tombstone, Deltas, DeltaTypes, TypeOK
<1>4. /\ Queued(items[k], Delta("Sync", ObjectAt(k, r))) \in Seq(Deltas) \ {<<>>}
      /\ Queued(items[k], Tombstone(k)) \in Seq(Deltas) \ {<<>>}
  BY <1>1, <1>2, <1>3, QueuedType
<1>5. Replaced(r)[k] =
        IF ObjectAt(k, r) # 0 THEN Queued(items[k], Delta("Sync", ObjectAt(k, r)))
        ELSE IF indexer[k] # 0 THEN Queued(items[k], Tombstone(k))
        ELSE items[k]
  BY DEF Replaced
<1> QED
  BY <1>1, <1>4, <1>5 DEF Listed, Vanished

LEMMA ResyncedItems ==
    ASSUME TypeOK
    PROVE  /\ Resynced \in [Keys -> Seq(Deltas)]
           /\ \A k \in Keys : Resynced[k] # <<>> <=> items[k] # <<>> \/ indexer[k] # 0
<1> SUFFICES ASSUME NEW k \in Keys
             PROVE  /\ Resynced[k] \in Seq(Deltas)
                    /\ Resynced[k] # <<>> <=> items[k] # <<>> \/ indexer[k] # 0
  BY DEF Resynced
<1>1. items[k] \in Seq(Deltas)
  BY DEF TypeOK
<1>2. Delta("Sync", indexer[k]) \in Deltas
  BY DEF Delta, Deltas, DeltaTypes, TypeOK
<1>3. <<Delta("Sync", indexer[k])>> \in Seq(Deltas) \ {<<>>}
  BY <1>2
<1>4. Resynced[k] = IF indexer[k] # 0 /\ items[k] = <<>>
                    THEN <<Delta("Sync", indexer[k])>> ELSE items[k]
  BY DEF Resynced
<1> QED
  BY <1>1, <1>3, <1>4

\* One event of the watch: the next revision goes into the fifo, unless it is
\* the deletion of an object nobody knows.
LEMMA WatchEventDoes ==
    ASSUME TypeOK, WatchEvent,
           NEW r, r = reflector.revision + 1,
           NEW k, k = history[r].key,
           NEW d, d = Delta(EventType(r), r)
    PROVE  /\ r \in 1 .. Now /\ k \in Keys
           /\ d \in Deltas /\ d.revision = r
           /\ reflector' = [at |-> "watch", revision |-> r]
           /\ \/ QueueAction(k, d)
              \/ /\ ~history[r].exists
                 /\ UNCHANGED <<items, queue>>
<1>1. r \in 1 .. Now
  <2>1. Now \in Nat /\ reflector.revision \in Nat
    BY DEF TypeOK, Now
  <2> QED
    BY <2>1 DEF WatchEvent
<1>2. k \in Keys
  <2>1. history[r] \in [key : Keys, exists : BOOLEAN]
    BY <1>1, ElementOfSeq DEF TypeOK, Now
  <2> QED
    BY <2>1
<1>3. d \in Deltas /\ d.revision = r
  BY <1>1 DEF Delta, EventType, Deltas, DeltaTypes
<1>4. reflector' = [at |-> "watch", revision |-> r]
  BY DEF TypeOK, WatchEvent
<1>5. \/ QueueAction(k, d)
      \/ d.type = "Deleted" /\ UNCHANGED <<items, queue>>
  BY DEF WatchEvent, DeleteAction
<1>6. d.type = "Deleted" => ~history[r].exists
  BY DEF Delta, EventType
<1> QED
  BY <1>1, <1>2, <1>3, <1>4, <1>5, <1>6

LEMMA QueueActionDoes ==
    ASSUME TypeOK, NEW k \in Keys, NEW d \in Deltas, QueueAction(k, d)
    PROVE  /\ items' \in [Keys -> Seq(Deltas)]
           /\ queue' \in Seq(Keys)
           /\ items' = [items EXCEPT ![k] = Queued(items[k], d)]
           /\ items'[k] # <<>>
           /\ \A j \in Keys \ {k} : items'[j] = items[j]
           /\ queue' = IF items[k] = <<>> THEN Append(queue, k) ELSE queue
<1>1. items \in [Keys -> Seq(Deltas)] /\ queue \in Seq(Keys)
  BY DEF TypeOK
<1>2. Queued(items[k], d) \in Seq(Deltas) /\ Queued(items[k], d) # <<>>
  BY <1>1, QueuedType
<1>3. items' = [items EXCEPT ![k] = Queued(items[k], d)]
  BY DEF QueueAction
<1>4. queue' = IF items[k] = <<>> THEN Append(queue, k) ELSE queue
  BY DEF QueueAction
<1>5. queue' \in Seq(Keys)
  BY <1>1, <1>4, AppendProperties
<1> HIDE DEF QueueAction
<1>6. items' \in [Keys -> Seq(Deltas)]
  BY <1>1, <1>2, <1>3
<1>7. items'[k] # <<>> /\ \A j \in Keys \ {k} : items'[j] = items[j]
  BY <1>1, <1>2, <1>3
<1> QED
  BY <1>3, <1>4, <1>5, <1>6, <1>7

LEMMA HandlerDoes ==
    ASSUME NEW k \in Keys, Handler(k)
    PROVE  notices # <<>> /\ Head(notices).key = k /\ enqueue(k)
BY DEF Handler, add, update, delete, Notified

LEMMA ListedKeys ==
    ASSUME NEW r
    PROVE  /\ Listed(r) \subseteq Keys /\ IsFiniteSet(Listed(r))
           /\ Vanished(r) \subseteq Keys /\ IsFiniteSet(Vanished(r))
           /\ Cardinality(Listed(r)) \in Nat /\ Cardinality(Vanished(r)) \in Nat
<1>1. Listed(r) \subseteq Keys /\ Vanished(r) \subseteq Keys
  BY DEF Listed, Vanished
<1> QED
  BY <1>1, KeysAssumption, FS_Subset, FS_CardinalityType

-----------------------------------------------------------------------------
(* Types.                                                                  *)

LEMMA InitTypes ==
    ASSUME Init
    PROVE  TypeOK /\ HandlingKey
<1>1. PICK ks \in SetToSeqs(Existing) :
          history = [i \in 1 .. Len(ks) |-> [key |-> ks[i], exists |-> TRUE]]
  BY DEF Init
<1>2. ks \in Seq(Existing)
  BY ExistingAssumption, KeysAssumption, FS_Subset, ListingOfSet
<1>3. \A i \in 1 .. Len(ks) : ks[i] \in Keys
  BY <1>2, ElementOfSeq, ExistingAssumption
<1>4. Len(ks) \in Nat
  BY <1>2
<1>5. history \in Seq([key : Keys, exists : BOOLEAN]) /\ Now \in Nat
  BY <1>1, <1>3, <1>4 DEF Now
<1>6. <<>> \in Seq(Deltas) /\ <<>> \in Seq(Keys) /\ <<>> \in Seq(Notices)
  BY EmptySeq
<1> QED
  BY <1>5, <1>6, ExistingAssumption, BoundsAssumption
  DEF Init, TypeOK, HandlingKey, Unlocked

LEMMA TypesKept ==
    ASSUME TypeOK, HandlingKey, FirstListComes, [Next]_vars
    PROVE  TypeOK' /\ HandlingKey'
<1> DEFINE Writes == [key : Keys, exists : BOOLEAN]
<1>1. ASSUME NEW k \in Keys, Write(k) \/ Erase(k)
      PROVE  TypeOK' /\ HandlingKey'
  <2>1. PICK w \in Writes : history' = Append(history, w)
    BY <1>1 DEF Write, Erase
  <2>2. history \in Seq(Writes)
    BY DEF TypeOK
  <2>3. history' \in Seq(Writes) /\ Now' = Now + 1 /\ Now \in Nat
    BY <2>1, <2>2, AppendProperties DEF Now
  <2>4. UNCHANGED <<reflector, fifo, handling, indexer, notices, first, lists, listed>>
    BY <1>1 DEF Write, Erase
  <2>5. untold' \subseteq Keys
    BY <1>1 DEF Write, Erase, TypeOK
  <2>6. reflector.revision <= Now'
    BY <2>3 DEF TypeOK
  <2> QED
    BY <2>3, <2>4, <2>5, <2>6 DEF TypeOK, HandlingKey, Unlocked, fifo
<1>2. ASSUME NEW k \in Keys, Handler(k)
      PROVE  TypeOK' /\ HandlingKey'
  <2>1. notices # <<>> /\ enqueue(k)
    BY <1>2, HandlerDoes
  <2>2. notices' \in Seq(Notices)
    BY <2>1, HeadTailProperties DEF enqueue, TypeOK
  <2> QED
    BY <2>1, <2>2 DEF enqueue, TypeOK, HandlingKey, Unlocked, fifo, Now
<1>3. ASSUME NEW r \in 0 .. Now, List(r)
      PROVE  TypeOK' /\ HandlingKey'
  <2>1. items' \in [Keys -> Seq(Deltas)]
    BY <1>3, ReplacedItems DEF List, Replace
  <2>2. PICK ls \in Unqueued(Listed(r)), vs \in Unqueued(Vanished(r)) :
            queue' = queue \o ls \o vs
    BY <1>3 DEF List, Replace
  <2>3. ls \in Seq(Keys) /\ vs \in Seq(Keys) /\ queue \in Seq(Keys)
    BY ListedKeys, UnqueuedListing DEF TypeOK
  <2>4. queue' \in Seq(Keys)
    BY <2>2, <2>3, ConcatProperties
  <2>5. count' \in Nat \cup {None}
    BY <1>3, ListedKeys DEF List, Replace, TypeOK
  <2>6. reflector' \in [at : {"list", "watch"}, revision : Nat] /\ reflector'.revision = r
    BY <1>3 DEF List, TypeOK, Now
  <2>7. first' \subseteq Keys
    BY <1>3, ListedKeys DEF List, TypeOK
  <2>8. lists' \in 0 .. MaxLists
    BY <1>3, BoundsAssumption DEF List, TypeOK, FirstListComes
  <2>9. UNCHANGED <<history, handling, indexer, notices, untold>>
    BY <1>3 DEF List
  <2>10. r <= Now /\ listed' \in Nat
    BY <1>3 DEF List, TypeOK, Now
  <2> QED
    BY <2>1, <2>4, <2>5, <2>6, <2>7, <2>8, <2>9, <2>10 DEF TypeOK, HandlingKey, Unlocked, Now
<1>4. CASE WatchEvent
  <2> DEFINE r == reflector.revision + 1
             k == history[r].key
             d == Delta(EventType(r), r)
  <2>1. /\ r \in 1 .. Now /\ k \in Keys /\ d \in Deltas
        /\ reflector' = [at |-> "watch", revision |-> r]
        /\ QueueAction(k, d) \/ UNCHANGED <<items, queue>>
    BY <1>4, WatchEventDoes
  <2> HIDE DEF k, d
  <2>2. items' \in [Keys -> Seq(Deltas)] /\ queue' \in Seq(Keys)
    <3>1. CASE QueueAction(k, d)
      BY <2>1, <3>1, QueueActionDoes
    <3>2. CASE UNCHANGED <<items, queue>>
      BY <3>2 DEF TypeOK
    <3> QED
      BY <2>1, <3>1, <3>2
  <2>3. UNCHANGED <<history, count, handling, indexer, notices, ghosts>>
    BY <1>4 DEF WatchEvent
  <2>4. reflector' \in [at : {"list", "watch"}, revision : Nat] /\ reflector'.revision <= Now
    BY <2>1 DEF Now, TypeOK
  <2> QED
    BY <2>2, <2>3, <2>4 DEF TypeOK, HandlingKey, Unlocked, Now, ghosts
<1>5. CASE WatchFails
  BY <1>5 DEF WatchFails, TypeOK, HandlingKey, Unlocked, Now, fifo, ghosts
<1>6. CASE Resync
  <2>1. items' \in [Keys -> Seq(Deltas)]
    BY <1>6, ResyncedItems DEF Resync
  <2>2. PICK ks \in Unqueued({k \in Keys : indexer[k] # 0}) : queue' = queue \o ks
    BY <1>6 DEF Resync
  <2>3. ks \in Seq(Keys) /\ queue \in Seq(Keys)
    BY UnqueuedListing DEF TypeOK
  <2>4. queue' \in Seq(Keys)
    BY <2>2, <2>3, ConcatProperties
  <2> QED
    BY <1>6, <2>1, <2>4 DEF Resync, TypeOK, HandlingKey, Unlocked, Now, ghosts
<1>7. CASE Pop
  <2>1. Head(queue) \in Keys /\ Tail(queue) \in Seq(Keys)
    BY <1>7, HeadTailProperties DEF Pop, TypeOK
  <2>2. items[Head(queue)] \in Seq(Deltas) /\ <<>> \in Seq(Deltas)
    BY <2>1 DEF TypeOK
  <2>3. items' \in [Keys -> Seq(Deltas)]
    BY <1>7, <2>2 DEF Pop, TypeOK
  <2>4. handling' \in [key : Keys \cup {None}, deltas : Seq(Deltas)] /\ handling'.key \in Keys
    BY <1>7, <2>1, <2>2 DEF Pop
  <2>5. count' \in Nat \cup {None}
    BY <1>7 DEF Pop, TypeOK
  <2>6. queue' \in Seq(Keys) /\ UNCHANGED <<history, reflector, indexer, notices, ghosts>>
    BY <1>7, <2>1 DEF Pop
  <2> QED
    BY <2>3, <2>4, <2>5, <2>6 DEF TypeOK, HandlingKey, Now, ghosts
<1>8. CASE HandleDelta
  <2> DEFINE k == handling.key
             d == Head(handling.deltas)
  <2>1. handling.deltas \in Seq(Deltas) \ {<<>>} /\ k \in Keys
    BY <1>8 DEF HandleDelta, TypeOK, HandlingKey, Unlocked
  <2>2. d \in Deltas /\ Tail(handling.deltas) \in Seq(Deltas)
    BY <2>1, HeadTailProperties
  <2>3. PICK kind \in {"add", "update", "delete", "tombstone"} :
            notices' = Append(notices, [kind |-> kind, key |-> k])
    BY <1>8 DEF HandleDelta
  <2>4. notices' \in Seq(Notices)
    BY <2>1, <2>3, AppendProperties DEF TypeOK, Notices
  <2>5. indexer' \in [Keys -> Nat]
    BY <1>8, <2>2 DEF HandleDelta, TypeOK, Deltas
  <2>6. handling' = [handling EXCEPT !.deltas = Tail(handling.deltas)]
    BY <1>8 DEF HandleDelta
  <2>7. handling' \in [key : Keys \cup {None}, deltas : Seq(Deltas)] /\ handling'.key = k
    BY <2>2, <2>6 DEF TypeOK
  <2>8. first' \subseteq Keys
    BY <1>8 DEF HandleDelta, TypeOK
  <2>9. UNCHANGED <<history, reflector, fifo, untold, lists, listed>>
    BY <1>8 DEF HandleDelta
  <2> QED
    BY <2>1, <2>4, <2>5, <2>7, <2>8, <2>9 DEF TypeOK, HandlingKey, Now, fifo
<1>9. CASE UNCHANGED vars
  BY <1>9 DEF vars, TypeOK, HandlingKey, Unlocked, Now, fifo, ghosts
<1> QED
  BY <1>1, <1>2, <1>3, <1>4, <1>5, <1>6, <1>7, <1>8, <1>9 DEF Next

-----------------------------------------------------------------------------
(* Nothing is missed.                                                      *)

\* A write comes after those before it.
LEMMA WriteAppended ==
    ASSUME TypeOK, NEW w \in [key : Keys, exists : BOOLEAN],
           history' = Append(history, w)
    PROVE  /\ Now \in Nat /\ Now' = Now + 1
           /\ history'[Now + 1] = w
           /\ \A i \in 1 .. Now : i \in 1 .. Now' /\ history'[i] = history[i]
<1>1. history \in Seq([key : Keys, exists : BOOLEAN])
  BY DEF TypeOK
<1>2. /\ Len(history') = Len(history) + 1
      /\ \A i \in 1 .. Len(history) : history'[i] = history[i]
      /\ history'[Len(history) + 1] = w
  BY <1>1, AppendProperties
<1>3. Len(history) \in Nat
  BY <1>1
<1> QED
  BY <1>2, <1>3 DEF Now

\* A write changes only whether its own object exists.
LEMMA WriteExists ==
    ASSUME TypeOK, TypeOK', NEW w \in [key : Keys, exists : BOOLEAN],
           history' = Append(history, w),
           NEW k \in Keys
    PROVE  /\ w.key # k => (Exists(k) <=> Exists(k)')
           /\ w.key = k => (w.exists <=> Exists(k)')
<1>1. /\ Now \in Nat /\ Now' = Now + 1
      /\ history'[Now + 1] = w
      /\ \A i \in 1 .. Now : history'[i] = history[i]
  BY WriteAppended
<1>2. 1 .. Now' = (1 .. Now) \cup {Now + 1}
  BY <1>1
<1>3. ASSUME w.key # k
      PROVE  LastKeeps(history, k, Now) <=> LastKeeps(history', k, Now')
  BY <1>1, <1>2, <1>3 DEF LastKeeps
<1>4. ASSUME w.key = k
      PROVE  w.exists <=> LastKeeps(history', k, Now')
  <2>1. Now + 1 \in 1 .. Now' /\ \A j \in 1 .. Now' : j <= Now + 1
    BY <1>1
  <2>2. ASSUME NEW i \in 1 .. Now', Now + 1 <= i
        PROVE  i = Now + 1
    BY <1>1, <2>2
  <2>3. w.exists => LastKeeps(history', k, Now')
    BY <1>1, <1>4, <2>1 DEF LastKeeps
  <2>4. LastKeeps(history', k, Now') => w.exists
    BY <1>1, <1>4, <2>1, <2>2 DEF LastKeeps
  <2> QED
    BY <2>3, <2>4
<1> QED
  BY <1>3, <1>4, ExistsThere

\* What is on its way stays there, as long as nothing of it is undone.
LEMMA StaysOnItsWay ==
    ASSUME NEW k, OnItsWay(k),
           UNCHANGED reflector,
           \A i \in 1 .. Now : i \in 1 .. Now' /\ history'[i] = history[i],
           items[k] # <<>> => items'[k] # <<>>,
           handling' = handling,
           \A i \in 1 .. Len(notices) : i \in 1 .. Len(notices') /\ notices'[i] = notices[i]
    PROVE  OnItsWay(k)'
BY DEF OnItsWay

LEMMA UntoldKept ==
    ASSUME TypeOK, TypeOK', HandlingKey, UntoldExists, NothingMissed, [Next]_vars
    PROVE  UntoldExists' /\ NothingMissed'
<1> DEFINE Writes == [key : Keys, exists : BOOLEAN]
<1>1. \A k \in untold : k \in Keys /\ Exists(k) /\ OnItsWay(k)
  BY DEF TypeOK, UntoldExists, NothingMissed
<1> SUFFICES ASSUME NEW k \in untold'
             PROVE  Exists(k)' /\ OnItsWay(k)'
  BY DEF UntoldExists, NothingMissed
<1>2. k \in Keys
  BY DEF TypeOK
<1>3. ASSUME UNCHANGED history, k \in untold
      PROVE  Exists(k)'
  <2>1. Exists(k)
    BY <1>1, <1>3
  <2>2. LastKeeps(history, k, Now)
    BY <1>2, <2>1, ExistsThere
  <2>3. LastKeeps(history', k, Now')
    BY <1>3, <2>2 DEF Now
  <2> QED
    BY <1>2, <2>3, ExistsThere
<1>4. ASSUME NEW j \in Keys, Write(j) \/ Erase(j)
      PROVE  Exists(k)' /\ OnItsWay(k)'
  <2>1. PICK w \in Writes : /\ history' = Append(history, w) /\ w.key = j
                            /\ untold' = IF w.exists THEN untold \cup {j} ELSE untold \ {j}
    <3> DEFINE W(e) == [key |-> j, exists |-> e]
    <3>1. W(TRUE) \in Writes /\ W(FALSE) \in Writes
      OBVIOUS
    <3>2. CASE Write(j)
      BY <3>1, <3>2 DEF Write
    <3>3. CASE Erase(j)
      BY <3>1, <3>3 DEF Erase
    <3> QED
      BY <1>4, <3>2, <3>3
  <2>2. /\ Now \in Nat /\ Now' = Now + 1 /\ history'[Now + 1] = w
        /\ \A i \in 1 .. Now : i \in 1 .. Now' /\ history'[i] = history[i]
    BY <2>1, WriteAppended
  <2>3. UNCHANGED <<reflector, fifo, handling, indexer, notices>>
    BY <1>4 DEF Write, Erase
  <2>4. CASE k = j /\ w.exists
    <3>1. Exists(k)'
      BY <1>2, <2>1, <2>4, WriteExists
    <3>2. /\ Now + 1 \in 1 .. Now' /\ Now + 1 > reflector'.revision
          /\ history'[Now + 1].key = k
      BY <2>1, <2>2, <2>3, <2>4 DEF TypeOK
    <3> QED
      BY <3>1, <3>2 DEF OnItsWay
  <2>5. CASE k # j \/ ~w.exists
    <3>1. k # j /\ k \in untold
      BY <2>1, <2>5
    <3>2. Exists(k)'
      BY <1>1, <1>2, <2>1, <3>1, WriteExists
    <3>3. OnItsWay(k)
      BY <1>1, <3>1
    <3>4. OnItsWay(k)'
      BY <2>2, <2>3, <3>3, StaysOnItsWay DEF fifo
    <3> QED
      BY <3>2, <3>4
  <2> QED
    BY <2>4, <2>5
<1>5. ASSUME NEW j \in Keys, Handler(j)
      PROVE  Exists(k)' /\ OnItsWay(k)'
  <2>1. notices # <<>> /\ Head(notices).key = j /\ enqueue(j)
    BY <1>5, HandlerDoes
  <2>2. k # j /\ k \in untold /\ UNCHANGED <<history, reflector, fifo, handling, indexer>>
    BY <2>1 DEF enqueue
  <2>3. Exists(k)' /\ OnItsWay(k)
    BY <1>1, <1>3, <2>2
  <2>4. ASSUME NEW i \in 1 .. Len(notices), notices[i].key = k
        PROVE  \E n \in 1 .. Len(notices') : notices'[n].key = k
    <3>1. /\ Head(notices) = notices[1]
          /\ Len(Tail(notices)) = Len(notices) - 1
          /\ \A n \in 1 .. Len(Tail(notices)) : Tail(notices)[n] = notices[n + 1]
          /\ Len(notices) \in Nat
      BY <2>1, HeadTailProperties DEF TypeOK
    <3>2. i # 1
      BY <2>1, <2>2, <2>4, <3>1
    <3>3. notices' = Tail(notices)
      BY <2>1 DEF enqueue
    <3>4. i - 1 \in 1 .. Len(notices') /\ notices'[i - 1] = notices[i]
      BY <3>1, <3>2, <3>3
    <3> QED
      BY <2>4, <3>4
  <2>5. OnItsWay(k)'
    BY <2>2, <2>3, <2>4 DEF OnItsWay, fifo, Now
  <2> QED
    BY <2>3, <2>5
<1>6. ASSUME NEW r \in 0 .. Now, List(r)
      PROVE  Exists(k)' /\ OnItsWay(k)'
  <2>1. k \in untold /\ UNCHANGED history /\ reflector' = [at |-> "watch", revision |-> r]
    BY <1>6 DEF List
  <2>2. Exists(k)'
    BY <1>3, <2>1
  <2>3. PICK i \in 1 .. Now : /\ history[i].key = k /\ history[i].exists
                              /\ \A n \in 1 .. Now : history[n].key = k => n <= i
    BY <1>1, <1>2, <2>1, ExistsThere DEF LastKeeps
  <2>4. CASE i > r
    <3>1. i \in 1 .. Now' /\ i > reflector'.revision /\ history'[i].key = k
      BY <2>1, <2>3, <2>4 DEF Now
    <3> QED
      BY <2>2, <3>1 DEF OnItsWay
  <2>5. CASE ~(i > r)
    <3>1. i \in 1 .. r /\ \A n \in 1 .. r : n \in 1 .. Now
      BY <2>5 DEF TypeOK, Now
    <3>2. LastKeeps(history, k, r)
      BY <2>3, <3>1 DEF LastKeeps
    <3>3. k \in Listed(r)
      BY <1>2, <3>2, ObjectThere DEF Listed
    <3>4. items'[k] # <<>>
      BY <1>2, <1>6, <3>3, ReplacedItems DEF List, Replace
    <3> QED
      BY <2>2, <3>4 DEF OnItsWay
  <2> QED
    BY <2>2, <2>4, <2>5
<1>7. CASE WatchEvent
  <2> DEFINE r == reflector.revision + 1
             j == history[r].key
             d == Delta(EventType(r), r)
  <2>1. /\ r \in 1 .. Now /\ j \in Keys /\ d \in Deltas
        /\ reflector' = [at |-> "watch", revision |-> r]
        /\ QueueAction(j, d) \/ (~history[r].exists /\ UNCHANGED <<items, queue>>)
    BY <1>7, WatchEventDoes
  <2>2. /\ k \in untold /\ UNCHANGED <<history, handling, notices>>
        /\ reflector.at = "watch"
    BY <1>7 DEF WatchEvent, ghosts
  <2>3. Exists(k)' /\ OnItsWay(k)
    BY <1>1, <1>3, <2>2
  <2>4. PICK i \in 1 .. Now : /\ history[i].key = k /\ history[i].exists
                              /\ \A n \in 1 .. Now : history[n].key = k => n <= i
    BY <1>1, <1>2, <2>2, ExistsThere DEF LastKeeps
  <2> HIDE DEF d
  <2>5. items[k] # <<>> => items'[k] # <<>>
    <3>1. CASE QueueAction(j, d)
      BY <1>2, <2>1, <3>1, QueueActionDoes
    <3> QED
      BY <2>1, <3>1
  <2>6. ASSUME NEW n \in 1 .. Now, n > reflector.revision, history[n].key = k
        PROVE  items'[k] # <<>> \/ i > r
    <3>1. i >= n
      BY <2>4, <2>6
    <3>2. CASE i = r
      <4>1. j = k /\ history[r].exists
        BY <2>4, <3>2
      <4>2. QueueAction(j, d)
        BY <2>1, <4>1
      <4> QED
        BY <2>1, <4>1, <4>2, QueueActionDoes
    <3>3. CASE i # r
      <4>1. reflector.revision \in Nat /\ Now \in Nat
        BY DEF TypeOK, Now
      <4> QED
        BY <2>6, <3>1, <3>3, <4>1
    <3> QED
      BY <3>2, <3>3
  <2>7. OnItsWay(k)'
    <3>1. CASE i > r
      BY <2>1, <2>2, <2>4, <3>1 DEF OnItsWay, Now
    <3>2. CASE items'[k] # <<>>
      BY <3>2 DEF OnItsWay
    <3>3. CASE ~(i > r) /\ items'[k] = <<>>
      BY <2>2, <2>3, <2>5, <2>6, <3>3 DEF OnItsWay
    <3> QED
      BY <3>1, <3>2, <3>3
  <2> QED
    BY <2>3, <2>7
<1>8. CASE WatchFails
  <2>1. k \in untold /\ UNCHANGED history /\ reflector' = [reflector EXCEPT !.at = "list"]
    BY <1>8 DEF WatchFails, ghosts
  <2>2. reflector'.at = "list"
    BY <2>1 DEF TypeOK
  <2> QED
    BY <1>3, <2>1, <2>2 DEF OnItsWay
<1>9. CASE Resync
  <2>1. /\ k \in untold /\ UNCHANGED <<history, reflector, handling, notices>>
    BY <1>9 DEF Resync, ghosts
  <2>2. items[k] # <<>> => items'[k] # <<>>
    BY <1>2, <1>9, ResyncedItems DEF Resync
  <2>3. OnItsWay(k)'
    BY <1>1, <2>1, <2>2, StaysOnItsWay DEF Now
  <2> QED
    BY <1>3, <2>1, <2>3
<1>10. CASE Pop
  <2>1. /\ k \in untold /\ UNCHANGED <<history, reflector, notices>>
        /\ Unlocked
    BY <1>10 DEF Pop, ghosts
  <2>2. OnItsWay(k)
    BY <1>1, <2>1
  <2>3. ASSUME items[k] # <<>>
        PROVE  items'[k] # <<>> \/ (handling'.key = k /\ handling'.deltas # <<>>)
    <3>1. CASE k = Head(queue)
      BY <1>10, <2>3, <3>1 DEF Pop
    <3>2. CASE k # Head(queue)
      BY <1>2, <1>10, <2>3, <3>2 DEF Pop, TypeOK
    <3> QED
      BY <3>1, <3>2
  <2>4. OnItsWay(k)'
    BY <2>1, <2>2, <2>3 DEF OnItsWay, Now, Unlocked
  <2> QED
    BY <1>3, <2>1, <2>4
<1>11. CASE HandleDelta
  <2>1. k \in untold /\ UNCHANGED <<history, reflector, fifo>>
    BY <1>11 DEF HandleDelta
  <2>2. OnItsWay(k)
    BY <1>1, <2>1
  <2>3. PICK kind \in {"add", "update", "delete", "tombstone"} :
            notices' = Append(notices, [kind |-> kind, key |-> handling.key])
    BY <1>11 DEF HandleDelta
  <2>4. handling.key \in Keys
    BY <1>11 DEF HandleDelta, HandlingKey, Unlocked
  <2>5. /\ Len(notices') = Len(notices) + 1 /\ Len(notices) \in Nat
        /\ notices'[Len(notices) + 1] = [kind |-> kind, key |-> handling.key]
        /\ \A i \in 1 .. Len(notices) : notices'[i] = notices[i]
    <3>1. notices \in Seq(Notices) /\ [kind |-> kind, key |-> handling.key] \in Notices
      BY <2>4 DEF TypeOK, Notices
    <3>2. Len(notices) \in Nat
      BY <3>1
    <3> QED
      BY <2>3, <3>1, <3>2, AppendProperties
  <2>6. CASE handling.key = k
    <3>1. notices'[Len(notices) + 1].key = k
      BY <2>5, <2>6
    <3> QED
      BY <1>3, <2>1, <2>5, <3>1 DEF OnItsWay
  <2>7. CASE handling.key # k
    BY <1>3, <2>1, <2>2, <2>5, <2>7 DEF OnItsWay, fifo, Now
  <2> QED
    BY <2>6, <2>7
<1>12. CASE UNCHANGED vars
  <2>1. k \in untold /\ UNCHANGED <<history, reflector, fifo, handling, notices>>
    BY <1>12 DEF vars, ghosts
  <2>2. OnItsWay(k)
    BY <1>1, <2>1
  <2>3. OnItsWay(k)'
    BY <2>1, <2>2 DEF OnItsWay, fifo, Now
  <2> QED
    BY <1>3, <2>1, <2>3
<1> QED
  BY <1>4, <1>5, <1>6, <1>7, <1>8, <1>9, <1>10, <1>11, <1>12 DEF Next

-----------------------------------------------------------------------------
(* The queue of the fifo, and the first list in it.                        *)

Has(s, k) == \E i \in 1 .. Len(s) : s[i] = k
NoTwice(s) == \A i, j \in 1 .. Len(s) : s[i] = s[j] => i = j

\* Two sequences that share nothing, one after the other.
LEMMA Joined ==
    ASSUME NEW s \in Seq(Keys), NEW t \in Seq(Keys), NoTwice(s), NoTwice(t),
           \A k \in Keys : ~(Has(s, k) /\ Has(t, k))
    PROVE  /\ s \o t \in Seq(Keys) /\ NoTwice(s \o t)
           /\ \A k \in Keys : Has(s \o t, k) <=> Has(s, k) \/ Has(t, k)
           /\ Len(s) \in Nat /\ Len(s) <= Len(s \o t)
           /\ \A i \in 1 .. Len(s) : (s \o t)[i] = s[i]
<1> DEFINE u == s \o t
<1>1. Len(s) \in Nat /\ Len(t) \in Nat
  OBVIOUS
<1>2. /\ u \in Seq(Keys) /\ Len(u) = Len(s) + Len(t)
      /\ \A i \in 1 .. Len(u) : u[i] = IF i <= Len(s) THEN s[i] ELSE t[i - Len(s)]
  BY ConcatProperties
<1>3. \A i \in 1 .. Len(u) : /\ i <= Len(s) => i \in 1 .. Len(s)
                             /\ ~(i <= Len(s)) => i - Len(s) \in 1 .. Len(t)
  BY <1>1, <1>2
<1>4. /\ \A i \in 1 .. Len(s) : i \in 1 .. Len(u) /\ u[i] = s[i]
      /\ \A i \in 1 .. Len(t) : Len(s) + i \in 1 .. Len(u) /\ u[Len(s) + i] = t[i]
  BY <1>1, <1>2
<1>5. \A i \in 1 .. Len(s), j \in 1 .. Len(t) : s[i] # t[j]
  BY ElementOfSeq DEF Has
<1> HIDE DEF u
<1>6. NoTwice(u)
  <2> SUFFICES ASSUME NEW i \in 1 .. Len(u), NEW j \in 1 .. Len(u), u[i] = u[j]
               PROVE  i = j
    BY DEF NoTwice
  <2>1. CASE i <= Len(s) /\ j <= Len(s)
    BY <1>2, <1>3, <2>1 DEF NoTwice
  <2>2. CASE ~(i <= Len(s)) /\ ~(j <= Len(s))
    <3>1. i - Len(s) = j - Len(s)
      BY <1>2, <1>3, <2>2 DEF NoTwice
    <3> QED
      BY <1>1, <1>2, <3>1
  <2>3. CASE i <= Len(s) /\ ~(j <= Len(s))
    BY <1>2, <1>3, <1>5, <2>3
  <2>4. CASE ~(i <= Len(s)) /\ j <= Len(s)
    BY <1>2, <1>3, <1>5, <2>4
  <2> QED
    BY <2>1, <2>2, <2>3, <2>4
<1>7. ASSUME NEW k \in Keys
      PROVE  Has(u, k) <=> Has(s, k) \/ Has(t, k)
  <2>1. ASSUME NEW i \in 1 .. Len(u), u[i] = k
        PROVE  Has(s, k) \/ Has(t, k)
    BY <1>2, <1>3, <2>1 DEF Has
  <2>2. Has(s, k) => Has(u, k)
    BY <1>4 DEF Has
  <2>3. Has(t, k) => Has(u, k)
    BY <1>4 DEF Has
  <2> QED
    BY <2>1, <2>2, <2>3 DEF Has
<1> QED
  BY <1>1, <1>2, <1>4, <1>6, <1>7 DEF u

LEMMA UnqueuedHas ==
    ASSUME TypeOK, NEW S \in SUBSET Keys, NEW s \in Unqueued(S)
    PROVE  /\ s \in Seq(Keys) /\ NoTwice(s)
           /\ \A k \in Keys : Has(s, k) <=> k \in S /\ items[k] = <<>>
<1>1. /\ s \in Seq(Keys)
      /\ \A i, j \in 1 .. Len(s) : s[i] = s[j] => i = j
      /\ \A i \in 1 .. Len(s) : s[i] \in S /\ items[s[i]] = <<>>
      /\ \A k \in S : items[k] = <<>> => \E i \in 1 .. Len(s) : s[i] = k
  BY UnqueuedListing, Zenon
<1>2. ASSUME NEW k \in Keys, NEW i \in 1 .. Len(s), s[i] = k
      PROVE  k \in S /\ items[k] = <<>>
  BY <1>1, <1>2
<1>3. \A k \in Keys : Has(s, k) => k \in S /\ items[k] = <<>>
  BY <1>2, Zenon DEF Has
<1>4. \A k \in Keys : k \in S /\ items[k] = <<>> => Has(s, k)
  BY <1>1, Zenon DEF Has
<1>5. NoTwice(s)
  BY <1>1, Zenon DEF NoTwice
<1> QED
  BY <1>1, <1>3, <1>4, <1>5

\* The queue after a list or a resync: what was there, and then the new keys.
LEMMA QueueGrows ==
    ASSUME TypeOK, QueueHoldsItems, NEW S \in SUBSET Keys, NEW T \in SUBSET (Keys \ S),
           NEW s \in Unqueued(S), NEW t \in Unqueued(T),
           NEW q, q = queue \o s \o t
    PROVE  /\ NoTwice(q)
           /\ \A k \in Keys : Has(q, k) <=> items[k] # <<>> \/ k \in S \/ k \in T
           /\ Len(queue) <= Len(q)
           /\ \A i \in 1 .. Len(queue) : q[i] = queue[i]
<1>1. queue \in Seq(Keys) /\ NoTwice(queue)
  BY DEF TypeOK, QueueHoldsItems, NoTwice
<1>2. \A k \in Keys : items[k] # <<>> <=> Has(queue, k)
  BY DEF QueueHoldsItems, Has
<1>3. /\ s \in Seq(Keys) /\ NoTwice(s)
      /\ \A k \in Keys : Has(s, k) <=> k \in S /\ items[k] = <<>>
  BY UnqueuedHas, Zenon
<1>4. /\ t \in Seq(Keys) /\ NoTwice(t)
      /\ \A k \in Keys : Has(t, k) <=> k \in T /\ items[k] = <<>>
  BY UnqueuedHas, Zenon
<1>5. \A k \in Keys : ~(Has(queue, k) /\ Has(s, k))
  BY <1>2, <1>3
<1>6. /\ queue \o s \in Seq(Keys) /\ NoTwice(queue \o s)
      /\ \A k \in Keys : Has(queue \o s, k) <=> Has(queue, k) \/ Has(s, k)
      /\ Len(queue) \in Nat /\ Len(queue) <= Len(queue \o s)
      /\ \A i \in 1 .. Len(queue) : (queue \o s)[i] = queue[i]
  BY <1>1, <1>3, <1>5, Joined
<1>7. \A k \in Keys : ~(Has(queue \o s, k) /\ Has(t, k))
  BY <1>2, <1>3, <1>4, <1>6
<1>8. /\ q \in Seq(Keys) /\ NoTwice(q)
      /\ \A k \in Keys : Has(q, k) <=> Has(queue \o s, k) \/ Has(t, k)
      /\ Len(queue \o s) \in Nat /\ Len(queue \o s) <= Len(q)
      /\ \A i \in 1 .. Len(queue \o s) : q[i] = (queue \o s)[i]
  BY <1>4, <1>6, <1>7, Joined
<1>9. \A k \in Keys : Has(q, k) <=> items[k] # <<>> \/ k \in S \/ k \in T
  BY <1>2, <1>3, <1>4, <1>6, <1>8
<1>10. Len(queue) <= Len(q)
  <2>1. Len(q) \in Nat
    BY <1>8
  <2> QED
    BY <1>6, <1>8, <2>1
<1>11. \A i \in 1 .. Len(queue) : q[i] = queue[i]
  BY <1>6, <1>8
<1> QED
  BY <1>8, <1>9, <1>10, <1>11

\* The same without T.
LEMMA ResyncGrows ==
    ASSUME TypeOK, QueueHoldsItems, NEW S \in SUBSET Keys, NEW s \in Unqueued(S),
           NEW q, q = queue \o s
    PROVE  /\ NoTwice(q)
           /\ \A k \in Keys : Has(q, k) <=> items[k] # <<>> \/ k \in S
           /\ Len(queue) <= Len(q)
           /\ \A i \in 1 .. Len(queue) : q[i] = queue[i]
<1>1. queue \in Seq(Keys) /\ NoTwice(queue)
  BY DEF TypeOK, QueueHoldsItems, NoTwice
<1>2. \A k \in Keys : items[k] # <<>> <=> Has(queue, k)
  BY DEF QueueHoldsItems, Has
<1>3. /\ s \in Seq(Keys) /\ NoTwice(s)
      /\ \A k \in Keys : Has(s, k) <=> k \in S /\ items[k] = <<>>
  BY UnqueuedHas, Zenon
<1>4. \A k \in Keys : ~(Has(queue, k) /\ Has(s, k))
  BY <1>2, <1>3
<1>5. /\ NoTwice(q)
      /\ \A k \in Keys : Has(q, k) <=> Has(queue, k) \/ Has(s, k)
      /\ Len(queue) <= Len(q)
      /\ \A i \in 1 .. Len(queue) : q[i] = queue[i]
  BY <1>1, <1>3, <1>4, Joined
<1> QED
  BY <1>2, <1>3, <1>5

\* What queueActionLocked does to the queue.
LEMMA QueueActionGrows ==
    ASSUME TypeOK, QueueHoldsItems, NEW k \in Keys, NEW d \in Deltas, QueueAction(k, d)
    PROVE  /\ QueueHoldsItems'
           /\ Len(queue) <= Len(queue')
           /\ \A i \in 1 .. Len(queue) : queue'[i] = queue[i]
<1>a. queue \in Seq(Keys)
  BY DEF TypeOK
<1>1. /\ queue \in Seq(Keys) /\ Len(queue) \in Nat
      /\ \A j \in Keys : items[j] # <<>> <=> \E i \in 1 .. Len(queue) : queue[i] = j
      /\ \A i, j \in 1 .. Len(queue) : queue[i] = queue[j] => i = j
  BY <1>a DEF QueueHoldsItems
<1>2. /\ items'[k] # <<>>
      /\ \A j \in Keys \ {k} : items'[j] = items[j]
      /\ queue' = IF items[k] = <<>> THEN Append(queue, k) ELSE queue
  BY QueueActionDoes
<1> HIDE DEF QueueAction
<1>3. CASE items[k] # <<>>
  BY <1>1, <1>2, <1>3 DEF QueueHoldsItems
<1>4. CASE items[k] = <<>>
  <2> DEFINE n == Len(queue)
  <2>1. /\ Len(queue') = n + 1 /\ queue'[n + 1] = k
        /\ \A i \in 1 .. n : queue'[i] = queue[i]
    BY <1>1, <1>2, <1>4, AppendProperties
  <2>2. 1 .. n + 1 = (1 .. n) \cup {n + 1} /\ n + 1 \notin 1 .. n
    BY <1>1
  <2>3. \A i \in 1 .. n : queue[i] # k
    BY <1>1, <1>4
  <2> HIDE DEF n
  <2>4. \A i, j \in 1 .. n + 1 : queue'[i] = queue'[j] => i = j
    BY <1>1, <2>1, <2>2, <2>3 DEF n
  <2>5. \A j \in Keys : items'[j] # <<>> <=> \E i \in 1 .. n + 1 : queue'[i] = j
    BY <1>1, <1>2, <1>4, <2>1, <2>2 DEF n
  <2> QED
    BY <1>1, <2>1, <2>4, <2>5 DEF QueueHoldsItems, n
<1> QED
  BY <1>3, <1>4

LEMMA QueueKept ==
    ASSUME TypeOK, TypeOK', QueueHoldsItems, [Next]_vars
    PROVE  QueueHoldsItems'
<1>1. ASSUME UNCHANGED <<items, queue>>
      PROVE  QueueHoldsItems'
  BY <1>1 DEF QueueHoldsItems
<1>2. ASSUME NEW k \in Keys, Write(k) \/ Erase(k) \/ Handler(k)
      PROVE  QueueHoldsItems'
  BY <1>1, <1>2, HandlerDoes DEF Write, Erase, enqueue, fifo
<1>3. ASSUME NEW r \in 0 .. Now, List(r)
      PROVE  QueueHoldsItems'
  <2>1. PICK ls \in Unqueued(Listed(r)), vs \in Unqueued(Vanished(r)) :
            queue' = queue \o ls \o vs
    BY <1>3 DEF List, Replace
  <2>2. Listed(r) \in SUBSET Keys /\ Vanished(r) \in SUBSET (Keys \ Listed(r))
    BY DEF Listed, Vanished
  <2>3. /\ NoTwice(queue')
        /\ \A k \in Keys : Has(queue', k) <=> items[k] # <<>> \/ k \in Listed(r) \/ k \in Vanished(r)
    BY <2>1, <2>2, QueueGrows, Zenon
  <2>4. \A k \in Keys : items'[k] # <<>> <=>
            items[k] # <<>> \/ k \in Listed(r) \/ k \in Vanished(r)
    BY <1>3, ReplacedItems DEF List, Replace
  <2> QED
    BY <2>3, <2>4 DEF QueueHoldsItems, NoTwice, Has
<1>4. CASE WatchEvent
  <2> DEFINE r == reflector.revision + 1
             j == history[r].key
             d == Delta(EventType(r), r)
  <2>1. j \in Keys /\ d \in Deltas /\ (QueueAction(j, d) \/ UNCHANGED <<items, queue>>)
    BY <1>4, WatchEventDoes
  <2> HIDE DEF j, d
  <2> QED
    BY <1>1, <2>1, QueueActionGrows
<1>5. CASE WatchFails
  BY <1>1, <1>5 DEF WatchFails, fifo
<1>6. CASE Resync
  <2> DEFINE S == {k \in Keys : indexer[k] # 0}
  <2>1. PICK ks \in Unqueued(S) : queue' = queue \o ks
    BY <1>6 DEF Resync
  <2>2. /\ NoTwice(queue')
        /\ \A k \in Keys : Has(queue', k) <=> items[k] # <<>> \/ k \in S
    <3>1. S \subseteq Keys
      OBVIOUS
    <3> HIDE DEF S
    <3> QED
      BY <2>1, <3>1, ResyncGrows
  <2>3. \A k \in Keys : items'[k] # <<>> <=> items[k] # <<>> \/ k \in S
    BY <1>6, ResyncedItems DEF Resync
  <2> QED
    BY <2>2, <2>3 DEF QueueHoldsItems, NoTwice, Has
<1>7. CASE Pop
  <2> DEFINE n == Len(queue)
  <2>1. /\ queue \in Seq(Keys) /\ queue # <<>> /\ items \in [Keys -> Seq(Deltas)]
        /\ queue' = Tail(queue)
        /\ items' = [items EXCEPT ![Head(queue)] = <<>>]
    BY <1>7 DEF Pop, TypeOK
  <2>2. /\ n \in Nat \ {0} /\ Head(queue) = queue[1] /\ Head(queue) \in Keys
        /\ Len(queue') = n - 1
        /\ \A i \in 1 .. n - 1 : queue'[i] = queue[i + 1] /\ i + 1 \in 1 .. n
    BY <2>1, HeadTailProperties
  <2>3. /\ \A k \in Keys : items[k] # <<>> <=> \E i \in 1 .. n : queue[i] = k
        /\ \A i, j \in 1 .. n : queue[i] = queue[j] => i = j
    BY DEF QueueHoldsItems
  <2> HIDE DEF n
  <2>4. ASSUME NEW i \in 1 .. n - 1, NEW j \in 1 .. n - 1, queue'[i] = queue'[j]
        PROVE  i = j
    <3>1. i + 1 = j + 1
      <4>1. /\ i + 1 \in 1 .. n /\ j + 1 \in 1 .. n
            /\ queue[i + 1] = queue[j + 1]
        BY <2>2, <2>4
      <4> QED
        BY <2>3, <4>1, Zenon
    <3> QED
      BY <2>2, <3>1
  <2>5. ASSUME NEW k \in Keys, k # Head(queue)
        PROVE  items'[k] # <<>> <=> \E i \in 1 .. n - 1 : queue'[i] = k
    <3>1. items'[k] = items[k]
      BY <2>1, <2>5
    <3>2. ASSUME NEW i \in 1 .. n, queue[i] = k
          PROVE  \E m \in 1 .. n - 1 : queue'[m] = k
      <4>1. i # 1
        BY <2>2, <2>5, <3>2
      <4>2. i - 1 \in 1 .. n - 1 /\ queue'[i - 1] = k
        BY <2>2, <3>2, <4>1
      <4> QED
        BY <4>2
    <3>3. (\E i \in 1 .. n - 1 : queue'[i] = k) => \E i \in 1 .. n : queue[i] = k
      BY <2>2
    <3> QED
      BY <2>3, <3>1, <3>2, <3>3
  <2>6. ~(items'[Head(queue)] # <<>>)
    BY <2>1, <2>2
  <2>7. ASSUME NEW i \in 1 .. n - 1
        PROVE  queue'[i] # Head(queue)
    <3>1. i + 1 # 1 /\ 1 \in 1 .. n
      BY <2>2
    <3> QED
      BY <2>2, <2>3, <3>1
  <2> QED
    BY <2>2, <2>4, <2>5, <2>6, <2>7 DEF QueueHoldsItems
<1>8. CASE HandleDelta
  BY <1>1, <1>8 DEF HandleDelta, fifo
<1>9. CASE UNCHANGED vars
  BY <1>1, <1>9 DEF vars, fifo
<1> QED
  BY <1>2, <1>3, <1>4, <1>5, <1>6, <1>7, <1>8, <1>9 DEF Next

LEMMA FirstListKept ==
    ASSUME TypeOK, TypeOK', FirstListComes, [Next]_vars
    PROVE  FirstListComes'
<1> USE DEF Unlocked
<1>1. ASSUME NEW k \in Keys, Write(k) \/ Erase(k) \/ Handler(k)
      PROVE  FirstListComes'
  BY <1>1, HandlerDoes DEF Write, Erase, enqueue, fifo, FirstListComes
<1>2. ASSUME NEW r \in 0 .. Now, List(r)
      PROVE  FirstListComes'
  <2>1. lists' = lists + 1 /\ lists \in Nat /\ reflector' = [at |-> "watch", revision |-> r]
    BY <1>2 DEF List, TypeOK
  <2>2. count' # None
    BY <1>2, ListedKeys, KeysAssumption DEF List, Replace
  <2> QED
    BY <2>1, <2>2 DEF FirstListComes
<1>3. CASE WatchEvent
  BY <1>3, WatchEventDoes DEF WatchEvent, ghosts, FirstListComes
<1>4. CASE WatchFails
  BY <1>4 DEF WatchFails, ghosts, fifo, FirstListComes, TypeOK
<1>5. CASE Resync
  BY <1>5 DEF Resync, ghosts, FirstListComes
<1>6. CASE Pop
  <2>1. count' = None <=> count = None
    <3>1. count \in Nat \cup {None} /\ None \notin Nat
      BY KeysAssumption DEF TypeOK
    <3>2. count' = IF count = None \/ count = 0 THEN count ELSE count - 1
      BY <1>6 DEF Pop
    <3> QED
      BY <3>1, <3>2
  <2> QED
    BY <1>6, <2>1 DEF Pop, ghosts, FirstListComes
<1>7. CASE HandleDelta
  BY <1>7 DEF HandleDelta, fifo, FirstListComes
<1>8. CASE UNCHANGED vars
  BY <1>8 DEF vars, ghosts, fifo, FirstListComes
<1> QED
  BY <1>1, <1>2, <1>3, <1>4, <1>5, <1>6, <1>7, <1>8 DEF Next

\* What is in front stays in front when the queue grows.
LEMMA FrontKept ==
    ASSUME TypeOK, TypeOK', FirstInFront, UNCHANGED <<count, first, handling>>,
           Len(queue) <= Len(queue'),
           \A i \in 1 .. Len(queue) : queue'[i] = queue[i]
    PROVE  FirstInFront'
<1> SUFFICES ASSUME count # None
             PROVE  /\ count <= Len(queue')
                    /\ \A k \in first : \/ \E i \in 1 .. count : queue'[i] = k
                                        \/ ~Unlocked /\ handling.key = k
  BY DEF FirstInFront, Unlocked
<1>1. /\ count \in Nat /\ count <= Len(queue)
      /\ \A k \in first : \/ \E i \in 1 .. count : queue[i] = k
                          \/ ~Unlocked /\ handling.key = k
  BY DEF TypeOK, FirstInFront
<1>2. Len(queue) \in Nat /\ Len(queue') \in Nat
  BY DEF TypeOK
<1>3. \A i \in 1 .. count : queue'[i] = queue[i]
  BY <1>1, <1>2
<1> QED
  BY <1>1, <1>2, <1>3

LEMMA FirstInFrontKept ==
    ASSUME TypeOK, TypeOK', QueueHoldsItems, FirstListComes, FirstInFront, [Next]_vars
    PROVE  FirstInFront'
<1>1. ASSUME UNCHANGED <<count, first, handling, queue>>
      PROVE  FirstInFront'
  BY <1>1 DEF FirstInFront, Unlocked
<1>2. ASSUME NEW k \in Keys, Write(k) \/ Erase(k) \/ Handler(k)
      PROVE  FirstInFront'
  BY <1>1, <1>2, HandlerDoes DEF Write, Erase, enqueue, fifo
<1>3. ASSUME NEW r \in 0 .. Now, List(r)
      PROVE  FirstInFront'
  <2>1. PICK ls \in Unqueued(Listed(r)), vs \in Unqueued(Vanished(r)) :
            queue' = queue \o ls \o vs
    BY <1>3 DEF List, Replace
  <2>2. Listed(r) \in SUBSET Keys /\ Vanished(r) \in SUBSET (Keys \ Listed(r))
    BY DEF Listed, Vanished
  <2>3. /\ \A k \in Keys : Has(queue', k) <=> items[k] # <<>> \/ k \in Listed(r) \/ k \in Vanished(r)
        /\ Len(queue) <= Len(queue')
        /\ \A i \in 1 .. Len(queue) : queue'[i] = queue[i]
    <3>1. \A k \in Keys : Has(queue', k) <=> items[k] # <<>> \/ k \in Listed(r) \/ k \in Vanished(r)
      BY <2>1, <2>2, QueueGrows, Zenon
    <3>2. Len(queue) <= Len(queue')
      <4>1. Len(queue) <= Len(queue \o ls \o vs)
        BY <2>2, QueueGrows, Zenon
      <4> QED
        BY <2>1, <4>1
    <3>3. \A i \in 1 .. Len(queue) : queue'[i] = queue[i]
      <4>1. queue \in Seq(Keys) /\ ls \in Seq(Keys) /\ vs \in Seq(Keys)
        BY ListedKeys, UnqueuedListing DEF TypeOK
      <4> QED
        BY <2>1, <4>1
    <3> QED
      BY <3>1, <3>2, <3>3
  <2>4. CASE count # None
    <3>1. UNCHANGED <<count, first, handling>>
      BY <1>3, <2>4 DEF List, Replace
    <3> QED
      BY <2>3, <3>1, FrontKept
  <2>5. CASE count = None
    <3>1. /\ queue = <<>>
          /\ \A k \in Keys : items[k] = <<>> /\ indexer[k] = 0
      BY <2>5 DEF FirstListComes
    <3>2. Vanished(r) = {} /\ {k \in Vanished(r) : items[k] = <<>>} = {}
      BY <3>1 DEF Vanished
    <3>3. {k \in Listed(r) : items[k] = <<>>} = Listed(r)
      BY <2>2, <3>1
    <3>4. /\ ls \in Seq(Keys) /\ Len(ls) = Cardinality(Listed(r))
          /\ vs \in Seq(Keys) /\ Len(vs) = 0
      <4>1. ls \in Seq(Keys) /\ Len(ls) = Cardinality({k \in Listed(r) : items[k] = <<>>})
        BY <2>2, UnqueuedListing, Zenon
      <4>2. vs \in Seq(Keys) /\ Len(vs) = Cardinality({k \in Vanished(r) : items[k] = <<>>})
        BY ListedKeys, UnqueuedListing, Zenon
      <4>3. Cardinality({}) = 0
        BY FS_EmptySet
      <4> QED
        BY <3>2, <3>3, <4>1, <4>2, <4>3
    <3>5. Len(queue') = Cardinality(Listed(r))
      <4>1. queue \in Seq(Keys) /\ Len(queue) = 0
        BY <3>1
      <4>2. queue \o ls \in Seq(Keys) /\ Len(queue \o ls) = Len(ls)
        BY <3>4, <4>1
      <4>3. Len((queue \o ls) \o vs) = Len(ls)
        BY <3>4, <4>2
      <4> QED
        BY <2>1, <3>4, <4>3
    <3>6. count' = Cardinality(Listed(r)) /\ first' = Listed(r)
      <4>1. count' = Cardinality(Listed(r)) + Cardinality(Vanished(r))
        BY <1>3, <2>5 DEF List, Replace
      <4>2. Cardinality(Vanished(r)) = 0 /\ Cardinality(Listed(r)) \in Nat
        BY <3>2, FS_EmptySet, ListedKeys
      <4> QED
        BY <1>3, <2>5, <4>1, <4>2 DEF List
    <3>7. \A k \in Listed(r) : \E i \in 1 .. count' : queue'[i] = k
      BY <2>2, <2>3, <3>5, <3>6 DEF Has
    <3>8. count' <= Len(queue')
      BY <3>5, <3>6, ListedKeys
    <3> QED
      BY <3>6, <3>7, <3>8 DEF FirstInFront
  <2> QED
    BY <2>4, <2>5
<1>4. CASE WatchEvent
  <2> DEFINE r == reflector.revision + 1
             j == history[r].key
             d == Delta(EventType(r), r)
  <2>1. j \in Keys /\ d \in Deltas /\ (QueueAction(j, d) \/ UNCHANGED <<items, queue>>)
    BY <1>4, WatchEventDoes
  <2>2. UNCHANGED <<count, first, handling>>
    BY <1>4 DEF WatchEvent, ghosts
  <2> HIDE DEF j, d
  <2>3. CASE QueueAction(j, d)
    BY <2>1, <2>2, <2>3, QueueActionGrows, FrontKept
  <2> QED
    BY <1>1, <2>1, <2>2, <2>3
<1>5. CASE WatchFails
  BY <1>1, <1>5 DEF WatchFails, fifo, ghosts
<1>6. CASE Resync
  <2> DEFINE S == {k \in Keys : indexer[k] # 0}
  <2>1. PICK ks \in Unqueued(S) : queue' = queue \o ks
    BY <1>6 DEF Resync
  <2>2. S \subseteq Keys
    OBVIOUS
  <2> HIDE DEF S
  <2>3. Len(queue) <= Len(queue') /\ \A i \in 1 .. Len(queue) : queue'[i] = queue[i]
    BY <2>1, <2>2, ResyncGrows
  <2>4. UNCHANGED <<count, first, handling>>
    BY <1>6 DEF Resync, ghosts
  <2> QED
    BY <2>3, <2>4, FrontKept
<1>7. CASE Pop
  <2> SUFFICES ASSUME count' # None
               PROVE  /\ count' <= Len(queue')
                      /\ \A k \in first' : \/ \E i \in 1 .. count' : queue'[i] = k
                                           \/ ~Unlocked' /\ handling'.key = k
    BY DEF FirstInFront
  <2>1. /\ queue \in Seq(Keys) /\ queue # <<>> /\ queue' = Tail(queue)
        /\ handling' = [key |-> Head(queue), deltas |-> items[Head(queue)]]
        /\ count' = IF count = None \/ count = 0 THEN count ELSE count - 1
        /\ first' = first /\ Unlocked
    BY <1>7 DEF Pop, TypeOK, ghosts
  <2>2. /\ Len(queue) \in Nat \ {0} /\ Head(queue) = queue[1] /\ Head(queue) \in Keys
        /\ Len(queue') = Len(queue) - 1
        /\ \A i \in 1 .. Len(queue) - 1 : queue'[i] = queue[i + 1]
    BY <2>1, HeadTailProperties
  <2>3. items[Head(queue)] # <<>>
    BY <2>2 DEF QueueHoldsItems
  <2>4. /\ count \in Nat /\ count <= Len(queue)
        /\ \A k \in first : \E i \in 1 .. count : queue[i] = k
    BY <2>1 DEF TypeOK, FirstInFront
  <2>5. count' <= Len(queue')
    BY <2>1, <2>2, <2>4
  <2>6. ASSUME NEW k \in first
        PROVE  \/ \E i \in 1 .. count' : queue'[i] = k
               \/ ~Unlocked' /\ handling'.key = k
    <3>1. PICK i \in 1 .. count : queue[i] = k
      BY <2>4
    <3>2. CASE i = 1
      BY <2>1, <2>2, <2>3, <3>1, <3>2 DEF Unlocked
    <3>3. CASE i # 1
      <4>1. i - 1 \in 1 .. count' /\ i - 1 \in 1 .. Len(queue) - 1
        BY <2>1, <2>2, <2>4, <3>3
      <4>2. queue'[i - 1] = k
        BY <2>2, <3>1, <4>1
      <4> QED
        BY <4>1, <4>2
    <3> QED
      BY <3>2, <3>3
  <2> QED
    BY <2>1, <2>5, <2>6
<1>8. CASE HandleDelta
  <2>1. /\ UNCHANGED <<queue, count>> /\ handling.deltas \in Seq(Deltas) \ {<<>>}
        /\ handling' = [handling EXCEPT !.deltas = Tail(handling.deltas)]
        /\ first' = IF Len(handling.deltas) = 1 THEN first \ {handling.key} ELSE first
    BY <1>8 DEF HandleDelta, fifo, TypeOK
  <2>2. handling'.key = handling.key /\ handling'.deltas = Tail(handling.deltas)
    BY <2>1 DEF TypeOK
  <2>3. Len(handling.deltas) # 1 => Tail(handling.deltas) # <<>>
    <3>1. /\ Len(handling.deltas) \in Nat \ {0}
          /\ Len(Tail(handling.deltas)) = Len(handling.deltas) - 1
      BY <2>1, HeadTailProperties
    <3>2. Tail(handling.deltas) = <<>> => Len(Tail(handling.deltas)) = 0
      BY EmptySeq, Zenon
    <3> QED
      BY <3>1, <3>2
  <2> QED
    BY <2>1, <2>2, <2>3 DEF FirstInFront, Unlocked
<1>9. CASE UNCHANGED vars
  BY <1>1, <1>9 DEF vars, fifo, ghosts
<1> QED
  BY <1>2, <1>3, <1>4, <1>5, <1>6, <1>7, <1>8, <1>9 DEF Next

-----------------------------------------------------------------------------
(* The cache follows the writes.                                           *)

LEMMA RevisionsAreNat ==
    ASSUME NEW ds \in Seq(Deltas)
    PROVE  Len(ds) \in Nat /\ \A i \in 1 .. Len(ds) : ds[i].revision \in Nat
<1>1. \A i \in 1 .. Len(ds) : ds[i] \in Deltas
  BY ElementOfSeq
<1> QED
  BY <1>1 DEF Deltas

LEMMA OrderKept ==
    ASSUME TypeOK, TypeOK', HandlingKey, FirstListComes, DeltasInOrder, [Next]_vars
    PROVE  /\ DeltasInOrder'
           /\ lists' <= 1 => \A k \in Keys : indexer'[k] # 0 => indexer'[k] >= indexer[k]
<1> SUFFICES ASSUME lists' <= 1, NEW k \in Keys
             PROVE  /\ KeyInOrder(k)'
                    /\ indexer'[k] # 0 => indexer'[k] >= indexer[k]
  BY DEF DeltasInOrder
<1>1. /\ indexer[k] \in Nat /\ indexer'[k] \in Nat
      /\ items[k] \in Seq(Deltas) /\ items'[k] \in Seq(Deltas)
      /\ handling.deltas \in Seq(Deltas) /\ handling'.deltas \in Seq(Deltas)
      /\ reflector.revision \in Nat /\ reflector'.revision \in Nat
      /\ lists \in Nat /\ lists' \in Nat
  BY DEF TypeOK
<1>2. lists <= 1 => KeyInOrder(k)
  BY DEF DeltasInOrder
<1>3. <<>> \in Seq(Deltas) /\ \A low, high : Between(<<>>, low, high)
  BY DEF Between
<1>4. ASSUME UNCHANGED <<items, handling, indexer, lists>>, reflector'.revision = reflector.revision
      PROVE  /\ KeyInOrder(k)'
             /\ indexer'[k] # 0 => indexer'[k] >= indexer[k]
  BY <1>1, <1>2, <1>4 DEF KeyInOrder, Between
<1>5. ASSUME NEW j \in Keys, Write(j) \/ Erase(j) \/ Handler(j)
      PROVE  /\ KeyInOrder(k)'
             /\ indexer'[k] # 0 => indexer'[k] >= indexer[k]
  <2>1. UNCHANGED <<reflector, items, handling, indexer, lists>>
    BY <1>5, HandlerDoes DEF Write, Erase, enqueue, fifo
  <2> QED
    BY <1>4, <2>1
<1>6. ASSUME NEW r \in 0 .. Now, List(r)
      PROVE  /\ KeyInOrder(k)'
             /\ indexer'[k] # 0 => indexer'[k] >= indexer[k]
  <2>1. lists = 0
    BY <1>1, <1>6 DEF List
  <2>2. handling.deltas = <<>> /\ items[k] = <<>> /\ indexer[k] = 0
    BY <2>1 DEF FirstListComes, Unlocked
  <2>3. UNCHANGED <<handling, indexer>> /\ reflector'.revision = r /\ r \in Nat
    BY <1>6 DEF List, TypeOK, Now
  <2>4. items'[k] = IF ObjectAt(k, r) # 0 THEN <<Delta("Sync", ObjectAt(k, r))>> ELSE <<>>
    BY <1>6, <2>2 DEF List, Replace, Replaced, Queued
  <2>5. ObjectAt(k, r) \in 0 .. r
    BY ObjectThere
  <2>6. Between(items'[k], 0, r)
    BY <1>3, <2>3, <2>4, <2>5 DEF Between, Delta
  <2>7. \A low, high : Between(handling'.deltas, low, high)
    BY <1>3, <2>2, <2>3
  <2>8. 1 .. Len(handling'.deltas) = {}
    BY <2>2, <2>3
  <2> QED
    BY <2>2, <2>3, <2>6, <2>7, <2>8 DEF KeyInOrder
<1>7. CASE WatchEvent
  <2> DEFINE r == reflector.revision + 1
             j == history[r].key
             d == Delta(EventType(r), r)
  <2>1. /\ j \in Keys /\ d \in Deltas /\ d.revision = r /\ reflector'.revision = r
        /\ QueueAction(j, d) \/ UNCHANGED <<items, queue>>
    BY <1>7, WatchEventDoes
  <2>2. /\ UNCHANGED <<handling, indexer, lists>> /\ handling.deltas = <<>>
    BY <1>7 DEF WatchEvent, Unlocked, ghosts
  <2>3. KeyInOrder(k)
    BY <1>2, <2>2
  <2>4. /\ Between(items[k], indexer[k], reflector.revision)
        /\ indexer[k] <= reflector.revision
    BY <2>3 DEF KeyInOrder
  <2> HIDE DEF j, d
  <2>5. Between(items'[k], indexer[k], r)
    <3>1. CASE items'[k] = items[k]
      <4>1. \A i \in 1 .. Len(items[k]) : items[k][i].revision \in Nat
        BY <1>1, RevisionsAreNat
      <4>2. reflector.revision <= r
        BY <1>1
      <4>3. \A i \in 1 .. Len(items[k]) : items[k][i].revision <= r
        BY <1>1, <2>4, <4>1, <4>2 DEF Between
      <4> QED
        BY <2>4, <3>1, <4>3 DEF Between
    <3>2. CASE QueueAction(j, d) /\ j = k
      <4>1. items'[k] = Queued(items[k], d)
        BY <1>1, <2>1, <3>2, QueueActionDoes
      <4>2. reflector.revision <= d.revision /\ indexer[k] <= d.revision
        BY <1>1, <2>1, <2>4
      <4>3. Between(Queued(items[k], d), indexer[k], d.revision)
        BY <1>1, <2>1, <2>4, <4>2, QueuedBetween
      <4> QED
        BY <2>1, <4>1, <4>3
    <3>3. CASE QueueAction(j, d) /\ j # k
      BY <2>1, <3>1, <3>3, QueueActionDoes
    <3> QED
      BY <2>1, <3>1, <3>2, <3>3
  <2>6. /\ \A low, high : Between(handling'.deltas, low, high)
        /\ 1 .. Len(handling'.deltas) = {}
    BY <1>3, <2>2
  <2>7. indexer'[k] <= reflector'.revision /\ indexer'[k] = indexer[k]
    BY <1>1, <2>1, <2>2, <2>4
  <2> QED
    BY <1>1, <2>1, <2>5, <2>6, <2>7 DEF KeyInOrder
<1>8. CASE WatchFails
  <2>1. UNCHANGED <<items, handling, indexer, lists>> /\ reflector'.revision = reflector.revision
    BY <1>8 DEF WatchFails, fifo, ghosts, TypeOK
  <2> QED
    BY <1>4, <2>1
<1>9. CASE Resync
  <2>1. UNCHANGED <<reflector, handling, indexer, lists>> /\ handling.deltas = <<>>
    BY <1>9 DEF Resync, Unlocked, ghosts
  <2>2. KeyInOrder(k)
    BY <1>2, <2>1
  <2>3. items'[k] = IF indexer[k] # 0 /\ items[k] = <<>>
                    THEN <<Delta("Sync", indexer[k])>> ELSE items[k]
    BY <1>9 DEF Resync, Resynced
  <2>4. Between(items'[k], indexer[k], reflector.revision)
    <3>1. CASE items'[k] = items[k]
      BY <2>2, <3>1 DEF KeyInOrder
    <3>2. CASE items'[k] = <<Delta("Sync", indexer[k])>>
      BY <1>1, <2>2, <3>2 DEF KeyInOrder, Between, Delta
    <3> QED
      BY <2>3, <3>1, <3>2
  <2>5. /\ \A low, high : Between(handling'.deltas, low, high)
        /\ 1 .. Len(handling'.deltas) = {}
    BY <1>3, <2>1
  <2>6. indexer[k] <= reflector.revision
    BY <2>2 DEF KeyInOrder
  <2> QED
    BY <1>1, <2>1, <2>4, <2>5, <2>6 DEF KeyInOrder
<1>10. CASE Pop
  <2>1. /\ UNCHANGED <<reflector, indexer, lists>>
        /\ handling' = [key |-> Head(queue), deltas |-> items[Head(queue)]]
        /\ items' = [items EXCEPT ![Head(queue)] = <<>>]
        /\ items \in [Keys -> Seq(Deltas)]
    BY <1>10 DEF Pop, ghosts, TypeOK
  <2>2. KeyInOrder(k)
    BY <1>2, <2>1
  <2>3. /\ indexer[k] <= reflector.revision
        /\ Between(items[k], indexer[k], reflector.revision)
    BY <2>2 DEF KeyInOrder
  <2>4. CASE Head(queue) = k
    <3>1. items'[k] = <<>> /\ 1 .. Len(items'[k]) = {}
      BY <2>1, <2>4
    <3>2. Between(items'[k], indexer[k], reflector.revision)
      BY <1>3, <3>1
    <3>3. handling'.deltas = items[k]
      BY <2>1, <2>4
    <3> QED
      BY <1>1, <2>1, <2>3, <3>1, <3>2, <3>3 DEF KeyInOrder
  <2>5. CASE Head(queue) # k
    <3>1. items'[k] = items[k] /\ handling'.key # k
      BY <2>1, <2>5
    <3> QED
      BY <1>1, <2>1, <2>3, <3>1 DEF KeyInOrder
  <2> QED
    BY <2>4, <2>5
<1>11. CASE HandleDelta
  <2> DEFINE ds == handling.deltas
             d == Head(ds)
  <2>1. /\ UNCHANGED <<reflector, items, lists>> /\ ds # <<>>
        /\ indexer' = [indexer EXCEPT ![handling.key] = IF IsDeletion(d) THEN 0 ELSE d.revision]
        /\ handling' = [handling EXCEPT !.deltas = Tail(ds)]
    BY <1>11 DEF HandleDelta, fifo
  <2>2. handling'.key = handling.key /\ handling'.deltas = Tail(ds)
    BY <2>1 DEF TypeOK
  <2>3. KeyInOrder(k)
    BY <1>2, <2>1
  <2>4. CASE handling.key # k
    <3>1. indexer'[k] = indexer[k]
      BY <2>1, <2>4 DEF TypeOK
    <3> QED
      BY <1>1, <2>1, <2>2, <2>3, <2>4, <3>1 DEF KeyInOrder
  <2>5. CASE handling.key = k
    <3>1. /\ Len(ds) \in Nat \ {0} /\ d = ds[1]
          /\ Len(Tail(ds)) = Len(ds) - 1
          /\ \A i \in 1 .. Len(Tail(ds)) : Tail(ds)[i] = ds[i + 1]
      BY <1>1, <2>1, HeadTailProperties
    <3>2. /\ \A i \in 1 .. Len(ds) : ds[i].revision \in Nat
          /\ \A i \in 1 .. Len(items[k]) : items[k][i].revision \in Nat
      BY <1>1, RevisionsAreNat
    <3>3. indexer'[k] = IF IsDeletion(d) THEN 0 ELSE d.revision
      BY <2>1, <2>5 DEF TypeOK
    <3>4. /\ \A i \in 1 .. Len(ds) : /\ indexer[k] <= ds[i].revision
                                     /\ ds[i].revision <= reflector.revision
          /\ \A i, j \in 1 .. Len(ds) : i <= j => ds[i].revision <= ds[j].revision
          /\ \A i \in 1 .. Len(ds), j \in 1 .. Len(items[k]) :
                ds[i].revision <= items[k][j].revision
          /\ \A i \in 1 .. Len(items[k]) : items[k][i].revision <= reflector.revision
          /\ \A i, j \in 1 .. Len(items[k]) :
                i <= j => items[k][i].revision <= items[k][j].revision
      BY <2>3, <2>5 DEF KeyInOrder, Between
    <3> HIDE DEF d, ds
    <3>5. /\ 1 \in 1 .. Len(ds)
          /\ \A i \in 1 .. Len(Tail(ds)) : i + 1 \in 1 .. Len(ds) /\ 1 <= i + 1
          /\ \A i, j \in 1 .. Len(Tail(ds)) : i <= j => i + 1 <= j + 1
      BY <3>1
    <3>6. indexer'[k] <= d.revision /\ d.revision \in Nat /\ indexer'[k] \in Nat
      BY <3>1, <3>2, <3>3, <3>5
    <3>7. indexer'[k] # 0 => indexer'[k] >= indexer[k]
      BY <1>1, <3>1, <3>2, <3>3, <3>4, <3>5
    <3>8. indexer'[k] <= reflector.revision
      BY <1>1, <3>1, <3>2, <3>4, <3>5, <3>6
    <3>9. Between(items[k], indexer'[k], reflector.revision)
      <4>1. ASSUME NEW i \in 1 .. Len(items[k])
            PROVE  indexer'[k] <= items[k][i].revision
        <5>1. d.revision <= items[k][i].revision /\ items[k][i].revision \in Nat
          BY <3>1, <3>2, <3>4, <3>5
        <5> QED
          BY <3>6, <5>1
      <4> QED
        BY <3>4, <4>1 DEF Between
    <3>10. Between(Tail(ds), indexer'[k], reflector.revision)
      <4>1. ASSUME NEW i \in 1 .. Len(Tail(ds))
            PROVE  /\ indexer'[k] <= Tail(ds)[i].revision
                   /\ Tail(ds)[i].revision <= reflector.revision
        <5>1. d.revision <= ds[i + 1].revision /\ ds[i + 1].revision \in Nat
          BY <3>1, <3>2, <3>4, <3>5
        <5> QED
          BY <3>1, <3>4, <3>5, <3>6, <5>1
      <4>2. \A i, j \in 1 .. Len(Tail(ds)) :
                i <= j => Tail(ds)[i].revision <= Tail(ds)[j].revision
        BY <3>1, <3>4, <3>5
      <4> QED
        BY <4>1, <4>2 DEF Between
    <3>11. \A i \in 1 .. Len(Tail(ds)), j \in 1 .. Len(items[k]) :
              Tail(ds)[i].revision <= items[k][j].revision
      BY <3>1, <3>4, <3>5
    <3> QED
      BY <2>1, <2>2, <3>7, <3>8, <3>9, <3>10, <3>11 DEF KeyInOrder
  <2> QED
    BY <2>4, <2>5
<1>12. CASE UNCHANGED vars
  BY <1>4, <1>12 DEF vars, fifo, ghosts
<1> QED
  BY <1>5, <1>6, <1>7, <1>8, <1>9, <1>10, <1>11, <1>12 DEF Next

-----------------------------------------------------------------------------
(* What the cache is going to say.                                         *)

\* What is queued last is what counts, and it is the new delta, or a deletion
\* that the new one is left out behind.
LEMMA QueuedLast ==
    ASSUME NEW ds \in Seq(Deltas), NEW d \in Deltas
    PROVE  /\ Queued(ds, d) # <<>>
           /\ \/ Last(Queued(ds, d)) = d
              \/ /\ ds # <<>> /\ IsDeletion(Last(ds))
                 /\ d.type = "Sync" \/ IsDeletion(d)
                 /\ Last(Queued(ds, d)) = Last(ds)
<1>1. CASE ds = <<>>
  BY <1>1 DEF Queued, Last
<1>2. CASE ds # <<>>
  <2> DEFINE front == Front(ds)
             last == Last(ds)
  <2>1. /\ Len(ds) \in Nat \ {0}
        /\ front \in Seq(Deltas)
        /\ last \in Deltas
    <3>1. Len(ds) \in Nat \ {0} /\ front \in Seq(Deltas)
      BY <1>2, FrontOf
    <3>2. Last(ds) = ds[Len(ds)]
      BY DEF Last
    <3> QED
      BY <3>1, <3>2, ElementOfSeq
  <2>2. CASE Queued(ds, d) = ds
    <3>1. (d.type = "Sync" /\ IsDeletion(last)) \/ Last(ds) = d
            \/ (IsDeletion(last) /\ IsDeletion(d))
      <4>1. CASE ~(d.type = "Sync" /\ IsDeletion(last)) /\ ~(IsDeletion(last) /\ IsDeletion(d))
        <5>1. Queued(ds, d) = front \o <<last, d>>
          BY <1>2, <4>1 DEF Queued, Dedup
        <5> HIDE DEF front, last
        <5>2. Len(front \o <<last, d>>) = Len(front) + 2
          BY <2>1
        <5>3. Len(front) = Len(ds) - 1
          BY <1>2, FrontOf DEF front
        <5> QED
          BY <2>1, <2>2, <5>1, <5>2, <5>3
      <4> QED
        BY <4>1
    <3> QED
      BY <1>2, <2>2, <3>1
  <2>3. CASE Queued(ds, d) # ds
    <3>1. Queued(ds, d) = front \o Dedup(last, d)
      BY <1>2, <2>3 DEF Queued
    <3>2. \/ Dedup(last, d) = <<d>>
          \/ Dedup(last, d) = <<last>> /\ IsDeletion(last) /\ IsDeletion(d)
          \/ Dedup(last, d) = <<last, d>>
      BY DEF Dedup
    <3> HIDE DEF front, last
    <3>3. /\ front \o <<d>> # <<>> /\ Last(front \o <<d>>) = d
          /\ front \o <<last>> # <<>> /\ Last(front \o <<last>>) = last
          /\ front \o <<last, d>> # <<>> /\ Last(front \o <<last, d>>) = d
      BY <2>1 DEF Last
    <3> QED
      BY <1>2, <3>1, <3>2, <3>3 DEF last
  <2> QED
    BY <2>2, <2>3
<1> QED
  BY <1>1, <1>2

\* What one more delta makes of it, unless it is left out behind a deletion.
LEMMA AfterQueued ==
    ASSUME NEW ds \in Seq(Deltas), NEW d \in Deltas, NEW c,
           d.type # "Sync" \/ ds = <<>>
    PROVE  After(Queued(ds, d), c) = IF IsDeletion(d) THEN 0 ELSE d.revision
BY QueuedLast DEF After, IsDeletion

\* What HandleDeltas has done and what it has still to do.
LEMMA AfterFirst ==
    ASSUME NEW ds \in Seq(Deltas), ds # <<>>, NEW c
    PROVE  After(ds, c)
             = After(Tail(ds), IF IsDeletion(Head(ds)) THEN 0 ELSE Head(ds).revision)
<1>1. /\ Len(ds) \in Nat \ {0} /\ Head(ds) = ds[1]
      /\ Len(Tail(ds)) = Len(ds) - 1
      /\ \A i \in 1 .. Len(Tail(ds)) : Tail(ds)[i] = ds[i + 1]
  BY HeadTailProperties
<1>2. CASE Tail(ds) = <<>>
  <2>1. Len(<<>>) = 0
    OBVIOUS
  <2>2. Len(ds) = 1
    <3> DEFINE tail == Tail(ds)
               n == Len(ds)
    <3>1. n \in Nat /\ Len(tail) = n - 1 /\ tail = <<>>
      BY <1>1, <1>2
    <3> HIDE DEF tail, n
    <3>2. n = 1
      BY <2>1, <3>1
    <3> QED
      BY <3>2 DEF n
  <2> QED
    BY <1>1, <1>2, <2>2 DEF After, Last
<1>3. CASE Tail(ds) # <<>>
  <2>1. Tail(ds) \in Seq(Deltas)
    OBVIOUS
  <2>2. Len(Tail(ds)) \in Nat \ {0}
    BY <1>3, <2>1, FrontOf
  <2>3. Last(Tail(ds)) = Last(ds)
    BY <1>1, <2>2 DEF Last
  <2> QED
    BY <1>3, <2>3 DEF After
<1> QED
  BY <1>2, <1>3

\* An object that a list shows is the last write to it.
LEMMA ObjectWritten ==
    ASSUME TypeOK, NEW k \in Keys, NEW r \in 0 .. Now, ObjectAt(k, r) # 0
    PROVE  Written(k, ObjectAt(k, r))
<1> DEFINE writes == {i \in 1 .. r : history[i].key = k}
           Top(i) == i \in writes /\ \A j \in writes : j <= i
           o == CHOOSE i \in writes : \A j \in writes : j <= i
<1>1. r \in Nat /\ Now \in Nat
  BY DEF TypeOK, Now
<1>2. PICK t \in writes : history[t].exists /\ \A j \in writes : j <= t
  BY DEF ObjectAt
<1>3. ObjectAt(k, r) = o
  BY <1>2 DEF ObjectAt
<1>4. o \in writes /\ \A j \in writes : j <= o
  <2> HIDE DEF writes
  <2> QED
    BY <1>2, Zenon
<1>5. o = t
  <2>1. \A j \in writes : j \in Nat
    BY <1>1
  <2> HIDE DEF o, writes
  <2>2. o <= t /\ t <= o /\ o \in Nat /\ t \in Nat
    BY <1>2, <1>4, <2>1
  <2> QED
    BY <2>2
<1>6. t \in 1 .. Now /\ history[t].key = k /\ history[t].exists
  BY <1>1, <1>2
<1>7. history[t] \in [key : Keys, exists : BOOLEAN]
  BY <1>6, ElementOfSeq DEF TypeOK, Now
<1>8. history[t] = [key |-> k, exists |-> TRUE]
  BY <1>6, <1>7
<1> HIDE DEF o
<1> QED
  BY <1>3, <1>5, <1>6, <1>8 DEF Written

\* What a revision shows depends on the writes to the object before it.
WritesTo(h, k, r) == {i \in 1 .. r : h[i].key = k}

ObjectOf(h, writes) ==
    IF \E i \in writes : h[i].exists /\ \A j \in writes : j <= i
    THEN CHOOSE i \in writes : \A j \in writes : j <= i
    ELSE 0

LEMMA ObjectAtWrites ==
    ASSUME NEW k, NEW r
    PROVE  /\ ObjectAt(k, r) = ObjectOf(history, WritesTo(history, k, r))
           /\ ObjectAt(k, r)' = ObjectOf(history', WritesTo(history', k, r'))
BY Zenon DEF ObjectAt, ObjectOf, WritesTo

LEMMA SameWrites ==
    ASSUME NEW g, NEW h, NEW writes, \A i \in writes : g[i].exists = h[i].exists
    PROVE  ObjectOf(g, writes) = ObjectOf(h, writes)
<1>1. (\E i \in writes : g[i].exists /\ \A j \in writes : j <= i)
         <=> \E i \in writes : h[i].exists /\ \A j \in writes : j <= i
  OBVIOUS
<1> QED
  BY <1>1 DEF ObjectOf

\* A later write changes nothing of what a revision shows.
LEMMA ObjectKept ==
    ASSUME TypeOK, NEW x, history' = Append(history, x),
           NEW k \in Keys, UNCHANGED reflector
    PROVE  ObjectAt(k, reflector.revision)' = ObjectAt(k, reflector.revision)
<1> DEFINE r == reflector.revision
           writes == WritesTo(history, k, r)
<1>1. r \in Nat /\ r <= Len(history) /\ Len(history) \in Nat
  BY DEF TypeOK, Now
<1>2. \A i \in 1 .. Len(history) : history'[i] = history[i]
  BY AppendProperties DEF TypeOK
<1>3. \A i \in 1 .. r : history'[i] = history[i]
  BY <1>1, <1>2
<1>4. writes = WritesTo(history', k, r)
  BY <1>3 DEF WritesTo
<1>5. \A i \in writes : history'[i].exists = history[i].exists
  BY <1>3 DEF WritesTo
<1>6. ObjectAt(k, r)' = ObjectOf(history', writes)
  BY <1>4, ObjectAtWrites
<1> HIDE DEF writes
<1>7. ObjectOf(history', writes) = ObjectOf(history, writes)
  BY <1>5, SameWrites
<1> QED
  BY <1>6, <1>7, ObjectAtWrites DEF writes

\* The next revision changes one object.
LEMMA ObjectNext ==
    ASSUME TypeOK, NEW k \in Keys, NEW r \in 1 .. Now
    PROVE  ObjectAt(k, r) = IF history[r].key # k THEN ObjectAt(k, r - 1)
                            ELSE IF history[r].exists THEN r ELSE 0
<1>1. r \in Nat \ {0} /\ Now \in Nat
  BY DEF TypeOK, Now
<1>2. 1 .. r = (1 .. r - 1) \cup {r} /\ r \notin 1 .. r - 1
  BY <1>1
<1> DEFINE writes == WritesTo(history, k, r)
<1>3. ObjectAt(k, r) = ObjectOf(history, writes)
  BY ObjectAtWrites
<1>4. CASE history[r].key # k
  <2>1. writes = WritesTo(history, k, r - 1)
    BY <1>2, <1>4 DEF WritesTo
  <2> QED
    BY <1>3, <1>4, <2>1, ObjectAtWrites
<1>5. CASE history[r].key = k
  <2>1. r \in writes /\ \A j \in writes : j \in Nat /\ j <= r
    BY <1>1, <1>5 DEF WritesTo
  <2> DEFINE top == CHOOSE i \in writes : \A j \in writes : j <= i
  <2> HIDE DEF writes
  <2>2. \A i \in writes : (\A j \in writes : j <= i) => i = r
    BY <1>1, <2>1
  <2>3. top \in writes /\ \A j \in writes : j <= top
    BY <2>1, Zenon
  <2>4. top = r
    BY <2>2, <2>3
  <2>5. ObjectOf(history, writes) =
          IF \E i \in writes : history[i].exists /\ \A j \in writes : j <= i
          THEN top ELSE 0
    BY DEF ObjectOf
  <2> HIDE DEF top
  <2> QED
    BY <1>3, <1>5, <2>1, <2>2, <2>4, <2>5
<1> QED
  BY <1>4, <1>5

\* As long as the watch tells of every write, the cache comes to be right.
LEMMA CacheRightKept ==
    ASSUME TypeOK, TypeOK', HandlingKey, FirstListComes, CacheIsRight, [Next]_vars
    PROVE  CacheIsRight'
<1> SUFFICES ASSUME NEW k \in Keys, lists' <= 1 \/ Reported(k)'
             PROVE  Coming(k)' = ObjectAt(k, reflector.revision)'
  BY DEF CacheIsRight
<1>1. /\ indexer[k] \in Nat
      /\ items \in [Keys -> Seq(Deltas)] /\ items[k] \in Seq(Deltas)
      /\ handling.deltas \in Seq(Deltas)
      /\ reflector.revision \in Nat /\ reflector.revision <= Now
      /\ Now \in Nat /\ lists \in Nat /\ listed \in Nat
  <2>1. Now \in Nat
    BY DEF TypeOK, Now
  <2> QED
    BY <2>1 DEF TypeOK
<1>2. lists <= 1 \/ Reported(k) => Coming(k) = ObjectAt(k, reflector.revision)
  BY DEF CacheIsRight
<1>3. ASSUME UNCHANGED <<items, handling, indexer>>
      PROVE  Coming(k)' = Coming(k)
  BY <1>3 DEF Coming, After
<1>4. handling.deltas = <<>> => Coming(k) = After(items[k], indexer[k])
  BY DEF Coming, After
<1>5. ASSUME NEW j \in Keys, Write(j) \/ Erase(j)
      PROVE  Coming(k)' = ObjectAt(k, reflector.revision)'
  <2>1. PICK w \in [key : Keys, exists : BOOLEAN] : history' = Append(history, w)
    BY <1>5 DEF Write, Erase
  <2>2. UNCHANGED <<reflector, items, handling, indexer, lists, listed>>
    BY <1>5 DEF Write, Erase, fifo
  <2>3. ObjectAt(k, reflector.revision)' = ObjectAt(k, reflector.revision)
    BY <2>1, <2>2, ObjectKept
  <2>4. Reported(k)' => Reported(k)
    <3> SUFFICES ASSUME NEW i \in 1 .. Now', listed < i, i <= reflector.revision,
                        history'[i].key = k
                 PROVE  Reported(k)
      BY <2>2 DEF Reported
    <3>1. Now' = Now + 1 /\ \A l \in 1 .. Now : history'[l] = history[l]
      BY <2>1, WriteAppended
    <3>2. i \in 1 .. Now
      BY <1>1, <3>1
    <3> QED
      BY <3>1, <3>2 DEF Reported
  <2> QED
    BY <1>2, <1>3, <2>2, <2>3, <2>4
<1>6. ASSUME UNCHANGED <<history, items, handling, indexer, lists, listed>>,
             reflector'.revision = reflector.revision
      PROVE  Coming(k)' = ObjectAt(k, reflector.revision)'
  <2>1. ObjectAt(k, reflector.revision)' = ObjectAt(k, reflector.revision)
    BY <1>6, ObjectAtWrites
  <2>2. Reported(k)' => Reported(k)
    BY <1>6 DEF Reported, Now
  <2> QED
    BY <1>2, <1>3, <1>6, <2>1, <2>2
<1>7. ASSUME NEW j \in Keys, Handler(j)
      PROVE  Coming(k)' = ObjectAt(k, reflector.revision)'
  <2>1. UNCHANGED <<history, reflector, items, handling, indexer, lists, listed>>
    BY <1>7, HandlerDoes DEF enqueue, fifo
  <2> QED
    BY <1>6, <2>1
<1>8. ASSUME NEW r \in 0 .. Now, List(r)
      PROVE  Coming(k)' = ObjectAt(k, reflector.revision)'
  <2>1. reflector'.revision = r /\ listed' = r /\ lists' = lists + 1 /\ r \in Nat
    BY <1>1, <1>8 DEF List
  <2>2. UNCHANGED <<history, handling, indexer>>
    BY <1>8 DEF List
  <2>3. ~Reported(k)'
    BY <2>1 DEF Reported
  <2>4. lists = 0
    BY <1>1, <2>1, <2>3
  <2>5. handling.deltas = <<>> /\ items[k] = <<>> /\ indexer[k] = 0
    BY <2>4 DEF FirstListComes, Unlocked
  <2>6. items'[k] = IF ObjectAt(k, r) # 0 THEN <<Delta("Sync", ObjectAt(k, r))>> ELSE <<>>
    BY <1>8, <2>5 DEF List, Replace, Replaced, Queued
  <2>7. Coming(k)' = After(items'[k], 0)
    BY <2>2, <2>5 DEF Coming, After
  <2>8. After(items'[k], 0) = ObjectAt(k, r)
    BY <2>6 DEF After, Last, Delta, IsDeletion
  <2> QED
    BY <2>1, <2>2, <2>7, <2>8, ObjectAtWrites
<1>9. CASE WatchEvent
  <2> DEFINE r == reflector.revision + 1
             j == history[r].key
             d == Delta(EventType(r), r)
  <2>1. /\ r \in 1 .. Now /\ j \in Keys /\ d \in Deltas /\ d.revision = r
        /\ reflector'.revision = r /\ reflector.revision = r - 1
    BY <1>1, <1>9, WatchEventDoes
  <2>2. /\ UNCHANGED <<history, handling, indexer, lists, listed>>
        /\ handling.deltas = <<>>
    BY <1>9 DEF WatchEvent, Unlocked, ghosts
  <2>3. Coming(k)' = After(items'[k], indexer[k])
    BY <2>2 DEF Coming, After
  <2>4. /\ d.type # "Sync"
        /\ IsDeletion(d) <=> ~history[r].exists
        /\ d.type = "Deleted" <=> ~history[r].exists
    BY DEF Delta, EventType, IsDeletion
  <2>5. IF d.type = "Deleted" THEN DeleteAction(j, d) ELSE QueueAction(j, d)
    BY <1>9 DEF WatchEvent
  <2>6. ObjectAt(k, reflector.revision)' = ObjectAt(k, r)
    BY <2>1, <2>2, ObjectAtWrites
  <2>7. ObjectAt(k, r) = IF j # k THEN ObjectAt(k, reflector.revision)
                         ELSE IF history[r].exists THEN r ELSE 0
    BY <2>1, ObjectNext
  <2>8. j # k => (Reported(k)' => Reported(k))
    <3> SUFFICES ASSUME j # k, NEW i \in 1 .. Now, listed < i, i <= r, history[i].key = k
                 PROVE  Reported(k)
      BY <2>1, <2>2 DEF Reported, Now
    <3>1. i # r
      OBVIOUS
    <3>2. i <= reflector.revision
      BY <1>1, <3>1
    <3> QED
      BY <3>2 DEF Reported
  <2> HIDE DEF j, d, r
  <2>9. CASE QueueAction(j, d)
    <3>1. /\ items' = [items EXCEPT ![j] = Queued(items[j], d)]
          /\ j # k => items'[k] = items[k]
      BY <2>1, <2>9, QueueActionDoes
    <3>2. CASE j # k
      <4>1. Coming(k)' = Coming(k)
        BY <1>4, <2>2, <2>3, <3>1, <3>2
      <4> QED
        BY <1>2, <2>2, <2>6, <2>7, <2>8, <3>2, <4>1
    <3>3. CASE j = k
      <4>1. items'[k] = Queued(items[k], d)
        BY <1>1, <3>1, <3>3
      <4>2. After(items'[k], indexer[k]) = IF IsDeletion(d) THEN 0 ELSE r
        BY <1>1, <2>1, <2>4, <4>1, AfterQueued
      <4> QED
        BY <2>3, <2>4, <2>6, <2>7, <3>3, <4>2
    <3> QED
      BY <3>2, <3>3
  <2>10. CASE ~QueueAction(j, d)
    <3>1. /\ d.type = "Deleted" /\ items' = items
          /\ indexer[j] = 0 /\ items[j] = <<>>
      BY <2>5, <2>10 DEF DeleteAction
    <3>2. CASE j # k
      <4>1. Coming(k)' = Coming(k)
        BY <1>4, <2>2, <2>3, <3>1
      <4> QED
        BY <1>2, <2>2, <2>6, <2>7, <2>8, <3>2, <4>1
    <3>3. CASE j = k
      <4>1. After(items'[k], indexer[k]) = 0
        BY <3>1, <3>3 DEF After
      <4> QED
        BY <2>3, <2>4, <2>6, <2>7, <3>1, <3>3, <4>1
    <3> QED
      BY <3>2, <3>3
  <2> QED
    BY <2>9, <2>10
<1>10. CASE WatchFails
  <2>1. UNCHANGED <<history, items, handling, indexer, lists, listed>>
    BY <1>10 DEF WatchFails, fifo, ghosts
  <2>2. reflector'.revision = reflector.revision
    BY <1>10 DEF WatchFails, TypeOK
  <2> QED
    BY <1>6, <2>1, <2>2
<1>11. CASE Resync
  <2>1. /\ UNCHANGED <<history, reflector, handling, indexer, lists, listed>>
        /\ handling.deltas = <<>>
    BY <1>11 DEF Resync, Unlocked, ghosts
  <2>2. items'[k] = IF indexer[k] # 0 /\ items[k] = <<>>
                    THEN <<Delta("Sync", indexer[k])>> ELSE items[k]
    BY <1>11 DEF Resync, Resynced
  <2>3. Coming(k)' = After(items'[k], indexer[k])
    BY <2>1 DEF Coming, After
  <2>4. After(items'[k], indexer[k]) = After(items[k], indexer[k])
    BY <2>2 DEF After, Last, Delta, IsDeletion
  <2>5. ObjectAt(k, reflector.revision)' = ObjectAt(k, reflector.revision)
    BY <2>1, ObjectAtWrites
  <2>6. Reported(k)' => Reported(k)
    BY <2>1 DEF Reported, Now
  <2> QED
    BY <1>2, <1>4, <2>1, <2>3, <2>4, <2>5, <2>6
<1>12. CASE Pop
  <2>1. /\ UNCHANGED <<history, reflector, indexer, lists, listed>>
        /\ handling.deltas = <<>>
        /\ handling' = [key |-> Head(queue), deltas |-> items[Head(queue)]]
        /\ items' = [items EXCEPT ![Head(queue)] = <<>>]
    BY <1>12 DEF Pop, ghosts, Unlocked
  <2>2. Coming(k)' = After(items[k], indexer[k])
    <3>1. CASE Head(queue) = k
      <4>1. items'[k] = <<>> /\ handling'.key = k /\ handling'.deltas = items[k]
        BY <1>1, <2>1, <3>1
      <4> QED
        BY <2>1, <4>1 DEF Coming, After
    <3>2. CASE Head(queue) # k
      <4>1. items'[k] = items[k] /\ handling'.key # k
        BY <1>1, <2>1, <3>2
      <4> QED
        BY <2>1, <4>1 DEF Coming, After
    <3> QED
      BY <3>1, <3>2
  <2>3. ObjectAt(k, reflector.revision)' = ObjectAt(k, reflector.revision)
    BY <2>1, ObjectAtWrites
  <2>4. Reported(k)' => Reported(k)
    BY <2>1 DEF Reported, Now
  <2> QED
    BY <1>2, <1>4, <2>1, <2>2, <2>3, <2>4
<1>13. CASE HandleDelta
  <2> DEFINE ds == handling.deltas
             known == IF IsDeletion(Head(ds)) THEN 0 ELSE Head(ds).revision
  <2>1. /\ UNCHANGED <<history, reflector, items, lists, listed>> /\ ds # <<>>
        /\ indexer' = [indexer EXCEPT ![handling.key] = known]
        /\ handling' = [handling EXCEPT !.deltas = Tail(ds)]
    BY <1>13 DEF HandleDelta, fifo
  <2>2. handling'.key = handling.key /\ handling'.deltas = Tail(ds)
    BY <2>1 DEF TypeOK
  <2>3. Coming(k)' = Coming(k)
    <3>1. CASE handling.key = k
      <4>1. indexer'[k] = known
        BY <2>1, <3>1 DEF TypeOK
      <4>2. After(ds, indexer[k]) = After(Tail(ds), known)
        BY <1>1, <2>1, AfterFirst
      <4> QED
        BY <2>1, <2>2, <3>1, <4>1, <4>2 DEF Coming, After
    <3>2. CASE handling.key # k
      <4>1. indexer'[k] = indexer[k]
        BY <2>1, <3>2 DEF TypeOK
      <4> QED
        BY <2>1, <2>2, <3>2, <4>1 DEF Coming, After
    <3> QED
      BY <3>1, <3>2
  <2>4. ObjectAt(k, reflector.revision)' = ObjectAt(k, reflector.revision)
    BY <2>1, ObjectAtWrites
  <2>5. Reported(k)' => Reported(k)
    BY <2>1 DEF Reported, Now
  <2> QED
    BY <1>2, <2>1, <2>3, <2>4, <2>5
<1>14. CASE UNCHANGED vars
  BY <1>6, <1>14 DEF vars, fifo, ghosts
<1> QED
  BY <1>5, <1>7, <1>8, <1>9, <1>10, <1>11, <1>12, <1>13, <1>14 DEF Next

LEMMA QueuedWritten ==
    ASSUME NEW k, NEW ds \in Seq(Deltas), NEW d \in Deltas,
           AllWritten(k, ds), IsDeletion(d) \/ Written(k, d.revision)
    PROVE  AllWritten(k, Queued(ds, d))
<1> DEFINE Good(e) == IsDeletion(e) \/ Written(k, e.revision)
<1>1. \A i \in 1 .. Len(ds) : Good(ds[i])
  BY DEF AllWritten
<1>2. Len(ds) \in Nat /\ Good(d)
  OBVIOUS
<1> HIDE DEF Good
<1>3. ASSUME NEW es \in Seq(Deltas), \A i \in 1 .. Len(es) : Good(es[i])
      PROVE  \A i \in 1 .. Len(Append(es, d)) : Good(Append(es, d)[i])
  <2>1. /\ Len(Append(es, d)) = Len(es) + 1 /\ Len(es) \in Nat
        /\ \A i \in 1 .. Len(es) : Append(es, d)[i] = es[i]
        /\ Append(es, d)[Len(es) + 1] = d
    BY <1>3, AppendProperties
  <2>2. 1 .. Len(es) + 1 = (1 .. Len(es)) \cup {Len(es) + 1}
    BY <2>1
  <2> QED
    BY <1>2, <1>3, <2>1, <2>2
<1>4. \A i \in 1 .. Len(Queued(ds, d)) : Good(Queued(ds, d)[i])
  <2>1. CASE Queued(ds, d) = <<d>>
    BY <1>2, <2>1
  <2>2. CASE Queued(ds, d) = ds
    BY <1>1, <2>2
  <2>3. CASE Queued(ds, d) = Append(ds, d)
    BY <1>1, <1>3, <2>3
  <2>4. CASE ds # <<>> /\ Queued(ds, d) = Append(Front(ds), d)
    <3>1. /\ Front(ds) \in Seq(Deltas) /\ Len(Front(ds)) = Len(ds) - 1
          /\ \A i \in 1 .. Len(ds) - 1 : Front(ds)[i] = ds[i]
      BY <2>4, FrontOf
    <3>2. \A i \in 1 .. Len(Front(ds)) : Good(Front(ds)[i])
      BY <1>1, <1>2, <3>1
    <3> QED
      BY <1>3, <2>4, <3>1, <3>2
  <2> QED
    BY <2>1, <2>2, <2>3, <2>4, QueuedCases
<1> QED
  BY <1>4 DEF AllWritten, Good

\* Nothing gets into the cache but what the API server has written.
LEMMA WritesKept ==
    ASSUME TypeOK, TypeOK', HandlingKey, CacheHoldsWrites, [Next]_vars
    PROVE  CacheHoldsWrites'
<1> DEFINE Holds(k) ==
        /\ indexer'[k] # 0 => Written(k, indexer'[k])
        /\ AllWritten(k, items'[k])
        /\ handling'.key = k => AllWritten(k, handling'.deltas)
<1>1. \A i \in 1 .. Now : i \in 1 .. Now' /\ history'[i] = history[i]
  <2>1. ASSUME NEW w \in [key : Keys, exists : BOOLEAN], history' = Append(history, w)
        PROVE  \A i \in 1 .. Now : i \in 1 .. Now' /\ history'[i] = history[i]
    BY <2>1, WriteAppended
  <2>2. ASSUME NEW k \in Keys, Handler(k)
        PROVE  history' = history
    BY <2>2, HandlerDoes DEF enqueue
  <2>3. history' = history \/ \E w \in [key : Keys, exists : BOOLEAN] :
                                  history' = Append(history, w)
    BY <2>2 DEF Next, Write, Erase, List, WatchEvent, WatchFails, Resync, Pop,
                HandleDelta, vars
  <2> QED
    BY <2>1, <2>3 DEF Now
<1>2. (\A k \in Keys : Holds(k)) => CacheHoldsWrites'
  BY <1>1 DEF CacheHoldsWrites, AllWritten, Written
<1> SUFFICES ASSUME NEW k \in Keys
             PROVE  Holds(k)
  BY <1>2
<1>3. /\ indexer[k] # 0 => Written(k, indexer[k])
      /\ AllWritten(k, items[k])
      /\ handling.key = k => AllWritten(k, handling.deltas)
  BY DEF CacheHoldsWrites
<1>4. /\ items \in [Keys -> Seq(Deltas)] /\ items[k] \in Seq(Deltas)
      /\ handling.deltas \in Seq(Deltas) /\ indexer[k] \in Nat
  BY DEF TypeOK
<1>5. AllWritten(k, <<>>)
  BY DEF AllWritten
<1>6. ASSUME UNCHANGED <<items, handling, indexer>>
      PROVE  Holds(k)
  BY <1>3, <1>6
<1>7. ASSUME NEW j \in Keys, Write(j) \/ Erase(j) \/ Handler(j)
      PROVE  Holds(k)
  <2>1. UNCHANGED <<items, handling, indexer>>
    BY <1>7, HandlerDoes DEF Write, Erase, enqueue, fifo
  <2> QED
    BY <1>6, <2>1
<1>8. ASSUME NEW r \in 0 .. Now, List(r)
      PROVE  Holds(k)
  <2>1. /\ UNCHANGED <<handling, indexer>>
        /\ items'[k] = IF ObjectAt(k, r) # 0
                       THEN Queued(items[k], Delta("Sync", ObjectAt(k, r)))
                       ELSE IF indexer[k] # 0 THEN Queued(items[k], Tombstone(k))
                       ELSE items[k]
    BY <1>8 DEF List, Replace, Replaced
  <2>2. CASE ObjectAt(k, r) # 0
    <3> DEFINE d == Delta("Sync", ObjectAt(k, r))
    <3>1. d \in Deltas
      <4>1. Now \in Nat
        BY DEF TypeOK, Now
      <4>2. ObjectAt(k, r) \in 0 .. r
        BY ObjectThere
      <4>3. ObjectAt(k, r) \in Nat
        BY <4>1, <4>2
      <4> QED
        BY <4>3 DEF Delta, Deltas, DeltaTypes
    <3>2. Written(k, d.revision)
      BY <2>2, ObjectWritten DEF Delta
    <3>3. AllWritten(k, Queued(items[k], d))
      BY <1>3, <1>4, <3>1, <3>2, QueuedWritten
    <3> QED
      BY <1>3, <2>1, <2>2, <3>3
  <2>3. CASE ObjectAt(k, r) = 0 /\ indexer[k] # 0
    <3>1. Tombstone(k) \in Deltas /\ IsDeletion(Tombstone(k))
      BY <1>4 DEF Tombstone, Deltas, DeltaTypes, IsDeletion
    <3>2. AllWritten(k, Queued(items[k], Tombstone(k)))
      BY <1>3, <1>4, <3>1, QueuedWritten
    <3> QED
      BY <1>3, <2>1, <2>3, <3>2
  <2> QED
    BY <1>3, <2>1, <2>2, <2>3
<1>9. CASE WatchEvent
  <2> DEFINE r == reflector.revision + 1
             j == history[r].key
             d == Delta(EventType(r), r)
  <2>1. /\ r \in 1 .. Now /\ j \in Keys /\ d \in Deltas /\ d.revision = r
        /\ QueueAction(j, d) \/ UNCHANGED <<items, queue>>
    BY <1>9, WatchEventDoes
  <2>2. UNCHANGED <<handling, indexer>>
    BY <1>9 DEF WatchEvent
  <2>3. IsDeletion(d) \/ Written(j, d.revision)
    <3>1. history[r] \in [key : Keys, exists : BOOLEAN]
      BY <2>1, ElementOfSeq DEF TypeOK, Now
    <3>2. history[r].exists => history[r] = [key |-> j, exists |-> TRUE]
      BY <3>1
    <3>3. ~history[r].exists => IsDeletion(d)
      BY DEF Delta, EventType, IsDeletion
    <3> QED
      BY <2>1, <3>2, <3>3 DEF Written
  <2> HIDE DEF r, j, d
  <2>4. AllWritten(k, items'[k])
    <3>1. CASE QueueAction(j, d) /\ j = k
      BY <1>3, <1>4, <2>1, <2>3, <3>1, QueuedWritten, QueueActionDoes
    <3>2. CASE QueueAction(j, d) /\ j # k
      BY <1>3, <2>1, <3>2, QueueActionDoes
    <3> QED
      BY <1>3, <2>1, <3>1, <3>2
  <2> QED
    BY <1>3, <2>2, <2>4
<1>10. CASE WatchFails
  BY <1>6, <1>10 DEF WatchFails, fifo
<1>11. CASE Resync
  <2>1. /\ UNCHANGED <<handling, indexer>>
        /\ items'[k] = IF indexer[k] # 0 /\ items[k] = <<>>
                       THEN <<Delta("Sync", indexer[k])>> ELSE items[k]
    BY <1>11 DEF Resync, Resynced
  <2>2. indexer[k] # 0 => AllWritten(k, <<Delta("Sync", indexer[k])>>)
    BY <1>3 DEF AllWritten, Delta
  <2> QED
    BY <1>3, <2>1, <2>2
<1>12. CASE Pop
  <2>1. /\ UNCHANGED indexer
        /\ handling' = [key |-> Head(queue), deltas |-> items[Head(queue)]]
        /\ items' = [items EXCEPT ![Head(queue)] = <<>>]
    BY <1>12 DEF Pop
  <2>2. items'[k] = IF Head(queue) = k THEN <<>> ELSE items[k]
    BY <1>4, <2>1
  <2> QED
    BY <1>3, <1>5, <2>1, <2>2
<1>13. CASE HandleDelta
  <2> DEFINE ds == handling.deltas
             d == Head(ds)
  <2>1. /\ UNCHANGED items /\ ds # <<>>
        /\ indexer' = [indexer EXCEPT ![handling.key] = IF IsDeletion(d) THEN 0 ELSE d.revision]
        /\ handling' = [handling EXCEPT !.deltas = Tail(ds)]
    BY <1>13 DEF HandleDelta, fifo
  <2>2. handling'.key = handling.key /\ handling'.deltas = Tail(ds)
    BY <2>1 DEF TypeOK
  <2>3. CASE handling.key # k
    <3>1. indexer'[k] = indexer[k]
      BY <2>1, <2>3 DEF TypeOK
    <3> QED
      BY <1>3, <2>1, <2>2, <2>3, <3>1
  <2>4. CASE handling.key = k
    <3>1. /\ Len(ds) \in Nat \ {0} /\ d = ds[1]
          /\ Len(Tail(ds)) = Len(ds) - 1
          /\ \A i \in 1 .. Len(Tail(ds)) : Tail(ds)[i] = ds[i + 1]
      BY <1>4, <2>1, HeadTailProperties
    <3>2. indexer'[k] = IF IsDeletion(d) THEN 0 ELSE d.revision
      BY <2>1, <2>4 DEF TypeOK
    <3>3. \A i \in 1 .. Len(ds) : IsDeletion(ds[i]) \/ Written(k, ds[i].revision)
      BY <1>3, <2>4 DEF AllWritten
    <3> HIDE DEF ds, d
    <3>4. /\ 1 \in 1 .. Len(ds)
          /\ \A i \in 1 .. Len(Tail(ds)) : i + 1 \in 1 .. Len(ds)
      BY <3>1
    <3>5. indexer'[k] # 0 => Written(k, indexer'[k])
      BY <3>1, <3>2, <3>3, <3>4
    <3>6. AllWritten(k, Tail(ds))
      BY <3>1, <3>3, <3>4 DEF AllWritten
    <3> QED
      BY <1>3, <2>1, <2>2, <3>5, <3>6
  <2> QED
    BY <2>3, <2>4
<1>14. CASE UNCHANGED vars
  BY <1>6, <1>14 DEF vars, fifo
<1> QED
  BY <1>7, <1>8, <1>9, <1>10, <1>11, <1>12, <1>13, <1>14 DEF Next

-----------------------------------------------------------------------------
(* The invariant, and what follows from it.                                *)

LEMMA InitInvariant ==
    ASSUME Init
    PROVE  IInv
<1>1. TypeOK /\ HandlingKey
  BY InitTypes
<1>2. /\ untold = Existing /\ reflector = [at |-> "list", revision |-> 0]
      /\ items = [k \in Keys |-> <<>>] /\ queue = <<>> /\ count = None
      /\ handling = [key |-> None, deltas |-> <<>>] /\ indexer = [k \in Keys |-> 0]
      /\ first = {} /\ lists = 0 /\ listed = 0
  BY DEF Init
<1>3. UntoldExists
  <2>1. PICK ks \in SetToSeqs(Existing) :
            history = [i \in 1 .. Len(ks) |-> [key |-> ks[i], exists |-> TRUE]]
    BY DEF Init
  <2>2. /\ ks \in Seq(Existing)
        /\ \A i, j \in 1 .. Len(ks) : ks[i] = ks[j] => i = j
        /\ \A x \in Existing : \E i \in 1 .. Len(ks) : ks[i] = x
    <3>1. IsFiniteSet(Existing)
      BY ExistingAssumption, KeysAssumption, FS_Subset
    <3> QED
      BY <2>1, <3>1, ListingOfSet, Zenon
  <2>3. Now = Len(ks) /\ Len(ks) \in Nat
    BY <2>1, <2>2 DEF Now
  <2>4. \A i \in 1 .. Len(ks) : history[i].key = ks[i] /\ history[i].exists
    BY <2>1
  <2>5. ASSUME NEW k \in Existing
        PROVE  LastKeeps(history, k, Now)
    <3>1. PICK i \in 1 .. Len(ks) : ks[i] = k
      BY <2>2
    <3>2. \A j \in 1 .. Len(ks) : history[j].key = k => j <= i
      BY <2>2, <2>3, <2>4, <3>1
    <3> QED
      BY <2>3, <2>4, <3>1, <3>2 DEF LastKeeps
  <2> QED
    BY <1>1, <1>2, <2>5, ExistingAssumption, ExistsThere DEF UntoldExists
<1>4. NothingMissed
  BY <1>2 DEF NothingMissed, OnItsWay
<1>5. QueueHoldsItems
  BY <1>2 DEF QueueHoldsItems
<1>6. FirstListComes
  BY <1>2, BoundsAssumption DEF FirstListComes, Unlocked
<1>7. FirstInFront
  BY <1>2 DEF FirstInFront
<1>8. DeltasInOrder
  BY <1>2 DEF DeltasInOrder, KeyInOrder, Between
<1>9. CacheIsRight
  <2> SUFFICES ASSUME NEW k \in Keys
               PROVE  Coming(k) = ObjectAt(k, 0)
    BY <1>2 DEF CacheIsRight
  <2>1. Coming(k) = 0
    BY <1>2 DEF Coming, After
  <2>2. 0 \in 0 .. Now
    BY <1>1 DEF TypeOK, Now
  <2>3. ObjectAt(k, 0) \in 0 .. 0
    BY <1>1, <2>2, ObjectThere
  <2> QED
    BY <2>1, <2>3
<1>10. CacheHoldsWrites
  BY <1>2 DEF CacheHoldsWrites, AllWritten
<1> QED
  BY <1>1, <1>3, <1>4, <1>5, <1>6, <1>7, <1>8, <1>9, <1>10 DEF IInv

LEMMA InvariantKept ==
    ASSUME IInv, [Next]_vars
    PROVE  IInv'
<1> USE DEF IInv
<1>1. TypeOK' /\ HandlingKey'
  BY TypesKept
<1>2. UntoldExists' /\ NothingMissed'
  BY <1>1, UntoldKept
<1>3. QueueHoldsItems'
  BY <1>1, QueueKept
<1>4. FirstListComes'
  BY <1>1, FirstListKept
<1>5. FirstInFront'
  BY <1>1, FirstInFrontKept
<1>6. DeltasInOrder'
  BY <1>1, OrderKept
<1>7. CacheIsRight'
  BY <1>1, CacheRightKept
<1>8. CacheHoldsWrites'
  BY <1>1, WritesKept
<1> QED
  BY <1>1, <1>2, <1>3, <1>4, <1>5, <1>6, <1>7, <1>8

\* The parts of the informer stay in step: reflector, DeltaFIFO, HandleDeltas,
\* cache and notifications, whatever is written and whichever watch fails.
THEOREM InductiveInvariant == Spec => []IInv
<1>1. Init => IInv
  BY InitInvariant
<1>2. IInv /\ [Next]_vars => IInv'
  BY InvariantKept
<1> QED
  BY <1>1, <1>2, PTL DEF Spec

\* Types: a listed or watched revision is one the API server has written.
THEOREM TypeCorrectness == Spec => []TypeOK
<1>1. IInv => TypeOK
  BY DEF IInv
<1> QED
  BY <1>1, InductiveInvariant, PTL

\* Every write of an object that stays is on its way to enqueue until enqueue
\* was called, through lagging lists, failed watches and merged deltas.
THEOREM NoWriteIsMissed == Spec => []NothingMissed
<1>1. IInv => NothingMissed
  BY DEF IInv
<1> QED
  BY <1>1, InductiveInvariant, PTL

\* The queue of the DeltaFIFO holds, once each, the keys that have deltas.
THEOREM FifoInStep == Spec => []QueueHoldsItems
<1>1. IInv => QueueHoldsItems
  BY DEF IInv
<1> QED
  BY <1>1, InductiveInvariant, PTL

\* When HasSynced lets Run start the workers, HandleDeltas has been through
\* every object of the first list.
THEOREM FirstListIsHandled == Spec => []SyncedHoldsFirstList
<1>1. IInv => SyncedHoldsFirstList
  <2> SUFFICES ASSUME IInv, HasSynced
               PROVE  first = {}
    BY DEF SyncedHoldsFirstList
  <2>1. count = 0 /\ count # None /\ Unlocked
    BY KeysAssumption DEF HasSynced
  <2>2. \A k \in first : \E i \in 1 .. 0 : queue[i] = k
    BY <2>1 DEF IInv, FirstInFront
  <2> QED
    BY <2>2
<1> QED
  BY <1>1, InductiveInvariant, PTL

\* Whatever is merged, left out or overtaken, what is queued and handled makes
\* the cache show each object as the watch left it: only an object that nobody
\* wrote since a second list may be shown wrong.
THEOREM CacheFollowsWrites == Spec => []CacheIsRight
<1>1. IInv => CacheIsRight
  BY DEF IInv
<1> QED
  BY <1>1, InductiveInvariant, PTL

\* So a key that is neither queued nor in HandleDeltas is cached as the watch
\* left it: from then on the resync enqueues it if it exists, and only then.
THEOREM CacheSettles ==
    Spec => [](\A k \in Keys :
                  /\ Unlocked /\ items[k] = <<>>
                  /\ lists <= 1 \/ Reported(k)
                  => indexer[k] = ObjectAt(k, reflector.revision))
<1> DEFINE Settled ==
        \A k \in Keys :
            /\ Unlocked /\ items[k] = <<>>
            /\ lists <= 1 \/ Reported(k)
            => indexer[k] = ObjectAt(k, reflector.revision)
<1>1. IInv => Settled
  <2> SUFFICES ASSUME IInv, NEW k \in Keys, Unlocked, items[k] = <<>>,
                      lists <= 1 \/ Reported(k)
               PROVE  indexer[k] = ObjectAt(k, reflector.revision)
    OBVIOUS
  <2>1. Coming(k) = ObjectAt(k, reflector.revision)
    BY DEF IInv, CacheIsRight
  <2> QED
    BY <2>1 DEF Coming, After, Unlocked
<1> QED
  BY <1>1, InductiveInvariant, PTL

\* Nothing is ever cached, or on its way there, that the API server did not
\* write, under its own key.
THEOREM CacheHoldsWhatWasWritten == Spec => []CacheHoldsWrites
<1>1. IInv => CacheHoldsWrites
  BY DEF IInv
<1> QED
  BY <1>1, InductiveInvariant, PTL

\* Until a second list the cache never goes back to an older state of an
\* object: no Sync of a resync overtakes what is queued.
THEOREM CacheNeverGoesBack == Spec => NeverBackwards
<1> DEFINE Forwards ==
        \A k \in Keys : lists' <= 1 /\ indexer'[k] # 0 => indexer'[k] >= indexer[k]
<1>1. IInv /\ IInv' /\ [Next]_vars => [Forwards]_vars
  <2> SUFFICES ASSUME IInv, IInv', [Next]_vars
               PROVE  Forwards
    OBVIOUS
  <2> QED
    BY OrderKept DEF IInv
<1>2. Spec => []IInv
  BY InductiveInvariant
<1> QED
  BY <1>1, <1>2, PTL DEF Spec, NeverBackwards

=============================================================================
