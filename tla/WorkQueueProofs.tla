-------------------------- MODULE WorkQueueProofs ---------------------------
(***************************************************************************)
(* Theorems about WorkQueue, for any keys, any finite set of workers, any  *)
(* limit of retries and any capacity of the channel.                       *)
(***************************************************************************)
EXTENDS WorkQueue, SequenceTheorems, FiniteSetTheorems, TLAPS

-----------------------------------------------------------------------------
(* Sequences without repetition.                                           *)

\* Appending adds one element to the range.
LEMMA AppendRange ==
  ASSUME NEW S, NEW s \in Seq(S), NEW e \in S
  PROVE  /\ Append(s, e) \in Seq(S)
         /\ Len(Append(s, e)) = Len(s) + 1
         /\ Range(Append(s, e)) = Range(s) \cup {e}
         /\ IsInjective(s) /\ e \notin Range(s) => IsInjective(Append(s, e))
<1> DEFINE t == Append(s, e)
<1>1. /\ t \in Seq(S) /\ Len(t) = Len(s) + 1 /\ Len(s) \in Nat
      /\ DOMAIN t = 1 .. Len(s) + 1 /\ DOMAIN s = 1 .. Len(s)
      /\ \A i \in 1 .. Len(s) : t[i] = s[i]
      /\ t[Len(s) + 1] = e
  BY AppendProperties, LenProperties
<1>2. Range(t) = Range(s) \cup {e}
  BY <1>1 DEF Range
<1>3. ASSUME IsInjective(s), e \notin Range(s)
      PROVE  IsInjective(t)
  <2>1. SUFFICES ASSUME NEW i \in DOMAIN t, NEW j \in DOMAIN t, t[i] = t[j]
                 PROVE  i = j
    BY DEF IsInjective
  <2>2. \A n \in DOMAIN s : s[n] # e
    BY <1>3 DEF Range
  <2>3. CASE i \in DOMAIN s /\ j \in DOMAIN s
    BY <1>1, <1>3, <2>1, <2>3 DEF IsInjective
  <2>4. CASE i = Len(s) + 1 \/ j = Len(s) + 1
    BY <1>1, <2>1, <2>2, <2>4
  <2>5. QED
    BY <1>1, <2>3, <2>4
<1>4. QED
  BY <1>1, <1>2, <1>3

\* The head of a sequence is not in its tail, everything else is.
LEMMA TailRange ==
  ASSUME NEW S, NEW s \in Seq(S), s # <<>>
  PROVE  /\ Head(s) \in S /\ Head(s) \in Range(s)
         /\ Tail(s) \in Seq(S)
         /\ Len(Tail(s)) = Len(s) - 1 /\ Len(s) > 0
         /\ Range(s) = Range(Tail(s)) \cup {Head(s)}
         /\ IsInjective(s) => /\ IsInjective(Tail(s))
                              /\ Range(Tail(s)) = Range(s) \ {Head(s)}
<1> DEFINE t == Tail(s)
<1>1. /\ Head(s) \in S /\ Head(s) = s[1]
      /\ t \in Seq(S) /\ Len(t) = Len(s) - 1 /\ Len(s) \in Nat /\ Len(s) > 0
      /\ DOMAIN t = 1 .. Len(s) - 1 /\ DOMAIN s = 1 .. Len(s)
      /\ \A i \in 1 .. Len(s) - 1 : t[i] = s[i + 1]
  BY HeadTailProperties, EmptySeq, LenProperties
<1>2. Head(s) \in Range(s)
  BY <1>1 DEF Range
<1>3. Range(s) \subseteq Range(t) \cup {Head(s)}
  <2>1. SUFFICES ASSUME NEW i \in DOMAIN s, i # 1
                 PROVE  s[i] \in Range(t)
    BY <1>1 DEF Range
  <2>2. i - 1 \in DOMAIN t /\ t[i - 1] = s[i]
    BY <1>1, <2>1
  <2>3. QED
    BY <2>2 DEF Range
<1>4. Range(t) \subseteq Range(s)
  BY <1>1 DEF Range
<1>5. ASSUME IsInjective(s)
      PROVE  IsInjective(t) /\ Head(s) \notin Range(t)
  <2>1. IsInjective(t)
    <3>1. SUFFICES ASSUME NEW i \in DOMAIN t, NEW j \in DOMAIN t, t[i] = t[j]
                   PROVE  i = j
      BY DEF IsInjective
    <3>2. i + 1 \in DOMAIN s /\ j + 1 \in DOMAIN s /\ s[i + 1] = s[j + 1]
      BY <1>1, <3>1
    <3>3. i + 1 = j + 1
      BY <1>5, <3>2 DEF IsInjective
    <3>4. QED
      BY <1>1, <3>3
  <2>2. \A i \in DOMAIN t : t[i] # s[1]
    BY <1>1, <1>5 DEF IsInjective
  <2>3. QED
    BY <1>1, <2>1, <2>2 DEF Range
<1>6. QED
  BY <1>1, <1>2, <1>3, <1>4, <1>5

-----------------------------------------------------------------------------
(* Signals.                                                                *)

\* A signal moves one parked worker, if there is any, and nobody else.
LEMMA SignalFacts ==
  ASSUME NEW a \in [Workers -> Places], NEW b \in Signalled(a)
  PROVE  /\ b \in [Workers -> Places]
         /\ \A w \in Workers : b[w] = a[w] \/ (a[w] = "parked" /\ b[w] = "woken")
         /\ Parked(a) = {} => b = a
         /\ Parked(a) # {} => \E w \in Parked(a) : b = [a EXCEPT ![w] = "woken"]
<1>1. CASE Parked(a) = {}
  BY <1>1 DEF Signalled
<1>2. CASE Parked(a) # {}
  <2>1. PICK w \in Parked(a) : b = [a EXCEPT ![w] = "woken"]
    BY <1>2 DEF Signalled
  <2>2. w \in Workers /\ a[w] = "parked"
    BY <2>1 DEF Parked
  <2>3. QED
    BY <1>2, <2>1, <2>2 DEF Places
<1>3. QED
  BY <1>1, <1>2

\* The workers woken at a.
WokenAt(a) == {w \in Workers : a[w] = "woken"}

\* What is said of sleepers, for any queue length n.
Enough(n, a) == Parked(a) # {} => n <= Cardinality(WokenAt(a))

LEMMA WokenFinite ==
  ASSUME NEW a
  PROVE  IsFiniteSet(WokenAt(a)) /\ Cardinality(WokenAt(a)) \in Nat
<1>1. WokenAt(a) \in SUBSET Workers
  BY DEF WokenAt
<1>2. QED
  BY <1>1, FS_Subset, FS_CardinalityType, WorkersAssumption

\* One signal is enough for one key more.
LEMMA SignalIsEnough ==
  ASSUME NEW a \in [Workers -> Places], NEW b \in Signalled(a), NEW n \in Nat,
         Enough(n, a)
  PROVE  Enough(n + 1, b)
<1>1. CASE Parked(a) = {}
  BY <1>1, SignalFacts DEF Enough
<1>2. CASE Parked(a) # {}
  <2>1. PICK w \in Parked(a) : b = [a EXCEPT ![w] = "woken"]
    BY <1>2, SignalFacts
  <2>2. w \in Workers /\ a[w] = "parked"
    BY <2>1 DEF Parked
  <2>3. WokenAt(b) = WokenAt(a) \cup {w} /\ w \notin WokenAt(a)
    BY <2>1, <2>2 DEF WokenAt
  <2>4. Cardinality(WokenAt(b)) = Cardinality(WokenAt(a)) + 1
    BY <2>3, WokenFinite, FS_AddElement
  <2>5. n <= Cardinality(WokenAt(a))
    BY <1>2 DEF Enough
  <2>6. QED
    BY <2>4, <2>5, WokenFinite DEF Enough
<1>3. QED
  BY <1>1, <1>2

\* A worker that is neither parked nor woken, nor becomes so, does not count.
LEMMA OthersDoNotCount ==
  ASSUME NEW a \in [Workers -> Places], NEW w \in Workers, NEW place \in Places,
         a[w] \notin {"parked", "woken"}, place \notin {"parked", "woken"},
         NEW n \in Nat, Enough(n, a)
  PROVE  Enough(n, [a EXCEPT ![w] = place])
<1> DEFINE b == [a EXCEPT ![w] = place]
<1>1. WokenAt(b) = WokenAt(a) /\ Parked(b) = Parked(a)
  BY DEF WokenAt, Parked
<1>2. QED
  BY <1>1 DEF Enough

\* A worker that takes a key may have been woken for it.
LEMMA TakingOne ==
  ASSUME NEW a \in [Workers -> Places], NEW w \in Workers,
         a[w] \in {"getting", "woken"}, NEW n \in Nat, n > 0, Enough(n, a)
  PROVE  Enough(n - 1, [a EXCEPT ![w] = "reconcile"])
<1> DEFINE b == [a EXCEPT ![w] = "reconcile"]
<1>1. WokenAt(b) = WokenAt(a) \ {w} /\ Parked(b) = Parked(a)
  BY DEF WokenAt, Parked
<1>2. PICK c \in Nat, d \in Nat : c = Cardinality(WokenAt(a)) /\ d = Cardinality(WokenAt(b))
  BY WokenFinite
<1>3. d = IF w \in WokenAt(a) THEN c - 1 ELSE c
  BY <1>1, <1>2, WokenFinite, FS_RemoveElement
<1>4. d >= c - 1
  BY <1>2, <1>3
<1>5. Parked(b) # {} => n <= c
  BY <1>1, <1>2 DEF Enough
<1>6. n <= c => n - 1 <= d
  BY <1>4
<1> HIDE DEF b
<1>7. Enough(n - 1, b)
  BY <1>2, <1>5, <1>6 DEF Enough
<1>8. QED
  BY <1>7 DEF b

-----------------------------------------------------------------------------
(* Add, by the handlers and by the waiting loop.                           *)

\* Nothing happens to the workers but that some that sleep wake up.
Nudged == \A w \in Workers : at'[w] = at[w] \/ (at[w] = "parked" /\ at'[w] = "woken")

LEMMA AddFacts ==
  ASSUME IInv, NEW k \in Keys, Add(k)
  PROVE  /\ queue' \in Seq(Keys) /\ dirty' \in SUBSET Keys
         /\ at' \in [Workers -> Places]
         /\ processing' = processing
         /\ dirty \subseteq dirty'
         /\ ~shuttingDown => k \in dirty'
         /\ Nudged
         /\ QueueHasTheWork'
         /\ SleepersNotNeeded'
<1> USE DEF IInv, TypeOK
<1>1. CASE UNCHANGED <<store, at>> /\ (shuttingDown \/ k \in dirty)
  <2>1. UNCHANGED <<queue, dirty, processing, at>>
    BY <1>1 DEF store
  <2>2. QueueHasTheWork' /\ SleepersNotNeeded'
    BY <2>1 DEF QueueHasTheWork, SleepersNotNeeded, Woken
  <2>3. QED
    BY <1>1, <2>1, <2>2 DEF Nudged
<1>2. CASE /\ k \notin dirty /\ dirty' = dirty \cup {k} /\ k \in processing
           /\ UNCHANGED <<queue, at, processing>>
  <2>1. QueueHasTheWork' /\ SleepersNotNeeded'
    BY <1>2 DEF QueueHasTheWork, SleepersNotNeeded, Woken
  <2>2. QED
    BY <1>2, <2>1 DEF Nudged
<1>3. CASE /\ k \notin dirty /\ dirty' = dirty \cup {k} /\ k \notin processing
           /\ processing' = processing
           /\ queue' = Append(queue, k) /\ at' \in Signalled(at)
  <2>1. k \notin Range(queue)
    BY <1>3 DEF QueueHasTheWork
  <2>2. /\ queue' \in Seq(Keys) /\ Len(queue') = Len(queue) + 1
        /\ Range(queue') = Range(queue) \cup {k} /\ IsInjective(queue')
    BY <1>3, <2>1, AppendRange DEF QueueHasTheWork
  <2>3. QueueHasTheWork'
    BY <1>3, <2>2 DEF QueueHasTheWork
  <2>4. Enough(Len(queue), at)
    BY DEF SleepersNotNeeded, Woken, Enough, WokenAt
  <2>5. Enough(Len(queue) + 1, at')
    BY <1>3, <2>4, SignalIsEnough, LenProperties
  <2>6. SleepersNotNeeded'
    BY <2>2, <2>5 DEF SleepersNotNeeded, Woken, Enough, WokenAt
  <2>7. QED
    BY <1>3, <2>2, <2>3, <2>6, SignalFacts DEF Nudged
<1>4. QED
  BY <1>1, <1>2, <1>3 DEF Add, store

\* Waking up changes nothing of what workers have and do.
LEMMA NudgedKeeps ==
  ASSUME IInv, Nudged, UNCHANGED <<key, failures, processing>>
  PROVE  /\ Holding'
         /\ OneWorkerPerKey'
         /\ CountsLeft'
         /\ Running' = Running
         /\ \A w \in Workers : at'[w] = "unborn" <=> at[w] = "unborn"
         /\ \A w \in Workers : at'[w] = "done" <=> at[w] = "done"
         /\ Parked(at) = {} => Parked(at') = {}
<1>1. Holding'
  BY DEF IInv, Nudged, Holding, Busy
<1>2. OneWorkerPerKey'
  BY DEF IInv, OneWorkerPerKey
<1>3. CountsLeft'
  BY DEF IInv, Nudged, CountsLeft
<1>4. Running' = Running
  BY DEF Nudged, Running
<1>5. Parked(at) = {} => Parked(at') = {}
  BY DEF Nudged, Parked
<1>6. QED
  BY <1>1, <1>2, <1>3, <1>4, <1>5 DEF Nudged

LEMMA AddKeeps ==
  ASSUME IInv, NEW k \in Keys, Add(k), UNCHANGED <<key, failures, process>>,
         channel' \in Seq(Keys), Len(channel') <= Capacity, delayed' \in SUBSET Keys,
         loop' \in {"top", "fire", "select", "drain", "returned"},
         Range(channel) \cup delayed \subseteq Range(channel') \cup delayed' \cup {k}
  PROVE  IInv'
<1>1. UNCHANGED <<shuttingDown, run, synced, stop>>
  BY DEF process
<1>2. TypeOK'
  BY <1>1, AddFacts DEF IInv, TypeOK
<1>3. Holding' /\ OneWorkerPerKey' /\ CountsLeft'
  BY AddFacts, NudgedKeeps
<1>4. QueueHasTheWork' /\ SleepersNotNeeded'
  BY AddFacts
<1>5. ~shuttingDown => Range(channel) \cup delayed \cup dirty
                         \subseteq Range(channel') \cup delayed' \cup dirty'
  BY AddFacts
<1>6. RetryIsSent'
  BY <1>1, <1>5, AddFacts, NudgedKeeps DEF IInv, RetryIsSent
<1>7. RetryIsComing'
  BY <1>1, <1>5, AddFacts DEF IInv, RetryIsComing
<1>8. InOrder'
  BY <1>1, AddFacts, NudgedKeeps DEF IInv, InOrder
<1>9. QED
  BY <1>2, <1>3, <1>4, <1>6, <1>7, <1>8 DEF IInv

-----------------------------------------------------------------------------
(* The waiting loop, the handlers, Run and the signal handler.             *)

LEMMA HandlersKeep ==
  ASSUME IInv, NEW k \in Keys, enqueue(k)
  PROVE  IInv'
<1>1. UNCHANGED <<key, failures, channel, delayed, loop>> /\ UNCHANGED process /\ Add(k)
  BY DEF enqueue, delays
<1>2. QED
  BY <1>1, AddKeeps DEF IInv, TypeOK

LEMMA FireKeeps ==
  ASSUME IInv, NEW k \in Keys, Fire(k)
  PROVE  IInv'
<1>1. UNCHANGED <<key, failures, channel, loop>> /\ UNCHANGED process
      /\ delayed' = delayed \ {k} /\ Add(k)
  BY DEF Fire
<1>2. QED
  BY <1>1, AddKeeps DEF IInv, TypeOK

LEMMA LoopKeeps ==
  ASSUME IInv, NEW from, NEW to \in {"top", "fire", "select", "drain", "returned"},
         LoopGoto(from, to)
  PROVE  IInv'
<1>1. /\ UNCHANGED <<queue, dirty, processing, at, key, failures, channel, delayed>>
      /\ UNCHANGED <<shuttingDown, run, synced, stop>>
      /\ loop' = to
  BY DEF LoopGoto, store, process
<1>2. TypeOK'
  BY <1>1 DEF IInv, TypeOK
<1>3. QED
  BY <1>1, <1>2 DEF IInv, Holding, OneWorkerPerKey, QueueHasTheWork,
       SleepersNotNeeded, Woken, CountsLeft, RetryIsSent, RetryIsComing,
       InOrder, Running

LEMMA ReceiveKeeps ==
  ASSUME IInv, Receive
  PROVE  IInv'
<1> DEFINE k == Head(channel)
<1>1. /\ channel # <<>> /\ channel' = Tail(channel) /\ loop' = "drain"
      /\ UNCHANGED <<key, failures>> /\ UNCHANGED process
  BY DEF Receive
<1>2. /\ k \in Keys /\ channel' \in Seq(Keys) /\ Len(channel') <= Capacity
      /\ Range(channel) = Range(channel') \cup {k}
  <2>1. channel \in Seq(Keys) /\ Len(channel) \in Nat /\ Len(channel) <= Capacity
    BY LenProperties DEF IInv, TypeOK
  <2>2. /\ k \in Keys /\ channel' \in Seq(Keys) /\ Len(channel') = Len(channel) - 1
        /\ Range(channel) = Range(channel') \cup {k}
    BY <1>1, <2>1, TailRange
  <2>3. QED
    BY <2>1, <2>2, RetriesAssumption
<1>3. CASE Add(k) /\ UNCHANGED delayed
  BY <1>1, <1>2, <1>3, AddKeeps DEF IInv, TypeOK
<1>4. CASE delayed' = delayed \cup {k} /\ UNCHANGED <<store, at>>
  <2>1. UNCHANGED <<queue, dirty, processing, at, key, failures, shuttingDown, run, synced, stop>>
    BY <1>1, <1>4 DEF store, process
  <2>2. TypeOK'
    BY <1>1, <1>2, <1>4, <2>1 DEF IInv, TypeOK
  <2>3. Range(channel') \cup delayed' = Range(channel) \cup delayed
    BY <1>2, <1>4
  <2>4. RetryIsSent' /\ RetryIsComing'
    BY <2>1, <2>3 DEF IInv, RetryIsSent, RetryIsComing
  <2>5. QED
    BY <2>1, <2>2, <2>4 DEF IInv, Holding, OneWorkerPerKey, QueueHasTheWork,
         SleepersNotNeeded, Woken, CountsLeft, InOrder, Running
<1>5. QED
  BY <1>3, <1>4 DEF Receive

\* Steps that leave the queue, the workers and the delayed keys alone.
LEMMA ProcessKeeps ==
  ASSUME IInv, CacheSynced \/ Signal \/ CloseStopCh
  PROVE  IInv'
<1>1. UNCHANGED <<queue, dirty, processing, at, key, failures, channel, delayed, loop, shuttingDown>>
  BY DEF CacheSynced, Signal, CloseStopCh, store, delays
<1>2. TypeOK'
  BY <1>1 DEF IInv, TypeOK, CacheSynced, Signal, CloseStopCh
<1>3. InOrder'
  BY <1>1 DEF IInv, TypeOK, InOrder, Running, CacheSynced, Signal, CloseStopCh
<1>4. QED
  BY <1>1, <1>2, <1>3 DEF IInv, Holding, OneWorkerPerKey, QueueHasTheWork,
       SleepersNotNeeded, Woken, CountsLeft, RetryIsSent, RetryIsComing

LEMMA StartWorkersKeeps ==
  ASSUME IInv, StartWorkers
  PROVE  IInv'
<1>1. /\ UNCHANGED <<queue, dirty, processing, key, failures, channel, delayed, loop>>
      /\ UNCHANGED <<shuttingDown, synced, stop>>
      /\ run = "sync" /\ run' = "running" /\ (synced \/ stop)
      /\ at' = [w \in Workers |-> "started"]
      /\ \A w \in Workers : at[w] = "unborn"
  BY DEF StartWorkers, store, delays, IInv, InOrder
<1>2. TypeOK'
  BY <1>1 DEF IInv, TypeOK, Places
<1>3. Holding' /\ CountsLeft' /\ RetryIsSent'
  BY <1>1 DEF IInv, Holding, CountsLeft, RetryIsSent, Busy
<1>4. Parked(at') = {}
  BY <1>1 DEF Parked
<1>5. SleepersNotNeeded'
  BY <1>4 DEF SleepersNotNeeded
<1>6. InOrder'
  BY <1>1, <1>4 DEF IInv, InOrder, Running
<1>7. QED
  BY <1>1, <1>2, <1>3, <1>5, <1>6
     DEF IInv, OneWorkerPerKey, QueueHasTheWork, RetryIsComing

LEMMA ShutDownKeeps ==
  ASSUME IInv, ShutDown
  PROVE  IInv'
<1>1. /\ UNCHANGED <<queue, dirty, processing, key, failures, channel, delayed, loop>>
      /\ UNCHANGED <<synced, stop>>
      /\ run = "running" /\ run' = "closing" /\ shuttingDown' = TRUE
      /\ at' = [w \in Workers |-> IF at[w] = "parked" THEN "woken" ELSE at[w]]
  BY DEF ShutDown, store, delays
<1>2. Nudged /\ Parked(at') = {}
  BY <1>1 DEF Nudged, Parked
<1>3. TypeOK'
  BY <1>1 DEF IInv, TypeOK, Places
<1>4. Holding' /\ OneWorkerPerKey' /\ CountsLeft' /\ Running' = Running
  BY <1>1, <1>2, NudgedKeeps
<1>5. SleepersNotNeeded' /\ RetryIsSent' /\ RetryIsComing'
  BY <1>1, <1>2 DEF SleepersNotNeeded, RetryIsSent, RetryIsComing
<1>6. InOrder'
  BY <1>1, <1>2, <1>4 DEF IInv, InOrder
<1>7. QED
  BY <1>1, <1>3, <1>4, <1>5, <1>6 DEF IInv, QueueHasTheWork

-----------------------------------------------------------------------------
(* Workers.                                                                *)

\* A worker that has a key has it alone, and the key is in processing.
LEMMA BusyFacts ==
  ASSUME IInv, NEW w \in Workers, at[w] \in Busy
  PROVE  /\ key[w] \in Keys
         /\ key[w] \in processing
         /\ \A v \in Workers \ {w} : key[v] # key[w]
  BY NoKeyAssumption DEF IInv, TypeOK, Holding, OneWorkerPerKey

\* A step of one worker that keeps its key and neither sleeps nor wakes up.
Moves(w, place) == at' = [at EXCEPT ![w] = place]

LEMMA MoveKeeps ==
  ASSUME IInv, NEW w \in Workers, NEW place \in Places,
         at[w] \notin {"parked", "woken", "unborn"},
         place \notin {"parked", "woken", "unborn"},
         at[w] \in Busy <=> place \in Busy,
         Moves(w, place), UNCHANGED <<queue, dirty, processing, key>>
  PROVE  /\ at' \in [Workers -> Places]
         /\ Holding' /\ OneWorkerPerKey' /\ QueueHasTheWork' /\ SleepersNotNeeded'
         /\ Parked(at') = Parked(at)
<1>1. at' = [at EXCEPT ![w] = place] /\ at \in [Workers -> Places]
  BY DEF Moves, IInv, TypeOK
<1>2. Holding'
  BY <1>1 DEF IInv, Holding
<1>3. OneWorkerPerKey' /\ QueueHasTheWork'
  BY DEF IInv, OneWorkerPerKey, QueueHasTheWork
<1>4. Enough(Len(queue), at) /\ Len(queue) \in Nat
  BY LenProperties DEF IInv, TypeOK, SleepersNotNeeded, Woken, Enough, WokenAt
<1>5. Enough(Len(queue), at')
  BY <1>1, <1>4, OthersDoNotCount
<1>6. SleepersNotNeeded'
  BY <1>5 DEF SleepersNotNeeded, Woken, Enough, WokenAt
<1>7. Parked(at') = Parked(at)
  BY <1>1 DEF Parked
<1>8. QED
  BY <1>1, <1>2, <1>3, <1>6, <1>7

LEMMA StartWorkerKeeps ==
  ASSUME IInv, NEW w \in Workers, StartWorker(w)
  PROVE  IInv'
<1> DEFINE place == IF stop THEN "gone" ELSE "getting"
<1>1. /\ UNCHANGED <<queue, dirty, processing, key, failures, channel, delayed, loop>>
      /\ UNCHANGED <<shuttingDown, run, synced, stop>>
      /\ at[w] = "started" /\ Moves(w, place)
      /\ place \in {"gone", "getting"}
  BY DEF StartWorker, Goto, Moves, store, delays, process
<1>2. /\ at' \in [Workers -> Places]
      /\ Holding' /\ OneWorkerPerKey' /\ QueueHasTheWork' /\ SleepersNotNeeded'
      /\ Parked(at') = Parked(at)
  BY <1>1, MoveKeeps DEF Places, Busy
<1>3. TypeOK'
  BY <1>1, <1>2 DEF IInv, TypeOK
<1>4. CountsLeft' /\ RetryIsSent' /\ RetryIsComing'
  BY <1>1 DEF IInv, TypeOK, Moves, CountsLeft, RetryIsSent, RetryIsComing
<1>5. run # "sync"
  BY <1>1 DEF IInv, InOrder
<1>6. Running' => synced
  <2>1. CASE stop
    BY <1>1, <2>1 DEF IInv, TypeOK, InOrder, Running, Moves
  <2>2. CASE ~stop
    BY <1>5, <2>2 DEF IInv, InOrder
  <2>3. QED
    BY <2>1, <2>2
<1>7. InOrder'
  BY <1>1, <1>2, <1>5, <1>6 DEF IInv, InOrder
<1>8. QED
  BY <1>2, <1>3, <1>4, <1>7 DEF IInv

\* The key succeeded or is dropped: its failures are forgotten.
LEMMA ForgetKeeps ==
  ASSUME IInv, NEW w \in Workers, at[w] = "reconcile", Forget(key[w]), Goto(w, "done"),
         UNCHANGED <<store, key, delays, process>>
  PROVE  IInv'
<1>1. /\ UNCHANGED <<queue, dirty, processing, key, channel, delayed, loop>>
      /\ UNCHANGED <<shuttingDown, run, synced, stop>>
      /\ at[w] = "reconcile" /\ Moves(w, "done")
      /\ failures' = [failures EXCEPT ![key[w]] = 0]
  BY DEF Forget, Goto, Moves, store, delays, process
<1>2. /\ at' \in [Workers -> Places]
      /\ Holding' /\ OneWorkerPerKey' /\ QueueHasTheWork' /\ SleepersNotNeeded'
      /\ Parked(at') = Parked(at)
  BY <1>1, MoveKeeps DEF Places, Busy
<1>3. /\ key[w] \in Keys
      /\ \A v \in Workers \ {w} : key[v] # key[w]
  BY <1>1, BusyFacts DEF Busy
<1>4. failures' \in [Keys -> 0 .. MaxRetries]
  <2>1. 0 \in 0 .. MaxRetries
    BY RetriesAssumption
  <2>2. QED
    BY <1>1, <2>1 DEF IInv, TypeOK
<1>5. TypeOK'
  BY <1>1, <1>2, <1>4 DEF IInv, TypeOK
<1>6. \A k \in Keys : k # key[w] => failures'[k] = failures[k]
  BY <1>1 DEF IInv, TypeOK
<1>7. failures'[key[w]] = 0
  BY <1>1, <1>3 DEF IInv, TypeOK
<1>8. \A v \in Workers : v # w => at'[v] = at[v]
  BY <1>1 DEF IInv, TypeOK, Moves
<1>9. at'[w] = "done"
  BY <1>1 DEF IInv, TypeOK, Moves
<1>10. \A v \in Workers : at[v] = "limit" \/ at[v] = "done" => key[v] \in Keys
  BY BusyFacts DEF Busy
<1>11. CountsLeft'
  <2>1. SUFFICES ASSUME NEW v \in Workers, at'[v] = "limit"
                 PROVE  failures'[key[v]] < MaxRetries
    BY <1>1 DEF CountsLeft
  <2>2. v # w /\ at[v] = "limit"
    BY <1>8, <1>9, <2>1
  <2>3. failures'[key[v]] = failures[key[v]]
    BY <1>3, <1>6, <1>10, <2>2
  <2>4. QED
    BY <2>2, <2>3 DEF IInv, CountsLeft
<1>12. RetryIsSent'
  <2>1. SUFFICES ASSUME ~shuttingDown, NEW v \in Workers, at'[v] = "done",
                        failures'[key[v]] > 0
                 PROVE  key[v] \in dirty \cup Range(channel) \cup delayed
    BY <1>1 DEF RetryIsSent
  <2>2. v # w /\ at[v] = "done"
    BY <1>7, <1>8, <2>1
  <2>3. failures'[key[v]] = failures[key[v]]
    BY <1>3, <1>6, <1>10, <2>2
  <2>4. QED
    BY <2>1, <2>2, <2>3 DEF IInv, RetryIsSent
<1>13. RetryIsComing'
  BY <1>1, <1>6, <1>7 DEF IInv, RetryIsComing
<1>14. InOrder'
  BY <1>1, <1>2 DEF IInv, TypeOK, InOrder, Running, Moves
<1>15. QED
  BY <1>2, <1>5, <1>11, <1>12, <1>13, <1>14 DEF IInv

LEMMA SucceedKeeps ==
  ASSUME IInv, NEW w \in Workers, Succeed(w)
  PROVE  IInv'
  BY ForgetKeeps DEF Succeed

LEMMA FailKeeps ==
  ASSUME IInv, NEW w \in Workers, Fail(w)
  PROVE  IInv'
<1>1. CASE failures[key[w]] >= MaxRetries /\ Forget(key[w]) /\ Goto(w, "done")
  BY <1>1, ForgetKeeps DEF Fail
<1>2. CASE failures[key[w]] < MaxRetries /\ Goto(w, "limit") /\ UNCHANGED failures
  <2>1. /\ UNCHANGED <<queue, dirty, processing, key, failures, channel, delayed, loop>>
        /\ UNCHANGED <<shuttingDown, run, synced, stop>>
        /\ at[w] = "reconcile" /\ Moves(w, "limit")
    BY <1>2 DEF Fail, Goto, Moves, store, delays, process
  <2>2. /\ at' \in [Workers -> Places]
        /\ Holding' /\ OneWorkerPerKey' /\ QueueHasTheWork' /\ SleepersNotNeeded'
        /\ Parked(at') = Parked(at)
    BY <2>1, MoveKeeps DEF Places, Busy
  <2>3. TypeOK'
    BY <2>1, <2>2 DEF IInv, TypeOK
  <2>4. CountsLeft'
    BY <1>2, <2>1 DEF IInv, TypeOK, Moves, CountsLeft
  <2>5. RetryIsSent' /\ RetryIsComing'
    BY <2>1 DEF IInv, TypeOK, Moves, RetryIsSent, RetryIsComing
  <2>6. InOrder'
    BY <2>1, <2>2 DEF IInv, TypeOK, InOrder, Running, Moves
  <2>7. QED
    BY <2>2, <2>3, <2>4, <2>5, <2>6 DEF IInv
<1>3. QED
  BY <1>1, <1>2 DEF Fail

LEMMA AddRateLimitedKeeps ==
  ASSUME IInv, NEW w \in Workers, AddRateLimited(w)
  PROVE  IInv'
<1> DEFINE place == IF shuttingDown THEN "done" ELSE "send"
<1>1. /\ UNCHANGED <<queue, dirty, processing, key, channel, delayed, loop>>
      /\ UNCHANGED <<shuttingDown, run, synced, stop>>
      /\ at[w] = "limit" /\ Moves(w, place) /\ place \in {"done", "send"}
      /\ failures' = [failures EXCEPT ![key[w]] = @ + 1]
  BY DEF AddRateLimited, Goto, Moves, store, delays, process
<1>2. /\ at' \in [Workers -> Places]
      /\ Holding' /\ OneWorkerPerKey' /\ QueueHasTheWork' /\ SleepersNotNeeded'
      /\ Parked(at') = Parked(at)
  BY <1>1, MoveKeeps DEF Places, Busy
<1>3. /\ key[w] \in Keys /\ key[w] \in processing
      /\ \A v \in Workers \ {w} : key[v] # key[w]
  BY <1>1, BusyFacts DEF Busy
<1>4. failures' \in [Keys -> 0 .. MaxRetries]
  <2>1. failures[key[w]] \in 0 .. MaxRetries /\ failures[key[w]] < MaxRetries
    BY <1>1, <1>3 DEF IInv, TypeOK, CountsLeft
  <2>2. failures[key[w]] + 1 \in 0 .. MaxRetries
    BY <2>1, RetriesAssumption
  <2>3. QED
    BY <1>1, <2>2 DEF IInv, TypeOK
<1>5. TypeOK'
  BY <1>1, <1>2, <1>4 DEF IInv, TypeOK
<1>6. \A k \in Keys : k # key[w] => failures'[k] = failures[k]
  BY <1>1 DEF IInv, TypeOK
<1>7. \A v \in Workers : v # w => at'[v] = at[v]
  BY <1>1 DEF IInv, TypeOK, Moves
<1>8. at'[w] = place
  BY <1>1 DEF IInv, TypeOK, Moves
<1>9. \A v \in Workers : at[v] = "limit" \/ at[v] = "done" => key[v] \in Keys
  BY BusyFacts DEF Busy
<1>10. \A v \in Workers : v # w /\ (at[v] = "limit" \/ at[v] = "done") =>
          failures'[key[v]] = failures[key[v]]
  BY <1>3, <1>6, <1>9
<1>11. CountsLeft'
  <2>1. SUFFICES ASSUME NEW v \in Workers, at'[v] = "limit"
                 PROVE  failures'[key[v]] < MaxRetries
    BY <1>1 DEF CountsLeft
  <2>2. v # w /\ at[v] = "limit"
    BY <1>1, <1>7, <1>8, <2>1
  <2>3. QED
    BY <1>10, <2>2 DEF IInv, CountsLeft
<1>12. RetryIsSent'
  <2>1. SUFFICES ASSUME ~shuttingDown, NEW v \in Workers, at'[v] = "done",
                        failures'[key[v]] > 0
                 PROVE  key[v] \in dirty \cup Range(channel) \cup delayed
    BY <1>1 DEF RetryIsSent
  <2>2. v # w /\ at[v] = "done"
    BY <1>7, <1>8, <2>1
  <2>3. failures'[key[v]] = failures[key[v]]
    BY <1>10, <2>2
  <2>4. QED
    BY <2>1, <2>2, <2>3 DEF IInv, RetryIsSent
<1>13. RetryIsComing'
  BY <1>1, <1>3, <1>6 DEF IInv, RetryIsComing
<1>14. InOrder'
  BY <1>1, <1>2 DEF IInv, TypeOK, InOrder, Running, Moves
<1>15. QED
  BY <1>2, <1>5, <1>11, <1>12, <1>13, <1>14 DEF IInv

LEMMA AddAfterKeeps ==
  ASSUME IInv, NEW w \in Workers, AddAfter(w)
  PROVE  IInv'
<1>1. /\ UNCHANGED <<queue, dirty, processing, key, failures, delayed, loop>>
      /\ UNCHANGED <<shuttingDown, run, synced, stop>>
      /\ at[w] = "send" /\ Moves(w, "done")
  BY DEF AddAfter, Goto, Moves, store, process
<1>2. /\ at' \in [Workers -> Places]
      /\ Holding' /\ OneWorkerPerKey' /\ QueueHasTheWork' /\ SleepersNotNeeded'
      /\ Parked(at') = Parked(at)
  BY <1>1, MoveKeeps DEF Places, Busy
<1>3. key[w] \in Keys /\ channel \in Seq(Keys) /\ Len(channel) \in Nat
      /\ Len(channel) <= Capacity
  BY <1>1, BusyFacts, LenProperties DEF Busy, IInv, TypeOK
<1>4. /\ channel' \in Seq(Keys) /\ Len(channel') <= Capacity
      /\ Range(channel) \subseteq Range(channel')
      /\ ~shuttingDown => key[w] \in Range(channel')
  <2>1. CASE Len(channel) < Capacity /\ channel' = Append(channel, key[w])
    <3>1. /\ channel' \in Seq(Keys) /\ Len(channel') = Len(channel) + 1
          /\ Range(channel') = Range(channel) \cup {key[w]}
      BY <1>3, <2>1, AppendRange
    <3>2. QED
      BY <1>3, <2>1, <3>1, RetriesAssumption
  <2>2. CASE StopChClosed /\ UNCHANGED channel
    BY <1>3, <2>2 DEF StopChClosed, IInv, InOrder
  <2>3. QED
    BY <2>1, <2>2 DEF AddAfter
<1>5. TypeOK'
  BY <1>1, <1>2, <1>4 DEF IInv, TypeOK
<1>6. CountsLeft'
  BY <1>1 DEF IInv, TypeOK, Moves, CountsLeft
<1>7. RetryIsSent'
  BY <1>1, <1>4 DEF IInv, TypeOK, Moves, RetryIsSent
<1>8. RetryIsComing'
  BY <1>1, <1>4 DEF IInv, RetryIsComing
<1>9. InOrder'
  BY <1>1, <1>2 DEF IInv, TypeOK, InOrder, Running, Moves
<1>10. QED
  BY <1>2, <1>5, <1>6, <1>7, <1>8, <1>9 DEF IInv

\* Get hands the head of the queue to the worker.
LEMMA TakeKeeps ==
  ASSUME IInv, NEW w \in Workers, at[w] \in {"getting", "woken"}, queue # <<>>,
         queue' = Tail(queue), processing' = processing \cup {Head(queue)},
         dirty' = dirty \ {Head(queue)}, key' = [key EXCEPT ![w] = Head(queue)],
         Goto(w, "reconcile"), UNCHANGED <<failures, delays, process>>
  PROVE  IInv'
<1> DEFINE k == Head(queue)
<1>1. /\ UNCHANGED <<failures, channel, delayed, loop>>
      /\ UNCHANGED <<shuttingDown, run, synced, stop>>
      /\ at' = [at EXCEPT ![w] = "reconcile"] /\ at \in [Workers -> Places]
      /\ key \in [Workers -> Keys \cup {None}]
  BY DEF Goto, delays, process, IInv, TypeOK
<1>2. /\ k \in Keys /\ k \in Range(queue)
      /\ queue' \in Seq(Keys) /\ Len(queue') = Len(queue) - 1
      /\ Len(queue) \in Nat /\ Len(queue) > 0
      /\ IsInjective(queue') /\ Range(queue') = Range(queue) \ {k}
  BY TailRange, LenProperties DEF IInv, TypeOK, QueueHasTheWork
<1>3. k \in dirty /\ k \notin processing
  BY <1>2 DEF IInv, QueueHasTheWork
<1>4. TypeOK'
  BY <1>1, <1>2, <1>3 DEF IInv, TypeOK, Places
<1>5. key[w] = None
  BY <1>1 DEF IInv, Holding, Busy
<1>6. /\ key'[w] = k /\ at'[w] = "reconcile"
      /\ \A v \in Workers : v # w => key'[v] = key[v] /\ at'[v] = at[v]
  BY <1>1
<1>7. Holding'
  <2>1. \A v \in Workers : at'[v] \in Busy <=> key'[v] # None
    BY <1>2, <1>6, NoKeyAssumption DEF IInv, Holding, Busy
  <2>2. processing' = {key'[v] : v \in Workers} \ {None}
    BY <1>2, <1>5, <1>6, NoKeyAssumption DEF IInv, Holding
  <2>3. QED
    BY <2>1, <2>2 DEF Holding
<1>8. OneWorkerPerKey'
  <2>1. \A v \in Workers : key[v] # k
    BY <1>2, <1>3, NoKeyAssumption DEF IInv, Holding
  <2>2. QED
    BY <1>6, <2>1 DEF IInv, OneWorkerPerKey
<1>9. QueueHasTheWork'
  BY <1>2, <1>3 DEF IInv, QueueHasTheWork
<1>10. SleepersNotNeeded'
  <2>1. Enough(Len(queue), at)
    BY DEF IInv, SleepersNotNeeded, Woken, Enough, WokenAt
  <2>2. Enough(Len(queue) - 1, at')
    BY <1>1, <1>2, <2>1, TakingOne
  <2>3. QED
    BY <1>2, <2>2 DEF SleepersNotNeeded, Woken, Enough, WokenAt
<1>11. CountsLeft'
  BY <1>1, <1>6 DEF IInv, CountsLeft
<1>12. RetryIsSent'
  <2>1. SUFFICES ASSUME ~shuttingDown, NEW v \in Workers, at'[v] = "done",
                        failures[key'[v]] > 0
                 PROVE  key'[v] \in dirty' \cup Range(channel) \cup delayed
    BY <1>1 DEF RetryIsSent
  <2>2. v # w /\ at[v] = "done" /\ key'[v] = key[v]
    BY <1>6, <2>1
  <2>3. key[v] \in processing
    BY <2>2, BusyFacts DEF Busy
  <2>4. QED
    BY <1>3, <2>1, <2>2, <2>3 DEF IInv, RetryIsSent
<1>13. RetryIsComing'
  BY <1>1 DEF IInv, RetryIsComing
<1>14. InOrder'
  <2>1. Running /\ Running'
    BY <1>1, <1>6 DEF Running
  <2>2. Parked(at') = Parked(at)
    BY <1>1 DEF Parked
  <2>3. QED
    BY <1>1, <2>1, <2>2 DEF IInv, InOrder
<1>15. QED
  BY <1>4, <1>7, <1>8, <1>9, <1>10, <1>11, <1>12, <1>13, <1>14 DEF IInv

\* With nothing in the queue the worker sleeps, or leaves.
LEMMA RestKeeps ==
  ASSUME IInv, NEW w \in Workers, at[w] \in {"getting", "woken"}, queue = <<>>,
         Goto(w, IF shuttingDown THEN "gone" ELSE "parked"),
         UNCHANGED <<store, key, failures, delays, process>>
  PROVE  IInv'
<1> DEFINE place == IF shuttingDown THEN "gone" ELSE "parked"
<1>1. /\ UNCHANGED <<queue, dirty, processing, key, failures, channel, delayed, loop>>
      /\ UNCHANGED <<shuttingDown, run, synced, stop>>
      /\ at' = [at EXCEPT ![w] = place] /\ at \in [Workers -> Places]
      /\ place \in {"gone", "parked"}
  BY DEF Goto, store, delays, process, IInv, TypeOK
<1>2. at'[w] = place /\ \A v \in Workers : v # w => at'[v] = at[v]
  BY <1>1
<1>3. TypeOK'
  BY <1>1 DEF IInv, TypeOK, Places
<1>4. Holding'
  BY <1>1, <1>2 DEF IInv, Holding, Busy
<1>5. Cardinality(WokenAt(at')) \in Nat /\ Len(queue') = 0
  BY <1>1, WokenFinite, EmptySeq
<1>6. SleepersNotNeeded'
  BY <1>5 DEF SleepersNotNeeded, Woken, WokenAt
<1>7. CountsLeft' /\ RetryIsSent' /\ RetryIsComing'
  BY <1>1, <1>2 DEF IInv, CountsLeft, RetryIsSent, RetryIsComing
<1>8. InOrder'
  <2>1. Running /\ (Running' => synced')
    BY <1>1 DEF IInv, InOrder, Running
  <2>2. shuttingDown => Parked(at') = {}
    BY <1>1, <1>2 DEF IInv, InOrder, Parked
  <2>3. run # "sync"
    BY <1>1 DEF IInv, InOrder
  <2>4. QED
    BY <1>1, <2>1, <2>2, <2>3 DEF IInv, InOrder
<1>9. QED
  BY <1>1, <1>3, <1>4, <1>6, <1>7, <1>8 DEF IInv, OneWorkerPerKey, QueueHasTheWork

LEMMA GetKeeps ==
  ASSUME IInv, NEW w \in Workers, Get(w)
  PROVE  IInv'
  BY TakeKeeps, RestKeeps DEF Get

\* Done gives the key back, and queues it if it became dirty meanwhile.
LEMMA DoneKeeps ==
  ASSUME IInv, NEW w \in Workers, Done(w)
  PROVE  IInv'
<1> DEFINE k == key[w]
<1> DEFINE a == [at EXCEPT ![w] = "getting"]
<1>1. /\ UNCHANGED <<dirty, failures, channel, delayed, loop>>
      /\ UNCHANGED <<shuttingDown, run, synced, stop>>
      /\ at[w] = "done" /\ at \in [Workers -> Places] /\ a \in [Workers -> Places]
      /\ key' = [key EXCEPT ![w] = None] /\ key \in [Workers -> Keys \cup {None}]
      /\ processing' = processing \ {k}
  BY DEF Done, delays, process, IInv, TypeOK, Places
<1>2. /\ k \in Keys /\ k \in processing
      /\ \A v \in Workers \ {w} : key[v] # k
  BY <1>1, BusyFacts DEF Busy
<1>3. queue \in Seq(Keys) /\ Len(queue) \in Nat /\ Enough(Len(queue), a)
  <2>1. queue \in Seq(Keys) /\ Len(queue) \in Nat
    BY LenProperties DEF IInv, TypeOK
  <2>2. Enough(Len(queue), at)
    BY DEF IInv, SleepersNotNeeded, Woken, Enough, WokenAt
  <2>3. QED
    BY <1>1, <2>1, <2>2, OthersDoNotCount DEF Places
<1>4. /\ at' \in [Workers -> Places]
      /\ at' = a \/ at' \in Signalled(a)
      /\ queue' \in Seq(Keys) /\ Enough(Len(queue'), at')
      /\ Range(queue') = dirty' \ processing' /\ IsInjective(queue')
  <2>1. CASE k \notin dirty /\ Goto(w, "getting") /\ UNCHANGED queue
    BY <1>1, <1>2, <1>3, <2>1 DEF Goto, IInv, QueueHasTheWork
  <2>2. CASE k \in dirty /\ queue' = Append(queue, k) /\ at' \in Signalled(a)
    <3>1. k \notin Range(queue)
      BY <1>2 DEF IInv, QueueHasTheWork
    <3>2. /\ queue' \in Seq(Keys) /\ Len(queue') = Len(queue) + 1
          /\ Range(queue') = Range(queue) \cup {k} /\ IsInjective(queue')
      BY <1>2, <1>3, <2>2, <3>1, AppendRange DEF IInv, QueueHasTheWork
    <3>3. Range(queue') = dirty' \ processing'
      BY <1>1, <1>2, <2>2, <3>2 DEF IInv, QueueHasTheWork
    <3>4. Enough(Len(queue) + 1, at')
      BY <1>1, <1>3, <2>2, SignalIsEnough
    <3>5. QED
      BY <1>1, <2>2, <3>2, <3>3, <3>4, SignalFacts
  <2>3. QED
    BY <2>1, <2>2 DEF Done
<1>5. \A v \in Workers : at'[v] = a[v] \/ (a[v] = "parked" /\ at'[v] = "woken")
  BY <1>1, <1>4, SignalFacts
<1>6. at'[w] = "getting" /\ \A v \in Workers : v # w =>
         at'[v] = at[v] \/ (at[v] = "parked" /\ at'[v] = "woken")
  BY <1>1, <1>5
<1>7. key'[w] = None /\ \A v \in Workers : v # w => key'[v] = key[v]
  BY <1>1
<1>8. TypeOK'
  BY <1>1, <1>4 DEF IInv, TypeOK
<1>9. Holding'
  <2>1. \A v \in Workers : at'[v] \in Busy <=> key'[v] # None
    BY <1>6, <1>7 DEF IInv, Holding, Busy
  <2>2. processing' = {key'[v] : v \in Workers} \ {None}
    BY <1>1, <1>2, <1>7 DEF IInv, Holding
  <2>3. QED
    BY <2>1, <2>2 DEF Holding
<1>10. OneWorkerPerKey'
  BY <1>7 DEF IInv, OneWorkerPerKey
<1>11. QueueHasTheWork' /\ SleepersNotNeeded'
  BY <1>4 DEF QueueHasTheWork, SleepersNotNeeded, Woken, Enough, WokenAt
<1>12. CountsLeft'
  BY <1>1, <1>6, <1>7 DEF IInv, CountsLeft
<1>13. RetryIsSent'
  BY <1>1, <1>6, <1>7 DEF IInv, RetryIsSent
<1>14. RetryIsComing'
  <2>1. SUFFICES ASSUME ~shuttingDown, NEW j \in Keys, failures[j] > 0
                 PROVE  j \in dirty \cup processing' \cup Range(channel) \cup delayed
    BY <1>1 DEF RetryIsComing
  <2>2. CASE j = k
    BY <1>1, <2>1, <2>2 DEF IInv, RetryIsSent
  <2>3. CASE j # k
    BY <1>1, <2>1, <2>3 DEF IInv, RetryIsComing
  <2>4. QED
    BY <2>2, <2>3
<1>15. InOrder'
  <2>1. Running /\ synced
    BY <1>1 DEF IInv, InOrder, Running
  <2>2. shuttingDown => Parked(at') = {}
    BY <1>1, <1>6 DEF IInv, InOrder, Parked
  <2>3. run # "sync"
    BY <1>1 DEF IInv, InOrder
  <2>4. QED
    BY <1>1, <2>1, <2>2, <2>3 DEF IInv, InOrder
<1>16. QED
  BY <1>8, <1>9, <1>10, <1>11, <1>12, <1>13, <1>14, <1>15 DEF IInv

-----------------------------------------------------------------------------
(* The theorems.                                                           *)

LEMMA InitIInv == Init => IInv
<1> SUFFICES ASSUME Init
             PROVE  IInv
  OBVIOUS
<1>1. failures \in [Keys -> 0 .. MaxRetries]
  <2>1. 0 \in 0 .. MaxRetries
    BY RetriesAssumption
  <2>2. QED
    BY <2>1 DEF Init
<1>2. TypeOK
  <2>1. <<>> \in Seq(Keys) /\ Len(<<>>) <= Capacity
    BY EmptySeq, RetriesAssumption
  <2>2. QED
    BY <1>1, <2>1 DEF Init, TypeOK, Places
<1>3. Holding /\ OneWorkerPerKey /\ CountsLeft /\ RetryIsSent /\ RetryIsComing
  BY DEF Init, Holding, OneWorkerPerKey, CountsLeft, RetryIsSent, RetryIsComing, Busy
<1>4. QueueHasTheWork
  BY EmptySeq DEF Init, QueueHasTheWork, Range, IsInjective
<1>5. Parked(at) = {}
  BY DEF Init, Parked
<1>6. SleepersNotNeeded
  BY <1>5 DEF SleepersNotNeeded
<1>7. InOrder
  BY <1>5 DEF Init, InOrder, Running
<1>8. QED
  BY <1>2, <1>3, <1>4, <1>6, <1>7 DEF IInv

LEMMA StutterKeeps == IInv /\ UNCHANGED vars => IInv'
  BY DEF vars, IInv, TypeOK, Holding, OneWorkerPerKey, QueueHasTheWork,
     SleepersNotNeeded, Woken, CountsLeft, RetryIsSent, RetryIsComing, InOrder, Running

LEMMA NextKeeps == IInv /\ [Next]_vars => IInv'
<1> SUFFICES ASSUME IInv, [Next]_vars
             PROVE  IInv'
  OBVIOUS
<1>1. ASSUME NEW w \in Workers, Work(w)
      PROVE  IInv'
  BY <1>1, StartWorkerKeeps, GetKeeps, SucceedKeeps, FailKeeps,
     AddRateLimitedKeeps, AddAfterKeeps, DoneKeeps DEF Work, Reconciled
<1>2. CASE WaitingLoop
  <2>1. CASE Receive
    BY <2>1, ReceiveKeeps
  <2>2. CASE LoopTop
    BY <2>2, LoopKeeps DEF LoopTop
  <2>3. CASE LoopSelect \/ LoopTimer \/ LoopStop \/ LoopDrained
    BY <2>3, LoopKeeps DEF LoopSelect, LoopTimer, LoopStop, LoopDrained
  <2>4. QED
    BY <1>2, <2>1, <2>2, <2>3 DEF WaitingLoop
<1>3. CASE Run \/ CacheSynced \/ Signal
  BY <1>3, StartWorkersKeeps, ShutDownKeeps, ProcessKeeps DEF Run
<1>4. ASSUME NEW k \in Keys, Fire(k) \/ enqueue(k)
      PROVE  IInv'
  BY <1>4, FireKeeps, HandlersKeep
<1>5. QED
  BY <1>1, <1>2, <1>3, <1>4, StutterKeeps DEF Next

\* What workers, queue, channel and rate limiter say of a key fits together in
\* every reachable state.
THEOREM QueueInvariant == Spec => []IInv
  BY InitIInv, NextKeeps, PTL DEF Spec

\* No two workers run reconcile for the same key at a time.
THEOREM MutualExclusion == Spec => []OneWorkerPerKey
<1>1. IInv => OneWorkerPerKey
  BY DEF IInv
<1>2. QED
  BY <1>1, QueueInvariant, PTL

\* A key that was added is in the queue or with a worker until it is handed out.
THEOREM NoKeyIsLost == Spec => []QueueHasTheWork
<1>1. IInv => QueueHasTheWork
  BY DEF IInv
<1>2. QED
  BY <1>1, QueueInvariant, PTL

\* No worker sleeps while there is a key that no signalled worker will take.
THEOREM NoWakeupIsLost == Spec => []SleepersNotNeeded
<1>1. IInv => SleepersNotNeeded
  BY DEF IInv
<1>2. QED
  BY <1>1, QueueInvariant, PTL

\* A key with failures on record is on its way back, until the shutdown.
THEOREM NoRetryIsLost == Spec => []RetryIsComing
<1>1. IInv => RetryIsComing
  BY DEF IInv
<1>2. QED
  BY <1>1, QueueInvariant, PTL

\* The number of retries stays within maxRetries, the channel within its room.
THEOREM TypeCorrectness == Spec => []TypeOK
<1>1. IInv => TypeOK
  BY DEF IInv
<1>2. QED
  BY <1>1, QueueInvariant, PTL

\* No key is worked on before the cache has synced.
THEOREM CacheComesFirst == Spec => []SyncedFirst
<1>1. ASSUME IInv
      PROVE  SyncedFirst
  <2>1. SUFFICES ASSUME NEW k \in processing
                 PROVE  synced
    BY DEF SyncedFirst
  <2>2. PICK w \in Workers : key[w] = k /\ key[w] # None
    BY <1>1, <2>1 DEF IInv, Holding
  <2>3. at[w] \in Busy
    BY <1>1, <2>2 DEF IInv, Holding
  <2>4. Running
    BY <2>3 DEF Running, Busy
  <2>5. QED
    BY <1>1, <2>4 DEF IInv, InOrder
<1>2. QED
  BY <1>1, QueueInvariant, PTL

-----------------------------------------------------------------------------
(* The queue implements KeyedQueue.                                        *)

LEMMA AddMarks ==
  ASSUME NEW k \in Keys, Add(k)
  PROVE  Q!Mark(k) \/ UNCHANGED <<dirty, processing>>
  BY DEF Add, store, Q!Mark

LEMMA WorkImplements ==
  ASSUME IInv, NEW w \in Workers, Work(w)
  PROVE  (\E k \in Keys : Q!Begin(k) \/ Q!Finish(k)) \/ UNCHANGED <<dirty, processing>>
<1>1. CASE Get(w)
  <2>1. CASE queue = <<>> /\ UNCHANGED store
    BY <2>1 DEF store
  <2>2. CASE queue # <<>> /\ processing' = processing \cup {Head(queue)}
             /\ dirty' = dirty \ {Head(queue)}
    <3>1. Head(queue) \in Keys /\ Head(queue) \in dirty \ processing
      BY <2>2, TailRange DEF IInv, TypeOK, QueueHasTheWork
    <3>2. QED
      BY <2>2, <3>1 DEF Q!Begin
  <2>3. QED
    BY <1>1, <2>1, <2>2 DEF Get
<1>2. CASE Done(w)
  <2>1. key[w] \in Keys /\ key[w] \in processing
    BY <1>2, BusyFacts DEF Done, Busy
  <2>2. QED
    BY <1>2, <2>1 DEF Done, Q!Finish
<1>3. CASE StartWorker(w) \/ Reconciled(w) \/ AddRateLimited(w) \/ AddAfter(w)
  BY <1>3 DEF StartWorker, Reconciled, Succeed, Fail, AddRateLimited, AddAfter, store
<1>4. QED
  BY <1>1, <1>2, <1>3 DEF Work

\* Every step of the queue and its workers is a step of KeyedQueue or none.
THEOREM QueueImplementsKeyedQueue == Spec => KeysHandedOutOnce
<1>1. Init => Q!Init
  BY DEF Init, Q!Init
<1>2. IInv /\ [Next]_vars => [Q!Next]_<<dirty, processing>>
  <2> SUFFICES ASSUME IInv, [Next]_vars
               PROVE  Q!Next \/ UNCHANGED <<dirty, processing>>
    OBVIOUS
  <2>1. ASSUME NEW w \in Workers, Work(w)
        PROVE  Q!Next \/ UNCHANGED <<dirty, processing>>
    BY <2>1, WorkImplements DEF Q!Next
  <2>2. ASSUME NEW k \in Keys, Add(k)
        PROVE  Q!Next \/ UNCHANGED <<dirty, processing>>
    BY <2>2, AddMarks DEF Q!Next
  <2>3. CASE Receive
    <3>1. CASE UNCHANGED store
      BY <3>1 DEF store
    <3>2. CASE Add(Head(channel))
      <4>1. Head(channel) \in Keys
        BY <2>3, TailRange DEF IInv, TypeOK, Receive
      <4>2. QED
        BY <2>2, <3>2, <4>1
    <3>3. QED
      BY <2>3, <3>1, <3>2 DEF Receive, store
  <2>4. CASE WaitingLoop
    BY <2>3, <2>4 DEF WaitingLoop, LoopTop, LoopSelect, LoopTimer, LoopStop,
       LoopDrained, LoopGoto, store
  <2>5. CASE Run \/ CacheSynced \/ Signal
    BY <2>5 DEF Run, StartWorkers, ShutDown, CloseStopCh, CacheSynced, Signal, store
  <2>6. ASSUME NEW k \in Keys, Fire(k) \/ enqueue(k)
        PROVE  Q!Next \/ UNCHANGED <<dirty, processing>>
    BY <2>2, <2>6 DEF Fire, enqueue
  <2>7. CASE UNCHANGED vars
    BY <2>7 DEF vars
  <2>8. QED
    BY <2>1, <2>4, <2>5, <2>6, <2>7 DEF Next
<1>3. QED
  BY <1>1, <1>2, QueueInvariant, PTL DEF Spec, KeysHandedOutOnce, Q!Spec, Q!queueVars

=============================================================================
