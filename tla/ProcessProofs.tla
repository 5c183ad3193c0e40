---------------------------- MODULE ProcessProofs ----------------------------
(***************************************************************************)
(* Proofs about Process and Waits, for any signals, configurations and     *)
(* timeouts.                                                               *)
(***************************************************************************)
EXTENDS Process, FiniteSetTheorems, TLAPS

USE DEF SSHConnectionConfig, InformerFor

-----------------------------------------------------------------------------
(* The worker's waits.                                                     *)

\* One more try costs one more timeout and delay.
LEMMA OneMoreTry ==
    ASSUME NEW n \in Nat, NEW x \in Nat
    PROVE  /\ n * x \in Nat
           /\ (n + 1) * x = n * x + x
OBVIOUS

LEMMA TriesBounded ==
    ASSUME NEW n \in Nat, NEW m \in Nat, NEW x \in Nat, n <= m
    PROVE  n * x <= m * x
OBVIOUS

WorkerTypes ==
    /\ config \in SSHConnectionConfig
    /\ at \in Places
    /\ clock \in Nat /\ tries \in Nat /\ open \in 0 .. 1

LEMMA DialTimeoutType ==
    ASSUME WorkerTypes
    PROVE  DialTimeout \in Nat
BY TimesAssumption DEF WorkerTypes, DialTimeout

LEMMA WaitsKept ==
    ASSUME WorkerTypes, TimeLeft, ConnectionsClosed, WaitsNext
    PROVE  /\ WorkerTypes' /\ TimeLeft' /\ ConnectionsClosed'
           /\ at # "unborn" /\ at' # "unborn"
<1> DEFINE Goal == /\ WorkerTypes' /\ TimeLeft' /\ ConnectionsClosed'
                   /\ at # "unborn" /\ at' # "unborn"
           Timeout == DialTimeout
           Round == Timeout + config.DelaySeconds
<1>1. /\ UNCHANGED config /\ config.Retries \in Nat /\ config.DelaySeconds \in Nat
      /\ Timeout \in Nat /\ DialTimeout' = Timeout
  BY DialTimeoutType DEF WaitsNext, WorkerTypes, DialTimeout
<1>2. Round \in Nat /\ tries \in Nat /\ clock \in Nat
  BY <1>1 DEF WorkerTypes
<1>3. /\ tries * Round \in Nat
      /\ (tries + 1) * Round = tries * Round + Round
      /\ 0 * Round = 0
  BY <1>2, OneMoreTry
<1>4. TimeLeft' <=>
        /\ at' \in {"check", "select", "report"} => clock' <= gceTimeout + SlowCall
        /\ at' = "call" => clock' <= gceTimeout
        /\ at' = "dial" => tries' <= config.Retries /\ clock' <= tries' * Round
        /\ at' \in {"handshake", "hung"} =>
              tries' < config.Retries /\ clock' <= tries' * Round + Timeout
  BY <1>1 DEF TimeLeft
<1>5. TimeLeft <=>
        /\ at \in {"check", "select", "report"} => clock <= gceTimeout + SlowCall
        /\ at = "call" => clock <= gceTimeout
        /\ at = "dial" => tries <= config.Retries /\ clock <= tries * Round
        /\ at \in {"handshake", "hung"} =>
              tries < config.Retries /\ clock <= tries * Round + Timeout
  BY DEF TimeLeft
<1> HIDE DEF Timeout, Round
<1>6. ASSUME NEW place \in {"idle", "ready", "reconcile", "secret", "delayed", "gone"},
             Goto(place), at \notin {"unborn", "handshake", "hung"}
      PROVE  Goal
  BY <1>1, <1>4, <1>6 DEF Goto, WorkerTypes, ConnectionsClosed, Places, Waiting
<1>7. Returns /\ at \notin {"unborn", "handshake", "hung"} => Goal
  BY <1>6 DEF Returns, Retry, Drop
<1>8. CASE ComesBack \/ Begin \/ Quit \/ PollFails \/ CreateSecret \/ Report \/ Arrive
  BY <1>6, <1>7, <1>8 DEF ComesBack, Begin, Quit, PollFails, CreateSecret, Report, Arrive
<1>9. CASE Reconcile
  BY <1>1, <1>4, <1>7, <1>9, TimesAssumption
  DEF Reconcile, WorkerTypes, ConnectionsClosed, Places, Waiting
<1>10. CASE CheckFails \/ CheckRunning
  BY <1>1, <1>4, <1>5, <1>10
  DEF CheckFails, CheckRunning, Goto, WorkerTypes, ConnectionsClosed, Places, Waiting
<1>11. CASE CheckDone
  BY <1>1, <1>3, <1>4, <1>7, <1>11
  DEF CheckDone, WorkerTypes, ConnectionsClosed, Places, Waiting
<1>12. CASE Sleep
  BY <1>1, <1>4, <1>12, TimesAssumption
  DEF Sleep, WorkerTypes, ConnectionsClosed, Places, Waiting
<1>13. CASE TimesOut
  BY <1>1, <1>4, <1>5, <1>13, TimesAssumption
  DEF TimesOut, WorkerTypes, ConnectionsClosed, Places, Waiting
<1>14. ASSUME NEW c \in 0 .. SlowCall, Call(c)
       PROVE  Goal
  BY <1>1, <1>4, <1>5, <1>14, TimesAssumption
  DEF Call, WorkerTypes, ConnectionsClosed, Places, Waiting
<1>15. ASSUME NEW t \in 0 .. DialTimeout, DialFails(t)
       PROVE  Goal
  <2>1. /\ at = "dial" /\ at' = "dial" /\ open' = open
        /\ tries < config.Retries /\ tries' = tries + 1
        /\ clock' = clock + t + config.DelaySeconds
    BY <1>15 DEF DialFails
  <2>2. t \in Nat /\ t <= Timeout
    BY <1>1 DEF Timeout
  <2>3. clock + t + config.DelaySeconds <= tries * Round + Round
    <3>1. Round = Timeout + config.DelaySeconds
      BY DEF Round
    <3> QED
      BY <1>1, <1>2, <1>3, <1>5, <2>1, <2>2, <3>1
  <2>4. clock' <= tries' * Round
    BY <1>3, <2>1, <2>3
  <2>5. tries' <= config.Retries
    BY <1>1, <1>2, <2>1
  <2> QED
    BY <1>1, <1>2, <1>4, <2>1, <2>2, <2>4, <2>5
    DEF WorkerTypes, ConnectionsClosed, Places, Waiting
<1>16. ASSUME NEW t \in 0 .. DialTimeout, DialSucceeds(t)
       PROVE  Goal
  <2>1. t \in Nat /\ t <= Timeout
    BY <1>1 DEF Timeout
  <2>2. /\ at = "dial" /\ at' = "handshake" /\ open' = open + 1 /\ open = 0
        /\ tries < config.Retries /\ tries' = tries
        /\ clock' = clock + t
    BY <1>16 DEF DialSucceeds, ConnectionsClosed
  <2>3. clock' <= tries' * Round + Timeout
    BY <1>1, <1>2, <1>3, <1>5, <2>1, <2>2
  <2> QED
    BY <1>1, <1>2, <1>4, <2>1, <2>2, <2>3
    DEF WorkerTypes, ConnectionsClosed, Places, Waiting
<1>17. CASE Handshake
  BY <1>1, <1>4, <1>17 DEF Handshake, WorkerTypes, ConnectionsClosed, Places, Waiting
<1>18. CASE HandshakeHangs
  BY <1>1, <1>4, <1>5, <1>18
  DEF HandshakeHangs, Goto, WorkerTypes, ConnectionsClosed, Places, Waiting
<1> QED
  BY <1>8, <1>9, <1>10, <1>11, <1>12, <1>13, <1>14, <1>15, <1>16, <1>17, <1>18
  DEF WaitsNext, Works

\* A worker leaves a queue that shuts down, and no other.
LEMMA LeavesWhenShut ==
    ASSUME WaitsNext, at' = "gone"
    PROVE  shuttingDown
BY DEF WaitsNext, Works, Arrive, ComesBack, Begin, Quit, Reconcile, CheckFails, CheckDone,
       CheckRunning, Sleep, TimesOut, Call, Report, DialFails, DialSucceeds, PollFails,
       Handshake, HandshakeHangs, CreateSecret, Returns, Retry, Drop, Goto

-----------------------------------------------------------------------------
(* The process.                                                            *)

\* The parts of TypeOK.
ProcessTypes ==
    /\ main \in {"flags", "config", "cluster", "kubernetes", "vmclient", "gce",
                 "new", "notify", "go", "forever"}
    /\ exit \in {None, "fatal", "killed", "second"}
    /\ factory \in {"none", "starting", "returned"}
    /\ informer \in {"none", "pop", "tested", "waiting", "returned"}
    /\ run \in {"none", "sync", "workers", "returned"}
    /\ handler \in {"none", "first", "second"}

Flags ==
    /\ registered \in BOOLEAN /\ handled \in BOOLEAN
    /\ closing \in BOOLEAN /\ synced \in BOOLEAN
    /\ notified \in BOOLEAN /\ shuttingDown \in BOOLEAN

Counts ==
    /\ sent \in 0 .. MaxSignals
    /\ pending \subseteq Signals
    /\ channel \in 0 .. 2
    /\ closed \in 0 .. 1

LEMMA TypeParts == TypeOK <=> ProcessTypes /\ Flags /\ Counts /\ WorkerTypes
<1>1. ProcessTypes /\ Flags /\ Counts /\ WorkerTypes => TypeOK
  BY Zenon DEF TypeOK, ProcessTypes, Flags, Counts, WorkerTypes
<1>2. TypeOK => ProcessTypes /\ Flags /\ Counts /\ WorkerTypes
  BY Zenon DEF TypeOK, ProcessTypes, Flags, Counts, WorkerTypes
<1> QED
  BY <1>1, <1>2

LEMMA TypePartsPrimed == TypeOK' <=> (ProcessTypes /\ Flags /\ Counts /\ WorkerTypes)'
BY TypeParts, PTL

LEMMA InitInvariant ==
    ASSUME Init
    PROVE  IInv
<1>1. Cardinality({}) = 0
  BY FS_EmptySet
<1>2. config \in SSHConnectionConfig
  BY DEF Init
<1>3. at \in Places /\ clock \in Nat /\ tries \in Nat /\ open \in 0 .. 1
  BY DEF Init, WaitsInit, Places
<1>4. TypeOK
  <2>1. ProcessTypes
    BY DEF Init, ProcessTypes
  <2>2. Flags
    BY DEF Init, WaitsInit, Flags
  <2>3. Counts
    BY SignalsAssumption DEF Init, Counts
  <2> QED
    BY <1>2, <1>3, <2>1, <2>2, <2>3, TypeParts DEF WorkerTypes
<1>5. StopClosedOnce /\ FirstSignalSpares
  BY NoneAssumption DEF Init, StopClosedOnce, FirstSignalSpares
<1>6. StartOrder
  BY NoneAssumption DEF Init, WaitsInit, StartOrder
<1>7. SignalsSpent
  BY <1>1, NoneAssumption DEF Init, SignalsSpent
<1>8. TimeLeft /\ ConnectionsClosed
  BY DEF Init, WaitsInit, TimeLeft, ConnectionsClosed
<1>9. FirstSignalKept /\ HandlersFirst /\ OnlyStopEnds
  BY DEF Init, WaitsInit, FirstSignalKept, HandlersFirst, OnlyStopEnds
<1> QED
  BY <1>4, <1>5, <1>6, <1>7, <1>8, <1>9 DEF IInv

LEMMA PendingCardinality ==
    ASSUME TypeOK
    PROVE  Cardinality(pending) \in Nat /\ IsFiniteSet(pending)
BY SignalsAssumption, FS_Subset, FS_CardinalityType DEF TypeOK

\* A step that leaves the worker alone, and the configuration unless no worker
\* has begun.
LEMMA WorkerAlone ==
    ASSUME TimeLeft, ConnectionsClosed, UNCHANGED worker, UNCHANGED config \/ at = "unborn"
    PROVE  TimeLeft' /\ ConnectionsClosed'
BY DEF TimeLeft, ConnectionsClosed, worker, DialTimeout

LEMMA MainKept ==
    ASSUME IInv, Main
    PROVE  IInv'
<1> USE DEF IInv
<1>1. \/ Go
      \/ Running /\ UNCHANGED <<goroutines, worker, shuttingDown, sent, pending, channel, closed>>
  BY DEF Main, ParseFlags, DecodeConfig, loadClusterConfig, KubernetesClient, NewForConfig,
         NewGCEClient, New, Notify, Fatal, MainOnly, signalling, waits
<1>2. main # "forever" => run = "none" /\ handler = "none" /\ at = "unborn"
  BY DEF StartOrder
<1>3. main # "forever"
  BY DEF Main, ParseFlags, DecodeConfig, loadClusterConfig, KubernetesClient, NewForConfig,
         NewGCEClient, New, Notify, Go, Fatal
<1>4. UNCHANGED <<worker, shuttingDown, sent, pending, channel, closed>>
  BY <1>1 DEF Go, waits
<1>5. TimeLeft' /\ ConnectionsClosed'
  BY <1>2, <1>3, <1>4, WorkerAlone
<1>6. config' \in SSHConnectionConfig
  BY ConfigsAssumption
  DEF Main, ParseFlags, DecodeConfig, loadClusterConfig, KubernetesClient, NewForConfig,
      NewGCEClient, New, Notify, Go, Fatal, TypeOK, waits
<1>7. TypeOK'
  <2>1. UNCHANGED <<informer, closing, synced>>
    BY <1>1 DEF Go, goroutines
  <2>2. /\ main' \in {main, "config", "cluster", "kubernetes", "vmclient", "gce", "new", "notify",
                      "go", "forever"}
        /\ exit' \in {exit, "fatal"}
    BY DEF Main, ParseFlags, DecodeConfig, loadClusterConfig, KubernetesClient, NewForConfig,
           NewGCEClient, New, Notify, Go, Fatal, MainOnly, startup
  <2>3. registered' \in {registered, TRUE} /\ handled' \in {handled, TRUE}
    BY DEF Main, ParseFlags, DecodeConfig, loadClusterConfig, KubernetesClient, NewForConfig,
           NewGCEClient, New, Notify, Go, Fatal, MainOnly, startup
  <2>4. factory' \in {factory, "starting"} /\ run' \in {run, "sync"}
    BY <1>1 DEF Go, goroutines
  <2>5. notified' \in {notified, TRUE} /\ handler' \in {handler, "first"}
    BY DEF Main, ParseFlags, DecodeConfig, loadClusterConfig, KubernetesClient, NewForConfig,
           NewGCEClient, New, Notify, Go, Fatal, MainOnly, signalling
  <2>6. ProcessTypes /\ Flags /\ Counts /\ WorkerTypes
    BY TypeParts
  <2>7. ProcessTypes'
    BY <2>1, <2>2, <2>4, <2>5, <2>6 DEF ProcessTypes
  <2>8. Flags'
    BY <1>4, <2>1, <2>3, <2>5, <2>6 DEF Flags
  <2>9. Counts' /\ WorkerTypes'
    BY <1>4, <1>6, <2>6 DEF Counts, WorkerTypes, worker
  <2> QED
    BY <2>7, <2>8, <2>9, TypePartsPrimed
<1>8. exit' = exit \/ exit' = "fatal"
  BY DEF Main, ParseFlags, DecodeConfig, loadClusterConfig, KubernetesClient, NewForConfig,
         NewGCEClient, New, Notify, Go, Fatal, MainOnly
<1>9. exit # "second" /\ exit' # "second" /\ exit' # "killed"
  BY <1>1, <1>8, NoneAssumption DEF Running, Go
<1>10. handler' = handler \/ Go
  BY DEF Main, ParseFlags, DecodeConfig, loadClusterConfig, KubernetesClient, NewForConfig,
         NewGCEClient, New, Notify, Fatal, MainOnly, signalling
<1>11. StopClosedOnce' /\ FirstSignalSpares'
  BY <1>4, <1>9, <1>10 DEF StopClosedOnce, FirstSignalSpares, Go, StartOrder
<1>12. StartOrder'
  BY <1>2, <1>3, <1>4, <1>9
  DEF Main, ParseFlags, DecodeConfig, loadClusterConfig, KubernetesClient, NewForConfig,
      NewGCEClient, New, Notify, Go, Fatal, StartOrder, MainOnly, startup, goroutines,
      signalling, waits, worker
<1>13. SignalsSpent'
  BY <1>4, <1>9 DEF SignalsSpent
<1>14. FirstSignalKept'
  BY <1>1, <1>4 DEF FirstSignalKept, Stopped, Go
<1>15. HandlersFirst'
  BY DEF Main, ParseFlags, DecodeConfig, loadClusterConfig, KubernetesClient, NewForConfig,
         NewGCEClient, New, Notify, Go, Fatal, HandlersFirst, MainOnly, startup, goroutines
<1>16. OnlyStopEnds'
  BY <1>1, <1>2, <1>3, <1>4 DEF OnlyStopEnds, Stopped, Go, goroutines, worker
<1> QED
  BY <1>5, <1>7, <1>11, <1>12, <1>13, <1>14, <1>15, <1>16

LEMMA KillKept ==
    ASSUME IInv, NEW s \in Signals, Kill(s)
    PROVE  IInv'
<1> USE DEF IInv
<1>1. /\ Running /\ sent < MaxSignals /\ sent' = sent + 1
      /\ \/ notified /\ pending' = pending \cup {s} /\ exit' = exit
         \/ ~notified /\ exit' = "killed" /\ pending' = pending
      /\ UNCHANGED <<startup, goroutines, notified, channel, handler, closed, waits>>
  BY DEF Kill
<1>2. exit = None /\ exit' # "second"
  BY <1>1, NoneAssumption DEF Running
<1>3. /\ Cardinality(pending) \in Nat /\ Cardinality(pending') \in Nat
      /\ Cardinality(pending') <= Cardinality(pending) + 1
  <2>1. Cardinality(pending) \in Nat /\ IsFiniteSet(pending)
    BY PendingCardinality
  <2>2. Cardinality(pending \cup {s}) \in {Cardinality(pending), Cardinality(pending) + 1}
    BY <2>1, FS_AddElement
  <2>3. pending' \in {pending, pending \cup {s}}
    BY <1>1
  <2>4. Cardinality(pending') \in {Cardinality(pending), Cardinality(pending) + 1}
    BY <2>2, <2>3, Zenon
  <2> HIDE DEF IInv
  <2> QED
    BY <2>1, <2>4
<1>4. TypeOK'
  BY <1>1, SignalsAssumption DEF TypeOK, startup, goroutines, waits, worker
<1>5. StopClosedOnce' /\ FirstSignalSpares'
  BY <1>1, <1>2, NoneAssumption DEF StopClosedOnce, FirstSignalSpares
<1>6. StartOrder'
  BY <1>1, <1>2 DEF StartOrder, startup, goroutines, waits, worker
<1>7. SignalsSpent'
  BY <1>1, <1>2, <1>3, NoneAssumption DEF SignalsSpent, TypeOK
<1>8. TimeLeft' /\ ConnectionsClosed'
  BY <1>1, WorkerAlone DEF waits
<1>9. FirstSignalKept'
  BY <1>1, NoneAssumption DEF FirstSignalKept, Running
<1>10. HandlersFirst' /\ OnlyStopEnds'
  BY <1>1 DEF HandlersFirst, OnlyStopEnds, Stopped, startup, goroutines, waits, worker
<1> QED
  BY <1>4, <1>5, <1>6, <1>7, <1>8, <1>9, <1>10

LEMMA PassOnKept ==
    ASSUME IInv, NEW s \in Signals, PassOn(s)
    PROVE  IInv'
<1> USE DEF IInv
<1>1. /\ s \in pending /\ pending' = pending \ {s}
      /\ channel' \in {channel, channel + 1} /\ channel' <= 2 /\ channel' > 0
      /\ UNCHANGED <<startup, exit, goroutines, notified, sent, handler, closed, waits>>
  BY DEF PassOn, Room, TypeOK
<1>2. /\ Cardinality(pending) \in Nat /\ Cardinality(pending') = Cardinality(pending) - 1
  BY <1>1, PendingCardinality, FS_RemoveElement
<1>3. TypeOK'
  BY <1>1 DEF TypeOK, startup, goroutines, waits, worker
<1>4. StopClosedOnce' /\ FirstSignalSpares'
  BY <1>1 DEF StopClosedOnce, FirstSignalSpares, Stopped
<1>5. StartOrder'
  BY <1>1 DEF StartOrder, startup, goroutines, waits, worker
<1>6. SignalsSpent'
  BY <1>1, <1>2 DEF SignalsSpent, TypeOK
<1>7. TimeLeft' /\ ConnectionsClosed'
  BY <1>1, WorkerAlone DEF waits
<1>8. FirstSignalKept'
  BY <1>1 DEF FirstSignalKept
<1>9. HandlersFirst' /\ OnlyStopEnds'
  BY <1>1 DEF HandlersFirst, OnlyStopEnds, Stopped, startup, goroutines, waits, worker
<1> QED
  BY <1>3, <1>4, <1>5, <1>6, <1>7, <1>8, <1>9

LEMMA HandlerKept ==
    ASSUME IInv, FirstSignal \/ SecondSignal
    PROVE  IInv'
<1> USE DEF IInv
<1>1. /\ Running /\ channel > 0 /\ channel' = channel - 1
      /\ handler # "none" /\ handler' = "second"
      /\ \/ handler = "first" /\ closed' = closed + 1 /\ exit' = exit
         \/ handler = "second" /\ closed' = closed /\ exit' = "second"
      /\ UNCHANGED <<startup, goroutines, notified, sent, pending, waits>>
  BY DEF FirstSignal, SecondSignal
<1>2. exit = None /\ None # "second" /\ notified
  BY <1>1, NoneAssumption DEF Running, StartOrder
<1>3. closed \in 0 .. 1 /\ (closed = 1 <=> handler = "second") /\ closed' = 1
  BY <1>1 DEF StopClosedOnce, TypeOK
<1>4. TypeOK'
  BY <1>1, <1>3 DEF TypeOK, startup, goroutines, waits, worker
<1>5. Cardinality(pending) \in Nat /\ sent \in Nat /\ channel \in Nat
  BY PendingCardinality DEF TypeOK
<1>6. SignalsSpent'
  BY <1>1, <1>2, <1>3, <1>5 DEF SignalsSpent
<1>7. exit' = "second" => sent' >= 2
  BY <1>1, <1>2, <1>3, <1>5 DEF SignalsSpent
<1>8. StopClosedOnce' /\ FirstSignalSpares'
  BY <1>1, <1>2, <1>3, <1>7, NoneAssumption DEF StopClosedOnce, FirstSignalSpares, Stopped
<1>9. StartOrder'
  BY <1>1, <1>2 DEF StartOrder, startup, goroutines, waits, worker
<1>10. TimeLeft' /\ ConnectionsClosed'
  BY <1>1, WorkerAlone DEF waits
<1>11. FirstSignalKept'
  BY <1>3 DEF FirstSignalKept, Stopped
<1>12. HandlersFirst' /\ OnlyStopEnds'
  BY <1>1, <1>3 DEF HandlersFirst, OnlyStopEnds, Stopped, startup, goroutines, waits, worker
<1> QED
  BY <1>4, <1>6, <1>8, <1>9, <1>10, <1>11, <1>12

LEMMA GoroutinesKept ==
    ASSUME IInv,
           \/ Start \/ Sync \/ PopTests \/ PopWaits \/ PopWakes \/ Close
           \/ StartWorkers \/ ShutDown
    PROVE  IInv'
<1> USE DEF IInv
<1>1. UNCHANGED <<startup, exit, signalling, worker, config>>
  BY DEF Start, Sync, PopTests, PopWaits, PopWakes, Close, StartWorkers, ShutDown,
         GoroutineOnly, waits
<1>2. TypeOK'
  <2>1. /\ factory' \in {factory, "returned"}
        /\ informer' \in {informer, "none", "pop", "tested", "waiting", "returned"}
    BY DEF Start, Sync, PopTests, PopWaits, PopWakes, Close, StartWorkers, ShutDown
  <2>2. closing' \in {closing, TRUE} /\ synced' \in {synced, TRUE}
    BY DEF Start, Sync, PopTests, PopWaits, PopWakes, Close, StartWorkers, ShutDown
  <2>3. run' \in {run, "workers", "returned"} /\ shuttingDown' \in {shuttingDown, TRUE}
    BY DEF Start, Sync, PopTests, PopWaits, PopWakes, Close, StartWorkers, ShutDown,
           GoroutineOnly, waits
  <2>4. ProcessTypes /\ Flags /\ Counts /\ WorkerTypes
    BY TypeParts
  <2>5. ProcessTypes'
    BY <1>1, <2>1, <2>3, <2>4 DEF ProcessTypes, startup, signalling
  <2>6. Flags'
    BY <1>1, <2>2, <2>3, <2>4 DEF Flags, startup, signalling
  <2>7. Counts' /\ WorkerTypes'
    BY <1>1, <2>4 DEF Counts, WorkerTypes, signalling, worker
  <2> QED
    BY <2>5, <2>6, <2>7, TypePartsPrimed
<1>3. StopClosedOnce' /\ FirstSignalSpares' /\ SignalsSpent'
  BY <1>1 DEF StopClosedOnce, FirstSignalSpares, SignalsSpent, Stopped, signalling
<1>4. run' = run \/ (run # "none" /\ run' \in {"workers", "returned"})
  BY DEF Start, Sync, PopTests, PopWaits, PopWakes, Close, StartWorkers, ShutDown
<1>5. StartOrder'
  BY <1>1, <1>4 DEF StartOrder, startup, signalling, worker
<1>6. TimeLeft' /\ ConnectionsClosed'
  BY <1>1, WorkerAlone
<1>7. FirstSignalKept'
  BY <1>1 DEF FirstSignalKept, Running, Stopped, signalling
<1>8. HandlersFirst'
  <2>1. CASE Start
    BY <1>1, <1>4, <2>1 DEF Start, HandlersFirst, startup
  <2>2. CASE ~Start
    <3>1. /\ factory' = factory
          /\ informer' # "none" <=> informer # "none"
      BY <2>2 DEF Sync, PopTests, PopWaits, PopWakes, Close, StartWorkers, ShutDown
    <3> QED
      BY <1>1, <1>4, <3>1 DEF HandlersFirst, startup
  <2> QED
    BY <2>1, <2>2
<1>9. OnlyStopEnds'
  BY <1>1
  DEF OnlyStopEnds, Stopped, signalling, worker, waits, GoroutineOnly,
      Start, Sync, PopTests, PopWaits, PopWakes, Close, StartWorkers, ShutDown
<1> QED
  BY <1>2, <1>3, <1>5, <1>6, <1>7, <1>8, <1>9

LEMMA WorkerKept ==
    ASSUME IInv, WorkerStarts \/ WorkerStep
    PROVE  IInv'
<1> USE DEF IInv
<1>1. UNCHANGED <<startup, exit, goroutines, signalling, config, shuttingDown>>
  BY DEF WorkerStarts, WorkerStep, WaitsNext
<1>2. WorkerTypes
  BY DEF TypeOK, WorkerTypes
<1>3. WorkerTypes' /\ TimeLeft' /\ ConnectionsClosed' /\ run \in {"workers", "returned"}
  <2>1. CASE WorkerStarts
    BY <1>1, <1>2, <2>1
    DEF WorkerStarts, Goto, WorkerTypes, TimeLeft, ConnectionsClosed, Places, Waiting
  <2>2. CASE WorkerStep
    BY <1>2, <2>2, WaitsKept DEF WorkerStep, StartOrder
  <2> QED
    BY <2>1, <2>2
<1>4. TypeOK'
  BY <1>1, <1>3 DEF TypeOK, WorkerTypes, startup, goroutines, signalling
<1>5. StopClosedOnce' /\ FirstSignalSpares' /\ SignalsSpent'
  BY <1>1 DEF StopClosedOnce, FirstSignalSpares, SignalsSpent, Stopped, signalling
<1>6. StartOrder'
  BY <1>1, <1>3 DEF StartOrder, startup, goroutines, signalling
<1>7. FirstSignalKept' /\ HandlersFirst'
  BY <1>1 DEF FirstSignalKept, HandlersFirst, Running, Stopped, startup, goroutines, signalling
<1>8. at' = "gone" => Stopped
  <2>1. CASE WorkerStarts
    BY <2>1 DEF WorkerStarts, Goto
  <2>2. CASE WorkerStep
    BY <2>2, LeavesWhenShut DEF WorkerStep, OnlyStopEnds
  <2> QED
    BY <2>1, <2>2
<1>9. OnlyStopEnds'
  BY <1>1, <1>8 DEF OnlyStopEnds, Stopped, goroutines, signalling
<1> QED
  BY <1>3, <1>4, <1>5, <1>6, <1>7, <1>9

LEMMA InvariantKept ==
    ASSUME IInv, [Next]_vars
    PROVE  IInv'
<1>1. CASE UNCHANGED vars
  <2>1. UNCHANGED <<startup, exit, goroutines, signalling, waits, worker, config>>
    BY <1>1 DEF vars, waits
  <2>2. TimeLeft' /\ ConnectionsClosed'
    BY <2>1, WorkerAlone DEF IInv
  <2>3. TypeOK'
    BY <2>1 DEF IInv, TypeOK, startup, goroutines, signalling, waits, worker
  <2>4. StopClosedOnce' /\ FirstSignalSpares' /\ SignalsSpent' /\ StartOrder'
    BY <2>1 DEF IInv, StopClosedOnce, FirstSignalSpares, SignalsSpent, StartOrder, Stopped,
                startup, goroutines, signalling, worker
  <2>5. FirstSignalKept' /\ HandlersFirst' /\ OnlyStopEnds'
    BY <2>1 DEF IInv, FirstSignalKept, HandlersFirst, OnlyStopEnds, Running, Stopped,
                startup, goroutines, signalling, waits, worker
  <2> QED
    BY <2>2, <2>3, <2>4, <2>5 DEF IInv
<1>2. CASE Next
  BY <1>2, MainKept, KillKept, PassOnKept, HandlerKept, GoroutinesKept, WorkerKept DEF Next
<1> QED
  BY <1>1, <1>2

\* Main, signals, goroutines and worker stay in step.
THEOREM InductiveInvariant == Spec => []IInv
<1>1. Init => IInv
  BY InitInvariant
<1>2. IInv /\ [Next]_vars => IInv'
  BY InvariantKept
<1> QED
  BY <1>1, <1>2, PTL DEF Spec

\* Types: in particular the channel of signals never holds more than two.
THEOREM TypeCorrectness == Spec => []TypeOK
<1>1. IInv => TypeOK
  BY DEF IInv
<1> QED
  BY <1>1, InductiveInvariant, PTL

\* stop is closed once, at the first signal, however many follow.
THEOREM StopIsClosedOnce == Spec => []StopClosedOnce
<1>1. IInv => StopClosedOnce
  BY DEF IInv
<1> QED
  BY <1>1, InductiveInvariant, PTL

\* Only a second signal ends a process that asked for signals.
THEOREM FirstSignalOnlyStops == Spec => []FirstSignalSpares
<1>1. IInv => FirstSignalSpares
  BY DEF IInv
<1> QED
  BY <1>1, InductiveInvariant, PTL

\* A signal sent once main asked for signals is on its way to close(stop), or
\* stop is closed: the runtime and the channel of two lose none but a later one.
THEOREM FirstSignalIsNotLost == Spec => []FirstSignalKept
<1>1. IInv => FirstSignalKept
  BY DEF IInv
<1> QED
  BY <1>1, InductiveInvariant, PTL

\* WaitForCacheSync waits for an informer that factory.Start has started or is
\* going to, since controller.New asked for it before main started anything;
\* and it never runs without the handlers of the controller.
THEOREM RunWaitsForAnInformer ==
    Spec => []( /\ informer # "none" => handled
                /\ run # "none" => handled /\ (factory = "starting" \/ informer # "none"))
<1>1. IInv => /\ informer # "none" => handled
              /\ run # "none" => handled /\ (factory = "starting" \/ informer # "none")
  BY DEF IInv, HandlersFirst, StartOrder
<1> QED
  BY <1>1, InductiveInvariant, PTL

\* Informer, work queue and worker go on until the first signal.
THEOREM NothingEndsEarly ==
    Spec => [](informer = "returned" \/ shuttingDown \/ at = "gone" => Stopped)
<1>1. IInv => (informer = "returned" \/ shuttingDown \/ at = "gone" => Stopped)
  BY DEF IInv, OnlyStopEnds
<1> QED
  BY <1>1, InductiveInvariant, PTL

\* waitForOperation and the dials of pollForSSHConnection take no longer than
\* their timeouts, retries and delays allow, whatever those are.
THEOREM WaitsAreBounded == Spec => []WaitsEnd
<1>1. IInv => WaitsEnd
  <2> SUFFICES ASSUME IInv
               PROVE  WaitsEnd
    OBVIOUS
  <2> USE DEF IInv
  <2> DEFINE Round == DialTimeout + config.DelaySeconds
  <2>1. WorkerTypes
    BY DEF TypeOK, WorkerTypes
  <2>2. /\ DialTimeout \in Nat /\ Round \in Nat /\ clock \in Nat
        /\ tries \in Nat /\ config.Retries \in Nat /\ config.DelaySeconds \in Nat
    BY <2>1, DialTimeoutType DEF WorkerTypes
  <2>3. at \in {"check", "select", "call", "report"} => clock <= gceTimeout + SlowCall
    BY <2>2, TimesAssumption DEF TimeLeft
  <2>4. ASSUME at = "dial"
        PROVE  clock <= config.Retries * Round
    <3>1. tries <= config.Retries /\ clock <= tries * Round
      BY <2>4 DEF TimeLeft
    <3> HIDE DEF Round
    <3>2. tries * Round <= config.Retries * Round
      BY <2>2, <3>1, TriesBounded
    <3> QED
      BY <2>2, <3>1, <3>2
  <2>5. ASSUME at \in {"handshake", "hung"}
        PROVE  clock <= config.Retries * Round
    <3>1. tries < config.Retries /\ clock <= tries * Round + Round
      BY <2>2, <2>5, OneMoreTry DEF TimeLeft
    <3> HIDE DEF Round
    <3>2. (tries + 1) * Round <= config.Retries * Round
      BY <2>2, <3>1, TriesBounded
    <3>3. (tries + 1) * Round = tries * Round + Round
      BY <2>2, OneMoreTry
    <3> QED
      BY <2>2, <3>1, <3>2, <3>3
  <2> QED
    BY <2>3, <2>4, <2>5 DEF WaitsEnd
<1> QED
  BY <1>1, InductiveInvariant, PTL

=============================================================================
