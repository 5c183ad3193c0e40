------------------------------ MODULE Process -------------------------------
(***************************************************************************)
(* The life of the controller's process, cmd/ci-vm-operator: the steps of  *)
(* main, each of which may end it, the goroutines it starts, the signals   *)
(* that stop them, and one worker that Waits may keep from returning.      *)
(***************************************************************************)
EXTENDS Waits, FiniteSets

CONSTANTS
    Signals,     \* os.Interrupt and SIGTERM
    Configs,     \* SSH configurations that a file may hold
    None,        \* "not yet", "still running"
    MaxSignals   \* bound: signals sent

ASSUME SignalsAssumption == IsFiniteSet(Signals) /\ MaxSignals \in Nat
ASSUME NoneAssumption == None \notin {"fatal", "killed", "second"}
ASSUME ConfigsAssumption == Configs \subseteq SSHConnectionConfig

VARIABLES
    main,        \* where main is
    exit,        \* why the process ended
    registered,  \* the factory knows the informer
    handled,     \* the informer has the controller's handlers
    factory,     \* where the goroutine of factory.Start is
    informer,    \* where the informer's goroutine is
    closing,     \* the DeltaFIFO is closed
    synced,      \* the cache is filled
    run,         \* where Controller.Run is
    notified,    \* signal.Notify was called
    sent,        \* bound: signals sent so far
    pending,     \* signals the runtime has not passed on
    channel,     \* signals in the channel c
    handler,     \* where the goroutine is that receives from c
    closed       \* how often stop was closed

startup == <<main, registered, handled>>
goroutines == <<factory, informer, closing, synced, run>>
signalling == <<notified, sent, pending, channel, handler, closed>>
waits == <<worker, config, shuttingDown>>
vars == <<startup, exit, goroutines, signalling, waits>>

Running == exit = None
Stopped == closed > 0

Init ==
    /\ WaitsInit
    /\ config = [Retries |-> 0, DelaySeconds |-> 0, TimeoutSeconds |-> 0]
    /\ main = "flags"
    /\ exit = None
    /\ registered = FALSE
    /\ handled = FALSE
    /\ factory = "none"
    /\ informer = "none"
    /\ closing = FALSE
    /\ synced = FALSE
    /\ run = "none"
    /\ notified = FALSE
    /\ sent = 0
    /\ pending = {}
    /\ channel = 0
    /\ handler = "none"
    /\ closed = 0

-----------------------------------------------------------------------------
(* main.                                                                   *)

\* A step of main that leaves the goroutines, signals and worker alone.
MainOnly == UNCHANGED <<exit, goroutines, signalling, worker, shuttingDown>>

\* logrus.Fatal.
Fatal(step) ==
    /\ Running
    /\ main = step
    /\ exit' = "fatal"
    /\ UNCHANGED <<startup, goroutines, signalling, waits>>

ParseFlags ==
    /\ Running
    /\ main = "flags"
    /\ main' = "config"
    /\ UNCHANGED <<registered, handled, config>> /\ MainOnly

DecodeConfig ==
    /\ Running
    /\ main = "config"
    /\ config' \in Configs
    /\ main' = "cluster"
    /\ UNCHANGED <<registered, handled>> /\ MainOnly

\* The configuration of the cluster it runs in, or that of the default rules.
loadClusterConfig ==
    /\ Running
    /\ main = "cluster"
    /\ main' = "kubernetes"
    /\ UNCHANGED <<registered, handled, config>> /\ MainOnly

\* kubernetes.NewForConfig, then vmclient.NewForConfig and the factory.
KubernetesClient ==
    /\ Running
    /\ main = "kubernetes"
    /\ main' = "vmclient"
    /\ UNCHANGED <<registered, handled, config>> /\ MainOnly

NewForConfig ==
    /\ Running
    /\ main = "vmclient"
    /\ main' = "gce"
    /\ UNCHANGED <<registered, handled, config>> /\ MainOnly

NewGCEClient ==
    /\ Running
    /\ main = "gce"
    /\ main' = "new"
    /\ UNCHANGED <<registered, handled, config>> /\ MainOnly

\* Mutant: the informer is made when it is first needed.
NewLazily ==
    /\ Running
    /\ main = "new"
    /\ main' = "notify"
    /\ UNCHANGED <<registered, handled, config>> /\ MainOnly

\* The factory makes the informer at the first call, and remembers it.
InformerFor == registered' = TRUE

\* controller.New: informer.Lister() and informer.Informer() get the informer
\* of the factory, and the handlers are added to it.
New ==
    /\ Running
    /\ main = "new"
    /\ InformerFor
    /\ handled' = TRUE
    /\ main' = "notify"
    /\ UNCHANGED <<config>> /\ MainOnly

Notify ==
    /\ Running
    /\ main = "notify"
    /\ notified' = TRUE
    /\ main' = "go"
    /\ UNCHANGED <<registered, handled, exit, goroutines, sent, pending,
                   channel, handler, closed, waits>>

\* The three goroutines; main waits for ever, and never gets to close(stop).
Go ==
    /\ Running
    /\ main = "go"
    /\ handler' = "first"
    /\ factory' = "starting"
    /\ run' = "sync"
    /\ main' = "forever"
    /\ UNCHANGED <<registered, handled, exit, informer, closing, synced, notified,
                   sent, pending, channel, closed, waits>>

-----------------------------------------------------------------------------
(* Signals.                                                                *)

\* A signal kills a process that has not asked for it.  After that the
\* runtime keeps one of each kind until it is passed on.
Kill(s) ==
    /\ Running
    /\ sent < MaxSignals
    /\ sent' = sent + 1
    /\ IF notified THEN pending' = pending \cup {s} /\ UNCHANGED exit
                   ELSE exit' = "killed" /\ UNCHANGED pending
    /\ UNCHANGED <<startup, goroutines, notified, channel, handler, closed, waits>>

\* Mutant: c is not buffered, and its only room is a receiver that waits.
RoomUnbuffered == handler # "none" /\ channel = 0

\* Room in the channel c.
Room == channel < 2

\* The runtime passes a signal on, or drops it when there is no room.
PassOn(s) ==
    /\ Running
    /\ s \in pending
    /\ pending' = pending \ {s}
    /\ channel' = IF Room THEN channel + 1 ELSE channel
    /\ UNCHANGED <<startup, exit, goroutines, notified, sent, handler, closed, waits>>

\* Mutant: the goroutine ends with the first signal.
FirstSignalLast ==
    /\ Running
    /\ handler = "first"
    /\ channel > 0
    /\ channel' = channel - 1
    /\ handler' = "none"
    /\ closed' = closed + 1
    /\ UNCHANGED <<startup, exit, goroutines, notified, sent, pending, waits>>

\* <-c; close(stop).
FirstSignal ==
    /\ Running
    /\ handler = "first"
    /\ channel > 0
    /\ channel' = channel - 1
    /\ handler' = "second"
    /\ closed' = closed + 1
    /\ UNCHANGED <<startup, exit, goroutines, notified, sent, pending, waits>>

\* <-c; os.Exit(1).
SecondSignal ==
    /\ Running
    /\ handler = "second"
    /\ channel > 0
    /\ channel' = channel - 1
    /\ exit' = "second"
    /\ UNCHANGED <<startup, goroutines, notified, sent, pending, handler, closed, waits>>

-----------------------------------------------------------------------------
(* The goroutines of the informer and the controller.                      *)

GoroutineOnly == UNCHANGED <<startup, exit, signalling, waits>>

\* factory.Start runs the informers it knows by then, once.
Start ==
    /\ Running
    /\ factory = "starting"
    /\ factory' = "returned"
    /\ informer' = IF registered THEN "pop" ELSE "none"
    /\ UNCHANGED <<closing, synced, run>> /\ GoroutineOnly

\* The first list is handled.
Sync ==
    /\ Running
    /\ informer # "none" /\ ~Stopped
    /\ ~synced
    /\ synced' = TRUE
    /\ UNCHANGED <<factory, informer, closing, run>> /\ GoroutineOnly

\* Pop finds an empty queue: when that is not closed it is going to wait.
PopTests ==
    /\ Running
    /\ informer = "pop"
    /\ informer' = IF closing THEN "returned" ELSE "tested"
    /\ UNCHANGED <<factory, closing, synced, run>> /\ GoroutineOnly

PopWaits ==
    /\ Running
    /\ informer = "tested"
    /\ informer' = "waiting"
    /\ UNCHANGED <<factory, closing, synced, run>> /\ GoroutineOnly

\* A delta comes.
PopWakes ==
    /\ Running
    /\ informer = "waiting" /\ ~Stopped
    /\ informer' = "pop"
    /\ UNCHANGED <<factory, closing, synced, run>> /\ GoroutineOnly

\* Close, which wakes who waits; it does not take the lock that Pop holds.
Close ==
    /\ Running
    /\ Stopped /\ ~closing /\ informer # "none"
    /\ closing' = TRUE
    /\ informer' = IF informer = "waiting" THEN "pop" ELSE informer
    /\ UNCHANGED <<factory, synced, run>> /\ GoroutineOnly

\* Controller.Run goes on when the cache is filled, or at the first signal.
StartWorkers ==
    /\ Running
    /\ run = "sync"
    /\ synced \/ Stopped
    /\ run' = "workers"
    /\ UNCHANGED <<factory, informer, closing, synced>> /\ GoroutineOnly

ShutDown ==
    /\ Running
    /\ run = "workers" /\ Stopped
    /\ run' = "returned"
    /\ shuttingDown' = TRUE
    /\ UNCHANGED <<factory, informer, closing, synced, startup, exit, signalling,
                   worker, config>>

\* wait.Until looks at stop before it calls worker.
WorkerStarts ==
    /\ Running
    /\ at = "unborn"
    /\ run \in {"workers", "returned"}
    /\ Goto(IF Stopped THEN "gone" ELSE "idle")
    /\ UNCHANGED <<startup, exit, goroutines, signalling, config, shuttingDown>>

WorkerStep ==
    /\ Running
    /\ WaitsNext
    /\ UNCHANGED <<startup, exit, goroutines, signalling>>

-----------------------------------------------------------------------------
Main ==
    \/ ParseFlags \/ DecodeConfig \/ loadClusterConfig \/ KubernetesClient
    \/ NewForConfig \/ NewGCEClient \/ New \/ Notify \/ Go
    \/ \E step \in {"flags", "config", "cluster", "kubernetes", "vmclient", "gce"} : Fatal(step)

Next ==
    \/ Main
    \/ \E s \in Signals : Kill(s) \/ PassOn(s)
    \/ FirstSignal \/ SecondSignal
    \/ Start \/ Sync \/ PopTests \/ PopWaits \/ PopWakes \/ Close
    \/ StartWorkers \/ ShutDown \/ WorkerStarts \/ WorkerStep

Spec == Init /\ [][Next]_vars

\* Goroutines go on, and calls of GCE and of the API server return; a silent
\* VM, a signal and a change of an object are nobody's duty.
Fairness ==
    /\ WF_vars(Main)
    /\ WF_vars(\E s \in Signals : PassOn(s))
    /\ WF_vars(FirstSignal) /\ WF_vars(SecondSignal)
    /\ WF_vars(Start) /\ WF_vars(Sync)
    /\ WF_vars(PopTests) /\ WF_vars(PopWaits) /\ WF_vars(Close)
    /\ WF_vars(StartWorkers) /\ WF_vars(ShutDown) /\ WF_vars(WorkerStarts)
    /\ WF_vars(Running /\ Works /\ UNCHANGED <<startup, exit, goroutines, signalling,
                                              config, shuttingDown>>)

FairSpec == Spec /\ Fairness

-----------------------------------------------------------------------------
(* Properties.                                                             *)

TypeOK ==
    /\ main \in {"flags", "config", "cluster", "kubernetes", "vmclient", "gce",
                 "new", "notify", "go", "forever"}
    /\ exit \in {None, "fatal", "killed", "second"}
    /\ registered \in BOOLEAN /\ handled \in BOOLEAN
    /\ factory \in {"none", "starting", "returned"}
    /\ informer \in {"none", "pop", "tested", "waiting", "returned"}
    /\ closing \in BOOLEAN /\ synced \in BOOLEAN
    /\ run \in {"none", "sync", "workers", "returned"}
    /\ notified \in BOOLEAN /\ shuttingDown \in BOOLEAN
    /\ sent \in 0 .. MaxSignals
    /\ pending \subseteq Signals
    /\ channel \in 0 .. 2
    /\ handler \in {"none", "first", "second"}
    /\ closed \in 0 .. 1
    /\ config \in SSHConnectionConfig
    /\ at \in Places
    /\ clock \in Nat /\ tries \in Nat /\ open \in 0 .. 1

\* Channel stop is closed once, whatever signals arrive: a second close would
\* panic, and so would the deferred close(stop) if main ever returned.
StopClosedOnce == closed <= 1 /\ (closed = 1 <=> handler = "second")

\* Once main asked for signals the first one ends nothing: the workers get
\* their chance to finish.
FirstSignalSpares ==
    /\ exit = "killed" => ~notified
    /\ exit = "second" => Stopped /\ sent >= 2

\* A signal sent to the running controller is not lost: it stops it.
FirstSignalStops == (notified /\ pending # {}) ~> (Stopped \/ ~Running)

\* After the stop the next signal ends the process, though main waits for
\* ever, a worker may wait for a silent VM, and Pop for a broadcast it missed.
SecondSignalEnds == (Stopped /\ pending # {}) ~> ~Running

\* WaitForCacheSync does not wait in vain: the informer it asks is one that
\* the factory starts, and its handlers are there before it runs.
CacheFills == run = "sync" ~> (synced /\ handled) \/ Stopped \/ ~Running

\* After the first signal the worker returns, in whatever wait it was, except
\* from the handshake with a VM that stays silent.
WorkerReturns == Stopped ~> at \in {"gone", "hung"} \/ ~Running

\* After the first signal the informer returns if Close finds it waiting.  It
\* may not: Close takes no lock of Pop's, and when it broadcasts after Pop's look
\* at closed and before its wait, Pop waits for ever.
InformerReturns ==
    (Stopped /\ informer = "waiting" /\ ~closing) ~> informer = "returned" \/ ~Running

\* The goroutines that the first signal is for come to their end.
GoroutinesReturn == WorkerReturns /\ InformerReturns

\* waitForOperation waits for at most gceTimeout and the one call it is in
\* then; the dials take what the configuration allows.
WaitsEnd ==
    /\ at \in {"check", "select", "call", "report"} => clock <= gceTimeout + SlowCall
    /\ at \in {"dial", "handshake", "hung"} =>
          clock <= config.Retries * (DialTimeout + config.DelaySeconds)

\* A connection to a VM is open in the handshake only.
ConnectionsClosed == open = (IF at \in {"handshake", "hung"} THEN 1 ELSE 0)

-----------------------------------------------------------------------------
(* What makes the safety properties inductive.                             *)

\* main gets to signal.Notify before its goroutines, Run before the workers.
StartOrder ==
    /\ notified <=> main \in {"go", "forever"}
    /\ handler # "none" => main = "forever"
    /\ run # "none" => main = "forever"
    /\ at # "unborn" => run \in {"workers", "returned"}
    /\ ~notified => pending = {} /\ channel = 0 /\ exit # "second"

\* Each signal is passed on once at most, and received once.
SignalsSpent ==
    sent >= Cardinality(pending) + channel + closed + (IF exit = "second" THEN 1 ELSE 0)

\* The first signal is not lost on its way, however many come at once and
\* however few the channel holds.
FirstSignalKept == Running /\ sent > 0 => pending # {} \/ channel > 0 \/ Stopped

\* Who waits for the cache waits for an informer that runs, or is going to, and
\* that tells the controller from its first object on.
HandlersFirst ==
    /\ main \in {"notify", "go", "forever"} => registered /\ handled
    /\ factory # "none" => main = "forever"
    /\ informer # "none" => handled
    /\ run # "none" => factory = "starting" \/ informer # "none"

\* Nothing of the controller ends before it is told to.
OnlyStopEnds ==
    /\ informer = "returned" => closing
    /\ shuttingDown => run = "returned"
    /\ closing \/ run = "returned" \/ at = "gone" => Stopped

\* The time that each wait has left.
TimeLeft ==
    /\ at \in {"check", "select", "report"} => clock <= gceTimeout + SlowCall
    /\ at = "call" => clock <= gceTimeout
    /\ at = "dial" =>
          /\ tries <= config.Retries
          /\ clock <= tries * (DialTimeout + config.DelaySeconds)
    /\ at \in {"handshake", "hung"} =>
          /\ tries < config.Retries
          /\ clock <= tries * (DialTimeout + config.DelaySeconds) + DialTimeout

\* All of it, from any state that has it to the next.
IInv ==
    /\ TypeOK
    /\ StopClosedOnce
    /\ FirstSignalSpares
    /\ StartOrder
    /\ SignalsSpent
    /\ FirstSignalKept
    /\ HandlersFirst
    /\ OnlyStopEnds
    /\ TimeLeft
    /\ ConnectionsClosed
=============================================================================
