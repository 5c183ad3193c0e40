------------------------------- MODULE Waits --------------------------------
(***************************************************************************)
(* How long a worker of pkg/controller is away with one key, in seconds:   *)
(* the clock of waitForOperation and the dials of pollForSSHConnection.    *)
(* How long a failed key is delayed is left open: the rate limiter takes   *)
(* the longer of an exponential delay and that of a token bucket.          *)
(***************************************************************************)
EXTENDS Naturals

CONSTANTS
    gceTimeout, gceWaitSleep,  \* of waitForOperation
    SlowCall,                  \* bound: the longest call of GCE that returns
    SlowDial                   \* bound: the system's own limit for a connect

ASSUME TimesAssumption ==
    /\ gceTimeout \in Nat /\ gceWaitSleep \in Nat \ {0}
    /\ SlowCall \in Nat /\ SlowDial \in Nat

\* What a configuration file says of the polls; a field it leaves out is 0.
SSHConnectionConfig == [Retries : Nat, DelaySeconds : Nat, TimeoutSeconds : Nat]

VARIABLES
    config,        \* the decoded SSHConnectionConfig
    at,            \* where the worker is
    clock,         \* since waitForOperation, or pollForSSHConnection, began
    tries,         \* failed dials of this poll
    open,          \* TCP connections to the VM that are open
    shuttingDown   \* of the work queue

worker == <<at, clock, tries, open>>

\* What a worker does, in reconcile and around it.
Waiting == {"check", "select", "call", "dial", "handshake", "hung"}
Places == {"unborn", "idle", "ready", "reconcile", "report", "secret", "delayed", "gone"} \cup Waiting

WaitsInit ==
    /\ at = "unborn"
    /\ clock = 0
    /\ tries = 0
    /\ open = 0
    /\ shuttingDown = FALSE

Goto(place) == at' = place /\ UNCHANGED <<clock, tries, open>>

-----------------------------------------------------------------------------
(* handleErr.                                                              *)

\* handleErr with an error: AddRateLimited, which a queue that shuts down
\* ignores.  WorkQueue has the failures that are counted for this.
Retry == Goto(IF shuttingDown THEN "idle" ELSE "delayed")

\* handleErr without one, or with one too many: Forget.
Drop == Goto("idle")

Returns == Retry \/ Drop

-----------------------------------------------------------------------------
(* The key.                                                                *)

\* The informer enqueues the key.
Arrive == at \in {"idle", "delayed"} /\ ~shuttingDown /\ Goto("ready")

\* The delay is over.
ComesBack == at = "delayed" /\ ~shuttingDown /\ Goto("ready")

\* processNextWorkItem; a queue that shuts down hands out what it has.
Begin == at = "ready" /\ Goto("reconcile")

\* Mutant: the delayed keys are waited for.
QuitIdle == at = "idle" /\ shuttingDown /\ Goto("gone")

Quit == at \in {"idle", "delayed"} /\ shuttingDown /\ Goto("gone")

\* reconcile has nothing to wait for, or starts an operation of GCE.
Reconcile ==
    /\ at = "reconcile"
    /\ \/ Returns
       \/ /\ at' = "check"
          /\ clock' = 0
          /\ UNCHANGED <<tries, open>>

-----------------------------------------------------------------------------
(* waitForOperation.                                                       *)

\* checkOp: an error, the operation is done, or goes on.
CheckFails == at = "check" /\ Goto("report")

\* Done: of a creation, or new metadata, the poll follows; of a deletion the
\* finalizer is removed.
CheckDone ==
    /\ at = "check"
    /\ \/ /\ at' = "dial"
          /\ clock' = 0
          /\ tries' = 0
          /\ UNCHANGED <<open>>
       \/ Returns

CheckRunning == at = "check" /\ Goto("select")

\* Mutant: a new deadline for every round.
SleepFresh ==
    /\ at = "select"
    /\ clock' = clock + gceWaitSleep
    /\ at' = "call"
    /\ UNCHANGED <<tries, open>>

\* The select: of the two timers the sleep ends first, or together.
Sleep ==
    /\ at = "select"
    /\ clock + gceWaitSleep <= gceTimeout
    /\ clock' = clock + gceWaitSleep
    /\ at' = "call"
    /\ UNCHANGED <<tries, open>>

\* The deadline has passed, or passes before the sleep ends, or together.
TimesOut ==
    /\ at = "select"
    /\ clock + gceWaitSleep >= gceTimeout
    /\ clock' = IF clock > gceTimeout THEN clock ELSE gceTimeout
    /\ at' = "report"
    /\ UNCHANGED <<tries, open>>

\* ZoneOperationsGet answers after c seconds; it has no timeout of its own.
Call(c) ==
    /\ at = "call"
    /\ clock' = clock + c
    /\ at' = "check"
    /\ UNCHANGED <<tries, open>>

\* handleError: once the failure is in the status the key is forgotten, only
\* a failed UpdateStatus makes for a retry.
Report == at = "report" /\ Returns

-----------------------------------------------------------------------------
(* pollForSSHConnection.                                                   *)

\* How long a dial can take: no timeout at all when none is configured.
DialTimeout == IF config.TimeoutSeconds = 0 THEN SlowDial ELSE config.TimeoutSeconds

\* A dial fails after t seconds, and the delay follows.
DialFails(t) ==
    /\ at = "dial"
    /\ tries < config.Retries
    /\ tries' = tries + 1
    /\ clock' = clock + t + config.DelaySeconds
    /\ UNCHANGED <<at, open>>

\* A dial succeeds: the handshake follows, and no other dial.
DialSucceeds(t) ==
    /\ at = "dial"
    /\ tries < config.Retries
    /\ clock' = clock + t
    /\ open' = open + 1
    /\ at' = "handshake"
    /\ UNCHANGED <<tries>>

\* All dials have failed: only a warning.  (The key they were to use is one
\* that newSSHKeypair made, which parses.)
PollFails == at = "dial" /\ tries >= config.Retries /\ Goto("secret")

\* Mutant: a failed handshake leaves the connection open.
HandshakeLeaking ==
    /\ at = "handshake"
    /\ open' \in {open - 1, open}
    /\ at' = "secret"
    /\ UNCHANGED <<clock, tries>>

\* NewClientConn returns: it closed the connection itself, or Close does.
Handshake ==
    /\ at = "handshake"
    /\ open' = open - 1
    /\ at' = "secret"
    /\ UNCHANGED <<clock, tries>>

\* A VM that accepts the connection and stays silent: the configured timeout
\* is not one of the handshake.
HandshakeHangs == at = "handshake" /\ Goto("hung")

\* The secret is created, or not.
CreateSecret == at = "secret" /\ Returns

-----------------------------------------------------------------------------
Works ==
    \/ ComesBack \/ Begin \/ Quit \/ Reconcile
    \/ CheckFails \/ CheckDone \/ CheckRunning
    \/ Sleep \/ TimesOut \/ Report
    \/ \E c \in 0 .. SlowCall : Call(c)
    \/ \E t \in 0 .. DialTimeout : DialFails(t) \/ DialSucceeds(t)
    \/ PollFails \/ Handshake \/ CreateSecret

WaitsNext ==
    /\ Works \/ Arrive \/ HandshakeHangs
    /\ UNCHANGED <<config, shuttingDown>>
=============================================================================
