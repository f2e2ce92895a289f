-------------------------------- MODULE Runtime --------------------------------
(***************************************************************************)
(* VorcaroServerRuntime and the main program (main.ts): the processes that *)
(* are started on one data directory, the lock directory that keeps them   *)
(* apart, signals, shutdown, and the requests of the device API, each of   *)
(* which passes the rate limiter of its process first.                     *)
(*                                                                         *)
(* The constructor is synchronous, so a signal that arrives meanwhile finds*)
(* no handler and ends the process.  shutdown() drains the appender and    *)
(* calls close on both servers in one turn of the event loop: drain awaits *)
(* nothing that is not already due.  What takes time is the end of the     *)
(* connections.  close refuses new ones and ends those that are idle; the  *)
(* others stay, may bring further requests, and are ended by nobody but    *)
(* the client while a request is under way: Node stops looking for         *)
(* requests that exceed headersTimeout and requestTimeout.  What it keeps  *)
(* is keepAliveTimeout, for a connection that is idle after an answer.     *)
(***************************************************************************)
EXTENDS RateLimit

CONSTANTS Process,  \* processes started on the data directory
          Signal,   \* signals with a handler: SIGTERM, SIGINT
          MaxOpen   \* BOUND: connections open at the same time

VARIABLES lock,       \* the lock directory exists
          phase,      \* how far each process is
          handlers,   \* process.once handlers that are still installed
          open,       \* connections of each process with a request under way
          idle,       \* its connections that are kept alive after an answer
          abandoned   \* the last owner ended without releasing (history)

connections == <<open, idle>>
processVars == <<lock, phase, handlers, open, idle, abandoned>>
runtimeVars == <<processVars, rateVars>>

\* off: not running.  opening: in the constructor, after acquireLock.
\* failed: the constructor has thrown; the lock is released, the databases are
\* open until the process is gone.
\* starting: start() awaits both listeners.  closing: shutdown() awaits close.
Phase == {"off", "opening", "failed", "starting", "serving", "closing"}

RuntimeTypeOK ==
    /\ RateTypeOK
    /\ lock \in BOOLEAN
    /\ phase \in [Process -> Phase]
    /\ handlers \in [Process -> SUBSET Signal]
    /\ open \in [Process -> 0..MaxOpen]
    /\ idle \in [Process -> 0..MaxOpen]
    /\ abandoned \in BOOLEAN

RuntimeInit ==
    /\ RateInit
    /\ lock = FALSE
    /\ phase = [p \in Process |-> "off"]
    /\ handlers = [p \in Process |-> {}]
    /\ open = [p \in Process |-> 0]
    /\ idle = [p \in Process |-> 0]
    /\ abandoned = FALSE

Running(p) == phase[p] # "off"

\* The process has acquired the lock and not released it.
Owns(p) == phase[p] \in {"opening", "starting", "serving", "closing"}

-----------------------------------------------------------------------------
(* Start. *)

\* acquireLock: mkdir succeeds
AcquireLock(p) ==
    /\ ~Running(p)
    /\ ~lock
    /\ lock' = TRUE
    /\ phase' = [phase EXCEPT ![p] = "opening"]
    /\ abandoned' = FALSE
    /\ UNCHANGED <<handlers, connections, rateVars>>

\* Mutation: acquireLock inside the try, so that its failure releases the lock.
BugLockIsHeld(p) ==
    /\ ~Running(p)
    /\ lock
    /\ lock' = FALSE
    /\ UNCHANGED <<phase, handlers, connections, abandoned, rateVars>>

\* acquireLock: mkdir fails, and the process with it
LockIsHeld(p) ==
    /\ ~Running(p)
    /\ lock
    /\ UNCHANGED runtimeVars

\* A database, a key or a certificate cannot be read: the lock is released, the
\* error thrown on, and the databases are left as they are.
ConstructorFails(p) ==
    /\ phase[p] = "opening"
    /\ phase' = [phase EXCEPT ![p] = "failed"]
    /\ lock' = FALSE
    /\ UNCHANGED <<handlers, connections, abandoned, rateVars>>

\* Mutation: the lock is released as the process ends, not where it fails.
BugProcessEnds(p) ==
    /\ phase[p] = "failed"
    /\ phase' = [phase EXCEPT ![p] = "off"]
    /\ lock' = FALSE
    /\ UNCHANGED <<handlers, connections, abandoned, rateVars>>

\* Nothing catches the error (or a signal is faster): the process is gone.
ProcessEnds(p) ==
    /\ phase[p] = "failed"
    /\ phase' = [phase EXCEPT ![p] = "off"]
    /\ UNCHANGED <<lock, handlers, connections, abandoned, rateVars>>

\* The handlers are installed and both servers told to listen.
Constructed(p) ==
    /\ phase[p] = "opening"
    /\ phase' = [phase EXCEPT ![p] = "starting"]
    /\ handlers' = [handlers EXCEPT ![p] = Signal]
    /\ FreshLimiter
    /\ UNCHANGED <<lock, connections, abandoned>>

Listens(p) ==
    /\ phase[p] = "starting"
    /\ phase' = [phase EXCEPT ![p] = "serving"]
    /\ UNCHANGED <<lock, handlers, connections, abandoned, rateVars>>

-----------------------------------------------------------------------------
(* How a process ends. *)

\* An owner is gone, and the lock directory stays.
Abandon(p) ==
    /\ Owns(p)
    /\ phase' = [phase EXCEPT ![p] = "off"]
    /\ handlers' = [handlers EXCEPT ![p] = {}]
    /\ open' = [open EXCEPT ![p] = 0]
    /\ idle' = [idle EXCEPT ![p] = 0]
    /\ abandoned' = TRUE
    /\ UNCHANGED <<lock, rateVars>>

\* start() rejects: a port is in use.  process.exit(1) skips shutdown.
ListenFails(p) == phase[p] = "starting" /\ Abandon(p)

\* SIGKILL, an uncaught exception, a power failure
Kill(p) == Abandon(p)

\* The first signal that has a handler: shutdown() up to its second await.
ShutDown(p, s) ==
    /\ s \in handlers[p]
    /\ phase[p] \in {"starting", "serving"}
    /\ phase' = [phase EXCEPT ![p] = "closing"]
    /\ handlers' = [handlers EXCEPT ![p] = @ \ {s}]
    /\ idle' = [idle EXCEPT ![p] = 0]
    /\ UNCHANGED <<lock, open, abandoned, rateVars>>

\* A server that does not listen yet cannot be closed: shutdown() rejects, and
\* nothing handles that.
CloseFails(p, s) ==
    /\ s \in handlers[p]
    /\ phase[p] = "starting"
    /\ Abandon(p)

\* The other signal while shutdown() is under way: it returns at once, and
\* process.exit(0) follows.
ExitWhileClosing(p, s) ==
    /\ s \in handlers[p]
    /\ phase[p] = "closing"
    /\ Abandon(p)

\* No handler, or its one use is spent: the default action ends the process.
DefaultAction(p, s) ==
    /\ s \notin handlers[p]
    /\ Abandon(p)

\* Both servers are closed: checkpoints, close, releaseLock and exit.
FinishShutdown(p) ==
    /\ phase[p] = "closing"
    /\ open[p] = 0
    /\ idle[p] = 0
    /\ phase' = [phase EXCEPT ![p] = "off"]
    /\ handlers' = [handlers EXCEPT ![p] = {}]
    /\ lock' = FALSE
    /\ UNCHANGED <<connections, abandoned, rateVars>>

\* The operator removes a lock after making sure that nothing runs.
RemoveStaleLock ==
    /\ lock
    /\ \A p \in Process : ~Running(p)
    /\ lock' = FALSE
    /\ abandoned' = FALSE
    /\ UNCHANGED <<phase, handlers, connections, rateVars>>

-----------------------------------------------------------------------------
(* Connections and their requests. *)

\* One of the two servers may listen before the other one does.
Accepts(p) == phase[p] \in {"starting", "serving"}

Answers(p) == phase[p] \in {"starting", "serving", "closing"}

\* A request is under way on a new connection, or on one that was kept alive,
\* which is possible while the servers are closing too.
Occupies(p) ==
    /\ open' = [open EXCEPT ![p] = @ + 1]
    /\ \/ /\ Accepts(p)
          /\ open[p] + idle[p] < MaxOpen
          /\ UNCHANGED idle
       \/ /\ Answers(p)
          /\ idle[p] > 0
          /\ idle' = [idle EXCEPT ![p] = @ - 1]
    /\ UNCHANGED <<lock, phase, handlers, abandoned>>

RequestArrives(p, k) == Occupies(p) /\ Admit(k)

\* 429 is the answer.
RequestRefused(p, k) == Occupies(p) /\ Refuse(k)

\* The admin server has no limiter; nor has a connection without a request yet.
OtherArrives(p) == Occupies(p) /\ UNCHANGED rateVars

\* Answered, and the connection is kept alive.
RequestAnswered(p) ==
    /\ open[p] > 0
    /\ open' = [open EXCEPT ![p] = @ - 1]
    /\ idle' = [idle EXCEPT ![p] = @ + 1]
    /\ UNCHANGED <<lock, phase, handlers, abandoned, rateVars>>

\* The client goes away, asks for the connection to be closed after the answer,
\* or exceeds a timeout before the shutdown.
ConnectionEnds(p) ==
    /\ open[p] > 0
    /\ open' = [open EXCEPT ![p] = @ - 1]
    /\ UNCHANGED <<lock, phase, handlers, idle, abandoned, rateVars>>

\* Mutation: keepAliveTimeout, like the others, is not enforced after close.
BugIdleEnds(p) ==
    /\ phase[p] # "closing"
    /\ idle[p] > 0
    /\ idle' = [idle EXCEPT ![p] = @ - 1]
    /\ UNCHANGED <<lock, phase, handlers, open, abandoned, rateVars>>

\* keepAliveTimeout, or the client closes it
IdleEnds(p) ==
    /\ idle[p] > 0
    /\ idle' = [idle EXCEPT ![p] = @ - 1]
    /\ UNCHANGED <<lock, phase, handlers, open, abandoned, rateVars>>

TimePasses ==
    /\ \/ ClockAdvances
       \/ ClockStepsBack
       \/ \E k \in Key : WindowBegins(k)
    /\ UNCHANGED processVars

SignalArrives(p, s) ==
    \/ ShutDown(p, s)
    \/ CloseFails(p, s)
    \/ ExitWhileClosing(p, s)
    \/ DefaultAction(p, s)

RuntimeNext ==
    \/ \E p \in Process :
          \/ AcquireLock(p) \/ LockIsHeld(p)
          \/ ConstructorFails(p) \/ ProcessEnds(p)
          \/ Constructed(p) \/ Listens(p) \/ ListenFails(p)
          \/ Kill(p) \/ FinishShutdown(p)
          \/ OtherArrives(p) \/ RequestAnswered(p)
          \/ ConnectionEnds(p) \/ IdleEnds(p)
          \/ \E s \in Signal : SignalArrives(p, s)
          \/ \E k \in Key : RequestArrives(p, k) \/ RequestRefused(p, k)
    \/ RemoveStaleLock
    \/ TimePasses

RuntimeSpec == RuntimeInit /\ [][RuntimeNext]_runtimeVars

\* The timers of idle connections and the close callbacks run.  Nobody is
\* obliged to start, to signal or to clean up, and no client to send the rest
\* of a request or to stop sending requests.
LiveRuntimeSpec ==
    /\ RuntimeSpec
    /\ \A p \in Process :
          WF_runtimeVars(IdleEnds(p)) /\ WF_runtimeVars(FinishShutdown(p))

-----------------------------------------------------------------------------
(* Properties. *)

\* acquireLock: at most one process owns the data directory, and no other one
\* has clients, through failed starts, signals, kills and restarts.  A process
\* whose constructor failed may still have the databases open when the next one
\* starts; it has no listeners, and its end takes nothing from its successor.
ExclusiveOwner ==
    /\ \A p, q \in Process : Owns(p) /\ Owns(q) => p = q
    /\ \A p \in Process : open[p] + idle[p] > 0 => Answers(p) /\ lock

\* The lock is there exactly while it has an owner or when the last owner died
\* without shutting down: no start, no failed start that ends late and no
\* shutdown leaves it behind or takes that of another process.
LockAccountedFor ==
    /\ lock <=> (abandoned \/ \E p \in Process : Owns(p))
    /\ abandoned => \A p \in Process : ~Owns(p)

\* shutdown awaits both servers: nothing but a request that is under way keeps
\* it from its end.  A client that stalls or never pauses can do so for ever,
\* one that merely holds its connection cannot.
ShutdownAwaitsOnlyRequests ==
    \A p \in Process : phase[p] = "closing" ~> ~Running(p) \/ open[p] > 0
=============================================================================
