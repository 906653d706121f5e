----------------------------- MODULE DaemonLife -----------------------------
(***************************************************************************)
(* One life of the daemon (apps/cli/src/start.ts): what it sets up and in  *)
(* which order, the reconcile loop and its timer, the watchers as their    *)
(* registry shows them (core/src/watcher/registry.ts), and the shutdowns   *)
(* that SIGINT and SIGTERM begin, each once.                               *)
(***************************************************************************)
EXTENDS Naturals, Absence

CONSTANTS
  Project,      \* the projects that are active at boot
  MaxFailures   \* bound: failed passes in a row that are told apart

StopSignal == {"INT", "TERM"}

VARIABLES
  boot,         \* how far start() is
  lock,         \* the lock file is this process's
  store,        \* the state store is open
  subscribed,   \* projects with a subscribed watcher
  shown,        \* per project, the state in the registry; None: no entry
  http,         \* the listener: closed, opening, open, closing
  loop,         \* the reconcile loop: none, immediate, timer or running
  stopped,      \* reconciliationStop was called
  failures,     \* consecutiveFailures
  every,        \* reconciliation.interval_seconds is above 0
  zeroed,       \* history: it has been 0
  drain         \* per signal, the step its shutdown is at

services == <<lock, store>>
watchers == <<subscribed, shown>>
looping == <<loop, stopped, failures>>
interval == <<every, zeroed>>
lifeVars == <<boot, services, watchers, http, looping, interval, drain>>

LifeInit ==
  /\ boot = "begins" /\ lock = FALSE /\ store = FALSE
  /\ subscribed = {} /\ shown = [p \in Project |-> None]
  /\ http = "closed"
  /\ loop = "none" /\ stopped = FALSE /\ failures = 0
  /\ every \in BOOLEAN /\ zeroed = ~every
  /\ drain = [s \in StopSignal |-> "none"]

Draining == \E s \in StopSignal : drain[s] # "none"

-----------------------------------------------------------------------------
(* The lock comes first; module DaemonLock has how it is taken.            *)
TakeLock ==
  /\ boot = "begins" /\ boot' = "locked" /\ lock' = TRUE
  /\ UNCHANGED <<store, watchers, http, looping, interval, drain>>

BuildRuntime ==
  /\ boot = "locked" /\ boot' = "built" /\ store' = TRUE
  /\ UNCHANGED <<lock, watchers, http, looping, interval, drain>>

BuildFails ==
  /\ boot = "locked" /\ boot' = "failed" /\ lock' = FALSE
  /\ UNCHANGED <<store, watchers, http, looping, interval, drain>>

(* Every watcher starts or fails, and one that fails is registered so.     *)
StartWatchers ==
  /\ boot = "built" /\ boot' = "watching"
  /\ subscribed' \in SUBSET Project
  /\ shown' = [p \in Project |-> IF p \in subscribed' THEN "active" ELSE "failed"]
  /\ UNCHANGED <<services, http, looping, interval, drain>>

(* startReconciliation: with no project and without both of its settings   *)
(* there is no loop, whatever is configured later.                         *)
FirstLoop(onStart) ==
  IF Project = {} \/ (~onStart /\ ~every) THEN "none" ELSE IF onStart THEN "immediate" ELSE "timer"

(* The listener is asked for, the loops and the signal handlers set up, in *)
(* one go.                                                                 *)
Serve(onStart) ==
  /\ boot = "watching" /\ boot' = "up"
  /\ http' = "opening" /\ loop' = FirstLoop(onStart)
  /\ zeroed' = (~every \/ FirstLoop(onStart) = "none")
  /\ UNCHANGED <<services, watchers, stopped, failures, every, drain>>

Listens ==
  /\ http = "opening" /\ http' = "open"
  /\ UNCHANGED <<boot, services, watchers, looping, interval, drain>>

(* The port is in use: an error event nobody handles.  A signal during the *)
(* boot, before there are handlers, ends the process the same way, and so  *)
(* does a kill at any time.                                                *)
DaemonDies ==
  /\ boot \in {"locked", "built", "watching", "up"} /\ boot' = "killed"
  /\ UNCHANGED <<services, watchers, http, looping, interval, drain>>

Up == boot = "up"

-----------------------------------------------------------------------------
(* run                                                                     *)
BeginPass ==
  /\ Up /\ loop \in {"immediate", "timer"}
  /\ loop' = "running"
  /\ UNCHANGED <<boot, services, watchers, http, stopped, failures, interval, drain>>

(* scheduleNext in finally: not once it is stopped, nor while the interval *)
(* is 0; the interval is read anew.                                        *)
Rescheduled(ok) == IF stopped \/ ~every THEN "none" ELSE "timer"

EndPass(ok) ==
  /\ Up /\ loop = "running"
  /\ loop' = Rescheduled(ok)
  /\ failures' = IF ok THEN 0 ELSE IF failures < MaxFailures THEN failures + 1 ELSE failures
  /\ UNCHANGED <<boot, services, watchers, http, stopped, interval, drain>>

(* reloadConfig after a write to the config.                               *)
ReloadInterval ==
  /\ Up /\ http = "open"
  /\ every' \in BOOLEAN /\ zeroed' = (zeroed \/ ~every')
  /\ UNCHANGED <<boot, services, watchers, http, looping, drain>>

-----------------------------------------------------------------------------
(* /api/watch/pause and /api/watch/resume, and markFailed on the error of  *)
(* a file.                                                                 *)
Shows(p, s) ==
  /\ Up /\ shown[p] # None
  /\ shown' = [shown EXCEPT ![p] = s]
  /\ UNCHANGED <<boot, services, subscribed, http, looping, interval, drain>>

Pause(p) == http = "open" /\ Shows(p, "paused")
Resume(p) == http = "open" /\ Shows(p, "active")
MarkFailed(p) == p \in subscribed /\ Shows(p, "failed")

-----------------------------------------------------------------------------
(* Slip: the timer that is armed stays.                                    *)
TimerLeft == loop

TimerCleared == IF loop = "timer" THEN "none" ELSE loop

(* shutdown: the loops are stopped, the watchers asked to.                 *)
Shutdown(s) ==
  /\ Up /\ drain[s] = "none"
  /\ drain' = [drain EXCEPT ![s] = "watchers"]
  /\ stopped' = TRUE /\ loop' = TimerCleared
  /\ UNCHANGED <<boot, services, watchers, http, failures, interval>>

WatcherStops(p) ==
  /\ Up /\ Draining /\ p \in subscribed
  /\ subscribed' = subscribed \ {p}
  /\ UNCHANGED <<boot, services, shown, http, looping, interval, drain>>

(* raceShutdownStep: the next part begins whether or not every watcher has *)
(* stopped in its time.                                                    *)
WatchersStopped(s) ==
  /\ Up /\ drain[s] = "watchers"
  /\ drain' = [drain EXCEPT ![s] = "http"]
  /\ http' = "closing"
  /\ UNCHANGED <<boot, services, watchers, looping, interval>>

(* close() calls back when the requests in flight are over.                *)
HttpCloses ==
  /\ Up /\ http = "closing" /\ http' = "closed"
  /\ UNCHANGED <<boot, services, watchers, looping, interval, drain>>

(* Whether the server closed or hung: the store is closed, the lock        *)
(* released, the process killed; nothing runs in between, not even the     *)
(* other shutdown.                                                         *)
Finish(s) ==
  /\ Up /\ drain[s] = "http"
  /\ boot' = "finished" /\ store' = FALSE /\ lock' = FALSE
  /\ UNCHANGED <<watchers, http, looping, interval, drain>>

-----------------------------------------------------------------------------
BootSteps == TakeLock \/ BuildRuntime \/ BuildFails \/ StartWatchers \/ Listens
           \/ \E onStart \in BOOLEAN : Serve(onStart)

Drains(s) == WatchersStopped(s) \/ Finish(s)

LifeNext ==
  \/ BootSteps \/ DaemonDies
  \/ BeginPass \/ ReloadInterval \/ \E ok \in BOOLEAN : EndPass(ok)
  \/ \E p \in Project : Pause(p) \/ Resume(p) \/ MarkFailed(p) \/ WatcherStops(p)
  \/ \E s \in StopSignal : Shutdown(s) \/ Drains(s)
  \/ HttpCloses

(* The timers of a shutdown fire; watchers and requests may hang.          *)
LifeFairness == \A s \in StopSignal : WF_lifeVars(Drains(s))

LifeSpec == LifeInit /\ [][LifeNext]_lifeVars
LifeFairSpec == LifeSpec /\ LifeFairness

-----------------------------------------------------------------------------
(* "Each stage has a hard timeout so a stuck watcher or hung HTTP request  *)
(* can't pin shutdown": a signal ends the daemon, whatever hangs, and also *)
(* when the other signal comes during the drain.                           *)
ShutdownEnds == Up /\ Draining ~> ~Up

(* The loop does not die: from boot on there is a timer or a pass, however *)
(* passes fail, until a shutdown, if the interval was never 0.             *)
LoopGoesOn == Up /\ ~stopped /\ ~zeroed => loop # "none"

(* A daemon that ends by itself, in a boot that fails or by a shutdown,    *)
(* leaves no lock behind, and none ever has the store open without the     *)
(* lock.  A kill does leave it, and so does a port in use (DaemonDies).    *)
LockCoversStore ==
  /\ store => lock
  /\ boot \in {"failed", "finished"} => ~lock

(* Once a shutdown has begun no pass begins, but the one of the start that *)
(* setImmediate has queued already.                                        *)
NoPassAfterStop ==
  [][loop # "running" /\ loop' = "running" => ~stopped \/ loop = "immediate"]_lifeVars

(* The three of them: the loop lives as long as the daemon wants it, and   *)
(* no longer, and the lock lasts as long as the store is open.             *)
LifeIsOrderly == [](LoopGoesOn /\ LockCoversStore) /\ NoPassAfterStop

(* "Failed projects show up in the registry with state: failed": a project *)
(* shown as active has a watcher that is subscribed.                       *)
ShownActiveIsWatched ==
  Up /\ ~Draining => \A p \in Project : shown[p] = "active" => p \in subscribed
=============================================================================
