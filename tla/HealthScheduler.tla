-------------------------- MODULE HealthScheduler --------------------------
(***************************************************************************)
(* The debounced health scoring of analyzers/health-scheduler.ts, and the  *)
(* close() of container.ts that disposes of it before the store is closed. *)
(*                                                                         *)
(* The indexer and the analyzer sink call schedule; a project is scored    *)
(* once it has been quiet, a call during a run asks for another run.       *)
(***************************************************************************)
CONSTANTS
  Project,
  Call          \* bound: the calls of schedule, in no order

VARIABLES
  timers,       \* projects whose quiet timer is armed
  running,      \* projects being scored
  dirty,        \* projects to score again after the run
  store,        \* the runtime: "open", "disposing" or "closed"
  awaited,      \* the runs dispose waits for
  unscored,     \* history: projects that changed since a score looked at them
  calls         \* calls of schedule made

healthVars == <<timers, running, dirty, store, awaited, unscored, calls>>

disposed == store # "open"

HealthInit ==
  /\ timers \in SUBSET Project       \* the backfill of buildRuntime
  /\ running = {}
  /\ dirty = {}
  /\ store = "open"
  /\ awaited = {}
  /\ unscored = timers
  /\ calls = {}

(* schedule with no run of p in flight: (re)arm the timer.                 *)
Armed(p) == IF disposed THEN timers ELSE timers \cup {p}

(* Slip: a call during a run arms the timer as any other call.             *)
ArmsAlways(p) == timers' = timers \cup {p} /\ dirty' = dirty

Reschedule(p) ==
  IF p \in running THEN dirty' = dirty \cup {p} /\ timers' = timers
  ELSE timers' = Armed(p) /\ dirty' = dirty

Schedule(p) ==
  /\ calls # Call
  /\ calls' = calls \cup {CHOOSE k \in Call : k \notin calls}
  /\ unscored' = unscored \cup {p}
  /\ IF disposed THEN UNCHANGED <<timers, dirty>> ELSE Reschedule(p)
  /\ UNCHANGED <<running, store, awaited>>

(* The quiet time of p is over: the score starts to read the store.        *)
Fire(p) ==
  /\ p \in timers
  /\ timers' = timers \ {p}
  /\ IF disposed THEN UNCHANGED <<running, unscored>>
     ELSE running' = running \cup {p} /\ unscored' = unscored \ {p}
  /\ UNCHANGED <<dirty, store, awaited, calls>>

(* The run is over; schedule(again) if there was a call meanwhile.         *)
Again(p) == IF p \in dirty THEN Armed(p) ELSE timers

(* The score resolves or rejects; a rejection is logged.                   *)
RunEnds(p) ==
  /\ p \in running
  /\ running' = running \ {p}
  /\ dirty' = dirty \ {p}
  /\ timers' = Again(p)
  /\ UNCHANGED <<store, awaited, unscored, calls>>

(* Slip: the runs are not waited for.                                      *)
WaitsForNone == {}

InFlight == running

(* close() calls dispose, which clears the timers and waits for the runs.  *)
Dispose ==
  /\ store = "open"
  /\ store' = "disposing"
  /\ timers' = {}
  /\ dirty' = {}
  /\ awaited' = InFlight
  /\ UNCHANGED <<running, unscored, calls>>

RunsSettled == awaited \cap running = {}

(* The runs that were in flight have settled: state.close().               *)
Close ==
  /\ store = "disposing"
  /\ RunsSettled
  /\ store' = "closed"
  /\ UNCHANGED <<timers, running, dirty, awaited, unscored, calls>>

HealthNext ==
  \/ \E p \in Project : Schedule(p) \/ Fire(p) \/ RunEnds(p)
  \/ Dispose
  \/ Close

(* A project goes quiet since calls are bounded, then its timer fires;     *)
(* scores settle.                                                          *)
HealthFairness ==
  /\ \A p \in Project : WF_healthVars(Fire(p)) /\ WF_healthVars(RunEnds(p))
  /\ WF_healthVars(Close)

HealthSpec == HealthInit /\ [][HealthNext]_healthVars

-----------------------------------------------------------------------------
HealthTypeOK ==
  /\ timers \subseteq Project
  /\ running \subseteq Project
  /\ dirty \subseteq Project
  /\ store \in {"open", "disposing", "closed"}
  /\ awaited \subseteq Project
  /\ unscored \subseteq Project
  /\ calls \subseteq Call

(* A project with a run in flight has no timer that could start a second   *)
(* one, and a call that came during a run waits for the end of that run.   *)
OneRun == timers \cap running = {} /\ dirty \subseteq running

(* "dispose() drops armed timers and waits for in-flight runs so the store *)
(* they read is never closed underneath them."                             *)
NoScoreOnClosedStore == store = "closed" => timers = {} /\ running = {}

(* One run of a project at a time, and none on a closed store.             *)
ScoringIsOrderly == OneRun /\ NoScoreOnClosedStore

(* No change is forgotten: a project that changed, even during a run, is   *)
(* scored by a run that starts later, unless the runtime closes first.     *)
ChangesAreScored ==
  \A p \in Project : p \in unscored ~> p \notin unscored \/ disposed

(* Closing the runtime comes to an end whatever is being scored.           *)
CloseEnds == store = "disposing" ~> store = "closed"

(* The scheduler does what is asked of it: with its timers and its marks   *)
(* hidden, every step is one of the duty or changes nothing of it.         *)
Duty == INSTANCE ScoringDuty WITH owed <- unscored, scoring <- running, phase <- store

(* The abstract specification as a property of HealthSpec.                 *)
KeepsDuty == Duty!Spec
=============================================================================
