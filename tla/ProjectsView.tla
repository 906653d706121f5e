---------------------------- MODULE ProjectsView ----------------------------
(***************************************************************************)
(* What the admin UI says of one project's rebuild: the tracker of         *)
(* /api/rebuild (server/lib/rebuild-tracker.ts), the row that              *)
(* api/projects.ts makes of its job, the persisted marker and the rows     *)
(* committed since, and the badge, the button and the bell that the client *)
(* makes of the row.  The work itself is in ProjectPasses.                 *)
(***************************************************************************)
EXTENDS Integers, FiniteSets

CONSTANTS
  Total,        \* files of the project
  RETENTION,    \* DEFAULT_TERMINAL_RETENTION_MS, in ticks of half a second
  THROTTLE,     \* PROGRESS_THROTTLE_MS, in ticks
  MaxClock,     \* bound: ticks
  None

VARIABLES
  clock,
  job,          \* the tracker's: status, indexed, total, started, completed
  lastEmit,
  told,         \* what the last event of the job said
  marker,       \* rebuild_pending_at
  committed,    \* files indexed since the marker was set
  run,          \* /api/rebuild's work: None, Wiping, or the files done
  loop          \* the reconcile loop's pass is at this project

Wiping == -1

vars == <<clock, job, lastEmit, told, marker, committed, run, loop>>

Init ==
  /\ clock = THROTTLE /\ job = None /\ lastEmit = 0 /\ told = None
  /\ marker = None /\ committed = {} /\ run = None /\ loop = FALSE

-----------------------------------------------------------------------------
Expired(j) == j.completed # None /\ j.completed < clock - RETENTION

(* sweep runs in start, get and snapshot: nobody reads a job without it.   *)
Swept == IF job = None THEN None ELSE IF Expired(job) THEN None ELSE job

Withheld(force) == ~force /\ clock - lastEmit < THROTTLE

emit(j, force) ==
  IF Withheld(force) THEN UNCHANGED <<lastEmit, told>>
  ELSE lastEmit' = clock /\ told' = [status |-> j.status, indexed |-> j.indexed]

Tells(j, force) == job' = j /\ emit(j, force)

(* finish and fail.                                                        *)
Ends(status) ==
  IF job = None THEN UNCHANGED <<job, lastEmit, told>>
  ELSE Tells([job EXCEPT !.status = status, !.completed = clock], TRUE)

-----------------------------------------------------------------------------
Rejected == loop \/ (Swept # None /\ Swept.status = "running")

ApiRebuild ==
  /\ ~Rejected
  /\ Tells([status |-> "running", indexed |-> 0, total |-> None, started |-> clock,
            completed |-> None], TRUE)
  /\ marker' = clock /\ committed' = {} /\ run' = Wiping
  /\ UNCHANGED <<clock, loop>>

(* deleteProjectChunks and purgeProjectContents are over.                  *)
Wipes ==
  /\ run = Wiping /\ run' = 0 /\ committed' = {}
  /\ UNCHANGED <<clock, job, lastEmit, told, marker, loop>>

(* A file of the walk; recordProgress.                                     *)
Indexes ==
  /\ run \in 0..(Total - 1) /\ run' = run + 1
  /\ committed' = committed \cup {run + 1}
  /\ IF job = None THEN UNCHANGED <<job, lastEmit, told>>
     ELSE Tells([job EXCEPT !.indexed = run + 1, !.total = Total], FALSE)
  /\ UNCHANGED <<clock, marker, loop>>

Finishes ==
  /\ run = Total /\ run' = None /\ marker' = None
  /\ Ends("done")
  /\ UNCHANGED <<clock, committed, loop>>

Fails ==
  /\ run # None /\ run' = None
  /\ Ends("failed")
  /\ UNCHANGED <<clock, marker, committed, loop>>

LoopComes ==
  /\ ~loop /\ loop' = TRUE
  /\ UNCHANGED <<clock, job, lastEmit, told, marker, committed, run>>

LoopIndexes ==
  /\ loop /\ \E f \in (1..Total) \ committed : committed' = committed \cup {f}
  /\ UNCHANGED <<clock, job, lastEmit, told, marker, run, loop>>

(* The pass clears the marker, or fails.                                   *)
LoopGoes ==
  /\ loop /\ loop' = FALSE /\ marker' \in {None, marker}
  /\ UNCHANGED <<clock, job, lastEmit, told, committed, run>>

Restart ==
  /\ run' = None /\ loop' = FALSE
  /\ job' = None /\ lastEmit' = 0 /\ told' = None
  /\ UNCHANGED <<clock, marker, committed>>

Elapses ==
  /\ clock < MaxClock /\ clock' = clock + 1
  /\ UNCHANGED <<job, lastEmit, told, marker, committed, run, loop>>

Next ==
  \/ ApiRebuild \/ Wipes \/ Indexes \/ Finishes \/ Fails
  \/ LoopComes \/ LoopIndexes \/ LoopGoes \/ Restart \/ Elapses

Spec == Init /\ [][Next]_vars

-----------------------------------------------------------------------------
Progress(status, indexed, total) == [status |-> status, indexed |-> indexed, total |-> total]

(* The row's rebuilding.                                                   *)
liveRebuildProgress ==
  LET since == IF marker = None THEN 0 ELSE Cardinality(committed)
      j == Swept
  IN  IF j = None /\ marker = None THEN None
      ELSE IF j = None THEN Progress("running", since, None)
      ELSE IF j.status = "running" /\ since > j.indexed THEN Progress("running", since, j.total)
      ELSE Progress(j.status, j.indexed, j.total)

Runs(p) == p # None /\ p.status = "running"

computeHealth(watcher, files, ever, errors) ==
  IF watcher \in {"failed", "paused"} THEN watcher
  ELSE IF Runs(liveRebuildProgress) THEN "indexing"
  ELSE IF loop THEN "reconciling"
  ELSE IF files = 0 THEN IF ever THEN "empty" ELSE "never-indexed"
  ELSE IF errors > 0 THEN "errors"
  ELSE IF watcher = "active" THEN "active" ELSE "ready"

(* RowActionButtons and RebuildButton: what the row offers.                *)
RebuildShown(p) == p # None /\ p.status \in {"running", "failed"}

Button ==
  LET p == liveRebuildProgress IN
  IF ~RebuildShown(p) THEN "rebuild" ELSE IF Runs(p) THEN "rebuilding" ELSE "retry"

(* Of the bell's entries, those of this project's rebuild.                 *)
Bell ==
  {e \in {"rebuilding", "flagged"} :
     IF e = "rebuilding" THEN Runs(liveRebuildProgress)
     ELSE ~loop /\ marker # None /\ ~Runs(liveRebuildProgress)}

-----------------------------------------------------------------------------
(* However fast files are indexed, the end of a job is told: the page that *)
(* refetches on events shows it (rebuild-tracker.ts:67-71).                *)
EndsAreTold ==
  (job # None /\ run = None) => told = [status |-> job.status, indexed |-> job.indexed]

(* While a rebuild works on the project, the badge, the button and the     *)
(* bell all say so, whatever the loop does to the marker and however long  *)
(* it takes; so no page offers a second rebuild (projects.tsx:931-934).    *)
WorkIsShown ==
  run # None =>
    /\ \A files \in 0..1, errors \in 0..1, ever \in BOOLEAN :
         computeHealth("active", files, ever, errors) = "indexing"
    /\ Button = "rebuilding" /\ Bell = {"rebuilding"}

(* What a row offers is taken: while the loop is elsewhere.                *)
OfferedIsTaken == (Button \in {"rebuild", "retry"} /\ ~loop) => ~Rejected

(* `Stuck rebuild_pending flags from killed daemons' (use-notifications.ts *)
(* :8).  The code does not keep this: a row with the marker always runs.   *)
StuckIsTold == (run = None /\ ~loop /\ marker # None) => "flagged" \in Bell
=============================================================================
