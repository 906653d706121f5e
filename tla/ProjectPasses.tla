--------------------------- MODULE ProjectPasses ---------------------------
(***************************************************************************)
(* The passes of a daemon over whole projects: the reconcile loop of       *)
(* apps/cli/src/start.ts, Reconciler (indexing/reconciler.ts), /api/refresh*)
(* and /api/rebuild (apps/web/server/api/ops.ts) with its RebuildTracker,  *)
(* and the walk of indexProject they share.                                *)
(*                                                                         *)
(* A walk commits a file in two steps, its chunks in SQLite and then its   *)
(* vectors together with the row; module Indexer has the steps in between. *)
(* Contents do not change here: a file is up to date or it is not.         *)
(***************************************************************************)
EXTENDS Naturals, Sequences, FiniteSets, SequencesExt

CONSTANTS
  Project,
  File,         \* the files on disk of every project
  Loop,         \* the reconcile loop of the daemon
  Refresh,      \* calls of /api/refresh
  Rebuild,      \* calls of /api/rebuild, one project each
  MaxFaults,    \* bound on crashes, failing files and failing passes
  None

Pass == {Loop} \cup Refresh
Walker == Pass \cup Rebuild

ASSUME PassAssumption ==
  /\ Loop \notin Refresh /\ Pass \cap Rebuild = {}
  /\ None \notin Project /\ None \notin File
  /\ IsFiniteSet(Project)
  /\ MaxFaults \in Nat

VARIABLES
  rows,         \* per project, the files whose row says up to date
  chunks,       \* per project, the files with chunks in SQLite
  vecs,         \* per project, the files with vectors in LanceDB
  pending,      \* projects with a rebuild_pending_at marker
  walk,         \* per walker, where its pass is
  order,        \* the projects in the order the loop takes them
  running,      \* Reconciler._running
  current,      \* Reconciler._currentProjectId
  job,          \* RebuildTracker: the status of a project's last job
  suspect,      \* history: projects that a rebuild may have left in a bad state
  faults        \* faults so far

data == <<rows, chunks, vecs>>
status == <<running, current>>
vars == <<data, pending, walk, order, status, job, suspect, faults>>

(* left: files the walk has not reached; file: the one it is at; todo: the *)
(* projects to come.                                                       *)
Idle == [pc |-> "idle", project |-> None, left |-> {}, file |-> None,
         todo |-> <<>>]

PC == {"idle", "next", "wiping", "wiped", "walking", "embedding", "writing"}
Walks == [pc : PC, project : Project \cup {None}, left : SUBSET File,
          file : File \cup {None}, todo : Seq(Project)]

On(p) == {x \in Walker : walk[x].pc # "idle" /\ walk[x].project = p}

(* startReconciliation puts the projects with a marker first.              *)
PendingFirst(ps) == SetToSeq(ps) \o SetToSeq(Project \ ps)

Init ==
  /\ rows \in [Project -> {{}, File}]
  /\ chunks = rows
  /\ vecs = rows
  /\ pending = {}
  /\ walk = [x \in Walker |-> Idle]
  /\ order = PendingFirst({})
  /\ running = FALSE
  /\ current = None
  /\ job = [p \in Project |-> "none"]
  /\ suspect = {}
  /\ faults = 0

Fault == faults < MaxFaults /\ faults' = faults + 1

Becomes(x, w) == walk' = [walk EXCEPT ![x] = w]

-----------------------------------------------------------------------------
(* reconcileAll                                                            *)

BeginPass(x, ps) ==
  /\ running' = TRUE
  /\ Becomes(x, [Idle EXCEPT !.pc = "next", !.todo = ps])
  /\ UNCHANGED <<data, pending, order, current, job, suspect, faults>>

(* The loop does not look at running: its next pass comes when the timer   *)
(* set after its last one is over.                                         *)
Tick ==
  /\ walk[Loop].pc = "idle"
  /\ BeginPass(Loop, order)

(* assertNotReconciling is the gate of /api/refresh.                       *)
ApiRefresh(x) ==
  /\ walk[x].pc = "idle"
  /\ ~running
  /\ BeginPass(x, SetToSeq(Project))

(* The pass comes to its next project.                                     *)
NextProject(x) ==
  LET w == walk[x] IN
  /\ w.pc = "next" /\ w.todo # <<>>
  /\ current' = Head(w.todo)
  /\ Becomes(x, [Idle EXCEPT !.pc = "walking", !.project = Head(w.todo),
                             !.left = File, !.todo = Tail(w.todo)])
  /\ UNCHANGED <<data, pending, order, running, job, suspect, faults>>

(* The finally of reconcileAll, whether this is the only pass or not.      *)
EndOfPass == running' = FALSE /\ current' = None

LastProject(x) ==
  /\ walk[x].pc = "next" /\ walk[x].todo = <<>>
  /\ Becomes(x, Idle)
  /\ EndOfPass
  /\ UNCHANGED <<data, pending, order, job, suspect, faults>>

-----------------------------------------------------------------------------
(* /api/rebuild                                                            *)

(* Slip: a job that runs already is not told apart.                        *)
StartsAnew(p) == TRUE

(* RebuildTracker.start                                                    *)
CanStart(p) == job[p] # "running"

(* The tracker is asked, the reconciler's current project compared, the    *)
(* marker set, all before the first await.                                 *)
ApiRebuild(x, p) ==
  /\ walk[x].pc = "idle"
  /\ ~(running /\ current = p)
  /\ CanStart(p)
  /\ job' = [job EXCEPT ![p] = "running"]
  /\ pending' = pending \cup {p}
  /\ Becomes(x, [Idle EXCEPT !.pc = "wiping", !.project = p])
  /\ UNCHANGED <<data, order, status, suspect, faults>>

(* vectors.deleteProjectChunks takes effect.                               *)
WipeVectors(x) ==
  LET p == walk[x].project IN
  /\ walk[x].pc = "wiping"
  /\ vecs' = [vecs EXCEPT ![p] = {}]
  /\ Becomes(x, [walk[x] EXCEPT !.pc = "wiped"])
  /\ UNCHANGED <<rows, chunks, pending, order, status, job, suspect, faults>>

(* Slip: the files rows stay.                                              *)
KeepsRows(p) == rows

PurgedRows(p) == [rows EXCEPT ![p] = {}]

(* purgeProjectContents in one transaction, then the walk begins.          *)
PurgeContents(x) ==
  LET p == walk[x].project IN
  /\ walk[x].pc = "wiped"
  /\ rows' = PurgedRows(p)
  /\ chunks' = [chunks EXCEPT ![p] = {}]
  /\ Becomes(x, [walk[x] EXCEPT !.pc = "walking", !.left = File])
  /\ suspect' = IF \E y \in On(p) : walk[y].pc = "writing" THEN suspect \cup {p}
                ELSE suspect \ {p}
  /\ UNCHANGED <<vecs, pending, order, status, job, faults>>

-----------------------------------------------------------------------------
(* indexProject                                                            *)

Skips(x, f) == [walk[x] EXCEPT !.left = @ \ {f}]

(* The file is unchanged, or its embedding begins.                         *)
Look(x, f) ==
  /\ walk[x].pc = "walking" /\ f \in walk[x].left
  /\ IF f \in rows[walk[x].project] THEN Becomes(x, Skips(x, f))
     ELSE Becomes(x, [walk[x] EXCEPT !.pc = "embedding", !.file = f])
  /\ UNCHANGED <<data, pending, order, status, job, suspect, faults>>

(* The file cannot be read: its row says so, and the walk goes on.         *)
ReadFails(x, f) ==
  LET p == walk[x].project IN
  /\ walk[x].pc = "walking" /\ f \in walk[x].left
  /\ Fault
  /\ rows' = [rows EXCEPT ![p] = @ \ {f}]
  /\ Becomes(x, Skips(x, f))
  /\ UNCHANGED <<chunks, vecs, pending, order, status, job, suspect>>

(* The critical section of the file opens; one walk at a time is in it.    *)
WriteChunks(x) ==
  LET p == walk[x].project
      f == walk[x].file IN
  /\ walk[x].pc = "embedding"
  /\ \A y \in On(p) : ~(walk[y].pc = "writing" /\ walk[y].file = f)
  /\ chunks' = [chunks EXCEPT ![p] = @ \cup {f}]
  /\ Becomes(x, [walk[x] EXCEPT !.pc = "writing"])
  /\ UNCHANGED <<rows, vecs, pending, order, status, job, suspect, faults>>

(* The vectors and then the row.  No vector write ends between the wipe of *)
(* a rebuild and its purge: the writer mutex hands over only then.         *)
CommitFile(x) ==
  LET p == walk[x].project
      f == walk[x].file IN
  /\ walk[x].pc = "writing"
  /\ \A y \in Rebuild : walk[y].pc # "wiped"
  /\ vecs' = [vecs EXCEPT ![p] = @ \cup {f}]
  /\ rows' = [rows EXCEPT ![p] = @ \cup {f}]
  /\ Becomes(x, [Skips(x, f) EXCEPT !.pc = "walking", !.file = None])
  /\ UNCHANGED <<chunks, pending, order, status, job, suspect, faults>>

(* Slip: only the rebuild itself clears the marker.                        *)
StampsOnly(x, p) ==
  /\ x \in Walker /\ p = walk[x].project
  /\ walk[x].pc = "walking" /\ walk[x].left = {}
  /\ pending' = IF x \in Rebuild THEN pending \ {p} ELSE pending

(* Every file was tried: the project is stamped, its marker cleared.       *)
Stamps(x, p) ==
  /\ x \in Walker /\ p = walk[x].project
  /\ walk[x].pc = "walking" /\ walk[x].left = {}
  /\ pending' = pending \ {p}

JobAfter(x, s) == IF x \in Rebuild THEN [job EXCEPT ![walk[x].project] = s] ELSE job

EndOfWalk(x) ==
  /\ Stamps(x, walk[x].project)
  /\ Becomes(x, IF x \in Rebuild THEN Idle ELSE [Idle EXCEPT !.pc = "next", !.todo = walk[x].todo])
  /\ job' = JobAfter(x, "done")
  /\ UNCHANGED <<data, order, status, suspect, faults>>

(* The embedder or a store rejects: the whole pass does, or the rebuild.   *)
PassFails(x) ==
  /\ walk[x].pc \in {"wiping", "wiped", "embedding", "writing"}
  /\ Fault
  /\ Becomes(x, Idle)
  /\ job' = JobAfter(x, "failed")
  /\ IF x \in Pass THEN EndOfPass ELSE UNCHANGED status
  /\ suspect' = IF walk[x].pc = "wiped" THEN suspect \cup {walk[x].project} ELSE suspect
  /\ UNCHANGED <<data, pending, order>>

(* The daemon is killed and starts again.                                  *)
Crash ==
  /\ Fault
  /\ walk' = [x \in Walker |-> Idle]
  /\ running' = FALSE /\ current' = None
  /\ job' = [p \in Project |-> "none"]
  /\ order' = PendingFirst(pending)
  /\ suspect' = suspect \cup {p \in Project : \E x \in Rebuild \cap On(p) : walk[x].pc = "wiped"}
  /\ UNCHANGED <<data, pending>>

-----------------------------------------------------------------------------
Walking(x) ==
  \/ \E f \in File : Look(x, f) \/ ReadFails(x, f)
  \/ WriteChunks(x) \/ CommitFile(x) \/ EndOfWalk(x)

Steps(x) ==
  \/ x \in Pass /\ (NextProject(x) \/ LastProject(x))
  \/ x \in Rebuild /\ (WipeVectors(x) \/ PurgeContents(x))
  \/ Walking(x)

Asks == \/ \E x \in Refresh : ApiRefresh(x)
        \/ \E x \in Rebuild, p \in Project : ApiRebuild(x, p)

Works == Tick \/ Asks \/ \E x \in Walker : Steps(x)

Next == Works \/ (\E x \in Walker : PassFails(x)) \/ Crash

(* No pass fails, but the daemon may crash.                                *)
CrashNext == Works \/ Crash

(* The loop's timer fires again and again, and a pass that runs goes on:   *)
(* the mutexes it waits for are first come, first served.                  *)
Fairness == WF_vars(Tick) /\ \A x \in Walker : SF_vars(Steps(x))

Spec == Init /\ [][Next]_vars
CrashSpec == Init /\ [][CrashNext]_vars
FairSpec == Spec /\ Fairness

-----------------------------------------------------------------------------
(* Types: the stores, the walks and the tracker.                         *)
TypeOK ==
  /\ {rows, chunks, vecs} \subseteq [Project -> SUBSET File]
  /\ pending \subseteq Project
  /\ walk \in [Walker -> Walks]
  /\ order \in Seq(Project)
  /\ running \in BOOLEAN
  /\ current \in Project \cup {None}
  /\ job \in [Project -> {"none", "running", "done", "failed"}]
  /\ suspect \subseteq Project
  /\ faults \in 0..MaxFaults

(* "wiping vectors twice would race the in-flight indexer": two rebuilds   *)
(* of one project never overlap, whatever fails or restarts.               *)
OneRebuild ==
  \A x, y \in Rebuild :
    walk[x].pc # "idle" /\ walk[y].pc # "idle" /\ x # y
    => walk[x].project # walk[y].project

(* A file whose row says up to date has its chunks and its vectors, so the *)
(* next pass may skip it.  The exceptions are a rebuild between its wipe   *)
(* and its purge, and the projects of suspect: a rebuild was cut off there,*)
(* or its purge came while another pass was writing a file.                *)
SkippedIsComplete ==
  \A p \in Project \ suspect :
    (\A x \in Rebuild \cap On(p) : walk[x].pc # "wiped")
    => rows[p] \subseteq chunks[p] \cap vecs[p]

(* A marker does not stay: when passes stop failing, the loop takes up     *)
(* what a rebuild left and clears it.  Its projects are those that were    *)
(* active at boot; another's marker waits for a refresh or a restart.      *)
MarkerResumed == \A p \in Project : p \in pending ~> p \notin pending

(* "a daemon crash mid-operation leaves a recoverable marker.  The next    *)
(* loctx start reads this and resumes the rebuild": when a reconcile       *)
(* clears it with no rebuild under way, what is skipped from then on has   *)
(* its vectors.                                                            *)
RebuildRecovers ==
  [][\A p \in pending : p \notin pending' /\ On(p) \cap Rebuild = {} =>
       rows[p] \subseteq vecs[p]]_vars
=============================================================================
