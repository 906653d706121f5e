-------------------------- MODULE EnrichmentQueue --------------------------
(***************************************************************************)
(* The background analyzer queue (packages/core/src/analyzers/queue.ts)    *)
(* with its users in container.ts: the indexer's afterFileIndexed hook and *)
(* the backfill feed it, the onResult sink stores what comes out in        *)
(* file_enrichments and re-runs quality when lizard's result lands.        *)
(*                                                                         *)
(* An action is what runs between two awaits: a batch of enqueue calls and *)
(* the drain they trigger, a runner's look at the index, runTask from its  *)
(* await to its end, and the finally that frees the slot.                  *)
(***************************************************************************)
EXTENDS Naturals, Sequences, FiniteSets, SequencesExt, Absence

CONSTANTS
  File,         \* indexed files
  Sha,          \* their content hashes
  ANALYZERS,    \* the active analyzers, in the order they are enqueued
  Lizard,       \* the analyzer whose result quality makes use of
  Quality,      \* the analyzer that runs again when that result lands
  Concurrency   \* the values analyzers.concurrency is set to

Analyzer == ToSet(ANALYZERS)

ASSUME AnalyzerAssumption ==
  /\ Lizard \in Analyzer /\ Quality \in Analyzer /\ Lizard # Quality
  /\ Concurrency \subseteq Nat \ {0} /\ Concurrency # {}
  /\ None \notin Sha
  /\ ANALYZERS \in Seq(Analyzer) /\ IsInjective(ANALYZERS)

ASSUME FileAssumption == IsFiniteSet(File)

VARIABLES
  files,        \* files.content_sha, None without a row
  results,      \* file_enrichments
  waiting,      \* tasks not started; their ids are the keys of enqueuedAt
  runs,         \* per task id, the run in flight
  seen,         \* dedup records: the sha an id last settled with
  late,         \* history: files whose degraded quality row nothing replaces
  concurrency   \* runners at a time, from the config when the process starts

vars == <<files, results, waiting, runs, seen, late, concurrency>>

(* analyzerTaskMeta: a task is named after its analyzer and file, the sha  *)
(* comes with it.                                                          *)
Id == Analyzer \X File
Task == [id : Id, sha : Sha]
TaskOf(a, f, s) == [id |-> <<a, f>>, sha |-> s]

Result == [sha : Sha, status : {"complete", "failed"}, full : BOOLEAN]

(* full: the runner saw a complete lizard row for the content it analyzes. *)
Run == [phase : {"idle", "started", "read", "settled"},
        sha : Sha \cup {None}, full : BOOLEAN]
NoRun == [phase |-> "idle", sha |-> None, full |-> FALSE]

Inflight(rs) == {i \in Id : rs[i].phase # "idle"}
Queued == {waiting[k].id : k \in DOMAIN waiting}

Init ==
  /\ files = [f \in File |-> None]
  /\ results = [i \in Id |-> None]
  /\ waiting = <<>>
  /\ runs = [i \in Id |-> NoRun]
  /\ seen = [i \in Id |-> None]
  /\ late = {}
  /\ concurrency \in Concurrency

-----------------------------------------------------------------------------
(* drain starts the oldest tasks while there are free slots.               *)
Startable(w, rs) ==
  LET free == concurrency - Cardinality(Inflight(rs))
  IN  IF free < Len(w) THEN free ELSE Len(w)

Drain(w, rs) ==
  LET n == Startable(w, rs) IN
  /\ waiting' = SubSeq(w, n + 1, Len(w))
  /\ runs' = [i \in Id |->
       IF \E k \in 1..n : w[k].id = i
       THEN LET t == CHOOSE t \in {w[k] : k \in 1..n} : t.id = i
            IN  [phase |-> "started", sha |-> t.sha, full |-> FALSE]
       ELSE rs[i]]

(* enqueue turns a task away whose id settled with the same sha, is        *)
(* waiting or is in flight, the last two whatever the sha.                 *)
New(t, sn) ==
  /\ sn[t.id] # t.sha
  /\ t.id \notin Queued
  /\ t.id \notin Inflight(runs)

(* enqueue of several tasks, one after the other, with sn for the dedup    *)
(* records: none is turned away for another, and one drain at the end      *)
(* starts what the drain in each enqueue starts.                           *)
Fresh(ts, sn) ==
  LET added[k \in 0..Len(ts)] ==
        IF k = 0 THEN <<>>
        ELSE IF New(ts[k], sn) THEN Append(added[k - 1], ts[k]) ELSE added[k - 1]
  IN  added[Len(ts)]

Enqueue(ts, sn) == Drain(waiting \o Fresh(ts, sn), runs)

(* The indexer stamps the row of a file and calls afterFileIndexed; the    *)
(* queue looks at nothing but the sha it is handed.                        *)
FileIndexed(f, s) ==
  /\ files' = [files EXCEPT ![f] = s]
  /\ Enqueue([k \in DOMAIN ANALYZERS |-> TaskOf(ANALYZERS[k], f, s)], seen)
  /\ UNCHANGED <<results, seen, late, concurrency>>

FileDeleted(f) ==
  /\ files[f] # None
  /\ files' = [files EXCEPT ![f] = None]
  /\ UNCHANGED <<results, waiting, runs, seen, late, concurrency>>

(* list_files_missing_enrichment                                           *)
Missing(a) ==
  {f \in File : files[f] # None /\
     (results[<<a, f>>] # None =>
        ~(results[<<a, f>>].sha = files[f] /\ results[<<a, f>>].status = "complete"))}

(* One round of backfillAnalyzers: an analyzer over the files it lacks.    *)
Backfill(a) ==
  /\ Missing(a) # {}
  /\ LET fs == SetToSeq(Missing(a))
     IN  Enqueue([k \in DOMAIN fs |-> TaskOf(a, fs[k], files[fs[k]])], seen)
  /\ UNCHANGED <<files, results, seen, late, concurrency>>

-----------------------------------------------------------------------------
(* The runner reads the file; quality's then looks up lizard's row.        *)
Reads(i) ==
  LET l == results[<<Lizard, i[2]>>]
      full == /\ i[1] = Quality /\ l # None
              /\ l.status = "complete" /\ l.sha = runs[i].sha
  IN
  /\ runs[i].phase = "started"
  /\ runs' = [runs EXCEPT ![i] = [phase |-> "read", sha |-> @.sha, full |-> full]]
  /\ UNCHANGED <<files, results, waiting, seen, late, concurrency>>

Settled(i) == [runs EXCEPT ![i].phase = "settled"]

(* Slip: quality is not marked as stale, so the re-run is turned away.     *)
KeepsQuality(i) == [seen EXCEPT ![i] = runs[i].sha]

(* lizard has settled, and the sink invalidates quality's record.          *)
SeenAfter(i) ==
  [seen EXCEPT ![i] = runs[i].sha, ![<<Quality, i[2]>>] = None]

Row(i, status) == [sha |-> runs[i].sha, status |-> status, full |-> runs[i].full]

(* runTask goes on after a success, and the sink stores it.  Of all        *)
(* analyzers only lizard has an effect on another: quality runs again.     *)
Completes(i) ==
  LET f == i[2]
      again == <<TaskOf(Quality, f, runs[i].sha)>>
  IN
  /\ runs[i].phase = "read"
  /\ results' = [results EXCEPT ![i] = Row(i, "complete")]
  /\ IF i[1] = Lizard
     THEN /\ seen' = SeenAfter(i)
          /\ Drain(waiting \o Fresh(again, SeenAfter(i)), Settled(i))
          /\ late' = IF <<Quality, f>> \in Inflight(runs) THEN late \cup {f} ELSE late
     ELSE /\ seen' = [seen EXCEPT ![i] = runs[i].sha]
          /\ runs' = Settled(i)
          /\ late' = IF i[1] = Quality /\ runs[i].full THEN late \ {f} ELSE late
          /\ UNCHANGED waiting
  /\ UNCHANGED <<files, concurrency>>

(* The runner rejects or runs out of time: the failure is stored.          *)
Fails(i) ==
  /\ runs[i].phase \in {"started", "read"}
  /\ results' = [results EXCEPT ![i] = Row(i, "failed")]
  /\ seen' = [seen EXCEPT ![i] = runs[i].sha]
  /\ runs' = Settled(i)
  /\ UNCHANGED <<files, waiting, late, concurrency>>

(* upsertFileEnrichment throws: the sink stops there, the queue logs it.   *)
SinkThrows(i) ==
  /\ runs[i].phase \in {"started", "read"}
  /\ seen' = [seen EXCEPT ![i] = runs[i].sha]
  /\ runs' = Settled(i)
  /\ late' = IF i[1] = Quality THEN late \cup {i[2]} ELSE late
  /\ UNCHANGED <<files, results, waiting, concurrency>>

(* Slip: the slot is freed without another drain pass.                     *)
FreesOnly(i) == waiting' = waiting /\ runs' = [runs EXCEPT ![i] = NoRun]

FreesSlot(i) == Drain(waiting, [runs EXCEPT ![i] = NoRun])

(* The finally of runTask.                                                 *)
Finishes(i) ==
  /\ runs[i].phase = "settled"
  /\ FreesSlot(i)
  /\ UNCHANGED <<files, results, seen, late, concurrency>>

(* The daemon is killed and starts again: the queue was in memory, and the *)
(* config may have been edited.                                            *)
Restart ==
  /\ waiting' = <<>>
  /\ runs' = [i \in Id |-> NoRun]
  /\ seen' = [i \in Id |-> None]
  /\ late' = late \cup {f \in File : <<Quality, f>> \in Queued \cup Inflight(runs)}
  /\ concurrency' \in Concurrency
  /\ UNCHANGED <<files, results>>

-----------------------------------------------------------------------------
Settles(i) == Completes(i) \/ Fails(i) \/ SinkThrows(i)

Works(i) == Reads(i) \/ Settles(i) \/ Finishes(i)

Uses ==
  \/ \E f \in File, s \in Sha : FileIndexed(f, s)
  \/ \E f \in File : FileDeleted(f)
  \/ \E a \in Analyzer : Backfill(a)

Next == Uses \/ Restart \/ \E i \in Id : Works(i)

(* withTimeout settles every run, and the event loop then resumes it.      *)
Fairness == \A i \in Id : WF_vars(Works(i))

Spec == Init /\ [][Next]_vars
FairSpec == Spec /\ Fairness

-----------------------------------------------------------------------------
(* Types: the queue, its runs and the rows it left.                      *)
TypeOK ==
  /\ files \in [File -> Sha \cup {None}]
  /\ results \in [Id -> Result \cup {None}]
  /\ waiting \in Seq(Task)
  /\ runs \in [Id -> Run]
  /\ seen \in [Id -> Sha \cup {None}]
  /\ late \subseteq File
  /\ concurrency \in Concurrency

(* A task id is outstanding at most once: never two runs of one analyzer   *)
(* on one file at a time, nor a run and a waiting task, although settling  *)
(* clears the dedup record before the slot is free.                        *)
OutstandingOnce ==
  /\ \A j, k \in DOMAIN waiting : waiting[j].id = waiting[k].id => j = k
  /\ Queued \cap Inflight(runs) = {}

(* The cap holds, and no slot stays free while a task waits: a drain pass  *)
(* is never lost to the draining flag, a throwing sink or an enqueue from  *)
(* inside the sink.                                                        *)
WorkConserving ==
  /\ Cardinality(Inflight(runs)) <= concurrency
  /\ waiting # <<>> => Cardinality(Inflight(runs)) = concurrency

(* "The container re-enqueues quality once lizard's result lands, so the   *)
(* degraded pass upgrades instead of being cached until the next edit",    *)
(* but for the race that container.ts accepts, a throwing sink, and a      *)
(* restart while that pass waits or runs.                                  *)
DegradedUpgrades ==
  \A f \in File : LET l == results[<<Lizard, f>>]
                      q == results[<<Quality, f>>] IN
    /\ l # None /\ l.status = "complete"
    /\ q # None /\ q.status = "complete"
    /\ l.sha = q.sha /\ ~q.full
    => <<Quality, f>> \in Queued \cup Inflight(runs) \/ f \in late

(* The queue's safety: a task is outstanding once, no slot stays free while*)
(* a task waits, and a degraded result is replaced or counted in late.     *)
QueueIsSound == TypeOK /\ OutstandingOnce /\ WorkConserving /\ DegradedUpgrades

(* Every task that waits is settled: FIFO order, the cap, timeouts and     *)
(* failing sinks never strand one.                                         *)
HasSettled(i) == i \notin Queued /\ runs[i].phase \in {"idle", "settled"}

EveryTaskSettles == \A i \in Id : i \in Queued ~> HasSettled(i)
=============================================================================
