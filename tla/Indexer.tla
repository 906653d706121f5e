------------------------------ MODULE Indexer ------------------------------
(***************************************************************************)
(* ProjectIndexer (packages/core/src/indexing/indexer.ts) over its two     *)
(* stores: the SQLite state store, which owns the files row that marks a   *)
(* file as up to date, and the LanceDB vector store, a derived index.      *)
(*                                                                         *)
(* A call of indexFile or deleteFile runs synchronously up to its next     *)
(* await; one action below is the code between two awaits, or the effect   *)
(* of one LanceDB write.  Any number of calls are in flight, one per       *)
(* Caller: the watcher, the reconciler and the HTTP and MCP operations all *)
(* share one indexer.  A text stands for its sha256 and for the chunks and *)
(* vectors cut from it; two texts have two shas.                           *)
(***************************************************************************)
EXTENDS Naturals, Sequences

CONSTANTS
  File,         \* paths of one project; a file's id is a hash of its path
  Caller,       \* slots for calls in flight
  Text,         \* contents that decode as UTF-8 and yield at least one chunk
  Absent,       \* on disk: no such file
  Denied,       \* on disk: the file is there, reading it fails
  Blank,        \* on disk: not UTF-8, or no chunk comes out of it
  None          \* no row, no sha, no chunk

ASSUME ContentAssumption ==
  /\ {Absent, Denied, Blank, None} \cap Text = {}
  /\ Absent # Denied /\ Absent # Blank /\ Denied # Blank

VARIABLES
  disk,         \* what a read of the file returns
  rows,         \* files: the commit marker, [sha, error] or None
  chunks,       \* chunks, chunks_fts, symbol_refs: the text they were cut from
  vecs,         \* LanceDB: the texts whose vectors are stored under the path
  call,         \* per caller: where its call awaits, the file and text it holds
  chain,        \* PerKeyMutex: the calls queued on a file, the holder first
  vecQ,         \* AsyncMutex of the vector store: queued writes, first running
  raced,        \* history: calls that a write of the other kind overlapped
  suspect       \* history: files that a broken-off or overlapped write left

vars == <<disk, rows, chunks, vecs, call, chain, vecQ, raced, suspect>>
stores == <<rows, chunks, vecs>>
history == <<raced, suspect>>

DiskState == Text \cup {Absent, Denied, Blank}
Row == [sha : Text \cup {None}, error : BOOLEAN]

ASSUME RowAssumption == None \notin Row

(* From replaceChunks to upsertFile a call is in the critical section.     *)
Critical == {"clearing", "cleared", "upserting", "upserted"}
Deleting == {"deleting", "vecGone"}
PC == {"idle", "embedding", "queued"} \cup Critical \cup Deleting

Call == [pc : PC, file : File \cup {None}, text : Text \cup {None}]
Idle == [pc |-> "idle", file |-> None, text |-> None]

Persisting(f) == {c \in Caller : call[c].pc \in Critical /\ call[c].file = f}
Removing(f) == {c \in Caller : call[c].pc \in Deleting /\ call[c].file = f}

Init ==
  /\ disk \in [File -> DiskState]
  /\ rows = [f \in File |-> None]
  /\ chunks = [f \in File |-> None]
  /\ vecs = [f \in File |-> {}]
  /\ call = [c \in Caller |-> Idle]
  /\ chain = [f \in File |-> <<>>]
  /\ vecQ = <<>>
  /\ raced = {}
  /\ suspect = {}

MovesTo(c, p) == call' = [call EXCEPT ![c].pc = p]
Starts(c, p, f, t) == call' = [call EXCEPT ![c] = [pc |-> p, file |-> f, text |-> t]]
Ends(c) ==
  /\ call' = [call EXCEPT ![c] = Idle]
  /\ raced' = raced \ {c}

(* From here on the calls in others and c write the same file.             *)
Races(c, others) ==
  raced' = IF others = {} THEN raced ELSE raced \cup {c} \cup others

-----------------------------------------------------------------------------
(* indexFile up to its await of the embedder.  A filtered, undecodable,    *)
(* empty or unchanged file returns here and changes nothing.               *)

Unchanged(f, t) == rows[f] # None /\ ~rows[f].error /\ rows[f].sha = t

RecordReadError(f) ==
  /\ disk[f] \in {Absent, Denied}
  /\ rows' = [rows EXCEPT ![f] =
                [sha |-> IF @ = None THEN None ELSE @.sha, error |-> TRUE]]
  /\ UNCHANGED <<disk, chunks, vecs, call, chain, vecQ, history>>

IndexFile(c, f) ==
  /\ call[c].pc = "idle"
  /\ disk[f] \in Text
  /\ ~Unchanged(f, disk[f])
  /\ Starts(c, "embedding", f, disk[f])
  /\ UNCHANGED <<disk, stores, chain, vecQ, history>>

(* embedDocuments resolved and statSync found the file: ask for the mutex. *)
Embedded(c) ==
  LET f == call[c].file IN
  /\ call[c].pc = "embedding"
  /\ disk[f] # Absent
  /\ MovesTo(c, "queued")
  /\ chain' = [chain EXCEPT ![f] = Append(@, c)]
  /\ UNCHANGED <<disk, stores, vecQ, history>>

(* embedDocuments rejected, or statSync threw because the file is gone.    *)
EmbedRejects(c) ==
  /\ call[c].pc = "embedding"
  /\ Ends(c)
  /\ UNCHANGED <<disk, stores, chain, vecQ, suspect>>

(* Slip: any waiter may enter, not only the head of the chain.             *)
HoldsAnyTurn(c) == chain[call[c].file] # <<>>

Holds(c) == LET f == call[c].file IN chain[f] # <<>> /\ Head(chain[f]) = c

(* Slip: the chain does not move on.                                       *)
ReleaseForgotten(f) == chain

Release(f) == [chain EXCEPT ![f] = Tail(@)]

(* The critical section opens: replaceChunks commits its transaction and   *)
(* vectors.deleteFileChunks queues its write.                              *)
ReplaceChunks(c) ==
  LET f == call[c].file IN
  /\ call[c].pc = "queued" /\ Holds(c)
  /\ chunks' = [chunks EXCEPT ![f] = call[c].text]
  /\ MovesTo(c, "clearing")
  /\ Races(c, Removing(f))
  /\ vecQ' = Append(vecQ, c)
  /\ UNCHANGED <<disk, rows, vecs, chain, suspect>>

Running(c) == vecQ # <<>> /\ Head(vecQ) = c

(* Slip: the old vectors of the path stay.                                 *)
VectorsKept(f) == vecs

VectorsCleared(f) == [vecs EXCEPT ![f] = {}]

(* The running LanceDB write takes effect; its caller is not resumed yet.  *)
VectorWrite(c) ==
  LET f == call[c].file IN
  /\ Running(c)
  /\ \/ /\ call[c].pc = "clearing"
        /\ vecs' = VectorsCleared(f)
        /\ MovesTo(c, "cleared")
     \/ /\ call[c].pc = "upserting"
        /\ vecs' = [vecs EXCEPT ![f] = @ \cup {call[c].text}]
        /\ MovesTo(c, "upserted")
     \/ /\ call[c].pc = "deleting"
        /\ vecs' = VectorsCleared(f)
        /\ MovesTo(c, "vecGone")
  /\ UNCHANGED <<disk, rows, chunks, chain, vecQ, history>>

(* deleteFileChunks resolved: upsertChunks queues its write.               *)
Cleared(c) ==
  /\ call[c].pc = "cleared" /\ Running(c)
  /\ MovesTo(c, "upserting")
  /\ vecQ' = Append(Tail(vecQ), c)
  /\ UNCHANGED <<disk, stores, chain, history>>

(* Slip: the row is stamped from a second look at the disk.                *)
StampRereads(c) == [sha |-> disk[call[c].file], error |-> FALSE]

Stamp(c) == [sha |-> call[c].text, error |-> FALSE]

(* upsertChunks resolved: upsertFile stamps the row, the mutex is released.*)
UpsertFile(c) ==
  LET f == call[c].file IN
  /\ call[c].pc = "upserted" /\ Running(c)
  /\ rows' = [rows EXCEPT ![f] = Stamp(c)]
  /\ Ends(c)
  /\ vecQ' = Tail(vecQ)
  /\ chain' = Release(f)
  /\ suspect' = IF c \notin raced THEN suspect \ {f} ELSE suspect \cup {f}
  /\ UNCHANGED <<disk, chunks, vecs>>

-----------------------------------------------------------------------------
(* deleteFile: the vectors first, then the SQLite rows; no mutex is taken. *)

DeleteFile(c, f) ==
  /\ call[c].pc = "idle"
  /\ Starts(c, "deleting", f, None)
  /\ Races(c, Persisting(f))
  /\ vecQ' = Append(vecQ, c)
  /\ UNCHANGED <<disk, stores, chain, suspect>>

(* Slip: only the files row goes.                                          *)
NoCascade(f) == chunks

(* state.deleteFile returns early when there is no files row, else it      *)
(* takes the chunks, FTS and symbol rows along.                            *)
Cascade(f) == IF rows[f] = None THEN chunks ELSE [chunks EXCEPT ![f] = None]

DeleteRows(c) ==
  LET f == call[c].file IN
  /\ call[c].pc = "vecGone" /\ Running(c)
  /\ chunks' = Cascade(f)
  /\ rows' = [rows EXCEPT ![f] = None]
  /\ Ends(c)
  /\ vecQ' = Tail(vecQ)
  /\ suspect' = IF c \in raced THEN suspect \cup {f}
                ELSE IF rows[f] = None THEN suspect ELSE suspect \ {f}
  /\ UNCHANGED <<disk, vecs, chain>>

-----------------------------------------------------------------------------
(* A store write fails: the call rejects and both queues move on.          *)

ChunksReject(c) ==
  LET f == call[c].file IN
  /\ call[c].pc = "queued" /\ Holds(c)
  /\ Ends(c)
  /\ chain' = Release(f)
  /\ UNCHANGED <<disk, stores, vecQ, suspect>>

PersistRejects(c) ==
  LET f == call[c].file IN
  /\ call[c].pc \in {"clearing", "upserting", "upserted"} /\ Running(c)
  /\ Ends(c)
  /\ vecQ' = Tail(vecQ)
  /\ chain' = Release(f)
  /\ suspect' = suspect \cup {f}
  /\ UNCHANGED <<disk, stores>>

DeleteRejects(c) ==
  LET f == call[c].file IN
  /\ call[c].pc \in Deleting /\ Running(c)
  /\ Ends(c)
  /\ vecQ' = Tail(vecQ)
  /\ suspect' = IF call[c].pc = "vecGone" THEN suspect \cup {f} ELSE suspect
  /\ UNCHANGED <<disk, stores, chain>>

(* The process dies: the stores keep what was written, the calls are gone. *)
Crash ==
  /\ \E c \in Caller : call[c].pc # "idle"
  /\ call' = [c \in Caller |-> Idle]
  /\ chain' = [f \in File |-> <<>>]
  /\ vecQ' = <<>>
  /\ raced' = {}
  /\ suspect' = suspect \cup
       {f \in File : \E c \in Persisting(f) \cup Removing(f) : call[c].pc # "deleting"}
  /\ UNCHANGED <<disk, stores>>

(* Anyone edits, creates, removes or locks a file of the project.          *)
Edit(f) ==
  /\ \E d \in DiskState \ {disk[f]} : disk' = [disk EXCEPT ![f] = d]
  /\ UNCHANGED <<stores, call, chain, vecQ, history>>

-----------------------------------------------------------------------------
Persist(c) ==
  Embedded(c) \/ ReplaceChunks(c) \/ Cleared(c) \/ UpsertFile(c)

Rejects(c) ==
  EmbedRejects(c) \/ ChunksReject(c) \/ PersistRejects(c) \/ DeleteRejects(c)

(* What the runtime does for a call that has started.                      *)
Resume(c) == Persist(c) \/ VectorWrite(c) \/ DeleteRows(c) \/ Rejects(c)

Next ==
  \/ \E c \in Caller, f \in File : IndexFile(c, f) \/ DeleteFile(c, f)
  \/ \E c \in Caller : Resume(c)
  \/ \E f \in File : RecordReadError(f) \/ Edit(f)
  \/ Crash

(* Promises settle and the event loop runs their continuations; nobody has *)
(* to start a call, edit a file or crash.                                  *)
Fairness == \A c \in Caller : WF_vars(Resume(c))

Spec == Init /\ [][Next]_vars
FairSpec == Spec /\ Fairness

(* The calls alone: no write fails and nobody crashes.                     *)
FaultlessNext ==
  \/ \E c \in Caller, f \in File : IndexFile(c, f) \/ DeleteFile(c, f)
  \/ \E c \in Caller : Persist(c) \/ VectorWrite(c) \/ DeleteRows(c)
  \/ \E f \in File : Edit(f)

FaultlessSpec == Init /\ [][FaultlessNext]_vars

-----------------------------------------------------------------------------
(* Types: the disk, the two stores, the calls and the two mutexes.       *)
TypeOK ==
  /\ disk \in [File -> DiskState]
  /\ rows \in [File -> Row \cup {None}]
  /\ chunks \in [File -> Text \cup {None}]
  /\ vecs \in [File -> SUBSET Text]
  /\ call \in [Caller -> Call]
  /\ chain \in [File -> Seq(Caller)]
  /\ vecQ \in Seq(Caller)
  /\ raced \subseteq Caller
  /\ suspect \subseteq File

(* No two calls write the same file's chunks, vectors and row at once: the *)
(* PerKeyMutex of persist, across failing calls and crashes.               *)
OneWriter ==
  \A c, d \in Caller :
    /\ c # d
    /\ call[c].pc \in Critical
    /\ call[d].pc \in Critical
    => call[c].file # call[d].file

(* A semantic search never sees vectors of two generations of a file, not  *)
(* even after crashes, failed writes and deletes that overlap a persist.   *)
OneGeneration ==
  \A f \in File : \A s, t \in vecs[f] : s = t

Sha(f) == IF rows[f] = None THEN None ELSE rows[f].sha
Settled(f) == Persisting(f) = {} /\ \A c \in Removing(f) : call[c].pc = "deleting"

(* What the files row says is what both stores hold: a file nobody is      *)
(* writing has exactly the chunks and vectors of its row's sha, and none   *)
(* without a sha.  The exceptions are the files of suspect, which says     *)
(* exactly what breaks the commit marker: a critical section or a delete   *)
(* cut off between two writes, or a delete that overlapped a persist.      *)
StoresAgree ==
  \A f \in File \ suspect : Settled(f) =>
    /\ chunks[f] = Sha(f)
    /\ vecs[f] = (IF Sha(f) = None THEN {} ELSE {Sha(f)})

(* The same without the exceptions: what isUnchanged takes for up to date, *)
(* is.  indexer.ts calls the row the marker that a future reconciler uses  *)
(* to decide the file is up to date.                                       *)
UpToDateIsTrue ==
  \A f \in File : Settled(f) /\ Unchanged(f, disk[f]) =>
    chunks[f] = disk[f] /\ vecs[f] = {disk[f]}

(* Every call that starts comes to an end: a failing holder of a queue     *)
(* never blocks the calls behind it.                                       *)
CallsEnd == \A c \in Caller : call[c].pc # "idle" ~> call[c].pc = "idle"
=============================================================================
