----------------------------- MODULE StateStore -----------------------------
(***************************************************************************)
(* The tables of the state store (packages/core/src/storage/state.ts and   *)
(* sql/state.sql) under the operations that fill and empty them: passes,   *)
(* deletes, rebuilds and the purge of a project, for the files of one      *)
(* project.                                                                *)
(*                                                                         *)
(* Each action is one transaction or one statement.  A persist has several:*)
(* between the first and the stamp are the vector writes, and everything   *)
(* else may come in there; between the stamp and the links comes only what *)
(* cuts the persist off.                                                   *)
(***************************************************************************)
EXTENDS Naturals, FiniteSets, Absence

CONSTANTS
  RelPath,      \* the project's paths; a file_id is made of project and path
  Text,         \* contents: sets of pieces [line, symbol]
  LinksOf(_)    \* the files a content links to

(* A file's row: the content it is stamped with, if any, and error.        *)
FileRow == [sha : Text \cup {None}, error : BOOLEAN]

ASSUME TablesAssumption ==
  /\ IsFiniteSet(RelPath)
  /\ None \notin Text /\ None \notin FileRow /\ None \notin {"active", "inactive"}

VARIABLES
  project,      \* the projects row: "active", "inactive" or None
  fileRow,      \* the files rows
  chunks,       \* chunk ids: file and first line
  fts,          \* chunks_fts: a piece under its chunk id
  refs,         \* symbol_refs: likewise
  links,        \* file_links: from a file to a path
  persist,      \* per file, the content a persist is about to stamp
  pass,         \* a pass over the project is under way
  torn,         \* history: files whose last persist has not been stamped
  raced,        \* history: a purge of the project met a pass
  unlinked      \* history: files whose links are those of an earlier stamp

tables == <<chunks, fts, refs>>
tableHistory == <<torn, raced, unlinked>>
tableVars == <<project, fileRow, tables, links, persist, pass, tableHistory>>

(* The tables of a migrated store without projects.                        *)
TablesInit ==
  /\ project = None
  /\ fileRow = [f \in RelPath |-> None]
  /\ chunks = {} /\ fts = {} /\ refs = {} /\ links = {}
  /\ persist = [f \in RelPath |-> None]
  /\ pass = FALSE
  /\ torn = {} /\ raced = FALSE /\ unlinked = {}

ChunkId(f, p) == <<f, p.line>>
Pieces(f, t) == {[chunk |-> ChunkId(f, p), piece |-> p] : p \in t}
Of(rs, f) == {r \in rs : r.chunk[1] = f}
Indexed == {f \in RelPath : fileRow[f] # None}

-----------------------------------------------------------------------------
(* upsert_project_active, whether or not there is a row.                   *)
UpsertProjectWithActive == project' = "active"

(* A pass: it makes sure of the row, and then goes over the files.         *)
PassBegins ==
  /\ ~pass /\ pass' = TRUE
  /\ UpsertProjectWithActive
  /\ UNCHANGED <<fileRow, tables, links, persist, tableHistory>>

PassEnds ==
  /\ pass /\ pass' = FALSE
  /\ \A f \in RelPath : persist[f] = None
  /\ UNCHANGED <<project, fileRow, tables, links, persist, tableHistory>>

SetProjectInactive ==
  /\ project # None
  /\ project' = "inactive"
  /\ UNCHANGED <<fileRow, tables, links, persist, pass, tableHistory>>

RefsReplaced(f, t) == (refs \ Of(refs, f)) \cup Pieces(f, t)

(* The first write of a persist.  Chunk ids are a primary key, and of      *)
(* several pieces on a line only the first makes a row; chunks_fts and     *)
(* symbol_refs have no key and take them all.                              *)
ReplaceChunks(f, t) ==
  /\ pass /\ persist[f] = None
  /\ chunks' = {c \in chunks : c[1] # f} \cup {ChunkId(f, p) : p \in t}
  /\ fts' = (fts \ Of(fts, f)) \cup Pieces(f, t)
  /\ refs' = RefsReplaced(f, t)
  /\ persist' = [persist EXCEPT ![f] = t]
  /\ torn' = torn \cup {f}
  /\ UNCHANGED <<project, fileRow, links, pass, raced, unlinked>>

ReplaceFileLinks(f, t) == {l \in links : l[1] # f} \cup ({f} \X LinksOf(t))

(* The vectors are written: upsertFile, a statement of its own.            *)
Stamps(f) ==
  /\ persist[f] # None
  /\ fileRow' = [fileRow EXCEPT ![f] = [sha |-> persist[f], error |-> FALSE]]
  /\ persist' = [persist EXCEPT ![f] = None]
  /\ torn' = IF Of(fts, f) = Pieces(f, persist[f]) THEN torn \ {f} ELSE torn
  /\ UNCHANGED <<project, tables, pass, raced>>

(* And then replaceFileLinks, in the same turn; file_links refers to files.*)
UpsertFile(f) ==
  /\ Stamps(f)
  /\ links' = ReplaceFileLinks(f, persist[f])
  /\ unlinked' = unlinked \ {f}

(* replaceFileLinks throws, or the process is killed before it: the stamp  *)
(* stands, and no pass looks at the file again.  Where the links would not *)
(* change it is as if they had been recorded.                              *)
LinksCutOff(f) ==
  /\ Stamps(f) /\ links # ReplaceFileLinks(f, persist[f])
  /\ unlinked' = unlinked \cup {f}
  /\ UNCHANGED links

(* A vector write rejects.                                                 *)
PersistRejects(f) ==
  /\ persist[f] # None
  /\ persist' = [persist EXCEPT ![f] = None]
  /\ UNCHANGED <<project, fileRow, tables, links, pass, tableHistory>>

(* The daemon dies.                                                        *)
Crash ==
  /\ pass /\ pass' = FALSE
  /\ persist' = [f \in RelPath |-> None]
  /\ UNCHANGED <<project, fileRow, tables, links, tableHistory>>

(* recordReadError keeps what it knows of the file.                        *)
RecordReadError(f) ==
  /\ pass /\ persist[f] = None
  /\ fileRow' = [fileRow EXCEPT ![f] = [sha |-> IF @ = None THEN None ELSE @.sha, error |-> TRUE]]
  /\ UNCHANGED <<project, tables, links, persist, pass, tableHistory>>

-----------------------------------------------------------------------------
(* Slip: chunks_fts is left to the next replaceChunks.                     *)
FtsKept(f) == fts

FtsCleared(f) == fts \ Of(fts, f)

(* Without a row the file_id is lost and nothing is done; the links go     *)
(* with the row, which they refer to ON DELETE CASCADE.                    *)
DeleteFile(f) ==
  /\ fileRow[f] # None
  /\ fts' = FtsCleared(f)
  /\ chunks' = {c \in chunks : c[1] # f}
  /\ refs' = refs \ Of(refs, f)
  /\ fileRow' = [fileRow EXCEPT ![f] = None]
  /\ links' = {l \in links : l[1] # f}
  /\ torn' = IF persist[f] = None THEN torn \ {f} ELSE torn
  /\ unlinked' = unlinked \ {f}
  /\ UNCHANGED <<project, persist, pass, raced>>

(* The statements that the purge of a project and a rebuild share.  The    *)
(* chunks and links are found by the files rows; chunks_fts and            *)
(* symbol_refs have the project in their rows.                             *)
ClearContents ==
  /\ fts' = {} /\ refs' = {}
  /\ chunks' = {c \in chunks : c[1] \notin Indexed}
  /\ links' = {l \in links : l[1] \notin Indexed}
  /\ fileRow' = [f \in RelPath |-> None]
  /\ torn' = {c[1] : c \in chunks'} \cup {f \in RelPath : persist[f] # None}
  /\ unlinked' = {}

PurgeTables == ClearContents

(* deleteProject; nobody asks whether a pass is under way.                 *)
DeleteProject ==
  /\ PurgeTables
  /\ project' = None
  /\ raced' = (raced \/ pass)
  /\ UNCHANGED <<persist, pass>>

(* A rebuild: the row is marked, its contents go, a pass begins; a crash   *)
(* may come before the pass is through.                                    *)
PurgeProjectContents ==
  /\ ~pass /\ pass' = TRUE
  /\ UpsertProjectWithActive
  /\ PurgeTables
  /\ UNCHANGED <<persist, raced>>

-----------------------------------------------------------------------------
(* find_symbol_in_project: a ref, joined with the files, chunks and        *)
(* chunks_fts rows.                                                        *)
FindSymbol(s) ==
  {h \in refs \X fts :
     /\ h[1].piece.symbol = s
     /\ fileRow[h[1].chunk[1]] # None
     /\ h[1].chunk \in chunks /\ h[2].chunk = h[1].chunk}

(* search_lexical joins chunks only, find_literal_matches the files        *)
(* without an error and the project as well.                               *)
SearchLexical == {x \in fts : x.chunk \in chunks}

FindLiteralMatches ==
  {x \in SearchLexical :
     /\ fileRow[x.chunk[1]] # None /\ ~fileRow[x.chunk[1]].error
     /\ project # None}

(* COUNT(DISTINCT from_file_id)                                            *)
Inbound(f) == {l[1] : l \in {k \in links : k[2] = f}}
InboundCount(f) == Cardinality(Inbound(f))

-----------------------------------------------------------------------------
TablesNext ==
  \/ PassBegins \/ PassEnds \/ SetProjectInactive \/ Crash
  \/ DeleteProject \/ PurgeProjectContents
  \/ \E f \in RelPath :
       \/ UpsertFile(f) \/ LinksCutOff(f) \/ PersistRejects(f) \/ RecordReadError(f) \/ DeleteFile(f)
       \/ \E t \in Text : ReplaceChunks(f, t)

TablesSpec == TablesInit /\ [][TablesNext]_tableVars

-----------------------------------------------------------------------------
(* What is found is what was written: the joins of the lexical search, the *)
(* literal search and find_usages lose no row of a file that is stamped    *)
(* without error, and what they find is of the content it is stamped with. *)
NothingLostInJoins ==
  \A f \in Indexed \ torn :
    fileRow[f].sha # None =>
      /\ Of(SearchLexical, f) = Pieces(f, fileRow[f].sha)
      /\ {r \in refs : \E h \in FindSymbol(r.piece.symbol) : h[1] = r /\ r.chunk[1] = f} =
           Pieces(f, fileRow[f].sha)
      /\ project # None /\ ~fileRow[f].error =>
           Of(FindLiteralMatches, f) = Pieces(f, fileRow[f].sha)

(* "orphaned chunk and FTS rows that no later replaceChunks call could     *)
(* clean up": a search finds no text and a symbol lookup no definition of  *)
(* a file without a row, but for a persist that broke off before its stamp.*)
NoOrphans ==
  \A f \in RelPath \ (Indexed \cup torn) :
    /\ Of(fts, f) = {} /\ Of(refs, f) = {}
    /\ \A c \in chunks : c[1] # f

Linking(f) == {g \in Indexed : fileRow[g].sha # None /\ f \in LinksOf(fileRow[g].sha)}

(* Ranking counts the links of the indexed contents, and no others: those  *)
(* of an earlier content or of a deleted file lend no authority, unless a  *)
(* persist was cut off between the stamp and the links.                    *)
LinksAreCurrent ==
  /\ \A l \in links : fileRow[l[1]] # None
  /\ \A f \in RelPath : Inbound(f) \ unlinked = Linking(f) \ unlinked
  /\ unlinked = {} => \A f \in RelPath : InboundCount(f) = Cardinality(Linking(f))

(* The claim of indexer.ts:380-388, that the stamp comes last and a crash  *)
(* before it is made good by the next pass, of the links: it does not hold.*)
LinksAreRetried == \A f \in RelPath : InboundCount(f) = Cardinality(Linking(f))

(* A project that has been purged stays purged, unless a pass was under    *)
(* way: it goes on, and what it stamps belongs to no project.              *)
PurgedIsEmpty == project = None /\ ~raced => Indexed = {}

JoinsAgree == NothingLostInJoins /\ NoOrphans /\ LinksAreCurrent /\ PurgedIsEmpty
=============================================================================
