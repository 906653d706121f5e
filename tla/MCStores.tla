------------------------------- MODULE MCStores -------------------------------
(***************************************************************************)
(* The stores of the index, checked in one run: a behaviour is of one part,*)
(* chosen at the start.  Either calls write a file's rows, chunks and      *)
(* vectors (Indexer), or processes open a state store of an older schema   *)
(* (Migrations).  The part that does not run stays at one of its initial   *)
(* states.                                                                 *)
(***************************************************************************)
EXTENDS Indexer, Migrations

VARIABLE part

allVars == <<vars, migrationVars, part>>

-----------------------------------------------------------------------------
(* The ladder of state.ts and sql/state.sql.  An index stands with its     *)
(* table, but for the one on a column that a rung adds.                    *)
Creates(o) == [does |-> "create", what |-> o]
Alters(o) == [does |-> "alter", what |-> o]
Updates(o) == [does |-> "update", what |-> o]

Plain(section) == [adds |-> {}, section |-> section, again |-> <<>>]
Adds(cols, section, again) == [adds |-> cols, section |-> section, again |-> again]

Tables == {"projects", "files", "chunks", "collections"}

Ladder == <<
  Plain(<<Creates("projects"), Creates("files"), Creates("chunks"), Creates("collections")>>),
  Plain(<<Creates("chunks_fts")>>),
  Adds({"metadata_json", "symbol_def"},
       <<Alters("metadata_json"), Alters("symbol_def"),
         Creates("idx_chunks_symbol_def"), Creates("symbol_refs")>>,
       <<Creates("symbol_refs"), Creates("idx_chunks_symbol_def")>>),
  Adds({"last_reconciled_at"}, <<Alters("last_reconciled_at")>>, <<>>),
  Plain(<<Creates("file_enrichments")>>),
  Adds({"active"}, <<Alters("active"), Updates("active")>>, <<>>),
  Adds({"rebuild_pending_at"}, <<Alters("rebuild_pending_at")>>, <<>>),
  Plain(<<Creates("mcp_requests")>>),
  Plain(<<Creates("file_links")>>),
  Plain(<<Creates("usage_stats")>>),
  Plain(<<Creates("project_health")>>)
>>

Objects == UNION {Made(Ladder[v].section) : v \in DOMAIN Ladder}

-----------------------------------------------------------------------------
AllInit ==
  /\ part \in {"indexer", "migrations"}
  /\ Init /\ MigrationInit
  /\ part = "indexer" => version = 0 /\ schema = {}
  /\ part = "migrations" => disk = [f \in File |-> Absent]

AllNext ==
  /\ UNCHANGED part
  /\ \/ part = "indexer" /\ Next /\ UNCHANGED migrationVars
     \/ part = "migrations" /\ MigrationNext /\ UNCHANGED vars

AllFairSpec ==
  /\ AllInit /\ [][AllNext]_allVars
  /\ Fairness
  /\ \A p \in Proc : /\ WF_migrationVars(part = "migrations" /\ Steps(p))
                     /\ WF_migrationVars(part = "migrations" /\ Opens(p))

-----------------------------------------------------------------------------
(* Both parts get to where they go: every call that starts comes to an end *)
(* (CallsEnd), and a store to the current version, but for a stop between  *)
(* the two columns of a rung, which is not recovered (IsMigrated).         *)
StoresProgress == CallsEnd /\ <>(part = "migrations" => IsMigrated)
===============================================================================
