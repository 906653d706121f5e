----------------------------- MODULE ModelSwitch -----------------------------
(***************************************************************************)
(* What becomes of the index when the embedding model is switched: a Lance *)
(* table per identity (storage/vectors.ts), the registry of tables and the *)
(* file rows with the identity they were embedded under (storage/state.ts, *)
(* indexing/indexer.ts), and the three ways to clear an index, with a      *)
(* daemon and without one, which clear the vectors first and then the rows.*)
(*                                                                         *)
(* One project, and one clear at a time.  The passes of a file are whole   *)
(* here; Indexer has their parts.                                          *)
(***************************************************************************)
EXTENDS Naturals, Absence

CONSTANTS
  Catalog,      \* the names in the curated registry
  File,
  MaxVersion    \* bound: versions of a file

VARIABLES
  choice,       \* embedding.model in the config file
  loaded,       \* the model that the running daemon has loaded
  disk,         \* the version of a file on disk
  row,          \* file rows: the identity and the version indexed
  registered,   \* collections: the identity of a table's name
  table,        \* Lance: the version of a file in each table
  clearing,     \* a clear under way: whose it is, what it has to clear, what was indexed since
  left,         \* vectors that a delete or a clear left in a table
  cut           \* files whose vectors went before their rows

switchVars == <<choice, loaded, disk, row, registered, table, clearing, left, cut>>

Row == [identity : Catalog, version : 1..MaxVersion]

ASSUME SwitchAssumption ==
  /\ MaxVersion \in Nat \ {0}
  /\ None \notin Catalog /\ None \notin 1..MaxVersion /\ None \notin Row

SwitchInit ==
  /\ choice \in Catalog /\ loaded = None
  /\ disk = [f \in File |-> 1]
  /\ row = [f \in File |-> None]
  /\ registered = [m \in Catalog |-> None]
  /\ table = [m \in Catalog |-> [f \in File |-> None]]
  /\ clearing = None
  /\ left = {} /\ cut = {}

-----------------------------------------------------------------------------
(* model use and /api/models/use.  A name that is not in the catalog is    *)
(* refused; a running daemon keeps its model.                              *)
Use(m) ==
  /\ m # choice /\ choice' = m
  /\ UNCHANGED <<loaded, disk, row, registered, table, clearing, left, cut>>

(* registerCollection: a name is bound to the identity it is first used    *)
(* with.  The name is made of the identity itself, its slashes replaced.   *)
CollectionName(m) == m

Mismatch(m) == registered[CollectionName(m)] \notin {None, m}

(* buildRuntime; a mismatch is thrown before the daemon is up.             *)
BootRuntime ==
  /\ loaded = None
  /\ IF Mismatch(choice) THEN UNCHANGED <<loaded, registered>>
     ELSE /\ loaded' = choice
          /\ registered' = [registered EXCEPT ![CollectionName(choice)] = choice]
  /\ UNCHANGED <<choice, disk, row, table, clearing, left, cut>>

(* What the daemon was about goes with it.                                 *)
StopRuntime ==
  /\ loaded # None /\ loaded' = None
  /\ clearing' = IF clearing # None /\ clearing.daemon THEN None ELSE clearing
  /\ UNCHANGED <<choice, disk, row, registered, table, left, cut>>

Edit(f) ==
  /\ \E v \in (1..MaxVersion) \cup {None} : v # disk[f] /\ disk' = [disk EXCEPT ![f] = v]
  /\ UNCHANGED <<choice, loaded, row, registered, table, clearing, left, cut>>

-----------------------------------------------------------------------------
Unchanged(f) == row[f] = [identity |-> loaded, version |-> disk[f]]

Others(f) == {<<m, f>> : m \in {m \in Catalog \ {loaded} : table[m][f] # None}}

NowIndexed(x) == IF clearing = None THEN None ELSE [clearing EXCEPT !.since = @ \cup {x}]

(* indexFile: the rows of the live table are replaced, then the file row.  *)
Index(f) ==
  /\ loaded # None /\ disk[f] # None /\ ~Unchanged(f)
  /\ table' = [table EXCEPT ![loaded][f] = disk[f]]
  /\ row' = [row EXCEPT ![f] = [identity |-> loaded, version |-> disk[f]]]
  /\ clearing' = NowIndexed(<<loaded, f>>)
  /\ left' = left \ {<<loaded, f>>}
  /\ cut' = cut \ {f}
  /\ UNCHANGED <<choice, loaded, disk, registered>>

FromLoaded(f) == [table EXCEPT ![loaded][f] = None]

(* deleteFile, by a watcher or a pass that misses the file.                *)
Delete(f) ==
  /\ loaded # None /\ disk[f] = None /\ row[f] # None
  /\ table' = FromLoaded(f)
  /\ row' = [row EXCEPT ![f] = None]
  /\ left' = (left \ {<<loaded, f>>}) \cup Others(f)
  /\ cut' = cut \ {f}
  /\ UNCHANGED <<choice, loaded, disk, registered, clearing>>

NoRows == [f \in File |-> None]

-----------------------------------------------------------------------------
Clear(daemon, tables) ==
  /\ clearing = None
  /\ clearing' = [daemon |-> daemon, todo |-> tables, since |-> {}]
  /\ UNCHANGED <<choice, loaded, disk, row, registered, table, left, cut>>

(* /api/reset/project: the daemon clears the table of its own model.       *)
ResetProject == loaded # None /\ Clear(TRUE, {loaded})

(* Slip: the collection is derived from the model chosen in the config.    *)
OfChoice == {choice}

Collections == {m \in Catalog : registered[m] # None}

(* purge that found no daemon: the project's rows go from every table that *)
(* was ever registered.  A daemon may boot before it is done.              *)
PurgeLocal == loaded = None /\ Clear(FALSE, Collections)

Of(m, pairs) == {x \in pairs : x[1] = m}

ClearsTable(m) ==
  /\ clearing # None /\ m \in clearing.todo
  /\ table' = [table EXCEPT ![m] = NoRows]
  /\ clearing' = [clearing EXCEPT !.todo = @ \ {m}, !.since = @ \ Of(m, @)]
  /\ left' = left \ Of(m, left)
  /\ cut' = cut \cup {f \in File : row[f] # None /\ row[f].identity = m}
  /\ UNCHANGED <<choice, loaded, disk, row, registered>>

(* deleteProject, one transaction.                                         *)
ClearsRows ==
  /\ clearing # None /\ clearing.todo = {}
  /\ row' = NoRows
  /\ left' = left \cup clearing.since \cup (IF clearing.daemon THEN UNION {Others(f) : f \in File} ELSE {})
  /\ clearing' = None
  /\ cut' = {}
  /\ UNCHANGED <<choice, loaded, disk, registered, table>>

(* A store fails, or the command's process ends.                           *)
ClearIsCutOff ==
  /\ clearing # None /\ clearing' = None
  /\ UNCHANGED <<choice, loaded, disk, row, registered, table, left, cut>>

(* reset index --force: both stores are removed, or the first alone.       *)
ResetIndex ==
  /\ loaded = None /\ clearing = None
  /\ table' = [m \in Catalog |-> NoRows]
  /\ left' = {}
  /\ \/ row' = NoRows /\ registered' = [m \in Catalog |-> None] /\ cut' = {}
     \/ cut' = {f \in File : row[f] # None} /\ UNCHANGED <<row, registered>>
  /\ UNCHANGED <<choice, loaded, disk, clearing>>

SwitchNext ==
  \/ \E m \in Catalog : Use(m)
  \/ BootRuntime \/ StopRuntime \/ ResetProject \/ PurgeLocal \/ ResetIndex
  \/ (\E m \in Catalog : ClearsTable(m)) \/ ClearsRows \/ ClearIsCutOff
  \/ \E f \in File : Edit(f) \/ Index(f) \/ Delete(f)

SwitchSpec == SwitchInit /\ [][SwitchNext]_switchVars

-----------------------------------------------------------------------------
(* A file that a pass skips as unchanged is found, in its current version, *)
(* in the table that the daemon searches: after any number of switches.    *)
(* Not so while a clear is between the two stores, or once one was cut off *)
(* there, until the file changes or is cleared again (see the README).     *)
SkippedIsFound ==
  \A f \in File \ cut : loaded # None /\ disk[f] # None /\ Unchanged(f) => table[loaded][f] = disk[f]

(* Vectors without a file row are what a delete, a reset of the project by *)
(* the daemon, left in the tables of other models, or what was indexed     *)
(* while a clear was between the two stores; a purge with no daemon and a  *)
(* reset of the index leave no other.                                      *)
OnlyLeftovers ==
  \A m \in Catalog, f \in File : table[m][f] # None /\ row[f] = None => <<m, f>> \in left

(* What is skipped is found, under any model, and vectors without a row    *)
(* are accounted for.                                                      *)
ModelsAreConsistent == SkippedIsFound /\ OnlyLeftovers
=============================================================================
