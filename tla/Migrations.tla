----------------------------- MODULE Migrations -----------------------------
(***************************************************************************)
(* The opening of the state store (packages/core/src/storage/state.ts):    *)
(* the ladder of migrations, run by whichever process opens a store with   *)
(* an older schema.  The daemon, every CLI command and the stdio server    *)
(* open it, with no lock among them.                                       *)
(*                                                                         *)
(* Each SQL statement commits by itself, so a process that dies or whose   *)
(* statement throws leaves what it did so far; user_version is written     *)
(* once, at the end.  One action is one statement, or a look at the schema.*)
(***************************************************************************)
EXTENDS Naturals, Sequences

CONSTANTS
  Proc,         \* processes that open the store
  Object,       \* tables, indexes and columns
  MIGRATIONS,   \* the rungs: the columns a rung adds, its section and the
                \* section that is run when the columns are there already
  Required,     \* the tables that missingRequiredTables asks for
  Flag,         \* the column projects.active
  MaxStops      \* bound: processes that stop while they migrate

Statement == [does : {"create", "alter", "update"}, what : Object]
Migration == [adds : SUBSET Object, section : Seq(Statement), again : Seq(Statement)]

SCHEMA_VERSION == Len(MIGRATIONS)

(* What the statements of a section bring about.                           *)
Made(text) == {text[k].what : k \in DOMAIN text}

(* "Keep in sync with schema_v3".                                          *)
ASSUME LadderAssumption ==
  /\ MIGRATIONS \in Seq(Migration) /\ MIGRATIONS # <<>>
  /\ \A v \in 1..SCHEMA_VERSION : MIGRATIONS[v].adds # {} =>
       Made(MIGRATIONS[v].section) \subseteq MIGRATIONS[v].adds \cup Made(MIGRATIONS[v].again)
  /\ MaxStops \in Nat

(* The rows are updated right after the flag is added, and the section for *)
(* columns that are there already adds none.                               *)
ASSUME FlagAssumption ==
  \A v \in 1..SCHEMA_VERSION :
    /\ \A k \in DOMAIN MIGRATIONS[v].section :
         LET s == MIGRATIONS[v].section[k] IN
         s.does = "alter" /\ s.what = Flag =>
           /\ k < Len(MIGRATIONS[v].section)
           /\ MIGRATIONS[v].section[k + 1].does = "update"
    /\ \A k \in DOMAIN MIGRATIONS[v].again : MIGRATIONS[v].again[k].does # "alter"

VARIABLES
  schema,       \* the objects there are
  version,      \* PRAGMA user_version
  projects,     \* the rows from before the rung that adds the flag
  proc,         \* per process, where its constructor is
  cut,          \* history: the statements that were next when a process stopped
  stops         \* processes that stopped while they migrated

store == <<schema, version, projects>>
stopped == <<cut, stops>>
migrationVars == <<store, proc, stopped>>

Fields == [pc : {"idle", "between", "running", "open"}, rung : 0..SCHEMA_VERSION + 1,
           text : {"section", "again"}, at : Nat]
AtRest == [pc |-> "idle", rung |-> 0, text |-> "section", at |-> 0]
Between(v) == [AtRest EXCEPT !.pc = "between", !.rung = v]

NextRung(v) == v + 1

SchemaOf(v) == UNION {Made(MIGRATIONS[u].section) : u \in 1..v}

(* A store that this build or another one left, its user_version walked    *)
(* back or not (#196); a newer build's store knows more.                   *)
MigrationInit ==
  /\ version \in 0..SCHEMA_VERSION + 1
  /\ \E v \in 0..SCHEMA_VERSION :
       /\ version <= v \/ v = SCHEMA_VERSION
       /\ schema = SchemaOf(v)
  /\ projects = IF schema = {} THEN "none" ELSE IF Flag \in schema THEN "active" ELSE "unflagged"
  /\ proc = [p \in Proc |-> AtRest]
  /\ cut = {} /\ stops = 0

Becomes(p, f) == proc' = [proc EXCEPT ![p] = f]

-----------------------------------------------------------------------------
(* A store of a newer build is refused, and so is one without the tables   *)
(* that its version implies.                                               *)
MayOpen ==
  /\ version <= SCHEMA_VERSION
  /\ version > 0 => Required \subseteq schema

Opens(p) ==
  /\ proc[p].pc = "idle" /\ MayOpen
  /\ Becomes(p, IF version = SCHEMA_VERSION THEN [AtRest EXCEPT !.pc = "open"]
                ELSE Between(NextRung(version)))
  /\ UNCHANGED <<store, stopped>>

AlreadyApplied(v) ==
  MIGRATIONS[v].adds # {} /\ MIGRATIONS[v].adds \subseteq schema

(* Slip: a rung whose columns are there is skipped altogether.             *)
NothingAgain(v, text) == IF text = "again" THEN <<>> ELSE MIGRATIONS[v].section

Statements(v, text) == IF text = "again" THEN MIGRATIONS[v].again ELSE MIGRATIONS[v].section

(* The next rung: its columns are looked for, a section is chosen.         *)
Looks(p) ==
  LET v == proc[p].rung
      text == IF AlreadyApplied(v) THEN "again" ELSE "section" IN
  /\ proc[p].pc = "between" /\ v <= SCHEMA_VERSION
  /\ Becomes(p, IF Statements(v, text) = <<>> THEN Between(NextRung(v))
                ELSE [pc |-> "running", rung |-> v, text |-> text, at |-> 0])
  /\ UNCHANGED <<store, stopped>>

Script(p) == Statements(proc[p].rung, proc[p].text)
Stmt(p) == Script(p)[proc[p].at + 1]

(* A new flag is 0 in every row; the update sets it.                       *)
ProjectsAfter(s) ==
  IF projects = "unflagged" /\ s.does = "alter" /\ s.what = Flag THEN "dormant"
  ELSE IF projects = "dormant" /\ s.does = "update" THEN "active"
  ELSE projects

Executes(p) ==
  /\ proc[p].pc = "running"
  /\ ~(Stmt(p).does = "alter" /\ Stmt(p).what \in schema)
  /\ schema' = schema \cup {Stmt(p).what}
  /\ projects' = ProjectsAfter(Stmt(p))
  /\ Becomes(p, IF proc[p].at + 1 = Len(Script(p)) THEN Between(NextRung(proc[p].rung))
                ELSE [proc[p] EXCEPT !.at = @ + 1])
  /\ UNCHANGED <<version, stopped>>

(* SQLite has no ADD COLUMN IF NOT EXISTS: the constructor throws.         *)
DuplicateColumn(p) ==
  /\ proc[p].pc = "running"
  /\ Stmt(p).does = "alter" /\ Stmt(p).what \in schema
  /\ Becomes(p, AtRest)
  /\ UNCHANGED <<store, stopped>>

SetsVersion(p) ==
  /\ proc[p].pc = "between" /\ proc[p].rung > SCHEMA_VERSION
  /\ version' = SCHEMA_VERSION
  /\ Becomes(p, [AtRest EXCEPT !.pc = "open"])
  /\ UNCHANGED <<schema, projects, stopped>>

-----------------------------------------------------------------------------
(* The process dies, or a statement finds the store busy for too long.     *)
Stops(p) ==
  /\ proc[p].pc \in {"between", "running"}
  /\ stops < MaxStops /\ stops' = stops + 1
  /\ cut' = IF proc[p].pc = "running" THEN cut \cup {Stmt(p)} ELSE cut
  /\ Becomes(p, AtRest)
  /\ UNCHANGED store

Closes(p) ==
  /\ proc[p].pc = "open"
  /\ Becomes(p, AtRest)
  /\ UNCHANGED <<store, stopped>>

Steps(p) == Looks(p) \/ Executes(p) \/ DuplicateColumn(p) \/ SetsVersion(p)

MigrationNext == \E p \in Proc : Opens(p) \/ Steps(p) \/ Stops(p) \/ Closes(p)

(* A process that opens the store goes on, and someone opens it again.     *)
MigrationFairness == \A p \in Proc : WF_migrationVars(Steps(p)) /\ WF_migrationVars(Opens(p))

MigrationSpec == MigrationInit /\ [][MigrationNext]_migrationVars

-----------------------------------------------------------------------------
MigrationTypeOK ==
  /\ schema \subseteq Object
  /\ version \in 0..SCHEMA_VERSION + 1
  /\ projects \in {"none", "unflagged", "dormant", "active"}
  /\ proc \in [Proc -> Fields]
  /\ cut \subseteq Statement
  /\ stops \in 0..MaxStops

(* A store whose version says so has every table, index and column that    *)
(* this build reads and writes, whatever was cut off, run twice or run by  *)
(* two processes at once.                                                  *)
VersionIsTrue == version >= SCHEMA_VERSION => SchemaOf(SCHEMA_VERSION) \subseteq schema

Migrating == {p \in Proc : proc[p].pc \in {"between", "running"}}

(* "existing rows migrate to active=1 to preserve behaviour for users who  *)
(* already had their workspace indexed": once a store is migrated and      *)
(* nobody works on it, unless a process stopped right before the update,   *)
(* which no later one makes up for since the column is there by then.      *)
OldProjectsStayActive ==
  version >= SCHEMA_VERSION /\ Migrating = {} /\ (\A s \in cut : s.does # "update")
  => projects # "dormant"

(* What the version promises: a current store has the whole schema, and the*)
(* projects of before the flag stay active.                                *)
SchemaIsTrue == VersionIsTrue /\ OldProjectsStayActive

(* Crashes and processes that get in each other's way do not leave a store *)
(* that nobody can open: it gets to the current version, unless a process  *)
(* stopped between the columns of one rung, after which every later one    *)
(* fails on the column that is there.                                      *)
IsMigrated == version >= SCHEMA_VERSION \/ \E s \in cut : s.does = "alter"
=============================================================================
