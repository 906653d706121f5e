------------------------------- MODULE Doctor -------------------------------
(***************************************************************************)
(* The health report behind `loctx doctor` and /api/doctor                 *)
(* (packages/core/src/doctor.ts), and the installation of the optional     *)
(* analyzers' tools into loctx's own directories (tools.ts).               *)
(*                                                                         *)
(* A report is the sequence of its rows, [name, status].  What the checks  *)
(* look at is a host h; each check turns it into rows, and what it throws  *)
(* becomes a row as well.                                                  *)
(***************************************************************************)
EXTENDS Naturals, Sequences, FiniteSets, SequencesExt

Row(name, status) == <<[name |-> name, status |-> status]>>

(* A directory that is not there is made on first use.                     *)
CheckPaths(h) ==
  LET status == [none |-> "warn", dir |-> "ok", file |-> "error", denied |-> "error"]
      row(p) == Row(p, status[h.paths[p]])
  IN  row("dataDir") \o row("configDir") \o row("vectorDir") \o row("logsDir")

CheckDaemon(h) == Row("daemon", IF h.daemon THEN "ok" ELSE "warn")

(* openState: the StateStore makes the data directory and the database, and*)
(* migrates it; one that is damaged is not opened.                         *)
Opens(h) == h.db # "damaged" /\ h.paths["dataDir"] \in {"none", "dir"}

(* What was there when the run began decides.  A query that throws, on the *)
(* table of the projects or the one of the files, ends the check after the *)
(* rows that it has.                                                       *)
CheckState(h) ==
  LET fts5 == Row("fts5", IF h.fts THEN "ok" ELSE "error")
      errors == Row("index errors", IF h.errors > 0 THEN "warn" ELSE "ok")
  IN  IF h.db = "none" THEN Row("state.sqlite3", "warn")
      ELSE IF ~Opens(h) \/ h.db = "no projects" THEN Row("state.sqlite3", "error")
      ELSE IF h.db = "no files" THEN Row("state.sqlite3", "ok") \o Row("state.sqlite3", "error")
      ELSE Row("state.sqlite3", "ok") \o errors \o fts5

CheckDiscovery(h) ==
  Row("discovery", [found |-> "ok", nothing |-> "warn", throws |-> "error"][h.markers])

(* Only the local provider has a model to download.                        *)
CheckEmbedding(h) == Row("embedding", IF h.local /\ ~h.trusted THEN "warn" ELSE "ok")

(* The inventory's active projects are discovered as well as recorded.     *)
IsActive(h, p) == p.active /\ h.markers = "found"

(* The database is opened here, and so made, if it was not there before.   *)
CheckReconciliation(h) ==
  IF ~Opens(h) \/ h.db = "no projects" \/ h.markers = "throws" THEN Row("reconciliation", "error")
  ELSE LET rows == IF h.db = "none" THEN {} ELSE h.projects IN
       Row("reconciliation", IF \E p \in rows : IsActive(h, p) /\ ~p.reconciled THEN "warn" ELSE "ok")
         \o Row("rebuild_pending", IF \E p \in rows : p.pending THEN "warn" ELSE "ok")

(* Only the daemon has watchers to report of.                              *)
CheckWatchers(h) ==
  IF ~h.inDaemon THEN <<>>
  ELSE Row("watchers", IF "failed" \in h.watchers THEN "error"
                       ELSE IF h.watchers = {} \/ "paused" \in h.watchers THEN "warn" ELSE "ok")

CheckUlimitNofile(h) == Row("ulimit:nofile", IF h.nofile = "low" THEN "warn" ELSE "ok")

(* The config, the retrieval's and the queue's settings are only told.     *)
Told(name) == Row(name, "ok")

CheckAnalyzers(h) ==
  Told("analyzers") \o (IF h.background THEN Told("analyzers.duplicates") ELSE <<>>)

CheckLizard(h) ==
  IF h.lizard = "off" THEN <<>>
  ELSE Row("analyzers.lizard", IF h.lizard = "gone" THEN "warn" ELSE "ok")

(* Shown only when it is not the default.                                  *)
CheckNetwork(h) ==
  IF h.caCert = "default" /\ ~h.proxy /\ h.strictSsl THEN <<>>
  ELSE Row("network", IF h.caCert = "gone" THEN "error" ELSE IF ~h.strictSsl THEN "warn" ELSE "ok")

RunDoctorChecks(h) ==
  Told("config") \o CheckPaths(h) \o CheckDaemon(h) \o CheckState(h) \o CheckDiscovery(h)
    \o CheckEmbedding(h) \o Told("retrieval") \o CheckReconciliation(h) \o CheckWatchers(h)
    \o CheckUlimitNofile(h) \o CheckAnalyzers(h) \o CheckLizard(h) \o CheckNetwork(h)

Statuses(rows) == {rows[k].status : k \in DOMAIN rows}

WorstStatus(rows) ==
  IF "error" \in Statuses(rows) THEN "error" ELSE IF "warn" \in Statuses(rows) THEN "warn" ELSE "ok"

(* What a run leaves behind: the database it opened.                       *)
AfterDoctor(h) ==
  IF h.db = "none" /\ Opens(h)
  THEN [h EXCEPT !.db = "good", !.errors = 0, !.projects = {}, !.paths["dataDir"] = "dir"] ELSE h

-----------------------------------------------------------------------------
(* installPipTool on a machine m: the venv is made if its bin directory is *)
(* not there; `python -m venv` makes that directory before it installs pip.*)
InstallPipTool(m) ==
  LET made == IF m.venv = "none" THEN (IF m.ensurepip THEN "whole" ELSE "half") ELSE m.venv IN
  CASE ~m.python -> [m |-> m, ok |-> FALSE]
    [] m.python /\ m.venv = "none" /\ made = "half" -> [m |-> [m EXCEPT !.venv = made], ok |-> FALSE]
    [] m.python /\ ~(m.venv = "none" /\ made = "half") ->
         LET ok == made = "whole" /\ m.online IN
         [m |-> [m EXCEPT !.venv = made, !.tools = IF ok THEN @ \cup {"pip tool"} ELSE @], ok |-> ok]

(* installAstGrep: looked up, fetched, unpacked; then the binary is there, *)
(* or the release did not hold it.                                         *)
InstallAstGrep(m) ==
  LET there == m.tools \cup (IF m.asset = "whole" THEN {"ast-grep"} ELSE {})
      got == m.platform /\ m.online /\ m.asset # "none" /\ m.unzip
  IN  [m |-> IF got THEN [m EXCEPT !.tools = there] ELSE m, ok |-> got /\ "ast-grep" \in there]

InstallTool(m, name) == IF name = "ast-grep" THEN InstallAstGrep(m) ELSE InstallPipTool(m)

-----------------------------------------------------------------------------
(* Whatever is wrong with one concern, and whatever throws, each of the    *)
(* concerns that are always reported has its row: one check that fails     *)
(* takes no other with it (doctor.ts: "each concern is a check function"). *)
ReportIsComplete(h) ==
  \A name \in {"config", "dataDir", "daemon", "state.sqlite3", "discovery", "embedding",
               "retrieval", "reconciliation", "ulimit:nofile", "analyzers"} :
    \E k \in DOMAIN RunDoctorChecks(h) : RunDoctorChecks(h)[k].name = name

(* A summary of ok means that nothing waits for the user: the index is     *)
(* whole, reconciled and watched, and nothing is downloaded on first use.  *)
(* What keeps the daemon from working makes it an error, beside whatever   *)
(* warnings.                                                               *)
SummaryIsHonest(h) ==
  LET worst == WorstStatus(RunDoctorChecks(h)) IN
  /\ worst = "ok" =>
       /\ h.db = "good" /\ h.fts /\ h.errors = 0 /\ h.daemon /\ h.markers = "found"
       /\ \A p \in h.projects : ~p.pending /\ (p.active => p.reconciled)
       /\ h.inDaemon => h.watchers = {"active"}
       /\ h.local => h.trusted
       /\ h.lizard # "gone" /\ h.strictSsl
  /\ worst # "error" =>
       /\ h.db \in {"none", "good"} /\ (h.db = "good" => h.fts)
       /\ h.inDaemon => "failed" \notin h.watchers
       /\ h.caCert # "gone"
       /\ \A p \in DOMAIN h.paths : h.paths[p] \in {"none", "dir"}

(* A run on a fresh install makes the database it says is missing: the next*)
(* run finds it good, and says the same of everything else.                *)
DoctorSettles(h) ==
  LET about(rows) == SelectSeq(rows, LAMBDA r :
        r.name \notin {"state.sqlite3", "index errors", "fts5", "dataDir"})
      next == AfterDoctor(h)
  IN  /\ about(RunDoctorChecks(next)) = about(RunDoctorChecks(h))
      /\ h.db = "none" /\ Opens(h) /\ h.fts => "error" \notin Statuses(CheckState(next))
      /\ AfterDoctor(next) = next

(* A tool that is said to be installed is there, another is never lost, and*)
(* installing once more what is installed changes nothing.                 *)
InstalledIsThere(m, name) ==
  LET did == InstallTool(m, name)
      tool == IF name = "ast-grep" THEN name ELSE "pip tool"
  IN  /\ did.ok => tool \in did.m.tools /\ InstallTool(did.m, name) = did
      /\ m.tools \subseteq did.m.tools

(* Once its cause is gone, an installation that failed succeeds.           *)
RetryInstalls(m, name) ==
  LET failed == InstallTool(m, name).m
      mended == [failed EXCEPT !.python = TRUE, !.ensurepip = TRUE, !.online = TRUE, !.platform = TRUE,
                               !.asset = "whole", !.unzip = TRUE]
  IN  InstallTool(mended, name).ok
=============================================================================
