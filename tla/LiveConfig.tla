----------------------------- MODULE LiveConfig -----------------------------
(***************************************************************************)
(* Analyzers that are switched on while the daemon runs: a write to the    *)
(* config file and the reload that follows it (apps/cli/src/start.ts,      *)
(* apps/web/server/api/config.ts), the installation of a tool              *)
(* (api/tools.ts), the cache of which tools there are, and the backfill of *)
(* the files that were indexed before (core/src/container.ts).             *)
(***************************************************************************)
EXTENDS Naturals, FiniteSets, Absence

CONSTANTS
  Analyzer,
  External,     \* analyzers that need a tool on the machine
  Untracked,    \* analyzers that activeAnalyzers does not know of
  Setting,      \* values of an analyzer's command; no two analyzers share a command
  SourceFile,
  MaxFills,     \* bound: backfills that run at a time
  MaxActs       \* bound: changes of the config and the machine, and backfills asked for

ASSUME LiveAssumption == External \subseteq Analyzer /\ None \notin BOOLEAN

VARIABLES
  configFile,   \* the config file: what is switched on, the commands; whether it loads
  liveOn,       \* the analyzers switched on in the daemon's config
  liveCommand,  \* and their commands
  tool,         \* the commands that there are on the machine
  known,        \* ToolProbeCache.availability, per command
  probing,      \* ToolProbeCache.probing: probes begun by the index hook
  indexed,      \* the files indexed so far
  queued,       \* per analyzer, the files it was given
  fills,        \* the backfills under way: what each wants and probes, what was indexed when it began
  installing,   \* tools whose installation is under way
  acts,         \* how many of them there were
  missed        \* history: analyzers whose command changed, or came unannounced, since their backfill

liveVars == <<configFile, liveOn, liveCommand, tool, known, probing, indexed, queued, fills, installing,
              acts, missed>>
liveConfig == <<liveOn, liveCommand>>

CommandOf(a) == <<a, liveCommand[a]>>

UserActs == acts < MaxActs /\ acts' = acts + 1

(* Two backfills that began with the same files and want the same are one. *)
FillOf(wanted, commands) == [wanted |-> wanted, seen |-> indexed, command |-> commands]

(* The daemon boots: the tools of the analyzers that are on are probed     *)
(* before a file is indexed, and everything is backfilled.                 *)
LiveInit ==
  /\ configFile \in [on : SUBSET Analyzer, command : [External -> Setting], valid : {TRUE}]
  /\ liveOn = configFile.on /\ liveCommand = configFile.command
  /\ tool \in SUBSET (External \X Setting)
  /\ known = [c \in External \X Setting |->
       IF c[1] \in liveOn /\ c = CommandOf(c[1]) THEN c \in tool ELSE None]
  /\ probing = {}
  /\ indexed \in SUBSET SourceFile
  /\ queued = [a \in Analyzer |->
       IF a \in liveOn /\ (a \in External => CommandOf(a) \in tool) THEN indexed ELSE {}]
  /\ fills = {}
  /\ installing = {} /\ missed = {} /\ acts = 0

-----------------------------------------------------------------------------
(* ready: a command that is not known is probed, and not there for now.    *)
Ready(a) == a \in External => known[CommandOf(a)] = TRUE

(* The hook of the indexer, for a file of new content.                     *)
IndexFile(f) ==
  /\ f \notin indexed /\ indexed' = indexed \cup {f}
  /\ queued' = [a \in Analyzer |->
       IF a \in liveOn /\ Ready(a) THEN queued[a] \cup {f} ELSE queued[a]]
  /\ probing' = probing \cup {c \in {CommandOf(a) : a \in External \cap liveOn} : known[c] = None}
  /\ UNCHANGED <<configFile, liveConfig, tool, known, fills, installing, acts, missed>>

ProbeEnds(c) ==
  /\ c \in probing /\ probing' = probing \ {c}
  /\ known' = [known EXCEPT ![c] = c \in tool]
  /\ UNCHANGED <<configFile, liveConfig, tool, indexed, queued, fills, installing, acts, missed>>

-----------------------------------------------------------------------------
(* activeAnalyzers before and after the reload.                            *)
Newly(on) == on \ (liveOn \cup Untracked)

(* On before and after it, which is not newly on, by another command.      *)
Moved(on, command) == {a \in External \cap on \cap liveOn : command[a] # liveCommand[a]}

(* reloadConfig: the live config takes the sections over in place, and     *)
(* what is newly on is backfilled, in no one's way.                        *)
Reload(new, more) ==
  /\ liveOn' = new.on /\ liveCommand' = new.command
  /\ fills' = fills \cup {FillOf(w \cap new.on, new.command) : w \in ({Newly(new.on)} \ {{}}) \cup more}
  /\ missed' = missed \cup (Moved(new.on, new.command) \ UNION more)
  /\ Cardinality(fills') <= MaxFills

(* /api/config/write.  A file that no longer loads is written all the      *)
(* same, and answered with reloaded: false.                                *)
WriteConfig(on, command) ==
  /\ UserActs
  /\ configFile' = [configFile EXCEPT !.on = on, !.command = command]
  /\ configFile' # configFile
  /\ IF configFile.valid THEN Reload(configFile', {}) ELSE UNCHANGED <<liveConfig, fills, missed>>
  /\ UNCHANGED <<tool, known, probing, indexed, queued, installing>>

(* The user's own editor.                                                  *)
EditByHand ==
  /\ UserActs
  /\ configFile' \in [on : SUBSET Analyzer, command : [External -> Setting], valid : BOOLEAN] \ {configFile}
  /\ UNCHANGED <<liveConfig, tool, known, probing, indexed, queued, fills, installing, missed>>

(* backfillAnalyzers.                                                      *)
AskFill(a) ==
  /\ UserActs
  /\ fills' = fills \cup {FillOf({a} \cap liveOn, liveCommand)}
  /\ Cardinality(fills') <= MaxFills
  /\ UNCHANGED <<configFile, liveConfig, tool, known, probing, indexed, queued, installing, missed>>

(* Slip: the files are listed first, then the tools are probed.            *)
ListedFirst(b) == b.seen

ListedLast(b) == indexed

ProbedBy(b) == {<<a, b.command[a]>> : a \in External \cap b.wanted}

(* The probes answer, pinned or not, and in the same go the files without  *)
(* a result are listed, and queued for what is on and ready by then.       *)
Filled(b) ==
  LET found == [c \in External \X Setting |-> IF c \in ProbedBy(b) THEN c \in tool ELSE known[c]]
      active == b.wanted \cap liveOn IN
  /\ b \in fills
  /\ known' = found
  /\ queued' = [a \in Analyzer |->
       IF a \in active /\ (a \in External => found[CommandOf(a)] = TRUE)
       THEN queued[a] \cup ListedLast(b) ELSE queued[a]]
  /\ probing' = probing \cup {c \in {CommandOf(a) : a \in External \cap active} : found[c] = None}
  /\ fills' = fills \ {b}
  /\ missed' = missed \ {a \in b.wanted : a \in External => b.command[a] = liveCommand[a]}
  /\ UNCHANGED <<configFile, liveConfig, tool, indexed, installing, acts>>

Probed == probing \cup UNION {ProbedBy(b) : b \in fills}

Unannounced(c) == missed' = IF c \in Probed /\ c = CommandOf(c[1]) THEN missed \cup {c[1]} ELSE missed

-----------------------------------------------------------------------------
(* /api/tools/install                                                      *)
Install(a) ==
  /\ UserActs
  /\ a \in External \ installing
  /\ installing' = installing \cup {a}
  /\ UNCHANGED <<configFile, liveConfig, tool, known, probing, indexed, queued, fills, missed>>

(* The config is patched, the command with it, and reloaded; a reload that *)
(* throws ends the request.  Then the tool is backfilled, whether it was on*)
(* before or not.                                                          *)
Installed(a, s) ==
  /\ a \in installing /\ installing' = installing \ {a}
  /\ tool' = tool \cup {<<a, s>>}
  /\ configFile' = [configFile EXCEPT !.on = @ \cup {a}, !.command[a] = s]
  /\ IF configFile.valid THEN Reload(configFile', {{a}})
     ELSE Unannounced(<<a, s>>) /\ UNCHANGED <<liveConfig, fills>>
  /\ UNCHANGED <<known, probing, indexed, queued, acts>>

InstallFails(a) ==
  /\ a \in installing /\ installing' = installing \ {a}
  /\ UNCHANGED <<configFile, liveConfig, tool, known, probing, indexed, queued, fills, acts, missed>>

(* The tool comes by other means.                                          *)
ToolComes(c) ==
  /\ UserActs
  /\ c \notin tool /\ tool' = tool \cup {c}
  /\ Unannounced(c)
  /\ UNCHANGED <<configFile, liveConfig, known, probing, indexed, queued, fills, installing>>

LiveNext ==
  \/ \E f \in SourceFile : IndexFile(f)
  \/ \E on \in SUBSET Analyzer, command \in [External -> Setting] : WriteConfig(on, command)
  \/ \E a \in Analyzer : AskFill(a)
  \/ \E a \in External : Install(a) \/ InstallFails(a) \/ \E s \in Setting : Installed(a, s)
  \/ \E c \in External \X Setting : ProbeEnds(c) \/ ToolComes(c)
  \/ \E b \in fills : Filled(b)
  \/ EditByHand

LiveSpec == LiveInit /\ [][LiveNext]_liveVars

-----------------------------------------------------------------------------
Quiet == probing = {} /\ installing = {} /\ fills = {}

(* "backfill just those over already-indexed files": once nothing is under *)
(* way, an analyzer that is on, whose tool is known to be there, was given *)
(* every file, those too that were indexed while it was being switched on. *)
(* The exceptions: what activeAnalyzers leaves out; and, until it is       *)
(* backfilled by hand or switched off and on, an analyzer whose command    *)
(* changed while it was on, for which no backfill is queued, or whose tool *)
(* came between two probes for it.                                         *)
EveryFileIsGiven ==
  Quiet => \A a \in liveOn \ (Untracked \cup missed) : Ready(a) => indexed \subseteq queued[a]

(* The claim of start.ts:100-105, "so enabling a feature after the index is*)
(* built catches up", of a tool enabled by its command: it does not hold.  *)
CatchesUp == Quiet => \A a \in liveOn \ Untracked : Ready(a) => indexed \subseteq queued[a]
=============================================================================
