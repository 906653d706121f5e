------------------------------ MODULE Commands ------------------------------
(***************************************************************************)
(* A command of the CLI and the daemon it may find: who does the command's *)
(* work, and what the exit code says of it (apps/cli/src/commands,         *)
(* lib/daemon-io.ts, core/src/daemon-client.ts).                           *)
(*                                                                         *)
(* One command at a time.  Its work has one part or, for a command over    *)
(* several tools or watchers, up to MaxParts.                              *)
(***************************************************************************)
EXTENDS Naturals, Absence

CONSTANTS
  MaxParts      \* bound: tools to install, watchers to pause

ASSUME CommandAssumption == MaxParts \in Nat \ {0} /\ None \notin {0, 1, 2}

VARIABLES
  daemon,       \* the daemon: off, alive without a listener, or serving
  cmd,          \* the command: what it is, where it is, what it has seen
  order,        \* what the daemon makes of the command's request
  byDaemon,     \* parts of the work that the daemon has taken on
  byCommand,    \* parts of the work that the command has done itself
  steady        \* the same daemon has been there since the command began

commandVars == <<daemon, cmd, order, byDaemon, byCommand, steady>>

(* search, find-usages, activate, deactivate, rebuild and purge go through *)
(* withDaemonOrLocal; refresh, pause and resume need a daemon; index and   *)
(* watch refuse to run beside one; quality never looks.                    *)
Readers == {"search", "find-usages"}
Either == Readers \cup {"activate", "deactivate", "rebuild", "purge"}
DaemonOnly == {"refresh", "pause"}
LocalOnly == {"index", "watch"}
CommandKind == Either \cup DaemonOnly \cup LocalOnly \cup {"install-tools", "quality"}

ManyParts == {"install-tools", "pause"}
IndexWriters == {"activate", "rebuild", "purge", "index", "watch"}

(* Commands that read the lock file before they decide.                    *)
Looks == Either \cup LocalOnly \cup {"refresh"}

NoCommand == [kind |-> None, at |-> "idle", parts |-> 0, left |-> 0, err |-> None, code |-> None]

CommandInit ==
  /\ daemon \in {"off", "deaf", "up"}
  /\ cmd = NoCommand
  /\ order = "none" /\ byDaemon = 0 /\ byCommand = 0
  /\ steady = FALSE

GoesTo(at) == cmd' = [cmd EXCEPT !.at = at]
ExitsWith(code) == cmd' = [cmd EXCEPT !.at = "ended", !.code = code]

work == <<order, byDaemon, byCommand>>

-----------------------------------------------------------------------------
(* A daemon boots, listens, or ends with what it was doing.                *)
DaemonMoves ==
  /\ \/ daemon = "off" /\ daemon' = "deaf" /\ UNCHANGED <<order, steady>>
     \/ daemon = "deaf" /\ daemon' = "up" /\ UNCHANGED <<order, steady>>
     \/ /\ daemon # "off" /\ daemon' = "off"
        /\ steady' = FALSE
        /\ order' = IF order = "runs" THEN "lost" ELSE order
  /\ UNCHANGED <<cmd, byDaemon, byCommand>>

(* The daemon finishes what it was asked, whether or not the command has   *)
(* waited for it.                                                          *)
DaemonWorks ==
  /\ order = "runs" /\ order' = "done"
  /\ UNCHANGED <<daemon, cmd, byDaemon, byCommand, steady>>

-----------------------------------------------------------------------------
Begin(k, n) ==
  /\ cmd.at \in {"idle", "ended"}
  /\ n > 1 => k \in ManyParts
  /\ cmd' = [NoCommand EXCEPT !.kind = k, !.parts = n, !.left = n,
                         !.at = IF k \in Looks THEN "looking"
                                ELSE IF k = "quality" THEN "local" ELSE "asking"]
  /\ order' = "none" /\ byDaemon' = 0 /\ byCommand' = 0
  /\ steady' = (daemon # "off")
  /\ UNCHANGED daemon

(* What is done once readActiveDaemon has said whether there is a daemon.  *)
Decides(alive) ==
  CASE cmd.kind \in LocalOnly -> IF alive THEN "refused" ELSE "local"
    [] cmd.kind = "refresh" -> IF alive THEN "asking" ELSE "refused"
    [] OTHER -> IF alive THEN "asking" ELSE "local"

Look ==
  /\ cmd.at = "looking"
  /\ LET next == Decides(daemon # "off") IN IF next = "refused" THEN ExitsWith(1) ELSE GoesTo(next)
  /\ UNCHANGED <<daemon, work, steady>>

RequestFails(err) == cmd' = [cmd EXCEPT !.at = "failed", !.err = err]

(* daemonClient reads the lock file once more and fetch connects: from     *)
(* then on the request is the daemon's.                                    *)
Ask ==
  /\ cmd.at = "asking"
  /\ IF daemon = "up"
     THEN GoesTo("waiting") /\ order' = "runs" /\ byDaemon' = byDaemon + 1
     ELSE /\ RequestFails(IF daemon = "off" THEN "no daemon" ELSE "refused")
          /\ UNCHANGED <<order, byDaemon>>
  /\ UNCHANGED <<daemon, byCommand, steady>>

(* The next part is begun, or the command ends with the code so far.       *)
NextPart(code) ==
  cmd' = IF cmd.left > 1
         THEN [cmd EXCEPT !.left = @ - 1, !.code = code, !.at = "asking", !.err = None]
         ELSE [cmd EXCEPT !.left = 0, !.at = "ended", !.code = IF code = None THEN 0 ELSE code]

KeptCode == cmd.code

(* /api/rebuild and /api/projects/activate answer before their pass ends.  *)
RequestAnswered ==
  /\ cmd.at = "waiting"
  /\ order = "done" \/ (order = "runs" /\ cmd.kind \in {"rebuild", "activate"})
  /\ NextPart(KeptCode)
  /\ UNCHANGED <<daemon, work, steady>>

(* The daemon refuses, or fails after it has done some of the work.        *)
Rejected(err) ==
  /\ cmd.at = "waiting" /\ order = "runs"
  /\ RequestFails(err)
  /\ order' = "none"
  /\ byDaemon' \in {byDaemon - 1} \cup (IF err = "5xx" THEN {byDaemon} ELSE {})
  /\ UNCHANGED <<daemon, byCommand, steady>>

(* The timer aborts the request, which is a 504, and the daemon goes on;   *)
(* or the connection is reset.                                             *)
GivesUp ==
  /\ cmd.at = "waiting"
  /\ RequestFails("504")
  /\ UNCHANGED <<daemon, work, steady>>

-----------------------------------------------------------------------------
(* Slip: every command that can fall back does.                            *)
AnyFallsBack == cmd.kind \in Either

(* fallbackOnError, and install-tools' own rule.                           *)
FallsBack ==
  \/ cmd.kind = "search"
  \/ cmd.kind = "find-usages" /\ cmd.err # "404"
  \/ cmd.kind = "install-tools" /\ cmd.err = "no daemon"

CodeOf == IF cmd.err = "409" /\ cmd.kind \in {"refresh", "rebuild"} THEN 2 ELSE 1

HandleError ==
  /\ cmd.at = "failed"
  /\ IF FallsBack THEN GoesTo("local")
     ELSE IF cmd.kind = "install-tools" THEN NextPart(1)
     ELSE ExitsWith(CodeOf)
  /\ UNCHANGED <<daemon, work, steady>>

(* A local runtime is built and does the part, or one of the two fails; it *)
(* is closed in any case.  watch goes on until it is told to stop.         *)
DoesIt ==
  /\ cmd.at = "local"
  /\ byCommand' = byCommand + 1
  /\ NextPart(KeptCode)
  /\ UNCHANGED <<daemon, order, byDaemon, steady>>

LocalFails ==
  /\ cmd.at = "local"
  /\ byCommand' \in {byCommand, byCommand + 1}
  /\ IF cmd.kind = "install-tools" THEN NextPart(1) ELSE ExitsWith(1)
  /\ UNCHANGED <<daemon, order, byDaemon, steady>>

-----------------------------------------------------------------------------
CommandProceeds ==
  Look \/ Ask \/ RequestAnswered \/ GivesUp \/ HandleError \/ DoesIt \/ LocalFails

CommandNext ==
  \/ DaemonMoves \/ DaemonWorks \/ CommandProceeds
  \/ \E err \in {"404", "409", "5xx"} : Rejected(err)
  \/ \E k \in CommandKind, n \in 1..MaxParts : Begin(k, n)

(* The timer of a command fires and its own work ends; of the daemon       *)
(* nothing is assumed.                                                     *)
CommandFairness == WF_commandVars(CommandProceeds)

CommandSpec == CommandInit /\ [][CommandNext]_commandVars
CommandFairSpec == CommandSpec /\ CommandFairness

-----------------------------------------------------------------------------
(* "a daemon failure must surface, not silently degrade to a second        *)
(* uncoordinated writer": what the daemon was asked to write is never      *)
(* written by the command too, whatever came of the request.               *)
OneExecutor ==
  cmd.kind \in IndexWriters \cup {"deactivate"} => byCommand = 0 \/ byDaemon = 0

(* A command that began while a daemon was there, and that daemon has been *)
(* there since, never writes the index itself.                             *)
LeavesItToTheDaemon ==
  steady /\ cmd.kind \in IndexWriters => cmd.at # "local" /\ byCommand = 0

(* Exit code 0 says that every part was done or is the daemon's by now,    *)
(* and 2, the conflict, that the daemon has refused and nothing was done.  *)
ExitCodeIsTrue ==
  cmd.at = "ended" => /\ cmd.code = 0 => byDaemon + byCommand >= cmd.parts
                      /\ cmd.code = 2 => byDaemon = 0 /\ byCommand = 0

(* No work is done twice, by the daemon and the command; beside a daemon a *)
(* command writes no index; exit codes 0 and 2 say what was done.          *)
CommandIsDoneOnce == OneExecutor /\ LeavesItToTheDaemon /\ ExitCodeIsTrue

(* Every command ends, even when a daemon takes requests and never answers.*)
CommandEnds == cmd.at \notin {"idle", "ended"} ~> cmd.at = "ended"

(* "the daemon is the sole writer" (storage/vectors.ts): no command writes *)
(* the index while there is a daemon.                                      *)
SoleWriter == daemon # "off" /\ cmd.at = "local" => cmd.kind \notin IndexWriters
=============================================================================
