----------------------------- MODULE DaemonLock -----------------------------
(***************************************************************************)
(* The PID file that keeps two daemons off one data directory              *)
(* (packages/core/src/daemon-lock.ts), with its users: `loctx start`, with *)
(* and without --replace, `loctx stop`, and the shutdown of a daemon       *)
(* (apps/cli/src/start.ts).                                                *)
(*                                                                         *)
(* A process runs once, so no pid is used twice.  One action is one system *)
(* call on the file, or a look at the process table.                       *)
(***************************************************************************)
EXTENDS Naturals, FiniteSets, Absence

CONSTANTS
  Proc          \* processes, each starting a daemon or stopping one

ASSUME ProcAssumption ==
  /\ None \notin Proc
  /\ None \notin [by : Proc, pid : Proc \cup {None}]

MaxAttempts == 3

VARIABLES
  file,         \* loctx.pid: [by, pid], the process that created it and what
                \* it has written, None so far; None if there is no file
  proc          \* [pc, found, task, tries]

vars == <<file, proc>>

(* found: the pid read from the file, None for a missing or garbled one.   *)
LockFile == [by : Proc, pid : Proc \cup {None}]
Fields == [pc : {"new", "opening", "writing", "failed", "judging", "removing", "daemon",
                 "draining", "released", "releasing", "stopReading", "stopJudging",
                 "rereading", "killing", "waiting", "cleaning", "done", "dead"},
           found : Proc \cup {None}, task : {"start", "replace", "stop"},
           tries : 0..MaxAttempts]

Alive(p) == proc[p].pc \notin {"new", "done", "dead"}

(* A process that may use the data directory.                              *)
Serving(p) == proc[p].pc \in {"daemon", "draining"}

(* What readDaemonInfoFromPath returns.                                    *)
Recorded == IF file = None THEN None ELSE file.pid

Init ==
  /\ file = None
  /\ proc = [p \in Proc |-> [pc |-> "new", found |-> None, task |-> "stop", tries |-> 0]]

Goes(p, pc) == proc' = [proc EXCEPT ![p].pc = pc]
Finds(p, pc) == proc' = [proc EXCEPT ![p].pc = pc, ![p].found = Recorded]

-----------------------------------------------------------------------------
(* acquireDaemonLock                                                       *)

Start(p, task) ==
  /\ proc[p].pc = "new"
  /\ proc' = [proc EXCEPT ![p].pc = "opening", ![p].task = task]
  /\ UNCHANGED file

(* openSync(path, "wx"): creates the file or fails with EEXIST.            *)
Open(p) ==
  /\ proc[p].pc = "opening"
  /\ IF proc[p].tries = MaxAttempts THEN Goes(p, "done") /\ UNCHANGED file
     ELSE IF file = None
     THEN Goes(p, "writing") /\ file' = [by |-> p, pid |-> None]
     ELSE Goes(p, "failed") /\ UNCHANGED file

(* writeSync goes to the inode p created, linked to the path or not.       *)
Write(p) ==
  /\ proc[p].pc = "writing"
  /\ file' = IF file # None /\ file.by = p THEN [by |-> p, pid |-> p] ELSE file
  /\ Goes(p, "daemon")

ReadHolder(p) ==
  /\ proc[p].pc = "failed"
  /\ Finds(p, "judging")
  /\ UNCHANGED file

(* Slip: the process table is not asked.                                   *)
AnyHolderStale(p) == TRUE

(* No pid in the file, or a dead one.                                      *)
Stale(p) == proc[p].found = None \/ ~Alive(proc[p].found)

(* A live holder: give up, or stop it first when asked to replace it.      *)
Judge(p) ==
  /\ proc[p].pc = "judging"
  /\ IF Stale(p) THEN Goes(p, "removing")
     ELSE Goes(p, IF proc[p].task = "replace" THEN "stopReading" ELSE "done")
  /\ UNCHANGED file

Remove(p) ==
  /\ proc[p].pc = "removing"
  /\ file' = None
  /\ proc' = [proc EXCEPT ![p].pc = "opening", ![p].tries = @ + 1]

-----------------------------------------------------------------------------
(* stopActiveDaemon, and what follows it: `loctx start --replace` acquires *)
(* the lock once more, `loctx stop` exits.                                 *)

Stop(p) ==
  /\ proc[p].pc = "new"
  /\ Goes(p, "stopReading")
  /\ UNCHANGED file

StopRead(p) ==
  /\ proc[p].pc = "stopReading"
  /\ Finds(p, "stopJudging")
  /\ UNCHANGED file

StopJudge(p) ==
  /\ proc[p].pc = "stopJudging"
  /\ Goes(p, IF Stale(p) THEN "cleaning" ELSE "rereading")
  /\ UNCHANGED file

(* The file is read again and must name the same pid.                      *)
Reread(p) ==
  /\ proc[p].pc = "rereading"
  /\ Goes(p, IF Recorded = proc[p].found THEN "killing" ELSE "cleaning")
  /\ UNCHANGED file

Polling == "waiting"

(* SIGTERM: a daemon drains, or dies of it while it is still starting up   *)
(* and when the signal comes again.  process.kill throws if it is gone.    *)
Kill(p) ==
  LET q == proc[p].found IN
  /\ proc[p].pc = "killing"
  /\ IF ~Alive(q) THEN Goes(p, "done")
     ELSE \E pc \in {"dead", IF proc[q].pc = "daemon" THEN "draining" ELSE proc[q].pc} :
            proc' = [proc EXCEPT ![p].pc = Polling, ![q].pc = pc]
  /\ UNCHANGED file

(* The daemon is gone, or out of time and killed.                          *)
Waited(p) ==
  LET q == proc[p].found IN
  /\ proc[p].pc = "waiting"
  /\ proc' = [proc EXCEPT ![p].pc = "cleaning",
                          ![q].pc = IF Alive(q) THEN "dead" ELSE @]
  /\ UNCHANGED file

Clean(p) ==
  /\ proc[p].pc = "cleaning"
  /\ file' = None
  /\ proc' = [proc EXCEPT ![p].pc = IF proc[p].task = "stop" THEN "done" ELSE "opening",
                          ![p].task = IF @ = "replace" THEN "start" ELSE @,
                          ![p].tries = 0]

-----------------------------------------------------------------------------
(* The daemon: SIGINT from its terminal, the drain, releaseLockFile and    *)
(* SIGKILL.                                                                *)

Interrupt(p) ==
  /\ proc[p].pc = "daemon"
  /\ Goes(p, "draining")
  /\ UNCHANGED file

(* The store is closed, release reads the file.                            *)
Drained(p) ==
  /\ proc[p].pc = "draining"
  /\ Finds(p, "releasing")
  /\ UNCHANGED file

Release(p) ==
  /\ proc[p].pc = "releasing"
  /\ file' = IF proc[p].found \in {None, p} THEN None ELSE file
  /\ Goes(p, "released")

Exit(p) ==
  /\ proc[p].pc = "released"
  /\ Goes(p, "dead")
  /\ UNCHANGED file

(* Any process may be killed or fail at any time.                          *)
Dies(p) ==
  /\ Alive(p)
  /\ Goes(p, "dead")
  /\ UNCHANGED file

-----------------------------------------------------------------------------
Acquires(p) == Open(p) \/ Write(p) \/ ReadHolder(p) \/ Judge(p) \/ Remove(p)
Stops(p) == StopRead(p) \/ StopJudge(p) \/ Reread(p) \/ Kill(p) \/ Waited(p) \/ Clean(p)
ShutsDown(p) == Drained(p) \/ Release(p) \/ Exit(p)

Begins(p) == Stop(p) \/ \E task \in {"start", "replace"} : Start(p, task)

Steps(p) == Acquires(p) \/ Stops(p) \/ ShutsDown(p)

Next == \E p \in Proc : Begins(p) \/ Steps(p) \/ Interrupt(p) \/ Dies(p)

Spec == Init /\ [][Next]_vars

(* One command at a time: nobody starts or stops while another command is  *)
(* under way.                                                              *)
Commanding(p) == Alive(p) /\ proc[p].pc \notin {"daemon", "draining", "releasing", "released"}

SoloNext ==
  \E p \in Proc :
    \/ Begins(p) /\ \A q \in Proc : ~Commanding(q)
    \/ Steps(p) \/ Interrupt(p) \/ Dies(p)

SoloSpec == Init /\ [][SoloNext]_vars
FairSoloSpec == SoloSpec /\ \A p \in Proc : WF_vars(Steps(p))

(* No process dies and none is asked to stop.                              *)
StartNext == \E p \in Proc : Start(p, "start") \/ Acquires(p)
StartSpec == Init /\ [][StartNext]_vars

-----------------------------------------------------------------------------
(* Types: the lock file and the processes.                               *)
TypeOK ==
  /\ file \in LockFile \cup {None}
  /\ proc \in [Proc -> Fields]

(* "we enforce one at a time via a PID file": never two processes that use *)
(* the data directory.                                                     *)
AtMostOneDaemon == \A p, q \in Proc : Serving(p) /\ Serving(q) => p = q

(* While a daemon is up the file names it, for `loctx stop`, for the       *)
(* clients that look for its port and for the next start.                  *)
LockNamesDaemon == \A p \in Proc : Serving(p) => Recorded = p

(* At most one daemon, and the file names it.                              *)
SoleDaemon == AtMostOneDaemon /\ LockNamesDaemon

(* No command hangs: the attempts of acquire are bounded and stop does not *)
(* wait for a daemon that does not die.                                    *)
CommandsEnd == \A p \in Proc : Commanding(p) ~> ~Commanding(p)
=============================================================================
