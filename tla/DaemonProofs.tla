---------------------------- MODULE DaemonProofs ----------------------------
(***************************************************************************)
(* Proofs about the daemon and the processes around it, for any number of  *)
(* them: the lock, the requests that activate a project, a switch of the   *)
(* model, the consent to fetch one, a command beside the daemon, the calls *)
(* of MCP tools, the daemon's own life, and analyzers switched on in it.   *)
(***************************************************************************)
EXTENDS DaemonLock, Activation, ModelSwitch, ModelConsent, Commands, McpServer,
        DaemonLife, LiveConfig, FiniteSetTheorems, TLAPS

(***************************************************************************)
(* DaemonLock: as long as nobody runs two commands at once, at most one    *)
(* daemon serves the data directory and the file names it, through crashes *)
(* at any point.                                                           *)
(***************************************************************************)
(* A daemon that has not removed its file yet.                             *)
Holding(p) == proc[p].pc \in {"daemon", "draining", "releasing"}

Nobody == \A p \in Proc : ~Holding(p)

OneCommand == \A p, q \in Proc : Commanding(p) /\ Commanding(q) => p = q

(* The file is the holder's from its write to its release.                 *)
HolderNamed ==
  \A p \in Proc :
    /\ Holding(p) => file = [by |-> p, pid |-> p]
    /\ proc[p].pc = "releasing" => proc[p].found = p
    /\ proc[p].pc = "writing" => file = [by |-> p, pid |-> None]

(* What a command has read of the file still holds, unless its holder has  *)
(* released it meanwhile; and it removes the file only when nobody holds.  *)
ReadIsTrue ==
  \A p \in Proc :
    /\ proc[p].pc \in {"judging", "stopJudging"} => Recorded \in {proc[p].found, None}
    /\ proc[p].pc \in {"rereading", "killing", "waiting"} =>
         proc[p].found \in Proc /\ Recorded \in {proc[p].found, None}
    /\ proc[p].pc \in {"removing", "cleaning"} => Nobody

(* The tries of acquire are counted up to the limit.                       *)
TriesBelow ==
  \A p \in Proc : proc[p].pc \in {"failed", "judging", "removing"} => proc[p].tries < MaxAttempts

LockInv == TypeOK /\ TriesBelow /\ OneCommand /\ HolderNamed /\ ReadIsTrue

-----------------------------------------------------------------------------
(* The invariant holds before any process runs.                            *)
LEMMA InitLock == Init => LockInv
  BY DEF Init, LockInv, TypeOK, Fields, OneCommand, HolderNamed, ReadIsTrue, Nobody,
         Holding, Commanding, Alive, MaxAttempts, TriesBelow

(* What the file records is a process or nothing.                          *)
LEMMA RecordedType == TypeOK => Recorded \in Proc \cup {None}
  BY DEF TypeOK, LockFile, Recorded

(* A holder is what the file records.                                      *)
LEMMA HolderRecorded ==
  ASSUME LockInv, NEW h \in Proc, Holding(h)
  PROVE  Recorded = h /\ file # None /\ Alive(h)
  BY ProcAssumption DEF LockInv, HolderNamed, Recorded, Holding, Alive

(* What a step of the only command has to respect: other holders' file, and *)
(* what its own program counter promises about the file.                   *)
Promises(p, r) ==
  /\ r.pc \in {"failed", "judging", "removing"} => r.tries < MaxAttempts
  /\ r.pc \notin {"draining", "releasing"}
  /\ r.pc = "daemon" => file' = [by |-> p, pid |-> p]
  /\ r.pc = "writing" => file' = [by |-> p, pid |-> None]
  /\ r.pc \in {"judging", "stopJudging", "rereading", "killing", "waiting"} =>
       Recorded' \in {r.found, None}
  /\ r.pc \in {"rereading", "killing", "waiting"} => r.found \in Proc
  /\ r.pc \in {"removing", "cleaning"} => Nobody

(* A command whose step keeps its promises preserves the invariant.        *)
LEMMA CommandInd ==
  ASSUME LockInv, NEW p \in Proc, \A q \in Proc : Commanding(q) => q = p, ~Holding(p),
         NEW r \in Fields, proc' = [proc EXCEPT ![p] = r], Promises(p, r),
         file' \in LockFile \cup {None},
         file' = file \/ Nobody
  PROVE  LockInv'
<1> USE DEF LockInv
<1>1. \A q \in Proc : proc'[q] = IF q = p THEN r ELSE proc[q]
  BY DEF TypeOK
<1>2. TypeOK'
  BY DEF TypeOK
<1>3. TriesBelow'
  BY <1>1 DEF TriesBelow, Promises
<1>4. OneCommand'
  BY <1>1 DEF OneCommand, Commanding, Alive
<1>5. \A q \in Proc : q # p => proc'[q].pc \notin {"writing", "failed", "judging", "removing",
        "stopJudging", "rereading", "killing", "waiting", "cleaning"}
  BY <1>1 DEF Commanding, Alive
<1>6. \A q \in Proc : Holding(q)' => q = p \/ (Holding(q) /\ file' = file)
  BY <1>1 DEF Holding, Nobody
<1>7. HolderNamed'
  <2> SUFFICES ASSUME NEW q \in Proc
               PROVE  /\ Holding(q)' => file' = [by |-> q, pid |-> q]
                      /\ proc'[q].pc = "releasing" => proc'[q].found = q
                      /\ proc'[q].pc = "writing" => file' = [by |-> q, pid |-> None]
    BY DEF HolderNamed
  <2>1. CASE q = p
    BY <2>1, <1>1 DEF Promises, Holding
  <2>2. CASE q # p
    BY <2>2, <1>1, <1>5, <1>6 DEF HolderNamed
  <2> QED BY <2>1, <2>2
<1>8. r.pc \in {"removing", "cleaning"} => Nobody'
  BY <1>1 DEF Promises, Nobody, Holding
<1>9. ReadIsTrue'
  BY <1>1, <1>5, <1>8 DEF ReadIsTrue, Promises
<1> QED BY <1>2, <1>3, <1>4, <1>7, <1>9

(* Whoever runs a command runs it alone, and does not hold.                *)
LEMMA OnlyCommand ==
  ASSUME LockInv, NEW p \in Proc, Commanding(p)
  PROVE  (\A q \in Proc : Commanding(q) => q = p) /\ ~Holding(p)
  BY DEF LockInv, OneCommand, Commanding, Holding

(* The file is a lock file or absent.                                      *)
LEMMA FileType == LockInv => file \in LockFile \cup {None}
  BY DEF LockInv, TypeOK

-----------------------------------------------------------------------------
(* The steps of acquireDaemonLock.                                         *)
LEMMA OpenInd ==
  ASSUME LockInv, NEW p \in Proc, Open(p)
  PROVE  LockInv'
<1>1. Commanding(p)
  BY DEF Open, Commanding, Alive
<1>2. PICK pc \in {"done", "writing", "failed"} :
        /\ proc' = [proc EXCEPT ![p].pc = pc]
        /\ pc = "writing" => file = None /\ file' = [by |-> p, pid |-> None]
        /\ pc # "writing" => file' = file
        /\ pc = "failed" => proc[p].tries # MaxAttempts
  BY DEF Open, Goes
<1> DEFINE r == [proc[p] EXCEPT !.pc = pc]
<1>3. proc' = [proc EXCEPT ![p] = r] /\ r \in Fields /\ r.pc = pc /\ r.tries = proc[p].tries
  BY <1>2 DEF LockInv, TypeOK, Fields
<1>4. file' = file \/ Nobody
  BY <1>2, HolderRecorded DEF Nobody
<1>5. Promises(p, r)
  BY <1>2, <1>3 DEF Promises, LockInv, TypeOK, Fields, MaxAttempts
<1>6. file' \in LockFile \cup {None}
  BY <1>2, FileType DEF LockFile
<1> QED BY <1>1, <1>3, <1>4, <1>5, <1>6, OnlyCommand, CommandInd

(* The file p created is still there: nobody else runs a command.          *)
LEMMA WriteInd ==
  ASSUME LockInv, NEW p \in Proc, Write(p)
  PROVE  LockInv'
<1>1. Commanding(p)
  BY DEF Write, Commanding, Alive
<1>2. file = [by |-> p, pid |-> None] /\ file # None
  BY ProcAssumption DEF Write, LockInv, HolderNamed
<1>3. file' = [by |-> p, pid |-> p] /\ proc' = [proc EXCEPT ![p].pc = "daemon"]
  BY <1>2 DEF Write, Goes
<1> DEFINE r == [proc[p] EXCEPT !.pc = "daemon"]
<1>4. proc' = [proc EXCEPT ![p] = r] /\ r \in Fields /\ r.pc = "daemon"
  BY <1>3 DEF LockInv, TypeOK, Fields
<1>5. Nobody
  BY <1>2, ProcAssumption DEF Nobody, LockInv, HolderNamed
<1> QED BY <1>1, <1>3, <1>4, <1>5, OnlyCommand, CommandInd DEF Promises, LockFile

(* What was just read is true, for acquire and for stop.                   *)
LEMMA ReadsInd ==
  ASSUME LockInv, NEW p \in Proc, ReadHolder(p) \/ StopRead(p)
  PROVE  LockInv'
<1>1. PICK pc \in {"judging", "stopJudging"} :
        /\ proc' = [proc EXCEPT ![p].pc = pc, ![p].found = Recorded]
        /\ file' = file
        /\ pc = "judging" => proc[p].tries < MaxAttempts
  BY DEF ReadHolder, StopRead, Finds, LockInv, TriesBelow
<1>2. Commanding(p)
  BY DEF ReadHolder, StopRead, Commanding, Alive
<1> DEFINE r == [proc[p] EXCEPT !.pc = pc, !.found = Recorded]
<1>3. /\ proc' = [proc EXCEPT ![p] = r] /\ r \in Fields
      /\ r.pc = pc /\ r.tries = proc[p].tries /\ r.found = Recorded
  BY <1>1, RecordedType DEF LockInv, TypeOK, Fields
<1>4. Recorded' = Recorded
  BY <1>1 DEF Recorded
<1>5. Promises(p, r)
  BY <1>1, <1>3, <1>4 DEF Promises
<1> QED BY <1>1, <1>2, <1>3, <1>5, OnlyCommand, FileType, CommandInd

(* A judgement goes on to remove the file only when nobody holds it: the   *)
(* holder that was read is dead, or the file has lost it.                  *)
LEMMA JudgesInd ==
  ASSUME LockInv, NEW p \in Proc, Judge(p) \/ StopJudge(p) \/ Reread(p)
  PROVE  LockInv'
<1>1. PICK pc \in {"removing", "stopReading", "done", "cleaning", "rereading", "killing"} :
        /\ proc' = [proc EXCEPT ![p].pc = pc] /\ file' = file
        /\ pc = "removing" => proc[p].tries < MaxAttempts
        /\ Recorded \in {proc[p].found, None}
        /\ pc \in {"removing", "cleaning"} =>
             Recorded = None \/ proc[p].found = None \/ ~Alive(proc[p].found)
        /\ pc \in {"rereading", "killing"} => proc[p].found \in Proc
  <2>1. CASE Judge(p)
    BY <2>1 DEF Judge, Stale, Goes, LockInv, TriesBelow, ReadIsTrue
  <2>2. CASE StopJudge(p)
    BY <2>2 DEF StopJudge, Stale, Goes, LockInv, ReadIsTrue, TypeOK, Fields
  <2>3. CASE Reread(p)
    BY <2>3 DEF Reread, Goes, LockInv, ReadIsTrue
  <2> QED BY <2>1, <2>2, <2>3
<1>2. Commanding(p)
  BY DEF Judge, StopJudge, Reread, Commanding, Alive
<1> DEFINE r == [proc[p] EXCEPT !.pc = pc]
<1>3. /\ proc' = [proc EXCEPT ![p] = r] /\ r \in Fields
      /\ r.pc = pc /\ r.tries = proc[p].tries /\ r.found = proc[p].found
  BY <1>1 DEF LockInv, TypeOK, Fields
<1>4. pc \in {"removing", "cleaning"} => Nobody
  BY <1>1, HolderRecorded, ProcAssumption DEF Nobody
<1>5. Recorded' = Recorded
  BY <1>1 DEF Recorded
<1>6. Promises(p, r)
  BY <1>1, <1>3, <1>4, <1>5 DEF Promises
<1> QED BY <1>1, <1>2, <1>3, <1>6, OnlyCommand, FileType, CommandInd

(* Then it removes nothing of a holder's, and start may try again.         *)
LEMMA RemovesInd ==
  ASSUME LockInv, NEW p \in Proc, Remove(p) \/ Clean(p)
  PROVE  LockInv'
<1> DEFINE r == IF proc[p].pc = "removing"
                THEN [proc[p] EXCEPT !.pc = "opening", !.tries = @ + 1]
                ELSE [proc[p] EXCEPT !.pc = IF proc[p].task = "stop" THEN "done" ELSE "opening",
                                     !.task = IF @ = "replace" THEN "start" ELSE @,
                                     !.tries = 0]
<1>1. proc' = [proc EXCEPT ![p] = r] /\ file' = None
  BY DEF Remove, Clean, LockInv, TypeOK, Fields
<1>2. Nobody
  BY DEF Remove, Clean, LockInv, ReadIsTrue
<1>3. Commanding(p)
  BY DEF Remove, Clean, Commanding, Alive
<1>4. r \in Fields
  <2>1. proc[p] \in Fields
    BY DEF LockInv, TypeOK
  <2>2. 0 \in 0..MaxAttempts
    BY DEF MaxAttempts
  <2>3. CASE proc[p].pc = "removing"
    <3>1. proc[p].tries + 1 \in 0..MaxAttempts
      BY <2>1, <2>3 DEF LockInv, TriesBelow, Fields, MaxAttempts
    <3> QED BY <2>1, <2>3, <3>1 DEF Fields
  <2>4. CASE proc[p].pc # "removing"
    <3> DEFINE pc == IF proc[p].task = "stop" THEN "done" ELSE "opening"
               task == IF proc[p].task = "replace" THEN "start" ELSE proc[p].task
    <3>1. task \in {"start", "replace", "stop"} /\ r = [proc[p] EXCEPT !.pc = pc, !.task = task, !.tries = 0]
      BY <2>1, <2>4 DEF Fields
    <3>2. pc \in {"done", "opening"}
      OBVIOUS
    <3> HIDE DEF pc, task
    <3>3. [proc[p] EXCEPT !.pc = pc, !.task = task, !.tries = 0] \in Fields
      BY <2>1, <2>2, <3>1, <3>2 DEF Fields
    <3> QED BY <3>1, <3>3
  <2> QED BY <2>3, <2>4
<1>5. r.pc \in {"opening", "done"}
  BY DEF LockInv, TypeOK, Fields
<1>6. Promises(p, r)
  BY <1>5 DEF Promises
<1> QED BY <1>1, <1>2, <1>3, <1>4, <1>6, OnlyCommand, CommandInd

-----------------------------------------------------------------------------
(* A process that only leaves, or goes on serving, disturbs nothing.        *)
LEMMA QuietInd ==
  ASSUME LockInv, NEW p \in Proc, NEW pc \in {"draining", "releasing", "released", "dead", "done"},
         proc' = [proc EXCEPT ![p].pc = pc] \/ proc' = [proc EXCEPT ![p].pc = pc, ![p].found = p],
         pc \in {"draining", "releasing"} => Holding(p),
         pc = "releasing" => proc'[p].found = p,
         pc = "released" => proc[p].pc = "releasing",
         file' = file \/ (file' = None /\ pc = "released")
  PROVE  LockInv'
<1> USE DEF LockInv
<1>1. /\ \A r \in Proc : proc'[r].pc = IF r = p THEN pc ELSE proc[r].pc
      /\ \A r \in Proc : r # p => proc'[r].found = proc[r].found
      /\ \A r \in Proc : proc'[r].tries = proc[r].tries
  BY DEF TypeOK, Fields
<1>2. TypeOK'
  BY DEF TypeOK, Fields
<1>3. TriesBelow'
  BY <1>1 DEF TriesBelow, MaxAttempts
<1>4. \A r \in Proc : Commanding(r)' => Commanding(r)
  BY <1>1 DEF Commanding, Alive
<1>5. OneCommand'
  BY <1>4 DEF OneCommand
<1>6. \A r \in Proc : Holding(r)' => Holding(r)
  BY <1>1 DEF Holding
<1>7. Nobody => Nobody'
  BY <1>6 DEF Nobody
<1>8. ASSUME file' = None, pc = "released", NEW r \in Proc PROVE ~Holding(r)' /\ proc'[r].pc # "writing"
  <2>1. file = [by |-> p, pid |-> p] /\ Holding(p)
    BY <1>8 DEF HolderNamed, Holding
  <2> QED BY <2>1, <1>1, <1>6, <1>8, ProcAssumption DEF HolderNamed, Holding
<1>9. HolderNamed'
  BY <1>1, <1>6, <1>8 DEF HolderNamed, Holding
<1>10. Recorded' \in {Recorded, None}
  BY DEF Recorded
<1>11. ReadIsTrue'
  BY <1>1, <1>7, <1>10 DEF ReadIsTrue
<1> QED BY <1>2, <1>3, <1>5, <1>9, <1>11

(* What a signal may do to the process that was read.                      *)
GotSignal(p, q, pc) ==
  /\ \/ pc \in {"dead", proc[q].pc}
     \/ pc = "draining" /\ proc[q].pc = "daemon"
  /\ file' = file

(* The command and its target move; nobody else, and not the file.         *)
LEMMA SignalInd ==
  ASSUME LockInv, NEW p \in Proc, NEW q \in Proc, NEW pc, NEW own \in {"waiting", "cleaning"},
         Commanding(p), proc[p].found = q, Recorded \in {q, None}, GotSignal(p, q, pc),
         own = "cleaning" => ~Alive(q) \/ pc = "dead",
         proc' = [proc EXCEPT ![p].pc = own, ![q].pc = pc]
  PROVE  LockInv'
<1> USE DEF LockInv
<1>1. pc \in {"dead", "draining", proc[q].pc}
  BY DEF GotSignal
<1>2. \A r \in Proc : proc'[r] = IF r = q THEN [proc[q] EXCEPT !.pc = pc]
                                 ELSE IF r = p THEN [proc[p] EXCEPT !.pc = own] ELSE proc[r]
  BY DEF TypeOK, Fields
<1>3. TypeOK'
  BY <1>1, <1>2 DEF TypeOK, Fields, GotSignal
<1>4. /\ \A r \in Proc : proc'[r].found = proc[r].found /\ proc'[r].tries = proc[r].tries
      /\ \A r \in Proc : proc'[r].pc = IF r = q THEN pc ELSE IF r = p THEN own ELSE proc[r].pc
  BY <1>2 DEF TypeOK, Fields
<1>5. /\ pc \in {"dead", "draining"} \/ pc = proc[q].pc
      /\ pc = "draining" => proc[q].pc \in {"daemon", "draining"}
  BY DEF GotSignal
<1>6. ASSUME NEW r \in Proc, proc'[r].pc \notin {"dead", "draining", "waiting", "cleaning"}
       PROVE  proc'[r].pc = proc[r].pc
  <2>1. CASE r = q
    BY <2>1, <1>4, <1>5, <1>6
  <2>2. CASE r # q
    BY <2>2, <1>4, <1>6
  <2> QED BY <2>1, <2>2
<1>10. TriesBelow'
  BY <1>4, <1>6 DEF TriesBelow
<1>7. ASSUME NEW r \in Proc, Commanding(r)' PROVE Commanding(r)
  <2>1. CASE r = q
    BY <2>1, <1>4, <1>5, <1>7 DEF Commanding, Alive
  <2>2. CASE r # q /\ r = p
    BY <2>2
  <2>3. CASE r # q /\ r # p
    BY <2>3, <1>4, <1>7 DEF Commanding, Alive
  <2> QED BY <2>1, <2>2, <2>3
<1>8. ASSUME NEW r \in Proc, Holding(r)' PROVE Holding(r)
  <2>1. CASE r = q
    BY <2>1, <1>4, <1>5, <1>8 DEF Holding
  <2>2. CASE r # q
    <3>1. r # p
      BY <2>2, <1>4, <1>8 DEF Holding
    <3> QED BY <2>2, <3>1, <1>4, <1>8 DEF Holding
  <2> QED BY <2>1, <2>2
<1>9. OneCommand'
  BY <1>7 DEF OneCommand
<1>11. HolderNamed'
  <2> SUFFICES ASSUME NEW r \in Proc
               PROVE  /\ Holding(r)' => file' = [by |-> r, pid |-> r]
                      /\ proc'[r].pc = "releasing" => proc'[r].found = r
                      /\ proc'[r].pc = "writing" => file' = [by |-> r, pid |-> None]
    BY DEF HolderNamed
  <2>1. file' = file
    BY DEF GotSignal
  <2>2. Holding(r)' => file' = [by |-> r, pid |-> r]
    BY <2>1, <1>8 DEF HolderNamed
  <2>3. ASSUME proc'[r].pc = "releasing" PROVE proc'[r].found = r
    <3>1. proc[r].pc = "releasing"
      BY <2>3, <1>6
    <3> QED BY <3>1, <1>4 DEF HolderNamed
  <2>4. ASSUME proc'[r].pc = "writing" PROVE file' = [by |-> r, pid |-> None]
    <3>1. proc[r].pc = "writing"
      BY <2>4, <1>6
    <3> QED BY <2>1, <3>1 DEF HolderNamed
  <2> QED BY <2>2, <2>3, <2>4
<1>12. ASSUME own = "cleaning", NEW h \in Proc, Holding(h)' PROVE FALSE
  <2>1. h = q
    BY <1>8, <1>12, HolderRecorded, ProcAssumption
  <2>2. Alive(q) /\ pc # "dead"
    BY <2>1, <1>8, <1>12, <1>4, HolderRecorded DEF Holding
  <2> QED BY <2>2, <1>12
<1>13. Nobody => Nobody'
  BY <1>8 DEF Nobody
<1>14. Recorded' = Recorded
  BY DEF Recorded, GotSignal
<1>15. ASSUME NEW r \in Proc, proc'[r].pc = "waiting" PROVE r = p \/ proc[r].pc = "waiting"
  <2>1. CASE r = q
    BY <2>1, <1>4, <1>5, <1>15
  <2>2. CASE r # q
    BY <2>2, <1>4, <1>15
  <2> QED BY <2>1, <2>2
<1>16. \A r \in Proc : proc'[r].pc = "cleaning" => Nobody'
  <2> SUFFICES ASSUME NEW r \in Proc, proc'[r].pc = "cleaning", own # "cleaning" PROVE Nobody'
    BY <1>12 DEF Nobody
  <2>1. proc[r].pc = "cleaning"
    <3>1. CASE r = q
      BY <3>1, <1>4, <1>5
    <3>2. r = q \/ r = p \/ proc'[r].pc = proc[r].pc
      BY <1>4
    <3>3. r # q /\ r = p => proc'[r].pc = own
      BY <1>4
    <3> QED BY <3>1, <3>2, <3>3
  <2> QED BY <2>1, <1>13 DEF ReadIsTrue
<1>17. ReadIsTrue'
  <2> SUFFICES ASSUME NEW r \in Proc
               PROVE  /\ proc'[r].pc \in {"judging", "stopJudging"} => Recorded' \in {proc'[r].found, None}
                      /\ proc'[r].pc \in {"rereading", "killing"} =>
                           proc'[r].found \in Proc /\ Recorded' \in {proc'[r].found, None}
                      /\ proc'[r].pc = "waiting" =>
                           proc'[r].found \in Proc /\ Recorded' \in {proc'[r].found, None}
                      /\ proc'[r].pc \in {"removing", "cleaning"} => Nobody'
    BY DEF ReadIsTrue
  <2>1. proc'[r].pc \in {"judging", "stopJudging"} => Recorded' \in {proc'[r].found, None}
    BY <1>4, <1>6, <1>14 DEF ReadIsTrue
  <2>2. proc'[r].pc \in {"rereading", "killing"} =>
          proc'[r].found \in Proc /\ Recorded' \in {proc'[r].found, None}
    BY <1>4, <1>6, <1>14 DEF ReadIsTrue
  <2>3. ASSUME proc'[r].pc = "waiting"
        PROVE  proc'[r].found \in Proc /\ Recorded' \in {proc'[r].found, None}
    <3>1. CASE r = p
      BY <3>1, <1>4, <1>14
    <3>2. CASE proc[r].pc = "waiting"
      BY <3>2, <1>4, <1>14 DEF ReadIsTrue
    <3> QED BY <2>3, <3>1, <3>2, <1>15
  <2>4. proc'[r].pc \in {"removing", "cleaning"} => Nobody'
    BY <1>6, <1>13, <1>16 DEF ReadIsTrue
  <2> QED BY <2>1, <2>2, <2>3, <2>4
<1> QED BY <1>3, <1>10, <1>9, <1>11, <1>17

(* The signal goes to the process that was read, which nobody replaced.    *)
LEMMA KillInd ==
  ASSUME LockInv, NEW p \in Proc, Kill(p)
  PROVE  LockInv'
<1> DEFINE q == proc[p].found
<1>1. q \in Proc /\ Recorded \in {q, None} /\ proc[p].pc = "killing" /\ file' = file
  BY DEF Kill, LockInv, ReadIsTrue
<1>2. Commanding(p)
  BY <1>1 DEF Commanding, Alive
<1>3. CASE proc' = [proc EXCEPT ![p].pc = "done"]
  BY <1>1, <1>2, <1>3, QuietInd
<1>4. CASE \E pc : GotSignal(p, q, pc) /\ proc' = [proc EXCEPT ![p].pc = "waiting", ![q].pc = pc]
  BY <1>1, <1>2, <1>4, SignalInd
<1> QED BY <1>1, <1>3, <1>4 DEF Kill, Goes, Polling, GotSignal

(* The daemon that was waited for is gone: nobody else could have held.    *)
LEMMA WaitedInd ==
  ASSUME LockInv, NEW p \in Proc, Waited(p)
  PROVE  LockInv'
<1> DEFINE q == proc[p].found
           pc == IF Alive(q) THEN "dead" ELSE IF q = p THEN "cleaning" ELSE proc[q].pc
<1>1. q \in Proc /\ Recorded \in {q, None} /\ proc[p].pc = "waiting" /\ file' = file
  BY DEF Waited, LockInv, ReadIsTrue
<1>2. Commanding(p) /\ Alive(p)
  BY <1>1 DEF Commanding, Alive
<1>3. GotSignal(p, q, pc)
  BY <1>1, <1>2 DEF GotSignal
<1>4. proc' = [proc EXCEPT ![p].pc = "cleaning", ![q].pc = pc]
  BY <1>1, <1>2 DEF Waited, LockInv, TypeOK, Fields
<1>5. ~Alive(q) \/ pc = "dead"
  OBVIOUS
<1> QED BY <1>1, <1>2, <1>3, <1>4, <1>5, SignalInd

(* The daemon's own end, and anybody's.                                    *)
LEMMA ServeInd ==
  ASSUME LockInv, NEW p \in Proc, Interrupt(p) \/ ShutsDown(p) \/ Dies(p)
  PROVE  LockInv'
<1>1. ASSUME Interrupt(p) PROVE LockInv'
  BY <1>1, QuietInd DEF Interrupt, Goes, Holding
<1>2. ASSUME Drained(p) PROVE LockInv'
  <2>1. Holding(p) /\ Recorded = p
    BY <1>2, HolderRecorded DEF Drained, Holding
  <2>2. proc' = [proc EXCEPT ![p].pc = "releasing", ![p].found = p]
    BY <1>2, <2>1 DEF Drained, Finds
  <2>3. proc'[p].found = p
    BY <2>2 DEF LockInv, TypeOK, Fields
  <2> QED BY <1>2, <2>1, <2>2, <2>3, QuietInd DEF Drained
<1>3. ASSUME Release(p) PROVE LockInv'
  BY <1>3, QuietInd DEF Release, Goes
<1>4. ASSUME Exit(p) \/ Dies(p) PROVE LockInv'
  BY <1>4, QuietInd DEF Exit, Dies, Goes
<1> QED BY <1>1, <1>2, <1>3, <1>4 DEF ShutsDown

(* A command that begins is the only one.                                  *)
LEMMA BeginInd ==
  ASSUME LockInv, NEW p \in Proc, Begins(p), \A q \in Proc : ~Commanding(q)
  PROVE  LockInv'
<1>1. PICK r \in Fields : /\ proc' = [proc EXCEPT ![p] = r] /\ file' = file
                          /\ r.pc \in {"opening", "stopReading"}
  <2>1. ASSUME NEW task \in {"start", "replace"}, Start(p, task)
        PROVE  /\ [proc[p] EXCEPT !.pc = "opening", !.task = task] \in Fields
               /\ proc' = [proc EXCEPT ![p] = [proc[p] EXCEPT !.pc = "opening", !.task = task]]
               /\ file' = file
    BY <2>1 DEF Start, LockInv, TypeOK, Fields
  <2>2. ASSUME Stop(p)
        PROVE  /\ [proc[p] EXCEPT !.pc = "stopReading"] \in Fields
               /\ proc' = [proc EXCEPT ![p] = [proc[p] EXCEPT !.pc = "stopReading"]]
               /\ file' = file
    BY <2>2 DEF Stop, Goes, LockInv, TypeOK, Fields
  <2>3. [proc[p] EXCEPT !.pc = "stopReading"].pc = "stopReading"
    BY DEF LockInv, TypeOK, Fields
  <2>4. \A task : [proc[p] EXCEPT !.pc = "opening", !.task = task].pc = "opening"
    BY DEF LockInv, TypeOK, Fields
  <2> QED BY <2>1, <2>2, <2>3, <2>4 DEF Begins
<1>2. ~Holding(p)
  BY DEF Begins, Start, Stop, Holding
<1> QED BY <1>1, <1>2, FileType, CommandInd DEF Promises

(* Every step of one command at a time preserves the invariant.            *)
LEMMA NextLock == LockInv /\ [SoloNext]_vars => LockInv'
<1> SUFFICES ASSUME LockInv, [SoloNext]_vars PROVE LockInv'
  OBVIOUS
<1>1. CASE UNCHANGED vars
  BY <1>1 DEF vars, LockInv, TypeOK, TriesBelow, OneCommand, HolderNamed, ReadIsTrue, Nobody,
              Holding, Commanding, Alive, Recorded
<1>2. CASE SoloNext
  <2> SUFFICES ASSUME NEW p \in Proc,
                      \/ Begins(p) /\ \A q \in Proc : ~Commanding(q)
                      \/ Steps(p) \/ Interrupt(p) \/ Dies(p)
               PROVE  LockInv'
    BY <1>2 DEF SoloNext
  <2>1. ASSUME Acquires(p) PROVE LockInv'
    BY <2>1, OpenInd, WriteInd, ReadsInd, JudgesInd, RemovesInd DEF Acquires
  <2>2. ASSUME Stops(p) PROVE LockInv'
    BY <2>2, ReadsInd, JudgesInd, RemovesInd, KillInd, WaitedInd DEF Stops
  <2> QED BY <2>1, <2>2, BeginInd, ServeInd DEF Steps
<1> QED BY <1>1, <1>2

(* The invariant holds while commands run one at a time.                   *)
LEMMA LockInvHolds == SoloSpec => []LockInv
  BY InitLock, NextLock, PTL DEF SoloSpec

(* With one command at a time, two processes never both use the data       *)
(* directory (acquireDaemonLock, stopActiveDaemon, releaseLockFile),       *)
(* through crashes at any point and any number of processes.               *)
THEOREM OneDaemon == SoloSpec => []AtMostOneDaemon
<1>1. LockInv => AtMostOneDaemon
  BY HolderRecorded DEF AtMostOneDaemon, Serving, Holding
<1> QED BY <1>1, LockInvHolds, PTL

(* And the daemon that serves is the one the file names, so that stop and  *)
(* the clients reach it.                                                   *)
THEOREM DaemonIsNamed == SoloSpec => []LockNamesDaemon
<1>1. LockInv => LockNamesDaemon
  BY HolderRecorded DEF LockNamesDaemon, Serving, Holding
<1> QED BY <1>1, LockInvHolds, PTL

(* So the lock does what it is for: one process at a time has the data     *)
(* directory, and everybody can tell which.                                *)
THEOREM LockIsSound == SoloSpec => []SoleDaemon
BY OneDaemon, DaemonIsNamed, PTL DEF SoleDaemon

-----------------------------------------------------------------------------
(***************************************************************************)
(* Activation: one watcher, an abortable pass and a truthful job.          *)
(***************************************************************************)
(* The activating set lets one caller attach at a time, and only while     *)
(* nothing is registered; a caller has no pass before its request is done, *)
(* and a controller that is kept is that of a running pass.                *)
ActivatingGuarded ==
  /\ \A c \in Caller : request[c] = "attaching" => activating /\ entry = None
  /\ \A c, d \in Caller : request[c] = "attaching" /\ request[d] = "attaching" => c = d
  /\ \A c \in Caller : request[c] # "idle" => pass[c] = Idle
  /\ \A c \in Caller : controller = c => pass[c].status = "running"

(* A running job has one owner: the pass of /api/rebuild or a tracked one. *)
JobOwned ==
  /\ \A c, d \in Caller : pass[c].tracked /\ pass[d].tracked => c = d
  /\ \A c \in Caller : pass[c].tracked => job = "running" /\ ~rebuilding
  /\ rebuilding => job = "running"
  /\ job = "running" => rebuilding \/ \E c \in Caller : pass[c].tracked

ActivationInv == ActivationTypeOK /\ ActivatingGuarded /\ OneWatcher /\ PassCanBeAborted /\ JobOwned

-----------------------------------------------------------------------------
(* Idle is a pass, and runs nothing.                                       *)
LEMMA IdleType == Idle \in Pass /\ Idle.status = "none" /\ Idle.tracked = FALSE
BY ActivationAssumption DEF Idle, Pass

(* What a kickoff does to each caller's pass.                              *)
LEMMA KickoffPass ==
  ASSUME ActivationTypeOK, NEW c \in Caller, Kickoff(c)
  PROVE  /\ pass' \in [Caller -> Pass]
         /\ pass'[c].tracked = (job # "running")
         /\ \A d \in Caller : d # c => pass'[d].tracked = pass[d].tracked
         /\ \A d \in Caller : d # c /\ pass'[d].status = "running" =>
              pass[d].status = "running" /\ d # controller
         /\ \A d \in Caller : d # c /\ pass[d] = Idle /\ d # controller => pass'[d] = Idle
<1> DEFINE new == [status |-> "running", left |-> Files, tracked |-> job # "running"]
           aborted(d) == [pass[d] EXCEPT !.status = "aborted"]
<1>1. pass \in [Caller -> Pass]
  BY DEF ActivationTypeOK
<1>2. pass'[c] = new
  BY DEF Kickoff
<1>3. \A d \in Caller : d # c => pass'[d] = IF d = controller THEN aborted(d) ELSE pass[d]
  BY DEF Kickoff
<1>4. new \in Pass /\ new.tracked = (job # "running")
  BY ActivationAssumption DEF Pass
<1>5. ASSUME NEW d \in Caller
      PROVE  aborted(d) \in Pass /\ aborted(d).tracked = pass[d].tracked
             /\ aborted(d).status = "aborted"
  BY <1>1 DEF Pass
<1> HIDE DEF new, aborted
<1>6. \A d \in Caller : pass'[d] \in Pass
  BY <1>1, <1>2, <1>3, <1>4, <1>5
<1>7. pass' = [d \in Caller |-> pass'[d]]
  BY DEF Kickoff
<1>8. pass' \in [Caller -> Pass]
  BY <1>6, <1>7
<1>9. \A d \in Caller : d # c => pass'[d].tracked = pass[d].tracked
  BY <1>3, <1>5
<1>10. \A d \in Caller : d # c /\ pass'[d].status = "running" =>
              pass[d].status = "running" /\ d # controller
  BY <1>3, <1>5
<1> QED
  BY <1>2, <1>3, <1>4, <1>8, <1>9, <1>10

-----------------------------------------------------------------------------
(* A kickoff leaves its own pass the only one that runs.                   *)
LEMMA KickoffRunning ==
  ASSUME ActivationTypeOK, ActivatingGuarded, PassCanBeAborted, NEW c \in Caller, Kickoff(c)
  PROVE  /\ PassCanBeAborted'
         /\ \A d \in Caller : controller' = d => pass'[d].status = "running"
         /\ \A d \in Caller : d # c /\ pass[d] = Idle => pass'[d] = Idle
<1>1. controller' = c /\ pass'[c].status = "running"
  BY DEF Kickoff
<1>2. ASSUME NEW d \in Caller, d # c
      PROVE  pass'[d].status # "running" /\ (pass[d] = Idle => pass'[d] = Idle)
  <2>1. d = controller => pass[d].status = "running"
    BY DEF ActivatingGuarded
  <2>2. d # controller => pass[d].status # "running"
    BY DEF PassCanBeAborted
  <2> QED
    BY <1>2, <2>1, <2>2, KickoffPass, IdleType
<1> QED
  BY <1>1, <1>2 DEF PassCanBeAborted

(* A kickoff whose caller had no pass leaves a job with one owner.         *)
LEMMA KickoffOwner ==
  ASSUME ActivationTypeOK, JobOwned, NEW c \in Caller, Kickoff(c), pass[c] = Idle
  PROVE  JobOwned'
<1>1. /\ pass'[c].tracked = (job # "running") /\ job' = "running" /\ rebuilding' = rebuilding
      /\ \A d \in Caller : d # c => pass'[d].tracked = pass[d].tracked
      /\ ~pass[c].tracked
  BY KickoffPass, IdleType DEF Kickoff
<1>2. CASE job = "running"
  BY <1>1, <1>2 DEF JobOwned
<1>3. CASE job # "running"
  BY <1>1, <1>3 DEF JobOwned
<1> QED
  BY <1>2, <1>3

(* The invariant holds before any request.                                 *)
LEMMA InitActivation == ActivationInit => ActivationInv
<1> SUFFICES ASSUME ActivationInit PROVE ActivationInv
  OBVIOUS
<1>1. \A c \in Caller : pass[c] = Idle /\ request[c] = "idle"
  BY DEF ActivationInit
<1>2. ActivationTypeOK
  BY ActivationAssumption, IdleType DEF ActivationInit, ActivationTypeOK
<1>3. ActivatingGuarded
  BY <1>1, ActivationAssumption DEF ActivatingGuarded, ActivationInit
<1>4. OneWatcher
  BY DEF OneWatcher, ActivationInit
<1>5. PassCanBeAborted
  BY <1>1, IdleType DEF PassCanBeAborted
<1>6. JobOwned
  BY <1>1, IdleType DEF JobOwned, ActivationInit
<1> QED
  BY <1>2, <1>3, <1>4, <1>5, <1>6 DEF ActivationInv

(* Requests that take up a project.                                        *)
LEMMA ReactivateStep ==
  ASSUME ActivationInv, NEW c \in Caller, Reactivate(c)
  PROVE  ActivationInv'
<1> USE DEF ActivationInv
<1>1. Kickoff(c) /\ request[c] = "idle"
  BY DEF Reactivate, Free
<1>2. ActivationTypeOK'
  BY <1>1, KickoffPass DEF Reactivate, Kickoff, ActivationTypeOK, requests
<1>3. ActivatingGuarded'
  BY <1>1, KickoffRunning DEF Reactivate, ActivatingGuarded, requests
<1>4. OneWatcher'
  BY DEF Reactivate, OneWatcher
<1>5. PassCanBeAborted' /\ JobOwned'
  BY <1>1, KickoffRunning, KickoffOwner, IdleType DEF Reactivate, Free
<1> QED
  BY <1>2, <1>3, <1>4, <1>5

(* A request that starts a watcher takes the project's activating mark.    *)
LEMMA ActivateStep ==
  ASSUME ActivationInv, NEW c \in Caller, Activate(c)
  PROVE  ActivationInv'
<1> USE DEF ActivationInv
<1>1. ActivationTypeOK'
  BY DEF Activate, ActivationTypeOK, tracker
<1>2. ActivatingGuarded'
  BY DEF Activate, Free, MayActivate, ActivatingGuarded, tracker, ActivationTypeOK
<1>3. OneWatcher' /\ PassCanBeAborted' /\ JobOwned'
  BY DEF Activate, OneWatcher, PassCanBeAborted, JobOwned, tracker
<1> QED
  BY <1>1, <1>2, <1>3

(* Only the request with the mark registers, and nothing was registered.   *)
LEMMA AttachedStep ==
  ASSUME ActivationInv, NEW c \in Caller, NEW w \in Watcher, Attached(c, w)
  PROVE  ActivationInv'
<1> USE DEF ActivationInv
<1>1. Kickoff(c) /\ request[c] = "attaching" /\ request' = [request EXCEPT ![c] = "idle"]
  BY DEF Attached, Answered
<1>2. pass[c] = Idle
  BY <1>1 DEF ActivatingGuarded
<1>3. ActivationTypeOK'
  BY <1>1, KickoffPass DEF Attached, Kickoff, ActivationTypeOK
<1>4. request'[c] = "idle" /\ \A d \in Caller : d # c => request'[d] = request[d] /\ request[d] # "attaching"
  BY <1>1 DEF ActivationTypeOK, ActivatingGuarded
<1>5. ActivatingGuarded'
  BY <1>1, <1>4, KickoffRunning DEF ActivatingGuarded
<1>6. OneWatcher'
  BY <1>1, ActivationAssumption DEF Attached, ActivatingGuarded, OneWatcher, ActivationTypeOK
<1>7. PassCanBeAborted' /\ JobOwned'
  BY <1>1, <1>2, KickoffRunning, KickoffOwner
<1> QED
  BY <1>3, <1>5, <1>6, <1>7

(* A failed start registers nothing and gives the mark back.               *)
LEMMA AttachFailsStep ==
  ASSUME ActivationInv, NEW c \in Caller, AttachFails(c)
  PROVE  ActivationInv'
<1> USE DEF ActivationInv
<1>1. ActivationTypeOK'
  <2>1. live' \subseteq Watcher
    BY DEF AttachFails, ActivationTypeOK
  <2>2. request' \in [Caller -> {"idle", "attaching", "stopping"}]
    BY DEF AttachFails, Answered, ActivationTypeOK
  <2>3. activating' = FALSE /\ lost' \in BOOLEAN /\ tangled' = TRUE
    BY DEF AttachFails, NotActivating
  <2> QED
    BY <2>1, <2>2, <2>3 DEF AttachFails, ActivationTypeOK, tracker
<1>2. ActivatingGuarded'
  BY DEF AttachFails, Answered, NotActivating, ActivatingGuarded, ActivationTypeOK
<1>3. OneWatcher'
  BY DEF AttachFails, OneWatcher
<1>4. PassCanBeAborted' /\ JobOwned'
  BY DEF AttachFails, PassCanBeAborted, JobOwned, tracker
<1> QED
  BY <1>1, <1>2, <1>3, <1>4

-----------------------------------------------------------------------------
(* A deactivation aborts the one pass that runs.                           *)
LEMMA DeactivateStep ==
  ASSUME ActivationInv, NEW c \in Caller, Deactivate(c)
  PROVE  ActivationInv'
<1> USE DEF ActivationInv
<1> DEFINE aborted(d) == [pass[d] EXCEPT !.status = "aborted"]
<1>1. ASSUME NEW d \in Caller
      PROVE  aborted(d) \in Pass /\ aborted(d).tracked = pass[d].tracked
             /\ aborted(d).status = "aborted"
  BY DEF ActivationTypeOK, Pass
<1>2. /\ pass' = [d \in Caller |-> pass'[d]]
      /\ \A d \in Caller : pass'[d] = IF d = controller THEN aborted(d) ELSE pass[d]
  BY DEF Deactivate
<1> HIDE DEF aborted
<1>3. \A d \in Caller : pass'[d] \in Pass /\ pass'[d].tracked = pass[d].tracked
  BY <1>1, <1>2 DEF ActivationTypeOK
<1>4. \A d \in Caller : pass'[d].status # "running"
  BY <1>1, <1>2 DEF PassCanBeAborted
<1>5. \A d \in Caller : pass[d] = Idle => pass'[d] = Idle
  BY <1>2, IdleType DEF ActivatingGuarded
<1>6. ActivationTypeOK'
  <2>1. pass' \in [Caller -> Pass]
    BY <1>2, <1>3
  <2> QED
    BY <2>1 DEF Deactivate, ActivationTypeOK, tracker
<1>7. ActivatingGuarded'
  <2>1. \A d \in Caller : d # c => request'[d] = request[d]
    BY DEF Deactivate, ActivationTypeOK
  <2>2. request[c] = "idle" /\ pass[c] = Idle /\ request'[c] # "attaching"
    BY DEF Deactivate, Free, ActivationTypeOK
  <2>3. controller' = None /\ UNCHANGED <<activating, entry>>
    BY DEF Deactivate
  <2> QED
    BY <1>5, <2>1, <2>2, <2>3, ActivationAssumption DEF ActivatingGuarded
<1>8. OneWatcher'
  BY DEF Deactivate, OneWatcher
<1>9. PassCanBeAborted'
  BY <1>4 DEF PassCanBeAborted
<1>10. JobOwned'
  BY <1>3 DEF Deactivate, JobOwned, tracker
<1> QED
  BY <1>6, <1>7, <1>8, <1>9, <1>10

(* The end of a deactivation unsubscribes the watcher it held.             *)
LEMMA DetachedStep ==
  ASSUME ActivationInv, NEW c \in Caller, Detached(c)
  PROVE  ActivationInv'
<1> USE DEF ActivationInv
<1>1. ActivationTypeOK'
  BY DEF Detached, Answered, Unregistered, ActivationTypeOK, tracker
<1>2. ActivatingGuarded'
  BY DEF Detached, Answered, Unregistered, ActivatingGuarded, ActivationTypeOK
<1>3. OneWatcher'
  BY ActivationAssumption DEF Detached, Unregistered, OneWatcher, ActivationTypeOK
<1>4. PassCanBeAborted' /\ JobOwned'
  BY DEF Detached, PassCanBeAborted, JobOwned, tracker
<1> QED
  BY <1>1, <1>2, <1>3, <1>4

-----------------------------------------------------------------------------
(* A pass that takes a file goes on as it was.                             *)
LEMMA PullFileStep ==
  ASSUME ActivationInv, NEW c \in Caller, PullFile(c)
  PROVE  ActivationInv'
<1> USE DEF ActivationInv
<1> DEFINE pulled == [pass[c] EXCEPT !.left = @ - 1]
<1>1. pass[c] \in Pass /\ pass[c].left > 0 /\ pass[c].status = "running"
  BY DEF PullFile, More, ActivationTypeOK
<1>2. pulled \in Pass /\ pulled.tracked = pass[c].tracked /\ pulled.status = "running"
  BY <1>1, ActivationAssumption DEF Pass
<1>3. pass' = [pass EXCEPT ![c] = pulled]
  BY DEF PullFile
<1> HIDE DEF pulled
<1>4. /\ pass' \in [Caller -> Pass]
      /\ \A d \in Caller : pass'[d].tracked = pass[d].tracked
      /\ \A d \in Caller : pass'[d].status = pass[d].status
      /\ \A d \in Caller : pass[d] = Idle => pass'[d] = Idle
  BY <1>1, <1>2, <1>3, IdleType DEF ActivationTypeOK
<1>5. ActivationTypeOK'
  BY <1>4 DEF PullFile, ActivationTypeOK, requests, tracker
<1>6. ActivatingGuarded' /\ OneWatcher' /\ PassCanBeAborted'
  BY <1>4 DEF PullFile, ActivatingGuarded, OneWatcher, PassCanBeAborted, requests
<1>7. JobOwned'
  BY <1>4 DEF PullFile, JobOwned, tracker
<1> QED
  BY <1>5, <1>6, <1>7

(* A pass that settles ends its own job and clears its own controller.     *)
LEMMA PassSettlesStep ==
  ASSUME ActivationInv, NEW c \in Caller, NEW s \in {"done", "failed"}, PassSettles(c, s)
  PROVE  ActivationInv'
<1> USE DEF ActivationInv
<1>1. /\ pass'[c] = Idle /\ \A d \in Caller : d # c => pass'[d] = pass[d]
      /\ pass' \in [Caller -> Pass]
  BY IdleType DEF PassSettles, ActivationTypeOK
<1>2. /\ controller' \in Caller \cup {None} /\ controller' # c
      /\ \A d \in Caller : d # c => (controller' = d <=> controller = d)
  BY ActivationAssumption DEF PassSettles, ClearedByOwner, ActivationTypeOK
<1>3. ActivationTypeOK'
  BY <1>1, <1>2 DEF PassSettles, JobAfter, ActivationTypeOK, requests
<1>4. ActivatingGuarded'
  BY <1>1, <1>2 DEF PassSettles, ActivatingGuarded, requests
<1>5. OneWatcher'
  BY DEF PassSettles, OneWatcher
<1>6. PassCanBeAborted'
  BY <1>1, <1>2, IdleType DEF PassCanBeAborted
<1>7. JobOwned'
  <2>1. ~pass'[c].tracked /\ rebuilding' = rebuilding
    BY <1>1, IdleType DEF PassSettles
  <2>2. CASE pass[c].tracked
    BY <1>1, <2>1, <2>2 DEF PassSettles, JobAfter, JobOwned
  <2>3. CASE ~pass[c].tracked
    BY <1>1, <2>1, <2>3 DEF PassSettles, JobAfter, JobOwned
  <2> QED
    BY <2>2, <2>3
<1> QED
  BY <1>3, <1>4, <1>5, <1>6, <1>7

-----------------------------------------------------------------------------
(* Marking a project active disturbs no watcher, pass or job.              *)
LEMMA TouchesStep ==
  ASSUME ActivationInv, Touches, JobOwned', job' = "running" \/ UNCHANGED job, rebuilding' \in BOOLEAN
  PROVE  ActivationInv'
<1> USE DEF ActivationInv
<1>1. ActivationTypeOK'
  BY DEF Touches, ActivationTypeOK, requests
<1>2. ActivatingGuarded' /\ OneWatcher' /\ PassCanBeAborted'
  BY DEF Touches, ActivatingGuarded, OneWatcher, PassCanBeAborted, requests
<1> QED
  BY <1>1, <1>2

(* A rebuild that ends settles its own job.                                *)
LEMMA RebuildEndsStep ==
  ASSUME ActivationInv, RebuildEnds
  PROVE  ActivationInv'
<1> USE DEF ActivationInv
<1>1. ActivationTypeOK'
  BY DEF RebuildEnds, ActivationTypeOK, requests
<1>2. ActivatingGuarded' /\ OneWatcher' /\ PassCanBeAborted'
  BY DEF RebuildEnds, ActivatingGuarded, OneWatcher, PassCanBeAborted, requests
<1>3. JobOwned'
  BY DEF RebuildEnds, JobOwned
<1> QED
  BY <1>1, <1>2, <1>3

(* Every step preserves the invariant.                                     *)
LEMMA StepActivation == ActivationInv /\ [ActivationNext]_activationVars => ActivationInv'
<1> SUFFICES ASSUME ActivationInv, [ActivationNext]_activationVars PROVE ActivationInv'
  OBVIOUS
<1>1. ASSUME NEW c \in Caller, Requests(c) PROVE ActivationInv'
  BY <1>1, ReactivateStep, ActivateStep, DeactivateStep DEF Requests
<1>2. ASSUME NEW c \in Caller, Proceeds(c) PROVE ActivationInv'
  <2>1. ASSUME NEW w \in Watcher, Attached(c, w) PROVE ActivationInv'
    BY <2>1, AttachedStep
  <2>2. CASE AttachFails(c) \/ Detached(c) \/ PullFile(c)
    BY <2>2, AttachFailsStep, DetachedStep, PullFileStep
  <2>3. CASE PassEnds(c) \/ PassFails(c)
    BY <2>3, PassSettlesStep DEF PassEnds, PassFails
  <2> QED
    BY <1>2, <2>1, <2>2, <2>3 DEF Proceeds
<1>3. CASE Reconcile
  <2>1. JobOwned' /\ UNCHANGED <<job, rebuilding>>
    BY <1>3 DEF Reconcile, Touches, JobOwned, tracker, ActivationInv
  <2> QED
    BY <1>3, <2>1, TouchesStep DEF Reconcile, ActivationInv, ActivationTypeOK
<1>4. CASE Rebuild
  <2>1. JobOwned'
    BY <1>4 DEF Rebuild, Touches, JobOwned, ActivationInv
  <2> QED
    BY <1>4, <2>1, TouchesStep DEF Rebuild
<1>5. CASE RebuildEnds
  BY <1>5, RebuildEndsStep
<1>6. CASE UNCHANGED activationVars
  BY <1>6
  DEF activationVars, requests, tracker, ActivationInv, ActivationTypeOK, ActivatingGuarded, OneWatcher, PassCanBeAborted, JobOwned
<1> QED
  BY <1>1, <1>2, <1>3, <1>4, <1>5, <1>6 DEF ActivationNext

(* The invariant holds of every behaviour, fair or not.                    *)
THEOREM ActivationInvHolds == ActivationSpec => []ActivationInv
  BY InitActivation, StepActivation, PTL DEF ActivationSpec

-----------------------------------------------------------------------------
(* Two activations never leave two watchers subscribed: the project's      *)
(* watcher is the registered one, which deactivate finds.                  *)
THEOREM WatcherIsUnique == ActivationSpec => []OneWatcher
<1>1. ActivationInv => OneWatcher
  BY DEF ActivationInv
<1> QED
  BY <1>1, ActivationInvHolds, PTL

(* Whatever activations overlap, the pass that runs is the one whose       *)
(* controller deactivate trips.                                            *)
THEOREM PassIsAbortable == ActivationSpec => []PassCanBeAborted
<1>1. ActivationInv => PassCanBeAborted
  BY DEF ActivationInv
<1> QED
  BY <1>1, ActivationInvHolds, PTL

(* The tracker says running exactly while the pass that started the job    *)
(* runs, although passes are aborted and replaced.                         *)
THEOREM JobIsTruthful == ActivationSpec => []JobIsTrue
<1>1. ASSUME ActivationInv PROVE JobIsTrue
  <2> DEFINE owners == {c \in Caller : pass[c].tracked}
  <2>1. CASE rebuilding
    BY <1>1, <2>1 DEF ActivationInv, JobOwned, JobIsTrue
  <2>2. CASE ~rebuilding /\ job = "running"
    <3>1. PICK c \in Caller : owners = {c}
      BY <1>1, <2>2 DEF ActivationInv, JobOwned
    <3> QED
      BY <2>2, <3>1, FS_Singleton DEF JobIsTrue
  <2>3. CASE ~rebuilding /\ job # "running"
    <3>1. owners = {}
      BY <1>1, <2>3 DEF ActivationInv, JobOwned
    <3> QED
      BY <2>3, <3>1, FS_EmptySet DEF JobIsTrue
  <2> QED
    BY <2>1, <2>2, <2>3
<1> QED
  BY <1>1, ActivationInvHolds, PTL

-----------------------------------------------------------------------------
(* While requests have not met, one request at a time is under way, and it *)
(* knows what it is doing: an activation has nothing registered yet, a     *)
(* deactivation stops the watcher that is registered and subscribed.       *)
AloneAtWork ==
  /\ \A c, d \in Caller : request[c] # "idle" /\ request[d] # "idle" => c = d
  /\ \A c \in Caller : request[c] = "attaching" => active /\ entry = None /\ live = {}
  /\ \A c \in Caller : request[c] = "stopping" =>
       ~active /\ entry # None /\ held[c] = entry /\ live = {entry}

Untangled == ~tangled => AloneAtWork /\ ActiveIsWatched

WatchInv == ActivationTypeOK /\ Untangled

(* A request begins.                                                       *)
LEMMA RequestUntangled ==
  ASSUME WatchInv, NEW c \in Caller, Requests(c), ~tangled'
  PROVE  AloneAtWork' /\ ActiveIsWatched'
<1>1. /\ ~tangled /\ Alone(c) /\ request[c] = "idle" /\ UNCHANGED <<entry, live>>
      /\ request \in [Caller -> {"idle", "attaching", "stopping"}]
  BY DEF Requests, Reactivate, Activate, Deactivate, Free, WatchInv, ActivationTypeOK
<1>2. \A d \in Caller : request[d] = "idle"
  BY <1>1 DEF Alone
<1>3. (active <=> entry # None) /\ live = {entry} \ {None}
  BY <1>1, <1>2 DEF WatchInv, Untangled, ActiveIsWatched
<1>4. CASE Reactivate(c)
  <2>1. active' = TRUE /\ entry # None /\ request' = request
    BY <1>4 DEF Reactivate, Kickoff, requests
  <2> QED
    BY <1>1, <1>2, <1>3, <2>1 DEF AloneAtWork, ActiveIsWatched
<1>5. CASE Activate(c)
  <2>1. active' = TRUE /\ entry = None /\ request' = [request EXCEPT ![c] = "attaching"]
    BY <1>5 DEF Activate
  <2>2. \A d \in Caller : request'[d] = IF d = c THEN "attaching" ELSE "idle"
    BY <1>1, <1>2, <2>1
  <2> QED
    BY <1>1, <1>3, <2>1, <2>2 DEF AloneAtWork, ActiveIsWatched
<1>6. CASE Deactivate(c)
  <2>1. /\ active' = FALSE /\ held' = [held EXCEPT ![c] = entry]
        /\ held \in [Caller -> Watcher \cup {None}]
    BY <1>6 DEF Deactivate, WatchInv, ActivationTypeOK
  <2>2. held'[c] = entry
    BY <2>1
  <2>3. CASE entry = None
    <3>1. request' = request
      BY <1>6, <2>3 DEF Deactivate
    <3> QED
      BY <1>1, <1>2, <1>3, <2>1, <2>3, <3>1 DEF AloneAtWork, ActiveIsWatched
  <2>4. CASE entry # None
    <3>1. \A d \in Caller : request'[d] = IF d = c THEN "stopping" ELSE "idle"
      BY <1>1, <1>2, <1>6, <2>4 DEF Deactivate
    <3> QED
      BY <1>1, <1>3, <2>1, <2>2, <2>4, <3>1 DEF AloneAtWork, ActiveIsWatched
  <2> QED
    BY <2>3, <2>4
<1> QED
  BY <1>4, <1>5, <1>6 DEF Requests

(* A request ends.                                                         *)
LEMMA AnswerUntangled ==
  ASSUME WatchInv, NEW c \in Caller, ~tangled',
         Detached(c) \/ AttachFails(c) \/ \E w \in Watcher : Attached(c, w)
  PROVE  AloneAtWork' /\ ActiveIsWatched'
<1>1. /\ ~tangled /\ ~AttachFails(c) /\ request[c] # "idle"
      /\ request' = [request EXCEPT ![c] = "idle"]
      /\ request \in [Caller -> {"idle", "attaching", "stopping"}]
  BY DEF Detached, Attached, AttachFails, Answered, WatchInv, ActivationTypeOK
<1>2. AloneAtWork
  BY <1>1 DEF WatchInv, Untangled
<1>3. \A d \in Caller : request'[d] = "idle"
  BY <1>1, <1>2 DEF AloneAtWork
<1>4. CASE Detached(c)
  <2>1. /\ request[c] = "stopping" /\ live' = live \ {held[c]} /\ entry' = None
        /\ active' = active
    BY <1>4 DEF Detached, Unregistered
  <2> QED
    BY <1>2, <1>3, <2>1 DEF AloneAtWork, ActiveIsWatched
<1>5. ASSUME NEW w \in Watcher, Attached(c, w) PROVE AloneAtWork' /\ ActiveIsWatched'
  <2>1. /\ request[c] = "attaching" /\ live' = live \cup {w} /\ entry' = w
        /\ active' = TRUE /\ w # None
    BY <1>5, ActivationAssumption DEF Attached, Kickoff
  <2> QED
    BY <1>2, <1>3, <2>1 DEF AloneAtWork, ActiveIsWatched
<1> QED
  BY <1>1, <1>4, <1>5

(* Steps that begin and end no request.                                    *)
LEMMA OtherUntangled ==
  ASSUME WatchInv, ~tangled', UNCHANGED <<entry, live, request, held>>,
         \/ UNCHANGED <<active, tangled>>
         \/ active' = TRUE /\ tangled' = (tangled \/ ~active)
  PROVE  AloneAtWork' /\ ActiveIsWatched'
<1>1. active \in BOOLEAN /\ tangled \in BOOLEAN
  BY DEF WatchInv, ActivationTypeOK
<1>2. ~tangled /\ active' = active
  BY <1>1
<1> QED
  BY <1>2 DEF WatchInv, Untangled, AloneAtWork, ActiveIsWatched

(* Every step keeps them.                                                  *)
LEMMA StepUntangled ==
  ASSUME WatchInv, [ActivationNext]_activationVars
  PROVE  Untangled'
<1> SUFFICES ASSUME ~tangled' PROVE AloneAtWork' /\ ActiveIsWatched'
  BY DEF Untangled
<1>1. ASSUME NEW c \in Caller, Requests(c) PROVE AloneAtWork' /\ ActiveIsWatched'
  BY <1>1, RequestUntangled
<1>2. ASSUME NEW c \in Caller, Proceeds(c) PROVE AloneAtWork' /\ ActiveIsWatched'
  <2>1. CASE Detached(c) \/ AttachFails(c) \/ \E w \in Watcher : Attached(c, w)
    BY <2>1, AnswerUntangled
  <2>2. CASE PullFile(c) \/ PassEnds(c) \/ PassFails(c)
    BY <2>2, OtherUntangled DEF PullFile, PassEnds, PassFails, PassSettles, requests
  <2> QED
    BY <1>2, <2>1, <2>2 DEF Proceeds
<1>3. CASE Reconcile \/ Rebuild \/ RebuildEnds \/ UNCHANGED activationVars
  BY <1>3, OtherUntangled DEF Reconcile, Rebuild, RebuildEnds, Touches, requests, activationVars
<1> QED
  BY <1>1, <1>2, <1>3 DEF ActivationNext

(* Unless requests met, a start failed or a pass activated the project, an *)
(* active project at rest has its watcher, and an inactive one has none.   *)
THEOREM WatchedWhenActive == ActivationSpec => []ActiveIsWatched
<1>1. ActivationInit => Untangled
  BY ActivationAssumption DEF ActivationInit, Untangled, AloneAtWork, ActiveIsWatched
<1>2. ActivationInv /\ Untangled /\ [ActivationNext]_activationVars => Untangled'
  BY StepUntangled DEF WatchInv, ActivationInv
<1>3. ActivationInv /\ Untangled => ActiveIsWatched
  BY DEF Untangled, ActiveIsWatched
<1> QED
  BY <1>1, <1>2, <1>3, InitActivation, StepActivation, PTL DEF ActivationSpec

(* All four at once: the requests, passes and jobs of a project keep one   *)
(* watcher that deactivate finds, and none for an inactive project, one    *)
(* pass that it can abort, and a job that says whether a pass runs.        *)
THEOREM ActivationSound == ActivationSpec => []ActivationIsSound
BY WatcherIsUnique, WatchedWhenActive, PassIsAbortable, JobIsTruthful, PTL DEF ActivationIsSound

-----------------------------------------------------------------------------
(***************************************************************************)
(* ModelSwitch: any number of models, files and switches.                  *)
(***************************************************************************)
Version == (1..MaxVersion) \cup {None}

SwitchTypeOK ==
  /\ choice \in Catalog /\ loaded \in Catalog \cup {None}
  /\ disk \in [File -> Version]
  /\ row \in [File -> Row \cup {None}]
  /\ registered \in [Catalog -> Catalog \cup {None}]
  /\ table \in [Catalog -> [File -> Version]]

(* A file row tells what the table of its identity holds, but for those    *)
(* whose vectors a clear took first.                                       *)
RowFound == \A f \in File \ cut : row[f] # None => table[row[f].identity][f] = row[f].version

(* Vectors are in registered tables alone, which is what lets a purge find *)
(* them all.                                                               *)
TablesRegistered ==
  /\ loaded # None => registered[loaded] # None
  /\ \A m \in Catalog, f \in File : table[m][f] # None => registered[m] # None

(* What is in a table that a clear has been through was indexed since.     *)
OnlySince(m) ==
  m \notin clearing.todo => \A f \in File : table[m][f] # None => <<m, f>> \in clearing.since

ClearingInv ==
  clearing # None =>
    /\ clearing \in [daemon : BOOLEAN, todo : SUBSET Catalog, since : SUBSET (Catalog \X File)]
    /\ clearing.daemon => loaded # None
    /\ \A m \in Catalog : (clearing.daemon => m = loaded) => OnlySince(m)

SwitchInv == SwitchTypeOK /\ RowFound /\ TablesRegistered /\ ClearingInv /\ OnlyLeftovers

(* An index that is empty, as it is at first and after a reset.            *)
LEMMA InitSwitch == SwitchInit => SwitchInv
BY SwitchAssumption
DEF SwitchInit, SwitchInv, SwitchTypeOK, Version, RowFound, TablesRegistered, ClearingInv, OnlyLeftovers

(* Use, BootRuntime, StopRuntime and Edit leave rows and vectors alone, as *)
(* does a clear that begins or is cut off.                                 *)
LEMMA SwitchSettings ==
  ASSUME SwitchInv,
         \/ \E m \in Catalog : Use(m)
         \/ BootRuntime \/ StopRuntime \/ \E f \in File : Edit(f)
  PROVE  SwitchInv'
<1> USE SwitchAssumption DEF SwitchInv
<1>1. UNCHANGED <<row, table, left, cut>>
  BY DEF Use, BootRuntime, StopRuntime, Edit
<1>2. SwitchTypeOK'
  BY <1>1 DEF SwitchTypeOK, Use, BootRuntime, StopRuntime, Edit, CollectionName, Version
<1>3. \A m \in Catalog : registered[m] # None => registered'[m] # None
  BY DEF SwitchTypeOK, Use, BootRuntime, StopRuntime, Edit, CollectionName
<1>4. loaded' # None => registered'[loaded'] # None
  BY DEF SwitchTypeOK, TablesRegistered, Use, BootRuntime, StopRuntime, Edit, CollectionName
<1>5. RowFound' /\ TablesRegistered' /\ OnlyLeftovers'
  BY <1>1, <1>3, <1>4 DEF RowFound, TablesRegistered, OnlyLeftovers
<1>6. clearing' # None => clearing' = clearing /\ (clearing.daemon => loaded' = loaded)
  BY DEF Use, BootRuntime, StopRuntime, Edit, ClearingInv
<1>7. ClearingInv'
  BY <1>1, <1>6 DEF ClearingInv, OnlySince
<1> QED BY <1>2, <1>5, <1>7

LEMMA ClearSettings ==
  ASSUME SwitchInv, ResetProject \/ PurgeLocal \/ ClearIsCutOff
  PROVE  SwitchInv'
<1> USE SwitchAssumption DEF SwitchInv
<1>1. UNCHANGED <<choice, loaded, disk, row, registered, table, left, cut>>
  BY DEF ResetProject, PurgeLocal, ClearIsCutOff, Clear
<1>2. SwitchTypeOK' /\ RowFound' /\ TablesRegistered' /\ OnlyLeftovers'
  BY <1>1 DEF SwitchTypeOK, RowFound, TablesRegistered, OnlyLeftovers
<1>3. CASE ResetProject
  <2>1. loaded \in Catalog /\ loaded # None
    BY <1>3 DEF ResetProject, SwitchTypeOK
  <2>2. clearing' = [daemon |-> TRUE, todo |-> {loaded}, since |-> {}]
    BY <1>3 DEF ResetProject, Clear
  <2>3. ClearingInv'
    BY <1>1, <2>1, <2>2 DEF ClearingInv, OnlySince
  <2> QED BY <1>2, <2>3
<1>4. CASE PurgeLocal
  <2>1. clearing' = [daemon |-> FALSE, todo |-> Collections, since |-> {}]
    BY <1>4 DEF PurgeLocal, Clear
  <2>2. Collections \subseteq Catalog
    BY DEF Collections
  <2>3. \A m \in Catalog, f \in File : table'[m][f] # None => m \in Collections
    BY <1>1 DEF Collections, TablesRegistered
  <2> HIDE DEF SwitchInv
  <2>4. ClearingInv'
    BY <2>1, <2>2, <2>3 DEF ClearingInv, OnlySince
  <2> QED BY <1>2, <2>4 DEF SwitchInv
<1>5. CASE ClearIsCutOff
  <2>1. ClearingInv'
    BY <1>5 DEF ClearIsCutOff, ClearingInv
  <2> QED BY <1>2, <2>1
<1> QED BY <1>3, <1>4, <1>5

(* The file's vectors in the loaded table and its row are of one version.  *)
LEMMA IndexSwitch == ASSUME SwitchInv, NEW f \in File, Index(f) PROVE SwitchInv'
<1> USE SwitchAssumption DEF SwitchInv
<1>1. /\ loaded \in Catalog /\ loaded # None /\ disk[f] \in 1..MaxVersion /\ disk[f] # None
      /\ UNCHANGED <<choice, loaded, disk, registered>>
  BY DEF Index, SwitchTypeOK, Version
<1> DEFINE new == [identity |-> loaded, version |-> disk[f]]
<1>2. new \in Row /\ new # None /\ new.identity = loaded /\ new.version = disk[f]
  BY <1>1 DEF Row
<1>3. /\ row' \in [File -> Row \cup {None}] /\ table' \in [Catalog -> [File -> Version]]
      /\ row'[f] = new /\ \A g \in File \ {f} : row'[g] = row[g]
      /\ table'[loaded][f] = disk[f]
      /\ \A m \in Catalog, g \in File : m # loaded \/ g # f => table'[m][g] = table[m][g]
      /\ cut' = cut \ {f}
  BY <1>1, <1>2 DEF Index, SwitchTypeOK, Version
<1> HIDE DEF new
<1>4. SwitchTypeOK'
  BY <1>1, <1>3 DEF SwitchTypeOK
<1>5. \A g \in File : row[g] # None => row[g].identity \in Catalog
  BY DEF SwitchTypeOK, Row
<1>6. RowFound'
  BY <1>1, <1>2, <1>3, <1>5 DEF RowFound
<1>7. TablesRegistered'
  BY <1>1, <1>3 DEF TablesRegistered
<1>8. \A m \in Catalog, g \in File : <<m, g>> = <<loaded, f>> => m = loaded /\ g = f
  OBVIOUS
<1>9. OnlyLeftovers'
  BY <1>1, <1>2, <1>3, <1>8 DEF OnlyLeftovers, Index
<1>10. ClearingInv'
  <2>1. CASE clearing = None
    BY <2>1 DEF Index, NowIndexed, ClearingInv
  <2>2. CASE clearing # None
    <3>1. clearing \in [daemon : BOOLEAN, todo : SUBSET Catalog, since : SUBSET (Catalog \X File)]
      BY <2>2 DEF ClearingInv
    <3>2. clearing' = [clearing EXCEPT !.since = @ \cup {<<loaded, f>>}]
      BY <2>2 DEF Index, NowIndexed
    <3>3. /\ clearing' \in [daemon : BOOLEAN, todo : SUBSET Catalog, since : SUBSET (Catalog \X File)]
          /\ clearing'.daemon = clearing.daemon /\ clearing'.todo = clearing.todo
          /\ clearing'.since = clearing.since \cup {<<loaded, f>>}
      BY <1>1, <3>1, <3>2
    <3>4. \A m \in Catalog : OnlySince(m) => OnlySince(m)'
      BY <1>1, <1>3, <3>3 DEF OnlySince
    <3>5. \A m \in Catalog : (clearing.daemon => m = loaded) => OnlySince(m)
      BY <2>2 DEF ClearingInv
    <3> QED BY <1>1, <3>3, <3>4, <3>5 DEF ClearingInv
  <2> QED BY <2>1, <2>2
<1> QED BY <1>4, <1>6, <1>7, <1>9, <1>10

(* What a deletion leaves in the tables of other models is in left.        *)
LEMMA DeleteSwitch == ASSUME SwitchInv, NEW f \in File, Delete(f) PROVE SwitchInv'
<1> USE SwitchAssumption DEF SwitchInv
<1>1. loaded \in Catalog /\ loaded # None /\ UNCHANGED <<choice, loaded, disk, registered, clearing>>
  BY DEF Delete, SwitchTypeOK
<1>2. /\ row' \in [File -> Row \cup {None}] /\ table' \in [Catalog -> [File -> Version]]
      /\ row'[f] = None /\ \A g \in File \ {f} : row'[g] = row[g]
      /\ table'[loaded][f] = None
      /\ \A m \in Catalog, g \in File : m # loaded \/ g # f => table'[m][g] = table[m][g]
      /\ cut' = cut \ {f}
  BY <1>1 DEF Delete, FromLoaded, SwitchTypeOK, Version
<1>3. SwitchTypeOK'
  BY <1>1, <1>2 DEF SwitchTypeOK
<1>4. \A g \in File : row[g] # None => row[g].identity \in Catalog
  BY DEF SwitchTypeOK, Row
<1>5. RowFound' /\ TablesRegistered'
  BY <1>1, <1>2, <1>4 DEF RowFound, TablesRegistered
<1>6. \A m \in Catalog, g \in File : <<m, g>> = <<loaded, f>> => m = loaded /\ g = f
  OBVIOUS
<1>7. OnlyLeftovers'
  BY <1>1, <1>2, <1>6 DEF OnlyLeftovers, Delete, Others
<1>8. \A m \in Catalog, g \in File : table'[m][g] # None => table[m][g] # None
  BY <1>2
<1>9. ClearingInv'
  BY <1>1, <1>8 DEF ClearingInv, OnlySince
<1> QED BY <1>3, <1>5, <1>7, <1>9

(* The vectors in one table: rows that name it outlive them for now.       *)
LEMMA ClearsTableSwitch == ASSUME SwitchInv, NEW m \in Catalog, ClearsTable(m) PROVE SwitchInv'
<1> USE SwitchAssumption DEF SwitchInv
<1>1. clearing # None /\ UNCHANGED <<choice, loaded, disk, row, registered>>
  BY DEF ClearsTable
<1>2. /\ table' \in [Catalog -> [File -> Version]]
      /\ \A f \in File : table'[m][f] = None
      /\ \A n \in Catalog \ {m} : table'[n] = table[n]
  BY DEF ClearsTable, NoRows, SwitchTypeOK, Version
<1>3. SwitchTypeOK'
  BY <1>1, <1>2 DEF SwitchTypeOK
<1>4. RowFound'
  <2> SUFFICES ASSUME NEW f \in File \ cut', row'[f] # None
               PROVE  table'[row'[f].identity][f] = row'[f].version
    BY DEF RowFound
  <2>1. f \notin cut /\ row[f] # None /\ row[f].identity # m
    BY <1>1 DEF ClearsTable
  <2>2. row[f].identity \in Catalog
    BY <2>1 DEF SwitchTypeOK, Row
  <2> QED BY <1>1, <1>2, <2>1, <2>2 DEF RowFound
<1>5. TablesRegistered'
  BY <1>1, <1>2 DEF TablesRegistered
<1>6. \A n, f : <<n, f>>[1] = n
  OBVIOUS
<1>7. OnlyLeftovers'
  BY <1>1, <1>2, <1>6 DEF OnlyLeftovers, ClearsTable, Of
<1>8. ClearingInv'
  <2>1. clearing \in [daemon : BOOLEAN, todo : SUBSET Catalog, since : SUBSET (Catalog \X File)]
    BY <1>1 DEF ClearingInv
  <2>2. clearing' = [clearing EXCEPT !.todo = @ \ {m}, !.since = @ \ Of(m, @)]
    BY DEF ClearsTable
  <2>3. /\ clearing' \in [daemon : BOOLEAN, todo : SUBSET Catalog, since : SUBSET (Catalog \X File)]
        /\ clearing'.daemon = clearing.daemon /\ clearing'.todo = clearing.todo \ {m}
        /\ clearing'.since = clearing.since \ Of(m, clearing.since)
    BY <2>1, <2>2
  <2>4. \A n \in Catalog : OnlySince(n) => OnlySince(n)'
    <3> SUFFICES ASSUME NEW n \in Catalog, OnlySince(n), n \notin clearing'.todo,
                        NEW f \in File, table'[n][f] # None
                 PROVE  <<n, f>> \in clearing'.since
      BY DEF OnlySince
    <3>1. n # m /\ table[n][f] # None
      BY <1>2
    <3>2. <<n, f>> \in clearing.since
      BY <2>3, <3>1 DEF OnlySince
    <3> QED BY <1>6, <2>3, <3>1, <3>2 DEF Of
  <2>5. /\ clearing.daemon => loaded # None
        /\ \A n \in Catalog : (clearing.daemon => n = loaded) => OnlySince(n)
    BY <1>1 DEF ClearingInv
  <2> QED BY <1>1, <2>3, <2>4, <2>5 DEF ClearingInv
<1> QED BY <1>3, <1>4, <1>5, <1>7, <1>8

(* No file row is left, and no vectors but those of other models, for the  *)
(* daemon, and those indexed since.                                        *)
LEMMA ClearsRowsSwitch == ASSUME SwitchInv, ClearsRows PROVE SwitchInv'
<1> USE SwitchAssumption DEF SwitchInv
<1>1. /\ clearing # None /\ clearing.todo = {} /\ clearing' = None
      /\ UNCHANGED <<choice, loaded, disk, registered, table>>
  BY DEF ClearsRows
<1>2. row' = NoRows
  BY DEF ClearsRows
<1>3. SwitchTypeOK' /\ RowFound' /\ TablesRegistered' /\ ClearingInv'
  BY <1>1, <1>2 DEF SwitchTypeOK, RowFound, TablesRegistered, ClearingInv, NoRows
<1>4. OnlyLeftovers'
  <2> SUFFICES ASSUME NEW m \in Catalog, NEW f \in File, table[m][f] # None
               PROVE  <<m, f>> \in left'
    BY <1>1 DEF OnlyLeftovers
  <2>1. CASE clearing.daemon /\ m # loaded
    <3>1. <<m, f>> \in Others(f)
      BY <2>1 DEF Others
    <3> QED BY <2>1, <3>1 DEF ClearsRows
  <2>2. CASE ~(clearing.daemon /\ m # loaded)
    <3>1. clearing.daemon \in BOOLEAN
      BY <1>1 DEF ClearingInv
    <3>2. OnlySince(m)
      BY <1>1, <2>2, <3>1 DEF ClearingInv
    <3>3. <<m, f>> \in clearing.since
      BY <1>1, <3>2 DEF OnlySince
    <3> QED BY <3>3 DEF ClearsRows
  <2> QED BY <2>1, <2>2
<1> QED BY <1>3, <1>4

(* Both stores are removed, or the rows outlive the vectors.               *)
LEMMA ResetIndexSwitch == ASSUME SwitchInv, ResetIndex PROVE SwitchInv'
<1> USE SwitchAssumption DEF SwitchInv
<1>1. loaded = None /\ clearing = None /\ UNCHANGED <<choice, loaded, disk, clearing>>
  BY DEF ResetIndex
<1>2. \A m \in Catalog, f \in File : table'[m][f] = None
  BY DEF ResetIndex, NoRows
<1>3. table' \in [Catalog -> [File -> Version]]
  BY DEF ResetIndex, NoRows, Version
<1>4. /\ row' \in [File -> Row \cup {None}] /\ registered' \in [Catalog -> Catalog \cup {None}]
      /\ \A f \in File \ cut' : row'[f] = None
  BY DEF ResetIndex, NoRows, SwitchTypeOK
<1>5. SwitchTypeOK' /\ RowFound' /\ TablesRegistered' /\ OnlyLeftovers' /\ ClearingInv'
  BY <1>1, <1>2, <1>3, <1>4 DEF SwitchTypeOK, RowFound, TablesRegistered, OnlyLeftovers, ClearingInv
<1> QED BY <1>5

(* Every step keeps the invariant.                                         *)
LEMMA StepSwitch == SwitchInv /\ [SwitchNext]_switchVars => SwitchInv'
<1> SUFFICES ASSUME SwitchInv, [SwitchNext]_switchVars PROVE SwitchInv'
  OBVIOUS
<1>1. CASE \/ \E m \in Catalog : Use(m)
           \/ BootRuntime \/ StopRuntime \/ \E f \in File : Edit(f)
  BY <1>1, SwitchSettings
<1>2. CASE ResetProject \/ PurgeLocal \/ ClearIsCutOff
  BY <1>2, ClearSettings
<1>3. CASE ResetIndex
  BY <1>3, ResetIndexSwitch
<1>4. CASE \E f \in File : Index(f)
  BY <1>4, IndexSwitch
<1>5. CASE \E f \in File : Delete(f)
  BY <1>5, DeleteSwitch
<1>6. CASE \E m \in Catalog : ClearsTable(m)
  BY <1>6, ClearsTableSwitch
<1>7. CASE ClearsRows
  BY <1>7, ClearsRowsSwitch
<1>8. CASE UNCHANGED switchVars
  BY <1>8 DEF switchVars, SwitchInv, SwitchTypeOK, RowFound, TablesRegistered, ClearingInv, OnlySince, OnlyLeftovers
<1> QED BY <1>1, <1>2, <1>3, <1>4, <1>5, <1>6, <1>7, <1>8 DEF SwitchNext

(* After any number of switches, a file that a pass skips as unchanged is  *)
(* found in its current version in the table that is searched, unless a    *)
(* clear took its vectors and not its row; and vectors without a file row  *)
(* are what deletions left under other models, and what was indexed while  *)
(* a clear was between the two stores.                                     *)
THEOREM IndexSurvivesSwitches == SwitchSpec => []ModelsAreConsistent
<1>1. SwitchInv => ModelsAreConsistent
  <2> SUFFICES ASSUME SwitchInv, NEW f \in File \ cut, loaded # None, disk[f] # None, Unchanged(f)
               PROVE  table[loaded][f] = disk[f]
    BY DEF SwitchInv, ModelsAreConsistent, SkippedIsFound
  <2>1. loaded \in Catalog /\ disk[f] \in 1..MaxVersion
    BY DEF SwitchInv, SwitchTypeOK, Version
  <2>2. row[f] \in Row /\ row[f].identity = loaded /\ row[f].version = disk[f]
    BY <2>1 DEF Unchanged, Row
  <2> QED BY <2>2, SwitchAssumption DEF SwitchInv, RowFound
<1> QED BY <1>1, InitSwitch, StepSwitch, PTL DEF SwitchSpec

-----------------------------------------------------------------------------
(***************************************************************************)
(* ModelConsent: any number of models, of overlapping downloads in the     *)
(* daemon and of processes that download.                                  *)
(***************************************************************************)
FetchStages == {"idle", "loads", "writes", "disposes", "cleans", "done", "over"}

ConsentTypeOK ==
  /\ trusted \in (SUBSET Model) \cup {None}
  /\ cached \subseteq Model /\ asked \subseteq Model /\ overwritten \subseteq Model
  /\ open \in BOOLEAN
  /\ runtime \in [at : {"off", "loads", "up"}, model : Model \cup {None}]
  /\ fetch \in [Fetch -> [at : FetchStages, model : Model \cup {None}, read : SUBSET Model]]

(* What a request has read is cached, and still trusted or overwritten.    *)
ReadStands(f) ==
  /\ fetch[f].at \in {"loads", "writes", "disposes", "done"} => fetch[f].model \in asked
  /\ fetch[f].at = "writes" =>
       /\ fetch[f].model \in cached /\ fetch[f].read \subseteq cached
       /\ fetch[f].read \subseteq Trusted \cup overwritten
  /\ fetch[f].at \in {"disposes", "done"} => fetch[f].model \in Trusted \cup overwritten

(* The gate is open in a daemon that is up alone; a daemon boots into a    *)
(* model that is trusted.                                                  *)
GateOfRuntime ==
  /\ open => runtime.at = "up"
  /\ runtime.at = "loads" => runtime.model \in asked

ConsentInv ==
  /\ ConsentTypeOK /\ OpenOnlyToDownload /\ NoUnaskedFetch /\ TrustedIsCached
  /\ GateOfRuntime /\ \A f \in Fetch : ReadStands(f)

(* Nothing is trusted, cached or asked for at first.                       *)
LEMMA InitConsent == ConsentInit => ConsentInv
<1> SUFFICES ASSUME ConsentInit PROVE ConsentInv
  OBVIOUS
<1>1. \A f \in Fetch : fetch[f].at = "idle"
  BY DEF ConsentInit, NoFetch
<1>2. ConsentTypeOK
  BY DEF ConsentInit, ConsentTypeOK, FetchStages, NoFetch
<1>3. Trusted = {}
  BY DEF ConsentInit, Trusted
<1> QED BY <1>1, <1>2, <1>3 DEF ConsentInit, ConsentInv, OpenOnlyToDownload, NoUnaskedFetch,
                                TrustedIsCached, GateOfRuntime, ReadStands

(* The list of trusted models is a set of models, empty when damaged.      *)
LEMMA TrustedType == ConsentTypeOK => Trusted \subseteq Model
BY DEF ConsentTypeOK, Trusted

(* A step that moves no request, and by which nothing is forgotten.        *)
LEMMA StillStands ==
  ASSUME \A f \in Fetch : ReadStands(f), UNCHANGED fetch,
         Trusted \cup overwritten \subseteq (Trusted \cup overwritten)',
         cached \subseteq cached', asked \subseteq asked'
  PROVE  (\A f \in Fetch : ReadStands(f))'
BY DEF ReadStands

(* The daemon: it boots into what is trusted, loads it, and ends.          *)
LEMMA RuntimeConsent ==
  ASSUME ConsentInv, BootLoads \/ Corrupt \/ \E m \in Model : Boots(m)
  PROVE  ConsentInv'
<1> USE DEF ConsentInv
<1>1. UNCHANGED <<open, fetch, asked>>
  BY DEF Boots, BootLoads, Corrupt
<1>2. Trusted' \subseteq Trusted /\ Trusted \cup overwritten \subseteq (Trusted \cup overwritten)'
  BY DEF Boots, BootLoads, Corrupt, Trusted
<1>3. ConsentTypeOK'
  BY <1>1, TrustedType DEF ConsentTypeOK, GateOfRuntime, Boots, BootLoads, Corrupt
<1>4. cached \subseteq cached'
  BY DEF Boots, BootLoads, Corrupt
<1>5. (\A f \in Fetch : ReadStands(f))'
  BY <1>1, <1>2, <1>4, StillStands
<1>6. NoUnaskedFetch' /\ TrustedIsCached'
  BY <1>1, <1>2, <1>4 DEF NoUnaskedFetch, TrustedIsCached, GateOfRuntime, Boots, BootLoads, Corrupt
<1>7. OpenOnlyToDownload'
  BY <1>1 DEF OpenOnlyToDownload
<1>8. GateOfRuntime'
  BY <1>1 DEF GateOfRuntime, Allowed, NoUnaskedFetch, TrustedIsCached, ConsentTypeOK,
              Boots, BootLoads, Corrupt
<1> QED BY <1>3, <1>5, <1>6, <1>7, <1>8

(* The gate is the process's, and gone with it.                            *)
LEMMA ExitConsent == ASSUME ConsentInv, DaemonExits PROVE ConsentInv'
<1> USE DEF ConsentInv
<1>1. /\ UNCHANGED <<trusted, cached, asked, overwritten>> /\ open' = FALSE
      /\ runtime' = [at |-> "off", model |-> None]
  BY DEF DaemonExits
<1>2. /\ fetch' \in [Fetch -> [at : FetchStages, model : Model \cup {None}, read : SUBSET Model]]
      /\ \A f \in Fetch : fetch'[f] = fetch[f] \/ fetch'[f].at = "over"
  BY DEF DaemonExits, ConsentTypeOK, FetchStages
<1>3. ConsentTypeOK' /\ OpenOnlyToDownload' /\ GateOfRuntime' /\ NoUnaskedFetch' /\ TrustedIsCached'
  BY <1>1, <1>2 DEF ConsentTypeOK, OpenOnlyToDownload, GateOfRuntime, NoUnaskedFetch,
                    TrustedIsCached, Trusted
<1>4. (\A f \in Fetch : ReadStands(f))'
  BY <1>1, <1>2 DEF ReadStands, Trusted
<1> QED BY <1>3, <1>4

(* The user's request is what opens the gate.                              *)
LEMMA DownloadConsent ==
  ASSUME ConsentInv, NEW f \in Fetch, NEW m \in Model, Download(f, m)
  PROVE  ConsentInv'
<1> USE DEF ConsentInv
<1>1. /\ UNCHANGED <<trusted, cached, runtime, overwritten>> /\ asked' = asked \cup {m}
      /\ f \in Api => runtime.at = "up"
      /\ open' = (open \/ f \in Api)
  BY DEF Download
<1>2. /\ fetch' \in [Fetch -> [at : FetchStages, model : Model \cup {None}, read : SUBSET Model]]
      /\ fetch'[f] = [at |-> "loads", model |-> m, read |-> {}]
      /\ \A g \in Fetch \ {f} : fetch'[g] = fetch[g]
      /\ fetch[f].at = "idle"
  BY DEF Download, ConsentTypeOK, FetchStages, NoFetch
<1>3. ConsentTypeOK'
  BY <1>1, <1>2 DEF ConsentTypeOK
<1>4. OpenOnlyToDownload'
  <2> SUFFICES ASSUME open' PROVE \E g \in Api : fetch'[g].at \in {"loads", "writes", "disposes", "cleans"}
    BY DEF OpenOnlyToDownload
  <2>1. CASE f \in Api
    BY <1>2, <2>1
  <2>2. CASE f \notin Api
    BY <1>1, <1>2, <2>2 DEF OpenOnlyToDownload, Fetch
  <2> QED BY <2>1, <2>2
<1>5. GateOfRuntime' /\ NoUnaskedFetch' /\ TrustedIsCached'
  BY <1>1 DEF GateOfRuntime, NoUnaskedFetch, TrustedIsCached, Trusted
<1>6. (\A g \in Fetch : ReadStands(g))'
  BY <1>1, <1>2 DEF ReadStands, Trusted
<1> QED BY <1>3, <1>4, <1>5, <1>6

(* A request that goes on with its model, its gate still open.             *)
Onward(f) ==
  /\ fetch' = [fetch EXCEPT ![f].at = fetch'[f].at, ![f].read = fetch'[f].read]
  /\ fetch'[f].at \in FetchStages /\ fetch'[f].read \subseteq Model
  /\ UNCHANGED <<open, runtime, asked>>
  /\ f \in Api => fetch'[f].at \in {"writes", "disposes", "cleans"}

LEMMA OnwardConsent ==
  ASSUME ConsentInv, NEW f \in Fetch, Onward(f), trusted' \in (SUBSET Model) \cup {None},
         cached' \subseteq asked, overwritten' \subseteq Model, Trusted' \subseteq cached',
         cached \subseteq cached', Trusted \cup overwritten \subseteq (Trusted \cup overwritten)',
         ReadStands(f)'
  PROVE  ConsentInv'
<1> USE DEF ConsentInv
<1>1. UNCHANGED <<open, runtime, asked>>
  BY DEF Onward
<1>2. /\ fetch' \in [Fetch -> [at : FetchStages, model : Model \cup {None}, read : SUBSET Model]]
      /\ \A g \in Fetch \ {f} : fetch'[g] = fetch[g]
  BY DEF Onward, ConsentTypeOK
<1>3. ConsentTypeOK'
  BY <1>1, <1>2 DEF ConsentTypeOK
<1>4. OpenOnlyToDownload'
  BY <1>1, <1>2 DEF OpenOnlyToDownload, Onward, Fetch
<1>5. GateOfRuntime' /\ NoUnaskedFetch' /\ TrustedIsCached'
  BY <1>1 DEF GateOfRuntime, NoUnaskedFetch, TrustedIsCached
<1>6. \A g \in Fetch \ {f} : ReadStands(g)'
  BY <1>1, <1>2 DEF ReadStands
<1> QED BY <1>3, <1>4, <1>5, <1>6

(* The model is in the cache by now, and the list is read.                 *)
LEMMA LoadsConsent ==
  ASSUME ConsentInv, NEW f \in Fetch, Loads(f) \/ LoadFails(f)
  PROVE  ConsentInv'
<1> USE DEF ConsentInv
<1>0. fetch[f].at = "loads" /\ fetch[f].model \in asked /\ Trusted \subseteq Model
  BY TrustedType DEF Loads, LoadFails, ReadStands
<1>1. CASE Loads(f)
  <2>1. /\ fetch'[f] = [at |-> "writes", model |-> fetch[f].model, read |-> Trusted]
        /\ UNCHANGED <<trusted, open, runtime, asked, overwritten>>
        /\ cached' = cached \cup {fetch[f].model}
    BY <1>1 DEF Loads, ConsentTypeOK
  <2>2. Onward(f)
    BY <1>0, <1>1, <2>1 DEF Onward, Loads, FetchStages, ConsentTypeOK
  <2>3. ReadStands(f)'
    BY <1>0, <2>1 DEF ReadStands, Trusted, TrustedIsCached
  <2> QED BY <1>0, <2>1, <2>2, <2>3, OnwardConsent
          DEF ConsentTypeOK, NoUnaskedFetch, TrustedIsCached, Trusted
<1>2. CASE LoadFails(f)
  <2>1. /\ fetch'[f] = [fetch[f] EXCEPT !.at = EndsAt(f)]
        /\ UNCHANGED <<trusted, cached, open, runtime, asked, overwritten>>
    BY <1>2 DEF LoadFails, At, ConsentTypeOK
  <2>2. EndsAt(f) \in {"cleans", "over"} /\ (f \in Api => EndsAt(f) = "cleans")
    BY DEF EndsAt
  <2>3. fetch'[f].at = EndsAt(f) /\ fetch'[f].model = fetch[f].model /\ fetch'[f].read = fetch[f].read
    BY <2>1 DEF ConsentTypeOK
  <2>4. Onward(f)
    <3>1. fetch' = [fetch EXCEPT ![f].at = fetch'[f].at, ![f].read = fetch'[f].read]
      BY <1>2, <2>3 DEF LoadFails, At, ConsentTypeOK
    <3>2. fetch'[f].at \in FetchStages /\ (f \in Api => fetch'[f].at \in {"writes", "disposes", "cleans"})
      BY <2>2, <2>3 DEF FetchStages
    <3>3. fetch'[f].read \subseteq Model
      BY <2>3 DEF ConsentTypeOK
    <3> QED
      BY <2>1, <3>1, <3>2, <3>3 DEF Onward
  <2>5. ReadStands(f)'
    BY <2>2, <2>3 DEF ReadStands
  <2> QED BY <2>1, <2>4, <2>5, OnwardConsent
          DEF ConsentTypeOK, NoUnaskedFetch, TrustedIsCached, Trusted
<1> QED BY <1>1, <1>2

(* The list is written as it was read: what others added to it meanwhile   *)
(* is overwritten, which is what the history variable says.                *)
LEMMA MarksConsent == ASSUME ConsentInv, NEW f \in Fetch, Marks(f) PROVE ConsentInv'
<1> USE DEF ConsentInv
<1>1. /\ fetch[f].at = "writes" /\ fetch[f].model \in cached /\ fetch[f].read \subseteq cached
      /\ fetch[f].model \in asked
      /\ fetch[f].read \subseteq Trusted \cup overwritten
      /\ fetch[f].read \subseteq Model /\ cached \subseteq Model /\ Trusted \subseteq Model
  BY TrustedType DEF Marks, ReadStands, ConsentTypeOK
<1>2. UNCHANGED <<cached, open, runtime, asked>>
  BY DEF Marks
<1>3. /\ fetch'[f].at = (IF f \in Api THEN "disposes" ELSE "done")
      /\ fetch'[f].model = fetch[f].model /\ fetch'[f].read = fetch[f].read
      /\ fetch' = [fetch EXCEPT ![f].at = fetch'[f].at, ![f].read = fetch'[f].read]
  BY DEF Marks, At, ConsentTypeOK
<1>4. Onward(f)
  BY <1>1, <1>2, <1>3 DEF Onward, FetchStages
<1> DEFINE list == WithModel(f)
<1>5. list = fetch[f].read \cup {fetch[f].model} /\ list \subseteq cached /\ list \in SUBSET Model
  BY <1>1 DEF WithModel
<1> HIDE DEF list
<1>6. list # None
  BY <1>5, ConsentAssumption
<1>7. /\ trusted' \in (SUBSET Model) \cup {None} /\ overwritten' \subseteq Model
      /\ Trusted' \subseteq cached /\ fetch[f].model \in Trusted' \cup overwritten'
      /\ Trusted \cup overwritten \subseteq Trusted' \cup overwritten'
  <2>1. CASE fetch[f].model \in fetch[f].read
    BY <1>1, <2>1 DEF Marks, Trusted, ConsentTypeOK, TrustedIsCached
  <2>2. CASE fetch[f].model \notin fetch[f].read
    <3>1. trusted' = list /\ overwritten' = (overwritten \cup (Trusted \ fetch[f].read)) \ list
      BY <2>2 DEF Marks, list
    <3>2. Trusted' = list
      BY <3>1, <1>6 DEF Trusted
    <3> QED BY <1>1, <1>5, <3>1, <3>2 DEF ConsentTypeOK
  <2> QED BY <2>1, <2>2
<1>8. ReadStands(f)'
  BY <1>1, <1>2, <1>3, <1>7 DEF ReadStands
<1> QED BY <1>2, <1>4, <1>7, <1>8, OnwardConsent DEF NoUnaskedFetch

(* The gate closes, whoever else is still downloading.                     *)
LEMMA DisposesConsent == ASSUME ConsentInv, NEW f \in Fetch, Disposes(f) PROVE ConsentInv'
<1> USE DEF ConsentInv
<1>1. UNCHANGED <<trusted, cached, runtime, asked, overwritten>> /\ open' = FALSE
  BY DEF Disposes, Closed
<1>2. /\ fetch' \in [Fetch -> [at : FetchStages, model : Model \cup {None}, read : SUBSET Model]]
      /\ \A g \in Fetch \ {f} : fetch'[g] = fetch[g]
      /\ fetch'[f].model = fetch[f].model
      /\ fetch'[f].at \in {"done", "over"}
      /\ fetch'[f].at = "done" => fetch[f].at = "disposes"
  BY DEF Disposes, At, ConsentTypeOK, FetchStages
<1>3. ConsentTypeOK' /\ OpenOnlyToDownload' /\ GateOfRuntime' /\ NoUnaskedFetch' /\ TrustedIsCached'
  BY <1>1, <1>2 DEF ConsentTypeOK, OpenOnlyToDownload, GateOfRuntime, NoUnaskedFetch,
                    TrustedIsCached, Trusted
<1>4. (\A g \in Fetch : ReadStands(g))'
  BY <1>1, <1>2 DEF ReadStands, Trusted
<1> QED BY <1>3, <1>4

(* Every step keeps the invariant.                                         *)
LEMMA StepConsent == ConsentInv /\ [ConsentNext]_consentVars => ConsentInv'
<1> SUFFICES ASSUME ConsentInv, [ConsentNext]_consentVars PROVE ConsentInv'
  OBVIOUS
<1>1. CASE BootLoads \/ Corrupt \/ \E m \in Model : Boots(m)
  BY <1>1, RuntimeConsent
<1>2. CASE DaemonExits
  BY <1>2, ExitConsent
<1>3. CASE \E f \in Fetch, m \in Model : Download(f, m)
  BY <1>3, DownloadConsent
<1>4. CASE \E f \in Fetch : Loads(f) \/ LoadFails(f)
  BY <1>4, LoadsConsent
<1>5. CASE \E f \in Fetch : Marks(f)
  BY <1>5, MarksConsent
<1>6. CASE \E f \in Fetch : Disposes(f)
  BY <1>6, DisposesConsent
<1>7. CASE UNCHANGED consentVars
  BY <1>7 DEF consentVars, ConsentInv, ConsentTypeOK, OpenOnlyToDownload, GateOfRuntime,
              NoUnaskedFetch, TrustedIsCached, Trusted, ReadStands
<1> QED BY <1>1, <1>2, <1>3, <1>4, <1>5, <1>6, <1>7 DEF ConsentNext

(* For any number of overlapping downloads, in the daemon and beside it:   *)
(* the gate is open only while one is in flight, nothing is fetched that   *)
(* nobody asked for, what is trusted is cached, and a consent stands.      *)
THEOREM ConsentIsKept == ConsentSpec => []ConsentHolds
<1>1. ConsentInv => ConsentHolds
  BY DEF ConsentInv, ConsentHolds, ConsentStands, ReadStands
<1> QED BY <1>1, InitConsent, StepConsent, PTL DEF ConsentSpec

-----------------------------------------------------------------------------
(***************************************************************************)
(* Commands: any number of parts to a command's work, with a daemon that   *)
(* comes, goes and answers as it likes.                                    *)
(***************************************************************************)
Working == {"looking", "asking", "waiting", "failed", "local"}
Stage == Working \cup {"idle", "ended"}
RequestError == {"no daemon", "refused", "404", "409", "5xx", "504"}
NoError == RequestError \cup {None}
ExitCode == {None, 0, 1, 2}

CommandTypeOK ==
  /\ daemon \in {"off", "deaf", "up"} /\ order \in {"none", "runs", "done", "lost"}
  /\ cmd \in [kind : CommandKind \cup {None}, at : Stage, parts : Nat, left : Nat,
              err : NoError, code : ExitCode]
  /\ byDaemon \in Nat /\ byCommand \in Nat /\ steady \in BOOLEAN

(* Until a part has failed, every part before the one in hand is done or   *)
(* taken on; the one in hand is taken on while the command waits.          *)
PartsCounted ==
  cmd.at \in Working =>
    /\ cmd.left \in 1..cmd.parts /\ cmd.code \in {None, 1}
    /\ cmd.parts > 1 => cmd.kind \in ManyParts
    /\ cmd.at = "waiting" => byDaemon > 0
    /\ cmd.code = None =>
         byDaemon + byCommand >= cmd.parts - cmd.left + (IF cmd.at = "waiting" THEN 1 ELSE 0)

(* A command of one part that writes, and refresh, are done by nobody      *)
(* before they are asked for or begun.                                     *)
DoneByOne ==
  cmd.kind \in IndexWriters \cup {"deactivate", "refresh"} =>
    /\ cmd.at \in {"looking", "asking", "local"} => byDaemon = 0 /\ byCommand = 0
    /\ cmd.at \in {"waiting", "failed"} => byCommand = 0
    /\ cmd.at = "waiting" => byDaemon = 1
    /\ cmd.at = "failed" /\ cmd.err = "409" => byDaemon = 0

Beside == steady => daemon # "off"

CommandInv == CommandTypeOK /\ PartsCounted /\ DoneByOne /\ Beside /\ CommandIsDoneOnce

(* The members of the sets that a command's fields are in.                 *)
LEMMA CommandSets ==
  /\ \A at \in Working : at \in Stage
  /\ "idle" \in Stage /\ "ended" \in Stage /\ "idle" \notin Working /\ "ended" \notin Working
  /\ "looking" \in Working /\ "asking" \in Working /\ "waiting" \in Working
  /\ "failed" \in Working /\ "local" \in Working
  /\ None \in NoError /\ \A err \in RequestError : err \in NoError
  /\ None \in ExitCode /\ 0 \in ExitCode /\ 1 \in ExitCode /\ 2 \in ExitCode
BY DEF Working, Stage, RequestError, NoError, ExitCode

(* No command, and nothing done.                                           *)
LEMMA InitCommands == CommandInit => CommandInv
<1> SUFFICES ASSUME CommandInit PROVE CommandInv
  OBVIOUS
<1>1. /\ cmd = [kind |-> None, at |-> "idle", parts |-> 0, left |-> 0,
                err |-> None, code |-> None]
      /\ byDaemon = 0 /\ byCommand = 0 /\ steady = FALSE
  BY DEF CommandInit, NoCommand
<1>2. CommandTypeOK
  <2>1. "idle" \in Stage /\ None \in NoError /\ None \in ExitCode /\ None \in CommandKind \cup {None}
    BY CommandSets
  <2>2. cmd \in [kind : CommandKind \cup {None}, at : Stage, parts : Nat, left : Nat,
                err : NoError, code : ExitCode]
    BY <1>1, <2>1
  <2>3. steady \in BOOLEAN
    BY <1>1
  <2>4. byDaemon \in Nat /\ byCommand \in Nat
    BY <1>1
  <2>5. daemon \in {"off", "deaf", "up"} /\ order \in {"none", "runs", "done", "lost"}
    BY DEF CommandInit
  <2> QED BY <2>2, <2>3, <2>4, <2>5 DEF CommandTypeOK
<1> QED BY <1>1, <1>2, CommandSets
        DEF CommandInv, PartsCounted, DoneByOne, Beside, CommandIsDoneOnce, OneExecutor,
            LeavesItToTheDaemon, ExitCodeIsTrue

(* The daemon's own moves leave the command and its account alone.         *)
LEMMA DaemonStep == ASSUME CommandInv, DaemonMoves \/ DaemonWorks PROVE CommandInv'
<1>1. /\ UNCHANGED <<cmd, byDaemon, byCommand>>
      /\ (steady' = steady /\ (steady => daemon' # "off")) \/ steady' = FALSE
  BY DEF DaemonMoves, DaemonWorks, CommandInv, Beside
<1>2. /\ steady' \in BOOLEAN /\ daemon' \in {"off", "deaf", "up"}
      /\ order' \in {"none", "runs", "done", "lost"}
  BY DEF DaemonMoves, DaemonWorks, CommandInv, CommandTypeOK
<1>3. CommandTypeOK'
  BY <1>1, <1>2 DEF CommandInv, CommandTypeOK
<1>4. PartsCounted' /\ DoneByOne' /\ OneExecutor' /\ ExitCodeIsTrue'
  BY <1>1 DEF CommandInv, CommandIsDoneOnce, PartsCounted, DoneByOne, OneExecutor, ExitCodeIsTrue
<1>5. Beside' /\ LeavesItToTheDaemon'
  BY <1>1 DEF CommandInv, CommandIsDoneOnce, Beside, LeavesItToTheDaemon
<1> QED BY <1>3, <1>4, <1>5 DEF CommandInv, CommandIsDoneOnce

(* A command begins with nothing done, whatever the last one left behind.  *)
LEMMA BeginStep ==
  ASSUME CommandInv, NEW k \in CommandKind, NEW n \in 1..MaxParts, Begin(k, n)
  PROVE  CommandInv'
<1> USE CommandAssumption DEF CommandInv
<1>1. /\ cmd'.kind = k /\ cmd'.parts = n /\ cmd'.left = n /\ cmd'.code = None
      /\ cmd'.at \in {"looking", "local", "asking"}
      /\ k \in IndexWriters => cmd'.at # "local"
      /\ n \in Nat /\ n >= 1 /\ (n > 1 => k \in ManyParts)
      /\ byDaemon' = 0 /\ byCommand' = 0 /\ order' = "none"
      /\ steady' = (daemon # "off") /\ daemon' = daemon
  BY DEF Begin, NoCommand, IndexWriters, Looks, Either, LocalOnly
<1>2. CommandTypeOK'
  <2>1. cmd' = [kind |-> k, at |-> cmd'.at, parts |-> n, left |-> n, err |-> None, code |-> None]
    BY DEF Begin, NoCommand
  <2>2. cmd'.at \in Stage
    BY <1>1, CommandSets
  <2>3. steady' \in BOOLEAN
    BY <1>1
  <2> QED BY <1>1, <2>1, <2>2, <2>3, CommandSets DEF CommandTypeOK
<1>3. PartsCounted'
  BY <1>1 DEF PartsCounted
<1>4. DoneByOne'
  BY <1>1 DEF DoneByOne
<1>5. Beside'
  BY <1>1 DEF Beside
<1> QED BY <1>1, <1>2, <1>3, <1>4, <1>5
        DEF CommandIsDoneOnce, OneExecutor, LeavesItToTheDaemon, ExitCodeIsTrue

(* The daemon is looked for, asked, and refuses or does not answer.        *)
LEMMA AskStep ==
  ASSUME CommandInv, Look \/ Ask \/ GivesUp \/ \E err \in {"404", "409", "5xx"} : Rejected(err)
  PROVE  CommandInv'
<1> USE CommandAssumption DEF CommandInv
<1>1. CASE Look
  <2>1. /\ cmd.at = "looking" /\ UNCHANGED <<daemon, order, byDaemon, byCommand, steady>>
        /\ \/ cmd' = [cmd EXCEPT !.at = "asking"]
           \/ /\ cmd' = [cmd EXCEPT !.at = "local"]
              /\ cmd.kind \in IndexWriters => daemon = "off"
           \/ cmd' = [cmd EXCEPT !.at = "ended", !.code = 1]
    BY <1>1 DEF Look, Decides, GoesTo, ExitsWith, work
  <2>2. CommandTypeOK'
    BY <2>1, CommandSets DEF CommandTypeOK
  <2>3. PartsCounted' /\ DoneByOne' /\ Beside'
    BY <2>1 DEF CommandTypeOK, PartsCounted, DoneByOne, Beside, Working
  <2>4. /\ cmd'.kind = cmd.kind /\ cmd'.parts = cmd.parts
        /\ \/ cmd'.at = "asking"
           \/ cmd'.at = "local" /\ (cmd.kind \in IndexWriters => daemon = "off")
           \/ cmd'.at = "ended" /\ cmd'.code = 1
    <3>1. cmd \in [kind : CommandKind \cup {None}, at : Stage, parts : Nat, left : Nat,
                   err : NoError, code : ExitCode]
      BY DEF CommandTypeOK
    <3> QED
      BY <2>1, <3>1
  <2>5. steady /\ cmd.kind \in IndexWriters => cmd'.at # "local" /\ byCommand' = 0
    BY <2>1, <2>4 DEF Beside, CommandIsDoneOnce, LeavesItToTheDaemon
  <2> QED BY <2>1, <2>2, <2>3, <2>4, <2>5
          DEF CommandIsDoneOnce, OneExecutor, LeavesItToTheDaemon, ExitCodeIsTrue
<1>2. CASE Ask
  <2>1. /\ cmd.at = "asking" /\ UNCHANGED <<daemon, byCommand, steady>>
        /\ \/ /\ cmd' = [cmd EXCEPT !.at = "waiting"]
              /\ order' = "runs" /\ byDaemon' = byDaemon + 1
           \/ /\ \E err \in {"no daemon", "refused"} :
                   cmd' = [cmd EXCEPT !.at = "failed", !.err = err]
              /\ UNCHANGED <<order, byDaemon>>
    BY <1>2 DEF Ask, GoesTo, RequestFails
  <2>2. CommandTypeOK'
    <3>1. "waiting" \in Stage /\ "failed" \in Stage /\ "no daemon" \in NoError /\ "refused" \in NoError
      BY CommandSets DEF RequestError
    <3>2. CASE cmd' = [cmd EXCEPT !.at = "waiting"] /\ order' = "runs" /\ byDaemon' = byDaemon + 1
      <4>1. cmd' \in [kind : CommandKind \cup {None}, at : Stage, parts : Nat, left : Nat,
                      err : NoError, code : ExitCode]
        BY <3>1, <3>2 DEF CommandTypeOK
      <4>2. byDaemon' \in Nat /\ order' \in {"none", "runs", "done", "lost"}
        BY <3>2 DEF CommandTypeOK
      <4> QED BY <2>1, <4>1, <4>2 DEF CommandTypeOK
    <3>3. ASSUME NEW err \in {"no daemon", "refused"},
                 cmd' = [cmd EXCEPT !.at = "failed", !.err = err], UNCHANGED <<order, byDaemon>>
          PROVE  CommandTypeOK'
      BY <2>1, <3>1, <3>3 DEF CommandTypeOK
    <3> QED BY <2>1, <3>2, <3>3
  <2>3. /\ cmd'.kind = cmd.kind /\ cmd'.parts = cmd.parts /\ cmd'.left = cmd.left
        /\ cmd'.code = cmd.code
        /\ \/ cmd'.at = "waiting" /\ byDaemon' = byDaemon + 1
           \/ cmd'.at = "failed" /\ cmd'.err # "409" /\ byDaemon' = byDaemon
        /\ cmd.parts \in Nat /\ cmd.left \in Nat /\ byDaemon \in Nat /\ byCommand \in Nat
    BY <2>1 DEF CommandTypeOK
  <2>4. PartsCounted'
    BY <2>1, <2>3 DEF PartsCounted, Working
  <2>5. DoneByOne' /\ Beside'
    BY <2>1, <2>3 DEF DoneByOne, Beside
  <2>6. OneExecutor'
    BY <2>1, <2>3 DEF DoneByOne, CommandIsDoneOnce, OneExecutor
  <2> QED BY <2>1, <2>2, <2>3, <2>4, <2>5, <2>6
          DEF CommandIsDoneOnce, LeavesItToTheDaemon, ExitCodeIsTrue
<1>3. CASE GivesUp \/ \E err \in {"404", "409", "5xx"} : Rejected(err)
  <2>1. /\ cmd.at = "waiting" /\ UNCHANGED <<daemon, byCommand, steady>>
        /\ order' \in {order, "none"}
        /\ \E err \in RequestError :
             /\ cmd' = [cmd EXCEPT !.at = "failed", !.err = err]
             /\ byDaemon' \in {byDaemon - 1, byDaemon}
             /\ err = "409" => byDaemon' = byDaemon - 1
    BY <1>3 DEF GivesUp, Rejected, RequestFails, RequestError, work
  <2>2. byDaemon > 0 /\ byDaemon \in Nat /\ byDaemon' \in Nat /\ byDaemon' >= byDaemon - 1
    BY <2>1 DEF CommandTypeOK, PartsCounted, Working
  <2>3. CommandTypeOK'
    BY <2>1, <2>2, CommandSets DEF CommandTypeOK
  <2>4. PartsCounted'
    BY <2>1, <2>2 DEF CommandTypeOK, PartsCounted, Working
  <2>5. DoneByOne' /\ Beside'
    BY <2>1, <2>2 DEF CommandTypeOK, DoneByOne, Beside
  <2>6. OneExecutor'
    BY <2>1 DEF CommandTypeOK, DoneByOne, OneExecutor
  <2> QED BY <2>1, <2>3, <2>4, <2>5, <2>6
          DEF CommandTypeOK, CommandIsDoneOnce, LeavesItToTheDaemon, ExitCodeIsTrue
<1> QED BY <1>1, <1>2, <1>3

(* A part is over: the next one is asked for, or the command has ended.    *)
LEMMA PartOver ==
  ASSUME CommandInv, cmd.at \in Working, NEW code \in {None, 1}, NextPart(code),
         cmd.code = 1 => code = 1,
         byDaemon' = byDaemon, byCommand' \in {byCommand, byCommand + 1},
         UNCHANGED <<daemon, order, steady>>,
         code = None => byDaemon + byCommand' >= cmd.parts - cmd.left + 1,
         cmd.kind \in IndexWriters \cup {"deactivate"} => byCommand' = 0 \/ byDaemon = 0,
         steady /\ cmd.kind \in IndexWriters => byCommand' = 0
  PROVE  CommandInv'
<1> USE CommandAssumption DEF CommandInv
<1>1. /\ cmd.left \in 1..cmd.parts /\ cmd.parts \in Nat /\ cmd.left \in Nat
      /\ cmd.parts > 1 => cmd.kind \in ManyParts
      /\ byDaemon \in Nat /\ byCommand' \in Nat
  BY DEF PartsCounted, CommandTypeOK
<1>2. CASE cmd.left > 1
  <2>1. cmd' = [cmd EXCEPT !.left = cmd.left - 1, !.code = code, !.at = "asking", !.err = None]
    BY <1>2 DEF NextPart
  <2>2. /\ cmd'.left = cmd.left - 1 /\ cmd'.code = code /\ cmd'.at = "asking" /\ cmd'.parts = cmd.parts
        /\ cmd'.kind = cmd.kind /\ cmd.kind \in ManyParts
    BY <1>1, <1>2, <2>1 DEF CommandTypeOK
  <2>3. CommandTypeOK'
    <3>1. /\ "asking" \in Stage /\ code \in ExitCode /\ None \in NoError
          /\ cmd.left - 1 \in Nat
      BY <1>1, <1>2, CommandSets
    <3> QED BY <1>1, <2>1, <3>1 DEF CommandTypeOK
  <2>4. PartsCounted'
    BY <1>1, <1>2, <2>2 DEF PartsCounted
  <2>5. cmd.kind \notin IndexWriters \cup {"deactivate", "refresh"} \/ cmd.kind = "refresh"
    BY <2>2 DEF ManyParts, IndexWriters
  <2>6. cmd.kind # "refresh"
    BY <2>2 DEF ManyParts
  <2> QED BY <2>2, <2>3, <2>4, <2>5, <2>6
          DEF DoneByOne, Beside, CommandIsDoneOnce, OneExecutor, LeavesItToTheDaemon, ExitCodeIsTrue
<1>3. CASE ~(cmd.left > 1)
  <2>1. cmd' = [cmd EXCEPT !.left = 0, !.at = "ended", !.code = IF code = None THEN 0 ELSE code]
    BY <1>3 DEF NextPart
  <2>2. /\ cmd'.at = "ended" /\ cmd'.parts = cmd.parts /\ cmd'.kind = cmd.kind
        /\ cmd'.code \in {0, 1} /\ (cmd'.code = 0 => code = None)
    BY <2>1 DEF CommandTypeOK
  <2>3. CommandTypeOK'
    BY <1>1, <2>1, <2>2, CommandSets DEF CommandTypeOK
  <2>4. code = None => byDaemon + byCommand' >= cmd.parts
    BY <1>1, <1>3
  <2> QED BY <1>1, <2>2, <2>3, <2>4
          DEF PartsCounted, DoneByOne, Beside, CommandIsDoneOnce, OneExecutor, LeavesItToTheDaemon,
              ExitCodeIsTrue, Working
<1> QED BY <1>2, <1>3

(* The command ends with an error, its work not done or not all of it.     *)
LEMMA ErrorEnds ==
  ASSUME CommandInv, cmd.at \in Working, NEW code \in {1, 2}, ExitsWith(code),
         byDaemon' = byDaemon, byCommand' \in {byCommand, byCommand + 1},
         UNCHANGED <<daemon, order, steady>>,
         code = 2 => byDaemon = 0 /\ byCommand' = 0,
         cmd.kind \in IndexWriters \cup {"deactivate"} => byCommand' = 0 \/ byDaemon = 0,
         steady /\ cmd.kind \in IndexWriters => byCommand' = 0
  PROVE  CommandInv'
<1>1. cmd'.at = "ended" /\ cmd'.kind = cmd.kind /\ cmd'.code = code
  BY DEF ExitsWith, CommandInv, CommandTypeOK
<1>2. CommandTypeOK'
  <2>1. "ended" \in Stage /\ code \in ExitCode
    BY CommandSets
  <2>2. byCommand' \in Nat
    BY DEF CommandInv, CommandTypeOK
  <2> QED BY <2>1, <2>2 DEF ExitsWith, CommandInv, CommandTypeOK
<1> QED BY <1>1, <1>2, CommandSets
        DEF CommandInv, PartsCounted, DoneByOne, Beside, CommandIsDoneOnce, OneExecutor,
            LeavesItToTheDaemon, ExitCodeIsTrue, Working

(* An answer, or an error that the command does not fall back from.        *)
LEMMA SettleStep == ASSUME CommandInv, RequestAnswered \/ HandleError PROVE CommandInv'
<1> USE CommandAssumption DEF CommandInv
<1>1. CASE RequestAnswered
  <2>1. cmd.at = "waiting" /\ UNCHANGED <<daemon, order, byDaemon, byCommand, steady>> /\ NextPart(cmd.code)
    BY <1>1 DEF RequestAnswered, KeptCode, work
  <2>2. cmd.code = None => byDaemon + byCommand >= cmd.parts - cmd.left + 1
    BY <2>1 DEF PartsCounted, Working
  <2>3. cmd.at \in Working /\ cmd.code \in {None, 1}
    BY <2>1 DEF PartsCounted, Working
  <2>4. /\ cmd.kind \in IndexWriters \cup {"deactivate"} => byCommand = 0 \/ byDaemon = 0
        /\ steady /\ cmd.kind \in IndexWriters => byCommand = 0
    BY DEF CommandIsDoneOnce, OneExecutor, LeavesItToTheDaemon
  <2> QED BY <2>1, <2>2, <2>3, <2>4, PartOver
<1>2. CASE HandleError
  <2>1. /\ cmd.at = "failed" /\ cmd.at \in Working
        /\ UNCHANGED <<daemon, order, byDaemon, byCommand, steady>>
    BY <1>2 DEF HandleError, work, Working
  <2>2. /\ cmd.kind \in IndexWriters \cup {"deactivate"} => byCommand = 0 \/ byDaemon = 0
        /\ steady /\ cmd.kind \in IndexWriters => byCommand = 0
    BY DEF CommandIsDoneOnce, OneExecutor, LeavesItToTheDaemon
  <2>3. CASE FallsBack
    <3>1. cmd' = [cmd EXCEPT !.at = "local"]
      BY <1>2, <2>3 DEF HandleError, GoesTo
    <3>2. cmd.kind \notin IndexWriters \cup {"deactivate", "refresh"}
      BY <2>3 DEF FallsBack, IndexWriters
    <3>3. /\ cmd'.at = "local" /\ cmd'.kind = cmd.kind /\ cmd'.parts = cmd.parts
          /\ cmd'.left = cmd.left /\ cmd'.code = cmd.code
      BY <3>1 DEF CommandTypeOK
    <3>4. CommandTypeOK'
      BY <2>1, <3>1, CommandSets DEF CommandTypeOK
    <3>5. PartsCounted'
      BY <2>1, <3>3 DEF PartsCounted, Working
    <3> QED BY <2>1, <3>2, <3>3, <3>4, <3>5
            DEF DoneByOne, Beside, CommandIsDoneOnce, OneExecutor, LeavesItToTheDaemon, ExitCodeIsTrue
  <2>4. CASE ~FallsBack /\ cmd.kind = "install-tools"
    <3>1. NextPart(1)
      BY <1>2, <2>4 DEF HandleError
    <3> QED BY <2>1, <2>2, <3>1, PartOver
  <2>5. CASE ~FallsBack /\ cmd.kind # "install-tools"
    <3>1. ExitsWith(CodeOf) /\ CodeOf \in {1, 2}
      BY <1>2, <2>5 DEF HandleError, CodeOf
    <3>2. CodeOf = 2 => byDaemon = 0 /\ byCommand = 0
      BY <2>1 DEF CodeOf, DoneByOne, IndexWriters
    <3> HIDE DEF CodeOf
    <3> QED BY <2>1, <2>2, <3>1, <3>2, ErrorEnds
  <2> QED BY <2>3, <2>4, <2>5
<1> QED BY <1>1, <1>2

(* The command does the part itself, or fails in it.                       *)
LEMMA LocalStep == ASSUME CommandInv, DoesIt \/ LocalFails PROVE CommandInv'
<1> USE CommandAssumption DEF CommandInv
<1>1. /\ cmd.at = "local" /\ cmd.at \in Working /\ UNCHANGED <<daemon, order, byDaemon, steady>>
      /\ byCommand' \in {byCommand, byCommand + 1}
  BY DEF DoesIt, LocalFails, Working
<1>2. cmd.kind \in IndexWriters \cup {"deactivate"} => byDaemon = 0
  BY <1>1 DEF DoneByOne
<1>3. ~(steady /\ cmd.kind \in IndexWriters)
  BY <1>1 DEF CommandIsDoneOnce, LeavesItToTheDaemon
<1>4. CASE DoesIt
  <2>1. NextPart(cmd.code) /\ byCommand' = byCommand + 1
    BY <1>4 DEF DoesIt, KeptCode
  <2>2. /\ cmd.code \in {None, 1}
        /\ cmd.code = None => byDaemon + byCommand >= cmd.parts - cmd.left
    <3>1. cmd.at # "waiting"
      BY <1>1
    <3>2. /\ byDaemon \in Nat /\ byCommand \in Nat /\ cmd.parts \in Nat /\ cmd.left \in Nat
      BY DEF CommandTypeOK
    <3> QED BY <1>1, <3>1, <3>2 DEF PartsCounted
  <2>3. cmd.code = None => byDaemon + byCommand' >= cmd.parts - cmd.left + 1
    BY <2>1, <2>2 DEF CommandTypeOK
  <2> QED BY <1>1, <1>2, <1>3, <2>1, <2>2, <2>3, PartOver
<1>5. CASE LocalFails /\ cmd.kind = "install-tools"
  <2>1. NextPart(1)
    BY <1>5 DEF LocalFails
  <2> QED BY <1>1, <1>2, <1>3, <2>1, PartOver
<1>6. CASE LocalFails /\ cmd.kind # "install-tools"
  <2>1. ExitsWith(1)
    BY <1>6 DEF LocalFails
  <2> QED BY <1>1, <1>2, <1>3, <2>1, ErrorEnds
<1> QED BY <1>4, <1>5, <1>6

(* Every step keeps the invariant.                                         *)
LEMMA StepCommands == CommandInv /\ [CommandNext]_commandVars => CommandInv'
<1> SUFFICES ASSUME CommandInv, [CommandNext]_commandVars PROVE CommandInv'
  OBVIOUS
<1>1. CASE DaemonMoves \/ DaemonWorks
  BY <1>1, DaemonStep
<1>2. CASE \E k \in CommandKind, n \in 1..MaxParts : Begin(k, n)
  BY <1>2, BeginStep
<1>3. CASE Look \/ Ask \/ GivesUp \/ \E err \in {"404", "409", "5xx"} : Rejected(err)
  BY <1>3, AskStep
<1>4. CASE RequestAnswered \/ HandleError
  BY <1>4, SettleStep
<1>5. CASE DoesIt \/ LocalFails
  BY <1>5, LocalStep
<1>6. CASE UNCHANGED commandVars
  BY <1>6 DEF commandVars, CommandInv, CommandTypeOK, PartsCounted, DoneByOne, Beside,
              CommandIsDoneOnce, OneExecutor, LeavesItToTheDaemon, ExitCodeIsTrue
<1> QED BY <1>1, <1>2, <1>3, <1>4, <1>5, <1>6 DEF CommandNext, CommandProceeds

(* Whatever the daemon does and whenever it comes or goes: what it was     *)
(* asked to write the command does not write too, beside a daemon that     *)
(* stays no command writes the index, and exit codes 0 and 2 are true.     *)
THEOREM CommandsAreSafe == CommandSpec => []CommandIsDoneOnce
<1>1. CommandInv => CommandIsDoneOnce
  BY DEF CommandInv
<1> QED BY <1>1, InitCommands, StepCommands, PTL DEF CommandSpec

-----------------------------------------------------------------------------
(***************************************************************************)
(* McpServer: any number of calls, over either transport.                  *)
(***************************************************************************)
McpStage == {"idle", "works", "over"}
Told == {None, "true", "unknown", "false"}
Answer == BOOLEAN \cup {None}

CallRecord == [at : McpStage, tool : Tool \cup {None}, enabled : BOOLEAN, answer : Answer,
               logs : BOOLEAN, told : Told, truth : {None, "none", "overtaken", "runs"}]

RowOf(c, ok) == [call |-> c, ok |-> ok]
ValueOf(c) == [call |-> c, value |-> TRUE]

McpTypeOK ==
  /\ transport \in {"stdio", "http"} /\ config \in McpConfig
  /\ there \in {"absent", "idle", "runs"}
  /\ call \in [Call -> CallRecord]
  /\ rows \in [Call -> Nat \X Nat] /\ counted \in [Call -> Nat]
  /\ \A d \in deferred : \E c \in Call : d \in {RowOf(c, TRUE), RowOf(c, FALSE), ValueOf(c)}

(* Only the daemon reconciles in its own process and reads its config      *)
(* again; beside it there is no other daemon.                              *)
ByTransport ==
  /\ transport = "stdio" => captured = config.admin /\ here = {}
  /\ transport = "http" => there = "absent"

(* Up, the flag says that a pass runs; down, that every pass that does has *)
(* seen another end.                                                       *)
FlagInv ==
  /\ running \in BOOLEAN
  /\ running => here # {} /\ overtaken = {}
  /\ ~running => here \subseteq overtaken

(* While the process is up: what is to be written of a call that is over   *)
(* is its one row, when the log was on, and its value, of a search that    *)
(* was served; each is written or still deferred, and never both.          *)
Account(c) ==
  process = "up" =>
    /\ call[c].at # "over" =>
         /\ ~Pending(c) /\ rows[c] = <<0, 0>> /\ counted[c] = 0
    /\ call[c].at = "over" =>
         /\ call[c].answer \in BOOLEAN
         /\ RowOf(c, ~call[c].answer) \notin deferred
         /\ RowOf(c, call[c].answer) \in deferred => call[c].logs /\ rows[c] = <<0, 0>>
         /\ RowOf(c, call[c].answer) \notin deferred =>
              rows[c] = IF ~call[c].logs THEN <<0, 0>> ELSE IF call[c].answer THEN <<1, 0>> ELSE <<0, 1>>
         /\ ValueOf(c) \in deferred => call[c].answer /\ call[c].tool = "search" /\ counted[c] = 0
         /\ ValueOf(c) \notin deferred =>
              counted[c] = IF call[c].answer /\ call[c].tool = "search" THEN 1 ELSE 0

McpInv ==
  /\ McpTypeOK /\ ByTransport /\ FlagInv /\ AdminOnlyWhileEnabled /\ ReconcilingIsTold
  /\ \A c \in Call : Account(c)

(* The writes of one call are not those of another, nor of another kind.   *)
LEMMA Writings ==
  ASSUME NEW c, NEW d, NEW a \in BOOLEAN, NEW b \in BOOLEAN
  PROVE  /\ RowOf(c, a).call = c /\ RowOf(c, a).ok = a /\ ValueOf(c).call = c
         /\ "ok" \in DOMAIN RowOf(c, a) /\ "ok" \notin DOMAIN ValueOf(c)
         /\ RowOf(c, a) = RowOf(d, b) => c = d /\ a = b
         /\ ValueOf(c) = ValueOf(d) => c = d
         /\ RowOf(c, a) # ValueOf(d)
<1>1. RowOf(c, a).call = c /\ RowOf(c, a).ok = a /\ ValueOf(c).call = c
  BY DEF RowOf, ValueOf
<1>2. DOMAIN RowOf(c, a) = {"call", "ok"} /\ DOMAIN ValueOf(c) = {"call", "value"}
  BY DEF RowOf, ValueOf
<1>3. "ok" \in DOMAIN RowOf(c, a) /\ "ok" \notin DOMAIN ValueOf(c) /\ "ok" \notin DOMAIN ValueOf(d)
  BY <1>2 DEF ValueOf
<1>4. RowOf(c, a) = RowOf(d, b) => c = d /\ a = b
  BY DEF RowOf
<1>5. ValueOf(c) = ValueOf(d) => c = d
  BY DEF ValueOf
<1>6. RowOf(c, a) # ValueOf(d)
  BY <1>3
<1> QED BY <1>1, <1>3, <1>4, <1>5, <1>6

(* No call, and nothing to write.                                          *)
LEMMA InitMcp == McpInit => McpInv
<1> SUFFICES ASSUME McpInit PROVE McpInv
  OBVIOUS
<1>1. NoCall \in CallRecord /\ NoCall.at = "idle" /\ NoCall.tool = None /\ NoCall.answer = None /\ NoCall.told = None
  BY DEF NoCall, CallRecord, McpStage, Answer, Told
<1>2. McpTypeOK
  BY <1>1 DEF McpInit, McpTypeOK
<1>3. ByTransport /\ FlagInv
  BY DEF McpInit, ByTransport, FlagInv
<1>4. AdminOnlyWhileEnabled /\ ReconcilingIsTold
  BY <1>1, CallAssumption DEF McpInit, AdminOnlyWhileEnabled, ReconcilingIsTold, Tool, Admin
<1>5. \A c \in Call : Account(c)
  BY <1>1 DEF McpInit, Account, Pending
<1> QED BY <1>2, <1>3, <1>4, <1>5 DEF McpInv

(* What leaves the calls and their writes alone keeps their accounts.      *)
LEMMA SameAccount ==
  ASSUME NEW c \in Call, Account(c), UNCHANGED <<call, deferred, rows, counted>>,
         process' = "up" => process = "up"
  PROVE  Account(c)'
BY DEF Account, Pending

(* A pass that begins or ends: it sets the flag, or resets it.             *)
LEMMA PassStep ==
  ASSUME McpInv, NEW q \in ReconcilePass, BeginsPass(q) \/ EndsPass(q)
  PROVE  McpInv'
<1>1. UNCHANGED <<transport, there, config, captured, call, deferred, rows, counted, process>>
  BY DEF BeginsPass, EndsPass, log
<1>2. transport = "http"
  BY DEF BeginsPass, EndsPass, McpInv, McpTypeOK, ByTransport
<1>3. McpTypeOK' /\ ByTransport'
  BY <1>1, <1>2 DEF McpInv, McpTypeOK, ByTransport
<1>4. FlagInv'
  BY DEF BeginsPass, EndsPass, FlagInv
<1>5. AdminOnlyWhileEnabled' /\ ReconcilingIsTold'
  BY <1>1 DEF McpInv, AdminOnlyWhileEnabled, ReconcilingIsTold
<1>6. \A c \in Call : Account(c)'
  BY <1>1, SameAccount DEF McpInv
<1> QED BY <1>3, <1>4, <1>5, <1>6 DEF McpInv

(* Another daemon, an edit of the config, a signal and a shutdown.         *)
LEMMA AroundStep ==
  ASSUME McpInv,
         OtherDaemon \/ Edited \/ \E s \in Signal : Signalled(s) \/ ServerShutsDown(s)
  PROVE  McpInv'
<1>1. UNCHANGED <<transport, here, running, overtaken, captured, call, deferred, rows, counted>>
  BY DEF OtherDaemon, Edited, Signalled, ServerShutsDown, ClosesServer, ClosesRuntime, ProcessExits,
         passes, daemons, log
<1>2. process' = "up" => process = "up"
  BY DEF OtherDaemon, Edited, Signalled, ServerShutsDown, ClosesServer, ClosesRuntime, ProcessExits
<1>3. /\ config' \in McpConfig /\ there' \in {"absent", "idle", "runs"}
      /\ transport = "stdio" => config' = config
      /\ transport = "http" => there' = there
  BY DEF McpInv, McpTypeOK, ByTransport, OtherDaemon, Edited, Signalled, ServerShutsDown,
         ClosesServer, ClosesRuntime, ProcessExits, passes, daemons
<1>4. McpTypeOK'
  BY <1>1, <1>3 DEF McpInv, McpTypeOK
<1>5. ByTransport' /\ FlagInv'
  BY <1>1, <1>3 DEF McpInv, ByTransport, FlagInv
<1>6. AdminOnlyWhileEnabled' /\ ReconcilingIsTold'
  BY <1>1 DEF McpInv, AdminOnlyWhileEnabled, ReconcilingIsTold
<1>7. \A c \in Call : Account(c)'
  BY <1>1, <1>2, SameAccount DEF McpInv
<1> QED BY <1>4, <1>5, <1>6, <1>7 DEF McpInv

(* A call is over, and leaves the writes that it should.                   *)
Settles(c, r, text) ==
  /\ call' = [call EXCEPT ![c] = r] /\ r.at = "over"
  /\ deferred' = deferred
       \cup (IF r.logs THEN {RowOf(c, text)} ELSE {})
       \cup (IF text /\ r.tool = "search" THEN {ValueOf(c)} ELSE {})
  /\ process = "up" => r.answer = text
  /\ UNCHANGED <<rows, counted, process>>

LEMMA SettledAccount ==
  ASSUME McpInv, NEW c \in Call, call[c].at # "over", NEW r \in CallRecord, NEW text \in BOOLEAN,
         Settles(c, r, text), NEW d \in Call
  PROVE  Account(d)'
<1>1. SUFFICES ASSUME process' = "up" PROVE Account(d)'
  BY DEF Account
<1>2. process = "up" /\ r.answer = text /\ Account(d) /\ Account(c)
  BY <1>1 DEF Settles, McpInv
<1>3. /\ call'[c] = r /\ (d # c => call'[d] = call[d])
      /\ rows' = rows /\ counted' = counted /\ process' = process
  BY DEF Settles, McpInv, McpTypeOK
<1>4. CASE d # c
  <2>1. \A a \in BOOLEAN : RowOf(d, a) \in deferred' <=> RowOf(d, a) \in deferred
    BY <1>4, Writings DEF Settles
  <2>2. ValueOf(d) \in deferred' <=> ValueOf(d) \in deferred
    BY <1>4, Writings DEF Settles
  <2>3. Pending(d)' <=> Pending(d)
    BY <1>4, Writings DEF Settles, Pending
  <2> QED BY <1>2, <1>3, <1>4, <2>1, <2>2, <2>3 DEF Account
<1>5. CASE d = c
  <2>1. ~Pending(c) /\ rows[c] = <<0, 0>> /\ counted[c] = 0
    BY <1>2 DEF Account
  <2>2. \A a \in BOOLEAN : RowOf(c, a) \notin deferred
    BY <2>1, Writings DEF Pending
  <2>3. ValueOf(c) \notin deferred
    BY <2>1, Writings DEF Pending
  <2>4. \A a \in BOOLEAN : RowOf(c, a) \in deferred' <=> r.logs /\ a = text
    BY <2>2, Writings DEF Settles
  <2>5. ValueOf(c) \in deferred' <=> text /\ r.tool = "search"
    BY <2>3, Writings DEF Settles
  <2>6. RowOf(c, ~text) \notin deferred' /\ (RowOf(c, text) \in deferred' <=> r.logs)
    BY <2>4
  <2> QED BY <1>2, <1>3, <1>5, <2>1, <2>5, <2>6 DEF Account, Settles
<1> QED BY <1>4, <1>5

(* The other parts of the invariant, of a call that is over.               *)
LEMMA SettledInv ==
  ASSUME McpInv, NEW c \in Call, call[c].at # "over", NEW r \in CallRecord, NEW text \in BOOLEAN,
         Settles(c, r, text), config' \in McpConfig, transport = "stdio" => config' = config,
         UNCHANGED <<transport, here, running, overtaken, there, captured>>,
         r.tool \in Admin /\ r.answer = TRUE => r.enabled,
         r.told = "true" => r.truth = "runs", r.told = "false" => r.truth # "runs"
  PROVE  McpInv'
<1>1. /\ call' \in [Call -> CallRecord] /\ call'[c] = r
      /\ \A d \in Call \ {c} : call'[d] = call[d]
      /\ UNCHANGED <<rows, counted>> /\ r.at = "over"
  BY DEF Settles, McpInv, McpTypeOK
<1>2. \A d \in deferred' : \E e \in Call : d \in {RowOf(e, TRUE), RowOf(e, FALSE), ValueOf(e)}
  <2> SUFFICES ASSUME NEW d \in deferred'
               PROVE  \E e \in Call : d \in {RowOf(e, TRUE), RowOf(e, FALSE), ValueOf(e)}
    OBVIOUS
  <2>1. d \in deferred \/ d \in {RowOf(c, text), ValueOf(c)}
    BY DEF Settles
  <2>2. CASE d \in deferred
    BY <2>2 DEF McpInv, McpTypeOK
  <2>3. CASE d \in {RowOf(c, text), ValueOf(c)}
    <3>1. text = TRUE \/ text = FALSE
      OBVIOUS
    <3> QED BY <2>3, <3>1
  <2> QED BY <2>1, <2>2, <2>3
<1>3. McpTypeOK'
  BY <1>1, <1>2 DEF McpInv, McpTypeOK
<1>4. ByTransport' /\ FlagInv'
  BY DEF McpInv, ByTransport, FlagInv
<1>5. AdminOnlyWhileEnabled'
  BY <1>1 DEF McpInv, AdminOnlyWhileEnabled
<1>6. ReconcilingIsTold'
  BY <1>1 DEF McpInv, ReconcilingIsTold
<1>7. \A d \in Call : Account(d)'
  BY SettledAccount
<1> QED BY <1>3, <1>4, <1>5, <1>6, <1>7 DEF McpInv

(* A request is refused at once, or goes on to its handler's first await.  *)
LEMMA RequestStep == ASSUME McpInv, NEW c \in Call, Request(c) PROVE McpInv'
<1>1. /\ process = "up" /\ call[c].at = "idle"
      /\ UNCHANGED <<transport, here, running, overtaken, there, config, captured, rows, counted, stage, process>>
  BY DEF Request, passes, daemons, log
<1>2. PICK t \in Tool, valid \in BOOLEAN :
        LET goes == /\ t # "unknown" /\ valid
                    /\ t \in Admin => AdminEnabled
                    /\ ~Refused(t)
            begun == [NoCall EXCEPT !.at = "works", !.tool = t, !.enabled = config.admin]
        IN IF goes
           THEN /\ call' = [call EXCEPT ![c] = begun]
                /\ UNCHANGED deferred
           ELSE /\ call' = [call EXCEPT ![c] =
                              [begun EXCEPT !.at = "over", !.answer = FALSE, !.logs = config.logs]]
                /\ Defers(c, FALSE, FALSE)
  BY DEF Request
<1> DEFINE begun == [NoCall EXCEPT !.at = "works", !.tool = t, !.enabled = config.admin]
           refused == [begun EXCEPT !.at = "over", !.answer = FALSE, !.logs = config.logs]
<1>3. config.admin \in BOOLEAN /\ config.logs \in BOOLEAN
  BY DEF McpInv, McpTypeOK, McpConfig
<1>4. /\ begun \in CallRecord /\ begun.at = "works" /\ begun.tool = t /\ begun.enabled = config.admin
      /\ begun.told = None
  BY <1>3 DEF NoCall, CallRecord, McpStage, Answer, Told
<1>5. /\ refused \in CallRecord /\ refused.at = "over" /\ refused.answer = FALSE
      /\ refused.logs = config.logs /\ refused.told = None
  BY <1>3 DEF NoCall, CallRecord, McpStage, Answer, Told
<1> HIDE DEF begun, refused
<1>6. \/ call' = [call EXCEPT ![c] = begun] /\ deferred' = deferred /\ (t \in Admin => AdminEnabled)
      \/ call' = [call EXCEPT ![c] = refused] /\ Defers(c, FALSE, FALSE)
  BY <1>2 DEF begun, refused
<1>7. CASE call' = [call EXCEPT ![c] = begun] /\ deferred' = deferred /\ (t \in Admin => AdminEnabled)
  <2>1. /\ call' \in [Call -> CallRecord] /\ call'[c] = begun
        /\ \A d \in Call \ {c} : call'[d] = call[d]
    BY <1>4, <1>7 DEF McpInv, McpTypeOK
  <2>2. McpTypeOK'
    BY <1>1, <1>7, <2>1 DEF McpInv, McpTypeOK
  <2>3. ByTransport' /\ FlagInv'
    BY <1>1 DEF McpInv, ByTransport, FlagInv
  <2>4. t \in Admin => config.admin
    BY <1>7 DEF AdminEnabled, McpInv, McpTypeOK, ByTransport
  <2>5. AdminOnlyWhileEnabled'
    BY <1>4, <2>1, <2>4 DEF McpInv, AdminOnlyWhileEnabled
  <2>6. ReconcilingIsTold'
    BY <1>4, <2>1, CallAssumption DEF McpInv, ReconcilingIsTold
  <2>7. \A d \in Call : Account(d)'
    BY <1>1, <1>4, <1>7, <2>1 DEF McpInv, Account, Pending
  <2> QED BY <2>2, <2>3, <2>5, <2>6, <2>7 DEF McpInv
<1>8. CASE call' = [call EXCEPT ![c] = refused] /\ Defers(c, FALSE, FALSE)
  <2>1. Settles(c, refused, FALSE)
    BY <1>1, <1>5, <1>8 DEF Settles, Defers, Records, RowOf
  <2>2. config' \in McpConfig
    BY <1>1 DEF McpInv, McpTypeOK
  <2> QED BY <1>1, <1>5, <2>1, <2>2, SettledInv, CallAssumption
<1> QED BY <1>6, <1>7, <1>8

(* What reconcilingState says.                                             *)
LEMMA SaysTrue ==
  ASSUME McpInv
  PROVE  /\ reconcilingState(running) = "true" => Reconciling = "runs"
         /\ reconcilingState(running) = "false" => Reconciling # "runs"
<1>1. running \in BOOLEAN
  BY DEF McpInv, FlagInv
<1>2. CASE running
  <2>1. here \ overtaken # {}
    BY <1>2 DEF McpInv, FlagInv
  <2> QED BY <1>2, <2>1 DEF reconcilingState, Reconciling
<1>3. CASE ~running
  <2>1. here \ overtaken = {}
    BY <1>3 DEF McpInv, FlagInv
  <2>2. reconcilingState(running) # "true"
    BY <1>3 DEF reconcilingState
  <2>3. ASSUME reconcilingState(running) = "false" PROVE there # "runs"
    <3>1. ActiveDaemon \in {None, "self"}
      BY <1>3, <2>3 DEF reconcilingState
    <3>2. CASE transport = "http"
      BY <3>2 DEF McpInv, ByTransport
    <3>3. CASE transport # "http"
      BY <3>1, <3>3, CallAssumption DEF ActiveDaemon
    <3> QED BY <3>2, <3>3
  <2> QED BY <2>1, <2>2, <2>3 DEF Reconciling
<1> QED BY <1>1, <1>2, <1>3

(* A handler's end: its answer, and what it tells of the index.            *)
LEMMA AnswersStep ==
  ASSUME McpInv, NEW c \in Call, Finishes(c) \/ Compacts(c)
  PROVE  McpInv'
<1>1. /\ call[c].at = "works" /\ call[c] \in CallRecord
      /\ UNCHANGED <<transport, here, running, overtaken, there, config, captured, rows, counted, stage, process>>
  BY DEF Finishes, Compacts, passes, daemons, log, McpInv, McpTypeOK
<1>2. PICK text \in BOOLEAN, told \in {None, reconcilingState(running)} :
        Answers(c, text, told) /\ Defers(c, text, call[c].tool = "search")
  <2>1. CASE Finishes(c)
    BY <2>1 DEF Finishes
  <2>2. CASE Compacts(c)
    BY <2>2 DEF Compacts
  <2> QED BY <2>1, <2>2
<1> DEFINE r == [call[c] EXCEPT !.at = "over", !.logs = config.logs,
                                !.answer = IF process = "up" THEN text ELSE None,
                                !.told = told, !.truth = Reconciling]
<1>3. call' = [call EXCEPT ![c] = r]
  BY <1>1, <1>2 DEF Answers, McpInv, McpTypeOK
<1>4. /\ config.logs \in BOOLEAN /\ told \in Told
      /\ Reconciling \in {None, "none", "overtaken", "runs"}
  BY <1>2 DEF McpInv, McpTypeOK, McpConfig, Reconciling, reconcilingState, Told
<1>5. (IF process = "up" THEN text ELSE None) \in Answer
  BY DEF Answer
<1>6. /\ r \in CallRecord /\ r.at = "over" /\ r.logs = config.logs /\ r.tool = call[c].tool
      /\ r.enabled = call[c].enabled /\ r.told = told /\ r.truth = Reconciling
      /\ process = "up" => r.answer = text
  <2> DEFINE q == call[c]
             answer == IF process = "up" THEN text ELSE None
  <2>1. q \in CallRecord /\ answer \in Answer /\ "over" \in McpStage
    BY <1>1, <1>5 DEF McpStage
  <2>2. r = [q EXCEPT !.at = "over", !.logs = config.logs, !.answer = answer, !.told = told,
                      !.truth = Reconciling]
    OBVIOUS
  <2> HIDE DEF q, answer
  <2>3. /\ r \in CallRecord /\ r.at = "over" /\ r.logs = config.logs /\ r.tool = q.tool
        /\ r.enabled = q.enabled /\ r.told = told /\ r.truth = Reconciling /\ r.answer = answer
    <3> HIDE DEF r
    <3> QED
      BY <1>4, <2>1, <2>2 DEF CallRecord
  <2> QED
    BY <2>3 DEF q, answer
<1> HIDE DEF r
<1>7. Settles(c, r, text)
  BY <1>1, <1>2, <1>3, <1>6 DEF Settles, Defers, Records, RowOf, ValueOf
<1>8. r.tool \in Admin => r.enabled
  BY <1>1, <1>6 DEF McpInv, AdminOnlyWhileEnabled
<1>9. (r.told = "true" => r.truth = "runs") /\ (r.told = "false" => r.truth # "runs")
  BY <1>2, <1>6, SaysTrue, CallAssumption
<1>10. config' \in McpConfig
  BY <1>1 DEF McpInv, McpTypeOK
<1> QED BY <1>1, <1>6, <1>7, <1>8, <1>9, <1>10, SettledInv

(* set_config, whose own row follows the config that it has written.       *)
LEMMA SetConfigStep == ASSUME McpInv, NEW c \in Call, SetConfig(c) PROVE McpInv'
<1>1. /\ call[c].at = "works" /\ call[c] \in CallRecord /\ call[c].tool = "set_config"
      /\ UNCHANGED <<transport, here, running, overtaken, there, captured, rows, counted, stage, process>>
  BY DEF SetConfig, passes, daemons, log, McpInv, McpTypeOK
<1>2. PICK k \in McpConfig, written \in BOOLEAN, reloaded \in BOOLEAN :
        /\ config' = IF written /\ reloaded /\ transport = "http" THEN k ELSE config
        /\ call' = [call EXCEPT ![c].at = "over", ![c].logs = config'.logs,
                                ![c].answer = IF process = "up" THEN written ELSE None]
        /\ deferred' = deferred \cup (IF config'.logs THEN Records(c, written) ELSE {})
  BY DEF SetConfig
<1>3. /\ config' \in McpConfig /\ config'.logs \in BOOLEAN
      /\ transport = "stdio" => config' = config
  BY <1>2 DEF McpInv, McpTypeOK, McpConfig
<1> DEFINE r == [call[c] EXCEPT !.at = "over", !.logs = config'.logs,
                                !.answer = IF process = "up" THEN written ELSE None]
<1>4. call' = [call EXCEPT ![c] = r]
  BY <1>1, <1>2 DEF McpInv, McpTypeOK
<1>5. (IF process = "up" THEN written ELSE None) \in Answer
  BY DEF Answer
<1>6. /\ r \in CallRecord /\ r.at = "over" /\ r.logs = config'.logs /\ r.tool = "set_config"
      /\ r.enabled = call[c].enabled /\ r.told = call[c].told /\ r.truth = call[c].truth
      /\ process = "up" => r.answer = written
  BY <1>1, <1>3, <1>5 DEF CallRecord, McpStage
<1> HIDE DEF r
<1>7. Settles(c, r, written)
  BY <1>1, <1>2, <1>4, <1>6 DEF Settles, Records, RowOf
<1>8. r.tool \in Admin => r.enabled
  BY <1>1, <1>6 DEF McpInv, AdminOnlyWhileEnabled
<1>9. (r.told = "true" => r.truth = "runs") /\ (r.told = "false" => r.truth # "runs")
  BY <1>6 DEF McpInv, ReconcilingIsTold
<1> QED BY <1>1, <1>3, <1>6, <1>7, <1>8, <1>9, SettledInv

(* One write runs: of its own call alone, and of the one kind.             *)
LEMMA WritesStep == ASSUME McpInv, NEW d \in deferred, Writes(d) PROVE McpInv'
<1>1. /\ deferred' = deferred \ {d}
      /\ UNCHANGED <<transport, here, running, overtaken, there, config, captured, call, stage, process>>
  BY DEF Writes, passes, daemons
<1>2. PICK c \in Call : d \in {RowOf(c, TRUE), RowOf(c, FALSE), ValueOf(c)}
  BY DEF McpInv, McpTypeOK
<1>3. rows \in [Call -> Nat \X Nat] /\ counted \in [Call -> Nat]
  BY DEF McpInv, McpTypeOK
<1>4. process = "up" => process # "shut"
  OBVIOUS
<1>5. /\ \A x \in deferred' : x \in deferred
      /\ ByTransport' /\ FlagInv' /\ AdminOnlyWhileEnabled' /\ ReconcilingIsTold'
  BY <1>1 DEF McpInv, ByTransport, FlagInv, AdminOnlyWhileEnabled, ReconcilingIsTold
<1>6. CASE process = "shut"
  <2>1. UNCHANGED <<rows, counted>>
    BY <1>6 DEF Writes, log
  <2>2. McpTypeOK'
    BY <1>1, <1>5, <2>1 DEF McpInv, McpTypeOK
  <2>3. \A e \in Call : Account(e)'
    BY <1>1, <1>6 DEF Account
  <2> QED BY <1>5, <2>2, <2>3 DEF McpInv
<1>7. CASE process # "shut" /\ \E ok \in BOOLEAN : d = RowOf(c, ok)
  <2>1. PICK ok \in BOOLEAN : d = RowOf(c, ok)
    BY <1>7
  <2>2. d.call = c /\ d.ok = ok /\ "ok" \in DOMAIN d
    BY <2>1, Writings
  <2>3. /\ counted' = counted
        /\ rows' = [rows EXCEPT ![c] = IF ok THEN <<rows[c][1] + 1, rows[c][2]>>
                                             ELSE <<rows[c][1], rows[c][2] + 1>>]
    BY <1>7, <2>2 DEF Writes
  <2>4. rows[c] \in Nat \X Nat /\ rows[c][1] \in Nat /\ rows[c][2] \in Nat
    BY <1>3
  <2>5. rows' \in [Call -> Nat \X Nat] /\ \A e \in Call \ {c} : rows'[e] = rows[e]
    BY <1>3, <2>3, <2>4
  <2>6. McpTypeOK'
    BY <1>1, <1>5, <2>3, <2>5 DEF McpInv, McpTypeOK
  <2>7. rows[c] = <<0, 0>> => rows'[c] = IF ok THEN <<1, 0>> ELSE <<0, 1>>
    BY <1>3, <2>3
  <2>8. ASSUME NEW e \in Call, process = "up" PROVE Account(e)'
    <3>1. Account(e)
      BY DEF McpInv
    <3>2. \A a \in BOOLEAN : RowOf(e, a) \in deferred' <=> RowOf(e, a) \in deferred /\ ~(e = c /\ a = ok)
      BY <1>1, <2>1, Writings
    <3>3. ValueOf(e) \in deferred' <=> ValueOf(e) \in deferred
      BY <1>1, <2>1, Writings
    <3>4. ~Pending(e) => ~Pending(e)'
      BY <1>5 DEF Pending
    <3>5. CASE e # c
      BY <1>1, <2>3, <2>5, <3>1, <3>2, <3>3, <3>4, <3>5 DEF Account
    <3>6. CASE e = c
      <4>1. Pending(c) /\ call[c].at = "over"
        BY <2>2, <2>8, <3>1, <3>6 DEF Pending, Account
      <4>2. call[c].answer = ok /\ call[c].logs /\ rows[c] = <<0, 0>>
        BY <2>1, <2>8, <3>1, <3>6, <4>1 DEF Account
      <4>3. RowOf(c, ok) \notin deferred' /\ RowOf(c, ~ok) \notin deferred'
        BY <2>8, <3>1, <3>2, <3>6, <4>1, <4>2 DEF Account
      <4> QED BY <1>1, <2>3, <2>7, <2>8, <3>1, <3>3, <3>6, <4>1, <4>2, <4>3 DEF Account
    <3> QED BY <3>5, <3>6
  <2>9. \A e \in Call : Account(e)'
    BY <1>1, <2>8 DEF Account
  <2> QED BY <1>5, <2>6, <2>9 DEF McpInv
<1>8. CASE process # "shut" /\ d = ValueOf(c)
  <2>1. d.call = c /\ "ok" \notin DOMAIN d
    BY <1>8, Writings
  <2>2. counted' = [counted EXCEPT ![c] = counted[c] + 1] /\ rows' = rows
    BY <1>8, <2>1 DEF Writes
  <2>3. counted' \in [Call -> Nat] /\ counted'[c] = counted[c] + 1 /\ \A e \in Call \ {c} : counted'[e] = counted[e]
    BY <1>3, <2>2
  <2>4. McpTypeOK'
    BY <1>1, <1>5, <2>2, <2>3 DEF McpInv, McpTypeOK
  <2>5. ASSUME NEW e \in Call, process = "up" PROVE Account(e)'
    <3>1. Account(e)
      BY DEF McpInv
    <3>2. \A a \in BOOLEAN : RowOf(e, a) \in deferred' <=> RowOf(e, a) \in deferred
      BY <1>1, <1>8, Writings
    <3>3. ValueOf(e) \in deferred' <=> ValueOf(e) \in deferred /\ e # c
      BY <1>1, <1>8, Writings
    <3>4. ~Pending(e) => ~Pending(e)'
      BY <1>5 DEF Pending
    <3>5. CASE e # c
      BY <1>1, <2>2, <2>3, <3>1, <3>2, <3>3, <3>4, <3>5 DEF Account
    <3>6. CASE e = c
      <4>1. Pending(c) /\ call[c].at = "over"
        BY <2>1, <2>5, <3>1, <3>6 DEF Pending, Account
      <4>2. call[c].answer /\ call[c].tool = "search" /\ counted[c] = 0
        BY <1>8, <2>5, <3>1, <3>6, <4>1 DEF Account
      <4>3. counted'[c] = 1 /\ ValueOf(c) \notin deferred'
        BY <2>3, <3>3, <3>6, <4>2
      <4>4. call'[c] = call[c] /\ rows'[c] = rows[c]
        BY <1>1, <2>2
      <4>5. /\ call[c].answer \in BOOLEAN
            /\ RowOf(c, ~call[c].answer) \in deferred' <=> RowOf(c, ~call[c].answer) \in deferred
            /\ RowOf(c, call[c].answer) \in deferred' <=> RowOf(c, call[c].answer) \in deferred
        BY <2>5, <3>1, <3>2, <3>6, <4>1 DEF Account
      <4> QED BY <2>5, <3>1, <3>6, <4>1, <4>2, <4>3, <4>4, <4>5 DEF Account
    <3> QED BY <3>5, <3>6
  <2>6. \A e \in Call : Account(e)'
    BY <1>1, <2>5 DEF Account
  <2> QED BY <1>5, <2>4, <2>6 DEF McpInv
<1> QED BY <1>2, <1>6, <1>7, <1>8

(* Every step keeps the invariant.                                         *)
LEMMA StepMcp == McpInv /\ [McpNext]_mcpVars => McpInv'
<1> SUFFICES ASSUME McpInv, [McpNext]_mcpVars PROVE McpInv'
  OBVIOUS
<1>1. CASE \E c \in Call : Request(c)
  BY <1>1, RequestStep
<1>2. CASE \E c \in Call : Finishes(c) \/ Compacts(c)
  BY <1>2, AnswersStep
<1>3. CASE \E c \in Call : SetConfig(c)
  BY <1>3, SetConfigStep
<1>4. CASE \E d \in deferred : Writes(d)
  BY <1>4, WritesStep
<1>5. CASE OtherDaemon \/ Edited \/ \E s \in Signal : Signalled(s) \/ ServerShutsDown(s)
  BY <1>5, AroundStep
<1>6. CASE UNCHANGED mcpVars
  <2>1. McpTypeOK' /\ ByTransport' /\ FlagInv' /\ AdminOnlyWhileEnabled' /\ ReconcilingIsTold'
    BY <1>6 DEF mcpVars, McpInv, McpTypeOK, ByTransport, FlagInv, AdminOnlyWhileEnabled, ReconcilingIsTold
  <2>2. \A c \in Call : Account(c)'
    BY <1>6, SameAccount DEF mcpVars, McpInv
  <2> QED BY <2>1, <2>2 DEF McpInv
<1>7. CASE \E q \in ReconcilePass : BeginsPass(q) \/ EndsPass(q)
  BY <1>7, PassStep
<1> QED BY <1>1, <1>2, <1>3, <1>4, <1>5, <1>6, <1>7 DEF McpNext, CallEnds

(* For any number of calls: the log and the usage say what a call was      *)
(* answered, no admin action runs while the config forbids it, and what a  *)
(* result says of reconciling is true but for passes that another overtook.*)
THEOREM ToolCallsAreSafe == McpSpec => []ToolCallsAreTrue
<1>1. McpInv => ToolCallsAreTrue
  <2> SUFFICES ASSUME McpInv PROVE AnswersAreRecorded
    BY DEF McpInv, ToolCallsAreTrue
  <2>1. SUFFICES ASSUME NEW c \in Call, process = "up", call[c].at = "over", ~Pending(c)
                 PROVE  /\ rows[c] = IF ~call[c].logs THEN <<0, 0>>
                                     ELSE IF call[c].answer THEN <<1, 0>> ELSE <<0, 1>>
                        /\ counted[c] = IF call[c].answer /\ call[c].tool = "search" THEN 1 ELSE 0
    BY DEF AnswersAreRecorded
  <2>2. Account(c)
    BY DEF McpInv
  <2>3. call[c].answer \in BOOLEAN
    BY <2>1, <2>2 DEF Account
  <2>4. RowOf(c, call[c].answer) \notin deferred /\ ValueOf(c) \notin deferred
    BY <2>1, <2>3, Writings DEF Pending
  <2> QED BY <2>1, <2>2, <2>4 DEF Account
<1> QED BY <1>1, InitMcp, StepMcp, PTL DEF McpSpec

-----------------------------------------------------------------------------
(***************************************************************************)
(* DaemonLife: any number of projects and of failures.                     *)
(***************************************************************************)
LifeTypeOK ==
  /\ lock \in BOOLEAN /\ store \in BOOLEAN
  /\ stopped \in BOOLEAN /\ every \in BOOLEAN /\ zeroed \in BOOLEAN

Booting == boot \in {"begins", "locked", "built", "watching"}

(* While it boots nothing loops yet, and the lock comes before the store.  *)
BootInOrder ==
  /\ Booting => ~stopped /\ loop = "none"
  /\ boot = "locked" => lock
  /\ boot \in {"begins", "locked"} => ~store

(* What a shutdown finds armed it clears, and nothing is armed after it.   *)
NoTimerAfterStop == stopped => loop # "timer"

(* That the interval is 0 is remembered.                                   *)
ZeroIsSeen == ~every => zeroed

LifeInv ==
  /\ LifeTypeOK /\ BootInOrder /\ NoTimerAfterStop /\ ZeroIsSeen
  /\ LoopGoesOn /\ LockCoversStore

LEMMA InitLife == LifeInit => LifeInv
<1> SUFFICES ASSUME LifeInit PROVE LifeInv
  OBVIOUS
<1>1. LifeTypeOK /\ ZeroIsSeen
  BY DEF LifeInit, LifeTypeOK, ZeroIsSeen
<1>2. boot = "begins" /\ ~lock /\ ~store /\ ~stopped /\ loop = "none"
  BY DEF LifeInit
<1> QED
  BY <1>1, <1>2
  DEF LifeInv, BootInOrder, Booting, NoTimerAfterStop, LoopGoesOn, LockCoversStore, Up

(* The steps of the boot.                                                  *)
LEMMA BootLife == ASSUME LifeInv, BootSteps \/ DaemonDies PROVE LifeInv'
<1> USE DEF LifeInv, LifeTypeOK, BootInOrder, Booting, NoTimerAfterStop, ZeroIsSeen,
            LoopGoesOn, LockCoversStore, Up, services, watchers, looping, interval
<1>1. CASE TakeLock
  BY <1>1 DEF TakeLock
<1>2. CASE BuildRuntime
  BY <1>2 DEF BuildRuntime
<1>3. CASE BuildFails
  BY <1>3 DEF BuildFails
<1>4. CASE StartWatchers
  BY <1>4 DEF StartWatchers
<1>5. CASE Listens
  BY <1>5 DEF Listens
<1>6. ASSUME NEW onStart \in BOOLEAN, Serve(onStart) PROVE LifeInv'
  <2>1. FirstLoop(onStart) = "timer" => every
    BY DEF FirstLoop
  <2> QED
    BY <1>6, <2>1 DEF Serve
<1>7. CASE DaemonDies
  BY <1>7 DEF DaemonDies
<1> HIDE DEF LifeInv
<1> QED
  BY <1>1, <1>2, <1>3, <1>4, <1>5, <1>6, <1>7 DEF BootSteps

(* The loop, and the interval that it reads anew.                          *)
LEMMA LoopLife ==
  ASSUME LifeInv, BeginPass \/ ReloadInterval \/ \E ok \in BOOLEAN : EndPass(ok)
  PROVE  LifeInv'
<1> USE DEF LifeInv, LifeTypeOK, BootInOrder, Booting, NoTimerAfterStop, ZeroIsSeen,
            LoopGoesOn, LockCoversStore, Up, services, watchers, looping, interval
<1>1. CASE BeginPass
  BY <1>1 DEF BeginPass
<1>2. CASE ReloadInterval
  BY <1>2 DEF ReloadInterval
<1>3. ASSUME NEW ok \in BOOLEAN, EndPass(ok) PROVE LifeInv'
  BY <1>3 DEF EndPass, Rescheduled
<1> QED
  BY <1>1, <1>2, <1>3

(* The watchers as they are shown and stopped, and the listener.           *)
LEMMA ShownLife ==
  ASSUME LifeInv,
         \/ HttpCloses
         \/ \E p \in Project : Pause(p) \/ Resume(p) \/ MarkFailed(p) \/ WatcherStops(p)
  PROVE  LifeInv'
<1>1. UNCHANGED <<boot, services, looping, interval>>
  BY DEF HttpCloses, Pause, Resume, MarkFailed, Shows, WatcherStops
<1> QED
  BY <1>1 DEF LifeInv, LifeTypeOK, BootInOrder, Booting, NoTimerAfterStop, ZeroIsSeen,
              LoopGoesOn, LockCoversStore, Up, services, looping, interval

(* A shutdown.                                                             *)
LEMMA DrainLife ==
  ASSUME LifeInv, NEW s \in StopSignal, Shutdown(s) \/ Drains(s)
  PROVE  LifeInv'
<1> USE DEF LifeInv, LifeTypeOK, BootInOrder, Booting, NoTimerAfterStop, ZeroIsSeen,
            LoopGoesOn, LockCoversStore, Up, services, watchers, looping, interval
<1>1. CASE Shutdown(s)
  BY <1>1 DEF Shutdown, TimerCleared
<1>2. CASE WatchersStopped(s)
  BY <1>2 DEF WatchersStopped
<1>3. CASE Finish(s)
  BY <1>3 DEF Finish
<1> QED
  BY <1>1, <1>2, <1>3 DEF Drains

LEMMA StepLife == LifeInv /\ [LifeNext]_lifeVars => LifeInv'
<1> SUFFICES ASSUME LifeInv, [LifeNext]_lifeVars PROVE LifeInv'
  OBVIOUS
<1>1. CASE UNCHANGED lifeVars
  BY <1>1 DEF lifeVars, LifeInv, LifeTypeOK, BootInOrder, Booting, NoTimerAfterStop, ZeroIsSeen,
              LoopGoesOn, LockCoversStore, Up, services, looping, interval
<1> QED
  BY <1>1, BootLife, LoopLife, ShownLife, DrainLife DEF LifeNext

(* Only BeginPass begins a pass.                                           *)
LEMMA StepBegins ==
  LifeInv /\ [LifeNext]_lifeVars =>
    (loop # "running" /\ loop' = "running" => ~stopped \/ loop = "immediate")
<1> SUFFICES ASSUME LifeInv, LifeNext, loop # "running", loop' = "running"
             PROVE  ~stopped \/ loop = "immediate"
  BY DEF lifeVars, looping
<1>1. CASE BeginPass
  BY <1>1 DEF BeginPass, LifeInv, NoTimerAfterStop
<1>2. CASE ~BeginPass
  <2>1. ASSUME NEW onStart \in BOOLEAN PROVE ~Serve(onStart)
    BY DEF Serve, FirstLoop
  <2>2. ASSUME NEW ok \in BOOLEAN PROVE ~EndPass(ok)
    BY DEF EndPass
  <2>3. ASSUME NEW s \in StopSignal PROVE ~Shutdown(s)
    BY DEF Shutdown, TimerCleared
  <2>4. loop' = loop
    BY <1>2, <2>1, <2>2, <2>3
    DEF LifeNext, BootSteps, TakeLock, BuildRuntime, BuildFails, StartWatchers, Listens, DaemonDies,
        ReloadInterval, Pause, Resume, MarkFailed, Shows, WatcherStops, WatchersStopped, Finish,
        Drains, HttpCloses, looping
  <2> QED
    BY <2>4
<1> QED
  BY <1>1, <1>2

(* The reconcile loop lives until a shutdown, unless the interval has been *)
(* 0; no pass begins after one, but the one of the start that is queued;   *)
(* and the store is open only under the lock, which a daemon that ends by  *)
(* itself gives back (start.ts, for any projects and any reloads).         *)
THEOREM LifeStaysOrderly == LifeSpec => LifeIsOrderly
<1>1. LifeInit => LifeInv
  BY InitLife
<1>2. LifeInv /\ [LifeNext]_lifeVars => LifeInv'
  BY StepLife
<1>3. LifeInv => LoopGoesOn /\ LockCoversStore
  BY DEF LifeInv
<1>4. LifeInv /\ [LifeNext]_lifeVars =>
        [loop # "running" /\ loop' = "running" => ~stopped \/ loop = "immediate"]_lifeVars
  BY StepBegins
<1> QED
  BY <1>1, <1>2, <1>3, <1>4, PTL DEF LifeSpec, LifeIsOrderly, NoPassAfterStop

-----------------------------------------------------------------------------
(***************************************************************************)
(* LiveConfig: any analyzers, tools and files.                             *)
(***************************************************************************)
LiveTypeOK ==
  /\ configFile \in [on : SUBSET Analyzer, command : [External -> Setting], valid : BOOLEAN]
  /\ liveOn \subseteq Analyzer
  /\ liveCommand \in [External -> Setting]
  /\ known \in [External \X Setting -> BOOLEAN \cup {None}]
  /\ queued \in [Analyzer -> SUBSET SourceFile]
  /\ indexed \subseteq SourceFile

(* A tool that was found is there: tools do not go away.                   *)
FoundIsThere == \A c \in External \X Setting : known[c] = TRUE => c \in tool

(* A backfill for a is under way, by the command that a has now.           *)
ToBeFilled(a) ==
  \E b \in fills : a \in b.wanted /\ (a \in External => b.command[a] = liveCommand[a])

(* The probe of a's tool has answered, and its answer still stands or no   *)
(* other probe will tell; when there is one, every file was queued.        *)
Given(a) ==
  /\ a \in External => known[CommandOf(a)] # None
  /\ a \in External /\ CommandOf(a) \in probing /\ known[CommandOf(a)] = FALSE => CommandOf(a) \notin tool
  /\ Ready(a) => indexed \subseteq queued[a]

Watched == liveOn \ (Untracked \cup missed)

LiveInv == LiveTypeOK /\ FoundIsThere /\ \A a \in Watched : ToBeFilled(a) \/ Given(a)

(* The answer of a probe.                                                  *)
LEMMA ProbeAnswers == \A a, S : (a \in S) \in BOOLEAN /\ (a \in S) # None
<1> TAKE a, S
<1>1. (a \in S) \in BOOLEAN
  OBVIOUS
<1>2. CASE a \in S
  <2>1. (a \in S) = TRUE
    BY <1>2
  <2> QED
    BY <1>1, <2>1, LiveAssumption
<1>3. CASE a \notin S
  <2>1. (a \in S) = FALSE
    BY <1>3
  <2> QED
    BY <1>1, <2>1, LiveAssumption
<1> QED
  BY <1>2, <1>3

(* Every analyzer has a command of its own.                                *)
LEMMA CommandsDiffer ==
  ASSUME LiveTypeOK
  PROVE  /\ \A a \in External : CommandOf(a) \in External \X Setting
         /\ \A a \in External : \A c : c = CommandOf(a) => c[1] = a
         /\ \A a, e, s : CommandOf(a) = <<e, s>> => a = e /\ s = liveCommand[a]
BY DEF CommandOf, LiveTypeOK

LEMMA InitLive == LiveInit => LiveInv
<1> SUFFICES ASSUME LiveInit PROVE LiveInv
  OBVIOUS
<1>1. LiveTypeOK
  <2>1. /\ configFile \in [on : SUBSET Analyzer, command : [External -> Setting], valid : BOOLEAN]
        /\ liveOn \subseteq Analyzer /\ liveCommand \in [External -> Setting]
    BY DEF LiveInit
  <2>2. known \in [External \X Setting -> BOOLEAN \cup {None}]
    BY ProbeAnswers DEF LiveInit
  <2>3. indexed \subseteq SourceFile /\ queued \in [Analyzer -> SUBSET SourceFile]
    BY DEF LiveInit
  <2> QED
    BY <2>1, <2>2, <2>3 DEF LiveTypeOK
<1>2. FoundIsThere
  BY LiveAssumption DEF LiveInit, FoundIsThere
<1>3. ASSUME NEW a \in Watched PROVE Given(a)
  <2>1. a \in Analyzer /\ a \in liveOn
    BY <1>1 DEF Watched, LiveTypeOK
  <2>2. probing = {} /\ queued[a] = IF a \in External => CommandOf(a) \in tool THEN indexed ELSE {}
    BY <2>1 DEF LiveInit
  <2>3. a \in External => known[CommandOf(a)] = (CommandOf(a) \in tool)
    <3> SUFFICES ASSUME a \in External PROVE known[CommandOf(a)] = (CommandOf(a) \in tool)
      OBVIOUS
    <3>1. CommandOf(a) \in External \X Setting /\ CommandOf(a)[1] = a
      BY <1>1, CommandsDiffer
    <3>2. \A c \in External \X Setting :
            known[c] = IF c[1] \in liveOn /\ c = CommandOf(c[1]) THEN c \in tool ELSE None
      BY DEF LiveInit
    <3>3. ASSUME NEW c \in External \X Setting, c = CommandOf(a), c[1] = a PROVE known[c] = (c \in tool)
      <4>1. c[1] \in liveOn /\ c = CommandOf(c[1])
        BY <2>1, <3>3
      <4> QED
        BY <3>2, <4>1
    <3> QED
      BY <3>1, <3>3
  <2>4. a \in External => known[CommandOf(a)] # None
    BY <2>3, ProbeAnswers
  <2>5. Ready(a) => indexed \subseteq queued[a]
    BY <2>2, <2>3 DEF Ready
  <2> QED
    BY <2>2, <2>4, <2>5 DEF Given
<1> QED
  BY <1>1, <1>2, <1>3 DEF LiveInv

(* What no file or probe is changed by: backfills may have been added, and *)
(* an analyzer that is newly on, or has another command, has one.          *)
LEMMA ReloadLive ==
  ASSUME LiveInv, LiveTypeOK', UNCHANGED <<known, probing, indexed, queued>>,
         fills \subseteq fills', missed \subseteq missed', tool \subseteq tool',
         \A a \in Watched' : a \in External /\ CommandOf(a) \in tool' \ tool
                               => CommandOf(a) \notin probing \/ ToBeFilled(a)',
         \A a \in Watched' : a \notin liveOn \/ (a \in External /\ liveCommand'[a] # liveCommand[a])
                               => ToBeFilled(a)'
  PROVE  LiveInv'
<1>1. FoundIsThere'
  BY DEF LiveInv, FoundIsThere
<1>2. ASSUME NEW a \in Watched' PROVE ToBeFilled(a)' \/ Given(a)'
  <2>1. CASE a \in liveOn /\ (a \in External => liveCommand'[a] = liveCommand[a])
    <3>1. ToBeFilled(a) \/ Given(a)
      BY <1>2, <2>1 DEF Watched, LiveInv
    <3>2. ToBeFilled(a) => ToBeFilled(a)'
      BY <2>1 DEF ToBeFilled
    <3>3. a \in External => CommandOf(a)' = CommandOf(a)
      BY <2>1 DEF CommandOf
    <3>4. ~ToBeFilled(a)' /\ Given(a) => Given(a)'
      BY <1>2, <3>3 DEF Given, Ready
    <3> QED
      BY <3>1, <3>2, <3>4
  <2> QED
    BY <1>2, <2>1
<1> QED
  BY <1>1, <1>2 DEF LiveInv

(* The hook of the indexer.                                                *)
LEMMA IndexLive == ASSUME LiveInv, NEW f \in SourceFile, IndexFile(f) PROVE LiveInv'
<1>1. LiveTypeOK'
  BY DEF LiveInv, LiveTypeOK, IndexFile, liveConfig
<1>2. FoundIsThere'
  BY DEF LiveInv, FoundIsThere, IndexFile
<1>3. UNCHANGED <<liveOn, liveCommand, known, tool, fills, missed>>
  BY DEF IndexFile, liveConfig
<1>4. ASSUME NEW a \in Watched' PROVE ToBeFilled(a)' \/ Given(a)'
  <2>1. a \in Watched /\ a \in liveOn /\ a \in Analyzer
    BY <1>3, <1>4 DEF Watched, LiveInv, LiveTypeOK
  <2>2. CASE ToBeFilled(a)
    BY <1>3, <2>2 DEF ToBeFilled
  <2>3. CASE Given(a)
    <3>1. CommandOf(a)' = CommandOf(a)
      BY <1>3 DEF CommandOf
    <3>2. a \in External => (CommandOf(a) \in probing' => CommandOf(a) \in probing)
      BY <2>3 DEF Given, IndexFile
    <3>3. Ready(a) => indexed' \subseteq queued'[a]
      BY <2>1, <2>3 DEF Given, IndexFile
    <3>4. Ready(a)' = Ready(a)
      BY <1>3, <3>1 DEF Ready
    <3> QED
      BY <1>3, <2>3, <3>1, <3>2, <3>3, <3>4 DEF Given
  <2> QED
    BY <2>1, <2>2, <2>3 DEF LiveInv
<1> QED
  BY <1>1, <1>2, <1>4 DEF LiveInv

(* A probe of the hook's.                                                  *)
LEMMA ProbeLive == ASSUME LiveInv, NEW c \in External \X Setting, ProbeEnds(c) PROVE LiveInv'
<1>1. known' \in [External \X Setting -> BOOLEAN \cup {None}] /\ known'[c] = (c \in tool)
      /\ \A d \in External \X Setting : d # c => known'[d] = known[d]
  BY DEF LiveInv, LiveTypeOK, ProbeEnds
<1>2. /\ UNCHANGED <<configFile, liveOn, liveCommand, tool, indexed, queued, fills, missed>>
      /\ probing' = probing \ {c}
  BY DEF ProbeEnds, liveConfig
<1>3. LiveTypeOK' /\ FoundIsThere'
  BY <1>1, <1>2 DEF LiveInv, LiveTypeOK, FoundIsThere
<1>4. ASSUME NEW a \in Watched' PROVE ToBeFilled(a)' \/ Given(a)'
  <2>1. a \in Watched /\ CommandOf(a)' = CommandOf(a)
    BY <1>2, <1>4 DEF Watched, CommandOf
  <2>2. CASE ToBeFilled(a)
    BY <1>2, <2>2 DEF ToBeFilled
  <2>3. CASE Given(a)
    <3>1. a \in External => known'[CommandOf(a)] = known[CommandOf(a)]
      <4> SUFFICES ASSUME a \in External PROVE known'[CommandOf(a)] = known[CommandOf(a)]
        OBVIOUS
      <4>1. CommandOf(a) \in External \X Setting
        BY CommandsDiffer DEF LiveInv
      <4>2. known[CommandOf(a)] \in BOOLEAN /\ (CommandOf(a) = c => c \in probing)
        BY <2>3, <4>1 DEF Given, LiveInv, LiveTypeOK, ProbeEnds
      <4> QED
        BY <1>1, <2>3, <4>1, <4>2 DEF Given, LiveInv, FoundIsThere
    <3> QED
      BY <1>2, <2>1, <2>3, <3>1 DEF Given, Ready
  <2> QED
    BY <2>1, <2>2, <2>3 DEF LiveInv
<1> QED
  BY <1>3, <1>4 DEF LiveInv

(* A backfill answers for all that it wants.                               *)
LEMMA FilledLive == ASSUME LiveInv, NEW b \in fills, Filled(b) PROVE LiveInv'
<1> DEFINE P == ProbedBy(b)
           found == [c \in External \X Setting |-> IF c \in P THEN c \in tool ELSE known[c]]
           onNow == b.wanted \cap liveOn
           settled == {a \in b.wanted : a \in External => b.command[a] = liveCommand[a]}
<1>1. /\ known' = found
      /\ queued' = [a \in Analyzer |->
           IF a \in onNow /\ (a \in External => found[CommandOf(a)] = TRUE)
           THEN queued[a] \cup indexed ELSE queued[a]]
      /\ probing' = probing \cup {c \in {CommandOf(a) : a \in External \cap onNow} : found[c] = None}
      /\ fills' = fills \ {b} /\ missed' = missed \ settled
      /\ UNCHANGED <<configFile, liveOn, liveCommand, tool, indexed>>
  BY DEF Filled, ListedLast, liveConfig
<1>2. \A c \in External \X Setting : found[c] = IF c \in P THEN c \in tool ELSE known[c]
  OBVIOUS
<1>3. found \in [External \X Setting -> BOOLEAN \cup {None}]
  BY DEF LiveInv, LiveTypeOK
<1> HIDE DEF found
<1>4. \A a \in Analyzer : queued'[a] =
           IF a \in onNow /\ (a \in External => found[CommandOf(a)] = TRUE)
           THEN queued[a] \cup indexed ELSE queued[a]
  BY <1>1
<1>5. queued' \in [Analyzer -> SUBSET SourceFile]
  BY <1>1 DEF LiveInv, LiveTypeOK
<1>6. LiveTypeOK' /\ FoundIsThere'
  BY <1>1, <1>2, <1>3, <1>5 DEF LiveInv, LiveTypeOK, FoundIsThere
<1>7. \A a \in External : CommandOf(a) \in P <=> a \in settled
  BY DEF ProbedBy, CommandOf
<1>8. ASSUME NEW a \in Watched' PROVE ToBeFilled(a)' \/ Given(a)'
  <2>1. a \in liveOn /\ a \in Analyzer /\ a \notin Untracked
    BY <1>1, <1>8 DEF Watched, LiveInv, LiveTypeOK
  <2>2. a \in External => CommandOf(a) \in External \X Setting
    BY CommandsDiffer DEF LiveInv
  <2>3. CommandOf(a)' = CommandOf(a)
    BY <1>1 DEF CommandOf
  <2>4. CASE a \in settled
    <3>1. a \in External => known'[CommandOf(a)] = (CommandOf(a) \in tool)
      BY <1>1, <1>2, <1>7, <2>2, <2>4
    <3>2. Ready(a)' => indexed' \subseteq queued'[a]
      BY <1>1, <1>4, <2>1, <2>3, <2>4 DEF Ready
    <3>3. a \in External => known'[CommandOf(a)'] = (CommandOf(a)' \in tool')
      BY <1>1, <2>3, <3>1
    <3>4. a \in External => known'[CommandOf(a)'] # None
      BY <3>3, ProbeAnswers
    <3>5. a \in External /\ known'[CommandOf(a)'] = FALSE => CommandOf(a)' \notin tool'
      BY <3>3
    <3> QED
      BY <3>2, <3>4, <3>5 DEF Given
  <2>5. CASE a \notin settled
    <3>1. a \in Watched
      BY <1>1, <1>8, <2>5 DEF Watched
    <3>2. CASE ToBeFilled(a)
      BY <1>1, <2>5, <3>2 DEF ToBeFilled
    <3>3. CASE Given(a)
      <4>1. a \in External => known'[CommandOf(a)] = known[CommandOf(a)]
        BY <1>1, <1>2, <1>7, <2>2, <2>5
      <4>2. queued[a] \subseteq queued'[a] /\ indexed' = indexed /\ tool' = tool
        BY <1>1, <1>4, <2>1
      <4>3. a \in External /\ CommandOf(a) \in probing' => CommandOf(a) \in probing
        BY <1>1, <3>3, <4>1 DEF Given
      <4> QED
        BY <2>3, <3>3, <4>1, <4>2, <4>3 DEF Given, Ready
    <3> QED
      BY <3>1, <3>2, <3>3 DEF LiveInv
  <2> QED
    BY <2>4, <2>5
<1> QED
  BY <1>6, <1>8 DEF LiveInv

(* A reload has a backfill for what is newly on, and those it is asked for,*)
(* and what it does not backfill although the command changed is missed.   *)
LEMMA Reloads ==
  ASSUME NEW new, NEW more, Reload(new, more)
  PROVE  /\ liveOn' = new.on /\ liveCommand' = new.command
         /\ fills \subseteq fills' /\ missed \subseteq missed'
         /\ \A a \in new.on : a \notin liveOn \cup Untracked => ToBeFilled(a)'
         /\ \A w \in more, a \in new.on : a \in w => ToBeFilled(a)'
         /\ \A a \in new.on \cap External :
              a \in liveOn /\ new.command[a] # liveCommand[a] => a \in missed' \/ ToBeFilled(a)'
<1> DEFINE W == ({Newly(new.on)} \ {{}}) \cup more
<1>1. /\ liveOn' = new.on /\ liveCommand' = new.command
      /\ fills' = fills \cup {FillOf(w \cap new.on, new.command) : w \in W}
      /\ missed' = missed \cup (Moved(new.on, new.command) \ UNION more)
  BY DEF Reload
<1>2. \A w \in W : FillOf(w \cap new.on, new.command) \in fills'
  BY <1>1
<1>3. \A w : FillOf(w \cap new.on, new.command).wanted = w \cap new.on
             /\ FillOf(w \cap new.on, new.command).command = new.command
  BY DEF FillOf
<1>4. \A w \in W, a \in new.on : a \in w => ToBeFilled(a)'
  BY <1>1, <1>2, <1>3 DEF ToBeFilled
<1>5. ASSUME NEW a \in new.on, a \notin liveOn \cup Untracked PROVE ToBeFilled(a)'
  <2>1. a \in Newly(new.on)
    BY <1>5 DEF Newly
  <2> QED
    BY <1>4, <2>1
<1>6. ASSUME NEW a \in new.on \cap External, a \in liveOn, new.command[a] # liveCommand[a]
      PROVE  a \in missed' \/ ToBeFilled(a)'
  <2>1. a \in Moved(new.on, new.command)
    BY <1>6 DEF Moved
  <2>2. CASE a \in UNION more
    BY <1>4, <1>6, <2>2
  <2> QED
    BY <1>1, <2>1, <2>2
<1> QED
  BY <1>1, <1>4, <1>5, <1>6

(* The config is written or edited, a backfill asked for.                  *)
LEMMA WriteLive ==
  ASSUME LiveInv,
         \/ \E on \in SUBSET Analyzer, command \in [External -> Setting] : WriteConfig(on, command)
         \/ \E a \in Analyzer : AskFill(a)
         \/ EditByHand
  PROVE  LiveInv'
<1>1. ASSUME NEW on \in SUBSET Analyzer, NEW command \in [External -> Setting], WriteConfig(on, command)
      PROVE  LiveInv'
  <2>1. /\ configFile' \in [on : SUBSET Analyzer, command : [External -> Setting], valid : BOOLEAN]
        /\ configFile'.on \subseteq Analyzer /\ configFile'.command \in [External -> Setting]
    BY <1>1 DEF WriteConfig, LiveInv, LiveTypeOK
  <2>2. UNCHANGED <<tool, known, probing, indexed, queued>>
    BY <1>1 DEF WriteConfig
  <2>3. CASE configFile.valid
    <3>1. Reload(configFile', {})
      BY <1>1, <2>3 DEF WriteConfig
    <3>2. LiveTypeOK'
      BY <2>1, <2>2, <3>1, Reloads DEF LiveInv, LiveTypeOK
    <3>3. /\ fills \subseteq fills' /\ missed \subseteq missed' /\ liveOn' = configFile'.on
          /\ \A a \in liveOn' : a \notin liveOn \cup Untracked => ToBeFilled(a)'
          /\ \A a \in liveOn' \cap External :
               a \in liveOn /\ liveCommand'[a] # liveCommand[a] => a \in missed' \/ ToBeFilled(a)'
      BY <3>1, Reloads
    <3>4. ASSUME NEW a \in Watched', a \notin liveOn \/ (a \in External /\ liveCommand'[a] # liveCommand[a])
          PROVE  ToBeFilled(a)'
      BY <3>3, <3>4 DEF Watched
    <3> QED
      BY <2>2, <3>2, <3>3, <3>4, ReloadLive
  <2>4. CASE ~configFile.valid
    <3>1. UNCHANGED <<liveOn, liveCommand, fills, missed>>
      BY <1>1, <2>4 DEF WriteConfig, liveConfig
    <3> QED
      BY <2>1, <2>2, <3>1, ReloadLive DEF Watched, LiveInv, LiveTypeOK
  <2> QED
    BY <2>3, <2>4
<1>2. ASSUME NEW a \in Analyzer, AskFill(a) PROVE LiveInv'
  BY <1>2, ReloadLive DEF AskFill, Watched, LiveInv, LiveTypeOK, liveConfig
<1>3. CASE EditByHand
  <2>1. configFile' \in [on : SUBSET Analyzer, command : [External -> Setting], valid : BOOLEAN]
    BY <1>3 DEF EditByHand
  <2> QED
    BY <1>3, <2>1, ReloadLive DEF EditByHand, Watched, LiveInv, LiveTypeOK, liveConfig
<1> QED
  BY <1>1, <1>2, <1>3

(* A tool that comes while it is probed, or about to be, is missed.        *)
LEMMA ToolLive ==
  ASSUME LiveInv, NEW t \in External, NEW s \in Setting,
         tool' = tool \cup {<<t, s>>}, Unannounced(<<t, s>>),
         configFile' \in [on : SUBSET Analyzer, command : [External -> Setting], valid : BOOLEAN],
         UNCHANGED <<liveOn, liveCommand, known, probing, indexed, queued, fills>>
  PROVE  LiveInv'
<1>1. LiveTypeOK' /\ missed \subseteq missed'
  BY DEF LiveInv, LiveTypeOK, Unannounced
<1>2. ASSUME NEW a \in Watched', a \in External, CommandOf(a) \in tool' \ tool
      PROVE  CommandOf(a) \notin probing
  <2>1. CommandOf(a) = <<t, s>> /\ a = t
    BY <1>2, CommandsDiffer DEF LiveInv
  <2>2. <<t, s>>[1] = t
    OBVIOUS
  <2> QED
    BY <1>2, <2>1, <2>2 DEF Watched, Unannounced, Probed
<1>3. \A a \in Watched' : a \in liveOn
  BY DEF Watched
<1> QED
  BY <1>1, <1>2, <1>3, ReloadLive

(* An installation ends.                                                   *)
LEMMA InstallLive ==
  ASSUME LiveInv, NEW t \in External, NEW s \in Setting,
         Install(t) \/ Installed(t, s) \/ InstallFails(t) \/ ToolComes(<<t, s>>)
  PROVE  LiveInv'
<1>1. CASE Install(t) \/ InstallFails(t)
  BY <1>1, ReloadLive DEF Install, InstallFails, Watched, LiveInv, LiveTypeOK, liveConfig
<1>2. CASE ToolComes(<<t, s>>)
  BY <1>2, ToolLive DEF ToolComes, LiveInv, LiveTypeOK, liveConfig
<1>3. CASE Installed(t, s)
  <2>1. /\ tool' = tool \cup {<<t, s>>}
        /\ configFile' = [configFile EXCEPT !.on = configFile.on \cup {t}, !.command[t] = s]
        /\ UNCHANGED <<known, probing, indexed, queued>>
    BY <1>3 DEF Installed
  <2>2. /\ configFile' \in [on : SUBSET Analyzer, command : [External -> Setting], valid : BOOLEAN]
        /\ configFile'.on \subseteq Analyzer /\ t \in configFile'.on
        /\ configFile'.command \in [External -> Setting]
    BY <2>1, LiveAssumption DEF LiveInv, LiveTypeOK
  <2>3. CASE configFile.valid
    <3>1. Reload(configFile', {{t}})
      BY <1>3, <2>3 DEF Installed
    <3>2. /\ liveOn' = configFile'.on /\ liveCommand' = configFile'.command
          /\ fills \subseteq fills' /\ missed \subseteq missed' /\ ToBeFilled(t)'
          /\ \A a \in liveOn' : a \notin liveOn \cup Untracked => ToBeFilled(a)'
          /\ \A a \in liveOn' \cap External :
               a \in liveOn /\ liveCommand'[a] # liveCommand[a] => a \in missed' \/ ToBeFilled(a)'
      BY <2>2, <3>1, Reloads
    <3>3. LiveTypeOK'
      BY <2>1, <2>2, <3>2 DEF LiveInv, LiveTypeOK
    <3>4. ASSUME NEW a \in Watched', a \in External, CommandOf(a) \in tool' \ tool PROVE ToBeFilled(a)'
      <4>1. a = t
        BY <2>1, <3>4, CommandsDiffer DEF LiveInv
      <4> QED
        BY <3>2, <4>1
    <3>5. ASSUME NEW a \in Watched', a \notin liveOn \/ (a \in External /\ liveCommand'[a] # liveCommand[a])
          PROVE  ToBeFilled(a)'
      BY <3>2, <3>5 DEF Watched
    <3> QED
      BY <2>1, <3>2, <3>3, <3>4, <3>5, ReloadLive
  <2>4. CASE ~configFile.valid
    <3>1. Unannounced(<<t, s>>) /\ UNCHANGED <<liveOn, liveCommand, fills>>
      BY <1>3, <2>4 DEF Installed, liveConfig
    <3> QED
      BY <2>1, <2>2, <3>1, ToolLive
  <2> QED
    BY <2>3, <2>4
<1> QED
  BY <1>1, <1>2, <1>3

LEMMA StepLive == LiveInv /\ [LiveNext]_liveVars => LiveInv'
<1> SUFFICES ASSUME LiveInv, [LiveNext]_liveVars PROVE LiveInv'
  OBVIOUS
<1>1. CASE UNCHANGED liveVars
  BY <1>1, ReloadLive DEF liveVars, Watched, LiveInv, LiveTypeOK
<1>2. ASSUME NEW a \in External, Install(a) \/ InstallFails(a) \/ \E s \in Setting : Installed(a, s)
      PROVE  LiveInv'
  <2>1. liveCommand[a] \in Setting
    BY DEF LiveInv, LiveTypeOK
  <2> QED
    BY <1>2, <2>1, InstallLive
<1>3. ASSUME NEW c \in External \X Setting, ToolComes(c) PROVE LiveInv'
  <2>1. PICK t \in External, s \in Setting : c = <<t, s>>
    OBVIOUS
  <2> QED
    BY <1>3, <2>1, InstallLive
<1> QED
  BY <1>1, <1>2, <1>3, IndexLive, ProbeLive, FilledLive, WriteLive DEF LiveNext

(* Once no probe, installation or backfill is under way, an analyzer that  *)
(* is on and whose tool is there was given every file, those too that were *)
(* indexed while it was being switched on (container.ts, start.ts), unless *)
(* its command changed while it was on, or its tool came between two probes*)
(* for it, and no backfill has seen to it since.                           *)
THEOREM EveryFileGiven == LiveSpec => []EveryFileIsGiven
<1>1. LiveInv => EveryFileIsGiven
  BY DEF LiveInv, EveryFileIsGiven, Quiet, Watched, ToBeFilled, Given
<1> QED
  BY <1>1, InitLive, StepLive, PTL DEF LiveSpec
=============================================================================
