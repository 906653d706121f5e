------------------------------ MODULE McpServer ------------------------------
(***************************************************************************)
(* The MCP tools (apps/mcp/src/registry.ts) and their two transports: the  *)
(* stdio binary (server.ts), a process of its own beside the daemon, and   *)
(* the daemon's /mcp route (web/server/mcp.ts).  What a tool finds is not  *)
(* modelled; its guards, its error paths, what it tells of the index, and  *)
(* what is logged of it are.                                               *)
(***************************************************************************)
EXTENDS Naturals, FiniteSets, Absence

CONSTANTS
  Call,         \* calls of tools
  ReconcilePass \* the reconcile loop, and requests for /api/refresh

(* The passes of the loop follow one another.                              *)
Loop == "loop"

Signal == {"SIGINT", "SIGTERM"}
McpConfig == [admin : BOOLEAN, logs : BOOLEAN]

Admin == {"set_config", "compact"}
Guarded == {"refresh", "compact"}

(* TOOL_HANDLERS without those that differ in their result alone.          *)
Tool == {"search", "status", "refresh", "unknown"} \cup Admin

ASSUME CallAssumption == None \notin Tool \cup {"true", "false", "other"}

VARIABLES
  transport,    \* "stdio" or "http"
  config,       \* mcp.admin_enabled and mcp.log_max_rows > 0, as loaded
  captured,     \* adminEnabled of the Server that stdio's session has
  here,         \* the passes of this process's reconciler that are under way
  running,      \* its flag
  overtaken,    \* those under way when another ended, none having begun since
  there,        \* the daemon of another process: "absent", "idle", "runs"
  call,         \* per call: where it is and what it answers
  deferred,     \* what setImmediate will run
  rows,         \* per call, the rows of the request log: ok or not
  counted,      \* per call, the number of times its value was counted
  stage,        \* per signal, how far its shutdown is
  process       \* "up", its connection "closed", its store "shut", "exited"

mcpVars == <<transport, config, captured, here, running, overtaken, there, call, deferred,
            rows, counted, stage, process>>
passes == <<here, running, overtaken>>
daemons == <<transport, passes, there>>
log == <<rows, counted>>

NoCall == [at |-> "idle", tool |-> None, enabled |-> FALSE, answer |-> None,
           logs |-> FALSE, told |-> None, truth |-> None]

McpInit ==
  /\ transport \in {"stdio", "http"}
  /\ config \in McpConfig
  /\ captured = config.admin
  /\ here = {} /\ running = FALSE /\ overtaken = {} /\ there = "absent"
  /\ call = [c \in Call |-> NoCall]
  /\ deferred = {}
  /\ rows = [c \in Call |-> <<0, 0>>]
  /\ counted = [c \in Call |-> 0]
  /\ stage = [s \in Signal |-> "none"]
  /\ process = "up"

-----------------------------------------------------------------------------
(* assertNotReconciling sees the flag of its own process's reconciler.     *)
Refused(t) == t \in Guarded /\ running

(* What there is to be told.                                               *)
Reconciling ==
  IF here \ overtaken # {} \/ there = "runs" THEN "runs"
  ELSE IF here # {} THEN "overtaken" ELSE "none"

(* readActiveDaemon: the process that holds the lock, if it lives.         *)
ActiveDaemon == IF transport = "http" THEN "self" ELSE IF there = "absent" THEN None ELSE "other"

reconcilingState(flag) ==
  IF flag THEN "true"
  ELSE IF ActiveDaemon \notin {None, "self"} THEN "unknown" ELSE "false"

(* stdio has one Server, and so one look at the config; /mcp makes one for *)
(* every request.                                                          *)
AdminEnabled == IF transport = "stdio" THEN captured ELSE config.admin

(* Slip: the rows are written before the result has become a text.         *)
RecordsEach(c, text) == {[call |-> c, ok |-> o] : o \in {TRUE, text}}

(* The result becomes a text and is recorded, or its failure is.           *)
Records(c, text) == {[call |-> c, ok |-> text]}

(* recordMcpRequest and recordUsageValue leave their writes for later.     *)
Defers(c, text, value) ==
  deferred' = deferred
    \cup (IF config.logs THEN Records(c, text) ELSE {})
    \cup (IF text /\ value THEN {[call |-> c, value |-> TRUE]} ELSE {})

Answers(c, text, told) ==
  call' = [call EXCEPT ![c].at = "over", ![c].logs = config.logs,
                       ![c].answer = IF process = "up" THEN text ELSE None,
                       ![c].told = told, ![c].truth = Reconciling]

-----------------------------------------------------------------------------
(* tools/call up to the handler's first await.  A tool that is not there,  *)
(* the gate of admin_workspace, the arguments and the guard all throw      *)
(* inside the try.                                                         *)
Request(c) ==
  /\ process = "up" /\ call[c].at = "idle"
  /\ \E t \in Tool, valid \in BOOLEAN :
       LET goes == /\ t # "unknown" /\ valid
                   /\ t \in Admin => AdminEnabled
                   /\ ~Refused(t)
           begun == [NoCall EXCEPT !.at = "works", !.tool = t, !.enabled = config.admin]
       IN IF goes
          THEN /\ call' = [call EXCEPT ![c] = begun]
               /\ UNCHANGED deferred
          ELSE /\ call' = [call EXCEPT ![c] =
                             [begun EXCEPT !.at = "over", !.answer = FALSE, !.logs = config.logs]]
               /\ Defers(c, FALSE, FALSE)
  /\ UNCHANGED <<daemons, config, captured, log, stage, process>>

(* search_workspace, workspace_status and a refresh, whose passes are over *)
(* or have thrown: indexHealth is read when all else is done.              *)
Finishes(c) ==
  /\ process # "exited"
  /\ call[c].at = "works" /\ call[c].tool \in {"search", "status", "refresh"}
  /\ \E text \in BOOLEAN :
       /\ process = "shut" => ~text
       /\ Answers(c, text, IF text THEN reconcilingState(running) ELSE None)
       /\ Defers(c, text, call[c].tool = "search")
  /\ UNCHANGED <<daemons, config, captured, log, stage, process>>

Compacts(c) ==
  /\ process # "exited"
  /\ call[c].at = "works" /\ call[c].tool = "compact"
  /\ \E text \in BOOLEAN : Answers(c, text, None) /\ Defers(c, text, FALSE)
  /\ UNCHANGED <<daemons, config, captured, log, stage, process>>

(* set_config writes the file.  The daemon reloads it, which may fail and  *)
(* does not fail the call; a stdio server goes on with what it has.        *)
SetConfig(c) ==
  /\ process # "exited"
  /\ call[c].at = "works" /\ call[c].tool = "set_config"
  /\ \E k \in McpConfig, written, reloaded \in BOOLEAN :
       /\ config' = IF written /\ reloaded /\ transport = "http" THEN k ELSE config
       /\ call' = [call EXCEPT ![c].at = "over", ![c].logs = config'.logs,
                               ![c].answer = IF process = "up" THEN written ELSE None]
       /\ deferred' = deferred \cup (IF config'.logs THEN Records(c, written) ELSE {})
  /\ UNCHANGED <<daemons, captured, log, stage, process>>

(* What was deferred runs; a store that is closed throws, and that is      *)
(* swallowed.                                                              *)
Writes(d) ==
  /\ d \in deferred /\ deferred' = deferred \ {d}
  /\ process # "exited"
  /\ IF process = "shut" THEN UNCHANGED log
     ELSE IF "ok" \in DOMAIN d
     THEN /\ rows' = [rows EXCEPT ![d.call] = IF d.ok THEN <<@[1] + 1, @[2]>> ELSE <<@[1], @[2] + 1>>]
          /\ UNCHANGED counted
     ELSE counted' = [counted EXCEPT ![d.call] = @ + 1] /\ UNCHANGED rows
  /\ UNCHANGED <<daemons, config, captured, call, stage, process>>

-----------------------------------------------------------------------------
(* The daemon's passes: the loop's, and those of refreshes, which the flag *)
(* keeps from beginning.  Every end resets the flag, whatever still runs.  *)
BeginsPass(q) ==
  /\ transport = "http" /\ q \notin here
  /\ q = Loop \/ ~running
  /\ here' = here \cup {q} /\ running' = TRUE /\ overtaken' = {}
  /\ UNCHANGED <<transport, there, config, captured, call, deferred, log, stage, process>>

EndsPass(q) ==
  /\ q \in here
  /\ here' = here \ {q} /\ running' = FALSE /\ overtaken' = here \ {q}
  /\ UNCHANGED <<transport, there, config, captured, call, deferred, log, stage, process>>

(* A daemon comes and goes beside the stdio server, which has no passes.   *)
OtherDaemon ==
  /\ transport = "stdio"
  /\ \/ there = "absent" /\ there' = "idle"
     \/ there = "idle" /\ there' \in {"runs", "absent"}
     \/ there = "runs" /\ there' \in {"idle", "absent"}
  /\ UNCHANGED <<transport, passes, config, captured, call, deferred, log, stage, process>>

(* The config is edited elsewhere and reloaded, which only the daemon does.*)
Edited ==
  /\ transport = "http"
  /\ config' \in McpConfig \ {config}
  /\ UNCHANGED <<daemons, captured, call, deferred, log, stage, process>>

-----------------------------------------------------------------------------
(* A signal to the stdio server, each with a shutdown of its own.          *)
Signalled(s) ==
  /\ transport = "stdio" /\ process # "exited"
  /\ stage[s] = "none" /\ stage' = [stage EXCEPT ![s] = "closes"]
  /\ UNCHANGED <<daemons, config, captured, call, deferred, log, process>>

AfterClose(closed) == "disposes"

ClosesServer(s) ==
  /\ stage[s] = "closes" /\ process # "exited"
  /\ \E closed \in BOOLEAN :
       /\ stage' = [stage EXCEPT ![s] = AfterClose(closed)]
       /\ process' = IF process = "up" THEN "closed" ELSE process
  /\ UNCHANGED <<daemons, config, captured, call, deferred, log>>

(* runtime.close, which closes the store, and process.exit in the same     *)
(* turn or, when the other shutdown gets in between, a little later.       *)
ClosesRuntime(s) ==
  /\ stage[s] = "disposes" /\ process # "exited"
  /\ stage' = [stage EXCEPT ![s] = "exits"]
  /\ process' = "shut"
  /\ UNCHANGED <<daemons, config, captured, call, deferred, log>>

ProcessExits(s) ==
  /\ stage[s] = "exits" /\ process # "exited"
  /\ process' = "exited"
  /\ UNCHANGED <<daemons, config, captured, call, deferred, log, stage>>

-----------------------------------------------------------------------------
CallEnds(c) == Finishes(c) \/ Compacts(c) \/ SetConfig(c)
ServerShutsDown(s) == ClosesServer(s) \/ ClosesRuntime(s) \/ ProcessExits(s)

McpNext ==
  \/ \E c \in Call : Request(c) \/ CallEnds(c)
  \/ \E d \in deferred : Writes(d)
  \/ \E q \in ReconcilePass : BeginsPass(q) \/ EndsPass(q)
  \/ OtherDaemon \/ Edited
  \/ \E s \in Signal : Signalled(s) \/ ServerShutsDown(s)

McpSpec == McpInit /\ [][McpNext]_mcpVars
McpFairSpec == McpSpec /\ \A s \in Signal : WF_mcpVars(ServerShutsDown(s))

-----------------------------------------------------------------------------
(* What the log and the usage say of a call is what it was answered: one   *)
(* row, ok or not as the answer was, or none when the log was off, and the *)
(* value of a search counted once, and only when it was served.            *)
Pending(c) == \E d \in deferred : d.call = c

AnswersAreRecorded ==
  \A c \in Call :
    (process = "up" /\ call[c].at = "over" /\ ~Pending(c)) =>
      /\ rows[c] = IF ~call[c].logs THEN <<0, 0>> ELSE IF call[c].answer THEN <<1, 0>> ELSE <<0, 1>>
      /\ counted[c] = IF call[c].answer /\ call[c].tool = "search" THEN 1 ELSE 0

(* No admin action is carried out for a request that came while the config *)
(* forbade it: switching mcp.admin_enabled off counts from the next        *)
(* request on (registry.ts:621-631, web/server/mcp.ts:28-34).              *)
AdminOnlyWhileEnabled ==
  \A c \in Call :
    (call[c].tool \in Admin /\ (call[c].at = "works" \/ call[c].answer = TRUE)) => call[c].enabled

(* What a result says of reconciling (registry.ts:92-97).  "true": a pass  *)
(* runs here.  "false": none runs here or in the daemon, unless another    *)
(* pass of this process ended while it ran, which resets the one flag, and *)
(* none has begun since.                                                   *)
ReconcilingIsTold ==
  \A c \in Call :
    /\ call[c].told = "true" => call[c].truth = "runs"
    /\ call[c].told = "false" => call[c].truth # "runs"

(* The claim of registry.ts:95, "idle, and no other daemon owns the lock -> *)
(* false (authoritative)", without exception: it does not hold.            *)
FalseIsAuthoritative == \A c \in Call : call[c].told = "false" => call[c].truth = "none"

(* The log and the usage say what a call was answered, no admin action     *)
(* runs while the config forbids it, and what a result says of reconciling *)
(* is true but for passes that another has overtaken.                      *)
ToolCallsAreTrue == AnswersAreRecorded /\ AdminOnlyWhileEnabled /\ ReconcilingIsTold

(* A signal ends the stdio server, whatever else goes wrong: rejections    *)
(* that escape are swallowed (server.ts:72-84) and must not keep it alive. *)
SignalEnds ==
  \A s \in Signal : (stage[s] # "none") ~> (process = "exited")
=============================================================================
