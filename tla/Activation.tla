----------------------------- MODULE Activation -----------------------------
(***************************************************************************)
(* A project's life in a running daemon: /api/projects/activate and        *)
(* /api/projects/deactivate (apps/web/server/api/projects.ts) with the     *)
(* watcher they attach and detach in the WatcherRegistry, the background   *)
(* index pass and its AbortController, the RebuildTracker that shows it,   *)
(* and the other passes that touch the active flag.                        *)
(*                                                                         *)
(* All of this is kept per project: the module has one.  The daemon's      *)
(* runtime is built before it serves requests, so getRuntime does not let  *)
(* another request in.                                                     *)
(***************************************************************************)
EXTENDS Naturals, FiniteSets, Absence

CONSTANTS
  Caller,       \* slots for requests and the index passes they start
  Watcher,      \* WatcherService objects
  Files         \* bound: files of a pass

ASSUME ActivationAssumption == None \notin Caller \cup Watcher /\ Files \in Nat

VARIABLES
  active,       \* projects.active
  entry,        \* WatcherRegistry: the watcher registered for the project
  live,         \* the watchers that are subscribed
  activating,   \* the activating set holds the project
  request,      \* per caller, the await its request is at
  held,         \* per caller, the watcher its request stops
  controller,   \* inFlightActivation: whose pass can be aborted
  pass,         \* per caller, its index pass
  job,          \* RebuildTracker: status of the project's last job
  rebuilding,   \* a pass of /api/rebuild runs
  tangled,      \* history: requests met, one failed, or a pass activated
  lost          \* history: the registry lost sight of a watcher

requests == <<activating, request, held>>
tracker == <<job, rebuilding>>
activationVars == <<active, entry, live, requests, controller, pass, tracker, tangled, lost>>

Idle == [status |-> "none", left |-> 0, tracked |-> FALSE]
Pass == [status : {"none", "running", "aborted"}, left : 0..Files, tracked : BOOLEAN]

ActivationInit ==
  /\ active \in BOOLEAN
  /\ entry \in IF active THEN Watcher ELSE {None}
  /\ live = {entry} \ {None}
  /\ activating = FALSE
  /\ request = [c \in Caller |-> "idle"]
  /\ held = [c \in Caller |-> None]
  /\ controller = None
  /\ pass = [c \in Caller |-> Idle]
  /\ job = "none" /\ rebuilding = FALSE
  /\ tangled = FALSE /\ lost = FALSE

Free(c) == request[c] = "idle" /\ pass[c] = Idle
Alone(c) == \A d \in Caller \ {c} : request[d] = "idle"

-----------------------------------------------------------------------------
(* The pass of an earlier activation is aborted, the tracker asked and     *)
(* indexProject called, which marks the project active once more.          *)
Kickoff(c) ==
  /\ active' = TRUE
  /\ controller' = c
  /\ pass' = [d \in Caller |->
       IF d = c THEN [status |-> "running", left |-> Files, tracked |-> job # "running"]
       ELSE IF d = controller THEN [pass[d] EXCEPT !.status = "aborted"]
       ELSE pass[d]]
  /\ job' = "running"
  /\ UNCHANGED rebuilding

(* Else the request is answered 409.                                       *)
MayActivate == ~activating

(* A watcher that is registered already is left alone.                     *)
Reactivate(c) ==
  /\ Free(c) /\ MayActivate
  /\ entry # None
  /\ Kickoff(c)
  /\ tangled' = (tangled \/ ~Alone(c))
  /\ UNCHANGED <<entry, live, requests, lost>>

Activate(c) ==
  /\ Free(c) /\ MayActivate
  /\ entry = None
  /\ active' = TRUE
  /\ activating' = TRUE
  /\ request' = [request EXCEPT ![c] = "attaching"]
  /\ tangled' = (tangled \/ ~Alone(c))
  /\ UNCHANGED <<entry, live, held, controller, pass, tracker, lost>>

Answered(c) == request' = [request EXCEPT ![c] = "idle"]

(* WatcherService.start resolves: the watcher is registered.               *)
Attached(c, w) ==
  /\ request[c] = "attaching" /\ w \notin live
  /\ Answered(c) /\ activating' = FALSE
  /\ entry' = w
  /\ live' = live \cup {w}
  /\ Kickoff(c)
  /\ UNCHANGED <<held, tangled, lost>>

(* Slip: only a success releases the project.                              *)
StillActivating == activating

NotActivating == FALSE

(* It rejects, and of its two subscriptions the first may stand.           *)
AttachFails(c) ==
  /\ request[c] = "attaching"
  /\ Answered(c) /\ activating' = NotActivating
  /\ live' \in {live} \cup {live \cup {w} : w \in Watcher}
  /\ lost' = (lost \/ live' # live)
  /\ tangled' = TRUE
  /\ UNCHANGED <<active, entry, held, controller, pass, tracker>>

-----------------------------------------------------------------------------
(* The flag falls, the pass is aborted, a registered watcher is stopped.   *)
Deactivate(c) ==
  /\ Free(c)
  /\ active' = FALSE
  /\ pass' = [d \in Caller |->
       IF d = controller THEN [pass[d] EXCEPT !.status = "aborted"] ELSE pass[d]]
  /\ controller' = None
  /\ request' = IF entry = None THEN request ELSE [request EXCEPT ![c] = "stopping"]
  /\ held' = [held EXCEPT ![c] = entry]
  /\ tangled' = (tangled \/ ~Alone(c))
  /\ UNCHANGED <<entry, live, activating, tracker, lost>>

Unregistered == None

(* stop resolves, and whatever is registered by now is unregistered.       *)
Detached(c) ==
  /\ request[c] = "stopping"
  /\ Answered(c)
  /\ live' = live \ {held[c]}
  /\ entry' = Unregistered
  /\ lost' = (lost \/ entry \notin {None, held[c]})
  /\ held' = [held EXCEPT ![c] = None]
  /\ UNCHANGED <<active, activating, controller, pass, tracker, tangled>>

-----------------------------------------------------------------------------
More(c) == pass[c].left > 0

(* The pass: the signal is looked at before each file.                     *)
PullFile(c) ==
  /\ pass[c].status = "running" /\ More(c)
  /\ pass' = [pass EXCEPT ![c].left = @ - 1]
  /\ UNCHANGED <<active, entry, live, requests, controller, tracker, tangled, lost>>

(* Slip: the controller is cleared, whoever's it is.                       *)
ClearedByAny(c) == None

ClearedByOwner(c) == IF controller = c THEN None ELSE controller

JobAfter(c, s) == IF pass[c].tracked THEN s ELSE job

PassSettles(c, s) ==
  /\ job' = JobAfter(c, s)
  /\ controller' = ClearedByOwner(c)
  /\ pass' = [pass EXCEPT ![c] = Idle]
  /\ UNCHANGED <<active, entry, live, requests, rebuilding, tangled, lost>>

PassEnds(c) ==
  /\ pass[c].status # "none"
  /\ pass[c].status = "running" => ~More(c)
  /\ PassSettles(c, "done")

PassFails(c) ==
  /\ pass[c].status # "none"
  /\ PassSettles(c, "failed")

-----------------------------------------------------------------------------
(* Whatever pass touches a project marks it active.                        *)
Touches ==
  /\ active' = TRUE
  /\ tangled' = (tangled \/ ~active)
  /\ UNCHANGED <<entry, live, requests, controller, pass, lost>>

(* The reconcile loop goes over the projects that were active when the     *)
(* daemon started, /api/refresh over every project discovered.             *)
Reconcile == Touches /\ UNCHANGED tracker

Rebuild ==
  /\ job # "running"
  /\ job' = "running" /\ rebuilding' = TRUE
  /\ Touches

RebuildEnds ==
  /\ rebuilding
  /\ job' \in {"done", "failed"}
  /\ rebuilding' = FALSE
  /\ UNCHANGED <<active, entry, live, requests, controller, pass, tangled, lost>>

-----------------------------------------------------------------------------
Requests(c) == Reactivate(c) \/ Activate(c) \/ Deactivate(c)

Proceeds(c) ==
  \/ \E w \in Watcher : Attached(c, w)
  \/ AttachFails(c) \/ Detached(c)
  \/ PullFile(c) \/ PassEnds(c) \/ PassFails(c)

ActivationNext ==
  \/ \E c \in Caller : Requests(c) \/ Proceeds(c)
  \/ Reconcile \/ Rebuild \/ RebuildEnds

ActivationSpec == ActivationInit /\ [][ActivationNext]_activationVars

-----------------------------------------------------------------------------
ActivationTypeOK ==
  /\ {active, activating, rebuilding, tangled, lost} \subseteq BOOLEAN
  /\ entry \in Watcher \cup {None}
  /\ live \subseteq Watcher
  /\ request \in [Caller -> {"idle", "attaching", "stopping"}]
  /\ held \in [Caller -> Watcher \cup {None}]
  /\ controller \in Caller \cup {None}
  /\ pass \in [Caller -> Pass]
  /\ job \in {"none", "running", "done", "failed"}

(* "so we don't attach two watchers": the only subscribed watcher is the   *)
(* registered one, which deactivate can stop, unless start() failed after  *)
(* its first subscription or two deactivations stopped one watcher and an  *)
(* activation came between their ends.                                     *)
OneWatcher == lost \/ live \subseteq {entry}

(* When no request is under way an active project is watched and an        *)
(* inactive one is not, if no activation and deactivation overlapped, no   *)
(* watcher failed to start and no other pass touched the inactive project. *)
ActiveIsWatched ==
  (\A c \in Caller : request[c] = "idle") /\ ~tangled =>
    (active <=> entry # None) /\ live = {entry} \ {None}

(* "If the user calls deactivate before this finishes, we trip the         *)
(* signal": a pass that has not been aborted is the one deactivate finds,  *)
(* so of several activations no pass escapes it.                           *)
PassCanBeAborted ==
  \A c \in Caller : pass[c].status = "running" => controller = c

(* The tracker shows a job as running exactly while the pass that started  *)
(* it runs, so that later rebuilds are neither refused for ever nor run    *)
(* next to it.                                                             *)
JobIsTrue ==
  LET owners == {c \in Caller : pass[c].tracked} IN
  IF rebuilding THEN job = "running" /\ owners = {}
  ELSE Cardinality(owners) = (IF job = "running" THEN 1 ELSE 0)

(* The safety properties of activation: one watcher, none for a project    *)
(* that is inactive, a pass that can be aborted, a job that tells the      *)
(* truth.                                                                  *)
ActivationIsSound == OneWatcher /\ ActiveIsWatched /\ PassCanBeAborted /\ JobIsTrue

(* "indexer / watcher / reconciler only operate on user-activated          *)
(* projects": a project that its user deactivated, or never activated,     *)
(* does not become active without a request that names it.                 *)
OnlyUsersActivate ==
  [][~active /\ active' => Rebuild \/ \E c \in Caller : Requests(c) \/ Proceeds(c)]_activationVars
=============================================================================
