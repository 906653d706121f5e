------------------------------ MODULE Watcher ------------------------------
(***************************************************************************)
(* WatcherService of one project (packages/core/src/watcher/service.ts):   *)
(* file system events are filtered, debounced per path, bounded in number  *)
(* and dispatched to the indexer, one call per path at a time; an edited   *)
(* rule file makes it forget its cached filter and prune the index.        *)
(*                                                                         *)
(* The index holds per path the content it was last given; module Indexer  *)
(* has what such a write consists of.  "add" and "change" are dispatched   *)
(* alike and are both called change here.  shouldIndex refuses a path that  *)
(* the rules exclude and, since it looks at the file, one that is gone.    *)
(***************************************************************************)
EXTENDS Naturals, Sequences, FiniteSets, SequencesExt, Absence

CONSTANTS
  Path,         \* paths of the project that can be indexed
  Content,      \* contents that are indexed
  Skipped,      \* a content that indexFile skips: not UTF-8, or without chunks
  Absent,       \* no file, or one shouldIndex refuses by its size or bytes; no row
  PENDING_CAP,  \* entries of the pending map
  Reeval,       \* bound: calls of reevaluateFilter in flight
  MaxEdits      \* bound: changes of files and rule files

ASSUME WatcherAssumption ==
  /\ PENDING_CAP \in Nat \ {0} /\ MaxEdits \in Nat
  /\ Absent \notin Content /\ None \notin Content \cup {Absent}
  /\ Skipped \notin Content \cup {Absent}

VARIABLES
  disk,         \* what is on disk
  rules,        \* the paths that the rule files on disk exclude
  edits,        \* changes so far
  raised,       \* per path, the events the OS has yet to deliver
  rulesRaised,  \* an event of a rule file is yet to be delivered
  filter,       \* the cached filter: the paths it excludes, None for null
  pending,      \* the pending map in insertion order
  rulesPending, \* the timer of scheduleRulesReeval is armed
  paused,
  phase,        \* "running", "stopping" from stop() on, "stopped"
  inflight,     \* per path, what the call under way will leave in the index
  index,        \* content of the row of a path, Absent without one
  listed,       \* per call of reevaluateFilter, the rows it has yet to look at
  reeval,       \* per call of reevaluateFilter, the rows it has yet to delete
  missed        \* history: paths whose state the code leaves to a later pass

world == <<disk, rules, edits>>
timers == <<pending, rulesPending>>
control == <<paused, phase>>
calls == <<listed, reeval>>
vars == <<world, raised, rulesRaised, filter, timers, control, inflight, index, calls, missed>>

Event == {"change", "unlink"}
OnDisk == Content \cup {Skipped, Absent}
Pending == [path : Path, event : Event]

(* The index has of p what it should, as far as a watcher can tell.        *)
Current(p) ==
  /\ p \in rules => index[p] = Absent
  /\ p \notin rules /\ disk[p] \in Content => index[p] = disk[p]

(* A watcher starts on what the last pass left; what changed since then is *)
(* left to the next one.                                                   *)
Init ==
  /\ disk \in [Path -> OnDisk]
  /\ rules \in SUBSET Path
  /\ edits = 0
  /\ raised = [p \in Path |-> {}]
  /\ rulesRaised = FALSE
  /\ filter = None
  /\ pending = <<>> /\ rulesPending = FALSE
  /\ paused = FALSE /\ phase = "running"
  /\ inflight = [p \in Path |-> None]
  /\ index \in [Path -> Content \cup {Absent}]
  /\ listed = [r \in Reeval |-> {}] /\ reeval = [r \in Reeval |-> {}]
  /\ missed = {p \in Path : ~Current(p)}

Misses(ps) == missed' = missed \cup ps

-----------------------------------------------------------------------------
(* The world.  An event that has not been delivered gives way to the next  *)
(* one of its path, but for a removal: the file may be back when it comes. *)
(* A stopped watcher gets none, and nothing is promised from stop() on.    *)

EditFile(p) ==
  /\ edits < MaxEdits /\ edits' = edits + 1
  /\ \E d \in OnDisk \ {disk[p]}, e \in Event, late \in SUBSET (raised[p] \cap {"unlink"}) :
       /\ d # Absent => e = "change"
       /\ disk' = [disk EXCEPT ![p] = d]
       /\ raised' = [raised EXCEPT ![p] = IF phase = "stopped" THEN {} ELSE {e} \cup late]
  /\ missed' = IF phase # "running" THEN missed \cup {p}
               ELSE IF p \in rules THEN missed ELSE missed \ {p}
  /\ UNCHANGED <<rules, rulesRaised, filter, timers, control, inflight, index, calls>>

(* Paths that are no longer excluded wait for their next event or pass.    *)
EditRules ==
  /\ edits < MaxEdits /\ edits' = edits + 1
  /\ \E rs \in (SUBSET Path) \ {rules} :
       /\ rules' = rs
       /\ Misses(IF phase = "stopped" THEN Path ELSE rules \ rs)
  /\ rulesRaised' = (phase # "stopped")
  /\ UNCHANGED <<disk, raised, filter, timers, control, inflight, index, calls>>

-----------------------------------------------------------------------------
(* routeEvent and schedule                                                 *)

(* Slip: one entry too many.                                               *)
FullOffByOne(q) == Len(q) > PENDING_CAP

Full(q) == Len(q) >= PENDING_CAP

(* A path that is in the map keeps its place; a new one evicts the oldest. *)
Put(q, p, e) ==
  LET new == [path |-> p, event |-> e] IN
  IF \E k \in DOMAIN q : q[k].path = p
  THEN [k \in DOMAIN q |-> IF q[k].path = p THEN new ELSE q[k]]
  ELSE Append(IF Full(q) THEN Tail(q) ELSE q, new)

Evicted(q, p) ==
  IF Full(q) /\ \A k \in DOMAIN q : q[k].path # p THEN {Head(q).path} ELSE {}

CurrentFilter == IF filter = None THEN rules ELSE filter

(* shouldIndex: the rules of this filter and a look at the file.           *)
ShouldIndex(excluded, p) == p \notin excluded /\ disk[p] # Absent

(* The oldest event of a path is delivered, a removal before what follows. *)
Delivered(p) == IF "unlink" \in raised[p] THEN "unlink" ELSE "change"

(* The removal of a file is dropped unless the file is back by now.  What  *)
(* the cached filter drops is missed if the rule files say otherwise by    *)
(* now and the watcher has yet to hear of it.                              *)
RouteEvent(p) ==
  /\ raised[p] # {}
  /\ raised' = [raised EXCEPT ![p] = @ \ {Delivered(p)}]
  /\ filter' = CurrentFilter
  /\ IF ShouldIndex(CurrentFilter, p)
     THEN /\ pending' = Put(pending, p, Delivered(p))
          /\ Misses(Evicted(pending, p))
     ELSE /\ Misses(IF p \in CurrentFilter \ rules /\ (rulesRaised \/ rulesPending) THEN {p} ELSE {})
          /\ UNCHANGED pending
  /\ UNCHANGED <<world, rulesRaised, rulesPending, control, inflight, index, calls>>

(* Slip: the rules are read anew and the rows they exclude by now stay.    *)
ResetsFilterOnly ==
  /\ rulesRaised
  /\ rulesRaised' = FALSE
  /\ filter' = None
  /\ UNCHANGED <<world, raised, timers, control, inflight, index, calls, missed>>

(* The event of a rule file arms or re-arms the timer.                     *)
ScheduleRulesReeval ==
  /\ rulesRaised
  /\ rulesRaised' = FALSE
  /\ rulesPending' = TRUE
  /\ UNCHANGED <<world, raised, filter, pending, control, inflight, index, calls, missed>>

-----------------------------------------------------------------------------
(* dispatch                                                                *)

Without(q, p) == RemoveAt(q, CHOOSE k \in DOMAIN q : q[k].path = p)

(* Slip: an event that meets a call under way is dropped.                  *)
DropsEvent(q, p, e) == q

(* The event is scheduled once more.                                       *)
Again(q, p, e) == Put(q, p, e)

(* What the call leaves in the index, None if it leaves the row alone: for *)
(* a file that a fresh filter refuses, whose content is not indexed, or    *)
(* that has not changed.  deleteFile deletes whatever is on disk.          *)
Outcome(p, e) ==
  IF e = "unlink" THEN Absent
  ELSE IF ~ShouldIndex(rules, p) \/ disk[p] \in {Skipped, index[p]} THEN None
  ELSE disk[p]

(* The debounce timer of p is over.                                        *)
Dispatch(p, e) ==
  /\ [path |-> p, event |-> e] \in ToSet(pending)
  /\ IF paused
     THEN pending' = Without(pending, p) /\ Misses({p}) /\ UNCHANGED inflight
     ELSE /\ IF inflight[p] # None
             THEN pending' = Again(Without(pending, p), p, e) /\ UNCHANGED inflight
             ELSE /\ pending' = Without(pending, p)
                  /\ inflight' = [inflight EXCEPT ![p] = Outcome(p, e)]
          /\ UNCHANGED missed
  /\ UNCHANGED <<world, raised, rulesRaised, filter, rulesPending, control, index, calls>>

NotInflight(p) == [inflight EXCEPT ![p] = None]

(* indexFile or deleteFile resolves.  An index call that began before its  *)
(* path was excluded leaves a row that only a later pass prunes.           *)
CallEnds(p) ==
  /\ inflight[p] # None
  /\ index' = [index EXCEPT ![p] = inflight[p]]
  /\ inflight' = NotInflight(p)
  /\ Misses(IF inflight[p] \in Content /\ p \in rules THEN {p} ELSE {})
  /\ UNCHANGED <<world, raised, rulesRaised, filter, timers, control, calls>>

(* The call rejects, or indexFile cannot read the file and says so in its  *)
(* row, which keeps its content.                                           *)
CallRejects(p) ==
  /\ inflight[p] # None
  /\ inflight' = NotInflight(p)
  /\ Misses({p})
  /\ UNCHANGED <<world, raised, rulesRaised, filter, timers, control, index, calls>>

-----------------------------------------------------------------------------
(* dispatchRulesReeval and reevaluateFilter                                *)

(* Slip: the filter that is cached is asked.                               *)
CachedRules == CurrentFilter

FreshRules == rules

ResetFilter == None

(* A row whose file is gone or too large by now goes as well.              *)
Refused(r, p) == IF disk[p] = Absent THEN {p} ELSE {}

DispatchRulesReeval(r) ==
  /\ rulesPending /\ listed[r] \cup reeval[r] = {}
  /\ rulesPending' = FALSE
  /\ filter' = ResetFilter
  /\ LET rows == {p \in Path : index[p] # Absent} IN
       /\ reeval' = [reeval EXCEPT ![r] = rows \cap FreshRules]
       /\ listed' = [listed EXCEPT ![r] = rows \ FreshRules]
  /\ UNCHANGED <<world, raised, rulesRaised, pending, control, inflight, index, missed>>

(* The loop comes to a row that its rules admit and looks at the file.     *)
Look(r, p) ==
  /\ p \in listed[r]
  /\ listed' = [listed EXCEPT ![r] = @ \ {p}]
  /\ reeval' = [reeval EXCEPT ![r] = @ \cup Refused(r, p)]
  /\ UNCHANGED <<world, raised, rulesRaised, filter, timers, control, inflight, index, missed>>

(* A row is deleted as this call has decided, late or not.                 *)
Prune(r, p) ==
  /\ p \in reeval[r]
  /\ index' = [index EXCEPT ![p] = Absent]
  /\ reeval' = [reeval EXCEPT ![r] = @ \ {p}]
  /\ Misses(IF p \in rules \/ disk[p] = Absent THEN {} ELSE {p})
  /\ UNCHANGED <<world, raised, rulesRaised, filter, timers, control, inflight, listed>>

PruneRejects(r) ==
  /\ reeval[r] # {}
  /\ Misses(reeval[r])
  /\ reeval' = [reeval EXCEPT ![r] = {}]
  /\ listed' = [listed EXCEPT ![r] = {}]
  /\ UNCHANGED <<world, raised, rulesRaised, filter, timers, control, inflight, index>>

-----------------------------------------------------------------------------
PauseOrResume ==
  /\ paused' = ~paused
  /\ UNCHANGED <<world, raised, rulesRaised, filter, timers, phase, inflight, index, calls, missed>>

(* The timers are cleared at once; until the subscription is gone events   *)
(* still come and arm new ones.                                            *)
Stop ==
  /\ phase = "running"
  /\ phase' = "stopping"
  /\ pending' = <<>> /\ rulesPending' = FALSE
  /\ Misses(IF rulesPending THEN Path ELSE {x.path : x \in ToSet(pending)})
  /\ UNCHANGED <<world, raised, rulesRaised, filter, paused, inflight, index, calls>>

Unsubscribed ==
  /\ phase = "stopping"
  /\ phase' = "stopped"
  /\ raised' = [p \in Path |-> {}] /\ rulesRaised' = FALSE
  /\ Misses(IF rulesRaised THEN Path ELSE {p \in Path : raised[p] # {}})
  /\ UNCHANGED <<world, filter, timers, paused, inflight, index, calls>>

-----------------------------------------------------------------------------
Fires(p) == \E e \in Event : Dispatch(p, e)
Settles(p) == CallEnds(p) \/ CallRejects(p)
Prunes(r) == (\E p \in Path : Look(r, p) \/ Prune(r, p)) \/ PruneRejects(r)
Reevaluates == \E r \in Reeval : DispatchRulesReeval(r)

Next ==
  \/ \E p \in Path : EditFile(p) \/ RouteEvent(p) \/ Fires(p) \/ Settles(p)
  \/ EditRules \/ ScheduleRulesReeval \/ Reevaluates
  \/ \E r \in Reeval : Prunes(r)
  \/ PauseOrResume \/ Stop \/ Unsubscribed

(* The OS delivers, timers fire and promises settle.                       *)
Fairness ==
  /\ \A p \in Path : WF_vars(RouteEvent(p)) /\ WF_vars(Fires(p)) /\ WF_vars(Settles(p))
  /\ WF_vars(ScheduleRulesReeval) /\ WF_vars(Reevaluates)
  /\ \A r \in Reeval : WF_vars(Prunes(r))

Spec == Init /\ [][Next]_vars
FairSpec == Spec /\ Fairness

-----------------------------------------------------------------------------
(* Types: the disk, the index and what the watcher holds.                *)
TypeOK ==
  /\ disk \in [Path -> OnDisk]
  /\ rules \subseteq Path
  /\ edits \in 0..MaxEdits
  /\ raised \in [Path -> SUBSET Event]
  /\ rulesRaised \in BOOLEAN
  /\ filter \in (SUBSET Path) \cup {None}
  /\ pending \in Seq(Pending) /\ Len(pending) <= PENDING_CAP
  /\ rulesPending \in BOOLEAN
  /\ paused \in BOOLEAN /\ phase \in {"running", "stopping", "stopped"}
  /\ inflight \in [Path -> Content \cup {Absent, None}]
  /\ index \in [Path -> Content \cup {Absent}]
  /\ listed \in [Reeval -> SUBSET Path] /\ reeval \in [Reeval -> SUBSET Path]
  /\ missed \subseteq Path

OnItsWay(p) ==
  raised[p] # {} \/ (\E k \in DOMAIN pending : pending[k].path = p) \/ inflight[p] # None

(* A new content of a file is never forgotten: as long as the index lacks  *)
(* what is on disk an event of the path is on its way, its timer is armed  *)
(* or its call runs, whatever removals of it come late.  The exceptions,   *)
(* in missed, are left to the next reconciliation pass: an event evicted   *)
(* at the cap, dropped while paused, while stopping or by a filter about   *)
(* to be replaced, a call that failed, a row pruned late, and a path that  *)
(* a rule change has re-included.                                          *)
NothingForgotten ==
  \A p \in Path \ (rules \cup missed) :
    disk[p] \in Content /\ index[p] # disk[p] => OnItsWay(p)

(* The claim of service.ts:2, "keeps the local index in sync with on-disk  *)
(* changes", also of what is no longer there: it does not hold.  The event *)
(* of a removal, or of a file grown too large, is dropped in RouteEvent,   *)
(* and a content that indexFile skips leaves the row of the old one; both  *)
(* stay in the index until a pass.                                         *)
RemovalsArrive ==
  \A p \in Path \ (rules \cup missed) :
    disk[p] \notin Content /\ index[p] # Absent => OnItsWay(p)

(* "keep the index consistent with current intent": a path that the rule   *)
(* files exclude is pruned or about to be, whatever calls overlap, but for *)
(* a call that was under way when the rules changed and for the failures   *)
(* in missed.                                                              *)
ExcludedIsPruned ==
  \A p \in rules \ missed : index[p] # Absent =>
    rulesRaised \/ rulesPending \/ \E r \in Reeval : p \in reeval[r]

(* When the files and rules come to rest, so does the index: on the       *)
(* contents on disk, without a row the rules exclude.  No event circles    *)
(* for ever between the pending map and the inflight set, and no timer or  *)
(* call is lost.                                                           *)
Converges == <>[](\A p \in Path \ missed : Current(p))
=============================================================================
