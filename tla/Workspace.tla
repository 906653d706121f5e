------------------------------- MODULE Workspace -------------------------------
(***************************************************************************)
(* How projects are found below the workspace roots                        *)
(* (packages/core/src/discovery.ts), matched with the recorded ones        *)
(* (discovery-inventory.ts) and resolved from a path.                      *)
(*                                                                         *)
(* A workspace w has dirs, each with its parent (None above a root), the   *)
(* configured roots, the marker groups each dir holds, and the dirs that   *)
(* the walk never enters (dot-dirs, node_modules and the like).            *)
(***************************************************************************)
EXTENDS Naturals, FiniteSets, Sequences

CONSTANTS MaxDepth, Above

ASSUME DepthAssumption == MaxDepth \in Nat

Groups == <<"git", "ide", "build">>

(* bestOf: the group of highest rank, or none.                             *)
DetectMarker(w, d) ==
  LET ranks == {k \in 1..3 : Groups[k] \in w.marks[d]} IN
  IF ranks = {} THEN "none" ELSE Groups[CHOOSE k \in ranks : \A j \in ranks : k <= j]

Marked(w, d) == DetectMarker(w, d) # "none"

(* The dirs from top down to d, d first; empty if d is not below top.      *)
PathUp(w, top, d) ==
  LET up[n \in 0..Cardinality(w.dirs)] ==
        IF n = 0 THEN <<d>>
        ELSE LET p == up[n - 1] IN
             IF p[Len(p)] \in {top, Above} THEN p ELSE Append(p, w.parent[p[Len(p)]])
      path == up[Cardinality(w.dirs)]
  IN  IF path[Len(path)] = top THEN path ELSE <<>>

(* A walk down from top to d: not too deep, and past no skipped dir nor,   *)
(* from the dir at depth least on, one that has a marker.                  *)
Walked(w, top, d, least) ==
  LET path == PathUp(w, top, d) IN
  /\ path # <<>> /\ Len(path) <= MaxDepth + 1
  /\ \A k \in 1..(Len(path) - 1) : path[k] \notin w.skipped
  /\ \A k \in 2..Len(path) : Len(path) - k >= least => ~Marked(w, path[k])

DiscoverProjects(w) ==
  {d \in w.dirs : Marked(w, d) /\ \E r \in w.roots \cap w.dirs : Walked(w, r, d, 0)}

(* Slip: the project's own marker ends the walk.                           *)
StopsAtOnce(w, project) ==
  {d \in w.dirs \ {project} : Marked(w, d) /\ Walked(w, project, d, 0)}

(* The nearest markers inside a project.                                   *)
FindAbsorbedMarkers(w, project) ==
  {d \in w.dirs \ {project} : Marked(w, d) /\ Walked(w, project, d, 1)}

(* The nearest dir upward that has a marker.                               *)
ResolveProject(w, d) ==
  LET up[n \in 0..Cardinality(w.dirs)] ==
        IF n = 0 THEN d
        ELSE IF up[n - 1] = Above \/ Marked(w, up[n - 1]) THEN up[n - 1] ELSE w.parent[up[n - 1]]
  IN  up[Cardinality(w.dirs)]

(* Containment: the dir is a root or below one.                            *)
ResolveUnderWorkspaceRoots(w, d) == \E r \in w.roots : PathUp(w, r, d) # <<>>

(* What is discovered and what is recorded (TRUE: active).                 *)
InventoryProjects(hits, rows, dirs) ==
  [active |-> {d \in hits : d \in DOMAIN rows /\ rows[d]},
   inactive |-> {d \in hits : d \in DOMAIN rows => ~rows[d]},
   orphaned |-> DOMAIN rows \ hits,
   missing |-> (DOMAIN rows \ hits) \ dirs]

-----------------------------------------------------------------------------
(* No project is indexed inside another: unless a root is configured below *)
(* a project, the files of discovered projects are disjoint.               *)
ProjectsDisjoint(w) ==
  LET hits == DiscoverProjects(w) IN
  (\A r \in w.roots, p \in hits : p # r => PathUp(w, p, r) = <<>>) =>
    \A p \in hits, q \in hits : p # q => PathUp(w, p, q) = <<>>

(* A path inside a discovered project resolves to it, or to a marker that  *)
(* the inventory reports as absorbed, or that lies out of the walk's reach *)
(* below it: then the project resolved is one the daemon never lists.      *)
ResolvesToListed(w) ==
  LET hits == DiscoverProjects(w) IN
  \A p \in hits, d \in w.dirs :
    PathUp(w, p, d) # <<>> =>
      LET q == ResolveProject(w, d) IN
      \/ q = p \/ q \in hits
      \/ \E a \in FindAbsorbedMarkers(w, p) : PathUp(w, a, q) # <<>>
      \/ \E s \in w.skipped : PathUp(w, s, q) # <<>>
      \/ Len(PathUp(w, p, q)) > MaxDepth + 1

(* What is discovered a handler accepts, and a path that it accepts is of a*)
(* project it would accept too, unless the only marker above the path is   *)
(* above the root: then the project holds the whole root.                  *)
AcceptedStaysInside(w) ==
  /\ \A p \in DiscoverProjects(w) : ResolveUnderWorkspaceRoots(w, p)
  /\ \A d \in w.dirs : ResolveUnderWorkspaceRoots(w, d) =>
       LET q == ResolveProject(w, d) IN
       \/ q = Above \/ ResolveUnderWorkspaceRoots(w, q)
       \/ \E r \in w.roots : PathUp(w, q, r) # <<>> /\ ResolveProject(w, r) = q

(* However old the walk, every project that is recorded or was discovered  *)
(* is in exactly one bucket, only active rows are ever acted upon, and     *)
(* "missing" is said only of what is gone.                                 *)
InventoryIsPartition(hits, rows, dirs) ==
  LET inv == InventoryProjects(hits, rows, dirs) IN
  /\ inv.active \cup inv.inactive \cup inv.orphaned = hits \cup DOMAIN rows
  /\ inv.active \cap inv.inactive = {} /\ (inv.active \cup inv.inactive) \cap inv.orphaned = {}
  /\ \A d \in inv.active : rows[d]
  /\ inv.missing \subseteq inv.orphaned \ dirs
=============================================================================
