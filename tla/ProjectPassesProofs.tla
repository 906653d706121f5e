------------------------ MODULE ProjectPassesProofs ------------------------
(***************************************************************************)
(* ProjectPasses for any projects, files and calls: rebuilds of a project  *)
(* exclude each other, and what a pass skips is complete.                  *)
(***************************************************************************)
EXTENDS ProjectPasses, FiniteSetTheorems, TLAPS

(* Where a walker may be, and what it has in hand there.                   *)
Placed(x) ==
  /\ walk[x].pc \in {"walking", "embedding", "writing", "wiping", "wiped"} =>
       walk[x].project \in Project
  /\ walk[x].pc \in {"embedding", "writing"} => walk[x].file \in File
  /\ x \in Pass => walk[x].pc \notin {"wiping", "wiped"}
  /\ x \in Rebuild => walk[x].pc # "next"

(* A rebuild that is under way is the project's running job.               *)
Owned(x) ==
  x \in Rebuild /\ walk[x].pc # "idle" => job[walk[x].project] = "running"

(* A walk that is about to commit a file has stored its chunks.            *)
Backed(x) ==
  walk[x].pc = "writing" /\ walk[x].project \notin suspect
  => walk[x].file \in chunks[walk[x].project]

Cut(p) == \E x \in Rebuild : walk[x].pc = "wiped" /\ walk[x].project = p

Complete(p) == p \notin suspect /\ ~Cut(p) => rows[p] \subseteq chunks[p] \cap vecs[p]

Inv ==
  /\ TypeOK
  /\ \A x \in Walker : Placed(x)
  /\ \A x \in Walker : Owned(x)
  /\ OneRebuild
  /\ \A x \in Walker : Backed(x)
  /\ \A p \in Project : Complete(p)

-----------------------------------------------------------------------------
(* The order of a finite set is a sequence of its elements.                *)
LEMMA SetToSeqType ==
  ASSUME NEW S, IsFiniteSet(S)
  PROVE  SetToSeq(S) \in Seq(S)
<1>1. Cardinality(S) \in Nat /\ ExistsBijection(1..Cardinality(S), S)
  BY FS_CardinalityType
<1>2. \E f \in [1..Cardinality(S) -> S] : IsInjective(f)
  BY <1>1 DEF ExistsBijection, Bijection, Injection, IsInjective
<1>3. SetToSeq(S) \in [1..Cardinality(S) -> S] BY <1>2 DEF SetToSeq
<1> QED BY <1>1, <1>3

(* A pass visits projects.                                                 *)
LEMMA OrderType ==
  ASSUME NEW ps \in SUBSET Project
  PROVE  PendingFirst(ps) \in Seq(Project)
<1>1. IsFiniteSet(ps) /\ IsFiniteSet(Project \ ps) BY PassAssumption, FS_Subset
<1>2. SetToSeq(ps) \in Seq(Project) BY <1>1, SetToSeqType
<1>3. SetToSeq(Project \ ps) \in Seq(Project) BY <1>1, SetToSeqType
<1> QED BY <1>2, <1>3 DEF PendingFirst

(* An idle walker is a walker.                                             *)
LEMMA IdleType == Idle \in Walks /\ Idle.pc = "idle"
BY DEF Idle, Walks, PC

(* What the actions make of a walker's record.                             *)
LEMMA NextType ==
  ASSUME NEW ps \in Seq(Project), NEW w, w = [Idle EXCEPT !.pc = "next", !.todo = ps]
  PROVE  w \in Walks /\ w.pc = "next"
BY IdleType DEF Walks, PC

(* A walker that starts a project walks it.                                *)
LEMMA StartType ==
  ASSUME NEW p \in Project, NEW ps \in Seq(Project), NEW w,
         w = [Idle EXCEPT !.pc = "walking", !.project = p, !.left = File, !.todo = ps]
  PROVE  w \in Walks /\ w.pc = "walking" /\ w.project = p
BY IdleType DEF Walks, PC

(* A rebuild that starts is about to wipe its project.                     *)
LEMMA WipeType ==
  ASSUME NEW p \in Project, NEW w, w = [Idle EXCEPT !.pc = "wiping", !.project = p]
  PROVE  w \in Walks /\ w.pc = "wiping" /\ w.project = p
BY IdleType DEF Walks, PC

(* A walker that moves on stays with its project and file.                 *)
LEMMA PCType ==
  ASSUME NEW v \in Walks, NEW pc \in PC, NEW w, w = [v EXCEPT !.pc = pc]
  PROVE  w \in Walks /\ w.pc = pc /\ w.project = v.project /\ w.file = v.file
BY DEF Walks

(* A walker that skips moves nowhere.                                      *)
LEMMA SkipsType ==
  ASSUME NEW x \in Walker, walk[x] \in Walks, NEW f, NEW w, w = Skips(x, f)
  PROVE  w \in Walks /\ w.pc = walk[x].pc /\ w.project = walk[x].project /\ w.file = walk[x].file
BY DEF Walks, Skips

(* A rebuild that has purged walks its project.                            *)
LEMMA PurgeType ==
  ASSUME NEW v \in Walks, NEW w, w = [v EXCEPT !.pc = "walking", !.left = File]
  PROVE  w \in Walks /\ w.pc = "walking" /\ w.project = v.project
BY DEF Walks, PC

(* A walker that has committed goes on walking.                            *)
LEMMA CommitType ==
  ASSUME NEW v \in Walks, NEW w, w = [v EXCEPT !.pc = "walking", !.file = None]
  PROVE  w \in Walks /\ w.pc = "walking" /\ w.project = v.project
BY DEF Walks, PC

(* The invariant holds of stores without a rebuild under way.              *)
LEMMA InitInv == Init => Inv
<1> SUFFICES ASSUME Init PROVE Inv OBVIOUS
<1>1. order \in Seq(Project) BY OrderType DEF Init
<1>2. walk \in [Walker -> Walks] /\ \A x \in Walker : walk[x] = Idle
  BY IdleType DEF Init
<1>3. rows \in [Project -> SUBSET File] /\ chunks = rows /\ vecs = rows
  <2>1. {} \in SUBSET File /\ File \in SUBSET File OBVIOUS
  <2> QED BY <2>1 DEF Init
<1>4. TypeOK
  <2>1. {rows, chunks, vecs} \subseteq [Project -> SUBSET File] BY <1>3
  <2>2. job \in [Project -> {"none", "running", "done", "failed"}] BY DEF Init
  <2>3. faults \in 0..MaxFaults BY PassAssumption DEF Init
  <2> QED BY <1>1, <1>2, <2>1, <2>2, <2>3 DEF Init, TypeOK
<1>5. \A x \in Walker : Placed(x) /\ Owned(x) /\ Backed(x)
  BY <1>2, IdleType DEF Placed, Owned, Backed
<1>6. OneRebuild BY <1>2, IdleType DEF OneRebuild, Walker
<1>7. \A p \in Project : Complete(p) BY <1>3 DEF Complete
<1> QED BY <1>4, <1>5, <1>6, <1>7 DEF Inv

-----------------------------------------------------------------------------
(* One walker moves, the others stay.                                      *)
LEMMA Moves ==
  ASSUME Inv, NEW x \in Walker, NEW w \in Walks, Becomes(x, w)
  PROVE  /\ walk' \in [Walker -> Walks] /\ walk[x] \in Walks /\ walk'[x] = w
         /\ \A y \in Walker : y # x => walk'[y] = walk[y]
BY DEF Inv, TypeOK, Becomes

(* Only the walker that moves has to show where it is.                     *)
LEMMA PlacedMoves ==
  ASSUME Inv, NEW x \in Walker, NEW w \in Walks, Becomes(x, w), Placed(x)'
  PROVE  \A y \in Walker : Placed(y)'
<1>1. ASSUME NEW y \in Walker, y # x PROVE Placed(y)'
  BY <1>1, Moves DEF Inv, Placed
<1> QED BY <1>1

(* A rebuild stays with its project until it is over.                      *)
LEMMA OneMoves ==
  ASSUME Inv, NEW x \in Walker, NEW w \in Walks, Becomes(x, w),
         x \in Rebuild => \/ w.pc = "idle"
                          \/ walk[x].pc # "idle" /\ w.project = walk[x].project
  PROVE  OneRebuild'
<1> SUFFICES ASSUME NEW y \in Rebuild, NEW z \in Rebuild, y # z,
                    walk'[y].pc # "idle", walk'[z].pc # "idle"
             PROVE  walk'[y].project # walk'[z].project
  BY DEF OneRebuild
<1>1. y \in Walker /\ z \in Walker BY DEF Walker
<1>2. walk[y].pc # "idle" /\ walk'[y].project = walk[y].project BY <1>1, Moves
<1>3. walk[z].pc # "idle" /\ walk'[z].project = walk[z].project BY <1>1, Moves
<1> QED BY <1>2, <1>3 DEF Inv, OneRebuild

(* A rebuild keeps its job while no other ends or starts it.               *)
LEMMA OwnedMoves ==
  ASSUME Inv, NEW x \in Walker, NEW w \in Walks, Becomes(x, w), job' = job,
         x \in Rebuild => \/ w.pc = "idle"
                          \/ walk[x].pc # "idle" /\ w.project = walk[x].project
  PROVE  \A y \in Walker : Owned(y)'
<1>1. ASSUME NEW y \in Walker, y # x PROVE Owned(y)'
  BY <1>1, Moves DEF Inv, Owned
<1>2. Owned(x)' BY Moves DEF Inv, Owned
<1> QED BY <1>1, <1>2

(* A walk keeps the chunks it wrote while no purge takes them.             *)
LEMMA BackedMoves ==
  ASSUME Inv, NEW x \in Walker, NEW w \in Walks, Becomes(x, w), Backed(x)',
         \A p \in Project : chunks[p] \subseteq chunks'[p], suspect \subseteq suspect'
  PROVE  \A y \in Walker : Backed(y)'
<1>1. ASSUME NEW y \in Walker, y # x PROVE Backed(y)'
  <2>1. walk'[y] = walk[y] BY <1>1, Moves
  <2>2. walk[y].pc = "writing" => walk[y].project \in Project BY DEF Inv, Placed
  <2> QED BY <2>1, <2>2 DEF Inv, Backed
<1> QED BY <1>1

(* The stores stay in step while no rebuild leaves the stretch between its *)
(* wipe and its purge.                                                     *)
LEMMA CutMoves ==
  ASSUME Inv, NEW x \in Walker, NEW w \in Walks, Becomes(x, w), walk[x].pc # "wiped",
         NEW p, Cut(p)
  PROVE  Cut(p)'
<1>1. PICK y \in Rebuild : walk[y].pc = "wiped" /\ walk[y].project = p BY DEF Cut
<1>2. y \in Walker /\ y # x BY <1>1 DEF Walker
<1>3. walk'[y] = walk[y] BY <1>2, Moves
<1> QED BY <1>1, <1>3 DEF Cut

(* A project whose stores are left alone stays complete.                   *)
LEMMA CompleteMoves ==
  ASSUME Inv, NEW x \in Walker, NEW w \in Walks, Becomes(x, w), walk[x].pc # "wiped",
         suspect \subseteq suspect', UNCHANGED data
  PROVE  \A p \in Project : Complete(p)'
<1>1. ASSUME NEW p \in Project PROVE Complete(p)'
  <2>1. Cut(p) => Cut(p)' BY CutMoves
  <2> QED BY <2>1 DEF data, Inv, Complete
<1> QED BY <1>1

(* Steps that touch neither store nor job.                                 *)
LEMMA QuietStep ==
  ASSUME Inv, NEW x \in Walker, NEW w \in Walks, Becomes(x, w), Placed(x)',
         UNCHANGED <<data, job, suspect>>, walk[x].pc # "wiped", w.pc # "writing",
         x \in Rebuild => \/ w.pc = "idle"
                          \/ walk[x].pc # "idle" /\ w.project = walk[x].project,
         pending' \subseteq Project, order' = order, running' \in BOOLEAN,
         current' \in Project \cup {None}, faults' \in 0..MaxFaults
  PROVE  Inv'
<1>1. TypeOK' BY Moves DEF Inv, TypeOK, data
<1>2. \A y \in Walker : Placed(y)' BY PlacedMoves
<1>3. OneRebuild' BY OneMoves
<1>4. \A y \in Walker : Owned(y)' BY OwnedMoves
<1>5. \A y \in Walker : Backed(y)'
  <2>1. Backed(x)' BY Moves DEF Backed
  <2> QED BY <2>1, BackedMoves DEF data
<1>6. \A p \in Project : Complete(p)' BY CompleteMoves
<1> QED BY <1>1, <1>2, <1>3, <1>4, <1>5, <1>6 DEF Inv

-----------------------------------------------------------------------------
(* A walker is somewhere it may be.                                        *)
LEMMA WalkType ==
  ASSUME Inv, NEW x \in Walker
  PROVE  /\ walk[x] \in Walks /\ Placed(x) /\ walk[x].todo \in Seq(Project)
         /\ walk[x].left \in SUBSET File
<1>1. walk[x] \in Walks /\ Placed(x) BY DEF Inv, TypeOK
<1> QED BY <1>1 DEF Walks

(* A pass that begins touches neither store nor job.                       *)
LEMMA StepBeginPass ==
  ASSUME Inv, NEW x \in Pass, NEW ps \in Seq(Project), BeginPass(x, ps),
         walk[x].pc = "idle"
  PROVE  Inv'
<1> DEFINE w == [Idle EXCEPT !.pc = "next", !.todo = ps]
<1>1. w \in Walks /\ w.pc = "next" BY NextType
<1>2. Becomes(x, w) BY DEF BeginPass
<1> HIDE DEF w
<1>3. x \in Walker /\ x \notin Rebuild BY PassAssumption DEF Walker
<1>4. walk'[x] = w BY <1>1, <1>2, <1>3, Moves
<1>5. Placed(x)' BY <1>1, <1>3, <1>4 DEF Placed
<1>6. running' \in BOOLEAN BY DEF BeginPass
<1> QED BY <1>1, <1>2, <1>3, <1>5, <1>6, QuietStep DEF BeginPass, Inv, TypeOK

(* Going on to a project touches neither store nor job.                    *)
LEMMA StepNextProject == ASSUME Inv, NEW x \in Pass, NextProject(x) PROVE Inv'
<1> DEFINE p == Head(walk[x].todo)
           w == [Idle EXCEPT !.pc = "walking", !.project = p,
                             !.left = File, !.todo = Tail(walk[x].todo)]
<1>1. x \in Walker /\ x \notin Rebuild BY PassAssumption DEF Walker
<1>2. walk[x].todo \in Seq(Project) /\ walk[x].todo # <<>>
  BY <1>1, WalkType DEF NextProject
<1>3. p \in Project /\ Tail(walk[x].todo) \in Seq(Project) BY <1>2
<1>4. Becomes(x, w) BY DEF NextProject
<1>5. current' \in Project \cup {None} BY <1>3 DEF NextProject
<1> HIDE DEF p
<1>6. w \in Walks /\ w.pc = "walking" /\ w.project = p BY <1>3, StartType
<1> HIDE DEF w
<1>7. walk'[x] = w BY <1>1, <1>4, <1>6, Moves
<1>8. Placed(x)' BY <1>1, <1>3, <1>6, <1>7 DEF Placed
<1> QED BY <1>1, <1>4, <1>5, <1>6, <1>8, QuietStep DEF NextProject, Inv, TypeOK

(* The end of a pass touches neither store nor job.                        *)
LEMMA StepLastProject == ASSUME Inv, NEW x \in Pass, LastProject(x) PROVE Inv'
<1>1. x \in Walker /\ x \notin Rebuild BY PassAssumption DEF Walker
<1>2. walk'[x] = Idle BY <1>1, IdleType, Moves DEF LastProject
<1>3. Placed(x)' BY <1>2, IdleType DEF Placed
<1> QED BY <1>1, <1>3, IdleType, QuietStep DEF LastProject, EndOfPass, Inv, TypeOK

(* A look at a file decides on its row, and writes nothing.                *)
LEMMA StepLook ==
  ASSUME Inv, NEW x \in Walker, NEW f \in File, Look(x, f)
  PROVE  Inv'
<1>1. /\ walk[x] \in Walks /\ walk[x].pc = "walking" /\ walk[x].project \in Project
  BY WalkType DEF Look, Placed
<1> DEFINE rest == pending' \subseteq Project /\ order' = order /\ running' \in BOOLEAN
                   /\ current' \in Project \cup {None} /\ faults' \in 0..MaxFaults
<1>2. rest /\ UNCHANGED <<data, job, suspect>> BY DEF Look, status, Inv, TypeOK
<1>3. CASE f \in rows[walk[x].project]
  <2> DEFINE w == Skips(x, f)
  <2>1. Becomes(x, w) BY <1>3 DEF Look
  <2>2. w \in Walks /\ w.pc = "walking" /\ w.project = walk[x].project BY <1>1, SkipsType
  <2> HIDE DEF w
  <2>3. walk'[x] = w BY <2>1, <2>2, Moves
  <2>4. Placed(x)' BY <1>1, <2>2, <2>3 DEF Placed
  <2> QED BY <1>1, <1>2, <2>1, <2>2, <2>4, QuietStep
<1>4. CASE f \notin rows[walk[x].project]
  <2> DEFINE w == [walk[x] EXCEPT !.pc = "embedding", !.file = f]
  <2>1. Becomes(x, w) BY <1>4 DEF Look
  <2>2. w \in Walks /\ w.pc = "embedding" /\ w.project = walk[x].project /\ w.file = f
    BY <1>1 DEF Walks, PC
  <2> HIDE DEF w
  <2>3. walk'[x] = w BY <2>1, <2>2, Moves
  <2>4. Placed(x)' BY <1>1, <2>2, <2>3 DEF Placed
  <2> QED BY <1>1, <1>2, <2>1, <2>2, <2>4, QuietStep
<1> QED BY <1>3, <1>4

(* A rebuild begins only when the project's job is not running.            *)
LEMMA StepApiRebuild ==
  ASSUME Inv, NEW x \in Rebuild, NEW p \in Project, ApiRebuild(x, p)
  PROVE  Inv'
<1> DEFINE w == [Idle EXCEPT !.pc = "wiping", !.project = p]
<1>1. w \in Walks /\ w.pc = "wiping" /\ w.project = p BY WipeType
<1>2. Becomes(x, w) BY DEF ApiRebuild
<1> HIDE DEF w
<1>3. x \in Walker /\ x \notin Pass BY PassAssumption DEF Walker
<1>4. walk'[x] = w BY <1>1, <1>2, <1>3, Moves
<1>5. /\ job \in [Project -> {"none", "running", "done", "failed"}]
      /\ job' = [job EXCEPT ![p] = "running"] /\ job[p] # "running"
  BY DEF ApiRebuild, CanStart, Inv, TypeOK
<1>6. job'[p] = "running" /\ \A q \in Project : job[q] = "running" => job'[q] = "running"
  BY <1>5
<1>7. \A y \in Rebuild : walk[y].pc # "idle" =>
         walk[y].project \in Project /\ walk[y].project # p /\ job[walk[y].project] = "running"
  <2> SUFFICES ASSUME NEW y \in Rebuild, walk[y].pc # "idle"
               PROVE  /\ walk[y].project \in Project /\ walk[y].project # p
                      /\ job[walk[y].project] = "running"
    OBVIOUS
  <2>1. y \in Walker BY DEF Walker
  <2>2. walk[y].pc \in {"walking", "embedding", "writing", "wiping", "wiped"}
    BY <2>1, WalkType DEF Placed, Walks, PC
  <2>3. walk[y].project \in Project /\ job[walk[y].project] = "running"
    BY <2>1, <2>2 DEF Inv, Placed, Owned
  <2> QED BY <1>5, <2>3
<1>8. TypeOK'
  <2>1. job' \in [Project -> {"none", "running", "done", "failed"}] BY <1>5
  <2>2. walk' \in [Walker -> Walks] BY <1>1, <1>2, <1>3, Moves
  <2>3. UNCHANGED <<rows, chunks, vecs, order, running, current, suspect, faults>>
        /\ pending' \subseteq Project
    BY DEF ApiRebuild, data, status, Inv, TypeOK
  <2> QED BY <2>1, <2>2, <2>3 DEF Inv, TypeOK
<1>9. \A y \in Walker : Placed(y)'
  <2>1. Placed(x)' BY <1>1, <1>3, <1>4 DEF Placed
  <2> QED BY <1>1, <1>2, <1>3, <2>1, PlacedMoves
<1>10. \A y \in Walker : Owned(y)'
  <2>1. ASSUME NEW y \in Walker, y # x, y \in Rebuild, walk[y].pc # "idle" PROVE Owned(y)'
    <3>1. walk'[y] = walk[y] BY <1>1, <1>2, <1>3, <2>1, Moves
    <3> QED BY <1>6, <1>7, <2>1, <3>1 DEF Owned
  <2>2. ASSUME NEW y \in Walker, y # x, ~(y \in Rebuild /\ walk[y].pc # "idle") PROVE Owned(y)'
    <3>1. walk'[y] = walk[y] BY <1>1, <1>2, <1>3, <2>2, Moves
    <3> QED BY <2>2, <3>1 DEF Owned
  <2>3. Owned(x)' BY <1>1, <1>4, <1>6 DEF Owned
  <2> QED BY <2>1, <2>2, <2>3
<1>11. OneRebuild'
  <2> SUFFICES ASSUME NEW y \in Rebuild, NEW z \in Rebuild, y # z,
                      walk'[y].pc # "idle", walk'[z].pc # "idle"
               PROVE  walk'[y].project # walk'[z].project
    BY DEF OneRebuild
  <2>1. y \in Walker /\ z \in Walker BY DEF Walker
  <2>2. y # x => walk'[y] = walk[y] BY <1>1, <1>2, <1>3, <2>1, Moves
  <2>3. z # x => walk'[z] = walk[z] BY <1>1, <1>2, <1>3, <2>1, Moves
  <2>4. CASE y = x BY <1>1, <1>4, <1>7, <2>3, <2>4
  <2>5. CASE z = x BY <1>1, <1>4, <1>7, <2>2, <2>5
  <2>6. CASE y # x /\ z # x BY <2>2, <2>3, <2>6 DEF Inv, OneRebuild
  <2> QED BY <2>4, <2>5, <2>6
<1>12. UNCHANGED <<data, suspect>> /\ walk[x].pc = "idle" BY DEF ApiRebuild
<1>13. \A y \in Walker : Backed(y)'
  <2>1. Backed(x)' BY <1>1, <1>4 DEF Backed
  <2> QED BY <1>1, <1>2, <1>3, <1>12, <2>1, BackedMoves DEF data
<1>14. \A q \in Project : Complete(q)'
  BY <1>1, <1>2, <1>3, <1>12, CompleteMoves
<1> QED BY <1>8, <1>9, <1>10, <1>11, <1>13, <1>14 DEF Inv

(* Wiping opens the stretch in which rows are not backed.                  *)
LEMMA StepWipeVectors == ASSUME Inv, NEW x \in Rebuild, WipeVectors(x) PROVE Inv'
<1> DEFINE w == [walk[x] EXCEPT !.pc = "wiped"]
           p == walk[x].project
<1>1. x \in Walker /\ x \notin Pass BY PassAssumption DEF Walker
<1>2. walk[x] \in Walks /\ walk[x].pc = "wiping" /\ p \in Project
  BY <1>1, WalkType DEF WipeVectors, Placed
<1>3. w \in Walks /\ w.pc = "wiped" /\ w.project = p BY <1>2 DEF Walks, PC
<1>4. Becomes(x, w) BY DEF WipeVectors
<1> HIDE DEF w
<1>5. walk'[x] = w BY <1>1, <1>3, <1>4, Moves
<1>6. vecs \in [Project -> SUBSET File] /\ vecs' = [vecs EXCEPT ![p] = {}]
  BY DEF WipeVectors, Inv, TypeOK
<1>7. UNCHANGED <<rows, chunks, pending, order, running, current, job, suspect, faults>>
  BY DEF WipeVectors, status
<1>8. TypeOK'
  <2>1. vecs' \in [Project -> SUBSET File] BY <1>6
  <2>2. walk' \in [Walker -> Walks] BY <1>1, <1>3, <1>4, Moves
  <2> QED BY <1>7, <2>1, <2>2 DEF Inv, TypeOK
<1>9. \A y \in Walker : Placed(y)'
  <2>1. Placed(x)' BY <1>1, <1>2, <1>3, <1>5 DEF Placed
  <2> QED BY <1>1, <1>3, <1>4, <2>1, PlacedMoves
<1>10. OneRebuild' BY <1>1, <1>2, <1>3, <1>4, OneMoves
<1>11. \A y \in Walker : Owned(y)' BY <1>1, <1>2, <1>3, <1>4, <1>7, OwnedMoves
<1>12. \A y \in Walker : Backed(y)'
  <2>1. Backed(x)' BY <1>3, <1>5 DEF Backed
  <2> QED BY <1>1, <1>3, <1>4, <1>7, <2>1, BackedMoves
<1>13. ASSUME NEW q \in Project PROVE Complete(q)'
  <2>1. CASE q = p
    <3>1. Cut(q)' BY <1>3, <1>5, <2>1 DEF Cut
    <3> QED BY <3>1 DEF Complete
  <2>2. CASE q # p
    <3>1. vecs'[q] = vecs[q] BY <1>6, <2>2
    <3>2. Cut(q) => Cut(q)' BY <1>1, <1>2, <1>3, <1>4, CutMoves
    <3> QED BY <1>7, <3>1, <3>2 DEF Inv, Complete
  <2> QED BY <2>1, <2>2
<1> QED BY <1>8, <1>9, <1>10, <1>11, <1>12, <1>13 DEF Inv

(* Purging closes it, unless a pass was about to write.                    *)
LEMMA StepPurgeContents == ASSUME Inv, NEW x \in Rebuild, PurgeContents(x) PROVE Inv'
<1> DEFINE w == [walk[x] EXCEPT !.pc = "walking", !.left = File]
           p == walk[x].project
<1>1. x \in Walker /\ x \notin Pass BY PassAssumption DEF Walker
<1>2. walk[x] \in Walks /\ walk[x].pc = "wiped" /\ p \in Project
  BY <1>1, WalkType DEF PurgeContents, Placed
<1>3. w \in Walks /\ w.pc = "walking" /\ w.project = p BY <1>2 DEF Walks, PC
<1>4. Becomes(x, w) BY DEF PurgeContents
<1> HIDE DEF w
<1>5. walk'[x] = w BY <1>1, <1>3, <1>4, Moves
<1>6. /\ rows \in [Project -> SUBSET File] /\ rows' = [rows EXCEPT ![p] = {}]
      /\ chunks \in [Project -> SUBSET File] /\ chunks' = [chunks EXCEPT ![p] = {}]
  BY DEF PurgeContents, PurgedRows, Inv, TypeOK
<1>7. UNCHANGED <<vecs, pending, order, running, current, job, faults>>
  BY DEF PurgeContents, status
<1>8. /\ suspect' \subseteq Project
      /\ \A q \in Project : q # p => (q \in suspect' <=> q \in suspect)
      /\ p \notin suspect' => \A y \in On(p) : walk[y].pc # "writing"
  BY <1>2 DEF PurgeContents, Inv, TypeOK
<1>9. TypeOK'
  <2>1. rows' \in [Project -> SUBSET File] /\ chunks' \in [Project -> SUBSET File] BY <1>6
  <2>2. walk' \in [Walker -> Walks] BY <1>1, <1>3, <1>4, Moves
  <2> QED BY <1>7, <1>8, <2>1, <2>2 DEF Inv, TypeOK
<1>10. \A y \in Walker : Placed(y)'
  <2>1. Placed(x)' BY <1>1, <1>2, <1>3, <1>5 DEF Placed
  <2> QED BY <1>1, <1>3, <1>4, <2>1, PlacedMoves
<1>11. OneRebuild' BY <1>1, <1>2, <1>3, <1>4, OneMoves
<1>12. \A y \in Walker : Owned(y)' BY <1>1, <1>2, <1>3, <1>4, <1>7, OwnedMoves
<1>13. ASSUME NEW y \in Walker PROVE Backed(y)'
  <2>1. CASE y = x BY <1>3, <1>5, <2>1 DEF Backed
  <2>2. CASE y # x
    <3>1. walk'[y] = walk[y] BY <1>1, <1>3, <1>4, <2>2, Moves
    <3> SUFFICES ASSUME walk[y].pc = "writing", walk[y].project \notin suspect'
                 PROVE  walk[y].file \in chunks'[walk[y].project]
      BY <3>1 DEF Backed
    <3>2. walk[y].project \in Project BY DEF Inv, Placed
    <3>3. walk[y].project # p BY <1>8 DEF On
    <3>4. chunks'[walk[y].project] = chunks[walk[y].project] BY <1>6, <3>2, <3>3
    <3>5. walk[y].project \notin suspect BY <1>8, <3>2, <3>3
    <3> QED BY <3>4, <3>5 DEF Inv, Backed
  <2> QED BY <2>1, <2>2
<1>14. ASSUME NEW q \in Project PROVE Complete(q)'
  <2>1. CASE q = p
    <3>1. rows'[q] = {} BY <1>6, <2>1
    <3> QED BY <3>1 DEF Complete
  <2>2. CASE q # p
    <3>1. rows'[q] = rows[q] /\ chunks'[q] = chunks[q] BY <1>6, <2>2
    <3>2. Cut(q) => Cut(q)'
      <4>1. ASSUME NEW y \in Rebuild, walk[y].pc = "wiped", walk[y].project = q PROVE Cut(q)'
        <5>1. y \in Walker /\ y # x BY <2>2, <4>1 DEF Walker
        <5>2. walk'[y] = walk[y] BY <1>1, <1>3, <1>4, <5>1, Moves
        <5> QED BY <4>1, <5>2 DEF Cut
      <4> QED BY <4>1 DEF Cut
    <3> QED BY <1>7, <1>8, <2>2, <3>1, <3>2 DEF Inv, Complete
  <2> QED BY <2>1, <2>2
<1> QED BY <1>9, <1>10, <1>11, <1>12, <1>13, <1>14 DEF Inv

(* A failed read only takes a row away.                                    *)
LEMMA StepReadFails ==
  ASSUME Inv, NEW x \in Walker, NEW f \in File, ReadFails(x, f)
  PROVE  Inv'
<1> DEFINE w == Skips(x, f)
           p == walk[x].project
<1>1. walk[x] \in Walks /\ walk[x].pc = "walking" /\ p \in Project
  BY WalkType DEF ReadFails, Placed
<1>2. w \in Walks /\ w.pc = "walking" /\ w.project = p BY <1>1, SkipsType
<1>3. Becomes(x, w) BY DEF ReadFails
<1> HIDE DEF w
<1>4. walk'[x] = w BY <1>2, <1>3, Moves
<1>5. rows \in [Project -> SUBSET File] /\ rows' = [rows EXCEPT ![p] = @ \ {f}]
  BY DEF ReadFails, Inv, TypeOK
<1>6. UNCHANGED <<chunks, vecs, pending, order, running, current, job, suspect>>
  BY DEF ReadFails, status
<1>7. TypeOK'
  <2>1. rows' \in [Project -> SUBSET File] BY <1>5
  <2>2. walk' \in [Walker -> Walks] BY <1>2, <1>3, Moves
  <2>3. faults' \in 0..MaxFaults BY PassAssumption DEF ReadFails, Fault, Inv, TypeOK
  <2> QED BY <1>6, <2>1, <2>2, <2>3 DEF Inv, TypeOK
<1>8. \A y \in Walker : Placed(y)'
  <2>1. Placed(x)' BY <1>1, <1>2, <1>4 DEF Placed
  <2> QED BY <1>2, <1>3, <2>1, PlacedMoves
<1>9. OneRebuild' BY <1>1, <1>2, <1>3, OneMoves
<1>10. \A y \in Walker : Owned(y)' BY <1>1, <1>2, <1>3, <1>6, OwnedMoves
<1>11. \A y \in Walker : Backed(y)'
  <2>1. Backed(x)' BY <1>2, <1>4 DEF Backed
  <2> QED BY <1>2, <1>3, <1>6, <2>1, BackedMoves
<1>12. ASSUME NEW q \in Project PROVE Complete(q)'
  <2>1. rows'[q] \subseteq rows[q] BY <1>5
  <2>2. Cut(q) => Cut(q)' BY <1>1, <1>2, <1>3, CutMoves
  <2> QED BY <1>6, <2>1, <2>2 DEF Inv, Complete
<1> QED BY <1>7, <1>8, <1>9, <1>10, <1>11, <1>12 DEF Inv

(* Chunks only add to what rows are backed by.                             *)
LEMMA StepWriteChunks == ASSUME Inv, NEW x \in Walker, WriteChunks(x) PROVE Inv'
<1> DEFINE w == [walk[x] EXCEPT !.pc = "writing"]
           p == walk[x].project
           f == walk[x].file
<1>1. walk[x] \in Walks /\ walk[x].pc = "embedding" /\ p \in Project /\ f \in File
  BY WalkType DEF WriteChunks, Placed
<1>2. w \in Walks /\ w.pc = "writing" /\ w.project = p /\ w.file = f
  BY <1>1 DEF Walks, PC
<1>3. Becomes(x, w) BY DEF WriteChunks
<1> HIDE DEF w
<1>4. walk'[x] = w BY <1>2, <1>3, Moves
<1>5. chunks \in [Project -> SUBSET File] /\ chunks' = [chunks EXCEPT ![p] = @ \cup {f}]
  BY DEF WriteChunks, Inv, TypeOK
<1>6. UNCHANGED <<rows, vecs, pending, order, running, current, job, suspect, faults>>
  BY DEF WriteChunks, status
<1>7. TypeOK'
  <2>1. chunks' \in [Project -> SUBSET File] BY <1>1, <1>5
  <2>2. walk' \in [Walker -> Walks] BY <1>2, <1>3, Moves
  <2> QED BY <1>6, <2>1, <2>2 DEF Inv, TypeOK
<1>8. \A y \in Walker : Placed(y)'
  <2>1. Placed(x)' BY <1>1, <1>2, <1>4 DEF Placed
  <2> QED BY <1>2, <1>3, <2>1, PlacedMoves
<1>9. OneRebuild' BY <1>1, <1>2, <1>3, OneMoves
<1>10. \A y \in Walker : Owned(y)' BY <1>1, <1>2, <1>3, <1>6, OwnedMoves
<1>11. \A q \in Project : chunks[q] \subseteq chunks'[q] BY <1>5
<1>12. \A y \in Walker : Backed(y)'
  <2>1. Backed(x)' BY <1>1, <1>2, <1>4, <1>5 DEF Backed
  <2> QED BY <1>2, <1>3, <1>6, <1>11, <2>1, BackedMoves
<1>13. ASSUME NEW q \in Project PROVE Complete(q)'
  <2>1. Cut(q) => Cut(q)' BY <1>1, <1>2, <1>3, CutMoves
  <2> QED BY <1>6, <1>11, <2>1 DEF Inv, Complete
<1> QED BY <1>7, <1>8, <1>9, <1>10, <1>12, <1>13 DEF Inv

(* A row comes with the vectors, over chunks that are there.               *)
LEMMA StepCommitFile == ASSUME Inv, NEW x \in Walker, CommitFile(x) PROVE Inv'
<1> DEFINE s == Skips(x, walk[x].file)
           w == [s EXCEPT !.pc = "walking", !.file = None]
           p == walk[x].project
           f == walk[x].file
<1>1. walk[x] \in Walks /\ walk[x].pc = "writing" /\ p \in Project /\ f \in File
  BY WalkType DEF CommitFile, Placed
<1>2. s \in Walks /\ s.project = p BY <1>1, SkipsType
<1>3. Becomes(x, w) BY DEF CommitFile
<1> HIDE DEF s
<1>4. w \in Walks /\ w.pc = "walking" /\ w.project = p BY <1>2 DEF Walks, PC
<1> HIDE DEF w
<1>5. walk'[x] = w BY <1>3, <1>4, Moves
<1>6. /\ rows \in [Project -> SUBSET File] /\ rows' = [rows EXCEPT ![p] = @ \cup {f}]
      /\ vecs \in [Project -> SUBSET File] /\ vecs' = [vecs EXCEPT ![p] = @ \cup {f}]
  BY DEF CommitFile, Inv, TypeOK
<1>7. UNCHANGED <<chunks, pending, order, running, current, job, suspect, faults>>
  BY DEF CommitFile, status
<1>8. TypeOK'
  <2>1. rows' \in [Project -> SUBSET File] /\ vecs' \in [Project -> SUBSET File]
    BY <1>1, <1>6
  <2>2. walk' \in [Walker -> Walks] BY <1>3, <1>4, Moves
  <2> QED BY <1>7, <2>1, <2>2 DEF Inv, TypeOK
<1>9. \A y \in Walker : Placed(y)'
  <2>1. Placed(x)' BY <1>1, <1>4, <1>5 DEF Placed
  <2> QED BY <1>3, <1>4, <2>1, PlacedMoves
<1>10. OneRebuild' BY <1>1, <1>3, <1>4, OneMoves
<1>11. \A y \in Walker : Owned(y)' BY <1>1, <1>3, <1>4, <1>7, OwnedMoves
<1>12. \A y \in Walker : Backed(y)'
  <2>1. Backed(x)' BY <1>4, <1>5 DEF Backed
  <2> QED BY <1>3, <1>4, <1>7, <2>1, BackedMoves
<1>13. ASSUME NEW q \in Project PROVE Complete(q)'
  <2>1. ~Cut(q) BY DEF CommitFile, Cut
  <2>2. CASE q = p
    <3>1. q \notin suspect => f \in chunks[q] BY <1>1, <2>2 DEF Inv, Backed
    <3>2. rows'[q] = rows[q] \cup {f} /\ vecs'[q] = vecs[q] \cup {f} BY <1>6, <2>2
    <3> QED BY <1>7, <2>1, <3>1, <3>2 DEF Inv, Complete
  <2>3. CASE q # p
    <3>1. rows'[q] = rows[q] /\ vecs'[q] = vecs[q] BY <1>6, <2>3
    <3> QED BY <1>7, <2>1, <3>1 DEF Inv, Complete
  <2> QED BY <2>2, <2>3
<1> QED BY <1>8, <1>9, <1>10, <1>11, <1>12, <1>13 DEF Inv

-----------------------------------------------------------------------------
(* The job that ends with a rebuild is no other rebuild's.                 *)
LEMMA JobEnds ==
  ASSUME Inv, NEW x \in Walker, NEW w \in Walks, Becomes(x, w),
         NEW st \in {"done", "failed"}, job' = JobAfter(x, st),
         x \in Rebuild => w.pc = "idle" /\ walk[x].pc # "idle"
  PROVE  /\ job' \in [Project -> {"none", "running", "done", "failed"}]
         /\ \A y \in Walker : Owned(y)'
<1>1. job \in [Project -> {"none", "running", "done", "failed"}] BY DEF Inv, TypeOK
<1>2. CASE x \notin Rebuild
  <2>1. job' = job BY <1>2 DEF JobAfter
  <2> QED BY <1>1, <1>2, <2>1, OwnedMoves
<1>3. CASE x \in Rebuild
  <2>1. job' = [job EXCEPT ![walk[x].project] = st] BY <1>3 DEF JobAfter
  <2>2. Owned(x)' BY <1>3, Moves DEF Owned
  <2>3. ASSUME NEW y \in Rebuild, y # x, walk[y].pc # "idle" PROVE Owned(y)'
    <3>1. y \in Walker BY DEF Walker
    <3>2. walk'[y] = walk[y] BY <2>3, <3>1, Moves
    <3>3. walk[y].project # walk[x].project BY <1>3, <2>3 DEF Inv, OneRebuild
    <3>4. walk[y].pc \in {"walking", "embedding", "writing", "wiping", "wiped"}
      BY <2>3, <3>1, WalkType DEF Placed, Walks, PC
    <3>5. walk[y].project \in Project /\ job[walk[y].project] = "running"
      BY <3>1, <3>4 DEF Inv, Placed, Owned
    <3>6. job'[walk[y].project] = "running" BY <1>1, <2>1, <3>3, <3>5
    <3> QED BY <3>2, <3>6 DEF Owned
  <2>4. ASSUME NEW y \in Walker, y # x, ~(y \in Rebuild /\ walk[y].pc # "idle") PROVE Owned(y)'
    <3>1. walk'[y] = walk[y] BY <2>4, Moves
    <3> QED BY <2>4, <3>1 DEF Owned
  <2>5. \A y \in Walker : Owned(y)' BY <2>2, <2>3, <2>4
  <2>6. job' \in [Project -> {"none", "running", "done", "failed"}] BY <1>1, <2>1
  <2> QED BY <2>5, <2>6
<1> QED BY <1>2, <1>3

(* A rebuild that ends, ends its own job.                                  *)
LEMMA StepEndOfWalk == ASSUME Inv, NEW x \in Walker, EndOfWalk(x) PROVE Inv'
<1> DEFINE n == [Idle EXCEPT !.pc = "next", !.todo = walk[x].todo]
           w == IF x \in Rebuild THEN Idle ELSE n
<1>1. walk[x].pc = "walking" /\ walk[x].todo \in Seq(Project)
  BY WalkType DEF EndOfWalk, Stamps
<1>2. n \in Walks /\ n.pc = "next" BY <1>1, NextType
<1>3. Becomes(x, w) BY DEF EndOfWalk
<1> HIDE DEF n
<1>4. w \in Walks /\ w.pc = IF x \in Rebuild THEN "idle" ELSE "next" BY <1>2, IdleType
<1> HIDE DEF w
<1>5. walk'[x] = w BY <1>3, <1>4, Moves
<1>6. UNCHANGED <<data, order, running, current, suspect, faults>>
      /\ pending' \subseteq Project /\ job' = JobAfter(x, "done")
  BY DEF EndOfWalk, Stamps, status, Inv, TypeOK
<1>7. /\ job' \in [Project -> {"none", "running", "done", "failed"}]
      /\ \A y \in Walker : Owned(y)'
  <2>1. x \in Rebuild => w.pc = "idle" /\ walk[x].pc # "idle" BY <1>1, <1>4
  <2> QED BY <1>3, <1>4, <1>6, <2>1, JobEnds
<1>8. TypeOK'
  <2>1. walk' \in [Walker -> Walks] BY <1>3, <1>4, Moves
  <2> QED BY <1>6, <1>7, <2>1 DEF Inv, TypeOK, data
<1>9. \A y \in Walker : Placed(y)'
  <2>1. Placed(x)' BY <1>4, <1>5 DEF Placed
  <2> QED BY <1>3, <1>4, <2>1, PlacedMoves
<1>10. OneRebuild' BY <1>3, <1>4, OneMoves
<1>11. \A y \in Walker : Backed(y)'
  <2>1. Backed(x)' BY <1>4, <1>5 DEF Backed
  <2> QED BY <1>3, <1>4, <1>6, <2>1, BackedMoves DEF data
<1>12. \A q \in Project : Complete(q)' BY <1>1, <1>3, <1>4, <1>6, CompleteMoves
<1> QED BY <1>7, <1>8, <1>9, <1>10, <1>11, <1>12 DEF Inv

(* A rebuild that fails in the stretch leaves its project suspect.         *)
LEMMA StepPassFails == ASSUME Inv, NEW x \in Walker, PassFails(x) PROVE Inv'
<1>1. Becomes(x, Idle) /\ walk[x].pc # "idle" /\ walk[x].pc # "next" BY DEF PassFails
<1>2. walk'[x] = Idle BY <1>1, IdleType, Moves
<1>3. walk[x].project \in Project BY WalkType DEF PassFails, Placed
<1>4. /\ UNCHANGED <<data, pending, order>> /\ job' = JobAfter(x, "failed")
      /\ suspect \subseteq suspect' /\ suspect' \subseteq Project
      /\ walk[x].pc = "wiped" => walk[x].project \in suspect'
  BY <1>3 DEF PassFails, Inv, TypeOK
<1>5. running' \in BOOLEAN /\ current' \in Project \cup {None}
  BY DEF PassFails, EndOfPass, status, Inv, TypeOK
<1>6. faults' \in 0..MaxFaults BY PassAssumption DEF PassFails, Fault, Inv, TypeOK
<1>7. /\ job' \in [Project -> {"none", "running", "done", "failed"}]
      /\ \A y \in Walker : Owned(y)'
  BY <1>1, <1>4, IdleType, JobEnds
<1>8. TypeOK'
  <2>1. walk' \in [Walker -> Walks] BY <1>1, IdleType, Moves
  <2> QED BY <1>4, <1>5, <1>6, <1>7, <2>1 DEF Inv, TypeOK, data
<1>9. \A y \in Walker : Placed(y)'
  <2>1. Placed(x)' BY <1>2, IdleType DEF Placed
  <2> QED BY <1>1, <2>1, IdleType, PlacedMoves
<1>10. OneRebuild' BY <1>1, IdleType, OneMoves
<1>11. \A y \in Walker : Backed(y)'
  <2>1. Backed(x)' BY <1>2, IdleType DEF Backed
  <2> QED BY <1>1, <1>4, <2>1, IdleType, BackedMoves DEF data
<1>12. ASSUME NEW q \in Project PROVE Complete(q)'
  <2>1. CASE walk[x].pc = "wiped" /\ walk[x].project = q BY <1>4, <2>1 DEF Complete
  <2>2. CASE ~(walk[x].pc = "wiped" /\ walk[x].project = q)
    <3>1. ASSUME NEW y \in Rebuild, walk[y].pc = "wiped", walk[y].project = q PROVE Cut(q)'
      <4>1. y \in Walker /\ y # x BY <2>2, <3>1 DEF Walker
      <4>2. walk'[y] = walk[y] BY <1>1, <4>1, IdleType, Moves
      <4> QED BY <3>1, <4>2 DEF Cut
    <3>2. Cut(q) => Cut(q)' BY <3>1 DEF Cut
    <3> QED BY <1>4, <3>2 DEF data, Inv, Complete
  <2> QED BY <2>1, <2>2
<1> QED BY <1>7, <1>8, <1>9, <1>10, <1>11, <1>12 DEF Inv

(* A crash ends every walk and makes suspect what was wiped.               *)
LEMMA StepCrash == ASSUME Inv, Crash PROVE Inv'
<1>1. walk' \in [Walker -> Walks] /\ \A x \in Walker : walk'[x] = Idle
  BY IdleType DEF Crash
<1>2. /\ UNCHANGED <<data, pending>> /\ running' = FALSE /\ current' = None
      /\ suspect' = suspect \cup {p \in Project : \E x \in Rebuild \cap On(p) : walk[x].pc = "wiped"}
  BY DEF Crash
<1>3. order' \in Seq(Project) BY OrderType DEF Crash, Inv, TypeOK
<1>4. TypeOK'
  <2>1. job' \in [Project -> {"none", "running", "done", "failed"}] BY DEF Crash
  <2>2. faults' \in 0..MaxFaults BY PassAssumption DEF Crash, Fault, Inv, TypeOK
  <2>3. suspect' \subseteq Project BY <1>2 DEF Inv, TypeOK
  <2> QED BY <1>1, <1>2, <1>3, <2>1, <2>2, <2>3 DEF Inv, TypeOK, data
<1>5. \A x \in Walker : Placed(x)' /\ Owned(x)' /\ Backed(x)'
  BY <1>1, IdleType DEF Placed, Owned, Backed
<1>6. OneRebuild' BY <1>1, IdleType DEF OneRebuild, Walker
<1>7. ASSUME NEW p \in Project PROVE Complete(p)'
  <2>1. CASE Cut(p)
    <3>1. PICK x \in Rebuild : walk[x].pc = "wiped" /\ walk[x].project = p BY <2>1 DEF Cut
    <3>2. x \in On(p) BY <3>1 DEF On, Walker
    <3>3. p \in suspect' BY <1>2, <3>1, <3>2
    <3> QED BY <3>3 DEF Complete
  <2>2. CASE ~Cut(p) BY <1>2, <2>2 DEF data, Inv, Complete
  <2> QED BY <2>1, <2>2
<1> QED BY <1>4, <1>5, <1>6, <1>7 DEF Inv

(* Every step preserves the invariant.                                     *)
THEOREM InvStep == Inv /\ [Next]_vars => Inv'
<1> SUFFICES ASSUME Inv, [Next]_vars PROVE Inv' OBVIOUS
<1>1. CASE UNCHANGED vars
  <2>1. UNCHANGED <<rows, chunks, vecs, pending, walk, order, running, current, job, suspect, faults>>
    BY <1>1 DEF vars, data, status
  <2> QED BY <2>1 DEF Inv, TypeOK, Placed, Owned, OneRebuild, Backed, Complete, Cut
<1>2. CASE Tick
  <2>1. Loop \in Pass /\ order \in Seq(Project) BY DEF Pass, Inv, TypeOK
  <2> QED BY <1>2, <2>1, StepBeginPass DEF Tick
<1>3. ASSUME NEW x \in Refresh, ApiRefresh(x) PROVE Inv'
  <2>1. x \in Pass /\ SetToSeq(Project) \in Seq(Project)
    BY PassAssumption, SetToSeqType DEF Pass
  <2> QED BY <1>3, <2>1, StepBeginPass DEF ApiRefresh
<1>4. ASSUME NEW x \in Rebuild, NEW p \in Project, ApiRebuild(x, p) PROVE Inv'
  BY <1>4, StepApiRebuild
<1>5. ASSUME NEW x \in Pass, NextProject(x) \/ LastProject(x) PROVE Inv'
  BY <1>5, StepNextProject, StepLastProject
<1>6. ASSUME NEW x \in Rebuild, WipeVectors(x) \/ PurgeContents(x) PROVE Inv'
  BY <1>6, StepWipeVectors, StepPurgeContents
<1>7. ASSUME NEW x \in Walker, Walking(x) PROVE Inv'
  BY <1>7, StepLook, StepReadFails, StepWriteChunks, StepCommitFile, StepEndOfWalk DEF Walking
<1>8. ASSUME NEW x \in Walker, PassFails(x) PROVE Inv' BY <1>8, StepPassFails
<1>9. CASE Crash BY <1>9, StepCrash
<1> QED BY <1>1, <1>2, <1>3, <1>4, <1>5, <1>6, <1>7, <1>8, <1>9
        DEF Next, Works, Asks, Steps

(* Two rebuilds of one project never overlap, whatever fails or restarts.  *)
THEOREM RebuildsExclude == Spec => []OneRebuild
<1>1. Inv => OneRebuild BY DEF Inv
<1> QED BY <1>1, InitInv, InvStep, PTL DEF Spec

(* What a pass skips has its chunks and its vectors, but for the projects  *)
(* of suspect and a rebuild between its wipe and its purge.                *)
THEOREM SkippedAreComplete == Spec => []SkippedIsComplete
<1>1. Inv => SkippedIsComplete
  <2> SUFFICES ASSUME Inv, NEW p \in Project \ suspect,
                      \A x \in Rebuild \cap On(p) : walk[x].pc # "wiped"
               PROVE  rows[p] \subseteq chunks[p] \cap vecs[p]
    BY DEF SkippedIsComplete
  <2>1. ~Cut(p) BY DEF Cut, On, Walker
  <2> QED BY <2>1 DEF Inv, Complete
<1> QED BY <1>1, InitInv, InvStep, PTL DEF Spec
=============================================================================
