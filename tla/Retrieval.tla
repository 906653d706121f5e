------------------------------- MODULE Retrieval -------------------------------
(***************************************************************************)
(* A search (packages/core/src/retrieval): the scope a path stands for,    *)
(* the fusion of the vector and the lexical branch, the boosts, the cut,   *)
(* the expansion to callers and importers, and what analyzers found in the *)
(* lines of a result.                                                      *)
(*                                                                         *)
(* A branch is a sequence of chunk ids, best first.  Scores are in units   *)
(* of which 1 / (rrfK + rank) is a whole number for the ranks that occur;  *)
(* boosts are given in the same unit.                                      *)
(***************************************************************************)
EXTENDS Naturals, Integers, Sequences, FiniteSets, SequencesExt, Workspace

CONSTANTS
  RrfK,           \* retrieval.rrfK
  Unit,           \* the score 1
  Weight,         \* the boosts: reason, authority, definition, derivative
  MaxRank         \* a branch ranks no more chunks than this

ASSUME RankAssumption ==
  /\ RrfK \in Nat /\ Unit \in Nat \ {0} /\ MaxRank \in Nat
  /\ \A k \in 1..MaxRank : Unit % (RrfK + k) = 0

ASSUME WeightAssumption ==
  Weight \in [{"reason", "authority", "definition", "derivative"} -> Nat]

-----------------------------------------------------------------------------
(* findDeepestIndexedAncestor: of the active projects that hold d.         *)
IndexedAncestor(w, active, d) ==
  LET over == {p \in active : PathUp(w, p, d) # <<>>} IN
  IF over = {} THEN Above
  ELSE CHOOSE p \in over : \A q \in over : Len(PathUp(w, p, d)) <= Len(PathUp(w, q, d))

(* The indexed ancestor or, without one, the nearest marker; the rest of   *)
(* the path is a prefix, that of a file as well as that of a directory.    *)
ResolveProjectScope(w, active, d, file) ==
  LET marker == ResolveProject(w, d)
      indexed == IndexedAncestor(w, active, d)
      project == IF indexed # Above THEN indexed ELSE marker
  IN  [project |-> project,
       within |-> IF project = Above \/ (project = d /\ file = Above) THEN Above ELSE d,
       file |-> IF project = Above THEN Above ELSE file]

(* The directories a scope's prefix stands for.  It is a LIKE pattern that  *)
(* is not escaped: where a name in it has a wildcard it also reads as the  *)
(* path of another directory (w.like: project, directory, file, other).    *)
(* The prefix of a file ends in "/", so it reads as no file.               *)
ReadAs(w, scope) ==
  (IF scope.file = Above THEN {scope.within} ELSE {})
    \cup {e \in w.dirs : <<scope.project, scope.within, scope.file, e>> \in w.like}

(* buildVectorWhere and searchLexical: the rows of the project whose path  *)
(* starts with the prefix, in one branch at least.                         *)
InScope(w, scope, row) ==
  /\ scope.project = Above \/ row.project = scope.project
  /\ scope.within = Above \/ \E e \in ReadAs(w, scope) : PathUp(w, e, row.dir) # <<>>

-----------------------------------------------------------------------------
Ranks(branch, id) == {k \in DOMAIN branch : branch[k] = id}

(* Each branch adds 1 / (k + rank) for every chunk it ranks.               *)
RrfScore(vector, lexical, id) ==
  LET add(branch) == FoldLeft(LAMBDA s, k : IF branch[k] = id THEN s + Unit \div (RrfK + k) ELSE s,
                              0, [k \in 1..Len(branch) |-> k])
  IN  add(vector) + add(lexical)

(* Chunks in the order of their first rank, lexical after vector.          *)
UniqueIds(vector, lexical) ==
  FoldLeft(LAMBDA ids, id : IF Contains(ids, id) THEN ids ELSE Append(ids, id), <<>>, vector \o lexical)

(* Array.sort by descending score: stable.                                 *)
ByScore(ids, score) ==
  LET before(i, j) == score[ids[i]] > score[ids[j]] \/ (score[ids[i]] = score[ids[j]] /\ i < j)
  IN  [k \in 1..Len(ids) |->
        ids[CHOOSE i \in DOMAIN ids : Cardinality({j \in DOMAIN ids : before(j, i)}) = k - 1]]

(* The reasons a chunk's metadata gives for a query, in two traits: terms  *)
(* of the query that it exports, imports or calls, and qualities the query *)
(* asks for (risky calls of a category, complexity, async).                *)
ComputeMatchReasons(meta, terms) ==
  (IF meta.exports \cap terms # {} THEN {"symbol_match", "exported"} ELSE {})
    \cup {kind \in {"import_match", "call_match"} :
            (IF kind = "import_match" THEN meta.imports ELSE meta.calls) \cap terms # {}}
    \cup (meta.qualities \cap terms)

(* Authority grows with the inbound links of the file, definitions are     *)
(* preferred to mentions, derivative formats sink.                         *)
Boost(meta, terms) ==
  Cardinality(ComputeMatchReasons(meta, terms)) * Weight.reason
    + meta.inbound * Weight.authority
    + (IF meta.headings \cap terms # {} THEN Weight.definition ELSE 0)
    - (IF meta.derivative THEN Weight.derivative ELSE 0)

(* Slip: the cut is made before the boosts.                                *)
CutFirst(vector, lexical, metas, terms, limit) ==
  LET ids == UniqueIds(vector, lexical)
      base == [id \in Range(ids) |-> RrfScore(vector, lexical, id)]
      kept == SubSeq(ByScore(ids, base), 1, IF Len(ids) < limit THEN Len(ids) ELSE limit)
      score == [id \in Range(kept) |-> base[id] + Boost(metas[id], terms)]
  IN  ByScore(kept, score)

(* The boosted candidates of both branches, cut to the limit.              *)
Search(vector, lexical, metas, terms, limit) ==
  LET ids == UniqueIds(vector, lexical)
      base == [id \in Range(ids) |-> RrfScore(vector, lexical, id)]
      score == [id \in Range(ids) |-> base[id] + Boost(metas[id], terms)]
  IN  SubSeq(ByScore(ByScore(ids, base), score), 1, IF Len(ids) < limit THEN Len(ids) ELSE limit)

-----------------------------------------------------------------------------
(* One candidate of the expansion of result r: not one already there, and  *)
(* not past the cap.                                                       *)
Offer(originals, expanded, candidate, cap) ==
  IF Len(originals) + Len(expanded) >= cap \/ candidate \in Range(originals) \cup Range(expanded)
  THEN expanded ELSE Append(expanded, candidate)

(* For each result the chunks that define or refer to what it exports.     *)
ExpandCoverage(originals, usersOf, cap) ==
  originals \o
    FoldLeft(LAMBDA expanded, candidate : Offer(originals, expanded, candidate, cap), <<>>,
             FlattenSeq([k \in 1..Len(originals) |-> usersOf[originals[k]]]))

-----------------------------------------------------------------------------
Overlap(f, from, to) ==
  LET lo == IF f.from > from THEN f.from ELSE from
      hi == IF f.to < to THEN f.to ELSE to
  IN  hi - lo + 1

(* The function that shares most lines with the chunk, the first of such.  *)
PickOverlapping(fns, from, to) ==
  FoldLeft(LAMBDA best, k :
             IF Overlap(fns[k], from, to) > (IF best = 0 THEN 0 ELSE Overlap(fns[best], from, to))
             THEN k ELSE best,
           0, [k \in 1..Len(fns) |-> k])

-----------------------------------------------------------------------------
(* A path is searched where there is data: inside an active project the    *)
(* scope is the deepest such project, whatever unindexed project lies      *)
(* between; it admits every row below the path asked for, and others only  *)
(* below a directory that a wildcard in the path's names stands for.       *)
ScopeIsIndexed(w, active, d, rows) ==
  LET scope == ResolveProjectScope(w, active, d, Above)
      over == {p \in active : PathUp(w, p, d) # <<>>}
  IN  over # {} =>
        /\ scope.project \in over
        /\ \A p \in over : PathUp(w, p, scope.project) # <<>>
        /\ \A row \in rows : row.project = scope.project =>
             /\ PathUp(w, d, row.dir) # <<>> => InScope(w, scope, row)
             /\ InScope(w, scope, row) /\ PathUp(w, d, row.dir) = <<>> =>
                  \E e \in w.dirs : /\ <<scope.project, d, Above, e>> \in w.like
                                   /\ PathUp(w, e, row.dir) # <<>>

(* "project + path-prefix subtree filter": a search in a directory finds   *)
(* what is below it only.                                                  *)
SubtreeOnly(w, active, d, rows) ==
  IndexedAncestor(w, active, d) # Above =>
    \A row \in rows : InScope(w, ResolveProjectScope(w, active, d, Above), row) =>
                        PathUp(w, d, row.dir) # <<>>

(* "Absolute file or directory path": a search in a file can find it.      *)
FileScopeFinds(w, active, d, file) ==
  LET project == IndexedAncestor(w, active, d) IN
  project # Above => InScope(w, ResolveProjectScope(w, active, d, file),
                             [project |-> project, dir |-> d, file |-> file])

(* Fusion is fair: a chunk ranked at least as well as another by every     *)
(* branch, better by one, scores more, and so does a chunk both branches   *)
(* found over one that a single branch ranks no better.                    *)
FusionIsMonotone(vector, lexical) ==
  LET rank(branch, id) ==
        IF Ranks(branch, id) = {} THEN Len(branch) + 1 ELSE CHOOSE k \in Ranks(branch, id) : TRUE
      ids == Range(vector) \cup Range(lexical)
  IN  \A a \in ids, b \in ids :
        (/\ rank(vector, a) <= rank(vector, b)
         /\ rank(lexical, a) <= rank(lexical, b)
         /\ rank(vector, a) < rank(vector, b) \/ rank(lexical, a) < rank(lexical, b))
         \/ (/\ Ranks(vector, a) # {} /\ Ranks(lexical, a) # {}
             /\ Ranks(vector, b) = {} \/ Ranks(lexical, b) = {}
             /\ \E j \in Ranks(vector, a) \cup Ranks(lexical, a) :
                  \A k \in Ranks(vector, b) \cup Ranks(lexical, b) : j <= k)
          => RrfScore(vector, lexical, a) > RrfScore(vector, lexical, b)

(* The results are the best of all candidates: nothing that was cut off    *)
(* scores more than what was kept, boosts included, and of two equal ones  *)
(* the order of fusion decides.                                            *)
CutKeepsTheBest(vector, lexical, metas, terms, limit, out) ==
  LET ids == Range(vector) \cup Range(lexical)
      score == [id \in ids |-> RrfScore(vector, lexical, id) + Boost(metas[id], terms)]
  IN  /\ Range(out) \subseteq ids /\ IsInjective(out)
      /\ Len(out) = IF Cardinality(ids) < limit THEN Cardinality(ids) ELSE limit
      /\ \A i \in DOMAIN out, id \in ids : score[id] > score[out[i]] =>
           \E j \in 1..(i - 1) : out[j] = id

(* Expansion keeps the results in front, adds no chunk twice, stays within *)
(* twice the limit, and stops short of it only when nothing is left.       *)
ExpansionIsBounded(originals, usersOf, cap, out) ==
  /\ SubSeq(out, 1, Len(originals)) = originals
  /\ IsInjective(out) /\ (Len(originals) <= cap => Len(out) <= cap)
  /\ Len(out) < cap => \A k \in DOMAIN originals : Range(usersOf[originals[k]]) \subseteq Range(out)

(* The complexity shown with a chunk is that of a function in its lines,   *)
(* and no function shares more of them.                                    *)
PicksTheLargest(fns, from, to, best) ==
  IF best = 0 THEN \A k \in DOMAIN fns : Overlap(fns[k], from, to) <= 0
  ELSE /\ Overlap(fns[best], from, to) > 0
       /\ \A k \in DOMAIN fns : Overlap(fns[k], from, to) <= Overlap(fns[best], from, to)
=============================================================================
