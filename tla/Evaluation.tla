------------------------------ MODULE Evaluation ------------------------------
(***************************************************************************)
(* The evaluation harness (packages/eval): how a ranking is scored against *)
(* a gold set, how a gold set is checked against the pinned corpus, and    *)
(* what a command leaves behind when one of its steps fails.               *)
(*                                                                         *)
(* A span is [path, from, to]; a qrel is a span with a grade 0..2; a rank  *)
(* list is a sequence of spans.  Gain[r] stands for 1 / log2(r + 1).       *)
(***************************************************************************)
EXTENDS Naturals, Sequences, FiniteSets, SequencesExt

CONSTANT Gain     \* a decreasing sequence of rank weights, in thousandths

ASSUME GainDecreases ==
  Gain \in Seq(Nat \ {0}) /\ \A r \in 1..(Len(Gain) - 1) : Gain[r] > Gain[r + 1]

Smaller(a, b) == IF a < b THEN a ELSE b
Top(s, k) == SubSeq(s, 1, Smaller(k, Len(s)))

(* qrelMatchesDoc: one file, at least one line in common.                  *)
QrelMatchesDoc(q, d) == q.path = d.path /\ q.from <= d.to /\ d.from <= q.to

GradesOf(qrels, d) == {qrels[i].grade : i \in {j \in DOMAIN qrels : QrelMatchesDoc(qrels[j], d)}}

(* judgeRanked: the highest grade each ranked span overlaps.               *)
JudgeRanked(ranked, qrels) ==
  [r \in DOMAIN ranked |-> CHOOSE g \in GradesOf(qrels, ranked[r]) \cup {0} :
                             \A h \in GradesOf(qrels, ranked[r]) : g >= h]

HitAtK(judged, k) == \E r \in DOMAIN Top(judged, k) : judged[r] >= 1

(* rrAtK: the rank of the first hit, 0 for none.                           *)
FirstHitAtK(judged, k) ==
  IF HitAtK(judged, k) THEN CHOOSE r \in DOMAIN Top(judged, k) : judged[r] >= 1 /\ \A p \in 1..(r - 1) : judged[p] < 1
  ELSE 0

Relevant(qrels) == {i \in DOMAIN qrels : qrels[i].grade >= 1}

(* recallAtK counts the relevant qrels some span of the top covers.        *)
CoveredAtK(ranked, qrels, k) ==
  {i \in Relevant(qrels) : \E d \in Range(Top(ranked, k)) : QrelMatchesDoc(qrels[i], d)}

(* Slip: a qrel may be credited again.                                     *)
BestMatch(d, qrels, consumed) ==
  LET open == {i \in Relevant(qrels) : QrelMatchesDoc(qrels[i], d)}
  IN  {i \in open : \A j \in open : qrels[i].grade > qrels[j].grade \/ (qrels[i].grade = qrels[j].grade /\ i <= j)}

(* bestUnconsumedMatch, as a set of at most one index.                     *)
BestUnconsumedMatch(d, qrels, consumed) ==
  LET open == {i \in Relevant(qrels) \ consumed : QrelMatchesDoc(qrels[i], d)}
  IN  {i \in open : \A j \in open : qrels[i].grade > qrels[j].grade \/ (qrels[i].grade = qrels[j].grade /\ i <= j)}

GainOf(grade) == IF grade = 2 THEN 3 ELSE grade

(* One rank of the walk of ndcgAtK: the best match is credited and consumed. *)
CreditRank(ranked, qrels, acc, r) ==
  LET best == IF r <= Len(ranked) THEN BestUnconsumedMatch(ranked[r], qrels, acc.consumed) ELSE {}
  IN  [consumed |-> acc.consumed \cup best,
       dcg |-> IF best = {} THEN acc.dcg
               ELSE acc.dcg + GainOf(qrels[CHOOSE i \in best : TRUE].grade) * Gain[r]]

(* The r-th of the relevant grades in descending order, 0 past the last.   *)
IdealGrade(qrels, r) ==
  IF r <= Cardinality({i \in Relevant(qrels) : qrels[i].grade = 2}) THEN 2
  ELSE IF r <= Cardinality(Relevant(qrels)) THEN 1 ELSE 0

(* ndcgAtK: its numerator and denominator.                                 *)
Ndcg(ranked, qrels, k) ==
  LET walk[r \in 0..Len(Gain)] ==
        IF r = 0 THEN [consumed |-> {}, dcg |-> 0] ELSE CreditRank(ranked, qrels, walk[r - 1], r)
      ideal[r \in 0..Len(Gain)] ==
        IF r = 0 THEN 0 ELSE ideal[r - 1] + GainOf(IdealGrade(qrels, r)) * Gain[r]
  IN  [dcg |-> walk[k].dcg, ideal |-> ideal[k]]

-----------------------------------------------------------------------------
(* classify: spans are those of the chunks of the qrel's file.             *)
Classify(q, spans) ==
  IF spans = {} THEN "missing-file"
  ELSE IF \E s \in spans : s.from = q.from /\ s.to = q.to THEN "exact"
  ELSE IF \E s \in spans : QrelMatchesDoc(q, s) THEN "drift" ELSE "no-overlap"

-----------------------------------------------------------------------------
(* withCorpusRuntime: what each step takes, in order; a step that fails    *)
(* takes nothing.                                                          *)
Steps ==
  <<[name |-> "tmp", takes |-> {"tmp"}], [name |-> "worktree", takes |-> {"worktree"}],
    [name |-> "data", takes |-> {"data", "env"}], [name |-> "build", takes |-> {"runtime"}],
    [name |-> "index", takes |-> {}], [name |-> "fn", takes |-> {}]>>

Taken(failed) == UNION {Steps[i].takes : i \in 1..(failed - 1)}

(* What is left when step number failed fails (past the end: none does)    *)
(* and the runtime closes or not: the finally block begins behind the      *)
(* snapshot, frees what buildSandboxedRuntime returned, then the checkout. *)
WithCorpusRuntime(failed, closes) ==
  IF failed <= 2 THEN Taken(failed)
  ELSE IF failed <= 4 THEN Taken(failed) \ {"worktree", "tmp"}
  ELSE IF closes THEN {} ELSE Taken(failed)

-----------------------------------------------------------------------------
(* The measures agree on what a hit is, none exceeds its ideal, and a      *)
(* longer list never lowers one.                                           *)
MeasuresAgree(ranked, qrels, k) ==
  LET judged == JudgeRanked(ranked, qrels)
      hit == HitAtK(judged, k)
  IN  /\ hit = (FirstHitAtK(judged, k) # 0)
      /\ hit = (CoveredAtK(ranked, qrels, k) # {})
      /\ hit = (Ndcg(ranked, qrels, k).dcg > 0)
      /\ Ndcg(ranked, qrels, k).dcg <= Ndcg(ranked, qrels, k).ideal
      /\ Ndcg(ranked, qrels, k).dcg <= Ndcg(ranked, qrels, k + 1).dcg
      /\ CoveredAtK(ranked, qrels, k) \subseteq CoveredAtK(ranked, qrels, k + 1)

(* validate calls a qrel rot exactly when no ranking of the corpus' chunks *)
(* could score it.                                                         *)
RotIsUnscorable(q, spans) ==
  (Classify(q, spans) \in {"missing-file", "no-overlap"})
    = (\A d \in spans : CoveredAtK(<<d>>, <<q>>, 1) = {})

(* What a step that fails keeps of the same function's step before it:     *)
(* snapshotCorpus its directory, buildSandboxedRuntime the index directory *)
(* and the variables it set; their caller has nothing yet to free.         *)
Leftover(name) ==
  CASE name = "worktree" -> {"tmp"}
    [] name = "build" -> {"data", "env"}
    [] OTHER -> {}

(* Whatever step fails, or none, a command whose runtime closes leaves     *)
(* behind only what the function that failed had taken itself; git that    *)
(* fails and a runtime that cannot be built do leave that.                 *)
LeavesNothing(failed, closes) ==
  closes => WithCorpusRuntime(failed, closes) = IF failed <= Len(Steps) THEN Leftover(Steps[failed].name) ELSE {}

(* What withCorpusRuntime says of itself, "tear everything down in reverse *)
(* order"; no run checks it: it fails where Leftover is not empty.         *)
TearsAllDown(failed, closes) == closes => WithCorpusRuntime(failed, closes) = {}
=============================================================================
