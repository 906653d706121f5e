-------------------------------- MODULE Quality --------------------------------
(***************************************************************************)
(* What the analyzers conclude (packages/core/src/analyzers): the rules on *)
(* one file, the project's report with suppressions and baseline, the      *)
(* health score, near-duplicates by embedding, scattered files, and the    *)
(* paths a document mentions.                                              *)
(*                                                                         *)
(* A finding is a record [file, rule, severity, line]; severities are their*)
(* weights 3, 2, 1.  A similarity is a whole number of hundredths.         *)
(***************************************************************************)
EXTENDS Naturals, FiniteSets, SequencesExt

CONSTANTS
  Limits,         \* QualityThresholds: lines, exports, params, depth, ccn, fanOut
  PerFileCap,     \* MAX_FINDINGS_PER_FILE
  GroupCap,       \* MAX_MEMBERS_PER_GROUP of findDuplicateGroups
  MaxGroups,      \* its MAX_GROUPS
  SemanticCap,    \* DEFAULT_MAX_GROUPS of findSemanticDuplicateGroups
  Dimensions,     \* the five dimensions: id -> [weight, half, stored, live]
  None            \* no metadata, no complexity results, no vector

Finding(file, rule, severity, line) ==
  [file |-> file, rule |-> rule, severity |-> severity, line |-> line]

Prefix(s, n) == SubSeq(s, 1, IF Len(s) < n THEN Len(s) ELSE n)

-----------------------------------------------------------------------------
(* One file: doc has its number of lines, chunks [from, to, meta] and the  *)
(* functions lizard measured, or None.                                     *)
Named(doc, field) == UNION {c.meta[field] : c \in {x \in Range(doc.chunks) : x.meta # None}}

GodFile(doc) ==
  IF doc.lines > Limits.lines /\ Cardinality(Named(doc, "exports")) > Limits.exports
  THEN <<Finding(doc.file, "god-file", 2, 1)>> ELSE <<>>

FanOut(doc) ==
  IF Cardinality(Named(doc, "imports")) > Limits.fanOut
  THEN <<Finding(doc.file, "high-fan-out", 1, 1)>> ELSE <<>>

Params(x) == IF "meta" \notin DOMAIN x THEN x.params ELSE IF x.meta = None THEN 0 ELSE x.meta.params

(* The functions lizard knows or, when it knows none, the chunks.          *)
Measured(doc) == IF doc.lizard \notin {None, <<>>} THEN doc.lizard ELSE doc.chunks

LongParams(doc) ==
  LET long == SelectSeq(Measured(doc), LAMBDA x : Params(x) > Limits.params)
  IN  [k \in 1..Len(long) |-> Finding(doc.file, "long-params", 1, long[k].from)]

(* Complexity of a function in the same lines escalates the finding.       *)
DeepNesting(doc) ==
  LET deep == SelectSeq(doc.chunks, LAMBDA c : c.meta # None /\ c.meta.depth >= Limits.depth)
      complex(c) == doc.lizard # None /\ \E f \in Range(doc.lizard) :
                      f.from <= c.to /\ f.to >= c.from /\ f.ccn > Limits.ccn
  IN  [k \in 1..Len(deep) |->
        Finding(doc.file, "deep-nesting", IF complex(deep[k]) THEN 2 ELSE 1, deep[k].from)]

(* capFindings: a cap of 0 is none; the nesting is cut off first.          *)
ComputeQualityFindings(doc, cap) ==
  LET findings == GodFile(doc) \o FanOut(doc) \o LongParams(doc) \o DeepNesting(doc)
  IN  IF cap = 0 THEN findings ELSE Prefix(findings, cap)

(* Windows two or more files share, a group for each hash; members in file *)
(* order, cut at a cap; then the groups with most members, cut at another. *)
DuplicateGroups(windows, min) ==
  LET wide == {h \in {w.hash : w \in windows} :
                 Cardinality({w.file : w \in {x \in windows : x.hash = h}}) >= min}
      members(h) == SetToSortSeq({w \in windows : w.hash = h},
                      LAMBDA v, w : v.file < w.file \/ (v.file = w.file /\ v.line < w.line))
      larger(g, h) == Len(g.members) > Len(h.members) \/ (Len(g.members) = Len(h.members) /\ g.hash < h.hash)
      groups == {[hash |-> h, members |-> Prefix(members(h), GroupCap)] : h \in wide}
  IN  Prefix(SetToSortSeq(groups, larger), MaxGroups)

FilesOf(g) == {w.file : w \in Range(g.members)}

(* Each member of a group that spans at least three files.                 *)
ExtractCandidates(groups) ==
  UNION {{Finding(w.file, "extract-candidate", 2, w.line) : w \in Range(g.members)} :
           g \in {x \in Range(groups) : Cardinality(FilesOf(x)) >= 3}}

-----------------------------------------------------------------------------
(* state = [rules, baseline]: a rule names a rule or "*", the files of its *)
(* glob and whether it gives a reason; the baseline is a set of pairs.     *)

(* loadSuppressionState: entries without a reason are skipped, a baseline  *)
(* that does not parse (None) accepts nothing.                             *)
LoadSuppressionState(entries, baseline) ==
  [rules |-> {e \in entries : e.reason}, baseline |-> IF baseline = None THEN {} ELSE baseline]

Verdict(state, f) ==
  IF \E s \in state.rules : s.rule \in {"*", f.rule} /\ f.file \in s.files THEN "rule"
  ELSE IF <<f.rule, f.file>> \in state.baseline THEN "baseline" ELSE "visible"

Severity(findings) == FoldLeft(LAMBDA n, f : n + f.severity, 0, findings)
WorstFirst(s) ==
  SortSeq(s, LAMBDA f, g : f.severity > g.severity \/ (f.severity = g.severity /\ f.line < g.line))

Suppressed(found, indexed, shown) ==
  Len(SelectSeq(found, LAMBDA f : f.file \in indexed)) - Len(shown)

(* buildQualityReport: findings of indexed files, suppressed ones taken out*)
(* before rules are tallied; the filter chooses among what is left; a file *)
(* shows its worst findings up to a cap but weighs all of them.            *)
BuildQualityReport(found, indexed, state, rule) ==
  LET shown == SelectSeq(found, LAMBDA f : f.file \in indexed /\ Verdict(state, f) = "visible")
      listed == SelectSeq(shown, LAMBDA f : rule \in {"*", f.rule})
      of(file) == SelectSeq(listed, LAMBDA f : f.file = file)
  IN  [files |-> {[file |-> x, weight |-> Severity(of(x)), findings |-> Prefix(WorstFirst(of(x)), PerFileCap)] :
                    x \in {f.file : f \in Range(listed)}},
       findings |-> Len(listed),
       suppressed |-> Suppressed(found, indexed, shown),
       rules |-> [r \in {f.rule : f \in Range(shown)} |-> Len(SelectSeq(shown, LAMBDA f : f.rule = r))]]

(* runQualityBaseline: what the capped report shows with rules applied and *)
(* no baseline is accepted.                                                *)
Baseline(found, indexed, state) ==
  UNION {{<<f.rule, f.file>> : f \in Range(x.findings)} :
           x \in BuildQualityReport(found, indexed, [state EXCEPT !.baseline = {}], "*").files}

-----------------------------------------------------------------------------
(* Rounded to the nearest whole number.                                    *)
Rounded(a, b) == (2 * a + b) \div (2 * b)

Coverage(d, stored) ==
  IF stored \/ d.stored = {} THEN "full" ELSE IF d.live = {} THEN "none" ELSE "partial"

(* 100 / (1 + density / halfPoint), half points in hundredths.             *)
DimensionScore(d, weighted, files) == Rounded(100 * d.half * files, d.half * files + 100 * weighted)

WeightOf(dims) == FoldSet(LAMBDA i, n : n + Dimensions[i].weight, 0, dims)

Denominator(scored) == WeightOf(scored)

(* computeCodeHealth: the weighted mean of the dimensions that could have  *)
(* had findings.                                                           *)
ComputeCodeHealth(findings, files, stored) ==
  LET n == IF files = 0 THEN 1 ELSE files
      weighted(d) == Severity(SelectSeq(findings, LAMBDA f : f.rule \in d.stored \cup d.live))
      scored == {i \in DOMAIN Dimensions : Coverage(Dimensions[i], stored) # "none"}
      share(i, s) == s + Dimensions[i].weight * DimensionScore(Dimensions[i], weighted(Dimensions[i]), n)
  IN  IF scored = {} THEN 100 ELSE Rounded(FoldSet(share, 0, scored), Denominator(scored))

-----------------------------------------------------------------------------
(* chunks: [file, line, usable]; similarity[i, j] for i < j in hundredths. *)
(* An edge joins chunks of two files above the threshold.                  *)
Edge(chunks, similarity, floor, i, j) ==
  /\ chunks[i].usable /\ chunks[j].usable
  /\ chunks[i].file # chunks[j].file /\ similarity[i, j] >= floor

(* Slip: only the chunk itself is hung below the other's root.             *)
HangsTheLeaf(u, i, j) ==
  [u EXCEPT !.root = [k \in DOMAIN u.root |-> IF k = j THEN u.root[i] ELSE u.root[k]]]

(* unionRoots: the second component is folded into the first.              *)
UnionRoots(u, i, j) ==
  LET a == u.root[i]
      b == u.root[j]
  IN  [root |-> [k \in DOMAIN u.root |-> IF u.root[k] = b THEN a ELSE u.root[k]],
       sum |-> [u.sum EXCEPT ![a] = u.sum[a] + u.sum[b], ![b] = 0],
       count |-> [u.count EXCEPT ![a] = u.count[a] + u.count[b], ![b] = 0]]

AddPair(chunks, similarity, floor, u, p) ==
  IF ~ Edge(chunks, similarity, floor, p[1], p[2]) THEN u
  ELSE LET v == IF u.root[p[1]] = u.root[p[2]] THEN u ELSE UnionRoots(u, p[1], p[2])
           a == v.root[p[1]]
       IN  [v EXCEPT !.sum[a] = @ + similarity[p[1], p[2]], !.count[a] = @ + 1]

(* pickDiverseMembers: one chunk of every file before a second of any.     *)
PickDiverseMembers(chunks, members, max) ==
  LET nth(i) == Cardinality({j \in members : chunks[j].file = chunks[i].file /\ j < i})
      first(i) == CHOOSE j \in members : chunks[j].file = chunks[i].file /\ nth(j) = 0
      before(j, i) == nth(j) < nth(i) \/ (nth(j) = nth(i) /\ first(j) < first(i))
  IN  {i \in members : Cardinality({j \in members : before(j, i)}) < max}

(* More files first, then the higher mean over the edges, to four digits.  *)
Wider(g, h) ==
  LET mean(x) == Rounded(100 * x.sum, x.count) IN
  \/ g.files > h.files
  \/ g.files = h.files /\ mean(g) > mean(h)
  \/ g.files = h.files /\ mean(g) = mean(h) /\ \E i \in g.all : \A j \in h.all : i < j

(* findSemanticDuplicateGroups: the components that span enough files, the *)
(* widest of them.                                                         *)
SemanticGroups(chunks, similarity, floor, minFiles, maxMembers) ==
  LET n == Len(chunks)
      pairs == SetToSortSeq({p \in (1..n) \X (1..n) : p[1] < p[2]},
                            LAMBDA p, q : p[1] < q[1] \/ (p[1] = q[1] /\ p[2] < q[2]))
      u == FoldLeft(LAMBDA acc, p : AddPair(chunks, similarity, floor, acc, p),
                    [root |-> [i \in 1..n |-> i], sum |-> [i \in 1..n |-> 0], count |-> [i \in 1..n |-> 0]],
                    pairs)
      of(r) == {i \in 1..n : u.root[i] = r}
      files(r) == {chunks[i].file : i \in of(r)}
      groups == {[all |-> of(r), files |-> Cardinality(files(r)), sum |-> u.sum[r], count |-> u.count[r],
                  members |-> PickDiverseMembers(chunks, of(r), maxMembers)] :
                   r \in {x \in 1..n : u.count[x] > 0 /\ Cardinality(files(x)) >= minFiles}}
  IN  Prefix(SetToSortSeq(groups, Wider), SemanticCap)

-----------------------------------------------------------------------------
(* cohesionFlags: per population the bottom tenth below the ceiling; a     *)
(* score is [file, prose, cohesion], fraction one in so many.              *)
CohesionFlags(scores, oneIn, ceiling) ==
  LET pop(s) == {t \in scores : t.prose = s.prose}
      rank(s) == Cardinality({t \in pop(s) : t.cohesion < s.cohesion \/ (t.cohesion = s.cohesion /\ t.file < s.file)})
  IN  {s \in scores : rank(s) < Cardinality(pop(s)) \div oneIn /\ s.cohesion < ceiling}

-----------------------------------------------------------------------------
(* A mention as [home, beside, root, suffix]: whether it starts with ~, and*)
(* what it is from the document's directory, from the project's root and   *)
(* as the end of an indexed path: "file", "missing" or "outside".          *)
ResolvePathRef(r) ==
  IF r.beside = "file" \/ r.root = "file" \/ r.suffix = "file" THEN "live" ELSE "dangling"

(* runMarkdownStaleRefs, over resolvePathRefs and staleRefFindings.         *)
StaleRefs(refs) == {r \in refs : ~ r.home /\ ResolvePathRef(r) = "dangling"}

-----------------------------------------------------------------------------
(* After runQualityBaseline the report shows only findings past the cap of *)
(* their file, a finding of a new (rule, file) pair shows unless an entry  *)
(* with a reason names it, and a second run accepts the same debt.         *)
RatchetHolds(found, indexed, entries, old, later) ==
  LET first == LoadSuppressionState(entries, old)
      next == [first EXCEPT !.baseline = Baseline(found, indexed, first)]
      after == BuildQualityReport(Append(found, later), indexed, next, "*")
      busy(x) == Cardinality({k \in DOMAIN found : found[k].file = x}) > PerFileCap
      known == \E f \in Range(found) : f.file = later.file /\ f.rule = later.rule
  IN  /\ Baseline(found, indexed, next) = next.baseline
      /\ \A x \in after.files : busy(x.file) \/ Range(x.findings) = {later}
      /\ ~ known /\ later.file \in indexed =>
           (\E x \in after.files : x.file = later.file)
             = ~ \E e \in entries : e.reason /\ e.rule \in {"*", later.rule} /\ later.file \in e.files

(* The report accounts for every finding of an indexed file as shown or    *)
(* suppressed, its tallies do not depend on the filter, and a file weighs  *)
(* what it would without the cap.                                          *)
ReportAccounts(found, indexed, entries, old) ==
  LET state == LoadSuppressionState(entries, old)
      all == BuildQualityReport(found, indexed, state, "*")
      total(r) == FoldSet(LAMBDA k, n : n + r[k], 0, DOMAIN r)
  IN  /\ all.findings + all.suppressed = Cardinality({k \in DOMAIN found : found[k].file \in indexed})
      /\ all.findings = total(all.rules)
      /\ \A r \in DOMAIN all.rules :
           LET one == BuildQualityReport(found, indexed, state, r)
           IN  one.rules = all.rules /\ one.findings = all.rules[r] /\ one.suppressed = all.suppressed
      /\ \A x \in all.files :
           \A y \in Range(x.findings), f \in Range(found) :
             f.file = x.file /\ f.severity > y.severity /\ Verdict(state, f) = "visible"
               => f \in Range(x.findings) \/ Len(x.findings) = PerFileCap

(* A project without findings scores 100, one more finding never raises    *)
(* the score, and when stored rules never ran a finding of a dimension     *)
(* they alone feed changes nothing.                                        *)
HealthIsHonest(findings, later, files, stored) ==
  LET score(s) == ComputeCodeHealth(s, files, stored)
      mine(d) == later.rule \in d.stored \cup d.live
  IN  /\ score(<<>>) = 100
      /\ score(Append(findings, later)) <= score(findings)
      /\ \A i \in DOMAIN Dimensions :
           mine(Dimensions[i]) /\ Coverage(Dimensions[i], stored) = "none"
             => score(Append(findings, later)) = score(findings)

(* Copies in two files are never told to extract; every copy of a window   *)
(* in three files is, unless it has more members than the cap, or as many  *)
(* windows as are kept have no fewer members than it.                      *)
CandidatesComplete(windows) ==
  LET told == ExtractCandidates(DuplicateGroups(windows, 3))
      of(h) == {x \in windows : x.hash = h}
      files(h) == {w.file : w \in of(h)}
      wide == {h \in {w.hash : w \in windows} : Cardinality(files(h)) >= 3}
      ahead(h) == {g \in wide \ {h} : Cardinality(of(g)) >= Cardinality(of(h))}
  IN  /\ \A f \in told : \E w \in windows : f.file = w.file /\ f.line = w.line /\ w.hash \in wide
      /\ \A w \in windows :
           \/ w.hash \notin wide \/ Cardinality(of(w.hash)) > GroupCap
           \/ Cardinality(ahead(w.hash)) >= MaxGroups
           \/ Finding(w.file, "extract-candidate", 2, w.line) \in told

(* Chunks are of one group exactly when a chain of near copies joins them; *)
(* a group's similarity is the mean over every edge within it; what is not *)
(* told is past the cap and spans no more files than what is.              *)
GroupsAreComponents(chunks, similarity, floor, groups) ==
  LET n == Len(chunks)
      edge(i, j) == Edge(chunks, similarity, floor, i, j)
      edges(S) == {p \in S \X S : p[1] < p[2] /\ edge(p[1], p[2])}
      closed(S) == \A i \in S, j \in (1..n) \ S : IF i < j THEN ~ edge(i, j) ELSE ~ edge(j, i)
      component(S) == S # {} /\ closed(S) /\ \A T \in (SUBSET S) \ {{}, S} : ~ closed(T)
      sim(p, m) == m + similarity[p]
      files(S) == {chunks[i].file : i \in S}
      wide == {S \in SUBSET (1..n) : component(S) /\ Cardinality(files(S)) >= 2}
      told == {g.all : g \in Range(groups)}
  IN  /\ told \subseteq wide /\ (Len(groups) < SemanticCap => told = wide)
      /\ \A S \in told, T \in wide \ told : Cardinality(files(S)) >= Cardinality(files(T))
      /\ \A g \in Range(groups) : g.count = Cardinality(edges(g.all)) /\ g.sum = FoldSet(sim, 0, edges(g.all))

(* A sample is as large as allowed and shows a file twice only when it     *)
(* shows every file of the group.                                          *)
SampleIsDiverse(chunks, groups, max) ==
  \A g \in Range(groups) :
    LET shown == {chunks[i].file : i \in g.members} IN
    /\ Cardinality(g.members) = IF Cardinality(g.all) < max THEN Cardinality(g.all) ELSE max
    /\ Cardinality(g.members) > Cardinality(shown) => Cardinality(shown) = g.files

NestingOf(findings) == SelectSeq(findings, LAMBDA f : f.rule = "deep-nesting")

(* Lizard's numbers only sharpen what the chunks say: the same nesting is  *)
(* told, unless the file's findings fill the cap, none of it milder, and a *)
(* list without functions changes nothing.                                 *)
UpgradeKeeps(doc, cap) ==
  LET plain == [doc EXCEPT !.lizard = None]
      empty == [doc EXCEPT !.lizard = <<>>]
      deep == NestingOf(ComputeQualityFindings(plain, 0))
      told == ComputeQualityFindings(doc, cap)
  IN  /\ cap = 0 \/ Len(told) < cap => Len(NestingOf(told)) = Len(deep)
      /\ \A k \in DOMAIN NestingOf(told) :
           NestingOf(told)[k].line = deep[k].line /\ NestingOf(told)[k].severity >= deep[k].severity
      /\ ComputeQualityFindings(empty, cap) = ComputeQualityFindings(plain, cap)

(* The pass without lizard "upgrades" (quality.ts:32-37): none of the      *)
(* nesting that it told is lost for lizard's findings.                     *)
UpgradeHidesNone(doc, cap) ==
  Len(NestingOf(ComputeQualityFindings(doc, cap))) >= Len(NestingOf(ComputeQualityFindings([doc EXCEPT !.lizard = None], cap)))

(* A flagged file is below the ceiling and among its kind less cohesive    *)
(* than the files not flagged; documents never crowd out code.             *)
FlagsAreOfTheirKind(scores, oneIn, ceiling) ==
  LET flagged == CohesionFlags(scores, oneIn, ceiling)
      kind(p) == {s \in scores : s.prose = p}
  IN  \A p \in BOOLEAN :
        /\ \A s \in flagged \cap kind(p), t \in kind(p) \ flagged : s.cohesion < ceiling /\ s.cohesion <= t.cohesion
        /\ Cardinality(flagged \cap kind(p)) <= Cardinality(kind(p)) \div oneIn
        /\ (\A s \in kind(p) : s.cohesion < ceiling)
             => Cardinality(flagged \cap kind(p)) = Cardinality(kind(p)) \div oneIn

(* A mention of a place outside the project is never told stale.           *)
OutsideIsNotJudged(refs) ==
  \A r \in StaleRefs(refs) : ~ (r.beside = "outside" /\ r.root = "outside")
=============================================================================
