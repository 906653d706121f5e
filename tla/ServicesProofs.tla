--------------------------- MODULE ServicesProofs ---------------------------
(***************************************************************************)
(* The services of the daemon, its stores and its pages, for any files,    *)
(* analyzers, projects and calls: QueueIsSound of EnrichmentQueue, OneRun  *)
(* and NoScoreOnClosedStore of HealthScheduler, which implements           *)
(* ScoringDuty, JoinsAgree of StateStore, VectorStoreIsSound of            *)
(* VectorTable, each by an inductive invariant; and PagesAreTrue and       *)
(* LedgersAreKept, of the parts of the run that are pages, where           *)
(* LiveRefresh has its own proofs, and ledgers.                            *)
(***************************************************************************)
EXTENDS MCServices, FiniteSetTheorems, SequenceTheorems, WellFoundedInduction, TLAPS

(* Every nonempty set of natural numbers has a least element.             *)
LEMMA Least ==
  ASSUME NEW T \in SUBSET Nat, T # {}
  PROVE  \E x \in T : \A y \in T : x <= y
<1>1. PICK x \in T : \A y \in T : ~(<<y, x>> \in OpToRel(<, Nat))
  BY NatLessThanWellFounded, WFMin
<1>2. \A y \in T : ~(y < x)
  BY <1>1 DEF OpToRel
<1> QED BY <1>2

(* Induction on the natural numbers, about a set.                         *)
LEMMA NatInd ==
  ASSUME NEW S \in SUBSET Nat, 0 \in S, \A n \in S : n + 1 \in S
  PROVE  S = Nat
<1> SUFFICES ASSUME Nat \ S # {} PROVE FALSE
  OBVIOUS
<1>1. PICK x \in Nat \ S : \A y \in Nat \ S : x <= y
  BY Least
<1>2. x # 0 /\ x - 1 \in Nat /\ x - 1 \in S
  BY <1>1
<1> QED
  BY <1>1, <1>2

(* F is what Fresh folds over the first n tasks.                          *)
IsFold(ts, sn, n, F) ==
  F = [i \in 0..n |-> IF i = 0 THEN <<>>
                      ELSE IF New(ts[i], sn) THEN Append(F[i - 1], ts[i]) ELSE F[i - 1]]

(* The fold is there, for any number of tasks.                            *)
LEMMA FoldExists ==
  ASSUME NEW ts \in Seq(Task), NEW sn
  PROVE  \A n \in Nat : \E F : IsFold(ts, sn, n, F)
<1> DEFINE S == {n \in Nat : \E F : IsFold(ts, sn, n, F)}
<1>1. 0 \in S
  <2>1. IsFold(ts, sn, 0, [i \in 0..0 |-> <<>>])
    BY DEF IsFold
  <2> QED
    BY <2>1
<1>2. ASSUME NEW n \in S PROVE n + 1 \in S
  <2>1. PICK F : IsFold(ts, sn, n, F)
    OBVIOUS
  <2> DEFINE last == IF New(ts[n + 1], sn) THEN Append(F[n], ts[n + 1]) ELSE F[n]
             G == [i \in 0..(n + 1) |-> IF i = n + 1 THEN last ELSE F[i]]
  <2>2. \A i \in 0..(n + 1) : G[i] = IF i = 0 THEN <<>>
                      ELSE IF New(ts[i], sn) THEN Append(G[i - 1], ts[i]) ELSE G[i - 1]
    <3> TAKE i \in 0..(n + 1)
    <3>1. CASE i = n + 1
      BY <3>1
    <3>2. CASE i # n + 1
      <4>1. i \in 0..n /\ (i # 0 => i - 1 \in 0..n)
        BY <3>2
      <4>2. F[i] = IF i = 0 THEN <<>>
                   ELSE IF New(ts[i], sn) THEN Append(F[i - 1], ts[i]) ELSE F[i - 1]
        BY <2>1, <4>1 DEF IsFold
      <4> QED
        BY <3>2, <4>1, <4>2
    <3> QED
      BY <3>1, <3>2
  <2>3. IsFold(ts, sn, n + 1, G)
    BY <2>2 DEF IsFold
  <2> QED
    BY <2>3
<1> HIDE DEF S
<1>3. S = Nat
  BY <1>1, <1>2, NatInd DEF S
<1> QED
  BY <1>3 DEF S

(* Fresh is its last value.                                               *)
LEMMA FreshFold ==
  ASSUME NEW ts \in Seq(Task), NEW sn
  PROVE  \E F : IsFold(ts, sn, Len(ts), F) /\ Fresh(ts, sn) = F[Len(ts)]
<1>1. \E F : IsFold(ts, sn, Len(ts), F)
  BY FoldExists
<1>2. Fresh(ts, sn) = (CHOOSE F : IsFold(ts, sn, Len(ts), F))[Len(ts)]
  BY DEF Fresh, IsFold
<1> QED
  BY <1>1, <1>2

(* The ids of a queue, and a queue without doubles.                       *)
Ids(w) == {w[k].id : k \in DOMAIN w}
DistinctIds(w) == \A j, k \in DOMAIN w : w[j].id = w[k].id => j = k

(* What the tasks 1..n of ts leave in s.                                   *)
Keeps(ts, sn, n, s) ==
  /\ s \in Seq(Task)
  /\ \A k \in DOMAIN s : \E j \in 1..n : s[k] = ts[j] /\ New(ts[j], sn)
  /\ \A j \in 1..n : New(ts[j], sn) => \E k \in DOMAIN s : s[k] = ts[j]
  /\ DistinctIds(s)

(* One more task is looked at.                                            *)
LEMMA KeepsEach ==
  ASSUME NEW ts \in Seq(Task), NEW sn, DistinctIds(ts),
         NEW n \in Nat, n < Len(ts), NEW s, Keeps(ts, sn, n, s)
  PROVE  Keeps(ts, sn, n + 1, IF New(ts[n + 1], sn) THEN Append(s, ts[n + 1]) ELSE s)
<1> DEFINE t == ts[n + 1]
<1>0. /\ n + 1 \in DOMAIN ts /\ t \in Task /\ 1..(n + 1) = (1..n) \cup {n + 1}
      /\ 1..n \subseteq DOMAIN ts
  OBVIOUS
<1>1. CASE ~New(t, sn)
  BY <1>0, <1>1 DEF Keeps
<1>2. CASE New(t, sn)
  <2> DEFINE a == Append(s, t)
  <2>1. /\ a \in Seq(Task) /\ Len(a) = Len(s) + 1
        /\ DOMAIN a = DOMAIN s \cup {Len(s) + 1}
        /\ \A k \in DOMAIN s : a[k] = s[k]
        /\ a[Len(s) + 1] = t /\ Len(s) + 1 \notin DOMAIN s
    <3>1. s \in Seq(Task) /\ Len(s) \in Nat /\ DOMAIN s = 1..Len(s)
      BY DEF Keeps
    <3>2. /\ a \in Seq(Task) /\ Len(a) = Len(s) + 1 /\ a[Len(s) + 1] = t
          /\ \A k \in 1..Len(s) : a[k] = s[k]
      BY <1>0, <3>1, AppendProperties
    <3>3. DOMAIN a = 1..(Len(s) + 1)
      BY <3>2
    <3> QED
      BY <3>1, <3>2, <3>3
  <2>2. \A k \in DOMAIN s : s[k].id # t.id
    <3> TAKE k \in DOMAIN s
    <3>1. PICK j \in 1..n : s[k] = ts[j]
      BY DEF Keeps
    <3>2. j \in DOMAIN ts /\ j # n + 1
      BY <1>0, <3>1
    <3> QED
      BY <1>0, <3>1, <3>2 DEF DistinctIds
  <2>3. DistinctIds(a)
    BY <2>1, <2>2 DEF Keeps, DistinctIds
  <2> HIDE DEF a
  <2>4. \A k \in DOMAIN a : \E j \in 1..(n + 1) : a[k] = ts[j] /\ New(ts[j], sn)
    <3> TAKE k \in DOMAIN a
    <3>1. CASE k \in DOMAIN s
      <4>1. PICK j \in 1..n : s[k] = ts[j] /\ New(ts[j], sn)
        BY <3>1 DEF Keeps
      <4>2. j \in 1..(n + 1) /\ a[k] = ts[j]
        BY <1>0, <2>1, <3>1, <4>1
      <4> QED
        BY <4>1, <4>2
    <3>2. CASE k = Len(s) + 1
      <4>1. n + 1 \in 1..(n + 1) /\ a[k] = ts[n + 1]
        BY <2>1, <3>2
      <4> QED
        BY <1>2, <4>1
    <3> QED
      BY <2>1, <3>1, <3>2
  <2>5. \A j \in 1..(n + 1) : New(ts[j], sn) => \E k \in DOMAIN a : a[k] = ts[j]
    BY <1>0, <2>1 DEF Keeps
  <2>6. Keeps(ts, sn, n + 1, a)
    BY <2>1, <2>3, <2>4, <2>5 DEF Keeps
  <2> QED
    BY <1>2, <2>6 DEF a
<1> QED
  BY <1>1, <1>2

(* enqueue keeps the new tasks, each once.                                *)
LEMMA FreshKeeps ==
  ASSUME NEW ts \in Seq(Task), NEW sn, DistinctIds(ts)
  PROVE  Keeps(ts, sn, Len(ts), Fresh(ts, sn))
<1>1. PICK F : IsFold(ts, sn, Len(ts), F) /\ Fresh(ts, sn) = F[Len(ts)]
  BY FreshFold
<1>2. Len(ts) \in Nat
  OBVIOUS
<1> DEFINE P(n) == n <= Len(ts) => Keeps(ts, sn, n, F[n])
           S == {n \in Nat : P(n)}
<1>3. P(0)
  <2>1. F[0] = <<>>
    BY <1>1, <1>2 DEF IsFold
  <2> QED
    BY <2>1 DEF Keeps, DistinctIds
<1>4. ASSUME NEW n \in Nat, P(n) PROVE P(n + 1)
  <2> SUFFICES ASSUME n + 1 <= Len(ts) PROVE Keeps(ts, sn, n + 1, F[n + 1])
    OBVIOUS
  <2>1. n < Len(ts) /\ n + 1 \in 0..Len(ts) /\ n + 1 # 0 /\ (n + 1) - 1 = n
    BY <1>2
  <2>2. F[n + 1] = IF New(ts[n + 1], sn) THEN Append(F[n], ts[n + 1]) ELSE F[n]
    BY <1>1, <2>1 DEF IsFold
  <2>3. Keeps(ts, sn, n, F[n])
    BY <1>4, <2>1, <1>2
  <2> QED
    BY <2>1, <2>2, <2>3, KeepsEach
<1> HIDE DEF P
<1>5. S = Nat
  <2>1. S \in SUBSET Nat /\ 0 \in S
    BY <1>3
  <2>2. ASSUME NEW n \in S PROVE n + 1 \in S
    BY <1>4
  <2> HIDE DEF S
  <2> QED
    BY <2>1, <2>2, NatInd
<1>6. P(Len(ts))
  BY <1>2, <1>5
<1>7. Len(ts) <= Len(ts)
  BY <1>2
<1>8. Keeps(ts, sn, Len(ts), F[Len(ts)])
  BY <1>6, <1>7 DEF P
<1> QED
  BY <1>1, <1>8

(***************************************************************************)
(* Sizes.                                                                  *)
(***************************************************************************)
LEMMA IdFinite == IsFiniteSet(Id)
<1>1. IsFiniteSet(Analyzer)
  <2>1. PICK n \in Nat : ANALYZERS \in [1..n -> Analyzer]
    BY AnalyzerAssumption DEF Seq
  <2>2. DOMAIN ANALYZERS = 1..n
    BY <2>1
  <2>3. ANALYZERS \in Surjection(1..n, Analyzer)
    BY <2>1, <2>2 DEF Surjection, Analyzer, ToSet
  <2>4. IsFiniteSet(1..n)
    BY FS_Interval
  <2> QED
    BY <2>3, <2>4, FS_Surjection
<1> QED
  BY <1>1, FileAssumption, FS_Product DEF Id

(* Ids of the first n of a queue without doubles: n.                       *)
LEMMA CountIds ==
  ASSUME NEW w \in Seq(Task), DistinctIds(w), NEW n \in Nat, n <= Len(w)
  PROVE  Cardinality({w[k].id : k \in 1..n}) = n
<1> DEFINE S == {w[k].id : k \in 1..n}
           g == [k \in 1..n |-> w[k].id]
<1>1. 1..n \subseteq DOMAIN w
  OBVIOUS
<1>2. g \in [1..n -> S]
  OBVIOUS
<1>3. \A a, b \in 1..n : g[a] = g[b] => a = b
  BY <1>1 DEF DistinctIds
<1>4. \A t \in S : \E k \in 1..n : g[k] = t
  OBVIOUS
<1> HIDE DEF g
<1>5. g \in Bijection(1..n, S)
  <2>1. DOMAIN g = 1..n
    BY <1>2
  <2> QED
    BY <1>2, <1>3, <1>4, <2>1 DEF Bijection, Injection, Surjection, IsInjective
<1> HIDE DEF S
<1>6. ExistsBijection(1..n, S)
  BY <1>5 DEF ExistsBijection
<1>7. Cardinality(S) = n
  BY <1>6, FS_CountingElements
<1> QED
  BY <1>7 DEF S

(***************************************************************************)
(* What a drain does, whatever it is given.                                *)
(***************************************************************************)
LEMMA Drains ==
  ASSUME AnalyzerAssumption, NEW w \in Seq(Task), DistinctIds(w),
         NEW rs \in [Id -> Run], Ids(w) \cap Inflight(rs) = {},
         concurrency \in Nat, Cardinality(Inflight(rs)) <= concurrency,
         Drain(w, rs)
  PROVE  /\ waiting' \in Seq(Task) /\ runs' \in [Id -> Run]
         /\ DistinctIds(waiting')
         /\ Ids(waiting') \cap Inflight(runs') = {}
         /\ Ids(waiting') \cup Inflight(runs') = Ids(w) \cup Inflight(rs)
         /\ Cardinality(Inflight(runs')) <= concurrency
         /\ waiting' # <<>> => Cardinality(Inflight(runs')) = concurrency
         /\ \A i \in Id : \/ runs'[i] = rs[i]
                          \/ /\ runs'[i].phase = "started" /\ rs[i].phase = "idle"
                             /\ runs'[i].sha \in Sha /\ i \in Ids(w)
<1> DEFINE n == Startable(w, rs)
           Started == {w[k].id : k \in 1..n}
           c == Cardinality(Inflight(rs))
<1>1. IsFiniteSet(Inflight(rs)) /\ c \in Nat
  <2>1. Inflight(rs) \subseteq Id
    BY DEF Inflight
  <2> QED
    BY <2>1, IdFinite, FS_Subset, FS_CardinalityType
<1>2. /\ n \in Nat /\ n <= Len(w) /\ c + n <= concurrency
      /\ n < Len(w) => c + n = concurrency
  BY <1>1 DEF Startable
<1> HIDE DEF n, c
<1>3. /\ 1..n \subseteq DOMAIN w
      /\ \A k \in DOMAIN w : w[k] \in Task /\ w[k].id \in Id /\ w[k].sha \in Sha
  <2>1. Len(w) \in Nat /\ DOMAIN w = 1..Len(w)
    OBVIOUS
  <2>2. \A k \in DOMAIN w : w[k] \in Task
    OBVIOUS
  <2> QED
    BY <1>2, <2>1, <2>2 DEF Task
<1>4. Started \subseteq Id /\ Started \subseteq Ids(w)
  BY <1>3 DEF Ids
<1>5. runs' = [i \in Id |-> IF i \in Started
                 THEN LET t == CHOOSE t \in {w[k] : k \in 1..n} : t.id = i
                      IN  [phase |-> "started", sha |-> t.sha, full |-> FALSE]
                 ELSE rs[i]]
  <2>1. \A i \in Id : (\E k \in 1..n : w[k].id = i) <=> i \in Started
    OBVIOUS
  <2> QED
    BY <2>1 DEF Drain, n
<1>6. \A i \in Started : /\ runs'[i] \in Run /\ runs'[i].phase = "started"
                          /\ runs'[i].sha \in Sha
                          /\ rs[i].phase = "idle"
  <2> TAKE i \in Started
  <2>1. \E t \in {w[k] : k \in 1..n} : t.id = i
    OBVIOUS
  <2>2. PICK t \in {w[k] : k \in 1..n} :
          runs'[i] = [phase |-> "started", sha |-> t.sha, full |-> FALSE]
    BY <1>4, <1>5, <2>1
  <2>3. t.sha \in Sha
    BY <1>3
  <2>4. i \notin Inflight(rs)
    BY <1>4
  <2> QED
    BY <1>4, <2>2, <2>3, <2>4 DEF Run, Inflight
<1>7. \A i \in Id \ Started : runs'[i] = rs[i]
  BY <1>5
<1> HIDE DEF Started
<1>8. runs' \in [Id -> Run]
  <2>1. \A i \in Id : runs'[i] \in Run
    BY <1>6, <1>7
  <2> QED
    BY <1>5, <2>1
<1>9. Inflight(runs') = Inflight(rs) \cup Started
  BY <1>4, <1>6, <1>7 DEF Inflight
<1>10. Cardinality(Started) = n /\ Started \cap Inflight(rs) = {}
  BY <1>2, <1>4, CountIds DEF Started
<1>11. Cardinality(Inflight(runs')) = c + n
  <2>1. IsFiniteSet(Started)
    BY <1>4, IdFinite, FS_Subset
  <2>2. Cardinality({}) = 0
    BY FS_EmptySet
  <2>3. Cardinality(Inflight(rs) \cup Started) 
          = c + Cardinality(Started) - Cardinality(Inflight(rs) \cap Started)
    BY <1>1, <2>1, FS_Union DEF c
  <2>4. Inflight(rs) \cap Started = {}
    BY <1>10
  <2>5. Cardinality(Inflight(rs) \cap Started) = 0
    BY <2>2, <2>4
  <2>6. Cardinality(Inflight(rs) \cup Started) = c + n
    BY <1>1, <1>2, <1>10, <2>3, <2>5
  <2> QED
    BY <1>9, <2>6
<1>12. /\ waiting' \in Seq(Task) /\ Len(waiting') = Len(w) - n
       /\ \A k \in 1..(Len(w) - n) : waiting'[k] = w[k + n]
  <2>1. waiting' = SubSeq(w, n + 1, Len(w))
    BY DEF Drain, n
  <2>2. Len(w) \in Nat /\ n + 1 \in Int
    BY <1>2
  <2>3. \A i \in (n + 1)..Len(w) : w[i] \in Task
    BY <1>2
  <2>4. Len(w) - (n + 1) + 1 = Len(w) - n
    BY <1>2, <2>2
  <2>5. \A k \in 1..(Len(w) - n) : (n + 1) + k - 1 = k + n
    BY <1>2, <2>2
  <2>6. /\ SubSeq(w, n + 1, Len(w)) \in Seq(Task)
        /\ Len(SubSeq(w, n + 1, Len(w))) = IF n + 1 <= Len(w) THEN Len(w) - (n + 1) + 1 ELSE 0
        /\ \A k \in 1..(Len(w) - (n + 1) + 1) : SubSeq(w, n + 1, Len(w))[k] = w[(n + 1) + k - 1]
    BY <2>2, <2>3, SubSeqProperties
  <2>7. Len(SubSeq(w, n + 1, Len(w))) = Len(w) - n
    BY <1>2, <2>2, <2>6
  <2>8. \A k \in 1..(Len(w) - n) : SubSeq(w, n + 1, Len(w))[k] = w[k + n]
    BY <2>4, <2>5, <2>6
  <2> QED
    BY <2>1, <2>6, <2>7, <2>8
<1>13. DOMAIN waiting' = 1..(Len(w) - n)
  BY <1>12
<1>14. \A k \in DOMAIN waiting' : k + n \in DOMAIN w /\ k + n \notin 1..n /\ waiting'[k] = w[k + n]
  BY <1>2, <1>12, <1>13
<1>15. DistinctIds(waiting')
  <2> SUFFICES ASSUME NEW j \in DOMAIN waiting', NEW k \in DOMAIN waiting',
                      waiting'[j].id = waiting'[k].id
               PROVE  j = k
    BY DEF DistinctIds
  <2>1. w[j + n].id = w[k + n].id /\ j + n \in DOMAIN w /\ k + n \in DOMAIN w
    BY <1>14
  <2>2. j + n = k + n
    BY <2>1 DEF DistinctIds
  <2> QED
    BY <1>2, <1>13, <2>2
<1>16. Ids(waiting') = Ids(w) \ Started
  <2>1. ASSUME NEW k \in DOMAIN waiting' PROVE waiting'[k].id \in Ids(w) \ Started
    <3>1. \A j \in 1..n : w[j].id # w[k + n].id
      BY <1>3, <1>14 DEF DistinctIds
    <3> QED
      BY <1>14, <3>1 DEF Ids, Started
  <2>2. ASSUME NEW j \in DOMAIN w, w[j].id \notin Started
        PROVE  w[j].id \in Ids(waiting')
    <3>1. j \notin 1..n /\ j \in 1..Len(w)
      BY <2>2 DEF Started
    <3>2. j - n \in DOMAIN waiting' /\ (j - n) + n = j
      BY <1>2, <1>13, <3>1
    <3>3. waiting'[j - n] = w[j]
      BY <1>14, <3>2
    <3> QED
      BY <3>2, <3>3 DEF Ids
  <2> QED
    BY <2>1, <2>2 DEF Ids
<1>17. waiting' # <<>> => n < Len(w)
  BY <1>2, <1>12
<1>18. /\ Ids(waiting') \cap Inflight(runs') = {}
       /\ Ids(waiting') \cup Inflight(runs') = Ids(w) \cup Inflight(rs)
  BY <1>4, <1>9, <1>16
<1>19. \A i \in Id : \/ runs'[i] = rs[i]
                      \/ /\ runs'[i].phase = "started" /\ rs[i].phase = "idle"
                         /\ runs'[i].sha \in Sha /\ i \in Ids(w)
  BY <1>4, <1>6, <1>7
<1> QED
  BY <1>2, <1>8, <1>11, <1>12, <1>15, <1>17, <1>18, <1>19

(***************************************************************************)
(* The inductive invariant.                                                *)
(***************************************************************************)
(* A run is always of some content.                                        *)
RunsHaveSha == \A i \in Id : runs[i].phase # "idle" => runs[i].sha \in Sha

(* A row with a result.                                                   *)
Completed(r) == r # None /\ r.status = "complete"

(* A quality run that missed a lizard row that is there by now.            *)
ReadsLate ==
  \A f \in File : LET l == results[<<Lizard, f>>]
                      r == runs[<<Quality, f>>] IN
    r.phase = "read" /\ ~r.full /\ Completed(l) /\ l.sha = r.sha => f \in late

(* The quality row of f was made without the lizard row that is there.    *)
Degraded(f) ==
  LET l == results[<<Lizard, f>>]
      q == results[<<Quality, f>>]
  IN  Completed(l) /\ Completed(q) /\ l.sha = q.sha /\ ~q.full

(* A degraded row whose run has not freed its slot is counted.            *)
SettledLate ==
  \A f \in File : runs[<<Quality, f>>].phase = "settled" /\ Degraded(f) => f \in late

(* Tasks that wait or run.                                                *)
Outstanding == Queued \cup Inflight(runs)

(* DegradedUpgrades, in those terms.                                      *)
Upgrades == \A f \in File : Degraded(f) => <<Quality, f>> \in Outstanding \/ f \in late

(* What the slots and the queue keep.                                     *)
Slots == TypeOK /\ RunsHaveSha /\ OutstandingOnce /\ WorkConserving

QueueInv == Slots /\ Upgrades /\ ReadsLate /\ SettledLate

(* The inductive invariant is enough.                                     *)
LEMMA QueueInvGives == QueueInv => QueueIsSound
  BY DEF QueueInv, Slots, QueueIsSound, Upgrades, DegradedUpgrades, Degraded, Completed, Outstanding

(* The two ways to name the waiting ids.                                  *)
LEMMA QueuedIds == Queued = Ids(waiting) /\ (OutstandingOnce => DistinctIds(waiting))
  BY DEF Queued, Ids, OutstandingOnce, DistinctIds

(* Both analyzers have a task for every file.                             *)
LEMMA PairIds ==
  \A f \in File : /\ <<Quality, f>> \in Id /\ <<Lizard, f>> \in Id
                  /\ <<Quality, f>> # <<Lizard, f>>
  BY AnalyzerAssumption DEF Id

(* The queue starts empty.                                                *)
LEMMA InitQueue == Init => QueueInv
<1> SUFFICES ASSUME Init PROVE QueueInv
  OBVIOUS
<1>1. Inflight(runs) = {} /\ waiting = <<>>
  BY DEF Init, Inflight, NoRun
<1>2. concurrency \in Nat \ {0}
  BY AnalyzerAssumption DEF Init
<1>3. TypeOK
  BY DEF Init, TypeOK, NoRun, Run
<1>4. \A i \in Id : runs[i].phase = "idle" /\ results[i] = None
  BY DEF Init, NoRun
<1>7. RunsHaveSha /\ ReadsLate /\ SettledLate
  BY <1>4, PairIds DEF RunsHaveSha, ReadsLate, SettledLate
<1>5. Upgrades
  BY <1>4, PairIds DEF Upgrades, Degraded, Completed
<1>6. OutstandingOnce /\ WorkConserving
  BY <1>1, <1>2, FS_EmptySet DEF OutstandingOnce, WorkConserving, Queued
<1> QED
  BY <1>3, <1>5, <1>6, <1>7 DEF QueueInv, Slots

(* The cap is a positive number.                                          *)
LEMMA ConcurrencyIsNat == Slots => concurrency \in Nat \ {0}
  BY AnalyzerAssumption DEF Slots, TypeOK

(* A run goes on: it stays in its slot.                                    *)
LEMMA RunGoesOn ==
  ASSUME Slots, NEW i \in Id, NEW r \in Run, runs[i].phase # "idle", r.phase # "idle",
         r.sha = runs[i].sha, runs' = [runs EXCEPT ![i] = r],
         waiting' = waiting, concurrency' = concurrency
  PROVE  /\ runs' \in [Id -> Run] /\ RunsHaveSha' /\ OutstandingOnce' /\ WorkConserving'
         /\ Outstanding' = Outstanding
<1>1. runs \in [Id -> Run]
  BY DEF Slots, TypeOK
<1>2. Inflight(runs)' = Inflight(runs)
  BY <1>1 DEF Inflight
<1>3. Queued' = Queued
  BY DEF Queued
<1>4. RunsHaveSha'
  BY <1>1 DEF Slots, RunsHaveSha
<1> QED
  BY <1>1, <1>2, <1>3, <1>4 DEF Slots, OutstandingOnce, WorkConserving, Outstanding

(* A drain that starts from a sound queue.                                 *)
LEMMA DrainsSound ==
  ASSUME Slots, NEW w \in Seq(Task), DistinctIds(w),
         NEW rs \in [Id -> Run], Ids(w) \cap Inflight(rs) = {},
         Inflight(rs) \subseteq Inflight(runs),
         \A i \in Id : rs[i].phase # "idle" => rs[i].sha \in Sha,
         Drain(w, rs), concurrency' = concurrency
  PROVE  /\ waiting' \in Seq(Task) /\ runs' \in [Id -> Run]
         /\ RunsHaveSha' /\ OutstandingOnce' /\ WorkConserving'
         /\ Outstanding' = Ids(w) \cup Inflight(rs)
         /\ \A i \in Id : \/ runs'[i] = rs[i]
                          \/ /\ runs'[i].phase = "started" /\ rs[i].phase = "idle"
                             /\ runs'[i].sha \in Sha /\ i \in Ids(w)
<1>1. Cardinality(Inflight(rs)) <= concurrency
  <2>1. Inflight(rs) \subseteq Id /\ Inflight(runs) \subseteq Id
    BY DEF Inflight
  <2>2. IsFiniteSet(Inflight(runs)) /\ IsFiniteSet(Inflight(rs))
    BY <2>1, IdFinite, FS_Subset
  <2>3. Cardinality(Inflight(rs)) <= Cardinality(Inflight(runs))
    BY <2>2, FS_Subset
  <2>4. Cardinality(Inflight(rs)) \in Nat /\ Cardinality(Inflight(runs)) \in Nat
    BY <2>2, FS_CardinalityType
  <2> QED
    BY <2>3, <2>4, ConcurrencyIsNat DEF Slots, WorkConserving
<1>2. /\ waiting' \in Seq(Task) /\ runs' \in [Id -> Run]
      /\ DistinctIds(waiting')
      /\ Ids(waiting') \cap Inflight(runs') = {}
      /\ Ids(waiting') \cup Inflight(runs') = Ids(w) \cup Inflight(rs)
      /\ Cardinality(Inflight(runs')) <= concurrency
      /\ waiting' # <<>> => Cardinality(Inflight(runs')) = concurrency
      /\ \A i \in Id : \/ runs'[i] = rs[i]
                       \/ /\ runs'[i].phase = "started" /\ rs[i].phase = "idle"
                          /\ runs'[i].sha \in Sha /\ i \in Ids(w)
  BY <1>1, ConcurrencyIsNat, AnalyzerAssumption, Drains
<1>3. Inflight(runs)' = Inflight(runs') /\ Queued' = Ids(waiting')
  BY DEF Inflight, Queued, Ids
<1>4. OutstandingOnce' /\ WorkConserving' /\ Outstanding' = Ids(w) \cup Inflight(rs)
  BY <1>2, <1>3 DEF OutstandingOnce, WorkConserving, Outstanding, DistinctIds
<1>5. RunsHaveSha'
  BY <1>2 DEF RunsHaveSha
<1> QED
  BY <1>2, <1>4, <1>5

(***************************************************************************)
(* The steps.                                                              *)
(***************************************************************************)
(* What enqueue adds: new ids, each once, and every new task among them.   *)
LEMMA Enqueues ==
  ASSUME Slots, NEW ts \in Seq(Task), NEW sn, DistinctIds(ts)
  PROVE  LET w == waiting \o Fresh(ts, sn) IN
         /\ w \in Seq(Task) /\ DistinctIds(w)
         /\ Ids(w) \cap Inflight(runs) = {} /\ Queued \subseteq Ids(w)
         /\ \A k \in 1..Len(ts) : New(ts[k], sn) => ts[k].id \in Ids(w)
         /\ Ids(w) \subseteq Queued \cup Ids(ts)
<1> DEFINE s == Fresh(ts, sn)
           w == waiting \o s
<1>1. Keeps(ts, sn, Len(ts), s)
  BY FreshKeeps
<1> HIDE DEF s
<1>2. s \in Seq(Task) /\ waiting \in Seq(Task) /\ DistinctIds(s) /\ DistinctIds(waiting)
  BY <1>1, QueuedIds DEF Keeps, Slots, TypeOK
<1>3. /\ w \in Seq(Task)
      /\ Len(w) = Len(waiting) + Len(s)
      /\ \A k \in 1..Len(w) : w[k] = IF k <= Len(waiting) THEN waiting[k] ELSE s[k - Len(waiting)]
  BY <1>2, ConcatProperties
<1>4. /\ DOMAIN w = 1..Len(w) /\ DOMAIN s = 1..Len(s) /\ DOMAIN waiting = 1..Len(waiting)
      /\ Len(s) \in Nat /\ Len(waiting) \in Nat
  BY <1>2, <1>3
<1> HIDE DEF w
<1>5. \A k \in DOMAIN s : s[k].id \notin Ids(waiting) /\ s[k].id \notin Inflight(runs)
  BY <1>1, QueuedIds DEF Keeps, New
<1>6. \A k \in DOMAIN w : \/ k \in DOMAIN waiting /\ w[k] = waiting[k]
                          \/ k - Len(waiting) \in DOMAIN s /\ w[k] = s[k - Len(waiting)]
  <2> TAKE k \in DOMAIN w
  <2>1. k \in 1..(Len(waiting) + Len(s))
    BY <1>3, <1>4
  <2>0. w[k] = IF k <= Len(waiting) THEN waiting[k] ELSE s[k - Len(waiting)]
    BY <1>3, <1>4
  <2>2. CASE k <= Len(waiting)
    <3>1. k \in DOMAIN waiting
      BY <1>4, <2>1, <2>2
    <3> QED
      BY <2>0, <2>2, <3>1
  <2>3. CASE ~(k <= Len(waiting))
    <3>1. k - Len(waiting) \in DOMAIN s
      BY <1>4, <2>1, <2>3
    <3> QED
      BY <2>0, <2>3, <3>1
  <2> QED
    BY <2>2, <2>3
<1>7. DistinctIds(w)
  <2> SUFFICES ASSUME NEW j \in DOMAIN w, NEW k \in DOMAIN w, w[j].id = w[k].id
               PROVE  j = k
    BY DEF DistinctIds
  <2>1. CASE j \in DOMAIN waiting /\ w[j] = waiting[j]
    <3>1. k \in DOMAIN waiting /\ w[k] = waiting[k]
      BY <1>5, <1>6, <2>1 DEF Ids
    <3> QED
      BY <1>2, <2>1, <3>1 DEF DistinctIds
  <2>2. CASE j - Len(waiting) \in DOMAIN s /\ w[j] = s[j - Len(waiting)]
    <3>1. k - Len(waiting) \in DOMAIN s /\ w[k] = s[k - Len(waiting)]
      BY <1>5, <1>6, <2>2 DEF Ids
    <3>2. j - Len(waiting) = k - Len(waiting)
      BY <1>2, <2>2, <3>1 DEF DistinctIds
    <3> QED
      BY <1>4, <3>2
  <2> QED
    BY <1>6, <2>1, <2>2
<1>8. Ids(w) = Ids(waiting) \cup Ids(s)
  <2>1. \A k \in DOMAIN waiting : k \in DOMAIN w /\ w[k] = waiting[k]
    BY <1>3, <1>4
  <2>2. \A k \in DOMAIN s : k + Len(waiting) \in DOMAIN w /\ w[k + Len(waiting)] = s[k]
    BY <1>3, <1>4
  <2> QED
    BY <1>6, <2>1, <2>2 DEF Ids
<1>9. Ids(waiting) \cap Inflight(runs) = {}
  BY QueuedIds DEF Slots, OutstandingOnce
<1>10. \A k \in 1..Len(ts) : New(ts[k], sn) => ts[k].id \in Ids(s)
  BY <1>1 DEF Keeps, Ids
<1>11. Ids(s) \subseteq Ids(ts)
  BY <1>1 DEF Keeps, Ids
<1>12. Ids(w) \cap Inflight(runs) = {}
  BY <1>5, <1>8, <1>9 DEF Ids
<1> QED
  BY <1>3, <1>7, <1>8, <1>10, <1>11, <1>12, QueuedIds DEF w, s

(* An enqueue on its own: the rows and the history stay.                   *)
LEMMA EnqueueStep ==
  ASSUME QueueInv, NEW ts \in Seq(Task), DistinctIds(ts), Enqueue(ts, seen),
         files' \in [File -> Sha \cup {None}], UNCHANGED <<results, seen, late, concurrency>>
  PROVE  QueueInv'
<1> DEFINE w == waiting \o Fresh(ts, seen)
<1>1. Slots
  BY DEF QueueInv
<1>2. /\ w \in Seq(Task) /\ DistinctIds(w)
      /\ Ids(w) \cap Inflight(runs) = {} /\ Queued \subseteq Ids(w)
  BY <1>1, Enqueues
<1>3. Drain(w, runs) /\ runs \in [Id -> Run]
  BY <1>1 DEF Enqueue, Slots, TypeOK
<1> HIDE DEF w
<1>4. /\ waiting' \in Seq(Task) /\ runs' \in [Id -> Run]
      /\ RunsHaveSha' /\ OutstandingOnce' /\ WorkConserving'
      /\ Outstanding' = Ids(w) \cup Inflight(runs)
      /\ \A i \in Id : runs'[i] = runs[i] \/ runs'[i].phase = "started"
  BY <1>1, <1>2, <1>3, DrainsSound DEF Slots, RunsHaveSha
<1>5. Slots'
  BY <1>1, <1>4 DEF Slots, TypeOK
<1>6. Upgrades'
  BY <1>2, <1>4 DEF QueueInv, Upgrades, Outstanding, Degraded
<1>7. ReadsLate' /\ SettledLate'
  BY <1>4, PairIds DEF QueueInv, ReadsLate, SettledLate, Degraded
<1> QED
  BY <1>5, <1>6, <1>7 DEF QueueInv

(* The indexer stamped a row and fed the queue.                           *)
LEMMA FileIndexedStep ==
  ASSUME QueueInv, NEW f \in File, NEW s \in Sha, FileIndexed(f, s)
  PROVE  QueueInv'
<1> DEFINE ts == [k \in DOMAIN ANALYZERS |-> TaskOf(ANALYZERS[k], f, s)]
<1>1. /\ ANALYZERS \in Seq(Analyzer) /\ Len(ANALYZERS) \in Nat
      /\ DOMAIN ANALYZERS = 1..Len(ANALYZERS)
      /\ \A k \in DOMAIN ANALYZERS : ANALYZERS[k] \in Analyzer
  BY AnalyzerAssumption
<1>2. \A k \in DOMAIN ANALYZERS : ts[k] \in Task /\ ts[k].id = <<ANALYZERS[k], f>>
  BY <1>1 DEF TaskOf, Task, Id
<1>3. ts \in [1..Len(ANALYZERS) -> Task]
  BY <1>1, <1>2
<1>4. ts \in Seq(Task) /\ DOMAIN ts = DOMAIN ANALYZERS
  BY <1>1, <1>3
<1>5. DistinctIds(ts)
  BY <1>2, <1>4, AnalyzerAssumption DEF DistinctIds, IsInjective
<1>6. /\ Enqueue(ts, seen) /\ UNCHANGED <<results, seen, late, concurrency>>
      /\ files' \in [File -> Sha \cup {None}]
  BY DEF FileIndexed, QueueInv, Slots, TypeOK
<1> HIDE DEF ts
<1> QED
  BY <1>4, <1>5, <1>6, EnqueueStep

(* A row goes; the queue does not look.                                   *)
LEMMA FileDeletedStep ==
  ASSUME QueueInv, NEW f \in File, FileDeleted(f)
  PROVE  QueueInv'
<1>1. files' \in [File -> Sha \cup {None}]
  BY DEF FileDeleted, QueueInv, Slots, TypeOK
<1>2. UNCHANGED <<results, waiting, runs, seen, late, concurrency>>
  BY DEF FileDeleted
<1>3. Slots'
  BY <1>1, <1>2 DEF QueueInv, Slots, TypeOK, RunsHaveSha, OutstandingOnce, WorkConserving,
     Queued, Inflight
<1>4. Outstanding' = Outstanding /\ \A g \in File : Degraded(g)' = Degraded(g)
  BY <1>2 DEF Outstanding, Queued, Inflight, Degraded
<1>5. Upgrades' /\ ReadsLate' /\ SettledLate'
  BY <1>2, <1>4 DEF QueueInv, Upgrades, ReadsLate, SettledLate
<1> QED
  BY <1>3, <1>5 DEF QueueInv

(* A round of backfill.                                                   *)
LEMMA BackfillStep ==
  ASSUME QueueInv, NEW a \in Analyzer, Backfill(a)
  PROVE  QueueInv'
<1> DEFINE M == Missing(a)
           fs == SetToSeq(M)
           ts == [k \in DOMAIN fs |-> TaskOf(a, fs[k], files[fs[k]])]
<1>1. fs \in [1..Cardinality(M) -> M] /\ IsInjective(fs) /\ Cardinality(M) \in Nat
  <2>1. IsFiniteSet(M)
    BY FileAssumption, FS_Subset DEF Missing
  <2>2. Cardinality(M) \in Nat /\ ExistsBijection(1..Cardinality(M), M)
    BY <2>1, FS_CardinalityType
  <2>3. PICK g : g \in Bijection(1..Cardinality(M), M)
    BY <2>2 DEF ExistsBijection
  <2>4. g \in [1..Cardinality(M) -> M] /\ IsInjective(g)
    BY <2>3 DEF Bijection, Injection
  <2> HIDE DEF M
  <2> QED
    BY <2>2, <2>4 DEF SetToSeq
<1>2. \A f \in M : f \in File /\ files[f] \in Sha
  BY DEF Missing, QueueInv, Slots, TypeOK
<1> HIDE DEF M, fs
<1>3. DOMAIN fs = 1..Cardinality(M) /\ \A k \in DOMAIN fs : fs[k] \in M
  BY <1>1
<1>4. \A k \in DOMAIN fs : ts[k] \in Task /\ ts[k].id = <<a, fs[k]>>
  BY <1>2, <1>3 DEF TaskOf, Task, Id
<1>5. ts \in [1..Cardinality(M) -> Task] /\ DOMAIN ts = DOMAIN fs
  BY <1>3, <1>4
<1>6. ts \in Seq(Task)
  BY <1>1, <1>5
<1>7. DistinctIds(ts)
  BY <1>1, <1>4, <1>5 DEF DistinctIds, IsInjective
<1>8. /\ Enqueue(ts, seen) /\ UNCHANGED <<results, seen, late, concurrency>>
      /\ files' \in [File -> Sha \cup {None}]
  BY DEF Backfill, QueueInv, Slots, TypeOK, fs, M
<1> HIDE DEF ts
<1> QED
  BY <1>6, <1>7, <1>8, EnqueueStep

(* A runner reads; quality looks for the row of lizard.                   *)
LEMMA ReadsStep ==
  ASSUME QueueInv, NEW i \in Id, Reads(i)
  PROVE  QueueInv'
<1> DEFINE l == results[<<Lizard, i[2]>>]
           r == [phase |-> "read", sha |-> runs[i].sha,
                 full |-> i[1] = Quality /\ l # None /\ l.status = "complete"
                         /\ l.sha = runs[i].sha]
<1>1. Slots /\ runs \in [Id -> Run] /\ runs[i] \in Run /\ i[1] \in Analyzer /\ i[2] \in File
      /\ i = <<i[1], i[2]>>
  BY DEF QueueInv, Slots, TypeOK, Id
<1>2. /\ runs' = [runs EXCEPT ![i] = r] /\ runs[i].phase = "started"
      /\ UNCHANGED <<files, results, waiting, seen, late, concurrency>>
  BY <1>1 DEF Reads, Run
<1>3. r \in Run /\ r.phase = "read" /\ r.sha = runs[i].sha
  BY <1>1 DEF Run
<1>4. /\ runs' \in [Id -> Run] /\ RunsHaveSha' /\ OutstandingOnce' /\ WorkConserving'
      /\ Outstanding' = Outstanding
  BY <1>1, <1>2, <1>3, RunGoesOn
<1>5. Slots'
  BY <1>1, <1>2, <1>4 DEF Slots, TypeOK
<1>6. Upgrades' /\ \A f \in File : Degraded(f)' = Degraded(f)
  BY <1>2, <1>4 DEF QueueInv, Upgrades, Degraded
<1>7. \A j \in Id : runs'[j] = IF j = i THEN r ELSE runs[j]
  BY <1>1, <1>2
<1>8. ReadsLate'
  <2> SUFFICES ASSUME NEW f \in File, runs'[<<Quality, f>>].phase = "read",
                      ~runs'[<<Quality, f>>].full, Completed(results[<<Lizard, f>>]),
                      results[<<Lizard, f>>].sha = runs'[<<Quality, f>>].sha
               PROVE  f \in late
    BY <1>2 DEF ReadsLate
  <2>0. <<Quality, f>>[1] = Quality /\ <<Quality, f>>[2] = f
    OBVIOUS
  <2>1. ASSUME <<Quality, f>> = i PROVE FALSE
    <3>1. i[1] = Quality /\ l = results[<<Lizard, f>>] /\ runs'[i] = r
      BY <1>7, <2>0, <2>1
    <3>2. l # None /\ l.status = "complete" /\ l.sha = runs[i].sha
      BY <1>3, <2>1, <3>1 DEF Completed
    <3>3. r.full
      BY <3>1, <3>2
    <3> QED
      BY <2>1, <3>1, <3>3
  <2> QED
    BY <1>7, <2>1, PairIds DEF QueueInv, ReadsLate
<1>9. SettledLate'
  BY <1>2, <1>3, <1>6, <1>7, PairIds DEF QueueInv, SettledLate
<1> QED
  BY <1>5, <1>6, <1>8, <1>9 DEF QueueInv

(* The sink of a task that settles: i keeps its slot.                      *)
LEMMA SettledRuns ==
  ASSUME Slots, NEW i \in Id, runs[i].phase # "idle"
  PROVE  /\ Settled(i) \in [Id -> Run]
         /\ Settled(i)[i].phase = "settled" /\ Settled(i)[i].sha = runs[i].sha
         /\ \A j \in Id : j # i => Settled(i)[j] = runs[j]
         /\ Inflight(Settled(i)) = Inflight(runs)
         /\ \A j \in Id : Settled(i)[j].phase # "idle" => Settled(i)[j].sha \in Sha
         /\ \E r \in Run : /\ Settled(i) = [runs EXCEPT ![i] = r]
                           /\ r.phase = "settled" /\ r.sha = runs[i].sha
<1>1. runs \in [Id -> Run] /\ runs[i] \in Run
  BY DEF Slots, TypeOK
<1> DEFINE r == [runs[i] EXCEPT !.phase = "settled"]
<1>2. r \in Run /\ r.phase = "settled" /\ r.sha = runs[i].sha
  BY <1>1 DEF Run
<1>3. Settled(i) = [runs EXCEPT ![i] = r]
  BY DEF Settled
<1> HIDE DEF r
<1>4. /\ Settled(i) \in [Id -> Run] /\ Settled(i)[i] = r
      /\ \A j \in Id : j # i => Settled(i)[j] = runs[j]
  BY <1>1, <1>2, <1>3
<1>5. Inflight(Settled(i)) = Inflight(runs)
  BY <1>2, <1>4 DEF Inflight
<1>6. \A j \in Id : Settled(i)[j].phase # "idle" => Settled(i)[j].sha \in Sha
  BY <1>2, <1>4 DEF Slots, RunsHaveSha
<1> QED
  BY <1>2, <1>3, <1>4, <1>5, <1>6

(* The rows and dedup records a settled task leaves are typed.             *)
LEMMA RowsTyped ==
  ASSUME Slots, NEW i \in Id, runs[i].phase # "idle", NEW st \in {"complete", "failed"}
  PROVE  /\ Row(i, st) \in Result
         /\ [results EXCEPT ![i] = Row(i, st)] \in [Id -> Result \cup {None}]
         /\ [seen EXCEPT ![i] = runs[i].sha] \in [Id -> Sha \cup {None}]
<1>1. runs[i] \in Run /\ runs[i].sha \in Sha
  BY DEF Slots, TypeOK, RunsHaveSha
<1>2. Row(i, st) \in Result
  BY <1>1 DEF Row, Result, Run
<1> QED
  BY <1>1, <1>2 DEF Slots, TypeOK

(* A failure is stored, and a failed row is not degraded.                 *)
LEMMA FailsStep ==
  ASSUME QueueInv, NEW i \in Id, Fails(i)
  PROVE  QueueInv'
<1>1. Slots /\ runs[i].phase # "idle"
  BY DEF QueueInv, Fails
<1>2. /\ runs' = Settled(i) /\ results' = [results EXCEPT ![i] = Row(i, "failed")]
      /\ seen' = [seen EXCEPT ![i] = runs[i].sha]
      /\ UNCHANGED <<files, waiting, late, concurrency>>
  BY DEF Fails
<1>3. /\ runs' \in [Id -> Run] /\ RunsHaveSha' /\ OutstandingOnce' /\ WorkConserving'
      /\ Outstanding' = Outstanding
  BY <1>1, <1>2, SettledRuns, RunGoesOn
<1>4. Slots'
  BY <1>1, <1>2, <1>3, RowsTyped DEF Slots, TypeOK
<1>5. results \in [Id -> Result \cup {None}]
  BY <1>1 DEF Slots, TypeOK
<1>6. \A j \in Id : results'[j] = results[j] \/ ~Completed(results'[j])
  BY <1>2, <1>5 DEF Row, Completed
<1>7. \A f \in File : Degraded(f)' => Degraded(f)
  BY <1>6, PairIds DEF Degraded
<1>8. Upgrades'
  BY <1>2, <1>3, <1>7 DEF QueueInv, Upgrades
<1>9. \A j \in Id : runs'[j] = runs[j] \/ (runs'[j].phase = "settled" /\ j = i)
  BY <1>1, <1>2, SettledRuns
<1>10. ReadsLate'
  BY <1>2, <1>6, <1>9, PairIds DEF QueueInv, ReadsLate
<1>11. SettledLate'
  <2> SUFFICES ASSUME NEW f \in File, runs'[<<Quality, f>>].phase = "settled", Degraded(f)'
               PROVE  f \in late
    BY <1>2 DEF SettledLate
  <2>1. <<Quality, f>> # i
    BY <1>2, <1>5 DEF Degraded, Row, Completed
  <2> QED
    BY <1>7, <1>9, <2>1, PairIds DEF QueueInv, SettledLate
<1> QED
  BY <1>4, <1>8, <1>10, <1>11 DEF QueueInv

(* The sink throws, the queue goes on.                                    *)
LEMMA SinkThrowsStep ==
  ASSUME QueueInv, NEW i \in Id, SinkThrows(i)
  PROVE  QueueInv'
<1>1. Slots /\ runs[i].phase # "idle"
  BY DEF QueueInv, SinkThrows
<1>2. /\ runs' = Settled(i) /\ seen' = [seen EXCEPT ![i] = runs[i].sha]
      /\ late' = IF i[1] = Quality THEN late \cup {i[2]} ELSE late
      /\ UNCHANGED <<files, results, waiting, concurrency>>
  BY DEF SinkThrows
<1>3. /\ runs' \in [Id -> Run] /\ RunsHaveSha' /\ OutstandingOnce' /\ WorkConserving'
      /\ Outstanding' = Outstanding
  BY <1>1, <1>2, SettledRuns, RunGoesOn
<1>4. late' \subseteq File /\ late \subseteq late'
  BY <1>1, <1>2 DEF Slots, TypeOK, Id
<1>5. Slots'
  BY <1>1, <1>2, <1>3, <1>4, RowsTyped DEF Slots, TypeOK
<1>6. \A f \in File : Degraded(f)' = Degraded(f)
  BY <1>2 DEF Degraded
<1>7. Upgrades'
  BY <1>3, <1>4, <1>6 DEF QueueInv, Upgrades
<1>8. \A j \in Id : runs'[j] = runs[j] \/ (runs'[j].phase = "settled" /\ j = i)
  BY <1>1, <1>2, SettledRuns
<1>9. ReadsLate'
  BY <1>2, <1>4, <1>8, PairIds DEF QueueInv, ReadsLate
<1>10. SettledLate'
  <2> SUFFICES ASSUME NEW f \in File, runs'[<<Quality, f>>].phase = "settled", Degraded(f)
               PROVE  f \in late'
    BY <1>6 DEF SettledLate
  <2>1. CASE <<Quality, f>> = i
    BY <1>2, <2>1
  <2>2. CASE <<Quality, f>> # i
    BY <1>4, <1>8, <2>2, PairIds DEF QueueInv, SettledLate
  <2> QED
    BY <2>1, <2>2
<1> QED
  BY <1>5, <1>7, <1>9, <1>10 DEF QueueInv

(* An analyzer other than lizard stores its result.                       *)
LEMMA OtherCompletes ==
  ASSUME QueueInv, NEW i \in Id, Completes(i), i[1] # Lizard
  PROVE  QueueInv'
<1>1. Slots /\ runs[i].phase = "read" /\ runs[i].phase # "idle"
  BY DEF QueueInv, Completes
<1>2. /\ runs' = Settled(i) /\ results' = [results EXCEPT ![i] = Row(i, "complete")]
      /\ seen' = [seen EXCEPT ![i] = runs[i].sha]
      /\ late' = IF i[1] = Quality /\ runs[i].full THEN late \ {i[2]} ELSE late
      /\ UNCHANGED <<files, waiting, concurrency>>
  BY DEF Completes
<1>3. /\ runs' \in [Id -> Run] /\ RunsHaveSha' /\ OutstandingOnce' /\ WorkConserving'
      /\ Outstanding' = Outstanding
  BY <1>1, <1>2, SettledRuns, RunGoesOn
<1>4. Slots'
  BY <1>1, <1>2, <1>3, RowsTyped DEF Slots, TypeOK
<1>5. results \in [Id -> Result \cup {None}] /\ i[1] \in Analyzer /\ i[2] \in File
      /\ i = <<i[1], i[2]>>
  BY <1>1 DEF Slots, TypeOK, Id
<1>6. /\ results'[i] = Row(i, "complete")
      /\ \A j \in Id : j # i => results'[j] = results[j] /\ runs'[j] = runs[j]
      /\ runs'[i].phase = "settled"
  BY <1>1, <1>2, <1>5, SettledRuns
<1>7. \A f \in File : /\ <<Quality, f>> = i <=> (i[1] = Quality /\ i[2] = f)
                      /\ <<Lizard, f>> # i
  BY <1>5
<1>8. ASSUME NEW f \in File, <<Quality, f>> # i
      PROVE  /\ Degraded(f)' = Degraded(f) /\ (f \in late => f \in late')
             /\ runs'[<<Quality, f>>] = runs[<<Quality, f>>]
             /\ results'[<<Lizard, f>>] = results[<<Lizard, f>>]
  BY <1>2, <1>6, <1>7, <1>8, PairIds DEF Degraded
<1>9. ASSUME NEW f \in File, <<Quality, f>> = i, Degraded(f)'
      PROVE  f \in late'
  <2>1. /\ ~runs[i].full /\ Completed(results[<<Lizard, f>>])
        /\ results[<<Lizard, f>>].sha = runs[i].sha
    BY <1>6, <1>7, <1>9, PairIds DEF Degraded, Row
  <2>2. f \in late
    BY <1>1, <1>9, <2>1 DEF QueueInv, ReadsLate
  <2> QED
    BY <1>2, <2>1, <2>2
<1>10. Upgrades'
  BY <1>3, <1>8, <1>9 DEF QueueInv, Upgrades
<1>11. ReadsLate'
  BY <1>6, <1>8 DEF QueueInv, ReadsLate
<1>12. SettledLate'
  BY <1>8, <1>9 DEF QueueInv, SettledLate
<1> QED
  BY <1>4, <1>10, <1>11, <1>12 DEF QueueInv

(* lizard stores its result, and quality is queued, running or late.      *)
LEMMA LizardCompletes ==
  ASSUME QueueInv, NEW i \in Id, Completes(i), i[1] = Lizard
  PROVE  QueueInv'
<1> DEFINE f == i[2]
           q == <<Quality, f>>
           t == TaskOf(Quality, f, runs[i].sha)
           ts == <<t>>
           w == waiting \o Fresh(ts, SeenAfter(i))
<1>1. Slots /\ runs[i].phase = "read" /\ runs[i].phase # "idle" /\ runs[i].sha \in Sha
  BY DEF QueueInv, Completes, Slots, RunsHaveSha
<1>2. i[2] \in File /\ i = <<Lizard, f>> /\ q \in Id /\ q # i /\ t \in Task /\ t.id = q
  BY <1>1, AnalyzerAssumption DEF Id, Task, TaskOf
<1>3. ts \in Seq(Task) /\ DistinctIds(ts) /\ Len(ts) = 1 /\ ts[1] = t
  BY <1>2 DEF DistinctIds
<1>4. /\ results' = [results EXCEPT ![i] = Row(i, "complete")]
      /\ seen' = SeenAfter(i) /\ Drain(w, Settled(i))
      /\ late' = IF q \in Inflight(runs) THEN late \cup {f} ELSE late
      /\ UNCHANGED <<files, concurrency>>
  BY DEF Completes
<1> HIDE DEF ts
<1>5. /\ w \in Seq(Task) /\ DistinctIds(w)
      /\ Ids(w) \cap Inflight(runs) = {} /\ Queued \subseteq Ids(w)
      /\ New(t, SeenAfter(i)) => q \in Ids(w)
  <2>1. /\ w \in Seq(Task) /\ DistinctIds(w)
        /\ Ids(w) \cap Inflight(runs) = {} /\ Queued \subseteq Ids(w)
        /\ \A k \in 1..Len(ts) : New(ts[k], SeenAfter(i)) => ts[k].id \in Ids(w)
    BY <1>1, <1>3, Enqueues
  <2> HIDE DEF w, t
  <2>2. 1 \in 1..Len(ts)
    BY <1>3
  <2> QED
    BY <1>2, <1>3, <2>1, <2>2
<1> HIDE DEF w
<1>6. SeenAfter(i) \in [Id -> Sha \cup {None}] /\ SeenAfter(i)[q] = None
  BY <1>1, <1>2 DEF SeenAfter, Slots, TypeOK
<1>7. q \in Ids(w) \cup Inflight(runs)
  <2>1. CASE q \in Queued \cup Inflight(runs)
    BY <1>5, <2>1
  <2>2. CASE q \notin Queued \cup Inflight(runs)
    <3>1. New(t, SeenAfter(i))
      BY <1>1, <1>2, <1>6, <2>2, AnalyzerAssumption DEF New, TaskOf
    <3> QED
      BY <1>5, <3>1
  <2> QED
    BY <2>1, <2>2
<1>8. /\ Settled(i) \in [Id -> Run] /\ Inflight(Settled(i)) = Inflight(runs)
      /\ Settled(i)[i].phase = "settled"
      /\ \A j \in Id : j # i => Settled(i)[j] = runs[j]
      /\ \A j \in Id : Settled(i)[j].phase # "idle" => Settled(i)[j].sha \in Sha
  BY <1>1, SettledRuns
<1>9. /\ waiting' \in Seq(Task) /\ runs' \in [Id -> Run]
      /\ RunsHaveSha' /\ OutstandingOnce' /\ WorkConserving'
      /\ Outstanding' = Ids(w) \cup Inflight(runs)
      /\ \A j \in Id : runs'[j] = Settled(i)[j] \/ runs'[j].phase = "started"
  BY <1>1, <1>4, <1>5, <1>8, DrainsSound
<1>10. late' \subseteq File /\ late \subseteq late'
  BY <1>1, <1>2, <1>4 DEF Slots, TypeOK
<1>11. Slots'
  BY <1>1, <1>4, <1>6, <1>9, <1>10, RowsTyped DEF Slots, TypeOK
<1>12. results \in [Id -> Result \cup {None}]
  BY <1>1 DEF Slots, TypeOK
<1>13. \A g \in File : g # f => /\ results'[<<Lizard, g>>] = results[<<Lizard, g>>]
                                /\ <<Lizard, g>> # i
  BY <1>2, <1>4, <1>12, PairIds
<1>14. \A g \in File : /\ results'[<<Quality, g>>] = results[<<Quality, g>>]
                       /\ \/ runs'[<<Quality, g>>] = runs[<<Quality, g>>]
                          \/ runs'[<<Quality, g>>].phase = "started"
  <2> TAKE g \in File
  <2>0. <<Quality, g>>[1] = Quality /\ Quality # Lizard
    BY AnalyzerAssumption
  <2>1. <<Quality, g>> \in Id /\ <<Quality, g>> # i
    BY <2>0, PairIds
  <2>2. results'[<<Quality, g>>] = results[<<Quality, g>>]
    BY <1>4, <1>12, <2>1
  <2>3. Settled(i)[<<Quality, g>>] = runs[<<Quality, g>>]
    BY <1>8, <2>1
  <2> QED
    BY <1>9, <2>1, <2>2, <2>3
<1>15. Upgrades'
  <2> SUFFICES ASSUME NEW g \in File, Degraded(g)'
               PROVE  <<Quality, g>> \in Outstanding' \/ g \in late'
    BY DEF Upgrades
  <2>1. CASE g = f
    BY <1>7, <1>9, <2>1
  <2>2. CASE g # f
    <3>1. Degraded(g)
      BY <1>13, <1>14, <2>2 DEF Degraded
    <3> QED
      BY <1>5, <1>9, <1>10, <3>1 DEF QueueInv, Upgrades, Outstanding
  <2> QED
    BY <2>1, <2>2
<1>16. \A g \in File : g = f /\ runs'[<<Quality, g>>].phase \in {"read", "settled"} => g \in late'
  <2>1. runs'[q].phase \in {"read", "settled"} => q \in Inflight(runs)
    BY <1>2, <1>14 DEF Inflight
  <2> QED
    BY <1>4, <2>1
<1>17. ReadsLate'
  <2> SUFFICES ASSUME NEW g \in File, runs'[<<Quality, g>>].phase = "read",
                      ~runs'[<<Quality, g>>].full,
                      Completed(results'[<<Lizard, g>>]),
                      results'[<<Lizard, g>>].sha = runs'[<<Quality, g>>].sha
               PROVE  g \in late'
    BY DEF ReadsLate
  <2> QED
    BY <1>10, <1>13, <1>14, <1>16 DEF QueueInv, ReadsLate
<1>18. SettledLate'
  <2> SUFFICES ASSUME NEW g \in File, runs'[<<Quality, g>>].phase = "settled", Degraded(g)'
               PROVE  g \in late'
    BY DEF SettledLate
  <2>1. g # f => Degraded(g)
    BY <1>13, <1>14 DEF Degraded
  <2> QED
    BY <1>10, <1>14, <1>16, <2>1 DEF QueueInv, SettledLate
<1> QED
  BY <1>11, <1>15, <1>17, <1>18 DEF QueueInv

(* A slot is freed and the next task starts.                              *)
LEMMA FinishesStep ==
  ASSUME QueueInv, NEW i \in Id, Finishes(i)
  PROVE  QueueInv'
<1> DEFINE rs == [runs EXCEPT ![i] = NoRun]
<1>1. Slots /\ runs[i].phase = "settled" /\ i \in Inflight(runs) /\ runs \in [Id -> Run]
  BY DEF QueueInv, Finishes, Slots, TypeOK, Inflight
<1>2. Drain(waiting, rs) /\ UNCHANGED <<files, results, seen, late, concurrency>>
  BY DEF Finishes, FreesSlot
<1>3. /\ rs \in [Id -> Run] /\ rs[i].phase = "idle"
      /\ \A j \in Id : j # i => rs[j] = runs[j]
  BY <1>1 DEF NoRun, Run
<1> HIDE DEF rs
<1>4. Inflight(rs) = Inflight(runs) \ {i}
  BY <1>3 DEF Inflight
<1>5. /\ waiting \in Seq(Task) /\ DistinctIds(waiting) /\ Queued = Ids(waiting)
      /\ Ids(waiting) \cap Inflight(runs) = {}
  BY <1>1, QueuedIds DEF Slots, TypeOK, OutstandingOnce
<1>6. \A j \in Id : rs[j].phase # "idle" => rs[j].sha \in Sha
  BY <1>1, <1>3 DEF Slots, RunsHaveSha
<1>7. /\ waiting' \in Seq(Task) /\ runs' \in [Id -> Run]
      /\ RunsHaveSha' /\ OutstandingOnce' /\ WorkConserving'
      /\ Outstanding' = Ids(waiting) \cup Inflight(rs)
      /\ \A j \in Id : runs'[j] = rs[j] \/ runs'[j].phase = "started"
  BY <1>1, <1>2, <1>3, <1>4, <1>5, <1>6, DrainsSound
<1>8. Slots'
  BY <1>1, <1>2, <1>7 DEF Slots, TypeOK
<1>9. \A f \in File : Degraded(f)' = Degraded(f)
  BY <1>2 DEF Degraded
<1>10. Upgrades'
  <2> SUFFICES ASSUME NEW f \in File, Degraded(f)
               PROVE  <<Quality, f>> \in Outstanding' \/ f \in late
    BY <1>2, <1>9 DEF Upgrades
  <2>1. CASE <<Quality, f>> = i
    BY <1>1, <2>1 DEF QueueInv, SettledLate
  <2>2. CASE <<Quality, f>> # i
    BY <1>4, <1>5, <1>7, <2>2 DEF QueueInv, Upgrades, Outstanding
  <2> QED
    BY <2>1, <2>2
<1>11. \A j \in Id : runs'[j].phase \in {"read", "settled"} => runs'[j] = runs[j]
  BY <1>3, <1>7
<1>12. ReadsLate' /\ SettledLate'
  BY <1>2, <1>9, <1>11, PairIds DEF QueueInv, ReadsLate, SettledLate
<1> QED
  BY <1>8, <1>10, <1>12 DEF QueueInv

(* The queue is lost; the passes it still owed are late.                  *)
LEMMA RestartStep ==
  ASSUME QueueInv, Restart
  PROVE  QueueInv'
<1>1. Slots
  BY DEF QueueInv
<1>2. /\ waiting' = <<>> /\ runs' = [j \in Id |-> NoRun] /\ seen' = [j \in Id |-> None]
      /\ late' = late \cup {f \in File : <<Quality, f>> \in Outstanding}
      /\ concurrency' \in Concurrency /\ UNCHANGED <<files, results>>
  BY DEF Restart, Outstanding
<1>3. runs' \in [Id -> Run] /\ \A j \in Id : runs'[j].phase = "idle"
  <2>1. NoRun \in Run /\ NoRun.phase = "idle"
    BY DEF NoRun, Run
  <2> QED
    BY <1>2, <2>1
<1>4. Inflight(runs)' = {} /\ Queued' = {} /\ concurrency' \in Nat
  <2>1. Inflight(runs)' = {}
    BY <1>3 DEF Inflight
  <2>2. Queued' = {}
    BY <1>2 DEF Queued
  <2> QED
    BY <1>2, <2>1, <2>2, AnalyzerAssumption
<1>5. OutstandingOnce' /\ WorkConserving' /\ RunsHaveSha'
  <2>1. OutstandingOnce'
    BY <1>2, <1>4 DEF OutstandingOnce
  <2>2. WorkConserving'
    <3>1. Cardinality(Inflight(runs)') = 0
      BY <1>4, FS_EmptySet
    <3> QED
      BY <1>2, <1>4, <3>1 DEF WorkConserving
  <2>3. RunsHaveSha'
    BY <1>3 DEF RunsHaveSha
  <2> QED
    BY <2>1, <2>2, <2>3
<1>6. Slots'
  BY <1>1, <1>2, <1>3, <1>5 DEF Slots, TypeOK
<1>7. \A f \in File : Degraded(f)' = Degraded(f)
  BY <1>2 DEF Degraded
<1>8. Upgrades'
  BY <1>2, <1>7 DEF QueueInv, Upgrades
<1>9. ReadsLate' /\ SettledLate'
  BY <1>3, PairIds DEF ReadsLate, SettledLate
<1> QED
  BY <1>6, <1>8, <1>9 DEF QueueInv

(* Every step preserves the invariant.                                    *)
LEMMA StepQueue == QueueInv /\ [Next]_vars => QueueInv'
<1> SUFFICES ASSUME QueueInv, [Next]_vars PROVE QueueInv'
  OBVIOUS
<1>1. CASE Uses
  BY <1>1, FileIndexedStep, FileDeletedStep, BackfillStep DEF Uses
<1>2. CASE Restart
  BY <1>2, RestartStep
<1>3. CASE \E i \in Id : Works(i)
  BY <1>3, ReadsStep, LizardCompletes, OtherCompletes, FailsStep, SinkThrowsStep, FinishesStep
     DEF Works, Settles
<1>4. CASE UNCHANGED vars
  <2>1. Slots'
    BY <1>4 DEF vars, QueueInv, Slots, TypeOK, RunsHaveSha, OutstandingOnce, WorkConserving,
       Queued, Inflight
  <2>2. Upgrades' /\ ReadsLate' /\ SettledLate'
    BY <1>4 DEF vars, QueueInv, Upgrades, Degraded, Outstanding, Queued, Inflight,
       ReadsLate, SettledLate
  <2> QED
    BY <2>1, <2>2 DEF QueueInv
<1> QED
  BY <1>1, <1>2, <1>3, <1>4 DEF Next

(* For any files, analyzers and cap: a task is outstanding once, no slot is
   free while a task waits, and a degraded quality row is replaced or counted. *)
THEOREM QueueSafe == Spec => []QueueIsSound
<1>1. Init => QueueInv
  BY InitQueue
<1>2. QueueInv /\ [Next]_vars => QueueInv'
  BY StepQueue
<1>3. QueueInv => QueueIsSound
  BY QueueInvGives
<1> QED
  BY <1>1, <1>2, <1>3, PTL DEF Spec

-----------------------------------------------------------------------------
(* From dispose on no timer is armed and every run was there when dispose  *)
(* took stock, so that waiting for those runs is waiting for all.          *)
WindingDown ==
  disposed => timers = {} /\ dirty = {} /\ running \subseteq awaited

HealthInv == HealthTypeOK /\ OneRun /\ WindingDown /\ NoScoreOnClosedStore

(* The invariant holds before any call.                                    *)
LEMMA HealthInvInit == HealthInit => HealthInv
  BY DEF HealthInit, HealthInv, HealthTypeOK, OneRun, WindingDown, NoScoreOnClosedStore, disposed

(* schedule arms a timer or marks a run dirty, never after dispose.        *)
LEMMA ScheduleStep ==
  ASSUME HealthInv, NEW p \in Project, Schedule(p)
  PROVE  HealthInv'
<1> USE DEF HealthInv, HealthTypeOK, OneRun, WindingDown, NoScoreOnClosedStore, disposed
<1>1. /\ calls' \subseteq Call
      /\ unscored' \subseteq Project
      /\ UNCHANGED <<running, store, awaited>>
  BY DEF Schedule
<1>2. CASE disposed
  BY <1>1, <1>2 DEF Schedule
<1>3. CASE ~disposed /\ p \in running
  BY <1>1, <1>3 DEF Schedule, Reschedule
<1>4. CASE ~disposed /\ p \notin running
  BY <1>1, <1>4 DEF Schedule, Reschedule, Armed
<1> QED
  BY <1>2, <1>3, <1>4

(* A timer that fires starts the project's only run.                       *)
LEMMA FireStep ==
  ASSUME HealthInv, NEW p \in Project, Fire(p)
  PROVE  HealthInv'
  BY DEF Fire, HealthInv, HealthTypeOK, OneRun, WindingDown, NoScoreOnClosedStore, disposed

(* A run that ends schedules again only when it was marked dirty.          *)
LEMMA RunEndsStep ==
  ASSUME HealthInv, NEW p \in Project, RunEnds(p)
  PROVE  HealthInv'
<1> USE DEF HealthInv, HealthTypeOK, OneRun, WindingDown, NoScoreOnClosedStore, disposed
<1>1. CASE p \in dirty
  BY <1>1 DEF RunEnds, Again, Armed
<1>2. CASE p \notin dirty
  BY <1>2 DEF RunEnds, Again
<1> QED
  BY <1>1, <1>2

(* Every step preserves the invariant.                                     *)
LEMMA HealthInvStep == HealthInv /\ [HealthNext]_healthVars => HealthInv'
<1> SUFFICES ASSUME HealthInv, [HealthNext]_healthVars PROVE HealthInv'
  OBVIOUS
<1>1. CASE \E p \in Project : Schedule(p) \/ Fire(p) \/ RunEnds(p)
  BY <1>1, ScheduleStep, FireStep, RunEndsStep
<1>2. CASE Dispose
  BY <1>2
  DEF Dispose, InFlight, HealthInv, HealthTypeOK, OneRun, WindingDown,
      NoScoreOnClosedStore, disposed
<1>3. CASE Close
  BY <1>3
  DEF Close, RunsSettled, HealthInv, HealthTypeOK, OneRun, WindingDown,
      NoScoreOnClosedStore, disposed
<1>4. CASE UNCHANGED healthVars
  BY <1>4
  DEF healthVars, HealthInv, HealthTypeOK, OneRun, WindingDown, NoScoreOnClosedStore, disposed
<1> QED
  BY <1>1, <1>2, <1>3, <1>4 DEF HealthNext

(* The invariant holds of every behaviour.                                 *)
LEMMA HealthInductive == HealthSpec => []HealthInv
  BY HealthInvInit, HealthInvStep, PTL DEF HealthSpec

(* A project is never scored twice at a time.                              *)
THEOREM OneRunAtATime == HealthSpec => []OneRun
<1>1. HealthInv => OneRun
  BY DEF HealthInv
<1> QED
  BY HealthInductive, <1>1, PTL

(* The store is closed only when no score reads it and none will.          *)
THEOREM ClosedQuietly == HealthSpec => []NoScoreOnClosedStore
<1>1. HealthInv => NoScoreOnClosedStore
  BY DEF HealthInv
<1> QED
  BY HealthInductive, <1>1, PTL

(* So scoring keeps to its order, for any projects and calls.              *)
THEOREM ScoresInOrder == HealthSpec => []ScoringIsOrderly
BY OneRunAtATime, ClosedQuietly, PTL DEF ScoringIsOrderly

-----------------------------------------------------------------------------
(* A timer is armed, and a run is marked, for a change no score has seen.  *)
ArmedForAChange == ~disposed => timers \subseteq unscored /\ dirty \subseteq unscored

DutyInv == HealthInv /\ ArmedForAChange

(* Every step keeps the timers to projects that changed.                   *)
LEMMA StepArmed == DutyInv /\ [HealthNext]_healthVars => ArmedForAChange'
<1> SUFFICES ASSUME DutyInv, [HealthNext]_healthVars PROVE ArmedForAChange'
  OBVIOUS
<1> USE DEF DutyInv, ArmedForAChange, HealthInv, OneRun, disposed
<1>1. ASSUME NEW p \in Project, Schedule(p) PROVE ArmedForAChange'
  BY <1>1 DEF Schedule, Reschedule, Armed
<1>2. ASSUME NEW p \in Project, Fire(p) PROVE ArmedForAChange'
  BY <1>2 DEF Fire
<1>3. ASSUME NEW p \in Project, RunEnds(p) PROVE ArmedForAChange'
  BY <1>3 DEF RunEnds, Again, Armed
<1>4. CASE Dispose
  BY <1>4 DEF Dispose
<1>5. CASE Close
  BY <1>5 DEF Close
<1>6. CASE UNCHANGED healthVars
  BY <1>6 DEF healthVars
<1> QED
  BY <1>1, <1>2, <1>3, <1>4, <1>5, <1>6 DEF HealthNext

(* Every step is one of the duty, or one that only moves a timer.          *)
LEMMA StepIsDuty == DutyInv /\ [HealthNext]_healthVars => [Duty!Next]_(Duty!duty)
<1> SUFFICES ASSUME DutyInv, [HealthNext]_healthVars PROVE Duty!Next \/ UNCHANGED Duty!duty
  OBVIOUS
<1> USE DEF DutyInv, ArmedForAChange, HealthInv, OneRun, WindingDown, disposed
<1>1. ASSUME NEW p \in Project, Schedule(p) PROVE Duty!Changes(p)
  BY <1>1 DEF Schedule, Duty!Changes
<1>2. ASSUME NEW p \in Project, Fire(p) PROVE Duty!Starts(p)
  <2>1. p \in unscored \ running /\ ~disposed
    BY <1>2 DEF Fire
  <2> QED
    BY <1>2, <2>1 DEF Fire, Duty!Starts
<1>3. ASSUME NEW p \in Project, RunEnds(p) PROVE Duty!Ends(p)
  BY <1>3 DEF RunEnds, Duty!Ends
<1>4. CASE Dispose
  BY <1>4 DEF Dispose, Duty!Closing, Duty!Next
<1>5. CASE Close
  <2>1. running = {}
    BY <1>5 DEF Close, RunsSettled
  <2> QED
    BY <1>5, <2>1 DEF Close, Duty!Closed, Duty!Next
<1>6. CASE UNCHANGED healthVars
  BY <1>6 DEF healthVars, Duty!duty
<1> QED
  BY <1>1, <1>2, <1>3, <1>4, <1>5, <1>6 DEF HealthNext, Duty!Next

(* The scheduler with its timers implements the duty without them.         *)
THEOREM ImplementsDuty == HealthSpec => KeepsDuty
<1>1. HealthInit => Duty!Init
  BY DEF HealthInit, Duty!Init
<1>2. HealthInit => DutyInv
  BY HealthInvInit DEF DutyInv, ArmedForAChange, HealthInit
<1>3. DutyInv /\ [HealthNext]_healthVars => DutyInv'
  BY HealthInvStep, StepArmed DEF DutyInv
<1> QED
  BY <1>1, <1>2, <1>3, StepIsDuty, PTL DEF HealthSpec, KeepsDuty, Duty!Spec

-----------------------------------------------------------------------------
(***************************************************************************)
(* The tables of the state store.                                          *)
(***************************************************************************)
TablesType ==
  /\ fileRow \in [RelPath -> FileRow \cup {None}]
  /\ persist \in [RelPath -> Text \cup {None}]

(* The files that are stamped with a content.                              *)
Stamped == {f \in RelPath : fileRow[f] # None /\ fileRow[f].sha # None}

(* chunks_fts and symbol_refs have the same rows, of chunks that are there.*)
RowsAgree == refs = fts /\ \A x \in fts : x.chunk \in chunks

(* What a file is stamped with is what its rows are made of.               *)
RowsOfStamp == \A f \in Stamped \ torn : Of(fts, f) = Pieces(f, fileRow[f].sha)

(* A persist is part of a pass, and torn until it has stamped its file.    *)
PersistsAreTorn == \A f \in RelPath : persist[f] # None => f \in torn /\ pass

(* The links are those of the stamps, where they were recorded.            *)
LinkOfStamp(l) == l[1] \in Stamped /\ l[2] \in LinksOf(fileRow[l[1]].sha)

LinksOfStamps ==
  /\ \A l \in links : l = <<l[1], l[2]>> /\ l[1] \in Indexed
  /\ \A l \in links : l[1] \in unlinked \/ LinkOfStamp(l)
  /\ \A f \in Stamped \ unlinked : \A h \in LinksOf(fileRow[f].sha) : <<f, h>> \in links

(* A pass has a project, unless a purge has met it.                        *)
PassHasProject == pass => project # None \/ raced

TablesInv ==
  /\ TablesType /\ RowsAgree /\ RowsOfStamp /\ NoOrphans /\ PersistsAreTorn
  /\ LinksOfStamps /\ PassHasProject /\ PurgedIsEmpty

(* The rows of a file are replaced, those of the others stay.              *)
LEMMA RowsReplaced ==
  ASSUME NEW rs, NEW f, NEW t
  PROVE  LET n == (rs \ Of(rs, f)) \cup Pieces(f, t) IN
         /\ Of(n, f) = Pieces(f, t)
         /\ \A g : g # f => Of(n, g) = Of(rs, g)
<1>1. \A r \in Pieces(f, t) : r.chunk[1] = f
  <2>1. \A p : <<f, p.line>>[1] = f
    OBVIOUS
  <2> QED
    BY <2>1 DEF Pieces, ChunkId
<1> QED
  BY <1>1 DEF Of

LEMMA TablesInitInv ==
  ASSUME TablesAssumption, TablesInit
  PROVE  TablesInv
<1>1. TablesType /\ RowsAgree
  BY DEF TablesInit, TablesType, RowsAgree
<1>2. Stamped = {} /\ Indexed = {} /\ fts = {} /\ chunks = {} /\ links = {} /\ ~pass
  BY DEF TablesInit, Stamped, Indexed
<1>3. PersistsAreTorn
  BY DEF TablesInit, PersistsAreTorn
<1>4. NoOrphans
  BY <1>1, <1>2 DEF NoOrphans, RowsAgree, Of
<1> QED
  BY <1>1, <1>2, <1>3, <1>4 DEF TablesInv, RowsOfStamp, LinksOfStamps, PassHasProject, PurgedIsEmpty

LEMMA ReplaceChunksKeeps ==
  ASSUME TablesAssumption, TablesInv, NEW f \in RelPath, NEW t \in Text, ReplaceChunks(f, t)
  PROVE  TablesInv'
<1> USE DEF TablesInv
<1>1. /\ pass /\ persist[f] = None /\ torn' = torn \cup {f}
      /\ fts' = (fts \ Of(fts, f)) \cup Pieces(f, t)
      /\ refs' = (refs \ Of(refs, f)) \cup Pieces(f, t)
      /\ chunks' = {c \in chunks : c[1] # f} \cup {ChunkId(f, p) : p \in t}
      /\ persist' = [persist EXCEPT ![f] = t]
      /\ UNCHANGED <<project, fileRow, links, pass, raced, unlinked>>
  BY DEF ReplaceChunks, RefsReplaced
<1>2. TablesType'
  BY <1>1 DEF TablesType
<1>3. RowsAgree'
  <2>1. refs' = fts'
    BY <1>1 DEF RowsAgree
  <2>2. ASSUME NEW x \in fts \ Of(fts, f) PROVE x.chunk \in chunks'
    BY <1>1 DEF RowsAgree, Of
  <2>3. ASSUME NEW x \in Pieces(f, t) PROVE x.chunk \in chunks'
    BY <1>1 DEF Pieces
  <2> QED
    BY <1>1, <2>1, <2>2, <2>3 DEF RowsAgree
<1>4. \A g \in RelPath : g # f => Of(fts', g) = Of(fts, g)
  BY <1>1, RowsReplaced
<1>5. RowsOfStamp' /\ LinksOfStamps' /\ PassHasProject' /\ PurgedIsEmpty'
  <2>1. Stamped' = Stamped /\ Stamped \subseteq RelPath
    BY <1>1 DEF Stamped
  <2>2. RowsOfStamp'
    BY <1>1, <1>4, <2>1 DEF RowsOfStamp
  <2>3. LinksOfStamps'
    BY <1>1, <2>1 DEF LinksOfStamps, LinkOfStamp, Indexed
  <2> QED
    BY <1>1, <2>2, <2>3 DEF PassHasProject, PurgedIsEmpty, Indexed
<1>6. NoOrphans'
  <2> SUFFICES ASSUME NEW g \in RelPath, g # f, g \notin Indexed, g \notin torn
               PROVE  /\ Of(fts', g) = {} /\ Of(refs', g) = {}
                      /\ \A c \in chunks' : c[1] # g
    BY <1>1 DEF NoOrphans, Indexed
  <2>1. /\ Of(fts, g) = {} /\ Of(refs, g) = {}
        /\ \A c \in chunks : c[1] # g
    BY DEF NoOrphans
  <2>2. \A p : ChunkId(f, p)[1] = f
    BY DEF ChunkId
  <2>3. \A c \in chunks' : c[1] # g
    BY <1>1, <2>1, <2>2
  <2> QED
    BY <1>3, <1>4, <2>1, <2>3 DEF RowsAgree
<1>7. PersistsAreTorn'
  BY <1>1, <1>2 DEF PersistsAreTorn, TablesType
<1> QED
  BY <1>2, <1>3, <1>5, <1>6, <1>7

LEMMA UpsertFileKeeps ==
  ASSUME TablesAssumption, TablesInv, NEW f \in RelPath, UpsertFile(f) \/ LinksCutOff(f)
  PROVE  TablesInv'
<1> USE DEF TablesInv
<1> DEFINE t == persist[f]
<1>1. /\ t # None /\ t \in Text /\ pass /\ f \in torn
      /\ fileRow' = [fileRow EXCEPT ![f] = [sha |-> t, error |-> FALSE]]
      /\ \/ links' = {l \in links : l[1] # f} \cup ({f} \X LinksOf(t)) /\ unlinked' = unlinked \ {f}
         \/ links' = links /\ unlinked' = unlinked \cup {f}
      /\ persist' = [persist EXCEPT ![f] = None]
      /\ torn' = IF Of(fts, f) = Pieces(f, t) THEN torn \ {f} ELSE torn
      /\ UNCHANGED <<project, chunks, fts, refs, pass, raced>>
  BY DEF UpsertFile, LinksCutOff, Stamps, ReplaceFileLinks, TablesType, PersistsAreTorn, tables
<1> HIDE DEF t
<1>2. [sha |-> t, error |-> FALSE] \in FileRow
  BY <1>1 DEF FileRow
<1>3. TablesType'
  BY <1>1, <1>2 DEF TablesType
<1>4. /\ fileRow'[f] = [sha |-> t, error |-> FALSE] /\ fileRow'[f] # None /\ fileRow'[f].sha = t
      /\ \A g \in RelPath : g # f => fileRow'[g] = fileRow[g]
  BY <1>1, <1>2 DEF TablesType, TablesAssumption
<1>5. /\ Stamped' = Stamped \cup {f} /\ Indexed' = Indexed \cup {f}
  BY <1>1, <1>4 DEF Stamped, Indexed
<1>6. RowsOfStamp'
  BY <1>1, <1>4, <1>5 DEF RowsOfStamp, Stamped
<1>7. NoOrphans' /\ RowsAgree'
  <2>1. \A g \in RelPath : g \notin Indexed' \cup torn' => g \notin Indexed \cup torn
    BY <1>1, <1>5
  <2> QED
    BY <1>1, <2>1 DEF NoOrphans, RowsAgree
<1>8. PersistsAreTorn'
  BY <1>1, <1>3 DEF PersistsAreTorn, TablesType
<1>9. ASSUME links' = links, unlinked' = unlinked \cup {f} PROVE LinksOfStamps'
  <2>1. \A g \in RelPath \ unlinked' : (g \in Stamped' => g \in Stamped) /\ fileRow'[g] = fileRow[g]
    BY <1>4, <1>5, <1>9
  <2>2. ASSUME NEW l \in links' PROVE l = <<l[1], l[2]>> /\ l[1] \in Indexed'
    BY <1>5, <1>9 DEF LinksOfStamps
  <2>3. ASSUME NEW l \in links', l[1] \notin unlinked' PROVE LinkOfStamp(l)'
    <3>1. LinkOfStamp(l) /\ l[1] # f
      BY <1>9, <2>3 DEF LinksOfStamps
    <3> QED
      BY <1>4, <1>5, <3>1 DEF LinkOfStamp, Stamped
  <2>4. ASSUME NEW g \in Stamped' \ unlinked', NEW h \in LinksOf(fileRow'[g].sha) PROVE <<g, h>> \in links'
    <3>1. g \in Stamped \ unlinked /\ fileRow'[g] = fileRow[g]
      BY <1>9, <2>1, <2>4 DEF Stamped
    <3> QED
      BY <1>9, <2>4, <3>1 DEF LinksOfStamps
  <2> QED
    BY <2>2, <2>3, <2>4 DEF LinksOfStamps, LinkOfStamp
<1>10. ASSUME links' = {l \in links : l[1] # f} \cup ({f} \X LinksOf(t)), unlinked' = unlinked \ {f}
       PROVE  LinksOfStamps'
  <2>1. ASSUME NEW l \in links'
        PROVE  l = <<l[1], l[2]>> /\ l[1] \in Indexed' /\ (l[1] \in unlinked' \/ LinkOfStamp(l)')
    <3>1. CASE l \in links /\ l[1] # f
      <4>1. l = <<l[1], l[2]>> /\ l[1] \in Indexed /\ (l[1] \in unlinked \/ LinkOfStamp(l))
        BY <3>1 DEF LinksOfStamps
      <4> QED
        BY <1>4, <1>5, <1>10, <3>1, <4>1 DEF LinkOfStamp, Stamped
    <3>2. CASE l \in {f} \X LinksOf(t)
      BY <1>4, <1>5, <3>2 DEF LinkOfStamp
    <3> QED
      BY <1>10, <2>1, <3>1, <3>2
  <2>2. ASSUME NEW g \in Stamped' \ unlinked', NEW h \in LinksOf(fileRow'[g].sha)
        PROVE  <<g, h>> \in links'
    <3>1. CASE g = f
      BY <1>10, <1>4, <2>2, <3>1
    <3>2. CASE g # f
      <4>1. g \in Stamped \ unlinked /\ fileRow'[g] = fileRow[g]
        BY <1>4, <1>5, <1>10, <2>2, <3>2 DEF Stamped
      <4>2. <<g, h>> \in links /\ <<g, h>>[1] # f
        BY <2>2, <3>2, <4>1 DEF LinksOfStamps
      <4> QED
        BY <1>10, <4>2
    <3> QED
      BY <3>1, <3>2
  <2> QED
    BY <2>1, <2>2 DEF LinksOfStamps, LinkOfStamp
<1>11. PassHasProject' /\ PurgedIsEmpty'
  BY <1>1 DEF PassHasProject, PurgedIsEmpty
<1> QED
  BY <1>1, <1>3, <1>6, <1>7, <1>8, <1>9, <1>10, <1>11

LEMMA RecordReadErrorKeeps ==
  ASSUME TablesAssumption, TablesInv, NEW f \in RelPath, RecordReadError(f)
  PROVE  TablesInv'
<1> USE DEF TablesInv
<1> DEFINE stamp == [sha |-> IF fileRow[f] = None THEN None ELSE fileRow[f].sha, error |-> TRUE]
<1>1. /\ pass /\ fileRow' = [fileRow EXCEPT ![f] = stamp]
      /\ UNCHANGED <<project, chunks, fts, refs, links, persist, pass, torn, raced, unlinked>>
  BY DEF RecordReadError, TablesType, tables, tableHistory
<1>2. stamp \in FileRow
  BY DEF TablesType, FileRow
<1>3. /\ fileRow'[f] = stamp /\ stamp # None
      /\ \A g \in RelPath : g # f => fileRow'[g] = fileRow[g]
  BY <1>1, <1>2 DEF TablesType, TablesAssumption
<1>4. TablesType'
  BY <1>1, <1>2 DEF TablesType
<1>5. /\ Stamped' = Stamped /\ Indexed' = Indexed \cup {f}
      /\ \A g \in Stamped : fileRow'[g].sha = fileRow[g].sha
  BY <1>1, <1>3 DEF Stamped, Indexed
<1> HIDE DEF stamp
<1>6. RowsOfStamp'
  BY <1>1, <1>5 DEF RowsOfStamp
<1>7. NoOrphans'
  BY <1>1, <1>5 DEF NoOrphans
<1>8. LinksOfStamps'
  BY <1>1, <1>5 DEF LinksOfStamps, LinkOfStamp
<1> QED
  BY <1>1, <1>4, <1>6, <1>7, <1>8
     DEF RowsAgree, PersistsAreTorn, PassHasProject, PurgedIsEmpty

LEMMA DeleteFileKeeps ==
  ASSUME TablesAssumption, TablesInv, NEW f \in RelPath, DeleteFile(f)
  PROVE  TablesInv'
<1> USE DEF TablesInv
<1>1. /\ fts' = fts \ Of(fts, f) /\ refs' = refs \ Of(refs, f)
      /\ chunks' = {c \in chunks : c[1] # f}
      /\ fileRow' = [fileRow EXCEPT ![f] = None]
      /\ links' = {l \in links : l[1] # f}
      /\ torn' = IF persist[f] = None THEN torn \ {f} ELSE torn
      /\ unlinked' = unlinked \ {f}
      /\ UNCHANGED <<project, persist, pass, raced>>
  BY DEF DeleteFile, FtsCleared
<1>2. TablesType'
  BY <1>1 DEF TablesType
<1>3. fileRow'[f] = None /\ \A g \in RelPath : g # f => fileRow'[g] = fileRow[g]
  BY <1>1 DEF TablesType
<1>4. Stamped' = Stamped \ {f} /\ Indexed' = Indexed \ {f}
  BY <1>3 DEF Stamped, Indexed
<1>5. Of(fts', f) = {} /\ \A g \in RelPath : g # f => Of(fts', g) = Of(fts, g)
  BY <1>1 DEF Of
<1>6. RowsAgree'
  <2>1. \A x \in fts' : x \in fts /\ x.chunk[1] # f
    BY <1>1 DEF Of
  <2> QED
    BY <1>1, <2>1 DEF RowsAgree
<1>7. RowsOfStamp'
  BY <1>1, <1>3, <1>4, <1>5 DEF RowsOfStamp, Stamped
<1>8. NoOrphans'
  <2> SUFFICES ASSUME NEW g \in RelPath, g \notin Indexed', g \notin torn'
               PROVE  Of(fts', g) = {} /\ \A c \in chunks' : c[1] # g
    BY <1>6 DEF NoOrphans, RowsAgree
  <2>1. CASE g = f
    BY <1>1, <1>5, <2>1
  <2>2. CASE g # f
    BY <1>1, <1>4, <1>5, <2>2 DEF NoOrphans
  <2> QED
    BY <2>1, <2>2
<1>9. PersistsAreTorn'
  BY <1>1 DEF PersistsAreTorn
<1>10. LinksOfStamps'
  <2>1. ASSUME NEW l \in links'
        PROVE  l = <<l[1], l[2]>> /\ l[1] \in Indexed' /\ (l[1] \in unlinked' \/ LinkOfStamp(l)')
    <3>1. /\ l = <<l[1], l[2]>> /\ l[1] \in Indexed /\ l[1] # f
          /\ l[1] \in unlinked \/ LinkOfStamp(l)
      BY <1>1, <2>1 DEF LinksOfStamps
    <3> QED
      BY <1>1, <1>3, <1>4, <3>1 DEF LinkOfStamp, Stamped
  <2>2. ASSUME NEW g \in Stamped' \ unlinked', NEW h \in LinksOf(fileRow'[g].sha)
        PROVE  <<g, h>> \in links'
    <3>1. g \in Stamped \ unlinked /\ g # f /\ fileRow'[g] = fileRow[g]
      BY <1>1, <1>3, <1>4, <2>2 DEF Stamped
    <3>2. <<g, h>> \in links /\ <<g, h>>[1] # f
      BY <2>2, <3>1 DEF LinksOfStamps
    <3> QED
      BY <1>1, <3>2
  <2> QED
    BY <2>1, <2>2 DEF LinksOfStamps, LinkOfStamp
<1>11. PassHasProject' /\ PurgedIsEmpty'
  BY <1>1, <1>4 DEF PassHasProject, PurgedIsEmpty
<1> QED
  BY <1>2, <1>6, <1>7, <1>8, <1>9, <1>10, <1>11

(* A purge and a rebuild.                                                  *)
LEMMA ClearContentsKeeps ==
  ASSUME TablesAssumption, TablesInv, ClearContents, UNCHANGED persist, pass => pass'
  PROVE  /\ TablesType' /\ RowsAgree' /\ RowsOfStamp' /\ NoOrphans' /\ PersistsAreTorn'
         /\ LinksOfStamps' /\ PurgedIsEmpty'
<1> USE DEF TablesInv
<1>1. /\ fts' = {} /\ refs' = {}
      /\ chunks' = {c \in chunks : c[1] \notin Indexed}
      /\ links' = {l \in links : l[1] \notin Indexed}
      /\ fileRow' = [f \in RelPath |-> None]
      /\ torn' = {c[1] : c \in chunks'} \cup {f \in RelPath : persist[f] # None}
  BY DEF ClearContents
<1>2. Stamped' = {} /\ Indexed' = {}
  BY <1>1 DEF Stamped, Indexed
<1>3. TablesType' /\ RowsAgree'
  BY <1>1 DEF TablesType, RowsAgree
<1>4. RowsOfStamp' /\ PurgedIsEmpty'
  BY <1>2 DEF RowsOfStamp, PurgedIsEmpty
<1>5. NoOrphans'
  BY <1>1 DEF NoOrphans, Of
<1>6. PersistsAreTorn'
  BY <1>1 DEF PersistsAreTorn
<1>7. LinksOfStamps'
  <2>1. links' = {}
    BY <1>1 DEF LinksOfStamps
  <2> QED
    BY <1>2, <2>1 DEF LinksOfStamps
<1> QED
  BY <1>3, <1>4, <1>5, <1>6, <1>7

LEMMA TablesStep ==
  ASSUME TablesAssumption, TablesInv, [TablesNext]_tableVars
  PROVE  TablesInv'
<1> DEFINE Same == UNCHANGED <<fileRow, tables, links, tableHistory>>
<1>0. Same => RowsAgree' /\ RowsOfStamp' /\ NoOrphans' /\ LinksOfStamps' /\ Indexed' = Indexed
      /\ UNCHANGED <<torn, raced, fileRow>>
  BY DEF tables, tableHistory, TablesInv, RowsAgree, RowsOfStamp, NoOrphans, LinksOfStamps, LinkOfStamp,
         Stamped, Indexed, Of
<1> HIDE DEF Same
<1>1. CASE PassBegins
  <2>1. Same /\ UNCHANGED persist /\ pass' /\ project' = "active"
    BY <1>1 DEF PassBegins, Same, UpsertProjectWithActive
  <2> QED
    BY <1>0, <2>1 DEF TablesAssumption, TablesInv, TablesType, PersistsAreTorn, PassHasProject,
                      PurgedIsEmpty
<1>2. CASE PassEnds
  <2>1. Same /\ UNCHANGED <<persist, project>> /\ ~pass' /\ \A f \in RelPath : persist[f] = None
    BY <1>2 DEF PassEnds, Same
  <2> QED
    BY <1>0, <2>1 DEF TablesInv, TablesType, PersistsAreTorn, PassHasProject, PurgedIsEmpty
<1>3. CASE SetProjectInactive
  <2>1. Same /\ UNCHANGED <<persist, pass>> /\ project' = "inactive"
    BY <1>3 DEF SetProjectInactive, Same
  <2> QED
    BY <1>0, <2>1 DEF TablesAssumption, TablesInv, TablesType, PersistsAreTorn, PassHasProject,
                      PurgedIsEmpty
<1>4. CASE Crash
  <2>1. Same /\ UNCHANGED project /\ ~pass' /\ persist' = [f \in RelPath |-> None]
    BY <1>4 DEF Crash, Same
  <2> QED
    BY <1>0, <2>1 DEF TablesInv, TablesType, PersistsAreTorn, PassHasProject, PurgedIsEmpty
<1>5. CASE DeleteProject
  <2>1. ClearContents /\ UNCHANGED <<persist, pass>> /\ project' = None /\ raced' = (raced \/ pass)
    BY <1>5 DEF DeleteProject, PurgeTables
  <2>2. PassHasProject'
    BY <2>1 DEF PassHasProject
  <2> QED
    BY <2>1, <2>2, ClearContentsKeeps DEF TablesInv
<1>6. CASE PurgeProjectContents
  <2>1. ClearContents /\ UNCHANGED <<persist, raced>> /\ pass' /\ project' = "active"
    BY <1>6 DEF PurgeProjectContents, PurgeTables, UpsertProjectWithActive
  <2>2. PassHasProject'
    BY <2>1 DEF PassHasProject, TablesAssumption
  <2> QED
    BY <2>1, <2>2, ClearContentsKeeps DEF TablesInv
<1>7. ASSUME NEW f \in RelPath, PersistRejects(f) PROVE TablesInv'
  <2>1. Same /\ UNCHANGED <<project, pass>> /\ persist' = [persist EXCEPT ![f] = None]
    BY <1>7 DEF PersistRejects, Same
  <2> QED
    BY <1>0, <2>1 DEF TablesInv, TablesType, PersistsAreTorn, PassHasProject, PurgedIsEmpty
<1>8. CASE UNCHANGED tableVars
  <2>1. Same /\ UNCHANGED <<project, pass, persist>>
    BY <1>8 DEF tableVars, Same
  <2> QED
    BY <1>0, <2>1 DEF TablesInv, TablesType, PersistsAreTorn, PassHasProject, PurgedIsEmpty
<1> QED
  BY <1>1, <1>2, <1>3, <1>4, <1>5, <1>6, <1>7, <1>8, ReplaceChunksKeeps, UpsertFileKeeps,
     RecordReadErrorKeeps, DeleteFileKeeps DEF TablesNext

(* The joins lose nothing.                                                 *)
LEMMA JoinsLoseNothing ==
  ASSUME TablesInv
  PROVE  NothingLostInJoins
<1> SUFFICES ASSUME NEW f \in Indexed \ torn, fileRow[f].sha # None
             PROVE  /\ Of(SearchLexical, f) = Pieces(f, fileRow[f].sha)
                    /\ {r \in refs : \E h \in FindSymbol(r.piece.symbol) :
                                       h[1] = r /\ r.chunk[1] = f} = Pieces(f, fileRow[f].sha)
                    /\ project # None /\ ~fileRow[f].error =>
                         Of(FindLiteralMatches, f) = Pieces(f, fileRow[f].sha)
  BY DEF NothingLostInJoins
<1>1. /\ f \in Stamped \ torn /\ f \in RelPath /\ fileRow[f] # None
      /\ Of(fts, f) = Pieces(f, fileRow[f].sha)
      /\ refs = fts /\ \A x \in fts : x.chunk \in chunks
  BY DEF Indexed, Stamped, TablesInv, RowsOfStamp, RowsAgree
<1>2. SearchLexical = fts
  BY <1>1 DEF SearchLexical
<1>3. {r \in refs : \E h \in FindSymbol(r.piece.symbol) : h[1] = r /\ r.chunk[1] = f} = Of(fts, f)
  <2>1. ASSUME NEW r \in fts, r.chunk[1] = f
        PROVE  \E h \in FindSymbol(r.piece.symbol) : h[1] = r /\ r.chunk[1] = f
    <3>1. <<r, r>> \in FindSymbol(r.piece.symbol)
      BY <1>1, <2>1 DEF FindSymbol
    <3>2. <<r, r>>[1] = r
      OBVIOUS
    <3> QED
      BY <2>1, <3>1, <3>2
  <2> QED
    BY <1>1, <2>1 DEF Of
<1>4. ASSUME project # None, ~fileRow[f].error PROVE Of(FindLiteralMatches, f) = Of(fts, f)
  BY <1>1, <1>2, <1>4 DEF FindLiteralMatches, Of
<1> QED
  BY <1>1, <1>2, <1>3, <1>4

(* The links that were recorded are those of the stamps.                   *)
LEMMA LinksAreThoseOfStamps ==
  ASSUME TablesInv
  PROVE  LinksAreCurrent
<1>1. \A l \in links : fileRow[l[1]] # None
  BY DEF TablesInv, LinksOfStamps, Indexed
<1>2. ASSUME NEW f \in RelPath
      PROVE  Inbound(f) \ unlinked = Linking(f) \ unlinked
  <2>1. ASSUME NEW g \in Inbound(f), g \notin unlinked PROVE g \in Linking(f)
    <3>1. PICK l \in links : l[1] = g /\ l[2] = f
      BY <2>1 DEF Inbound
    <3>2. LinkOfStamp(l)
      BY <2>1, <3>1 DEF TablesInv, LinksOfStamps
    <3> QED
      BY <3>1, <3>2 DEF LinkOfStamp, Stamped, Linking, Indexed
  <2>2. ASSUME NEW g \in Linking(f), g \notin unlinked PROVE g \in Inbound(f)
    <3>1. g \in Stamped \ unlinked /\ f \in LinksOf(fileRow[g].sha)
      BY <2>2 DEF Linking, Stamped, Indexed
    <3>2. <<g, f>> \in links /\ <<g, f>>[1] = g /\ <<g, f>>[2] = f
      BY <3>1 DEF TablesInv, LinksOfStamps
    <3> QED
      BY <3>2 DEF Inbound
  <2> QED
    BY <2>1, <2>2
<1>3. ASSUME unlinked = {}, NEW f \in RelPath PROVE InboundCount(f) = Cardinality(Linking(f))
  <2>1. Inbound(f) = Linking(f)
    BY <1>2, <1>3
  <2> QED
    BY <2>1 DEF InboundCount
<1> QED
  BY <1>1, <1>2, <1>3 DEF LinksAreCurrent

(* However persists, crashes, deletes, purges and rebuilds interleave, the *)
(* joins find what was written and nothing of a file without a row, the    *)
(* links are those of the stamped contents, but of files whose persist was *)
(* cut off between the stamp and the links, and a purged project is empty. *)
THEOREM JoinsStayTrue == TablesSpec => []JoinsAgree
<1>1. TablesInit => TablesInv
  BY TablesAssumption, TablesInitInv
<1>2. TablesInv /\ [TablesNext]_tableVars => TablesInv'
  BY TablesAssumption, TablesStep
<1>3. TablesInv => JoinsAgree
  BY TablesAssumption, JoinsLoseNothing, LinksAreThoseOfStamps DEF TablesInv, JoinsAgree
<1> QED
  BY <1>1, <1>2, <1>3, PTL DEF TablesSpec

-----------------------------------------------------------------------------
(***************************************************************************)
(* The vector store.                                                       *)
(***************************************************************************)
VectorCall ==
  [op : Op, at : {"new", "waits", "queued", "runs", "done", "rejected"},
   on : Nat \cup {None}, open : {"no", "lists", "creates", "open", "failed", "raced"}]

(* A sequence of calls in the order in which they were made.               *)
Rising(ch) == \A i, j \in DOMAIN ch : i < j => ch[i] < ch[j]
Has(ch, c) == \E i \in DOMAIN ch : ch[i] = c

LEMMA AppendRises ==
  ASSUME NEW ch \in Seq(Nat), Rising(ch), NEW m \in Nat, \A i \in DOMAIN ch : ch[i] < m
  PROVE  LET a == Append(ch, m) IN
         /\ a \in Seq(Nat) /\ Rising(a)
         /\ \A i \in DOMAIN a : a[i] = m \/ Has(ch, a[i])
         /\ Has(a, m) /\ \A c : Has(ch, c) => Has(a, c)
<1> DEFINE a == Append(ch, m)
           n == Len(ch)
<1>1. /\ a \in Seq(Nat) /\ Len(a) = n + 1 /\ a[n + 1] = m
      /\ \A i \in 1..n : a[i] = ch[i]
  BY AppendProperties
<1>2. n \in Nat /\ DOMAIN ch = 1..n /\ DOMAIN a = 1..(n + 1) /\ \A i \in 1..n : ch[i] \in Nat
  BY <1>1
<1> HIDE DEF a, n
<1>3. ASSUME NEW i \in 1..(n + 1), NEW j \in 1..(n + 1), i < j
      PROVE  a[i] < a[j]
  <2>1. i \in 1..n /\ a[i] = ch[i]
    BY <1>1, <1>2, <1>3
  <2>2. CASE j = n + 1
    BY <1>1, <1>2, <2>1, <2>2
  <2>3. CASE j # n + 1
    <3>1. j \in 1..n /\ a[j] = ch[j]
      BY <1>1, <1>2, <1>3, <2>3
    <3> QED
      BY <1>2, <1>3, <2>1, <3>1 DEF Rising
  <2> QED
    BY <2>2, <2>3
<1>4. Rising(a)
  BY <1>2, <1>3 DEF Rising
<1>5. \A i \in DOMAIN a : a[i] = m \/ Has(ch, a[i])
  <2> TAKE i \in DOMAIN a
  <2>1. i = n + 1 \/ (i \in DOMAIN ch /\ a[i] = ch[i])
    BY <1>1, <1>2
  <2> QED
    BY <1>1, <2>1 DEF Has
<1>6. Has(a, m)
  BY <1>1, <1>2 DEF Has
<1>7. ASSUME NEW c, Has(ch, c) PROVE Has(a, c)
  <2>1. PICK i \in 1..n : ch[i] = c
    BY <1>2, <1>7 DEF Has
  <2>2. i \in DOMAIN a /\ a[i] = c
    BY <1>1, <1>2, <2>1
  <2> QED
    BY <2>2 DEF Has
<1> QED
  BY <1>1, <1>4, <1>5, <1>6, <1>7 DEF a

(* F is what Turns folds over the first n calls.                           *)
IsTaken(cs, s, n, F) ==
  F = [k \in 0..n |-> IF k = 0 THEN <<>>
                      ELSE IF k \in s /\ Exclusive(cs[k].op) THEN Append(F[k - 1], k) ELSE F[k - 1]]

LEMMA TakenExists ==
  ASSUME NEW cs, NEW s
  PROVE  \A n \in Nat : \E F : IsTaken(cs, s, n, F)
<1> DEFINE S == {n \in Nat : \E F : IsTaken(cs, s, n, F)}
<1>1. 0 \in S
  <2>1. IsTaken(cs, s, 0, [k \in 0..0 |-> <<>>])
    BY DEF IsTaken
  <2> QED
    BY <2>1
<1>2. ASSUME NEW n \in S PROVE n + 1 \in S
  <2>1. PICK F : IsTaken(cs, s, n, F)
    OBVIOUS
  <2> DEFINE last == IF n + 1 \in s /\ Exclusive(cs[n + 1].op) THEN Append(F[n], n + 1) ELSE F[n]
             G == [k \in 0..(n + 1) |-> IF k = n + 1 THEN last ELSE F[k]]
  <2>2. \A k \in 0..(n + 1) : G[k] = IF k = 0 THEN <<>>
          ELSE IF k \in s /\ Exclusive(cs[k].op) THEN Append(G[k - 1], k) ELSE G[k - 1]
    <3> TAKE k \in 0..(n + 1)
    <3>1. CASE k = n + 1
      BY <3>1
    <3>2. CASE k # n + 1
      <4>1. k \in 0..n /\ (k # 0 => k - 1 \in 0..n)
        BY <3>2
      <4>2. F[k] = IF k = 0 THEN <<>>
              ELSE IF k \in s /\ Exclusive(cs[k].op) THEN Append(F[k - 1], k) ELSE F[k - 1]
        BY <2>1, <4>1 DEF IsTaken
      <4> QED
        BY <3>2, <4>1, <4>2
    <3> QED
      BY <3>1, <3>2
  <2>3. IsTaken(cs, s, n + 1, G)
    BY <2>2 DEF IsTaken
  <2> QED
    BY <2>3
<1> HIDE DEF S
<1>3. S = Nat
  BY <1>1, <1>2, NatInd DEF S
<1> QED
  BY <1>3 DEF S

LEMMA TurnsFold ==
  ASSUME NEW cs \in Seq(VectorCall), NEW s
  PROVE  \E F : IsTaken(cs, s, Len(cs), F) /\ Turns(cs, s) = F[Len(cs)]
<1>1. \E F : IsTaken(cs, s, Len(cs), F)
  <2>1. Len(cs) \in Nat
    OBVIOUS
  <2> QED
    BY <2>1, TakenExists
<1>2. Turns(cs, s) = (CHOOSE F : IsTaken(cs, s, Len(cs), F))[Len(cs)]
  BY DEF Turns, IsTaken
<1> QED
  BY <1>1, <1>2

(* The writes among 1..n and s, in their order.                            *)
Taken(cs, s, n, ch) ==
  /\ ch \in Seq(Nat) /\ Rising(ch)
  /\ \A i \in DOMAIN ch : ch[i] \in 1..n /\ ch[i] \in s /\ Exclusive(cs[ch[i]].op)
  /\ \A c \in 1..n : c \in s /\ Exclusive(cs[c].op) => Has(ch, c)

LEMMA TurnsTaken ==
  ASSUME NEW cs \in Seq(VectorCall), NEW s
  PROVE  Taken(cs, s, Len(cs), Turns(cs, s))
<1>1. PICK F : IsTaken(cs, s, Len(cs), F) /\ Turns(cs, s) = F[Len(cs)]
  BY TurnsFold
<1>2. Len(cs) \in Nat
  OBVIOUS
<1> DEFINE P(n) == n <= Len(cs) => Taken(cs, s, n, F[n])
           S == {n \in Nat : P(n)}
<1>3. P(0)
  <2>1. F[0] = <<>>
    BY <1>1, <1>2 DEF IsTaken
  <2> QED
    BY <2>1 DEF Taken, Rising, Has
<1>4. ASSUME NEW n \in Nat, P(n) PROVE P(n + 1)
  <2> SUFFICES ASSUME n + 1 <= Len(cs) PROVE Taken(cs, s, n + 1, F[n + 1])
    OBVIOUS
  <2>1. n + 1 \in 0..Len(cs) /\ n + 1 # 0 /\ (n + 1) - 1 = n
    BY <1>2
  <2>2. F[n + 1] = IF n + 1 \in s /\ Exclusive(cs[n + 1].op) THEN Append(F[n], n + 1) ELSE F[n]
    BY <1>1, <2>1 DEF IsTaken
  <2>3. Taken(cs, s, n, F[n]) /\ 1..(n + 1) = (1..n) \cup {n + 1}
    BY <1>2, <1>4
  <2> DEFINE ch == F[n]
             m == n + 1
  <2>4. CASE ~(m \in s /\ Exclusive(cs[m].op))
    BY <2>2, <2>3, <2>4 DEF Taken
  <2>5. CASE m \in s /\ Exclusive(cs[m].op)
    <3> DEFINE a == Append(ch, m)
    <3>1. /\ ch \in Seq(Nat) /\ Rising(ch) /\ m \in Nat
          /\ \A i \in DOMAIN ch : ch[i] \in 1..n /\ ch[i] \in s /\ Exclusive(cs[ch[i]].op)
          /\ \A c \in 1..n : c \in s /\ Exclusive(cs[c].op) => Has(ch, c)
      BY <2>3 DEF Taken
    <3> HIDE DEF ch
    <3>2. \A i \in DOMAIN ch : ch[i] < m
      BY <3>1
    <3>3. /\ a \in Seq(Nat) /\ Rising(a)
          /\ \A i \in DOMAIN a : a[i] = m \/ Has(ch, a[i])
          /\ Has(a, m) /\ \A c : Has(ch, c) => Has(a, c)
      BY <3>1, <3>2, AppendRises
    <3> HIDE DEF a
    <3>4. \A i \in DOMAIN a : a[i] \in 1..m /\ a[i] \in s /\ Exclusive(cs[a[i]].op)
      <4> TAKE i \in DOMAIN a
      <4>1. CASE a[i] = m
        BY <2>5, <4>1
      <4>2. CASE Has(ch, a[i])
        BY <2>3, <3>1, <4>2 DEF Has
      <4> QED
        BY <3>3, <4>1, <4>2
    <3>5. \A c \in 1..m : c \in s /\ Exclusive(cs[c].op) => Has(a, c)
      BY <2>3, <3>1, <3>3
    <3>6. Taken(cs, s, m, a)
      BY <3>3, <3>4, <3>5 DEF Taken
    <3> QED
      BY <2>2, <2>5, <3>6 DEF a, ch
  <2> QED
    BY <2>4, <2>5
<1> HIDE DEF P
<1>5. S = Nat
  <2>1. S \in SUBSET Nat /\ 0 \in S
    BY <1>3
  <2>2. ASSUME NEW n \in S PROVE n + 1 \in S
    BY <1>4
  <2> HIDE DEF S
  <2> QED
    BY <2>1, <2>2, NatInd
<1>6. P(Len(cs))
  BY <1>2, <1>5
<1>7. Taken(cs, s, Len(cs), F[Len(cs)])
  BY <1>2, <1>6 DEF P
<1> QED
  BY <1>1, <1>7

-----------------------------------------------------------------------------
VectorType ==
  /\ call \in Seq(VectorCall)
  /\ promise \in DOMAIN call \cup {None}
  /\ chain \in Seq(Nat) /\ lance \subseteq DOMAIN call

(* The one procedure that opens the table, and who waits for it.           *)
Opening ==
  /\ promise = None => call = <<>>
  /\ promise # None => call[promise].open \in {"lists", "creates", "open", "failed"}
  /\ promise # None /\ call[promise].open = "creates" => ~exists
  /\ table <=> promise # None /\ call[promise].open = "open"
  /\ \A c \in DOMAIN call :
       /\ call[c].open # "no" => c = promise
       /\ call[c].at = "waits" => /\ call[c].on = promise
                                  /\ call[promise].open \in {"lists", "creates"}
       /\ call[c].at \in {"queued", "runs", "done"} => table

(* The chain holds the writes that are not over, in their order, and only  *)
(* its first is in the database.                                           *)
Chained ==
  /\ Rising(chain)
  /\ \A i \in DOMAIN chain : chain[i] \in DOMAIN call
  /\ \A c \in DOMAIN call :
       /\ Has(chain, c) <=> Exclusive(call[c].op) /\ call[c].at \in {"queued", "runs"}
       /\ call[c].at = "queued" => Exclusive(call[c].op)
       /\ c \in lance <=> call[c].at = "runs"
  /\ \A i \in DOMAIN chain : i # 1 => call[chain[i]].at = "queued"

(* A write that is done came before those of the chain.                    *)
DoneBefore ==
  \A c \in DOMAIN call : Exclusive(call[c].op) /\ call[c].at = "done" =>
    \A i \in DOMAIN chain : c < chain[i]

Core == VectorType /\ Opening /\ Chained /\ DoneBefore /\ WritesInOrder

LoopType ==
  /\ schedule \in [timer : {"off", "armed", "runs", "stopped"}, run : Nat, interval : {0, 1}]
  /\ schedule.timer = "runs" => schedule.run \in DOMAIN call

Status == BannerEnds /\ CompactionGoesOn /\ LoopType

VectorInv == Core /\ Status

LEMMA VectorInitInv ==
  ASSUME VectorInit
  PROVE  VectorInv
<1>1. PICK interval \in {0, 1} :
        schedule = [timer |-> IF interval = 0 THEN "off" ELSE "armed", run |-> 0, interval |-> interval]
  BY DEF VectorInit
<1>2. call = <<>> /\ ~table /\ promise = None /\ chain = <<>> /\ lance = {} /\ rows = {} /\ ~banner
  BY DEF VectorInit
<1>3. VectorType
  BY <1>1, <1>2 DEF VectorType
<1>4. Opening /\ Chained /\ DoneBefore
  BY <1>2 DEF Opening, Chained, DoneBefore, Rising, Has
<1>5. WritesInOrder
  BY <1>2 DEF WritesInOrder, Effect, Did
<1>6. Status
  BY <1>1, <1>2 DEF Status, BannerEnds, CompactionGoesOn, LoopType
<1> QED
  BY <1>3, <1>4, <1>5, <1>6 DEF VectorInv, Core

(* Later calls take their turns at the end of the chain.                   *)
LEMMA TakesTurns ==
  ASSUME NEW cs \in Seq(VectorCall), NEW s \in SUBSET DOMAIN cs,
         NEW ch \in Seq(Nat), Rising(ch), \A i \in DOMAIN ch : \A c \in s : ch[i] < c
  PROVE  LET new == ch \o Turns(cs, s) IN
         /\ new \in Seq(Nat) /\ Rising(new)
         /\ \A c \in DOMAIN cs : Has(new, c) <=> Has(ch, c) \/ (c \in s /\ Exclusive(cs[c].op))
         /\ \A i \in DOMAIN new : \/ i \in DOMAIN ch /\ new[i] = ch[i]
                                  \/ new[i] \in s /\ Exclusive(cs[new[i]].op)
<1> DEFINE t == Turns(cs, s)
           n == Len(ch)
           new == ch \o t
<1>1. Taken(cs, s, Len(cs), t)
  BY TurnsTaken
<1>2. /\ t \in Seq(Nat) /\ Rising(t) /\ DOMAIN t = 1..Len(t) /\ Len(t) \in Nat
      /\ \A i \in 1..Len(t) : t[i] \in s /\ Exclusive(cs[t[i]].op) /\ t[i] \in Nat
      /\ \A c \in DOMAIN cs : c \in s /\ Exclusive(cs[c].op) => Has(t, c)
  <2>1. DOMAIN cs = 1..Len(cs)
    OBVIOUS
  <2> HIDE DEF t
  <2>2. t \in Seq(Nat) /\ Rising(t)
    BY <1>1 DEF Taken
  <2>3. DOMAIN t = 1..Len(t) /\ Len(t) \in Nat /\ \A i \in 1..Len(t) : t[i] \in Nat
    BY <2>2
  <2> QED
    BY <1>1, <2>1, <2>2, <2>3 DEF Taken
<1> HIDE DEF t
<1>3. n \in Nat /\ DOMAIN ch = 1..n /\ \A i \in 1..n : ch[i] \in Nat
  OBVIOUS
<1>4. /\ new \in Seq(Nat) /\ Len(new) = n + Len(t)
      /\ \A i \in 1..(n + Len(t)) : new[i] = IF i <= n THEN ch[i] ELSE t[i - n]
  BY <1>2, ConcatProperties
<1>5. DOMAIN new = 1..(n + Len(t))
  BY <1>4
<1> HIDE DEF new, n
<1>6. \A i \in 1..(n + Len(t)) : \/ i \in 1..n /\ new[i] = ch[i]
                                 \/ i - n \in 1..Len(t) /\ new[i] = t[i - n] /\ n < i
  BY <1>2, <1>3, <1>4
<1>7. \A i \in DOMAIN new : \/ i \in DOMAIN ch /\ new[i] = ch[i]
                            \/ new[i] \in s /\ Exclusive(cs[new[i]].op)
  BY <1>2, <1>3, <1>5, <1>6
<1>8. Rising(new)
  <2> SUFFICES ASSUME NEW i \in 1..(n + Len(t)), NEW j \in 1..(n + Len(t)), i < j
               PROVE  new[i] < new[j]
    BY <1>5 DEF Rising
  <2>1. CASE j <= n
    <3>1. i \in 1..n /\ j \in 1..n /\ new[i] = ch[i] /\ new[j] = ch[j]
      BY <1>2, <1>3, <1>4, <2>1
    <3> QED
      BY <1>3, <3>1 DEF Rising
  <2>2. CASE i <= n /\ n < j
    <3>1. i \in 1..n /\ new[i] = ch[i] /\ j - n \in 1..Len(t) /\ new[j] = t[j - n]
      BY <1>2, <1>3, <1>4, <2>2
    <3>2. t[j - n] \in s
      BY <1>2, <3>1
    <3> QED
      BY <1>3, <3>1, <3>2
  <2>3. CASE n < i
    <3>1. /\ i - n \in 1..Len(t) /\ new[i] = t[i - n] /\ j - n \in 1..Len(t) /\ new[j] = t[j - n]
          /\ i - n < j - n
      BY <1>2, <1>3, <1>4, <2>3
    <3> QED
      BY <1>2, <3>1 DEF Rising
  <2> QED
    BY <1>2, <1>3, <2>1, <2>2, <2>3
<1>9. ASSUME NEW c \in DOMAIN cs
      PROVE  Has(new, c) <=> Has(ch, c) \/ (c \in s /\ Exclusive(cs[c].op))
  <2>1. ASSUME Has(new, c) PROVE Has(ch, c) \/ (c \in s /\ Exclusive(cs[c].op))
    BY <1>7, <2>1 DEF Has
  <2>2. ASSUME Has(ch, c) PROVE Has(new, c)
    <3>1. PICK i \in 1..n : ch[i] = c
      BY <1>3, <2>2 DEF Has
    <3>2. i \in 1..(n + Len(t)) /\ new[i] = ch[i]
      BY <1>2, <1>3, <1>4
    <3> QED
      BY <1>5, <3>1, <3>2 DEF Has
  <2>3. ASSUME c \in s, Exclusive(cs[c].op) PROVE Has(new, c)
    <3>1. PICK i \in 1..Len(t) : t[i] = c
      BY <1>2, <2>3 DEF Has
    <3>2. n + i \in 1..(n + Len(t)) /\ new[n + i] = t[i]
      <4>1. n + i \in 1..(n + Len(t)) /\ ~(n + i <= n) /\ (n + i) - n = i
        BY <1>2, <1>3
      <4> QED
        BY <1>4, <4>1
    <3> QED
      BY <1>5, <3>1, <3>2 DEF Has
  <2> QED
    BY <2>1, <2>2, <2>3
<1> QED
  BY <1>4, <1>7, <1>8, <1>9 DEF new, t

(* A call that is over leaves the chain.                                   *)
LEMMA LeavesChain ==
  ASSUME VectorType, Chained, NEW c \in lance
  PROVE  LET new == After(c) IN
         /\ new \in Seq(Nat) /\ Rising(new)
         /\ \A d \in DOMAIN call : Has(new, d) <=> Has(chain, d) /\ d # c
         /\ \A i \in DOMAIN new : new[i] \in DOMAIN call /\ Has(chain, new[i])
         /\ \A i \in DOMAIN new : i # 1 => call[new[i]].at = "queued"
         /\ Exclusive(call[c].op) => \A i \in DOMAIN new : c < new[i]
<1> DEFINE n == Len(chain)
<1>1. /\ n \in Nat /\ DOMAIN chain = 1..n /\ chain \in Seq(Nat)
      /\ \A i \in 1..n : chain[i] \in Nat /\ chain[i] \in DOMAIN call
      /\ Rising(chain) /\ c \in DOMAIN call /\ call[c].at = "runs"
      /\ \A i \in 1..n : i # 1 => call[chain[i]].at = "queued"
  BY DEF VectorType, Chained
<1>2. CASE ~Exclusive(call[c].op)
  <2>1. ~Has(chain, c)
    BY <1>1, <1>2 DEF Chained
  <2>2. After(c) = chain
    <3>1. CASE chain = <<>>
      BY <3>1 DEF After
    <3>2. CASE chain # <<>>
      <4>1. 1 \in 1..n /\ Head(chain) = chain[1]
        BY <1>1, <3>2
      <4>2. Head(chain) # c
        BY <1>1, <2>1, <4>1 DEF Has
      <4> QED
        BY <4>2 DEF After
    <3> QED
      BY <3>1, <3>2
  <2> QED
    BY <1>1, <1>2, <2>1, <2>2 DEF Has
<1>3. CASE Exclusive(call[c].op)
  <2>1. PICK k \in 1..n : chain[k] = c
    BY <1>1, <1>3 DEF Chained, Has
  <2>2. k = 1 /\ n >= 1
    BY <1>1, <2>1
  <2>3. After(c) = Tail(chain) /\ chain[1] = c /\ chain # <<>>
    <3>1. chain[1] = c /\ chain # <<>>
      BY <1>1, <2>1, <2>2
    <3>2. Head(chain) = chain[1]
      BY <1>1, <3>1
    <3> QED
      BY <3>1, <3>2 DEF After
  <2> DEFINE new == Tail(chain)
  <2>4. /\ new \in Seq(Nat) /\ Len(new) = n - 1
        /\ \A i \in 1..(n - 1) : new[i] = chain[i + 1]
    BY <1>1, <2>3, HeadTailProperties
  <2>5. DOMAIN new = 1..(n - 1) /\ \A i \in 1..(n - 1) : i + 1 \in 1..n /\ i + 1 # 1
    BY <1>1, <2>2, <2>4
  <2> HIDE DEF new
  <2>6. Rising(new)
    <3> SUFFICES ASSUME NEW i \in 1..(n - 1), NEW j \in 1..(n - 1), i < j PROVE new[i] < new[j]
      BY <2>5 DEF Rising
    <3>1. i + 1 \in 1..n /\ j + 1 \in 1..n /\ i + 1 < j + 1
      BY <1>1, <2>5
    <3> QED
      BY <1>1, <2>4, <3>1 DEF Rising
  <2>7. \A i \in DOMAIN new : c < new[i]
    <3> TAKE i \in DOMAIN new
    <3>1. 1 \in 1..n /\ i + 1 \in 1..n /\ 1 < i + 1
      BY <1>1, <2>2, <2>5
    <3> QED
      BY <1>1, <2>3, <2>4, <2>5, <3>1 DEF Rising
  <2>8. \A d \in DOMAIN call : Has(new, d) <=> Has(chain, d) /\ d # c
    <3> TAKE d \in DOMAIN call
    <3>1. ASSUME Has(new, d) PROVE Has(chain, d) /\ d # c
      <4>1. PICK i \in DOMAIN new : new[i] = d
        BY <3>1 DEF Has
      <4>2. i + 1 \in DOMAIN chain /\ chain[i + 1] = d /\ c < d
        BY <1>1, <2>4, <2>5, <2>7, <4>1
      <4>3. c # d
        BY <1>1, <4>2 DEF VectorType
      <4> QED
        BY <4>2, <4>3 DEF Has
    <3>2. ASSUME Has(chain, d), d # c PROVE Has(new, d)
      <4>1. PICK i \in 1..n : chain[i] = d
        BY <1>1, <3>2 DEF Has
      <4>2. i # 1
        BY <2>3, <3>2, <4>1
      <4>3. i - 1 \in 1..(n - 1) /\ (i - 1) + 1 = i
        BY <1>1, <4>2
      <4> QED
        BY <2>4, <2>5, <4>1, <4>3 DEF Has
    <3> QED
      BY <3>1, <3>2
  <2>9. \A i \in DOMAIN new : /\ new[i] \in DOMAIN call /\ Has(chain, new[i])
                              /\ call[new[i]].at = "queued"
    <3> TAKE i \in DOMAIN new
    <3>1. i + 1 \in 1..n /\ i + 1 # 1 /\ new[i] = chain[i + 1]
      BY <2>4, <2>5
    <3>2. chain[i + 1] \in DOMAIN call /\ call[chain[i + 1]].at = "queued" /\ i + 1 \in DOMAIN chain
      BY <1>1, <3>1
    <3>3. Has(chain, chain[i + 1])
      BY <3>2 DEF Has
    <3> QED
      BY <3>1, <3>2, <3>3
  <2> QED
    BY <2>3, <2>4, <2>6, <2>7, <2>8, <2>9 DEF new
<1> QED
  BY <1>2, <1>3

-----------------------------------------------------------------------------
At == {"new", "waits", "queued", "runs", "done", "rejected"}

(* A call comes on top of those made.                                      *)
Grows(r) ==
  /\ call' \in Seq(VectorCall) /\ DOMAIN call' = DOMAIN call \cup {Len(call) + 1}
  /\ Len(call') = Len(call) + 1
  /\ call'[Len(call) + 1] = r /\ \A c \in DOMAIN call : call'[c] = call[c]

LEMMA NewCalls ==
  ASSUME NEW o \in Op
  PROVE  NewCall(o) \in VectorCall /\ NewCall(o).op = o /\ NewCall(o).open = "no"
BY DEF NewCall, VectorCall

LEMMA Length ==
  ASSUME VectorType
  PROVE  /\ Len(call) \in Nat /\ DOMAIN call = 1..Len(call)
         /\ Len(call) + 1 \notin DOMAIN call
         /\ \A c \in DOMAIN call : c \in Nat /\ c < Len(call) + 1 /\ call[c] \in VectorCall
BY DEF VectorType

LEMMA MakeGrows ==
  ASSUME VectorType, NEW o \in Op, Make(o)
  PROVE  \E r \in VectorCall :
           /\ Grows(r) /\ r.op = o
           /\ \/ /\ table /\ promise' = promise /\ r.open = "no"
                 /\ r.at = IF Exclusive(o) THEN "queued" ELSE "runs"
                 /\ chain' = chain \o Turns(Append(call, NewCall(o)), {Len(call) + 1})
                 /\ lance' = lance \cup (IF Exclusive(o) THEN {} ELSE {Len(call) + 1})
              \/ /\ ~table /\ promise = None /\ promise' = Len(call) + 1
                 /\ r.at = "waits" /\ r.on = Len(call) + 1 /\ r.open = "lists"
                 /\ UNCHANGED <<chain, lance>>
              \/ /\ ~table /\ promise # None /\ promise' = promise /\ r.open = "no"
                 /\ r.at = IF call[promise].open = "failed" THEN "rejected" ELSE "waits"
                 /\ r.on = promise
                 /\ UNCHANGED <<chain, lance>>
<1> DEFINE n == Len(call) + 1
           cs == Append(call, NewCall(o))
<1>1. /\ Len(call) \in Nat /\ DOMAIN call = 1..Len(call) /\ n \notin DOMAIN call
      /\ call \in Seq(VectorCall)
  BY Length DEF VectorType
<1>2. /\ cs \in Seq(VectorCall) /\ Len(cs) = n /\ cs[n] = NewCall(o)
      /\ \A c \in DOMAIN call : cs[c] = call[c]
  BY <1>1, NewCalls, AppendProperties
<1>3. DOMAIN cs = 1..n /\ 1..n = DOMAIN call \cup {n}
  BY <1>1, <1>2
<1>4. /\ NewCall(o) \in VectorCall /\ NewCall(o).op = o /\ NewCall(o).open = "no"
  BY NewCalls
<1> HIDE DEF cs, n
<1>5. ASSUME NEW r \in VectorCall, call' = [cs EXCEPT ![n] = r] PROVE Grows(r)
  <2>1. n \in DOMAIN cs
    BY <1>3
  <2>2. call' \in Seq(VectorCall) /\ DOMAIN call' = DOMAIN cs /\ Len(call') = Len(cs)
    BY <1>2, <1>5, <2>1
  <2>3. call'[n] = r /\ \A c \in DOMAIN call : call'[c] = call[c]
    BY <1>1, <1>2, <1>3, <1>5
  <2> QED
    BY <1>2, <1>3, <2>2, <2>3 DEF Grows, n
<1>6. CASE table
  <2> DEFINE at == IF Exclusive(o) THEN "queued" ELSE "runs"
             r == [NewCall(o) EXCEPT !.at = at]
  <2>1. /\ call' = Proceeds(cs, {n}) /\ chain' = chain \o Turns(cs, {n})
        /\ lance' = lance \cup Free(cs, {n}) /\ promise' = promise
    BY <1>6 DEF Make, cs, n
  <2>2. r \in VectorCall /\ r.op = o /\ r.open = "no" /\ r.at = at
    BY <1>4 DEF VectorCall
  <2>3. call' = [cs EXCEPT ![n] = r]
    BY <1>2, <1>3, <1>4, <2>1 DEF Proceeds
  <2>4. Free(cs, {n}) = IF Exclusive(o) THEN {} ELSE {n}
    BY <1>2, <1>4 DEF Free
  <2>5. Grows(r)
    BY <1>5, <2>2, <2>3
  <2> HIDE DEF r
  <2> QED
    BY <1>6, <2>1, <2>2, <2>4, <2>5 DEF cs, n
<1>7. CASE ~table /\ promise = None
  <2> DEFINE r == [NewCall(o) EXCEPT !.at = "waits", !.on = n, !.open = "lists"]
  <2>1. /\ call' = [cs EXCEPT ![n].at = "waits", ![n].on = n, ![n].open = "lists"]
        /\ promise' = n /\ UNCHANGED <<chain, lance>>
    BY <1>7 DEF Make, OpensFirst, cs, n
  <2>2. r \in VectorCall /\ r.op = o /\ r.on = n /\ r.open = "lists" /\ r.at = "waits"
    <3>1. n \in Nat
      BY <1>1 DEF n
    <3> QED
      BY <1>4, <3>1 DEF VectorCall
  <2>3. call' = [cs EXCEPT ![n] = r]
    BY <1>2, <1>3, <2>1
  <2>4. Grows(r)
    BY <1>5, <2>2, <2>3
  <2> HIDE DEF r
  <2> QED
    BY <1>7, <2>1, <2>2, <2>4 DEF n
<1>8. CASE ~table /\ promise # None
  <2> DEFINE at == IF call[promise].open = "failed" THEN "rejected" ELSE "waits"
             r == [NewCall(o) EXCEPT !.at = at, !.on = promise]
  <2>1. /\ call' = [cs EXCEPT ![n].at = at, ![n].on = promise]
        /\ promise' = promise /\ UNCHANGED <<chain, lance>>
    BY <1>8 DEF Make, OpensFirst, cs, n
  <2>2. promise \in Nat /\ at \in At
    BY <1>1, <1>8 DEF VectorType, At
  <2>3. r \in VectorCall /\ r.op = o /\ r.on = promise /\ r.open = "no" /\ r.at = at
    BY <1>4, <2>2 DEF VectorCall, At
  <2>4. call' = [cs EXCEPT ![n] = r]
    BY <1>2, <1>3, <2>1
  <2>5. Grows(r)
    BY <1>5, <2>3, <2>4
  <2> HIDE DEF r
  <2> QED
    BY <1>8, <2>1, <2>3, <2>5
<1> QED
  BY <1>6, <1>7, <1>8

(* What is done stays done: the rows are still those of the calls.         *)
LEMMA EffectStays ==
  ASSUME WritesInOrder, rows' = rows, Did(call, "upsert")' = Did(call, "upsert"),
         Did(call, "delete")' = Did(call, "delete")
  PROVE  WritesInOrder'
BY DEF WritesInOrder, Effect

LEMMA MakeKeeps ==
  ASSUME Core, NEW o \in Op, Make(o)
  PROVE  Core'
<1> DEFINE n == Len(call) + 1
           cs == Append(call, NewCall(o))
<1>1. VectorType /\ Opening /\ Chained /\ DoneBefore /\ WritesInOrder
  BY DEF Core
<1>2. /\ Len(call) \in Nat /\ DOMAIN call = 1..Len(call) /\ n \notin DOMAIN call
      /\ \A c \in DOMAIN call : c \in Nat /\ c < n /\ call[c] \in VectorCall
      /\ call \in Seq(VectorCall) /\ n \in Nat
  BY <1>1, Length DEF VectorType
<1>3. UNCHANGED <<table, exists, rows>>
  BY DEF Make
<1>4. PICK r \in VectorCall :
        /\ Grows(r) /\ r.op = o
        /\ \/ /\ table /\ promise' = promise /\ r.open = "no"
              /\ r.at = IF Exclusive(o) THEN "queued" ELSE "runs"
              /\ chain' = chain \o Turns(cs, {n})
              /\ lance' = lance \cup (IF Exclusive(o) THEN {} ELSE {n})
           \/ /\ ~table /\ promise = None /\ promise' = n
              /\ r.at = "waits" /\ r.on = n /\ r.open = "lists"
              /\ UNCHANGED <<chain, lance>>
           \/ /\ ~table /\ promise # None /\ promise' = promise /\ r.open = "no"
              /\ r.at = IF call[promise].open = "failed" THEN "rejected" ELSE "waits"
              /\ r.on = promise
              /\ UNCHANGED <<chain, lance>>
  BY <1>1, MakeGrows
<1> HIDE DEF n
<1>5. /\ call' \in Seq(VectorCall) /\ DOMAIN call' = DOMAIN call \cup {n}
      /\ call'[n] = r /\ \A c \in DOMAIN call : call'[c] = call[c]
  BY <1>4 DEF Grows, n
<1>6. r.at # "done" /\ r.at # "new"
  BY <1>4
<1>7. WritesInOrder'
  <2>1. ASSUME NEW p PROVE Did(call, p)' = Did(call, p)
    BY <1>5, <1>6 DEF Did
  <2> QED
    BY <1>1, <1>3, <2>1, EffectStays
(* What the calls are to the chain.                                        *)
<1>8. /\ chain' \in Seq(Nat) /\ Rising(chain')
      /\ \A c \in DOMAIN call' : Has(chain', c) <=> Has(chain, c) \/ (c = n /\ table /\ Exclusive(o))
      /\ \A i \in DOMAIN chain' : \/ i \in DOMAIN chain /\ chain'[i] = chain[i]
                                  \/ chain'[i] = n /\ table /\ Exclusive(o)
  <2>1. chain \in Seq(Nat) /\ Rising(chain) /\ \A i \in DOMAIN chain : chain[i] \in DOMAIN call /\ chain[i] < n
    BY <1>1, <1>2 DEF VectorType, Chained
  <2>2. CASE ~table
    <3>1. chain' = chain
      BY <1>4, <2>2
    <3> QED
      BY <2>1, <2>2, <3>1
  <2>3. CASE table
    <3>1. /\ cs \in Seq(VectorCall) /\ Len(cs) = n /\ cs[n] = NewCall(o)
      BY <1>2, NewCalls, AppendProperties DEF n
    <3>2. cs[n].op = o /\ DOMAIN cs = 1..n /\ n \in 1..n
      BY <1>2, <3>1, NewCalls DEF n
    <3>3. DOMAIN call' = DOMAIN cs
      BY <1>2, <1>5, <3>2 DEF n
    <3> HIDE DEF cs
    <3>4. /\ chain' = chain \o Turns(cs, {n}) /\ {n} \in SUBSET DOMAIN cs
          /\ \A i \in DOMAIN chain : \A c \in {n} : chain[i] < c
      BY <1>4, <2>1, <2>3, <3>2
    <3> DEFINE new == chain \o Turns(cs, {n})
    <3>6. /\ new \in Seq(Nat) /\ Rising(new)
          /\ \A c \in DOMAIN cs : Has(new, c) <=> Has(chain, c) \/ (c \in {n} /\ Exclusive(cs[c].op))
          /\ \A i \in DOMAIN new : \/ i \in DOMAIN chain /\ new[i] = chain[i]
                                   \/ new[i] \in {n} /\ Exclusive(cs[new[i]].op)
      BY <2>1, <3>1, <3>4, TakesTurns
    <3>7. chain' = new
      BY <3>4
    <3> HIDE DEF new
    <3>5. /\ chain' \in Seq(Nat) /\ Rising(chain')
          /\ \A c \in DOMAIN cs : Has(chain', c) <=> Has(chain, c) \/ (c \in {n} /\ Exclusive(cs[c].op))
          /\ \A i \in DOMAIN chain' : \/ i \in DOMAIN chain /\ chain'[i] = chain[i]
                                      \/ chain'[i] \in {n} /\ Exclusive(cs[chain'[i]].op)
      BY <3>6, <3>7
    <3> QED
      BY <2>3, <3>2, <3>3, <3>5
  <2> QED
    BY <2>2, <2>3
<1>9. VectorType'
  <2>1. lance' \subseteq DOMAIN call'
    BY <1>1, <1>4, <1>5 DEF VectorType
  <2>2. promise' \in DOMAIN call' \cup {None}
    BY <1>1, <1>4, <1>5 DEF VectorType
  <2> QED
    BY <1>5, <1>8, <2>1, <2>2 DEF VectorType
<1>10. Opening'
  <2>1. ASSUME promise # None
        PROVE  promise \in DOMAIN call /\ promise' = promise /\ call'[promise] = call[promise] /\ promise # n
    BY <1>1, <1>2, <1>4, <1>5, <2>1 DEF VectorType
  <2>2. promise = None => ~table /\ call = <<>>
    BY <1>1 DEF Opening
  <2>3. promise = None => promise' = n /\ r.open = "lists" /\ r.at = "waits" /\ r.on = n
    BY <1>4, <2>2
  <2>4. promise' # None
    BY <1>2, <2>1, <2>3, VectorAssumption
  <2>5. CASE promise = None
    <3>1. DOMAIN call = {} /\ DOMAIN call' = {n}
      BY <1>5, <2>2, <2>5
    <3>2. call'[n].open = "lists" /\ call'[n].at = "waits" /\ call'[n].on = n /\ promise' = n /\ ~table'
      BY <1>3, <1>5, <2>2, <2>3, <2>5
    <3> QED
      BY <2>4, <3>1, <3>2 DEF Opening
  <2>6. CASE promise # None
    <3>1. promise' = promise /\ call'[promise].open = call[promise].open
      BY <2>1, <2>6
    <3>2. /\ call[promise].open \in {"lists", "creates", "open", "failed"}
          /\ call[promise].open = "creates" => ~exists
          /\ table <=> call[promise].open = "open"
      BY <1>1, <2>6 DEF Opening
    <3>3. r.open = "no" /\ (r.at = "waits" => r.on = promise /\ call[promise].open \in {"lists", "creates"})
          /\ (r.at \in {"queued", "runs", "done"} => table)
      BY <1>4, <2>6, <3>2
    <3>4. ASSUME NEW c \in DOMAIN call'
          PROVE  /\ call'[c].open # "no" => c = promise
                 /\ call'[c].at = "waits" => /\ call'[c].on = promise
                                             /\ call'[promise].open \in {"lists", "creates"}
                 /\ call'[c].at \in {"queued", "runs", "done"} => table
      <4>1. CASE c = n
        BY <1>5, <3>1, <3>3, <4>1
      <4>2. CASE c \in DOMAIN call
        BY <1>1, <1>5, <3>1, <4>2 DEF Opening
      <4> QED
        BY <1>5, <4>1, <4>2
    <3> QED
      BY <1>3, <2>4, <2>6, <3>1, <3>2, <3>4 DEF Opening
  <2> QED
    BY <2>5, <2>6
<1>11. Chained'
  <2>1. \A i \in DOMAIN chain' : chain'[i] \in DOMAIN call'
    BY <1>1, <1>5, <1>8 DEF Chained
  <2>2. ~Has(chain, n)
    BY <1>1, <1>2 DEF Chained, Has
  <2>3. /\ n \in lance' <=> r.at = "runs"
        /\ \A c \in DOMAIN call : c \in lance' <=> c \in lance
    BY <1>1, <1>2, <1>4 DEF VectorType
  <2>4. ASSUME NEW c \in DOMAIN call'
        PROVE  /\ Has(chain', c) <=> Exclusive(call'[c].op) /\ call'[c].at \in {"queued", "runs"}
               /\ call'[c].at = "queued" => Exclusive(call'[c].op)
               /\ c \in lance' <=> call'[c].at = "runs"
    <3>1. CASE c = n
      <4>1. Has(chain', n) <=> table /\ Exclusive(o)
        BY <1>5, <1>8, <2>2
      <4>2. table <=> r.at \in {"queued", "runs"}
        BY <1>4
      <4>3. r.at = "queued" => Exclusive(o)
        BY <1>4
      <4>4. r.op = o
        BY <1>4
      <4> QED
        BY <1>5, <2>3, <3>1, <4>1, <4>2, <4>3, <4>4
    <3>2. CASE c \in DOMAIN call
      <4>1. c # n /\ (Has(chain', c) <=> Has(chain, c)) /\ call'[c] = call[c]
        BY <1>2, <1>5, <1>8, <3>2
      <4> QED
        BY <1>1, <2>3, <3>2, <4>1 DEF Chained
    <3> QED
      BY <1>5, <3>1, <3>2
  <2>5. ASSUME NEW i \in DOMAIN chain', i # 1 PROVE call'[chain'[i]].at = "queued"
    <3>1. CASE i \in DOMAIN chain /\ chain'[i] = chain[i]
      BY <1>1, <1>5, <2>5, <3>1 DEF Chained
    <3>2. CASE chain'[i] = n /\ table /\ Exclusive(o)
      BY <1>4, <1>5, <3>2
    <3> QED
      BY <1>8, <3>1, <3>2
  <2> QED
    BY <1>8, <2>1, <2>4, <2>5 DEF Chained
<1>12. DoneBefore'
  <2> SUFFICES ASSUME NEW c \in DOMAIN call', Exclusive(call'[c].op), call'[c].at = "done",
                      NEW i \in DOMAIN chain'
               PROVE  c < chain'[i]
    BY DEF DoneBefore
  <2>1. c \in DOMAIN call /\ call'[c] = call[c]
    BY <1>5, <1>6
  <2>2. CASE i \in DOMAIN chain /\ chain'[i] = chain[i]
    BY <1>1, <2>1, <2>2 DEF DoneBefore
  <2>3. CASE chain'[i] = n
    BY <1>2, <2>1, <2>3
  <2> QED
    BY <1>8, <2>2, <2>3
<1> QED
  BY <1>7, <1>9, <1>10, <1>11, <1>12 DEF Core

-----------------------------------------------------------------------------
(* Before there is a table no call is further than waiting.                *)
LEMMA NothingRuns ==
  ASSUME Core, ~table
  PROVE  /\ chain = <<>> /\ lance = {}
         /\ \A c \in DOMAIN call : call[c].at \notin {"queued", "runs", "done"}
<1>1. \A c \in DOMAIN call : call[c].at \notin {"queued", "runs", "done"}
  BY DEF Core, Opening
<1>2. lance = {}
  BY <1>1 DEF Core, Chained, VectorType
<1>3. \A i \in DOMAIN chain : FALSE
  BY <1>1 DEF Core, Chained, Has
<1>4. chain \in Seq(Nat)
  BY DEF Core, VectorType
<1>5. chain = <<>>
  BY <1>3, <1>4
<1> QED
  BY <1>1, <1>2, <1>5

(* Who opens the table is the call whose promise it is, and who waits      *)
(* waits for it.                                                           *)
LEMMA OneOpener ==
  ASSUME Core, NEW o \in DOMAIN call, call[o].open \in {"lists", "creates"}
  PROVE  /\ promise = o /\ ~table
         /\ \A c \in DOMAIN call : c \in Waiters(o) <=> call[c].at = "waits"
<1>1. promise = o
  BY DEF Core, Opening
<1>2. ~table
  BY <1>1 DEF Core, Opening
<1>3. \A c \in DOMAIN call : call[c].at = "waits" => call[c].on = o
  BY <1>1 DEF Core, Opening
<1> QED
  BY <1>1, <1>2, <1>3 DEF Waiters

LEMMA OpenedKeeps ==
  ASSUME Core, NEW o \in DOMAIN call, call[o].open \in {"lists", "creates"},
         Opened(o, [call EXCEPT ![o].open = "open"])
  PROVE  Core'
<1> DEFINE cs == [call EXCEPT ![o].open = "open"]
           s == Waiters(o)
<1>1. /\ promise = o /\ ~table /\ \A c \in DOMAIN call : c \in s <=> call[c].at = "waits"
      /\ chain = <<>> /\ lance = {}
      /\ \A c \in DOMAIN call : call[c].at \notin {"queued", "runs", "done"}
      /\ s \in SUBSET DOMAIN call
  BY OneOpener, NothingRuns DEF Waiters
<1>2. /\ call \in Seq(VectorCall) /\ \A c \in DOMAIN call : c \in Nat /\ call[c] \in VectorCall
      /\ Len(call) \in Nat /\ DOMAIN call = 1..Len(call)
  BY Length DEF Core, VectorType
<1>3. /\ table' /\ exists' /\ call' = Proceeds(cs, s) /\ chain' = chain \o Turns(cs, s)
      /\ lance' = lance \cup Free(cs, s) /\ promise' = promise /\ rows' = rows
  BY DEF Opened
<1>4. /\ cs \in Seq(VectorCall) /\ DOMAIN cs = DOMAIN call
      /\ \A c \in DOMAIN call : /\ cs[c].op = call[c].op /\ cs[c].on = call[c].on
                                /\ cs[c].at = call[c].at
                                /\ cs[c].open = IF c = o THEN "open" ELSE call[c].open
  <2>1. [call[o] EXCEPT !.open = "open"] \in VectorCall
    BY <1>2 DEF VectorCall
  <2>2. cs = [call EXCEPT ![o] = [call[o] EXCEPT !.open = "open"]]
    OBVIOUS
  <2>3. cs \in Seq(VectorCall) /\ DOMAIN cs = DOMAIN call
    BY <1>2, <2>1, <2>2
  <2>4. ASSUME NEW c \in DOMAIN call
        PROVE  /\ cs[c].op = call[c].op /\ cs[c].on = call[c].on /\ cs[c].at = call[c].at
               /\ cs[c].open = IF c = o THEN "open" ELSE call[c].open
    BY <1>2, <2>4 DEF VectorCall
  <2> QED
    BY <2>3, <2>4
<1> HIDE DEF cs, s
<1>5. /\ DOMAIN call' = DOMAIN call /\ call' \in Seq(VectorCall)
      /\ \A c \in DOMAIN call :
           /\ call'[c].op = call[c].op /\ call'[c].on = call[c].on
           /\ call'[c].open = IF c = o THEN "open" ELSE call[c].open
           /\ call'[c].at = IF c \in s THEN (IF Exclusive(call[c].op) THEN "queued" ELSE "runs")
                            ELSE call[c].at
  <2>1. DOMAIN call' = DOMAIN call
    BY <1>3, <1>4 DEF Proceeds
  <2>2. ASSUME NEW c \in DOMAIN call
        PROVE  call'[c] = IF c \notin s THEN cs[c]
                          ELSE [cs[c] EXCEPT !.at = IF Exclusive(cs[c].op) THEN "queued" ELSE "runs"]
    BY <1>3, <1>4 DEF Proceeds
  <2>3. \A c \in DOMAIN call : cs[c] \in VectorCall
    BY <1>2, <1>4
  <2>4. ASSUME NEW c \in DOMAIN call
        PROVE  /\ call'[c] \in VectorCall
               /\ call'[c].op = cs[c].op /\ call'[c].on = cs[c].on /\ call'[c].open = cs[c].open
               /\ call'[c].at = IF c \in s THEN (IF Exclusive(cs[c].op) THEN "queued" ELSE "runs")
                                ELSE cs[c].at
    <3> DEFINE x == cs[c]
               at == IF Exclusive(x.op) THEN "queued" ELSE "runs"
    <3>1. x \in VectorCall /\ at \in {"queued", "runs"}
      BY <2>3
    <3>2. CASE c \notin s
      BY <2>2, <3>1, <3>2
    <3>3. CASE c \in s
      <4>1. call'[c] = [x EXCEPT !.at = at]
        BY <2>2, <3>3
      <4> HIDE DEF x, at
      <4>2. /\ call'[c] \in VectorCall /\ call'[c].op = x.op /\ call'[c].on = x.on
            /\ call'[c].open = x.open /\ call'[c].at = at
        BY <3>1, <4>1 DEF VectorCall
      <4> QED
        BY <3>3, <4>2 DEF x, at
    <3> QED
      BY <3>2, <3>3
  <2>5. call' = [c \in 1..Len(call) |-> call'[c]]
    BY <1>2, <1>3, <1>4, <2>1 DEF Proceeds
  <2>6. call' \in Seq(VectorCall)
    BY <1>2, <2>4, <2>5
  <2> QED
    BY <1>4, <2>1, <2>4, <2>6
<1>6. /\ chain' \in Seq(Nat) /\ Rising(chain')
      /\ \A c \in DOMAIN call : Has(chain', c) <=> c \in s /\ Exclusive(call[c].op)
      /\ \A i \in DOMAIN chain' : chain'[i] \in s /\ Exclusive(call[chain'[i]].op)
  <2> DEFINE ch == <<>>
  <2>1. ch \in Seq(Nat) /\ Rising(ch) /\ DOMAIN ch = {} /\ \A c : ~Has(ch, c)
    BY DEF Rising, Has
  <2>2. chain' = ch \o Turns(cs, s) /\ s \in SUBSET DOMAIN cs
    BY <1>1, <1>3, <1>4
  <2> HIDE DEF ch
  <2>3. /\ chain' \in Seq(Nat) /\ Rising(chain')
        /\ \A c \in DOMAIN cs : Has(chain', c) <=> Has(ch, c) \/ (c \in s /\ Exclusive(cs[c].op))
        /\ \A i \in DOMAIN chain' : \/ i \in DOMAIN ch /\ chain'[i] = ch[i]
                                    \/ chain'[i] \in s /\ Exclusive(cs[chain'[i]].op)
    BY <1>4, <2>1, <2>2, TakesTurns
  <2> QED
    BY <1>1, <1>4, <2>1, <2>3
<1>7. lance' = {c \in s : ~Exclusive(call[c].op)}
  BY <1>1, <1>3, <1>4 DEF Free
<1>8. VectorType'
  BY <1>1, <1>3, <1>5, <1>6, <1>7 DEF Core, VectorType
<1>9. Opening'
  <2>1. promise' # None
    BY <1>1, <1>2, <1>3, VectorAssumption
  <2>2. ASSUME NEW c \in DOMAIN call
        PROVE  (call'[c].open # "no" => c = o) /\ call'[c].at # "waits"
    BY <1>1, <1>5 DEF Core, Opening
  <2> QED
    BY <1>1, <1>3, <1>5, <2>1, <2>2 DEF Opening
<1>10. Chained'
  <2>1. ASSUME NEW c \in DOMAIN call
        PROVE  /\ Has(chain', c) <=> Exclusive(call'[c].op) /\ call'[c].at \in {"queued", "runs"}
               /\ call'[c].at = "queued" => Exclusive(call'[c].op)
               /\ c \in lance' <=> call'[c].at = "runs"
    <3>1. c \in s <=> call'[c].at \in {"queued", "runs"}
      BY <1>1, <1>5
    <3> QED
      BY <1>1, <1>5, <1>6, <1>7, <3>1
  <2>2. \A i \in DOMAIN chain' : chain'[i] \in DOMAIN call /\ call'[chain'[i]].at = "queued"
    BY <1>1, <1>5, <1>6
  <2> QED
    BY <1>5, <1>6, <2>1, <2>2 DEF Chained
<1>11. \A c \in DOMAIN call : call'[c].at # "done" /\ call[c].at # "done"
  BY <1>1, <1>5
<1>12. DoneBefore'
  BY <1>5, <1>11 DEF DoneBefore
<1>13. WritesInOrder'
  <2>1. ASSUME NEW p PROVE Did(call, p)' = Did(call, p)
    BY <1>5, <1>11 DEF Did
  <2> QED
    BY <1>3, <2>1, EffectStays DEF Core
<1> QED
  BY <1>8, <1>9, <1>10, <1>12, <1>13 DEF Core

LEMMA ListsKeeps ==
  ASSUME Core, NEW o \in DOMAIN call, ListsNames(o)
  PROVE  Core'
<1>1. call[o].open = "lists"
  BY DEF ListsNames
<1>2. CASE exists /\ Opened(o, [call EXCEPT ![o].open = "open"])
  BY <1>1, <1>2, OpenedKeeps
<1>3. CASE /\ ~exists /\ call' = [call EXCEPT ![o].open = "creates"]
           /\ UNCHANGED <<table, promise, exists, chain, lance, rows, banner, schedule>>
  <2>1. /\ promise = o /\ ~table /\ chain = <<>> /\ lance = {}
        /\ \A c \in DOMAIN call : call[c].at \notin {"queued", "runs", "done"}
    BY <1>1, OneOpener, NothingRuns
  <2>2. call \in Seq(VectorCall) /\ \A c \in DOMAIN call : call[c] \in VectorCall
    BY DEF Core, VectorType
  <2>3. /\ call' \in Seq(VectorCall) /\ DOMAIN call' = DOMAIN call
        /\ \A c \in DOMAIN call : /\ call'[c].op = call[c].op /\ call'[c].on = call[c].on
                                  /\ call'[c].at = call[c].at
                                  /\ call'[c].open = IF c = o THEN "creates" ELSE call[c].open
    <3>1. [call[o] EXCEPT !.open = "creates"] \in VectorCall
      BY <2>2 DEF VectorCall
    <3>2. call' = [call EXCEPT ![o] = [call[o] EXCEPT !.open = "creates"]]
      BY <1>3
    <3>3. call' \in Seq(VectorCall) /\ DOMAIN call' = DOMAIN call
      BY <2>2, <3>1, <3>2
    <3> QED
      BY <1>3, <2>2, <3>3 DEF VectorCall
  <2>4. VectorType'
    BY <1>3, <2>3 DEF Core, VectorType
  <2>5. Opening'
    <3>1. promise # None
      BY <2>1, Length, VectorAssumption DEF Core
    <3>2. ASSUME NEW c \in DOMAIN call
          PROVE  /\ call'[c].open # "no" => c = o
                 /\ call'[c].at = "waits" => call'[c].on = o
                 /\ call'[c].at \notin {"queued", "runs", "done"}
      BY <1>1, <2>1, <2>3 DEF Core, Opening
    <3>3. call'[o].open = "creates" /\ ~exists' /\ ~table' /\ promise' = o /\ o # None
      BY <1>3, <2>1, <2>3, <3>1
    <3> QED
      BY <2>3, <3>2, <3>3 DEF Opening
  <2>6. Chained'
    BY <1>3, <2>3 DEF Core, Chained
  <2>7. DoneBefore'
    BY <1>3, <2>3 DEF Core, DoneBefore
  <2>8. WritesInOrder'
    <3>1. ASSUME NEW p PROVE Did(call, p)' = Did(call, p)
      BY <2>3 DEF Did
    <3> QED
      BY <1>3, <3>1, EffectStays DEF Core
  <2> QED
    BY <2>4, <2>5, <2>6, <2>7, <2>8 DEF Core
<1> QED
  BY <1>2, <1>3 DEF ListsNames

LEMMA OpenedGoes ==
  ASSUME Core, NEW o \in DOMAIN call, Opened(o, [call EXCEPT ![o].open = "open"])
  PROVE  /\ DOMAIN call \subseteq DOMAIN call'
         /\ \A c \in DOMAIN call : /\ call'[c].op = call[c].op
                                   /\ call[c].at \notin Over => call'[c].at \notin Over
<1> DEFINE cs == [call EXCEPT ![o].open = "open"]
<1>1. \A c \in DOMAIN call : call[c] \in VectorCall
  BY DEF Core, VectorType
<1>2. DOMAIN cs = DOMAIN call /\ \A c \in DOMAIN call :
        cs[c] \in VectorCall /\ cs[c].op = call[c].op /\ cs[c].at = call[c].at
  BY <1>1 DEF VectorCall
<1> HIDE DEF cs
<1>3. /\ DOMAIN call' = DOMAIN call
      /\ \A c \in DOMAIN call :
           call'[c] = IF c \notin Waiters(o) THEN cs[c]
                      ELSE [cs[c] EXCEPT !.at = IF Exclusive(cs[c].op) THEN "queued" ELSE "runs"]
  BY <1>2 DEF Opened, Proceeds, cs
<1>4. \A c \in DOMAIN call : /\ call'[c].op = cs[c].op
                             /\ call'[c].at \in {cs[c].at, "queued", "runs"}
  BY <1>2, <1>3 DEF VectorCall
<1> QED
  BY <1>2, <1>3, <1>4 DEF Over

LEMMA CreatesKeeps ==
  ASSUME Core, NEW o \in DOMAIN call, CreatesTable(o)
  PROVE  Core'
BY OpenedKeeps DEF CreatesTable

(* The creation cannot meet a table made meanwhile: nobody else opens it.  *)
LEMMA OpenFailsKeeps ==
  ASSUME Core, NEW o \in DOMAIN call, OpenFails(o)
  PROVE  /\ Core'
         /\ DOMAIN call' = DOMAIN call
         /\ \A c \in DOMAIN call : /\ call'[c].op = call[c].op
                                   /\ c \notin Waiters(o) => call'[c] = call[c]
<1>1. /\ promise = o /\ ~table /\ \A c \in DOMAIN call : c \in Waiters(o) <=> call[c].at = "waits"
      /\ chain = <<>> /\ lance = {}
      /\ \A c \in DOMAIN call : call[c].at \notin {"queued", "runs", "done"}
  BY OneOpener, NothingRuns DEF OpenFails
<1>2. /\ call \in Seq(VectorCall) /\ \A c \in DOMAIN call : call[c] \in VectorCall
      /\ Len(call) \in Nat /\ DOMAIN call = 1..Len(call)
  BY Length DEF Core, VectorType
<1>3. call[o].open \in {"lists", "creates"} /\ ~(call[o].open = "creates" /\ exists)
  <2>1. call[o].open \in {"lists", "creates"} /\ promise # None
    BY <1>1, Length, VectorAssumption DEF OpenFails, Core
  <2> QED
    BY <1>1, <2>1 DEF Core, Opening
<1>4. /\ DOMAIN call' = DOMAIN call
      /\ \A c \in DOMAIN call :
           call'[c] = IF c \in Waiters(o)
                      THEN [call[c] EXCEPT !.at = "rejected", !.open = IF c = o THEN "failed" ELSE @]
                      ELSE call[c]
  BY <1>3 DEF OpenFails
<1>5. UNCHANGED <<table, promise, exists, chain, lance, rows>>
  BY DEF OpenFails
<1>6. \A c \in DOMAIN call :
        /\ call'[c] \in VectorCall /\ call'[c].op = call[c].op /\ call'[c].on = call[c].on
        /\ call'[c].at = IF c \in Waiters(o) THEN "rejected" ELSE call[c].at
        /\ call'[c].open = IF c \in Waiters(o) /\ c = o THEN "failed" ELSE call[c].open
  <2> TAKE c \in DOMAIN call
  <2> DEFINE x == call[c]
  <2>1. x \in VectorCall
    BY <1>2
  <2>2. CASE c \notin Waiters(o)
    BY <1>2, <1>4, <2>2
  <2>3. CASE c \in Waiters(o)
    <3> DEFINE open == IF c = o THEN "failed" ELSE x.open
    <3>1. call'[c] = [x EXCEPT !.at = "rejected", !.open = open]
      BY <1>4, <2>3
    <3>2. open \in {"no", "lists", "creates", "open", "failed", "raced"}
      BY <2>1 DEF VectorCall
    <3> HIDE DEF x, open
    <3>3. /\ call'[c] \in VectorCall /\ call'[c].op = x.op /\ call'[c].on = x.on
          /\ call'[c].at = "rejected" /\ call'[c].open = open
      BY <2>1, <3>1, <3>2 DEF VectorCall
    <3> QED
      BY <2>3, <3>3 DEF x, open
  <2> QED
    BY <2>2, <2>3
<1>7. call' \in Seq(VectorCall)
  <2>1. call' = [c \in 1..Len(call) |-> call'[c]]
    BY <1>2 DEF OpenFails
  <2> QED
    BY <1>2, <1>6, <2>1
<1>8. VectorType'
  BY <1>4, <1>5, <1>7 DEF Core, VectorType
<1>9. Opening'
  <2>1. promise' # None
    BY <1>1, <1>2, <1>5, VectorAssumption
  <2>2. ASSUME NEW c \in DOMAIN call
        PROVE  (call'[c].open # "no" => c = o) /\ call'[c].at \notin {"waits", "queued", "runs", "done"}
    BY <1>1, <1>6 DEF Core, Opening
  <2>3. call'[o].open \in {"lists", "creates", "failed"} /\ (call'[o].open = "creates" => ~exists)
    BY <1>3, <1>6
  <2> QED
    BY <1>1, <1>4, <1>5, <2>1, <2>2, <2>3 DEF Opening
<1>10. \A c \in DOMAIN call : call'[c].at \notin {"queued", "runs", "done"}
  BY <1>1, <1>6
<1>11. Chained'
  <2>1. chain' = <<>> /\ lance' = {} /\ DOMAIN chain' = {}
    BY <1>1, <1>5
  <2> QED
    BY <1>4, <1>10, <2>1 DEF Chained, Rising, Has
<1>12. DoneBefore'
  BY <1>4, <1>10 DEF DoneBefore
<1>13. WritesInOrder'
  <2>1. ASSUME NEW p PROVE Did(call, p)' = Did(call, p)
    BY <1>1, <1>4, <1>10 DEF Did
  <2> QED
    BY <1>5, <2>1, EffectStays DEF Core
<1> QED
  BY <1>4, <1>6, <1>8, <1>9, <1>11, <1>12, <1>13 DEF Core

-----------------------------------------------------------------------------
(* One call goes on.                                                       *)
Moves(c, at) ==
  /\ call' \in Seq(VectorCall) /\ DOMAIN call' = DOMAIN call
  /\ \A d \in DOMAIN call : /\ call'[d].op = call[d].op /\ call'[d].on = call[d].on
                            /\ call'[d].open = call[d].open
                            /\ call'[d].at = IF d = c THEN at ELSE call[d].at

LEMMA AtOnly ==
  ASSUME VectorType, NEW c \in DOMAIN call, NEW at \in At, call' = [call EXCEPT ![c].at = at]
  PROVE  Moves(c, at)
<1>1. call \in Seq(VectorCall) /\ \A d \in DOMAIN call : call[d] \in VectorCall
  BY DEF VectorType
<1>2. [call[c] EXCEPT !.at = at] \in VectorCall
  BY <1>1 DEF VectorCall, At
<1>3. call' = [call EXCEPT ![c] = [call[c] EXCEPT !.at = at]]
  OBVIOUS
<1>4. call' \in Seq(VectorCall) /\ DOMAIN call' = DOMAIN call
  BY <1>1, <1>2, <1>3
<1>5. \A d \in DOMAIN call : /\ call'[d].op = call[d].op /\ call'[d].on = call[d].on
                             /\ call'[d].open = call[d].open
                             /\ call'[d].at = IF d = c THEN at ELSE call[d].at
  BY <1>1 DEF VectorCall
<1> QED
  BY <1>4, <1>5 DEF Moves

(* The opening does not see what becomes of the calls that have the table. *)
LEMMA OpeningStays ==
  ASSUME VectorType, Opening, NEW c \in DOMAIN call, call[c].at \in {"queued", "runs"},
         NEW at \in {"runs", "done", "rejected"}, Moves(c, at), UNCHANGED <<table, promise, exists>>
  PROVE  Opening'
<1>1. table
  BY DEF Opening
<1>2. promise # None => promise \in DOMAIN call /\ call'[promise].open = call[promise].open
  BY DEF Moves, VectorType
<1>3. promise # None
  BY <1>1 DEF Opening
<1>4. \A d \in DOMAIN call :
        /\ call'[d].open # "no" => d = promise
        /\ call'[d].at = "waits" => call[d].at = "waits" /\ call'[d].on = call[d].on
  BY DEF Opening, Moves
<1> QED
  BY <1>1, <1>2, <1>3, <1>4 DEF Opening, Moves

LEMMA RunsKeeps ==
  ASSUME Core, Runs
  PROVE  /\ Core' /\ DOMAIN call' = DOMAIN call
         /\ \A d \in DOMAIN call : /\ call'[d].op = call[d].op
                                   /\ call[d].at \notin Over => call'[d].at \notin Over
<1> DEFINE c == Head(chain)
<1>1. /\ chain # <<>> /\ call[c].at = "queued" /\ call' = [call EXCEPT ![c].at = "runs"]
      /\ lance' = lance \cup {c} /\ UNCHANGED <<table, promise, exists, chain, rows>>
  BY DEF Runs
<1>2. chain \in Seq(Nat) /\ c = chain[1] /\ 1 \in DOMAIN chain /\ c \in DOMAIN call
  <2>1. chain \in Seq(Nat) /\ c = chain[1] /\ 1 \in DOMAIN chain
    BY <1>1 DEF Core, VectorType
  <2> QED
    BY <2>1 DEF Core, Chained
<1> HIDE DEF c
<1>3. Moves(c, "runs")
  BY <1>1, <1>2, AtOnly DEF Core, At
<1>4. VectorType'
  BY <1>1, <1>2, <1>3 DEF Core, VectorType, Moves
<1>5. Opening'
  BY <1>1, <1>2, <1>3, OpeningStays DEF Core
<1>6. Chained'
  <2>1. \A i \in DOMAIN chain : i # 1 => chain[i] # c
    <3>1. \A i \in DOMAIN chain : i # 1 => 1 < i
      BY <1>2
    <3>2. \A i \in DOMAIN chain : chain[i] \in Nat
      BY <1>2
    <3> QED
      BY <1>2, <3>1, <3>2 DEF Core, Chained, Rising
  <2>2. \A i \in DOMAIN chain : chain[i] \in DOMAIN call' /\ (i # 1 => call'[chain[i]].at = "queued")
    BY <1>3, <2>1 DEF Core, Chained, Moves
  <2>3. ASSUME NEW d \in DOMAIN call
        PROVE  /\ Has(chain, d) <=> Exclusive(call'[d].op) /\ call'[d].at \in {"queued", "runs"}
               /\ call'[d].at = "queued" => Exclusive(call'[d].op)
               /\ d \in lance' <=> call'[d].at = "runs"
    <3>1. d # c => call'[d].op = call[d].op /\ call'[d].at = call[d].at /\ (d \in lance' <=> d \in lance)
      BY <1>1, <1>3 DEF Moves
    <3>2. d = c => call'[d].op = call[d].op /\ call'[d].at = "runs" /\ d \in lance' /\ call[d].at = "queued"
      BY <1>1, <1>3 DEF Moves
    <3> QED
      BY <3>1, <3>2 DEF Core, Chained
  <2> QED
    BY <1>1, <1>3, <2>2, <2>3 DEF Core, Chained, Moves
<1>7. \A d \in DOMAIN call : call'[d].at = "done" <=> call[d].at = "done"
  BY <1>1, <1>2, <1>3 DEF Moves
<1>8. DoneBefore'
  BY <1>1, <1>3, <1>7 DEF Core, DoneBefore, Moves
<1>9. WritesInOrder'
  <2>1. ASSUME NEW p PROVE Did(call, p)' = Did(call, p)
    BY <1>3, <1>7 DEF Did, Moves
  <2> QED
    BY <1>1, <2>1, EffectStays DEF Core
<1> QED
  BY <1>3, <1>4, <1>5, <1>6, <1>8, <1>9 DEF Core, Moves, Over

(* A call leaves the database: done, or rejected.                          *)
LEMMA LeavesKeeps ==
  ASSUME Core, NEW c \in lance, NEW at \in {"done", "rejected"}, Moves(c, at),
         chain' = After(c), lance' = lance \ {c}, UNCHANGED <<table, promise, exists>>
  PROVE  VectorType' /\ Opening' /\ Chained' /\ DoneBefore'
<1>1. VectorType /\ Opening /\ Chained /\ DoneBefore /\ c \in DOMAIN call /\ call[c].at = "runs"
  BY DEF Core, VectorType, Chained
<1>2. /\ chain' \in Seq(Nat) /\ Rising(chain')
      /\ \A d \in DOMAIN call : Has(chain', d) <=> Has(chain, d) /\ d # c
      /\ \A i \in DOMAIN chain' : chain'[i] \in DOMAIN call /\ Has(chain, chain'[i])
      /\ \A i \in DOMAIN chain' : i # 1 => call[chain'[i]].at = "queued"
      /\ Exclusive(call[c].op) => \A i \in DOMAIN chain' : c < chain'[i]
  BY <1>1, LeavesChain
<1>3. VectorType'
  BY <1>1, <1>2 DEF VectorType, Moves
<1>4. Opening'
  BY <1>1, OpeningStays
<1>5. Chained'
  <2>1. ASSUME NEW d \in DOMAIN call
        PROVE  /\ Has(chain', d) <=> Exclusive(call'[d].op) /\ call'[d].at \in {"queued", "runs"}
               /\ call'[d].at = "queued" => Exclusive(call'[d].op)
               /\ d \in lance' <=> call'[d].at = "runs"
    <3>1. CASE d = c
      BY <1>2, <3>1 DEF Moves
    <3>2. CASE d # c
      <4>1. (Has(chain', d) <=> Has(chain, d)) /\ (d \in lance' <=> d \in lance)
        BY <1>2, <3>2
      <4> QED
        BY <1>1, <3>2, <4>1 DEF Chained, Moves
    <3> QED
      BY <3>1, <3>2
  <2>2. ASSUME NEW i \in DOMAIN chain', i # 1 PROVE call'[chain'[i]].at = "queued"
    <3>1. chain'[i] \in DOMAIN call /\ call[chain'[i]].at = "queued"
      BY <1>2, <2>2
    <3>2. chain'[i] # c
      BY <1>1, <3>1
    <3> QED
      BY <3>1, <3>2 DEF Moves
  <2> QED
    BY <1>2, <2>1, <2>2 DEF Chained, Moves
<1>6. DoneBefore'
  <2> SUFFICES ASSUME NEW d \in DOMAIN call, Exclusive(call'[d].op), call'[d].at = "done",
                      NEW i \in DOMAIN chain'
               PROVE  d < chain'[i]
    BY DEF DoneBefore, Moves
  <2>1. CASE d = c
    BY <1>2, <2>1 DEF Moves
  <2>2. CASE d # c
    <3>1. call[d].at = "done" /\ Exclusive(call[d].op)
      BY <2>2 DEF Moves
    <3>2. PICK j \in DOMAIN chain : chain[j] = chain'[i]
      BY <1>2 DEF Has
    <3> QED
      BY <1>1, <3>1, <3>2 DEF DoneBefore
  <2> QED
    BY <2>1, <2>2
<1> QED
  BY <1>3, <1>4, <1>5, <1>6

(* A write that is done is the last that is.                               *)
LEMMA LastDone ==
  ASSUME Core, NEW c \in lance, Exclusive(call[c].op)
  PROVE  \A d \in DOMAIN call : Exclusive(call[d].op) /\ call[d].at = "done" => d < c
<1>1. c \in DOMAIN call /\ call[c].at = "runs"
  BY DEF Core, VectorType, Chained
<1>2. PICK i \in DOMAIN chain : chain[i] = c
  BY <1>1 DEF Core, Chained, Has
<1> QED
  BY <1>2 DEF Core, DoneBefore

LEMMA ResolvesKeeps ==
  ASSUME Core, NEW c \in DOMAIN call, Resolves(c)
  PROVE  Core' /\ Moves(c, "done")
<1>1. /\ c \in lance /\ call' = [call EXCEPT ![c].at = "done"] /\ rows' = Written(c)
      /\ lance' = lance \ {c} /\ chain' = After(c) /\ UNCHANGED <<table, promise, exists>>
  BY DEF Resolves
<1>2. call[c].at = "runs" /\ call[c] \in VectorCall /\ \A d \in DOMAIN call : d \in Nat
  BY <1>1, Length DEF Core, Chained
<1>3. Moves(c, "done")
  BY <1>1, AtOnly DEF Core, At
<1>4. VectorType' /\ Opening' /\ Chained' /\ DoneBefore'
  BY <1>1, <1>3, LeavesKeeps
<1>5. ASSUME NEW p
      PROVE  Did(call, p)' = IF call[c].op = p THEN Did(call, p) \cup {c} ELSE Did(call, p)
  BY <1>3 DEF Did, Moves
<1>6. rows = Effect(call)
  BY DEF Core, WritesInOrder
<1>7. WritesInOrder'
  <2>1. CASE call[c].op = "upsert"
    <3>1. Did(call, "upsert")' = Did(call, "upsert") \cup {c} /\ Did(call, "delete")' = Did(call, "delete")
      BY <1>5, <2>1
    <3>2. \A d \in Did(call, "delete") : d < c
      <4>1. Exclusive(call[c].op)
        BY <2>1 DEF Exclusive
      <4> QED
        BY <1>1, <4>1, LastDone DEF Did, Exclusive
    <3>3. rows' = rows \cup {c}
      BY <1>1, <2>1 DEF Written
    <3> QED
      BY <1>6, <3>1, <3>2, <3>3 DEF WritesInOrder, Effect
  <2>2. CASE call[c].op = "delete"
    <3>1. Did(call, "upsert")' = Did(call, "upsert") /\ Did(call, "delete")' = Did(call, "delete") \cup {c}
      BY <1>5, <2>2
    <3>2. \A d \in Did(call, "upsert") : d < c /\ d \in Nat
      <4>1. Exclusive(call[c].op)
        BY <2>2 DEF Exclusive
      <4> QED
        BY <1>1, <1>2, <4>1, LastDone DEF Did, Exclusive
    <3>3. rows' = {}
      BY <1>1, <2>2 DEF Written
    <3>4. \A d \in Did(call, "upsert") : ~(c < d)
      BY <1>2, <3>2
    <3> QED
      BY <3>1, <3>3, <3>4 DEF WritesInOrder, Effect
  <2>3. CASE call[c].op \notin {"upsert", "delete"}
    <3>1. rows' = rows
      BY <1>1, <2>3 DEF Written
    <3> QED
      BY <1>5, <2>3, <3>1, EffectStays DEF Core
  <2> QED
    BY <2>1, <2>2, <2>3
<1> QED
  BY <1>3, <1>4, <1>7 DEF Core

LEMMA RejectsKeeps ==
  ASSUME Core, NEW c \in DOMAIN call, Rejects(c)
  PROVE  Core' /\ \E at \in {"done", "rejected"} : Moves(c, at)
<1> DEFINE at == IF call[c].op = "index" THEN "done" ELSE "rejected"
<1>1. /\ c \in lance /\ call' = [call EXCEPT ![c].at = at]
      /\ lance' = lance \ {c} /\ chain' = After(c) /\ UNCHANGED <<table, promise, exists, rows>>
  BY DEF Rejects, Advances
<1>2. at \in {"done", "rejected"} /\ (at = "done" => call[c].op = "index")
  OBVIOUS
<1> HIDE DEF at
<1>3. Moves(c, at)
  BY <1>1, <1>2, AtOnly DEF Core, At
<1>4. VectorType' /\ Opening' /\ Chained' /\ DoneBefore'
  BY <1>1, <1>2, <1>3, LeavesKeeps
<1>5. call[c].at = "runs"
  BY <1>1 DEF Core, Chained
<1>6. WritesInOrder'
  <2>1. ASSUME NEW p \in {"upsert", "delete"} PROVE Did(call, p)' = Did(call, p)
    <3>1. ASSUME NEW d \in DOMAIN call
          PROVE  call'[d].op = p /\ call'[d].at = "done" <=> call[d].op = p /\ call[d].at = "done"
      BY <1>2, <1>3, <1>5 DEF Moves
    <3> QED
      BY <1>3, <3>1 DEF Did, Moves
  <2> QED
    BY <1>1, <2>1, EffectStays DEF Core
<1> QED
  BY <1>2, <1>3, <1>4, <1>6 DEF Core

-----------------------------------------------------------------------------
(* Every call goes on, and those outside s do not settle.                  *)
GoOn(s) ==
  /\ DOMAIN call \subseteq DOMAIN call'
  /\ \A c \in DOMAIN call : /\ call'[c].op = call[c].op
                            /\ c \notin s /\ call[c].at \notin Over => call'[c].at \notin Over

LEMMA StatusStays ==
  ASSUME Status, GoOn({}), UNCHANGED <<banner, schedule>>
  PROVE  Status'
<1>1. BannerEnds'
  BY DEF Status, BannerEnds, Unsettled, GoOn
<1>2. LoopType'
  BY DEF Status, LoopType, GoOn
<1>3. CompactionGoesOn'
  BY DEF Status, CompactionGoesOn, LoopType, Unsettled, GoOn
<1> QED
  BY <1>1, <1>2, <1>3 DEF Status

LEMMA StatusAfter ==
  ASSUME Status, NEW s, GoOn(s), StatusSettles(call, s)
  PROVE  Status'
<1>1. /\ banner' <=> banner /\ ~\E c \in s : call[c].op = "compact"
      /\ schedule' = Rearmed(s)
  BY DEF StatusSettles
<1>2. /\ schedule \in [timer : {"off", "armed", "runs", "stopped"}, run : Nat, interval : {0, 1}]
      /\ schedule.timer = "runs" => schedule.run \in DOMAIN call /\ Unsettled(schedule.run)
      /\ schedule.timer = "off" => schedule.interval = 0
  BY DEF Status, LoopType, CompactionGoesOn
<1>3. BannerEnds'
  <2> SUFFICES ASSUME banner' PROVE \E c \in DOMAIN call' : call'[c].op = "compact" /\ call'[c].at \notin Over
    BY DEF BannerEnds, Unsettled
  <2>1. banner /\ \A c \in s : call[c].op # "compact"
    BY <1>1
  <2>2. PICK c \in DOMAIN call : call[c].op = "compact" /\ call[c].at \notin Over
    BY <2>1 DEF Status, BannerEnds, Unsettled
  <2>3. c \notin s
    BY <2>1, <2>2
  <2> QED
    BY <2>2, <2>3 DEF GoOn
<1>4. CASE schedule.run \notin s
  <2>1. schedule' = schedule
    BY <1>1, <1>4 DEF Rearmed
  <2>2. schedule.timer = "runs" => schedule.run \in DOMAIN call' /\ call'[schedule.run].at \notin Over
    BY <1>2, <1>4 DEF GoOn, Unsettled
  <2> QED
    BY <1>2, <1>3, <2>1, <2>2 DEF Status, LoopType, CompactionGoesOn, Unsettled
<1>5. CASE schedule.run \in s
  <2> DEFINE timer == IF schedule.timer = "stopped" THEN "stopped"
                      ELSE IF schedule.interval > 0 THEN "armed" ELSE "off"
  <2>1. schedule' = [schedule EXCEPT !.run = 0, !.timer = timer]
    BY <1>1, <1>5 DEF Rearmed
  <2>2. timer \in {"off", "armed", "stopped"} /\ (timer = "off" => schedule.interval = 0)
    BY <1>2
  <2> HIDE DEF timer
  <2>3. /\ schedule' \in [timer : {"off", "armed", "runs", "stopped"}, run : Nat, interval : {0, 1}]
        /\ schedule'.timer = timer /\ schedule'.interval = schedule.interval
    BY <1>2, <2>1, <2>2
  <2> QED
    BY <1>3, <2>2, <2>3 DEF Status, LoopType, CompactionGoesOn
<1> QED
  BY <1>4, <1>5

(* A compaction is asked for.                                              *)
LEMMA CompactStatus ==
  ASSUME Core, Status, CompactVectors
  PROVE  /\ GoOn({}) /\ BannerEnds'
         /\ Len(call') \in DOMAIN call' /\ Len(call') \in Nat
<1>1. Make("compact") /\ VectorType /\ "compact" \in Op
  BY DEF CompactVectors, Core, Op
<1>2. PICK r \in VectorCall : Grows(r) /\ r.op = "compact"
  BY <1>1, MakeGrows
<1>3. GoOn({})
  BY <1>2 DEF GoOn, Grows
<1>4. Len(call') \in DOMAIN call' /\ Len(call') \in Nat /\ call'[Len(call')].op = "compact"
  BY <1>1, <1>2, Length DEF Grows
<1>5. BannerEnds'
  <2> SUFFICES ASSUME banner' PROVE \E c \in DOMAIN call' : call'[c].op = "compact" /\ call'[c].at \notin Over
    BY DEF BannerEnds, Unsettled
  <2>1. CASE call'[Len(call')].at \notin Over
    BY <1>4, <2>1
  <2>2. CASE ~(call'[Len(call')].at \notin Over)
    <3>1. banner
      BY <2>2 DEF CompactVectors
    <3>2. PICK c \in DOMAIN call : call[c].op = "compact" /\ call[c].at \notin Over
      BY <3>1 DEF Status, BannerEnds, Unsettled
    <3> QED
      BY <1>3, <3>2 DEF GoOn
  <2> QED
    BY <2>1, <2>2
<1> QED
  BY <1>3, <1>4, <1>5

LEMMA TimerKeeps ==
  ASSUME VectorInv, TimerFires
  PROVE  VectorInv'
<1>1. Core /\ Status
  BY DEF VectorInv
<1>2. /\ schedule \in [timer : {"off", "armed", "runs", "stopped"}, run : Nat, interval : {0, 1}]
      /\ schedule.timer = "armed"
  BY <1>1 DEF Status, LoopType, TimerFires
<1>3. CASE /\ schedule' = RetriesBusy
           /\ UNCHANGED <<call, table, promise, exists, chain, lance, rows, banner>>
  <2>1. UNCHANGED vectorVars
    BY <1>3 DEF RetriesBusy, vectorVars
  <2> QED
    BY <2>1 DEF VectorInv, Core, Status, VectorType, Opening, Chained, DoneBefore, WritesInOrder,
                Effect, Did, BannerEnds, CompactionGoesOn, LoopType, Unsettled, vectorVars
<1>4. CASE /\ CompactVectors
           /\ schedule' = IF call'[Len(call')].at \in Over
                          THEN [schedule EXCEPT !.timer = IF schedule.interval > 0 THEN "armed" ELSE "off"]
                          ELSE [schedule EXCEPT !.timer = "runs", !.run = Len(call')]
  <2>1. Core'
    BY <1>1, <1>4, MakeKeeps DEF CompactVectors, Op
  <2>2. BannerEnds' /\ Len(call') \in DOMAIN call' /\ Len(call') \in Nat
    BY <1>1, <1>4, CompactStatus
  <2>3. CASE call'[Len(call')].at \in Over
    <3> DEFINE timer == IF schedule.interval > 0 THEN "armed" ELSE "off"
    <3>1. schedule' = [schedule EXCEPT !.timer = timer]
      BY <1>4, <2>3
    <3>2. timer \in {"off", "armed"} /\ (timer = "off" => schedule.interval = 0)
      BY <1>2
    <3> HIDE DEF timer
    <3>3. /\ schedule' \in [timer : {"off", "armed", "runs", "stopped"}, run : Nat, interval : {0, 1}]
          /\ schedule'.timer = timer /\ schedule'.interval = schedule.interval
      BY <1>2, <3>1, <3>2
    <3>4. LoopType' /\ CompactionGoesOn'
      BY <3>2, <3>3 DEF LoopType, CompactionGoesOn
    <3> QED
      BY <2>1, <2>2, <3>4 DEF VectorInv, Status
  <2>4. CASE call'[Len(call')].at \notin Over
    <3>1. schedule' = [schedule EXCEPT !.timer = "runs", !.run = Len(call')]
      BY <1>4, <2>4
    <3>2. /\ schedule' \in [timer : {"off", "armed", "runs", "stopped"}, run : Nat, interval : {0, 1}]
          /\ schedule'.timer = "runs" /\ schedule'.run = Len(call')
      BY <1>2, <2>2, <3>1
    <3>3. LoopType' /\ CompactionGoesOn'
      BY <2>2, <2>4, <3>2 DEF LoopType, CompactionGoesOn, Unsettled
    <3> QED
      BY <2>1, <2>2, <3>3 DEF VectorInv, Status
  <2> QED
    BY <2>3, <2>4
<1> QED
  BY <1>3, <1>4 DEF TimerFires

LEMMA OthersKeeps ==
  ASSUME VectorInv, Others
  PROVE  VectorInv'
<1>1. UNCHANGED <<call, table, promise, exists, chain, lance, rows, banner>>
  BY DEF Others
<1>2. Core'
  BY <1>1 DEF VectorInv, Core, VectorType, Opening, Chained, DoneBefore, WritesInOrder, Effect, Did
<1>3. schedule \in [timer : {"off", "armed", "runs", "stopped"}, run : Nat, interval : {0, 1}]
  BY DEF VectorInv, Status, LoopType
<1>4. CASE schedule' = [schedule EXCEPT !.interval = 0]
  <2>1. /\ schedule' \in [timer : {"off", "armed", "runs", "stopped"}, run : Nat, interval : {0, 1}]
        /\ schedule'.timer = schedule.timer /\ schedule'.run = schedule.run /\ schedule'.interval = 0
    BY <1>3, <1>4
  <2> QED
    BY <1>1, <1>2, <2>1 DEF VectorInv, Status, BannerEnds, CompactionGoesOn, LoopType, Unsettled
<1>5. CASE schedule' = [schedule EXCEPT !.timer = "stopped"]
  <2>1. /\ schedule' \in [timer : {"off", "armed", "runs", "stopped"}, run : Nat, interval : {0, 1}]
        /\ schedule'.timer = "stopped"
    BY <1>3, <1>5
  <2> QED
    BY <1>1, <1>2, <2>1 DEF VectorInv, Status, BannerEnds, CompactionGoesOn, LoopType, Unsettled
<1> QED
  BY <1>4, <1>5 DEF Others

LEMMA VectorNextInv ==
  ASSUME VectorInv, [VectorNext]_vectorVars
  PROVE  VectorInv'
<1>1. Core /\ Status
  BY DEF VectorInv
<1>2. ASSUME NEW o \in Op, Request(o) PROVE VectorInv'
  <2>1. Make(o) /\ UNCHANGED <<banner, schedule>> /\ VectorType
    BY <1>1, <1>2 DEF Request, Core
  <2>2. PICK r \in VectorCall : Grows(r)
    BY <2>1, MakeGrows
  <2>3. GoOn({})
    BY <2>2 DEF GoOn, Grows
  <2> QED
    BY <1>1, <2>1, <2>3, MakeKeeps, StatusStays DEF VectorInv
<1>3. ASSUME ApiCompact PROVE VectorInv'
  <2>1. CompactVectors /\ schedule' = schedule
    BY <1>3 DEF ApiCompact
  <2>2. Core'
    BY <1>1, <2>1, MakeKeeps DEF CompactVectors, Op
  <2>3. GoOn({}) /\ BannerEnds'
    BY <1>1, <2>1, CompactStatus
  <2>4. LoopType' /\ CompactionGoesOn'
    BY <1>1, <2>1, <2>3 DEF Status, LoopType, CompactionGoesOn, Unsettled, GoOn
  <2> QED
    BY <2>2, <2>3, <2>4 DEF VectorInv, Status
<1>4. ASSUME Runs PROVE VectorInv'
  <2>1. Core' /\ GoOn({})
    BY <1>1, <1>4, RunsKeeps DEF GoOn
  <2> QED
    BY <1>1, <1>4, <2>1, StatusStays DEF VectorInv, Runs
<1>5. ASSUME NEW c \in DOMAIN call, ListsNames(c) \/ CreatesTable(c) PROVE VectorInv'
  <2>1. Core'
    BY <1>1, <1>5, ListsKeeps, CreatesKeeps
  <2>2. UNCHANGED <<banner, schedule>>
    BY <1>5 DEF ListsNames, CreatesTable, Opened
  <2>3. GoOn({})
    <3>1. CASE \E x \in {"open"} : Opened(c, [call EXCEPT ![c].open = x])
      <4>1. Opened(c, [call EXCEPT ![c].open = "open"])
        BY <3>1
      <4> QED
        BY <1>1, <4>1, OpenedGoes DEF GoOn
    <3>2. CASE call' = [call EXCEPT ![c].open = "creates"]
      BY <1>1, <3>2 DEF GoOn, Core, VectorType, VectorCall
    <3> QED
      BY <1>5, <3>1, <3>2 DEF ListsNames, CreatesTable
  <2> QED
    BY <1>1, <2>1, <2>2, <2>3, StatusStays DEF VectorInv
<1>6. ASSUME NEW c \in DOMAIN call, OpenFails(c) PROVE VectorInv'
  <2>1. Core' /\ GoOn(Waiters(c))
    BY <1>1, <1>6, OpenFailsKeeps DEF GoOn
  <2>2. StatusSettles(call, Waiters(c))
    BY <1>6 DEF OpenFails
  <2> QED
    BY <1>1, <2>1, <2>2, StatusAfter DEF VectorInv
<1>7. ASSUME NEW c \in DOMAIN call, Resolves(c) \/ Rejects(c) PROVE VectorInv'
  <2>1. Core' /\ \E at \in At : Moves(c, at)
    BY <1>1, <1>7, ResolvesKeeps, RejectsKeeps DEF At
  <2>2. GoOn({c})
    BY <2>1 DEF GoOn, Moves
  <2>3. StatusSettles(call, {c})
    BY <1>7 DEF Resolves, Rejects
  <2> QED
    BY <1>1, <2>1, <2>2, <2>3, StatusAfter DEF VectorInv
<1>8. ASSUME UNCHANGED vectorVars PROVE VectorInv'
  BY <1>8 DEF VectorInv, Core, Status, VectorType, Opening, Chained, DoneBefore, WritesInOrder,
              Effect, Did, BannerEnds, CompactionGoesOn, LoopType, Unsettled, vectorVars
<1> QED
  BY <1>2, <1>3, TimerKeeps, <1>4, OthersKeeps, <1>5, <1>6, <1>7, <1>8 DEF VectorNext

LEMMA VectorInvSound ==
  ASSUME VectorInv
  PROVE  VectorStoreIsSound
<1>1. Core /\ Status
  BY DEF VectorInv
<1>2. OneTable
  <2> SUFFICES ASSUME NEW c \in DOMAIN call, call[c].open = "raced" PROVE FALSE
    BY DEF OneTable
  <2>1. c = promise /\ promise \in Nat
    BY <1>1, Length DEF Core, Opening
  <2>2. promise # None
    BY <2>1, VectorAssumption
  <2> QED
    BY <1>1, <2>1, <2>2 DEF Core, Opening
<1>3. OneWriter
  <2> SUFFICES ASSUME NEW c \in lance, NEW d \in lance, call[c].op # "query", call[d].op # "query"
               PROVE  c = d
    BY DEF OneWriter
  <2>1. ASSUME NEW e \in lance, call[e].op # "query" PROVE e = chain[1]
    <3>1. e \in DOMAIN call /\ call[e].at = "runs" /\ call[e] \in VectorCall
      BY <1>1, Length DEF Core, VectorType, Chained
    <3>2. Exclusive(call[e].op)
      BY <2>1, <3>1 DEF Exclusive, VectorCall, Op
    <3>3. PICK i \in DOMAIN chain : chain[i] = e
      BY <1>1, <3>1, <3>2 DEF Core, Chained, Has
    <3>4. i = 1
      BY <1>1, <3>1, <3>3 DEF Core, Chained
    <3> QED
      BY <3>3, <3>4
  <2> QED
    BY <2>1
<1> QED
  BY <1>1, <1>2, <1>3 DEF VectorStoreIsSound, Core, Status

(* The vector store is sound (vectors.ts, container.ts): the table is      *)
(* created once however many callers come before it is open, one write is  *)
(* in the database at a time, writes take effect in the order in which     *)
(* they were asked for, the status shows a compaction only while there is  *)
(* one and the loop goes on.                                               *)
THEOREM VectorStoreIsSafe == VectorSpec => []VectorStoreIsSound
<1>1. VectorInit => VectorInv
  BY VectorInitInv
<1>2. VectorInv /\ [VectorNext]_vectorVars => VectorInv'
  BY VectorNextInv
<1>3. VectorInv => VectorStoreIsSound
  BY VectorInvSound
<1> QED
  BY <1>1, <1>2, <1>3, PTL DEF VectorSpec

-----------------------------------------------------------------------------
(* The query page (use-url-query.ts).  What may be answered last and what  *)
(* is shown are of the parameters fired last, which are the URL's unless   *)
(* the effect still has to look at it.                                     *)
Reqs == [q : {"a"}, limit : {5, 10}]

FormInv ==
  /\ v1 \in Form!Url /\ v2 \in BOOLEAN /\ v4 \in Nat /\ v8 \in {0, 1}
  /\ \A f \in v5 : f.id \in Nat /\ f.id <= v4 /\ f.req \in Reqs
  /\ \A f \in v5 : f.id = v4 => Form!encode(f.req) = v3
  /\ v6 = "done" => v7 \in Reqs /\ Form!encode(v7) = v3
  /\ (v8 = 1 \/ ~v2) /\ Form!decode(v1) # None => v3 = Form!encode(Form!decode(v1))

LEMMA Codecs ==
  /\ \A u \in Form!Url : Form!decode(u) = None \/ Form!decode(u) \in Reqs
  /\ \A r \in Reqs : r # None /\ Form!encode(r) \in Form!Url /\ Form!decode(Form!encode(r)) = r
  /\ \A w \in Form!Word, limit \in Form!Spelling :
       LET req == [q |-> Form!Trim(w), limit |-> Form!Parsed(limit)] IN
       /\ Form!encode(req) \in Form!Url
       /\ req \in Reqs \/ Form!decode(Form!encode(req)) = None
<1>1. \A r \in Reqs : r # None /\ r.q = "a" /\ r.limit \in {5, 10} /\ r = [q |-> "a", limit |-> r.limit]
  BY PagesAssumption DEF Reqs
<1>2. \A r \in Reqs :
        /\ Form!encode(r) = [q |-> "a", limit |-> IF r.limit = 10 THEN "" ELSE "5"]
        /\ Form!encode(r) \in Form!Url
  BY <1>1 DEF Form!encode, Form!SEARCH_DEFAULT_LIMIT, Form!Url, Form!Word, Form!Spelling
<1>3. \A r \in Reqs : Form!decode(Form!encode(r)) = r
  <2> SUFFICES ASSUME NEW r \in Reqs PROVE Form!decode(Form!encode(r)) = r
    OBVIOUS
  <2>1. Form!Trim("a") = "a" /\ "a" # "" /\ Form!Parsed("") = 10 /\ Form!Parsed("5") = 5
    BY DEF Form!Trim, Form!Parsed, Form!SEARCH_DEFAULT_LIMIT
  <2>2. \A x \in {"", "5"} :
          Form!decode([q |-> "a", limit |-> x]) = [q |-> "a", limit |-> Form!Parsed(x)]
    BY <2>1 DEF Form!decode
  <2>3. CASE r.limit = 10
    BY <1>1, <1>2, <2>1, <2>2, <2>3
  <2>4. CASE r.limit = 5
    BY <1>1, <1>2, <2>1, <2>2, <2>4
  <2> QED
    BY <1>1, <2>3, <2>4
<1>4. \A u \in Form!Url : Form!decode(u) = None \/ Form!decode(u) \in Reqs
  BY DEF Form!decode, Form!Trim, Form!Parsed, Form!SEARCH_DEFAULT_LIMIT, Form!Url, Form!Word, Reqs
<1>5. ASSUME NEW w \in Form!Word, NEW limit \in Form!Spelling, NEW req,
             req = [q |-> Form!Trim(w), limit |-> Form!Parsed(limit)]
      PROVE  /\ Form!encode(req) \in Form!Url
             /\ req \in Reqs \/ Form!decode(Form!encode(req)) = None
  <2>1. Form!Trim(w) \in {"", "a"} /\ Form!Parsed(limit) \in {5, 10}
    BY DEF Form!Word, Form!Trim, Form!Parsed, Form!SEARCH_DEFAULT_LIMIT
  <2>2. CASE Form!Trim(w) = "a"
    BY <1>2, <1>5, <2>1, <2>2 DEF Reqs
  <2>3. CASE Form!Trim(w) = ""
    BY <1>5, <2>1, <2>3
    DEF Form!encode, Form!decode, Form!Trim, Form!Url, Form!Word, Form!Spelling
  <2> QED
    BY <2>1, <2>2, <2>3
<1>6. \A r \in Reqs : r # None /\ Form!encode(r) \in Form!Url
  BY <1>1, <1>2
<1> QED
  BY <1>3, <1>4, <1>5, <1>6

LEMMA FormInitInv ==
  ASSUME Form!Init
  PROVE  FormInv
<1>1. /\ v1 \in Form!Url /\ v2 = TRUE /\ v4 = 0 /\ v5 = {} /\ v6 = "idle" /\ v8 = 0
  BY DEF Form!Init
<1> QED
  BY <1>1 DEF FormInv

LEMMA FormNextInv ==
  ASSUME FormInv, [Form!Next]_(Form!vars)
  PROVE  FormInv'
<1>1. ASSUME NEW w \in Form!Word, NEW limit \in Form!Spelling, Form!Submit(w, limit) PROVE FormInv'
  <2> DEFINE req == [q |-> Form!Trim(w), limit |-> Form!Parsed(limit)]
  <2>1. /\ v1' = Form!encode(req) /\ v3' = Form!encode(req) /\ v4' = v4 + 1 /\ v2' \in BOOLEAN
        /\ IF Form!decode(Form!encode(req)) = None
           THEN v6' = "idle" /\ v5' = v5 /\ v8' = 0
           ELSE v6' = "busy" /\ v5' = v5 \cup {[id |-> v4 + 1, req |-> req]} /\ v8' = 1
    BY <1>1 DEF Form!Submit, Form!Handed, Form!fire, Form!clear
  <2>2. /\ Form!encode(req) \in Form!Url
        /\ req \in Reqs \/ Form!decode(Form!encode(req)) = None
        /\ req \in Reqs => Form!decode(Form!encode(req)) = req
    BY Codecs
  <2> HIDE DEF req
  <2> QED
    BY <2>1, <2>2 DEF FormInv
<1>2. ASSUME NEW u \in Form!Url, Form!Navigates(u) PROVE FormInv'
  BY <1>2 DEF FormInv, Form!Navigates
<1>3. CASE Form!AutoFires
  <2> DEFINE req == Form!decode(v1)
  <2>1. v1' = v1 /\ v2' = FALSE /\ v1 \in Form!Url /\ (req = None \/ req \in Reqs)
    BY <1>3, Codecs DEF Form!AutoFires, FormInv
  <2>2. CASE req = None \/ v3 = Form!encode(req)
    BY <1>3, <2>1, <2>2 DEF Form!AutoFires, FormInv
  <2>3. CASE ~(req = None \/ v3 = Form!encode(req))
    <3>1. /\ v3' = Form!encode(req) /\ v4' = v4 + 1 /\ v6' = "busy" /\ v8' = v8 + 1
          /\ v5' = v5 \cup {[id |-> v4 + 1, req |-> req]}
      BY <1>3, <2>3 DEF Form!AutoFires, Form!fire
    <3>2. v8 = 0 /\ req \in Reqs
      BY <2>1, <2>3 DEF FormInv
    <3>3. \A f \in v5' : f \in v5 \/ (f.id = v4 + 1 /\ f.req = req)
      BY <3>1
    <3> HIDE DEF req
    <3>4. v4 \in Nat /\ \A f \in v5 : f.id \in Nat /\ f.id <= v4 /\ f.req \in Reqs
      BY DEF FormInv
    <3>5. \A f \in v5' : f.id \in Nat /\ f.id <= v4' /\ f.req \in Reqs
      BY <3>1, <3>2, <3>3, <3>4
    <3>6. ASSUME NEW f \in v5', f.id = v4' PROVE Form!encode(f.req) = v3'
      <4>1. f.req = req
        BY <3>1, <3>3, <3>4, <3>6
      <4> QED
        BY <3>1, <4>1, Zenon
    <3>7. v1' \in Form!Url /\ v2' \in BOOLEAN
      BY <2>1, Zenon
    <3>8. v4' \in Nat /\ v8' = 1 /\ v6' # "done"
      BY <3>1, <3>2, <3>4
    <3>9. Form!decode(v1') = req
      BY <2>1 DEF req
    <3> QED
      BY <3>1, <3>5, <3>6, <3>7, <3>8, <3>9 DEF FormInv
  <2> QED
    BY <2>2, <2>3
<1>4. ASSUME NEW f \in v5, Form!Answered(f) PROVE FormInv'
  BY <1>4 DEF FormInv, Form!Answered, Form!Latest
<1>5. CASE UNCHANGED Form!vars
  BY <1>5 DEF FormInv, Form!vars
<1> QED
  BY <1>1, <1>2, <1>3, <1>4, <1>5 DEF Form!Next

LEMMA FormInvSound ==
  ASSUME FormInv
  PROVE  Form!ShowsItsUrl /\ Form!FiresOnce
<1>1. Form!FiresOnce
  BY DEF FormInv, Form!FiresOnce
<1>2. ASSUME v6 = "done", ~v2, Form!decode(v1) # None PROVE v7 = Form!decode(v1)
  <2>1. v7 \in Reqs /\ Form!decode(v1) \in Reqs /\ Form!encode(v7) = Form!encode(Form!decode(v1))
    BY <1>2, Codecs DEF FormInv
  <2> QED
    BY <2>1, Codecs
<1> QED
  BY <1>1, <1>2 DEF Form!ShowsItsUrl


(* The view of a rebuild (rebuild-tracker.ts, api/projects.ts).            *)
Jobs == [status : {"running", "done", "failed"}, indexed : Nat, total : Nat \cup {None},
         started : Int, completed : Int \cup {None}]

ViewInv ==
  /\ v1 \in Int /\ v2 \in Jobs \cup {None}
  /\ v6 \in SUBSET (1..Total)
  /\ v7 \in {None, View!Wiping} \cup 0..Total
  /\ v7 # None => v2 # None /\ v2.status = "running" /\ v2.completed = None
  /\ v2 # None /\ v2.status = "running" => v2.completed = None
  /\ View!EndsAreTold

(* The tracker's job, when it is read.                                     *)
LEMMA JobFields ==
  ASSUME NEW j \in Jobs
  PROVE  /\ j # None /\ j.status \in {"running", "done", "failed"} /\ j.indexed \in Nat
         /\ j.total \in Nat \cup {None} /\ j.started \in Int /\ j.completed \in Int \cup {None}
BY PagesAssumption DEF Jobs

LEMMA ViewInitInv ==
  ASSUME View!Init
  PROVE  ViewInv
BY PagesAssumption DEF View!Init, ViewInv, View!EndsAreTold

LEMMA ViewNextInv ==
  ASSUME ViewInv, [View!Next]_(View!vars)
  PROVE  ViewInv'
<1>1. CASE View!ApiRebuild
  <2> DEFINE j == [status |-> "running", indexed |-> 0, total |-> None, started |-> v1, completed |-> None]
  <2>1. v2' = j /\ v1' = v1 /\ v6' = {} /\ v7' = View!Wiping
    BY <1>1 DEF View!ApiRebuild, View!Tells
  <2>2. j \in Jobs /\ j.status = "running" /\ j.completed = None
    BY DEF Jobs, ViewInv
  <2>3. j # None
    BY <2>2, JobFields
  <2>4. View!Wiping # None
    BY PagesAssumption DEF View!Wiping
  <2> HIDE DEF j
  <2> QED
    BY <2>1, <2>2, <2>3, <2>4 DEF ViewInv, View!EndsAreTold
<1>2. CASE View!Wipes
  <2>1. UNCHANGED <<v1, v2, v4>> /\ v7 # None /\ v7' = 0 /\ v6' = {} /\ 0 # None
    BY <1>2, PagesAssumption DEF View!Wipes, View!Wiping
  <2> QED
    BY <2>1, PagesAssumption DEF ViewInv, View!EndsAreTold
<1>3. CASE View!Indexes
  <2> DEFINE j == [v2 EXCEPT !.indexed = v7 + 1, !.total = Total]
  <2>1. v7 \in 0..(Total - 1) /\ v7' = v7 + 1 /\ v6' = v6 \cup {v7 + 1} /\ v1' = v1
    BY <1>3 DEF View!Indexes
  <2>2. v7 # None /\ v7' # None /\ v7' \in 0..Total /\ v7 + 1 \in 1..Total
    BY <2>1, PagesAssumption
  <2>3. v2 \in Jobs /\ v2 # None /\ v2.status = "running" /\ v2.completed = None
    BY <2>2 DEF ViewInv
  <2>4. v2' = j
    BY <1>3, <2>3 DEF View!Indexes, View!Tells
  <2>5. v7 + 1 \in Nat /\ Total \in Nat
    BY <2>1, PagesAssumption
  <2>6. j \in Jobs /\ j.status = "running" /\ j.completed = None
    BY <2>3, <2>5 DEF Jobs
  <2>7. j # None
    BY <2>6, JobFields
  <2> HIDE DEF j
  <2> QED
    BY <2>1, <2>2, <2>4, <2>6, <2>7 DEF ViewInv, View!EndsAreTold
<1>4. ASSUME NEW status \in {"done", "failed"}, v7 # None, v7' = None, View!Ends(status),
             UNCHANGED <<v1, v6>>
      PROVE  ViewInv'
  <2> DEFINE j == [v2 EXCEPT !.status = status, !.completed = v1]
  <2>1. v2 \in Jobs /\ v2 # None /\ v1 \in Int
    BY <1>4 DEF ViewInv
  <2>2. v2' = j /\ v4' = [status |-> j.status, indexed |-> j.indexed]
    BY <1>4, <2>1 DEF View!Ends, View!Tells, View!emit, View!Withheld
  <2>3. j \in Jobs /\ j.status = status
    BY <2>1 DEF Jobs
  <2> HIDE DEF j
  <2> QED
    BY <1>4, <2>1, <2>2, <2>3 DEF ViewInv, View!EndsAreTold
<1>5. CASE View!Finishes \/ View!Fails
  <2>1. v7 # None
    BY <1>5, PagesAssumption DEF View!Finishes, View!Fails
  <2> QED
    BY <1>4, <1>5, <2>1 DEF View!Finishes, View!Fails
<1>6. CASE View!LoopComes \/ View!LoopIndexes \/ View!LoopGoes
  BY <1>6 DEF ViewInv, View!EndsAreTold, View!LoopComes, View!LoopIndexes, View!LoopGoes
<1>7. CASE View!Restart
  BY <1>7 DEF ViewInv, View!EndsAreTold, View!Restart
<1>8. CASE View!Elapses
  BY <1>8 DEF ViewInv, View!EndsAreTold, View!Elapses
<1>9. CASE UNCHANGED View!vars
  BY <1>9 DEF ViewInv, View!EndsAreTold, View!vars
<1> QED
  BY <1>1, <1>2, <1>3, <1>5, <1>6, <1>7, <1>8, <1>9 DEF View!Next

(* What runs is shown as running, however the marker and the rows are.     *)
LEMMA RunningIsShown ==
  ASSUME ViewInv, View!Swept # None, View!Swept.status = "running"
  PROVE  View!Runs(View!liveRebuildProgress)
<1> DEFINE j == View!Swept
           since == IF v5 = None THEN 0 ELSE Cardinality(v6)
           Told == [status : {"running", "done", "failed"}, indexed : Nat, total : Nat \cup {None}]
<1>1. j \in Jobs
  BY DEF ViewInv, View!Swept
<1>2. j # None /\ j.status = "running" /\ j.indexed \in Nat /\ j.total \in Nat \cup {None}
  BY <1>1, JobFields
<1>3. since \in Nat
  <2>1. IsFiniteSet(1..Total) /\ v6 \in SUBSET (1..Total)
    <3>1. 1 \in Int /\ Total \in Int
      BY PagesAssumption
    <3> QED
      BY <3>1, FS_Interval DEF ViewInv
  <2>2. IsFiniteSet(v6)
    BY <2>1, FS_Subset
  <2> QED
    BY <2>2, FS_CardinalityType
<1>4. View!liveRebuildProgress = IF since > j.indexed
                                 THEN [status |-> "running", indexed |-> since, total |-> j.total]
                                 ELSE [status |-> "running", indexed |-> j.indexed, total |-> j.total]
  <2>1. j # None /\ j.status = "running"
    BY <1>2
  <2>2. View!Cardinality(v6) = Cardinality(v6)
    BY DEF View!Cardinality, Cardinality
  <2>3. CASE since > j.indexed
    BY <2>1, <2>2, <2>3 DEF View!liveRebuildProgress, View!Progress
  <2>4. CASE ~(since > j.indexed)
    BY <2>1, <2>2, <2>4 DEF View!liveRebuildProgress, View!Progress
  <2> QED
    BY <2>3, <2>4
<1> HIDE DEF j, since
<1>5. View!liveRebuildProgress \in Told /\ View!liveRebuildProgress.status = "running"
  BY <1>2, <1>3, <1>4
<1> QED
  BY <1>5, PagesAssumption DEF View!Runs

LEMMA ViewInvSound ==
  ASSUME ViewInv
  PROVE  View!EndsAreTold /\ View!WorkIsShown /\ View!OfferedIsTaken
<1>1. ASSUME View!Runs(View!liveRebuildProgress)
      PROVE  View!Button = "rebuilding" /\ View!Bell = {"rebuilding"}
  BY <1>1 DEF View!Button, View!RebuildShown, View!Bell, View!Runs
<1>2. View!WorkIsShown
  <2> SUFFICES ASSUME v7 # None
               PROVE  /\ \A n \in 0..1, errors \in 0..1, ever \in BOOLEAN :
                           View!computeHealth("active", n, ever, errors) = "indexing"
                      /\ View!Button = "rebuilding" /\ View!Bell = {"rebuilding"}
    BY DEF View!WorkIsShown
  <2>1. View!Swept # None /\ View!Swept.status = "running"
    BY DEF ViewInv, View!Swept, View!Expired
  <2>2. View!Runs(View!liveRebuildProgress)
    BY <2>1, RunningIsShown
  <2> QED
    BY <1>1, <2>2 DEF View!computeHealth
<1>3. View!OfferedIsTaken
  BY <1>1, RunningIsShown DEF View!OfferedIsTaken, View!Rejected
<1> QED
  BY <1>2, <1>3 DEF ViewInv

-----------------------------------------------------------------------------
PagesInv ==
  /\ part = "live" => Stream!LiveInv
  /\ part = "fetch" => Fetch!LiveInv
  /\ part = "query" => FormInv
  /\ part = "view" => ViewInv

LEMMA PagesInitInv ==
  ASSUME AllInit
  PROVE  PagesInv
<1>1. part = "live" => Stream!Init
  BY DEF AllInit
<1>2. part = "fetch" => Fetch!Init
  BY DEF AllInit
<1>3. part = "query" => Form!Init
  BY DEF AllInit
<1>4. part = "view" => View!Init
  BY DEF AllInit
<1>5. None \notin Nat
  BY VectorAssumption
<1> QED
  BY <1>1, <1>2, <1>3, <1>4, <1>5, Stream!LiveInitInv, Fetch!LiveInitInv, FormInitInv, ViewInitInv
  DEF PagesInv

(* A step of the run is a step of the part, or leaves it as it is.         *)
LEMMA PartSteps ==
  ASSUME [AllNext]_allVars
  PROVE  /\ part' = part
         /\ part = "live" => [Stream!Next]_(Stream!vars)
         /\ part = "fetch" => [Fetch!Next]_(Fetch!vars)
         /\ part = "query" => [Form!Next]_(Form!vars)
         /\ part = "view" => [View!Next]_(View!vars)
<1>1. ASSUME UNCHANGED allVars
      PROVE  /\ part' = part
             /\ UNCHANGED <<Stream!vars, Fetch!vars, Form!vars, View!vars>>
  <2>1. part' = part /\ UNCHANGED own
    BY <1>1 DEF allVars, partVars
  <2> QED
    BY <2>1
    DEF own, Stream!vars, Stream!server, Stream!link, Stream!view,
        Fetch!vars, Fetch!server, Fetch!link, Fetch!view, Form!vars, View!vars
<1>2. ASSUME AllNext
      PROVE  /\ part' = part
             /\ part = "live" => Stream!Next
             /\ part = "fetch" => Fetch!Next
             /\ part = "query" => Form!Next
             /\ part = "view" => View!Next
  BY <1>2 DEF AllNext
<1> QED
  BY <1>1, <1>2

LEMMA PagesNextInv ==
  ASSUME PagesInv, [AllNext]_allVars
  PROVE  /\ PagesInv'
         /\ part = "fetch" => Fetch!ShownStep \/ UNCHANGED v13
<1>1. None \notin Nat
  BY VectorAssumption
<1>2. part = "live" => Stream!LiveInv'
  BY <1>1, PartSteps, Stream!LiveNextInv DEF PagesInv
<1>3. part = "fetch" => Fetch!LiveInv' /\ (Fetch!ShownStep \/ UNCHANGED v13)
  BY <1>1, PartSteps, Fetch!LiveNextInv DEF PagesInv
<1>4. part = "query" => FormInv'
  BY PartSteps, FormNextInv DEF PagesInv
<1>5. part = "view" => ViewInv'
  BY PartSteps, ViewNextInv DEF PagesInv
<1> QED
  BY <1>2, <1>3, <1>4, <1>5, PartSteps DEF PagesInv

(* The pages of the admin UI say what is so: what was announced is shown   *)
(* over one EventSource and answers in order (live-refresh.tsx,            *)
(* use-fetch.ts), a query page shows the result of its URL and asks once   *)
(* for a step of the user (use-url-query.ts), and a rebuild is shown while *)
(* it works and told when it ends (rebuild-tracker.ts, api/projects.ts).   *)
THEOREM PagesTellTheTruth == AllInit /\ [][AllNext]_allVars => PagesAreTrue
<1> DEFINE Shown ==
      /\ part = "live" => Stream!ShowsWhatIsDue /\ Stream!OneSource
      /\ part = "fetch" => Fetch!ShowsWhatIsDue
      /\ part = "query" => Form!ShowsItsUrl /\ Form!FiresOnce
      /\ part = "view" => View!EndsAreTold /\ View!WorkIsShown /\ View!OfferedIsTaken
<1>1. AllInit => PagesInv
  BY PagesInitInv
<1>2. PagesInv /\ [AllNext]_allVars => PagesInv'
  BY PagesNextInv
<1>3. PagesInv => Shown
  BY Stream!LiveInvSound, Fetch!LiveInvSound, FormInvSound, ViewInvSound DEF PagesInv
<1>4. PagesInv /\ [AllNext]_allVars => [part = "fetch" => Fetch!ShownStep]_allVars
  <2>1. UNCHANGED v13 => Fetch!ShownStep
    BY DEF Fetch!ShownStep
  <2> QED
    BY <2>1, PagesNextInv
<1> QED
  BY <1>1, <1>2, <1>3, <1>4, PTL DEF PagesAreTrue

-----------------------------------------------------------------------------
(* Sums over a finite set.                                                 *)

(* g adds f up over every subset of S, as SumFunctionOnSet does.           *)
Adds(g, f, S) ==
  g = [s \in SUBSET S |-> IF s = {} THEN 0
                          ELSE f[CHOOSE x \in s : TRUE] + g[s \ {CHOOSE x \in s : TRUE}]]

Sub(S, n) == {s \in SUBSET S : Cardinality(s) <= n}

(* Such a g is there, for finitely many.                                   *)
LEMMA AddsExists ==
  ASSUME NEW S, IsFiniteSet(S), NEW f
  PROVE  \E g : Adds(g, f, S)
<1> DEFINE ch(s) == CHOOSE x \in s : TRUE
           Upto(g, n) == g = [s \in Sub(S, n) |-> IF s = {} THEN 0
                                                 ELSE f[ch(s)] + g[s \ {ch(s)}]]
           T == {n \in Nat : \E g : Upto(g, n)}
<1>0. \A s \in SUBSET S : /\ Cardinality(s) \in Nat
                          /\ s # {} => /\ s \ {ch(s)} \in SUBSET S
                                       /\ Cardinality(s \ {ch(s)}) = Cardinality(s) - 1
  <2> TAKE s \in SUBSET S
  <2>1. IsFiniteSet(s)
    BY FS_Subset
  <2>2. s # {} => ch(s) \in s
    OBVIOUS
  <2> QED
    BY <2>1, <2>2, FS_CardinalityType, FS_RemoveElement
<1>a. \A s \in SUBSET S : Cardinality(s) = 0 <=> s = {}
  BY FS_Subset, FS_EmptySet
<1>1. 0 \in T
  <2>1. Upto([s \in Sub(S, 0) |-> 0], 0)
    BY <1>0, <1>a DEF Sub
  <2> QED
    BY <2>1
<1>2. ASSUME NEW n \in T PROVE n + 1 \in T
  <2>0. n \in Nat /\ \E g : Upto(g, n)
    OBVIOUS
  <2>1. PICK g : Upto(g, n)
    BY <2>0
  <2> DEFINE h == [s \in Sub(S, n + 1) |-> IF s = {} THEN 0
                                          ELSE f[ch(s)] + g[s \ {ch(s)}]]
  <2> HIDE DEF ch
  <2>2. \A s \in Sub(S, n) : s \in Sub(S, n + 1)
    <3>1. \A m \in Nat : m <= n => m <= n + 1
      BY <2>0
    <3>2. \A s \in SUBSET S : Cardinality(s) <= n => Cardinality(s) <= n + 1
      BY <1>0, <3>1
    <3> QED
      BY <3>2 DEF Sub
  <2>3. \A s \in Sub(S, n) : h[s] = g[s]
    <3> TAKE s \in Sub(S, n)
    <3>1. h[s] = IF s = {} THEN 0 ELSE f[ch(s)] + g[s \ {ch(s)}]
      BY <2>2
    <3>2. g[s] = IF s = {} THEN 0 ELSE f[ch(s)] + g[s \ {ch(s)}]
      BY <2>1
    <3> QED
      BY <3>1, <3>2
  <2>4. \A s \in Sub(S, n + 1) : s # {} => s \ {ch(s)} \in Sub(S, n)
    BY <1>0, <2>0 DEF Sub
  <2>5. \A s \in Sub(S, n + 1) : h[s] = IF s = {} THEN 0 ELSE f[ch(s)] + h[s \ {ch(s)}]
    <3> TAKE s \in Sub(S, n + 1)
    <3>1. s # {} => g[s \ {ch(s)}] = h[s \ {ch(s)}]
      BY <2>3, <2>4
    <3> QED
      BY <3>1
  <2>6. Upto(h, n + 1)
    <3>1. h = [s \in Sub(S, n + 1) |-> h[s]]
      OBVIOUS
    <3> HIDE DEF h
    <3> QED
      BY <2>5, <3>1
  <2>7. \E e : Upto(e, n + 1)
    <3> HIDE DEF h, Upto
    <3> QED
      BY <2>6
  <2>8. n + 1 \in Nat
    BY <2>0
  <2> QED
    <3> HIDE DEF Upto
    <3> QED
      BY <2>7, <2>8
<1>3. T = Nat
  <2> HIDE DEF T
  <2>1. T \in SUBSET Nat
    BY DEF T
  <2> QED
    BY <1>1, <1>2, <2>1, NatInd
<1>4. Cardinality(S) \in Nat
  BY FS_CardinalityType
<1>5. PICK g : Upto(g, Cardinality(S))
  BY <1>3, <1>4
<1>6. Sub(S, Cardinality(S)) = SUBSET S
  BY FS_Subset DEF Sub
<1> QED
  BY <1>5, <1>6 DEF Adds

(* It is the same for every set that a subset is of.                       *)
LEMMA AddsAgree ==
  ASSUME NEW S, NEW R, IsFiniteSet(S), NEW f, NEW e, NEW g, NEW h,
         Adds(g, f, S), Adds(h, e, R), \A x \in S \cap R : f[x] = e[x]
  PROVE  \A s \in SUBSET (S \cap R) : g[s] = h[s]
<1> DEFINE T == {n \in Nat : \A s \in SUBSET (S \cap R) : Cardinality(s) = n => g[s] = h[s]}
<1>0. \A s \in SUBSET (S \cap R) : /\ IsFiniteSet(s) /\ Cardinality(s) \in Nat
                                   /\ Cardinality(s) = 0 <=> s = {}
  BY FS_Subset, FS_EmptySet, FS_CardinalityType
<1>1. 0 \in T
  BY <1>0 DEF Adds
<1>2. ASSUME NEW n \in T PROVE n + 1 \in T
  <2> SUFFICES ASSUME NEW s \in SUBSET (S \cap R), Cardinality(s) = n + 1
               PROVE  g[s] = h[s]
    OBVIOUS
  <2> DEFINE c == CHOOSE x \in s : TRUE
  <2>1. s # {} /\ c \in s
    BY <1>0
  <2>2. s \ {c} \in SUBSET (S \cap R) /\ Cardinality(s \ {c}) = n
    <3>1. Cardinality(s \ {c}) = Cardinality(s) - 1
      BY <1>0, <2>1, FS_RemoveElement
    <3> QED
      BY <3>1
  <2>3. g[s \ {c}] = h[s \ {c}]
    BY <2>2
  <2>4. g[s] = f[c] + g[s \ {c}] /\ h[s] = e[c] + h[s \ {c}]
    BY <2>1 DEF Adds
  <2> QED
    BY <2>1, <2>3, <2>4
<1>3. T = Nat
  <2> HIDE DEF T
  <2>1. T \in SUBSET Nat
    BY DEF T
  <2> QED
    BY <1>1, <1>2, <2>1, NatInd
<1> QED
  BY <1>0, <1>3

(* SumFunctionOnSet is its value.                                          *)
LEMMA SumAdds ==
  ASSUME NEW S, IsFiniteSet(S), NEW f
  PROVE  \E g : Adds(g, f, S) /\ SumFunctionOnSet(f, S) = g[S]
<1>1. \E g : Adds(g, f, S)
  BY AddsExists
<1>2. SumFunctionOnSet(f, S) = (CHOOSE g : Adds(g, f, S))[S]
  BY DEF Adds, SumFunctionOnSet, FoldFunctionOnSet, MapThenFoldSet
<1> QED
  BY <1>1, <1>2

LEMMA SumOfNone ==
  ASSUME NEW f
  PROVE  SumFunctionOnSet(f, {}) = 0
BY SumAdds, FS_EmptySet DEF Adds

LEMMA SumSame ==
  ASSUME NEW S, IsFiniteSet(S), NEW f, NEW e, \A x \in S : f[x] = e[x]
  PROVE  SumFunctionOnSet(f, S) = SumFunctionOnSet(e, S)
<1>1. PICK g : Adds(g, f, S) /\ SumFunctionOnSet(f, S) = g[S]
  BY SumAdds
<1>2. PICK h : Adds(h, e, S) /\ SumFunctionOnSet(e, S) = h[S]
  BY SumAdds
<1>3. S \cap S = S
  OBVIOUS
<1>4. \A s \in SUBSET (S \cap S) : g[s] = h[s]
  BY <1>1, <1>2, <1>3, AddsAgree
<1> QED
  BY <1>1, <1>2, <1>3, <1>4

LEMMA SumFirst ==
  ASSUME NEW S, IsFiniteSet(S), S # {}, NEW f
  PROVE  \E c \in S : SumFunctionOnSet(f, S) = f[c] + SumFunctionOnSet(f, S \ {c})
<1> DEFINE c == CHOOSE x \in S : TRUE
<1>0. c \in S /\ IsFiniteSet(S \ {c})
  BY FS_RemoveElement
<1>1. PICK g : Adds(g, f, S) /\ SumFunctionOnSet(f, S) = g[S]
  BY SumAdds
<1>2. PICK h : Adds(h, f, S \ {c}) /\ SumFunctionOnSet(f, S \ {c}) = h[S \ {c}]
  BY <1>0, SumAdds
<1>3. S \cap (S \ {c}) = S \ {c}
  OBVIOUS
<1>4. \A s \in SUBSET (S \ {c}) : g[s] = h[s]
  <2> HIDE DEF c
  <2>1. \A s \in SUBSET (S \cap (S \ {c})) : g[s] = h[s]
    BY <1>1, <1>2, AddsAgree
  <2> QED
    BY <1>3, <2>1
<1>5. g[S] = f[c] + g[S \ {c}]
  BY <1>1 DEF Adds
<1> QED
  BY <1>0, <1>1, <1>2, <1>4, <1>5

(* Induction on a finite set, about a set of its subsets.                  *)
LEMMA SubsetInd ==
  ASSUME NEW S, IsFiniteSet(S), NEW Q \in SUBSET (SUBSET S), {} \in Q,
         \A s \in SUBSET S : s # {} /\ (\A c \in s : s \ {c} \in Q) => s \in Q
  PROVE  S \in Q
<1> DEFINE T == {n \in Nat : \A s \in SUBSET S : Cardinality(s) = n => s \in Q}
<1>0. \A s \in SUBSET S : /\ IsFiniteSet(s) /\ Cardinality(s) \in Nat
                          /\ Cardinality(s) = 0 <=> s = {}
  BY FS_Subset, FS_EmptySet, FS_CardinalityType
<1>1. 0 \in T
  BY <1>0
<1>2. ASSUME NEW n \in T PROVE n + 1 \in T
  <2>0. n \in Nat
    OBVIOUS
  <2> SUFFICES ASSUME NEW s \in SUBSET S, Cardinality(s) = n + 1
               PROVE  s \in Q
    OBVIOUS
  <2>1. s # {}
    BY <1>0, <2>0
  <2>2. ASSUME NEW c \in s PROVE s \ {c} \in Q
    <3>1. Cardinality(s \ {c}) = Cardinality(s) - 1
      BY <1>0, FS_RemoveElement
    <3>2. s \ {c} \in SUBSET S /\ Cardinality(s \ {c}) = n
      BY <2>0, <3>1
    <3> QED
      BY <3>2
  <2> QED
    BY <2>1, <2>2
<1>3. T = Nat
  <2> HIDE DEF T
  <2>1. T \in SUBSET Nat
    BY DEF T
  <2> QED
    BY <1>1, <1>2, <2>1, NatInd
<1> QED
  BY <1>0, <1>3

LEMMA SumIsNat ==
  ASSUME NEW S, IsFiniteSet(S), NEW f, \A x \in S : f[x] \in Nat
  PROVE  SumFunctionOnSet(f, S) \in Nat
<1> DEFINE Q == {s \in SUBSET S : SumFunctionOnSet(f, s) \in Nat}
<1>1. {} \in Q
  BY SumOfNone
<1>2. ASSUME NEW s \in SUBSET S, s # {}, \A c \in s : s \ {c} \in Q
      PROVE  s \in Q
  <2>1. PICK c \in s : SumFunctionOnSet(f, s) = f[c] + SumFunctionOnSet(f, s \ {c})
    BY <1>2, FS_Subset, SumFirst
  <2>2. SumFunctionOnSet(f, s \ {c}) \in Nat /\ f[c] \in Nat
    BY <1>2
  <2> QED
    BY <2>1, <2>2
<1>3. Q \in SUBSET (SUBSET S)
  OBVIOUS
<1> HIDE DEF Q
<1>4. S \in Q
  BY <1>1, <1>2, <1>3, SubsetInd
<1> QED
  BY <1>4 DEF Q

(* The first to be added may be any.                                       *)
LEMMA SumWithout ==
  ASSUME NEW S, IsFiniteSet(S), NEW f, \A x \in S : f[x] \in Nat, NEW a \in S
  PROVE  SumFunctionOnSet(f, S) = f[a] + SumFunctionOnSet(f, S \ {a})
<1> DEFINE Q == {s \in SUBSET S : \A b \in s :
                   SumFunctionOnSet(f, s) = f[b] + SumFunctionOnSet(f, s \ {b})}
<1>1. {} \in Q
  OBVIOUS
<1>2. ASSUME NEW s \in SUBSET S, s # {}, \A c \in s : s \ {c} \in Q
      PROVE  s \in Q
  <2> SUFFICES ASSUME NEW b \in s
               PROVE  SumFunctionOnSet(f, s) = f[b] + SumFunctionOnSet(f, s \ {b})
    OBVIOUS
  <2>1. PICK c \in s : SumFunctionOnSet(f, s) = f[c] + SumFunctionOnSet(f, s \ {c})
    <3>1. IsFiniteSet(s)
      BY FS_Subset
    <3> QED
      BY <1>2, <3>1, SumFirst
  <2>2. CASE b = c
    BY <2>1, <2>2
  <2>3. CASE b # c
    <3>1. SumFunctionOnSet(f, s \ {c}) = f[b] + SumFunctionOnSet(f, (s \ {c}) \ {b})
      BY <1>2, <2>3
    <3>2. SumFunctionOnSet(f, s \ {b}) = f[c] + SumFunctionOnSet(f, (s \ {b}) \ {c})
      BY <1>2, <2>3
    <3>3. (s \ {c}) \ {b} = (s \ {b}) \ {c}
      OBVIOUS
    <3>4. SumFunctionOnSet(f, (s \ {b}) \ {c}) \in Nat
      <4>1. (s \ {b}) \ {c} \in SUBSET S
        OBVIOUS
      <4>2. IsFiniteSet((s \ {b}) \ {c})
        BY <4>1, FS_Subset
      <4> QED
        BY <4>1, <4>2, SumIsNat
    <3>5. f[b] \in Nat /\ f[c] \in Nat
      OBVIOUS
    <3> QED
      BY <2>1, <3>1, <3>2, <3>3, <3>4, <3>5
  <2> QED
    BY <2>2, <2>3
<1>3. Q \in SUBSET (SUBSET S)
  OBVIOUS
<1> HIDE DEF Q
<1>4. S \in Q
  BY <1>1, <1>2, <1>3, SubsetInd
<1> QED
  BY <1>4 DEF Q

LEMMA SumPlus ==
  ASSUME NEW S, IsFiniteSet(S), NEW f, NEW g, NEW h,
         \A x \in S : f[x] \in Nat /\ g[x] \in Nat /\ h[x] = f[x] + g[x]
  PROVE  SumFunctionOnSet(h, S) = SumFunctionOnSet(f, S) + SumFunctionOnSet(g, S)
<1> DEFINE Q == {s \in SUBSET S :
                   SumFunctionOnSet(h, s) = SumFunctionOnSet(f, s) + SumFunctionOnSet(g, s)}
<1>1. {} \in Q
  BY SumOfNone
<1>2. ASSUME NEW s \in SUBSET S, s # {}, \A c \in s : s \ {c} \in Q
      PROVE  s \in Q
  <2>0. IsFiniteSet(s)
    BY FS_Subset
  <2>1. PICK c \in s : SumFunctionOnSet(h, s) = h[c] + SumFunctionOnSet(h, s \ {c})
    BY <1>2, <2>0, SumFirst
  <2>2. /\ SumFunctionOnSet(f, s) = f[c] + SumFunctionOnSet(f, s \ {c})
        /\ SumFunctionOnSet(g, s) = g[c] + SumFunctionOnSet(g, s \ {c})
    BY <2>0, SumWithout
  <2>3. IsFiniteSet(s \ {c})
    BY <2>0, FS_RemoveElement
  <2>4. SumFunctionOnSet(f, s \ {c}) \in Nat /\ SumFunctionOnSet(g, s \ {c}) \in Nat
    BY <2>3, SumIsNat
  <2>5. SumFunctionOnSet(h, s \ {c})
          = SumFunctionOnSet(f, s \ {c}) + SumFunctionOnSet(g, s \ {c})
    BY <1>2
  <2> QED
    BY <2>1, <2>2, <2>4, <2>5
<1>3. Q \in SUBSET (SUBSET S)
  OBVIOUS
<1> HIDE DEF Q
<1>4. S \in Q
  BY <1>1, <1>2, <1>3, SubsetInd
<1> QED
  BY <1>4 DEF Q

(* A sum over some of a set is at most the sum over all, and the same when *)
(* the others have nothing to add.                                         *)
LEMMA SumOfSome ==
  ASSUME NEW S, IsFiniteSet(S), NEW f, \A x \in S : f[x] \in Nat, NEW R \in SUBSET S
  PROVE  /\ SumFunctionOnSet(f, R) <= SumFunctionOnSet(f, S)
         /\ (\A x \in S \ R : f[x] = 0) => SumFunctionOnSet(f, R) = SumFunctionOnSet(f, S)
<1> DEFINE Q == {s \in SUBSET S :
                   /\ SumFunctionOnSet(f, R \cap s) <= SumFunctionOnSet(f, s)
                   /\ (\A x \in S \ R : f[x] = 0) =>
                        SumFunctionOnSet(f, R \cap s) = SumFunctionOnSet(f, s)}
<1>1. {} \in Q
  <2>1. R \cap {} = {}
    OBVIOUS
  <2> QED
    BY <2>1, SumOfNone
<1>2. ASSUME NEW s \in SUBSET S, s # {}, \A c \in s : s \ {c} \in Q
      PROVE  s \in Q
  <2>0. IsFiniteSet(s) /\ IsFiniteSet(R \cap s)
    BY FS_Subset
  <2>1. PICK c \in s : SumFunctionOnSet(f, s) = f[c] + SumFunctionOnSet(f, s \ {c})
    BY <1>2, <2>0, SumFirst
  <2>2. /\ SumFunctionOnSet(f, R \cap (s \ {c})) <= SumFunctionOnSet(f, s \ {c})
        /\ (\A x \in S \ R : f[x] = 0) =>
              SumFunctionOnSet(f, R \cap (s \ {c})) = SumFunctionOnSet(f, s \ {c})
    BY <1>2
  <2>3. SumFunctionOnSet(f, s \ {c}) \in Nat /\ f[c] \in Nat
    <3>1. IsFiniteSet(s \ {c})
      BY <2>0, FS_RemoveElement
    <3> QED
      BY <3>1, SumIsNat
  <2>4. SumFunctionOnSet(f, R \cap (s \ {c})) \in Nat
    <3>1. IsFiniteSet(R \cap (s \ {c}))
      BY <2>0, FS_Subset
    <3> QED
      BY <3>1, SumIsNat
  <2> DEFINE all == SumFunctionOnSet(f, s \ {c})
             some == SumFunctionOnSet(f, R \cap (s \ {c}))
  <2>5. CASE c \in R
    <3>1. SumFunctionOnSet(f, R \cap s) = f[c] + SumFunctionOnSet(f, (R \cap s) \ {c})
      BY <2>0, <2>5, SumWithout
    <3>2. (R \cap s) \ {c} = R \cap (s \ {c})
      OBVIOUS
    <3>3. SumFunctionOnSet(f, R \cap s) = f[c] + some
      BY <3>1, <3>2
    <3> HIDE DEF all, some
    <3> QED
      BY <2>1, <2>2, <2>3, <2>4, <3>3 DEF all, some
  <2>6. CASE c \notin R
    <3>1. R \cap (s \ {c}) = R \cap s
      BY <2>6
    <3>2. SumFunctionOnSet(f, R \cap s) = some
      BY <3>1
    <3>3. c \in S \ R
      BY <2>6
    <3> HIDE DEF all, some
    <3> QED
      BY <2>1, <2>2, <2>3, <2>4, <3>2, <3>3 DEF all, some
  <2> QED
    BY <2>5, <2>6
<1>3. Q \in SUBSET (SUBSET S)
  OBVIOUS
<1> HIDE DEF Q
<1>4. S \in Q
  BY <1>1, <1>2, <1>3, SubsetInd
<1>5. R \cap S = R
  OBVIOUS
<1> QED
  BY <1>4, <1>5 DEF Q

-----------------------------------------------------------------------------
(* The totals of Ledgers.                                                  *)

(* A total goes up by the sum of what is added to some of its terms.       *)
LEMMA RollUp ==
  ASSUME NEW P, IsFiniteSet(P), NEW R \in SUBSET P, NEW f, NEW v, NEW h,
         \A p \in P : f[p] \in Nat, \A p \in R : v[p] \in Nat,
         \A p \in P : h[p] = IF p \in R THEN f[p] + v[p] ELSE f[p]
  PROVE  SumFunctionOnSet(h, P) = SumFunctionOnSet(f, P) + SumFunctionOnSet(v, R)
<1> DEFINE e == [p \in P |-> IF p \in R THEN v[p] ELSE 0]
<1>1. \A p \in P : e[p] \in Nat /\ h[p] = f[p] + e[p]
  OBVIOUS
<1>2. \A p \in R : e[p] = v[p]
  OBVIOUS
<1>3. \A p \in P \ R : e[p] = 0
  OBVIOUS
<1> HIDE DEF e
<1>4. SumFunctionOnSet(h, P) = SumFunctionOnSet(f, P) + SumFunctionOnSet(e, P)
  BY <1>1, SumPlus
<1>5. SumFunctionOnSet(e, R) = SumFunctionOnSet(e, P)
  BY <1>1, <1>3, SumOfSome
<1>6. SumFunctionOnSet(e, R) = SumFunctionOnSet(v, R)
  <2>1. IsFiniteSet(R)
    BY FS_Subset
  <2> QED
    BY <1>2, <2>1, SumSame
<1> QED
  BY <1>4, <1>5, <1>6

LEMMA BooksSum ==
  ASSUME NEW f
  PROVE  Books!SumFunction(f) = SumFunctionOnSet(f, DOMAIN f)
BY DEF Books!SumFunction, Books!SumFunctionOnSet, Books!FoldFunctionOnSet, Books!MapThenFoldSet,
       SumFunctionOnSet, FoldFunctionOnSet, MapThenFoldSet

Totals == {"queries", "results", "baseline", "avoided", "zeroHits"}

LEMMA ImageFinite ==
  ASSUME NEW S, IsFiniteSet(S), NEW f
  PROVE  IsFiniteSet({f[x] : x \in S})
<1> DEFINE T == {f[x] : x \in S}
           g == [x \in S |-> f[x]]
<1>1. g \in Surjection(S, T)
  BY DEF Surjection
<1> QED
  BY <1>1, FS_Surjection

(* The files of a project.                                                 *)
FilesOf(p) == {h.path : h \in {x \in Hit : x.project = p}}
BytesOf(p) == SumFunctionOnSet([f \in FilesOf(p) |-> Size(f)], FilesOf(p))

LEMMA ProjectsFinite ==
  IsFiniteSet(Books!Projects) /\ Books!WorkspaceRow \notin Books!Projects
<1>1. IsFiniteSet({h.project : h \in Hit})
  <2> DEFINE f == [h \in Hit |-> h.project]
  <2>1. {h.project : h \in Hit} = {f[h] : h \in Hit}
    OBVIOUS
  <2>2. IsFiniteSet(Hit)
    BY LedgersAssumption
  <2>3. IsFiniteSet({f[h] : h \in Hit})
    <3> HIDE DEF f
    <3> QED
      BY <2>2, ImageFinite
  <2> QED
    BY <2>1, <2>3
<1> QED
  BY <1>1, LedgersAssumption DEF Books!Projects

LEMMA FilesFinite ==
  ASSUME NEW p
  PROVE  /\ IsFiniteSet(FilesOf(p)) /\ \A f \in FilesOf(p) : Size(f) \in Nat
         /\ BytesOf(p) \in Nat
<1>1. IsFiniteSet({x \in Hit : x.project = p})
  BY LedgersAssumption, FS_Subset
<1>2. IsFiniteSet(FilesOf(p))
  <2> DEFINE P == {x \in Hit : x.project = p}
             f == [h \in P |-> h.path]
  <2>1. FilesOf(p) = {f[h] : h \in P}
    BY DEF FilesOf
  <2>2. IsFiniteSet(P)
    BY <1>1
  <2> HIDE DEF f, P
  <2> QED
    BY <2>1, <2>2, ImageFinite
<1>3. \A f \in FilesOf(p) : Size(f) \in Nat
  BY LedgersAssumption DEF FilesOf
<1>4. \A f \in FilesOf(p) : [g \in FilesOf(p) |-> Size(g)][f] \in Nat
  BY <1>3
<1> QED
  BY <1>2, <1>3, <1>4, SumIsNat DEF BytesOf

(* What a response adds to a project it touches.                           *)
LEMMA ValueIs ==
  ASSUME NEW n \in Nat, NEW hits \in [1..n -> Hit], NEW p
  PROVE  /\ Books!ProjectValue(hits, p) \in [Totals -> Nat]
         /\ Books!ProjectValue(hits, p).queries = 1
         /\ Books!ProjectValue(hits, p).zeroHits = 0
         /\ Books!ProjectValue(hits, p).baseline <= BytesOf(p)
<1> DEFINE D == Books!OfProject(hits, p)
           F == {hits[k].path : k \in D}
           b == [f \in F |-> Size(f)]
           s == [k \in D |-> hits[k].snippet]
<1>1. IsFiniteSet(D) /\ D \in SUBSET (1..n)
  <2>1. IsFiniteSet(1..n)
    BY FS_Interval
  <2> QED
    BY <2>1, FS_Subset DEF Books!OfProject
<1>2. F \in SUBSET FilesOf(p)
  BY <1>1 DEF Books!OfProject, FilesOf
<1>3. IsFiniteSet(F)
  BY <1>2, FilesFinite, FS_Subset
<1>4. \A k \in D : hits[k].snippet \in Nat
  BY <1>1, LedgersAssumption
<1>5. Books!SumFunction(s) \in Nat
  <2>1. DOMAIN s = D /\ \A k \in D : s[k] \in Nat
    BY <1>4
  <2> HIDE DEF s, D
  <2> QED
    BY <1>1, <2>1, BooksSum, SumIsNat
<1>6. \A f \in F : b[f] = Size(f) /\ Size(f) \in Nat
  BY <1>2, FilesFinite
<1>7. Books!SumFunction(b) \in Nat /\ Books!SumFunction(b) <= BytesOf(p)
  <2> DEFINE all == [f \in FilesOf(p) |-> Size(f)]
  <2>1. DOMAIN b = F /\ \A f \in F : b[f] \in Nat /\ b[f] = all[f]
    BY <1>2, <1>6
  <2>2. \A f \in FilesOf(p) : all[f] \in Nat
    BY FilesFinite
  <2>3. BytesOf(p) = SumFunctionOnSet(all, FilesOf(p))
    BY DEF BytesOf
  <2> HIDE DEF b, F, all
  <2>4. SumFunctionOnSet(all, F) <= SumFunctionOnSet(all, FilesOf(p))
    BY <1>2, <2>2, FilesFinite, SumOfSome
  <2>5. SumFunctionOnSet(b, F) = SumFunctionOnSet(all, F)
    BY <1>3, <2>1, SumSame
  <2>6. SumFunctionOnSet(b, F) \in Nat
    BY <1>3, <2>1, SumIsNat
  <2> QED
    BY <2>1, <2>3, <2>4, <2>5, <2>6, BooksSum
<1>8. Cardinality(F) \in Nat
  BY <1>3, FS_CardinalityType
<1>9. Books!Baseline(hits, p) = Books!SumFunction(b)
  BY DEF Books!Baseline
<1>10. Books!Cardinality(F) = Cardinality(F)
  BY DEF Books!Cardinality, Cardinality
<1>11. Books!ProjectValue(hits, p)
         = [queries |-> 1, results |-> Books!SumFunction(s), baseline |-> Books!SumFunction(b),
            avoided |-> Cardinality(F), zeroHits |-> 0]
  BY <1>9, <1>10 DEF Books!ProjectValue
<1> HIDE DEF s, b, F
<1> QED
  BY <1>5, <1>7, <1>8, <1>11 DEF Totals

(* What a response adds to the totals.                                     *)
LEMMA DeltasAre ==
  ASSUME NEW n \in Nat, NEW hits \in [1..n -> Hit]
  PROVE  LET deltas == Books!ToUsageDeltas(hits)
             T == Books!Touched(hits) IN
         /\ DOMAIN deltas = T \cup {Books!WorkspaceRow} /\ T \in SUBSET Books!Projects /\ Books!WorkspaceRow \notin T
         /\ \A p \in T : deltas[p] = Books!ProjectValue(hits, p)
         /\ deltas[Books!WorkspaceRow] \in [Totals -> Nat]
         /\ deltas[Books!WorkspaceRow].queries = 1 /\ deltas[Books!WorkspaceRow].zeroHits \in {0, 1}
         /\ T # {} => deltas[Books!WorkspaceRow].zeroHits = 0
         /\ \A x \in {"results", "baseline", "avoided"} :
              deltas[Books!WorkspaceRow][x] = SumFunctionOnSet([p \in T |-> Books!ProjectValue(hits, p)[x]], T)
<1> DEFINE deltas == Books!ToUsageDeltas(hits)
           T == Books!Touched(hits)
           v(x) == [p \in T |-> Books!ProjectValue(hits, p)[x]]
<1>1. T \in SUBSET Books!Projects
  BY DEF Books!Touched, Books!Projects
<1>2. Books!WorkspaceRow \notin T /\ IsFiniteSet(T)
  BY <1>1, ProjectsFinite, FS_Subset
<1>3. ASSUME NEW x \in {"results", "baseline", "avoided"}
      PROVE  Books!SumFunction(v(x)) = SumFunctionOnSet(v(x), T) /\ SumFunctionOnSet(v(x), T) \in Nat
  <2>1. DOMAIN v(x) = T
    OBVIOUS
  <2>2. \A p \in T : v(x)[p] \in Nat
    <3> TAKE p \in T
    <3>1. Books!ProjectValue(hits, p) \in [Totals -> Nat] /\ x \in Totals
      BY ValueIs DEF Totals
    <3> QED
      BY <3>1
  <2> DEFINE f == v(x)
  <2>3. DOMAIN f = T /\ \A p \in T : f[p] \in Nat
    BY <2>1, <2>2
  <2> HIDE DEF f, T
  <2>4. Books!SumFunction(f) = SumFunctionOnSet(f, T) /\ SumFunctionOnSet(f, T) \in Nat
    BY <1>2, <2>3, BooksSum, SumIsNat
  <2> QED
    BY <2>4 DEF f
<1> DEFINE a == Books!SumFunction(v("results"))
           b == Books!SumFunction(v("baseline"))
           c == Books!SumFunction(v("avoided"))
           z == IF hits = <<>> THEN 1 ELSE 0
<1>4. /\ DOMAIN deltas = T \cup {Books!WorkspaceRow}
      /\ \A p \in T : deltas[p] = Books!ProjectValue(hits, p)
      /\ deltas[Books!WorkspaceRow] = [queries |-> 1, results |-> a, baseline |-> b, avoided |-> c, zeroHits |-> z]
  BY <1>2 DEF Books!ToUsageDeltas
<1>5. z \in {0, 1} /\ (T # {} => z = 0)
  BY DEF Books!Touched
<1> HIDE DEF v, T, deltas
<1>a. a \in Nat /\ b \in Nat /\ c \in Nat
  <2>1. "results" \in {"results", "baseline", "avoided"}
    OBVIOUS
  <2>2. "baseline" \in {"results", "baseline", "avoided"}
    OBVIOUS
  <2>3. "avoided" \in {"results", "baseline", "avoided"}
    OBVIOUS
  <2> QED
    BY <1>3, <2>1, <2>2, <2>3, Zenon
<1>b. a = Books!SumFunction(v("results")) /\ b = Books!SumFunction(v("baseline"))
      /\ c = Books!SumFunction(v("avoided"))
  OBVIOUS
<1> HIDE DEF a, b, c, z
<1> DEFINE row == deltas[Books!WorkspaceRow]
<1>c. row = [queries |-> 1, results |-> a, baseline |-> b, avoided |-> c, zeroHits |-> z]
  BY <1>4
<1> HIDE DEF row
<1>6. /\ row.results = a /\ row.baseline = b /\ row.avoided = c
      /\ row.queries = 1 /\ row.zeroHits \in {0, 1}
      /\ T # {} => row.zeroHits = 0
  BY <1>c, <1>5
<1>7. row \in [Totals -> Nat]
  <2>1. z \in Nat
    BY <1>5
  <2> QED
    BY <1>c, <1>a, <2>1 DEF Totals
<1>8. \A x \in {"results", "baseline", "avoided"} : deltas[Books!WorkspaceRow][x] = SumFunctionOnSet(v(x), T)
  <2> SUFFICES ASSUME NEW x \in {"results", "baseline", "avoided"}
               PROVE  deltas[Books!WorkspaceRow][x] = SumFunctionOnSet(v(x), T)
    OBVIOUS
  <2>1. Books!SumFunction(v(x)) = SumFunctionOnSet(v(x), T)
    BY <1>3
  <2>2. deltas[Books!WorkspaceRow][x] = Books!SumFunction(v(x))
    BY <1>6, <1>b DEF row
  <2> QED
    BY <2>1, <2>2
<1> QED
  BY <1>1, <1>2, <1>4, <1>6, <1>7, <1>8 DEF deltas, T, v, row

AddsUp(u, x) ==
  u[Books!WorkspaceRow][x] = SumFunctionOnSet([p \in Books!Projects |-> u[p][x]], Books!Projects)

UsageInv ==
  /\ v8 \in Nat /\ v7 \in [Books!Projects \cup {Books!WorkspaceRow} -> [Totals -> Nat]]
  /\ \A x \in {"results", "baseline", "avoided"} : AddsUp(v7, x)
  /\ v7[Books!WorkspaceRow].queries = v8 /\ v7[Books!WorkspaceRow].zeroHits <= v8
  /\ \A p \in Books!Projects : /\ v7[p].queries <= v8 - v7[Books!WorkspaceRow].zeroHits
                               /\ v7[p].baseline <= v7[p].queries * BytesOf(p)
                               /\ v7[p].zeroHits = 0

LEMMA ZeroIs ==
  /\ Books!Zero \in [Totals -> Nat] /\ \A x \in Totals : Books!Zero[x] = 0
  /\ Books!Zero.queries = 0 /\ Books!Zero.baseline = 0 /\ Books!Zero.zeroHits = 0
BY DEF Books!Zero, Totals

LEMMA ZerosAddUp ==
  ASSUME NEW u, u = [p \in Books!Projects \cup {Books!WorkspaceRow} |-> Books!Zero]
  PROVE  /\ u \in [Books!Projects \cup {Books!WorkspaceRow} -> [Totals -> Nat]]
         /\ \A x \in {"results", "baseline", "avoided"} : AddsUp(u, x)
<1>1. u \in [Books!Projects \cup {Books!WorkspaceRow} -> [Totals -> Nat]]
  BY ZeroIs
<1>2. ASSUME NEW x \in {"results", "baseline", "avoided"} PROVE AddsUp(u, x)
  <2> DEFINE f == [p \in Books!Projects |-> u[p][x]]
  <2>0. x \in Totals
    BY DEF Totals
  <2>1. \A p \in Books!Projects : f[p] = 0
    BY <2>0, ZeroIs
  <2>2. u[Books!WorkspaceRow][x] = 0
    BY <2>0, ZeroIs
  <2>3. SumFunctionOnSet(f, Books!Projects) = 0
    <3> HIDE DEF f
    <3>1. \A p \in Books!Projects \ {} : f[p] = 0
      BY <2>1
    <3>2. \A p \in Books!Projects : f[p] \in Nat
      BY <2>1
    <3>3. SumFunctionOnSet(f, {}) = SumFunctionOnSet(f, Books!Projects)
      BY <3>1, <3>2, ProjectsFinite, SumOfSome
    <3> QED
      BY <3>3, SumOfNone
  <2> QED
    BY <2>2, <2>3 DEF AddsUp
<1> QED
  BY <1>1, <1>2

LEMMA ZeroUsage ==
  ASSUME v7 = [p \in Books!Projects \cup {Books!WorkspaceRow} |-> Books!Zero], v8 = 0
  PROVE  UsageInv
<1>1. \A p \in Books!Projects \cup {Books!WorkspaceRow} : v7[p] = Books!Zero
  OBVIOUS
<1>2. \A p \in Books!Projects \cup {Books!WorkspaceRow} :
        v7[p].queries = 0 /\ v7[p].baseline = 0 /\ v7[p].zeroHits = 0
  BY <1>1, ZeroIs
<1>3. \A p \in Books!Projects : v7[p].baseline <= v7[p].queries * BytesOf(p)
  BY <1>2, FilesFinite
<1>4. /\ v7[Books!WorkspaceRow].queries = v8 /\ v7[Books!WorkspaceRow].zeroHits <= v8
      /\ \A p \in Books!Projects : v7[p].queries <= v8 - v7[Books!WorkspaceRow].zeroHits
                                  /\ v7[p].zeroHits = 0
  BY <1>2
<1>5. /\ v7 \in [Books!Projects \cup {Books!WorkspaceRow} -> [Totals -> Nat]]
      /\ \A x \in {"results", "baseline", "avoided"} : AddsUp(v7, x)
  BY ZerosAddUp
<1> QED
  BY <1>2, <1>3, <1>4, <1>5 DEF UsageInv

LEMMA PlusIs ==
  ASSUME NEW r \in [Totals -> Nat], NEW d \in [Totals -> Nat]
  PROVE  /\ Books!Plus(r, d) \in [Totals -> Nat]
         /\ \A x \in Totals : Books!Plus(r, d)[x] = r[x] + d[x]
BY DEF Books!Plus

(* A response is accounted.                                                *)
LEMMA Accounted ==
  ASSUME UsageInv, NEW n \in Nat, NEW hits \in [1..n -> Hit], Books!ApplyUsageDeltas(hits)
  PROVE  UsageInv'
<1> DEFINE deltas == Books!ToUsageDeltas(hits)
           T == Books!Touched(hits)
           P == Books!Projects
           val(p) == Books!ProjectValue(hits, p)
<1>1. /\ DOMAIN deltas = T \cup {Books!WorkspaceRow} /\ T \in SUBSET P /\ Books!WorkspaceRow \notin T /\ Books!WorkspaceRow \notin P
      /\ \A p \in T : deltas[p] = val(p)
      /\ deltas[Books!WorkspaceRow] \in [Totals -> Nat]
      /\ deltas[Books!WorkspaceRow].queries = 1 /\ deltas[Books!WorkspaceRow].zeroHits \in {0, 1}
      /\ T # {} => deltas[Books!WorkspaceRow].zeroHits = 0
  BY DeltasAre, ProjectsFinite
<1>2. \A x \in {"results", "baseline", "avoided"} :
        deltas[Books!WorkspaceRow][x] = SumFunctionOnSet([p \in T |-> val(p)[x]], T)
  BY DeltasAre
<1>3. \A p \in T : /\ val(p) \in [Totals -> Nat]
                   /\ val(p).queries = 1 /\ val(p).zeroHits = 0
                   /\ val(p).baseline <= BytesOf(p)
  BY ValueIs
<1>4. v8 \in Nat /\ v8' = v8 + 1 /\ v7 \in [P \cup {Books!WorkspaceRow} -> [Totals -> Nat]]
  BY DEF Books!ApplyUsageDeltas, UsageInv
<1>5. v7' = [p \in P \cup {Books!WorkspaceRow} |-> IF p \in T \cup {Books!WorkspaceRow} THEN Books!Plus(v7[p], deltas[p]) ELSE v7[p]]
  <2>1. v7' = [p \in DOMAIN v7 |-> IF p \in DOMAIN deltas THEN Books!Plus(v7[p], deltas[p]) ELSE v7[p]]
    BY DEF Books!ApplyUsageDeltas
  <2> HIDE DEF deltas, T, P
  <2> QED
    BY <1>1, <1>4, <2>1
<1> HIDE DEF deltas, T, P, val
<1>6. \A p \in T \cup {Books!WorkspaceRow} : /\ deltas[p] \in [Totals -> Nat] /\ p \in P \cup {Books!WorkspaceRow}
                             /\ v7'[p] = Books!Plus(v7[p], deltas[p])
  BY <1>1, <1>3, <1>5
<1>7. \A p \in T \cup {Books!WorkspaceRow} : /\ v7'[p] \in [Totals -> Nat]
                             /\ \A x \in Totals : v7'[p][x] = v7[p][x] + deltas[p][x]
  <2> TAKE p \in T \cup {Books!WorkspaceRow}
  <2>1. v7[p] \in [Totals -> Nat] /\ deltas[p] \in [Totals -> Nat]
    BY <1>4, <1>6
  <2>2. v7'[p] = Books!Plus(v7[p], deltas[p])
    BY <1>6
  <2>3. /\ Books!Plus(v7[p], deltas[p]) \in [Totals -> Nat]
        /\ \A x \in Totals : Books!Plus(v7[p], deltas[p])[x] = v7[p][x] + deltas[p][x]
    BY <2>1, PlusIs
  <2> QED
    BY <2>2, <2>3
<1>8. \A p \in P \ T : v7'[p] = v7[p]
  BY <1>1, <1>5
<1>9. v7' \in [P \cup {Books!WorkspaceRow} -> [Totals -> Nat]]
  <2>1. \A p \in P \cup {Books!WorkspaceRow} : v7'[p] \in [Totals -> Nat]
    BY <1>4, <1>7, <1>8
  <2>2. v7' = [p \in P \cup {Books!WorkspaceRow} |-> v7'[p]]
    BY <1>5
  <2> QED
    BY <2>1, <2>2
<1>10. ASSUME NEW x \in {"results", "baseline", "avoided"}
       PROVE  AddsUp(v7', x)
  <2> DEFINE f == [p \in P |-> v7[p][x]]
             h == [p \in P |-> v7'[p][x]]
             v == [p \in T |-> val(p)[x]]
  <2>0. x \in Totals
    BY DEF Totals
  <2>1. v7[Books!WorkspaceRow][x] = SumFunctionOnSet(f, P)
    BY DEF UsageInv, AddsUp, P
  <2>2. v7'[Books!WorkspaceRow][x] = v7[Books!WorkspaceRow][x] + SumFunctionOnSet(v, T)
    BY <1>2, <1>7, <2>0
  <2>3. \A p \in P : f[p] \in Nat
    BY <1>4, <2>0
  <2>4. \A p \in T : v[p] \in Nat
    BY <1>3, <2>0
  <2>5. \A p \in P : h[p] = IF p \in T THEN f[p] + v[p] ELSE f[p]
    BY <1>1, <1>7, <1>8, <2>0
  <2>6. IsFiniteSet(P)
    BY ProjectsFinite DEF P
  <2>7. SumFunctionOnSet(h, P) = SumFunctionOnSet(f, P) + SumFunctionOnSet(v, T)
    <3> HIDE DEF f, h, v
    <3> QED
      BY <1>1, <2>3, <2>4, <2>5, <2>6, RollUp
  <2>8. v7'[Books!WorkspaceRow][x] = SumFunctionOnSet(h, P)
    BY <2>1, <2>2, <2>7
  <2> QED
    BY <2>8 DEF AddsUp, P
<1>11. /\ v7[Books!WorkspaceRow].queries = v8 /\ v7[Books!WorkspaceRow].zeroHits <= v8
       /\ \A p \in P : /\ v7[p].queries <= v8 - v7[Books!WorkspaceRow].zeroHits
                       /\ v7[p].baseline <= v7[p].queries * BytesOf(p)
                       /\ v7[p].zeroHits = 0
  BY DEF UsageInv, P
<1>12. v7'[Books!WorkspaceRow].queries = v8' /\ v7'[Books!WorkspaceRow].zeroHits <= v8'
       /\ v7'[Books!WorkspaceRow].zeroHits = v7[Books!WorkspaceRow].zeroHits + deltas[Books!WorkspaceRow].zeroHits
  <2> DEFINE w == v7[Books!WorkspaceRow]
             d == deltas[Books!WorkspaceRow]
  <2>1. /\ v7'[Books!WorkspaceRow].queries = w.queries + d.queries
        /\ v7'[Books!WorkspaceRow].zeroHits = w.zeroHits + d.zeroHits
    BY <1>7 DEF Totals
  <2>2. d.queries = 1 /\ d.zeroHits \in {0, 1}
    BY <1>1
  <2>3. w.zeroHits \in Nat
    BY <1>4 DEF Totals
  <2>4. w.queries = v8 /\ w.zeroHits <= v8
    BY <1>11
  <2> HIDE DEF w, d
  <2>5. v7'[Books!WorkspaceRow].queries = v8' /\ v7'[Books!WorkspaceRow].zeroHits <= v8'
    BY <1>4, <2>1, <2>2, <2>3, <2>4
  <2> QED
    BY <2>1, <2>5 DEF w, d
<1>13. ASSUME NEW p \in P
       PROVE  /\ v7'[p].queries <= v8' - v7'[Books!WorkspaceRow].zeroHits
              /\ v7'[p].baseline <= v7'[p].queries * BytesOf(p)
              /\ v7'[p].zeroHits = 0
  <2>0. /\ v7[p].queries \in Nat /\ v7[p].baseline \in Nat /\ v7[Books!WorkspaceRow].zeroHits \in Nat
        /\ BytesOf(p) \in Nat
    BY <1>4, FilesFinite DEF Totals
  <2>1. CASE p \in T
    <3>1. /\ v7'[p].queries = v7[p].queries + 1
          /\ v7'[p].baseline = v7[p].baseline + val(p).baseline
          /\ v7'[p].zeroHits = v7[p].zeroHits + 0
      BY <1>1, <1>3, <1>7, <2>1 DEF Totals
    <3>2. v7'[Books!WorkspaceRow].zeroHits = v7[Books!WorkspaceRow].zeroHits
      <4>1. deltas[Books!WorkspaceRow].zeroHits = 0
        BY <1>1, <2>1
      <4> QED
        BY <1>12, <2>0, <4>1
    <3>3. v7'[p].queries <= v8' - v7'[Books!WorkspaceRow].zeroHits /\ v7'[p].zeroHits = 0
      <4>1. v7[p].queries <= v8 - v7[Books!WorkspaceRow].zeroHits /\ v7[p].zeroHits = 0
        BY <1>11
      <4> QED
        BY <1>4, <2>0, <3>1, <3>2, <4>1
    <3>4. val(p).baseline \in Nat /\ val(p).baseline <= BytesOf(p)
      BY <1>3, <2>1 DEF Totals
    <3>5. (v7[p].queries + 1) * BytesOf(p) = v7[p].queries * BytesOf(p) + BytesOf(p)
      BY <2>0
    <3>6. v7[p].queries * BytesOf(p) \in Nat
      BY <2>0
    <3>7. v7[p].baseline <= v7[p].queries * BytesOf(p)
      BY <1>11
    <3> DEFINE M == v7[p].queries * BytesOf(p)
    <3>8. v7'[p].baseline <= M + BytesOf(p)
      <4>1. M \in Nat /\ v7[p].baseline <= M
        BY <3>6, <3>7
      <4> HIDE DEF M
      <4> QED
        BY <2>0, <3>1, <3>4, <4>1
    <3> QED
      BY <3>1, <3>3, <3>5, <3>8
  <2>2. CASE p \notin T
    <3>1. v7'[p] = v7[p]
      BY <1>8, <2>2
    <3>2. v7'[Books!WorkspaceRow].zeroHits <= v7[Books!WorkspaceRow].zeroHits + 1 /\ v7'[Books!WorkspaceRow].zeroHits \in Nat
      BY <1>1, <1>12, <2>0
    <3>3. /\ v7[p].queries <= v8 - v7[Books!WorkspaceRow].zeroHits
          /\ v7[p].baseline <= v7[p].queries * BytesOf(p)
          /\ v7[p].zeroHits = 0
      BY <1>11
    <3>4. v7[p].queries <= v8' - v7'[Books!WorkspaceRow].zeroHits
      <4>1. v8 \in Nat /\ v8' = v8 + 1
        BY <1>4
      <4>2. v7[p].queries <= v8 - v7[Books!WorkspaceRow].zeroHits
        BY <3>3
      <4> DEFINE q == v7[p].queries
                 z == v7[Books!WorkspaceRow].zeroHits
                 y == v7'[Books!WorkspaceRow].zeroHits
      <4>3. q \in Nat /\ z \in Nat /\ y \in Nat /\ y <= z + 1 /\ q <= v8 - z
        BY <2>0, <3>2, <4>2
      <4> HIDE DEF q, z, y
      <4>4. q <= v8' - y
        BY <4>1, <4>3
      <4> QED
        BY <4>4 DEF q, y
    <3> QED
      BY <3>1, <3>3, <3>4
  <2> QED
    BY <2>1, <2>2
<1> QED
  BY <1>4, <1>9, <1>10, <1>12, <1>13 DEF UsageInv, P

LEMMA UsageNextInv ==
  ASSUME UsageInv, [Books!UsageNext]_(Books!usageVars)
  PROVE  UsageInv'
<1>1. ASSUME NEW n \in 0..MaxHits, NEW hits \in [1..n -> Hit], Books!ApplyUsageDeltas(hits)
      PROVE  UsageInv'
  <2>1. n \in Nat
    BY LedgersAssumption
  <2> QED
    BY <1>1, <2>1, Accounted
<1>2. CASE Books!ClearUsageStats
  <2>1. v7' = [p \in Books!Projects \cup {Books!WorkspaceRow} |-> Books!Zero] /\ v8' = 0
    BY <1>2 DEF Books!ClearUsageStats, UsageInv
  <2>2. \A p \in Books!Projects \cup {Books!WorkspaceRow} : v7'[p] = Books!Zero
    BY <2>1
  <2>3. \A p \in Books!Projects \cup {Books!WorkspaceRow} :
          v7'[p].queries = 0 /\ v7'[p].baseline = 0 /\ v7'[p].zeroHits = 0
    BY <2>2, ZeroIs
  <2>4. \A p \in Books!Projects : v7'[p].baseline <= v7'[p].queries * BytesOf(p)
    BY <2>3, FilesFinite
  <2>5. /\ v7'[Books!WorkspaceRow].queries = v8' /\ v7'[Books!WorkspaceRow].zeroHits <= v8'
        /\ \A p \in Books!Projects :
             v7'[p].queries <= v8' - v7'[Books!WorkspaceRow].zeroHits /\ v7'[p].zeroHits = 0
    BY <2>1, <2>3
  <2>6. /\ v7' \in [Books!Projects \cup {Books!WorkspaceRow} -> [Totals -> Nat]]
        /\ \A x \in {"results", "baseline", "avoided"} : AddsUp(v7', x)
    BY <2>1, ZerosAddUp
  <2> QED
    BY <2>1, <2>3, <2>4, <2>5, <2>6 DEF UsageInv
<1>3. CASE UNCHANGED Books!usageVars
  BY <1>3 DEF Books!usageVars, UsageInv, AddsUp
<1> QED
  BY <1>1, <1>2, <1>3 DEF Books!UsageNext

(* A share is rounded to a number that is at most 100.                     *)
LEMMA Quotient ==
  ASSUME NEW a \in Nat, NEW b \in Nat \ {0}
  PROVE  a \div b \in Nat /\ b * (a \div b) <= a
OBVIOUS

LEMMA RoundedIsNat ==
  ASSUME NEW n \in Nat, NEW d \in Nat \ {0}
  PROVE  Books!Rounded(n, d) \in Nat
<1>1. 2 * n + d \in Nat /\ 2 * d \in Nat \ {0}
  OBVIOUS
<1> QED
  BY <1>1, Quotient DEF Books!Rounded

LEMMA ShareIsShare ==
  ASSUME NEW n \in Nat, NEW d \in Nat \ {0}, n <= d
  PROVE  Books!Rounded(100 * n, d) \in 0..100
<1> DEFINE a == 2 * (100 * n) + d
           q == a \div (2 * d)
<1>1. a \in Nat /\ 2 * d \in Nat \ {0} /\ a <= 201 * d
  OBVIOUS
<1>2. q \in Nat /\ (2 * d) * q <= a
  <2> HIDE DEF a
  <2> QED
    BY <1>1, Quotient
<1>3. Books!Rounded(100 * n, d) = q
  BY DEF Books!Rounded
<1> HIDE DEF q, a
<1>4. ASSUME q >= 101 PROVE FALSE
  <2>1. PICK k \in Nat : q = 101 + k
    <3>1. q - 101 \in Nat /\ q = 101 + (q - 101)
      BY <1>2, <1>4
    <3> QED
      BY <3>1
  <2>2. (2 * d) * (101 + k) = 202 * d + (2 * d) * k
    OBVIOUS
  <2>3. (2 * d) * k \in Nat
    OBVIOUS
  <2> DEFINE m == (2 * d) * k
  <2>4. m \in Nat /\ 202 * d + m <= 201 * d
    BY <1>1, <1>2, <2>1, <2>2, <2>3
  <2> HIDE DEF m
  <2> QED
    BY <2>4
<1> QED
  BY <1>2, <1>3, <1>4

LEMMA UsageSound ==
  ASSUME UsageInv
  PROVE  Books!TotalsAgree /\ Books!BaselineIsPerFile /\ Books!SharesAreShares
<1>1. ASSUME NEW x \in {"results", "baseline", "avoided"}
      PROVE  v7[Books!WorkspaceRow][x] = Books!SumFunction([p \in Books!Projects |-> v7[p][x]])
  <2> DEFINE f == [p \in Books!Projects |-> v7[p][x]]
  <2>1. DOMAIN f = Books!Projects
    OBVIOUS
  <2>2. v7[Books!WorkspaceRow][x] = SumFunctionOnSet(f, Books!Projects)
    BY DEF UsageInv, AddsUp
  <2> HIDE DEF f
  <2>3. v7[Books!WorkspaceRow][x] = Books!SumFunction(f)
    BY <2>1, <2>2, BooksSum
  <2> QED
    BY <2>3 DEF f
<1>2. /\ v7[Books!WorkspaceRow].results
           = Books!SumFunction([p \in Books!Projects |-> v7[p]["results"]])
      /\ v7[Books!WorkspaceRow].baseline
           = Books!SumFunction([p \in Books!Projects |-> v7[p]["baseline"]])
      /\ v7[Books!WorkspaceRow].avoided
           = Books!SumFunction([p \in Books!Projects |-> v7[p]["avoided"]])
  BY <1>1
<1>3. Books!TotalsAgree
  BY <1>2 DEF UsageInv, Books!TotalsAgree
<1>4. Books!BaselineIsPerFile
  <2> SUFFICES ASSUME NEW p \in Books!Projects
               PROVE  v7[p].baseline <= v7[p].queries *
                        Books!SumFunction([f \in FilesOf(p) |-> Size(f)])
    BY DEF Books!BaselineIsPerFile, FilesOf
  <2> DEFINE all == [f \in FilesOf(p) |-> Size(f)]
  <2>1. DOMAIN all = FilesOf(p) /\ BytesOf(p) = SumFunctionOnSet(all, FilesOf(p))
    BY DEF BytesOf
  <2>2. v7[p].baseline <= v7[p].queries * BytesOf(p)
    BY DEF UsageInv
  <2> HIDE DEF all
  <2>3. Books!SumFunction(all) = BytesOf(p)
    BY <2>1, BooksSum
  <2>4. v7[p].baseline <= v7[p].queries * Books!SumFunction(all)
    BY <2>2, <2>3
  <2> QED
    BY <2>4 DEF all
<1>5. ASSUME NEW p \in DOMAIN v7
      PROVE  LET s == Books!Summary(v7[p]) IN
             s.saved >= 0 /\ s.reductionPct \in 0..100 /\ s.zeroHitPct \in 0..100
  <2> DEFINE r == v7[p]
             tb == Books!Tokens(r.baseline)
             tr == Books!Tokens(r.results)
             saved == Books!Saved(tb - tr)
  <2>1. /\ r.baseline \in Nat /\ r.results \in Nat /\ r.queries \in Nat /\ r.zeroHits \in Nat
        /\ r.zeroHits <= r.queries
    BY DEF UsageInv, Totals
  <2>2. tb \in Nat /\ tr \in Nat
    BY <2>1, RoundedIsNat DEF Books!Tokens
  <2> HIDE DEF r, tb, tr
  <2>3. saved \in Nat /\ saved <= tb
    BY <2>2 DEF Books!Saved, Books!AtLeastZero
  <2> HIDE DEF saved
  <2>4. tb > 0 => Books!Rounded(100 * saved, tb) \in 0..100
    BY <2>2, <2>3, ShareIsShare
  <2>5. r.queries > 0 => Books!Rounded(100 * r.zeroHits, r.queries) \in 0..100
    BY <2>1, ShareIsShare
  <2> DEFINE x == IF tb > 0 THEN Books!Rounded(100 * saved, tb) ELSE 0
             y == IF r.queries > 0 THEN Books!Rounded(100 * r.zeroHits, r.queries) ELSE 0
  <2>6. x \in 0..100 /\ y \in 0..100
    BY <2>4, <2>5
  <2>7. Books!Summary(r) = [saved |-> saved, reductionPct |-> x, zeroHitPct |-> y]
    BY DEF Books!Summary, saved, tb, tr
  <2> HIDE DEF x, y
  <2>8. /\ Books!Summary(r).saved >= 0 /\ Books!Summary(r).reductionPct \in 0..100
        /\ Books!Summary(r).zeroHitPct \in 0..100
    BY <2>3, <2>6, <2>7
  <2> QED
    BY <2>8 DEF r
<1>6. Books!SharesAreShares
  BY <1>5 DEF Books!SharesAreShares
<1> QED
  BY <1>3, <1>4, <1>6

-----------------------------------------------------------------------------
(* Its health history.                                                     *)

(* The rows of the health history.                                         *)
Scores == [at : Nat, payload : Payload]
OneATime(H) == \A r, s \in H : r.at = s.at => r = s

LEMMA BooksCardinality ==
  ASSUME NEW S
  PROVE  Books!Cardinality(S) = Cardinality(S)
BY DEF Books!Cardinality, Cardinality

(* The newest n of the rows are n at most, all that are newer than one of  *)
(* them, and the last.                                                     *)
LEMMA NewestAre ==
  ASSUME NEW H \in SUBSET Scores, IsFiniteSet(H), OneATime(H), NEW n \in Nat \ {0}
  PROVE  LET N == Books!NewestRows(H, n) IN
         /\ N \in SUBSET H /\ Cardinality(N) <= n
         /\ \A r \in N, x \in H : r.at < x.at => x \in N
         /\ \A r \in H : (\A s \in H : s.at <= r.at) => r \in N
<1> DEFINE Newer(r) == {s \in H : s.at > r.at}
           N == Books!NewestRows(H, n)
<1>1. N = {r \in H : Cardinality(Newer(r)) < n}
  BY BooksCardinality DEF Books!NewestRows
<1>2. \A r \in H : r.at \in Nat
  BY DEF Scores
<1>3. \A r \in H : IsFiniteSet(Newer(r)) /\ Cardinality(Newer(r)) \in Nat
  BY FS_Subset, FS_CardinalityType
<1>4. ASSUME NEW r \in N, NEW x \in H, r.at < x.at PROVE x \in N
  <2>1. Newer(x) \in SUBSET Newer(r)
    BY <1>1, <1>2, <1>4
  <2>2. r \in H /\ Cardinality(Newer(r)) < n
    BY <1>1
  <2>3. Cardinality(Newer(x)) <= Cardinality(Newer(r))
    <3> HIDE DEF Newer
    <3> QED
      BY <1>3, <2>1, <2>2, FS_Subset
  <2>4. Cardinality(Newer(x)) < n
    <3> HIDE DEF Newer
    <3> QED
      BY <1>3, <2>2, <2>3
  <2> QED
    BY <1>1, <2>4
<1>5. ASSUME NEW r \in H, \A s \in H : s.at <= r.at PROVE r \in N
  <2>1. Newer(r) = {}
    BY <1>2, <1>5
  <2>2. Cardinality(Newer(r)) = 0
    BY <2>1, FS_EmptySet
  <2> QED
    BY <1>1, <2>2
<1>6. Cardinality(N) <= n
  <2>1. CASE N = {}
    <3>1. Cardinality(N) = 0
      BY <2>1, FS_EmptySet
    <3> QED
      BY <3>1
  <2>2. CASE N # {}
    <3> DEFINE T == {r.at : r \in N}
    <3>1. T \in SUBSET Nat /\ T # {}
      BY <1>1, <1>2, <2>2
    <3>2. PICK t \in T : \A u \in T : t <= u
      <4> HIDE DEF T
      <4> QED
        BY <3>1, Least
    <3>3. PICK r \in N : r.at = t
      OBVIOUS
    <3>4. \A s \in N : r.at <= s.at
      BY <3>2, <3>3
    <3>5. r \in H /\ Cardinality(Newer(r)) < n
      BY <1>1
    <3>6. N \in SUBSET (Newer(r) \cup {r})
      <4> SUFFICES ASSUME NEW s \in N, s # r PROVE s \in Newer(r)
        OBVIOUS
      <4>1. s \in H /\ r.at <= s.at
        BY <1>1, <3>4
      <4>2. s.at # r.at
        BY <3>5, <4>1 DEF OneATime
      <4>3. s.at \in Nat /\ r.at \in Nat
        BY <1>2, <3>5, <4>1
      <4>4. s.at > r.at
        BY <4>1, <4>2, <4>3
      <4> QED
        BY <4>1, <4>4
    <3>7. /\ IsFiniteSet(Newer(r) \cup {r})
          /\ Cardinality(Newer(r) \cup {r}) <= Cardinality(Newer(r)) + 1
      <4> DEFINE M == Newer(r)
      <4>1. IsFiniteSet(M) /\ Cardinality(M) \in Nat
        BY <1>3, <3>5
      <4> HIDE DEF M
      <4>2. /\ IsFiniteSet(M \cup {r})
            /\ Cardinality(M \cup {r}) = IF r \in M THEN Cardinality(M) ELSE Cardinality(M) + 1
        BY <4>1, FS_AddElement
      <4>3. IsFiniteSet(M \cup {r}) /\ Cardinality(M \cup {r}) <= Cardinality(M) + 1
        BY <4>1, <4>2
      <4> QED
        BY <4>3 DEF M
    <3>8. Cardinality(N) <= Cardinality(Newer(r) \cup {r})
      BY <3>6, <3>7, FS_Subset
    <3>9. IsFiniteSet(N) /\ Cardinality(N) \in Nat
      <4>1. N \in SUBSET H
        BY <1>1
      <4> HIDE DEF N
      <4> QED
        BY <4>1, FS_Subset, FS_CardinalityType
    <3>10. Cardinality(Newer(r) \cup {r}) \in Nat /\ Cardinality(Newer(r)) \in Nat
      BY <1>3, <3>5, <3>7, FS_CardinalityType
    <3> HIDE DEF N, Newer
    <3> QED
      BY <3>5, <3>7, <3>8, <3>9, <3>10
  <2> QED
    BY <2>1, <2>2
<1> QED
  BY <1>1, <1>4, <1>5, <1>6

(* The last row is that with the greatest time.                            *)
LEMMA LatestIs ==
  ASSUME NEW H \in SUBSET Scores, OneATime(H), NEW r \in H, \A s \in H : s.at <= r.at
  PROVE  Books!Latest(H) = r
<1>1. Books!Latest(H) \in H /\ \A s \in H : s.at <= Books!Latest(H).at
  BY DEF Books!Latest
<1>2. r.at \in Nat /\ Books!Latest(H).at \in Nat
  BY <1>1 DEF Scores
<1>3. r.at = Books!Latest(H).at
  BY <1>1, <1>2
<1> QED
  BY <1>1, <1>3 DEF OneATime

NoNeighboursEqual(H) ==
  \A r, s \in H :
    r.at < s.at /\ ~(\E x \in H : r.at < x.at /\ x.at < s.at) => r.payload # s.payload

HistoryInv ==
  /\ v6 \in Nat
  /\ v4 \in SUBSET Scores /\ IsFiniteSet(v4) /\ OneATime(v4)
  /\ Cardinality(v4) <= HEALTH_HISTORY_KEEP /\ NoNeighboursEqual(v4)
  /\ \A r \in v4 : r.at <= v6
  /\ v5 \in [Writer -> Scores \cup {None}]
  /\ \A w \in Writer : v5[w] # None => v5[w] \in Scores /\ v5[w].at = v6

(* A score that differs from the latest one comes after it.                *)
LEMMA RowAdded ==
  ASSUME NEW H \in SUBSET Scores, IsFiniteSet(H), OneATime(H), NoNeighboursEqual(H),
         NEW row \in Scores, \A r \in H : r.at < row.at,
         H # {} => Books!Latest(H).payload # row.payload
  PROVE  LET N == Books!Pruned(H, row) IN
         /\ N \in SUBSET (H \cup {row}) /\ IsFiniteSet(N) /\ OneATime(N)
         /\ Cardinality(N) <= HEALTH_HISTORY_KEEP /\ NoNeighboursEqual(N)
         /\ row \in N /\ Books!Latest(N) = row
<1> DEFINE A == H \cup {row}
           N == Books!NewestRows(A, HEALTH_HISTORY_KEEP)
<1>0. HEALTH_HISTORY_KEEP \in Nat \ {0}
  BY LedgersAssumption
<1>a. \A r \in A : r.at \in Nat
  BY DEF Scores
<1>1. A \in SUBSET Scores /\ IsFiniteSet(A) /\ OneATime(A)
  <2>1. IsFiniteSet(A)
    BY FS_AddElement
  <2>2. OneATime(A)
    BY <1>a DEF OneATime
  <2> QED
    BY <2>1, <2>2
<1>2. \A s \in A : s.at <= row.at
  BY <1>a
<1>3. /\ N \in SUBSET A /\ Cardinality(N) <= HEALTH_HISTORY_KEEP
      /\ \A r \in N, x \in A : r.at < x.at => x \in N
      /\ row \in N
  <2>1. row \in A
    OBVIOUS
  <2> HIDE DEF A
  <2> QED
    BY <1>0, <1>1, <1>2, <2>1, NewestAre
<1>4. IsFiniteSet(N) /\ OneATime(N)
  <2>1. IsFiniteSet(N)
    BY <1>1, <1>3, FS_Subset
  <2>2. OneATime(N)
    BY <1>1, <1>3 DEF OneATime
  <2> QED
    BY <2>1, <2>2
<1>5. Books!Latest(N) = row
  <2>1. N \in SUBSET Scores /\ \A s \in N : s.at <= row.at
    BY <1>1, <1>2, <1>3
  <2> HIDE DEF N
  <2> QED
    BY <1>3, <1>4, <2>1, LatestIs
<1>6. NoNeighboursEqual(N)
  <2> SUFFICES ASSUME NEW r \in N, NEW s \in N, r.at < s.at,
                      ~(\E x \in N : r.at < x.at /\ x.at < s.at)
               PROVE  r.payload # s.payload
    BY DEF NoNeighboursEqual
  <2>1. ~(\E x \in A : r.at < x.at /\ x.at < s.at)
    BY <1>3
  <2>2. r \in H
    <3>1. r # row
      <4>1. r \in A /\ s \in A
        BY <1>3
      <4>2. s.at <= row.at /\ s.at \in Nat /\ r.at \in Nat
        BY <1>2, <1>a, <4>1
      <4> QED
        BY <4>2
    <3> QED
      BY <1>3, <3>1
  <2>3. CASE s \in H
    BY <2>1, <2>2, <2>3 DEF NoNeighboursEqual
  <2>4. CASE s = row
    <3>1. \A x \in H : x.at <= r.at
      <4> SUFFICES ASSUME NEW x \in H PROVE x.at <= r.at
        OBVIOUS
      <4>1. x \in A /\ r \in A
        BY <2>2
      <4>2. x.at \in Nat /\ r.at \in Nat
        BY <1>a, <4>1
      <4>3. x.at < s.at
        BY <2>4
      <4> QED
        BY <2>1, <4>1, <4>2, <4>3
    <3>2. Books!Latest(H) = r
      BY <2>2, <3>1, LatestIs
    <3> QED
      BY <2>2, <2>4, <3>2
  <2> QED
    BY <1>3, <2>3, <2>4
<1> QED
  BY <1>3, <1>4, <1>5, <1>6 DEF Books!Pruned

LEMMA HistoryInitInv ==
  ASSUME v4 = {}, v5 = [w \in Writer |-> None], v6 = 0
  PROVE  HistoryInv
<1>1. IsFiniteSet(v4) /\ Cardinality(v4) = 0
  BY FS_EmptySet
<1>2. 0 <= HEALTH_HISTORY_KEEP
  BY LedgersAssumption
<1> QED
  BY <1>1, <1>2 DEF HistoryInv, OneATime, NoNeighboursEqual

(* What a writer records is kept as the latest, or the latest is of its    *)
(* time or its payload.                                                    *)
LEMMA Recorded ==
  ASSUME HistoryInv, NEW w \in Writer, Books!RecordProjectHealth(w)
  PROVE  /\ HistoryInv'
         /\ \/ Books!Latest(v4').payload = v5[w].payload
            \/ Books!Latest(v4').at = v5[w].at
<1> DEFINE row == v5[w]
<1>1. row \in Scores /\ row.at = v6 /\ v6 \in Nat
  BY DEF HistoryInv, Books!RecordProjectHealth
<1>2. /\ v5' = [v5 EXCEPT ![w] = None] /\ v6' = v6
      /\ v4' = IF Books!Unchanged(row) \/ (\E r \in v4 : r.at = row.at)
               THEN v4 ELSE Books!Pruned(v4, row)
  BY DEF Books!RecordProjectHealth
<1>3. /\ v5' \in [Writer -> Scores \cup {None}]
      /\ \A u \in Writer : v5'[u] # None => v5'[u] \in Scores /\ v5'[u].at = v6'
  BY <1>2 DEF HistoryInv
<1>4. /\ v4 \in SUBSET Scores /\ IsFiniteSet(v4) /\ OneATime(v4)
      /\ Cardinality(v4) <= HEALTH_HISTORY_KEEP /\ NoNeighboursEqual(v4)
      /\ \A r \in v4 : r.at <= v6
  BY DEF HistoryInv
<1> HIDE DEF row
<1>5. CASE Books!Unchanged(row)
  <2>1. v4' = v4 /\ Books!Latest(v4).payload = row.payload
    BY <1>2, <1>5 DEF Books!Unchanged
  <2> QED
    BY <1>1, <1>2, <1>3, <1>4, <2>1 DEF HistoryInv, row
<1>6. CASE ~Books!Unchanged(row) /\ \E r \in v4 : r.at = row.at
  <2>1. v4' = v4
    BY <1>2, <1>6
  <2>2. PICK r \in v4 : r.at = row.at
    BY <1>6
  <2>3. Books!Latest(v4) = r
    BY <1>1, <1>4, <2>2, LatestIs
  <2> QED
    BY <1>1, <1>2, <1>3, <1>4, <2>1, <2>2, <2>3 DEF HistoryInv, row
<1>7. CASE ~Books!Unchanged(row) /\ ~\E r \in v4 : r.at = row.at
  <2>1. v4' = Books!Pruned(v4, row)
    BY <1>2, <1>7
  <2>2. \A r \in v4 : r.at < row.at
    <3> TAKE r \in v4
    <3>1. r.at <= v6 /\ r.at # row.at /\ r.at \in Nat
      BY <1>4, <1>7 DEF Scores
    <3> QED
      BY <1>1, <3>1
  <2>3. v4 # {} => Books!Latest(v4).payload # row.payload
    BY <1>7 DEF Books!Unchanged
  <2>4. /\ v4' \in SUBSET (v4 \cup {row}) /\ IsFiniteSet(v4') /\ OneATime(v4')
        /\ Cardinality(v4') <= HEALTH_HISTORY_KEEP /\ NoNeighboursEqual(v4')
        /\ Books!Latest(v4') = row
    BY <1>1, <1>4, <2>1, <2>2, <2>3, RowAdded
  <2>5. v4' \in SUBSET Scores /\ \A r \in v4' : r.at <= v6'
    BY <1>1, <1>2, <1>4, <2>4
  <2> QED
    BY <1>1, <1>2, <1>3, <2>4, <2>5 DEF HistoryInv, row
<1> QED
  BY <1>5, <1>6, <1>7

LEMMA HistoryNextInv ==
  ASSUME HistoryInv, [Books!HealthNext]_(Books!healthVars)
  PROVE  HistoryInv'
<1>1. CASE Books!Tick
  <2>1. \A w \in Writer : v5[w] = None
    BY <1>1 DEF Books!Tick
  <2>2. v4' = v4 /\ v5' = v5 /\ v6' = v6 + 1
    BY <1>1 DEF Books!Tick
  <2>3. v6 \in Nat /\ \A r \in v4 : r.at <= v6 /\ r.at \in Nat
    BY DEF HistoryInv, Scores
  <2>4. v6' \in Nat /\ \A r \in v4 : r.at <= v6'
    BY <2>2, <2>3
  <2> QED
    BY <2>1, <2>2, <2>4 DEF HistoryInv
<1>2. CASE Books!DeleteProjectHealth
  <2>1. v4' = {} /\ v5' = v5 /\ v6' = v6
    BY <1>2 DEF Books!DeleteProjectHealth
  <2>2. IsFiniteSet(v4') /\ Cardinality(v4') = 0
    BY <2>1, FS_EmptySet
  <2>3. 0 <= HEALTH_HISTORY_KEEP
    BY LedgersAssumption
  <2> QED
    BY <2>1, <2>2, <2>3 DEF HistoryInv, OneATime, NoNeighboursEqual
<1>3. ASSUME NEW w \in Writer, NEW p \in Payload, Books!Score(w, p)
      PROVE  HistoryInv'
  <2>1. v5' = [v5 EXCEPT ![w] = [at |-> v6, payload |-> p]] /\ v4' = v4 /\ v6' = v6
    BY <1>3 DEF Books!Score
  <2>2. [at |-> v6, payload |-> p] \in Scores /\ [at |-> v6, payload |-> p].at = v6
    BY DEF HistoryInv, Scores
  <2>3. /\ v5' \in [Writer -> Scores \cup {None}]
        /\ \A u \in Writer : v5'[u] # None => v5'[u] \in Scores /\ v5'[u].at = v6'
    <3> DEFINE row == [at |-> v6, payload |-> p]
    <3>1. v5' = [v5 EXCEPT ![w] = row] /\ row \in Scores /\ row.at = v6 /\ v6' = v6
      BY <2>1, <2>2
    <3> HIDE DEF row
    <3> QED
      BY <3>1 DEF HistoryInv
  <2> QED
    BY <2>1, <2>3 DEF HistoryInv
<1>4. CASE UNCHANGED Books!healthVars
  BY <1>4 DEF Books!healthVars, HistoryInv
<1> QED
  BY <1>1, <1>2, <1>3, <1>4, Recorded DEF Books!HealthNext

LEMMA HistorySound ==
  ASSUME HistoryInv
  PROVE  Books!HistoryIsChangeLog
<1>1. Books!Cardinality(v4) <= HEALTH_HISTORY_KEEP
  BY BooksCardinality DEF HistoryInv
<1> QED
  BY <1>1 DEF HistoryInv, NoNeighboursEqual, Books!HistoryIsChangeLog

-----------------------------------------------------------------------------
(* The log: an unbroken run of ids up to the last, and caps that are not   *)
(* negative.                                                               *)
LogInv ==
  /\ v2 \in Nat /\ v1 \in Seq(Nat) /\ v3 \in Nat /\ v9 \in Seq(Nat)
  /\ \A k \in DOMAIN v1 : v1[k] = v2 - Len(v1) + k

(* n of a run of ids with one more are a run of ids.                       *)
LEMMA TrimmedIs ==
  ASSUME NEW s \in Seq(Nat), NEW last \in Nat, NEW n \in Nat,
         \A k \in DOMAIN s : s[k] = last - Len(s) + k
  PROVE  LET t == Books!Trimmed(s, last + 1, n) IN
         /\ t \in Seq(Nat) /\ Len(t) <= n
         /\ \A k \in DOMAIN t : t[k] = last + 1 - Len(t) + k
<1> DEFINE a == Append(s, last + 1)
           m == IF Len(a) > n THEN Len(a) - n + 1 ELSE 1
           t == SubSeq(a, m, Len(a))
<1>1. a \in Seq(Nat) /\ Len(a) = Len(s) + 1 /\ Len(s) \in Nat
  BY AppendProperties
<1>2. \A k \in 1..Len(a) : a[k] = last + 1 - Len(a) + k
  <2> TAKE k \in 1..Len(a)
  <2>1. CASE k = Len(s) + 1
    BY <1>1, <2>1
  <2>2. CASE k # Len(s) + 1
    <3>1. k \in 1..Len(s) /\ DOMAIN s = 1..Len(s)
      BY <1>1, <2>2
    <3>2. a[k] = s[k] /\ s[k] = last - Len(s) + k
      BY <3>1
    <3> QED
      BY <1>1, <3>1, <3>2
  <2> QED
    BY <2>1, <2>2
<1>3. m \in 1..(Len(a) + 1)
  BY <1>1
<1>4. t = Books!Trimmed(s, last + 1, n)
  BY DEF Books!Trimmed, Books!Newest
<1> HIDE DEF a
<1>5. /\ Len(a) - m + 1 <= n /\ Len(a) - m + 1 \in Nat /\ Len(a) \in Nat /\ m \in Nat
  BY <1>1
<1> HIDE DEF m
<1>6. /\ t \in Seq(Nat) /\ Len(t) = Len(a) - m + 1
      /\ \A k \in 1..(Len(a) - m + 1) : t[k] = a[m + k - 1]
  <2>1. \A i \in m..Len(a) : a[i] \in Nat
    BY <1>1, <1>3
  <2>2. m \in Int /\ Len(a) \in Int /\ \A i \in m..Len(a) : a[i] \in Nat
    BY <1>5, <2>1
  <2>3. /\ SubSeq(a, m, Len(a)) \in Seq(Nat)
        /\ Len(SubSeq(a, m, Len(a))) = IF m <= Len(a) THEN Len(a) - m + 1 ELSE 0
        /\ \A k \in 1..(Len(a) - m + 1) : SubSeq(a, m, Len(a))[k] = a[m + k - 1]
    BY <2>2, SubSeqProperties, SMT
  <2> QED
    BY <1>3, <1>5, <2>3
<1> HIDE DEF t
<1>7. ASSUME NEW k \in DOMAIN t PROVE t[k] = last + 1 - Len(t) + k
  <2>1. k \in 1..Len(t) /\ k \in Nat
    BY <1>6
  <2>2. m + k - 1 \in 1..Len(a) /\ t[k] = a[m + k - 1]
    <3> DEFINE x == Len(a)
               y == Len(t)
    <3>1. x \in Nat /\ m \in Nat /\ m >= 1 /\ y = x - m + 1 /\ k \in 1..y
      BY <1>3, <1>5, <1>6, <2>1
    <3> HIDE DEF x, y
    <3>2. m + k - 1 \in 1..x /\ k \in 1..(x - m + 1)
      BY <3>1
    <3>3. t[k] = a[m + k - 1]
      BY <1>6, <3>2 DEF x
    <3> QED
      BY <3>2, <3>3 DEF x
  <2>3. a[m + k - 1] = last + 1 - Len(a) + (m + k - 1)
    BY <1>2, <2>2
  <2> DEFINE x == Len(a)
             y == Len(t)
  <2>4. /\ x \in Nat /\ y \in Nat /\ y = x - m + 1
        /\ t[k] = last + 1 - x + (m + k - 1)
    BY <1>5, <1>6, <2>2, <2>3
  <2> HIDE DEF x, y
  <2>5. t[k] = last + 1 - y + k
    BY <1>5, <2>1, <2>4
  <2> QED
    BY <2>5 DEF y
<1> QED
  BY <1>4, <1>5, <1>6, <1>7

LEMMA LogNextInv ==
  ASSUME LogInv, [Books!LogNext]_(Books!logVars)
  PROVE  LogInv' /\ (Books!LogNext => Books!LogStep)
<1>1. CASE Books!RecordMcpRequest
  BY <1>1 DEF Books!RecordMcpRequest, LogInv, Books!LogStep
<1>2. CASE Books!LogMcpRequest
  <2>1. /\ v9 # <<>> /\ v2' = v2 + 1 /\ v1' = Books!Trimmed(v1, v2 + 1, Head(v9))
        /\ v9' = Tail(v9) /\ v3' = v3
    BY <1>2 DEF Books!LogMcpRequest
  <2>2. Head(v9) \in Nat /\ Tail(v9) \in Seq(Nat)
    BY <2>1 DEF LogInv
  <2>3. /\ v1' \in Seq(Nat) /\ Len(v1') <= Head(v9)
        /\ \A k \in DOMAIN v1' : v1'[k] = v2 + 1 - Len(v1') + k
    <3>1. v1 \in Seq(Nat) /\ v2 \in Nat /\ \A k \in DOMAIN v1 : v1[k] = v2 - Len(v1) + k
      BY DEF LogInv
    <3> DEFINE t == Books!Trimmed(v1, v2 + 1, Head(v9))
    <3>2. /\ t \in Seq(Nat) /\ Len(t) <= Head(v9)
          /\ \A k \in DOMAIN t : t[k] = v2 + 1 - Len(t) + k
      BY <2>2, <3>1, TrimmedIs
    <3>3. v1' = t
      BY <2>1
    <3> HIDE DEF t
    <3> QED
      BY <3>2, <3>3
  <2>4. LogInv'
    <3>1. v2' \in Nat /\ v9' \in Seq(Nat) /\ v3' \in Nat
      BY <2>1, <2>2 DEF LogInv
    <3>2. ASSUME NEW k \in DOMAIN v1' PROVE v1'[k] = v2' - Len(v1') + k
      <4>1. v1'[k] = v2 + 1 - Len(v1') + k
        BY <2>3
      <4>2. v2' = v2 + 1
        BY <2>1
      <4>3. v1' \in Seq(Nat) /\ v2 \in Nat
        BY <2>3 DEF LogInv
      <4>4. k \in Nat /\ Len(v1') \in Nat
        BY <4>3
      <4> DEFINE y == Len(v1')
                 z == v1'[k]
      <4>5. z = v2 + 1 - y + k /\ y \in Nat
        BY <4>1, <4>4
      <4> HIDE DEF y, z
      <4>6. z = v2' - y + k
        BY <4>2, <4>3, <4>4, <4>5
      <4> QED
        BY <4>6 DEF y, z
    <3> QED
      BY <2>3, <3>1, <3>2 DEF LogInv
  <2>5. Books!LogStep
    <3>1. \A k \in DOMAIN v1' : v1'[k] = v2' - Len(v1') + k
      BY <2>4 DEF LogInv
    <3> QED
      BY <2>3, <3>1 DEF Books!LogStep
  <2> QED
    BY <2>4, <2>5
<1>3. CASE Books!ClearMcpRequests
  BY <1>3 DEF Books!ClearMcpRequests, LogInv, Books!LogStep
<1>4. CASE Books!SetCap
  BY <1>4, LedgersAssumption DEF Books!SetCap, LogInv, Books!LogStep
<1>5. CASE UNCHANGED Books!logVars
  BY <1>5 DEF Books!logVars, LogInv, Books!LogStep
<1> QED
  BY <1>1, <1>2, <1>3, <1>4, <1>5 DEF Books!LogNext

-----------------------------------------------------------------------------
(* The faults of ProcessFaults.                                            *)

(* A sequence without its j-th element.                                    *)
LEMMA RemovedIs ==
  ASSUME NEW E, NEW q \in Seq(E), NEW j \in 1..Len(q)
  PROVE  LET r == SubSeq(q, 1, j - 1) \o SubSeq(q, j + 1, Len(q)) IN
         /\ r \in Seq(E) /\ Len(r) = Len(q) - 1
         /\ \A i \in 1..(Len(q) - 1) : r[i] = IF i < j THEN q[i] ELSE q[i + 1]
<1> DEFINE L == Len(q)
           a == SubSeq(q, 1, j - 1)
           c == SubSeq(q, j + 1, L)
           s == a \o c
<1>1. L \in Nat /\ j \in 1..L /\ \A i \in 1..L : q[i] \in E
  BY LenProperties, ElementOfSeq
<1> HIDE DEF L
<1>2. a \in Seq(E) /\ Len(a) = j - 1 /\ \A i \in 1..(j - 1) : a[i] = q[i]
  <2>1. 1 \in Int /\ j - 1 \in Int /\ \A i \in 1..(j - 1) : q[i] \in E
    BY <1>1
  <2>2. /\ SubSeq(q, 1, j - 1) \in Seq(E)
        /\ Len(SubSeq(q, 1, j - 1)) = IF 1 <= j - 1 THEN (j - 1) - 1 + 1 ELSE 0
        /\ \A i \in 1..((j - 1) - 1 + 1) : SubSeq(q, 1, j - 1)[i] = q[1 + i - 1]
    BY <2>1, SubSeqProperties, SMT
  <2>3. Len(a) = j - 1
    BY <1>1, <2>2
  <2>4. \A i \in 1..(j - 1) : i \in 1..((j - 1) - 1 + 1) /\ 1 + i - 1 = i
    BY <1>1
  <2> QED
    BY <2>2, <2>3, <2>4
<1>3. c \in Seq(E) /\ Len(c) = L - j /\ \A i \in 1..(L - j) : c[i] = q[j + i]
  <2>1. j + 1 \in Int /\ L \in Int /\ \A i \in (j + 1)..L : q[i] \in E
    BY <1>1
  <2>2. /\ SubSeq(q, j + 1, L) \in Seq(E)
        /\ Len(SubSeq(q, j + 1, L)) = IF j + 1 <= L THEN L - (j + 1) + 1 ELSE 0
        /\ \A i \in 1..(L - (j + 1) + 1) : SubSeq(q, j + 1, L)[i] = q[j + 1 + i - 1]
    BY <2>1, SubSeqProperties, SMT
  <2>3. Len(c) = L - j
    BY <1>1, <2>2
  <2>4. \A i \in 1..(L - j) : i \in 1..(L - (j + 1) + 1) /\ j + 1 + i - 1 = j + i
    BY <1>1
  <2> QED
    BY <2>2, <2>3, <2>4
<1> HIDE DEF a, c
<1>4. /\ s \in Seq(E) /\ Len(s) = Len(a) + Len(c)
      /\ \A i \in 1..(Len(a) + Len(c)) : s[i] = IF i <= Len(a) THEN a[i] ELSE c[i - Len(a)]
  BY <1>2, <1>3, ConcatProperties
<1>5. Len(a) + Len(c) = L - 1
  BY <1>1, <1>2, <1>3
<1>6. ASSUME NEW i \in 1..(L - 1) PROVE s[i] = IF i < j THEN q[i] ELSE q[i + 1]
  <2>1. i \in 1..(Len(a) + Len(c)) /\ i \in Int
    BY <1>5
  <2>2. CASE i < j
    <3>1. i \in 1..(j - 1) /\ i <= Len(a)
      BY <1>1, <1>2, <2>2
    <3> QED
      BY <1>2, <1>4, <2>1, <2>2, <3>1
  <2>3. CASE ~(i < j)
    <3>1. ~(i <= Len(a)) /\ i - Len(a) \in 1..(L - j) /\ j + (i - Len(a)) = i + 1
      BY <1>1, <1>2, <2>3
    <3> QED
      BY <1>3, <1>4, <2>1, <2>3, <3>1
  <2> QED
    BY <2>2, <2>3
<1> QED
  BY <1>4, <1>5, <1>6 DEF L, a, c

Faulty == [sig : Signature, lastAt : Nat, lastLoggedAt : Nat]

(* A map in the order of its last occurrences, which agrees with what was  *)
(* seen and printed and has every later signature.                         *)
InOrder(m, sn, pr) ==
  /\ \A i, j \in DOMAIN m : /\ m[i].sig = m[j].sig => i = j
                            /\ i < j => m[i].lastAt <= m[j].lastAt
  /\ \A i \in DOMAIN m : m[i].lastAt = sn[m[i].sig] /\ m[i].lastLoggedAt = pr[m[i].sig]

HasLater(m, sn) ==
  \A i \in DOMAIN m, t \in Signature :
    sn[t] > sn[m[i].sig] => \E j \in DOMAIN m : m[j].sig = t

FaultsInv ==
  /\ v1 \in Nat /\ v2 \in Seq(Faulty)
  /\ v3 \in [Signature -> Int] /\ v4 \in [Signature -> Int]
  /\ \A s \in Signature : v3[s] <= v1
  /\ InOrder(v2, v3, v4) /\ HasLater(v2, v3)
  /\ \A s \in Signature : v3[s] >= 0 => v4[s] >= 0 /\ v3[s] - v4[s] < RateLimit

(* Without what is recorded again, the others are there in their order.    *)
LEMMA OthersAre ==
  ASSUME FaultsInv, NEW s \in Signature
  PROVE  LET r == IF Faults!Known(s) THEN Faults!RemoveAt(v2, Faults!At(s)) ELSE v2 IN
         /\ r \in Seq(Faulty) /\ InOrder(r, v3, v4)
         /\ \A i \in DOMAIN r : r[i].sig # s
         /\ \A i \in DOMAIN v2 : v2[i].sig # s => \E j \in DOMAIN r : r[j] = v2[i]
         /\ \A j \in DOMAIN r : \E i \in DOMAIN v2 : r[j] = v2[i]
<1> DEFINE r == IF Faults!Known(s) THEN Faults!RemoveAt(v2, Faults!At(s)) ELSE v2
           L == Len(v2)
<1>0. v2 \in Seq(Faulty) /\ L \in Nat /\ DOMAIN v2 = 1..L /\ \A i \in 1..L : v2[i] \in Faulty
  BY ElementOfSeq DEF FaultsInv
<1>1. CASE ~Faults!Known(s)
  <2>1. r = v2 /\ \A i \in DOMAIN v2 : v2[i].sig # s
    BY <1>1 DEF Faults!Known
  <2>2. v2 \in Seq(Faulty) /\ InOrder(v2, v3, v4)
    BY DEF FaultsInv
  <2> HIDE DEF r
  <2>3. /\ r \in Seq(Faulty) /\ InOrder(r, v3, v4)
        /\ \A i \in DOMAIN r : r[i].sig # s
        /\ \A i \in DOMAIN v2 : v2[i].sig # s => \E j \in DOMAIN r : r[j] = v2[i]
        /\ \A j \in DOMAIN r : \E i \in DOMAIN v2 : r[j] = v2[i]
    BY <2>1, <2>2
  <2> QED
    BY <2>3 DEF r
<1>2. CASE Faults!Known(s)
  <2> DEFINE n == Faults!At(s)
  <2>1. n \in 1..L /\ v2[n].sig = s
    BY <1>0, <1>2 DEF Faults!Known, Faults!At
  <2> HIDE DEF n
  <2>2. r = SubSeq(v2, 1, n - 1) \o SubSeq(v2, n + 1, Len(v2))
    BY <1>2 DEF Faults!RemoveAt, n
  <2>3. /\ r \in Seq(Faulty) /\ Len(r) = L - 1
        /\ \A i \in 1..(L - 1) : r[i] = IF i < n THEN v2[i] ELSE v2[i + 1]
    <3> DEFINE d == SubSeq(v2, 1, n - 1) \o SubSeq(v2, n + 1, Len(v2))
    <3>1. v2 \in Seq(Faulty) /\ n \in 1..Len(v2)
      BY <1>0, <2>1
    <3>2. /\ d \in Seq(Faulty) /\ Len(d) = Len(v2) - 1
          /\ \A i \in 1..(Len(v2) - 1) : d[i] = IF i < n THEN v2[i] ELSE v2[i + 1]
      BY <3>1, RemovedIs
    <3> HIDE DEF d, r
    <3>3. r = d
      BY <2>2 DEF d
    <3> QED
      BY <3>2, <3>3
  <2> HIDE DEF r, L
  <2>4. DOMAIN r = 1..(L - 1)
    BY <2>3
  <2> DEFINE at(i) == IF i < n THEN i ELSE i + 1
  <2>5. \A i \in 1..(L - 1) : at(i) \in 1..L /\ at(i) # n /\ r[i] = v2[at(i)]
    BY <1>0, <2>1, <2>3
  <2>6. \A i, j \in 1..(L - 1) : /\ at(i) = at(j) => i = j
                                 /\ i < j => at(i) < at(j)
    BY <1>0, <2>1
  <2>7. ASSUME NEW i \in 1..L, i # n PROVE \E j \in 1..(L - 1) : r[j] = v2[i]
    <3>1. CASE i < n
      <4>1. i \in 1..(L - 1) /\ r[i] = v2[i]
        BY <1>0, <2>1, <2>3, <3>1
      <4> QED
        BY <4>1
    <3>2. CASE i > n
      <4>1. i - 1 \in 1..(L - 1) /\ ~(i - 1 < n) /\ (i - 1) + 1 = i
        BY <1>0, <2>1, <3>2
      <4>2. r[i - 1] = v2[i]
        BY <2>3, <4>1
      <4> QED
        BY <4>1, <4>2
    <3> QED
      BY <1>0, <2>1, <2>7, <3>1, <3>2
  <2> HIDE DEF at
  <2>8. InOrder(v2, v3, v4)
    BY DEF FaultsInv
  <2>9. InOrder(r, v3, v4)
    <3>1. ASSUME NEW i \in 1..(L - 1), NEW j \in 1..(L - 1)
          PROVE  /\ r[i].sig = r[j].sig => i = j
                 /\ i < j => r[i].lastAt <= r[j].lastAt
      BY <1>0, <2>5, <2>6, <2>8 DEF InOrder
    <3>2. \A i \in 1..(L - 1) :
            r[i].lastAt = v3[r[i].sig] /\ r[i].lastLoggedAt = v4[r[i].sig]
      BY <1>0, <2>5, <2>8 DEF InOrder
    <3> QED
      BY <2>4, <3>1, <3>2 DEF InOrder
  <2>10. \A i \in 1..(L - 1) : r[i].sig # s
    BY <1>0, <2>1, <2>5, <2>8 DEF InOrder
  <2>11. ASSUME NEW i \in DOMAIN v2, v2[i].sig # s PROVE \E j \in DOMAIN r : r[j] = v2[i]
    <3>1. i \in 1..L /\ i # n
      BY <1>0, <2>1, <2>11
    <3> QED
      BY <2>4, <2>7, <3>1
  <2>12. \A j \in DOMAIN r : \E i \in DOMAIN v2 : r[j] = v2[i]
    <3> TAKE j \in DOMAIN r
    <3>1. at(j) \in DOMAIN v2 /\ r[j] = v2[at(j)]
      BY <1>0, <2>4, <2>5
    <3> QED
      BY <3>1
  <2>13. /\ r \in Seq(Faulty) /\ InOrder(r, v3, v4)
         /\ \A i \in DOMAIN r : r[i].sig # s
         /\ \A i \in DOMAIN v2 : v2[i].sig # s => \E j \in DOMAIN r : r[j] = v2[i]
         /\ \A j \in DOMAIN r : \E i \in DOMAIN v2 : r[j] = v2[i]
    BY <2>3, <2>4, <2>9, <2>10, <2>11, <2>12
  <2> QED
    BY <2>13 DEF r
<1> QED
  BY <1>1, <1>2

(* The map without its first is in order and has every later signature.    *)
LEMMA TailKeeps ==
  ASSUME NEW a \in Seq(Faulty), a # <<>>, NEW sn \in [Signature -> Int], NEW pr,
         InOrder(a, sn, pr), HasLater(a, sn)
  PROVE  Tail(a) \in Seq(Faulty) /\ InOrder(Tail(a), sn, pr) /\ HasLater(Tail(a), sn)
<1> DEFINE b == Tail(a)
           L == Len(a)
<1>1. /\ L \in Nat \ {0} /\ DOMAIN a = 1..L /\ \A i \in 1..L : a[i] \in Faulty
      /\ b \in Seq(Faulty) /\ DOMAIN b = 1..(L - 1)
      /\ \A i \in 1..(L - 1) : b[i] = a[i + 1] /\ i + 1 \in 1..L
  BY ElementOfSeq, HeadTailProperties
<1> HIDE DEF b, L
<1>2. InOrder(b, sn, pr)
  <2>1. ASSUME NEW i \in 1..(L - 1), NEW j \in 1..(L - 1)
        PROVE  /\ b[i].sig = b[j].sig => i = j
               /\ i < j => b[i].lastAt <= b[j].lastAt
    <3>1. i + 1 \in DOMAIN a /\ j + 1 \in DOMAIN a /\ b[i] = a[i + 1] /\ b[j] = a[j + 1]
      BY <1>1
    <3>2. i < j => i + 1 < j + 1
      BY <1>1
    <3>3. i + 1 = j + 1 => i = j
      BY <1>1
    <3>4. /\ a[i + 1].sig = a[j + 1].sig => i + 1 = j + 1
          /\ i + 1 < j + 1 => a[i + 1].lastAt <= a[j + 1].lastAt
      BY <3>1 DEF InOrder
    <3> QED
      BY <3>1, <3>2, <3>3, <3>4
  <2>2. ASSUME NEW i \in 1..(L - 1)
        PROVE  b[i].lastAt = sn[b[i].sig] /\ b[i].lastLoggedAt = pr[b[i].sig]
    <3>1. i + 1 \in DOMAIN a /\ b[i] = a[i + 1]
      BY <1>1
    <3> QED
      BY <3>1 DEF InOrder
  <2> QED
    BY <1>1, <2>1, <2>2 DEF InOrder
<1>3. ASSUME NEW i \in DOMAIN b, NEW t \in Signature, sn[t] > sn[b[i].sig]
      PROVE  \E j \in DOMAIN b : b[j].sig = t
  <2>1. i + 1 \in DOMAIN a /\ b[i] = a[i + 1] /\ i + 1 \in 1..L /\ i \in 1..(L - 1)
    BY <1>1
  <2>2. PICK k \in DOMAIN a : a[k].sig = t
    BY <1>3, <2>1 DEF HasLater
  <2>3. k # 1
    <3> SUFFICES ASSUME k = 1 PROVE FALSE
      OBVIOUS
    <3>1. 1 < i + 1
      BY <1>1, <2>1
    <3>2. a[1].lastAt <= a[i + 1].lastAt
      BY <2>1, <2>2, <3>1 DEF InOrder
    <3>3. a[1].lastAt = sn[t] /\ a[i + 1].lastAt = sn[b[i].sig]
      BY <2>1, <2>2 DEF InOrder
    <3>4. sn[t] \in Int /\ a[i + 1].lastAt \in Int
      BY <1>1, <2>1 DEF Faulty
    <3> QED
      BY <1>3, <3>2, <3>3, <3>4
  <2>4. k - 1 \in 1..(L - 1) /\ (k - 1) + 1 = k
    BY <1>1, <2>2, <2>3
  <2>5. k - 1 \in DOMAIN b /\ b[k - 1] = a[k]
    BY <1>1, <2>4
  <2> QED
    BY <2>2, <2>5
<1>4. HasLater(b, sn)
  BY <1>3 DEF HasLater
<1> QED
  BY <1>1, <1>2, <1>4 DEF b

(* A fault is recorded.                                                    *)
LEMMA RecordKeeps ==
  ASSUME FaultsInv, NEW s \in Signature, Faults!Record(s)
  PROVE  FaultsInv'
<1> DEFINE r == IF Faults!Known(s) THEN Faults!RemoveAt(v2, Faults!At(s)) ELSE v2
           e == [sig |-> s, lastAt |-> v1,
                 lastLoggedAt |-> IF Faults!Printed(s) THEN v1 ELSE Faults!Of(s).lastLoggedAt]
           a == Append(r, e)
           L == Len(r)
<1>1. /\ v1 \in Nat /\ v2 \in Seq(Faulty) /\ DOMAIN v2 = 1..Len(v2)
      /\ v3 \in [Signature -> Int] /\ v4 \in [Signature -> Int]
      /\ \A t \in Signature : v3[t] <= v1
      /\ InOrder(v2, v3, v4) /\ HasLater(v2, v3)
      /\ \A t \in Signature : v3[t] >= 0 => v4[t] >= 0 /\ v3[t] - v4[t] < RateLimit
  BY DEF FaultsInv
<1>2. /\ r \in Seq(Faulty) /\ InOrder(r, v3, v4)
      /\ \A i \in DOMAIN r : r[i].sig # s
      /\ \A i \in DOMAIN v2 : v2[i].sig # s => \E j \in DOMAIN r : r[j] = v2[i]
      /\ \A j \in DOMAIN r : \E i \in DOMAIN v2 : r[j] = v2[i]
  BY OthersAre
<1>3. ~Faults!Printed(s) =>
        /\ Faults!Of(s).lastLoggedAt \in Nat /\ Faults!Of(s).lastLoggedAt = v4[s]
        /\ v1 - v4[s] < RateLimit
  <2> SUFFICES ASSUME ~Faults!Printed(s)
               PROVE  /\ Faults!Of(s).lastLoggedAt \in Nat /\ Faults!Of(s).lastLoggedAt = v4[s]
                      /\ v1 - v4[s] < RateLimit
    OBVIOUS
  <2>1. Faults!Known(s) /\ ~(v1 - Faults!Of(s).lastLoggedAt >= RateLimit)
    BY DEF Faults!Printed
  <2> DEFINE n == Faults!At(s)
  <2>2. n \in DOMAIN v2 /\ v2[n].sig = s
    BY <2>1 DEF Faults!Known, Faults!At
  <2> HIDE DEF n
  <2>3. v2[n] \in Faulty /\ v2[n].lastLoggedAt = v4[s]
    BY <1>1, <2>2, ElementOfSeq DEF InOrder
  <2>4. Faults!Of(s) = v2[n]
    BY DEF Faults!Of, n
  <2>5. v2[n].lastLoggedAt \in Nat /\ RateLimit \in Nat
    BY <2>3, LedgersAssumption DEF Faulty
  <2> QED
    BY <1>1, <2>1, <2>3, <2>4, <2>5
<1>4. /\ v2' = Faults!Evicted(a) /\ v1' = v1
      /\ v3' = [v3 EXCEPT ![s] = v1]
      /\ v4' = IF Faults!Printed(s) THEN [v4 EXCEPT ![s] = v1] ELSE v4
  BY DEF Faults!Record, Faults!Inserted
<1>5. /\ v3' \in [Signature -> Int] /\ v4' \in [Signature -> Int]
      /\ v3'[s] = v1 /\ v4'[s] = e.lastLoggedAt
      /\ \A t \in Signature : t # s => v3'[t] = v3[t] /\ v4'[t] = v4[t]
  BY <1>1, <1>3, <1>4
<1>6. e \in Faulty /\ e.sig = s /\ e.lastAt = v1
  BY <1>1, <1>3 DEF Faulty
<1>7. RateLimit \in Nat \ {0}
  BY LedgersAssumption
<1>8. \A t \in Signature : v3'[t] >= 0 => v4'[t] >= 0 /\ v3'[t] - v4'[t] < RateLimit
  <2>1. v4'[s] >= 0 /\ v3'[s] - v4'[s] < RateLimit
    BY <1>1, <1>3, <1>5, <1>7
  <2> QED
    BY <1>1, <1>5, <2>1
<1> HIDE DEF e, r
<1>9. /\ a \in Seq(Faulty) /\ L \in Nat /\ Len(a) = L + 1 /\ DOMAIN r = 1..L
      /\ DOMAIN a = 1..(L + 1) /\ a[L + 1] = e /\ \A i \in 1..L : a[i] = r[i]
      /\ \A i \in 1..L : r[i] \in Faulty
  BY <1>2, <1>6, AppendProperties, ElementOfSeq
<1> HIDE DEF a, L
<1>10. InOrder(a, v3', v4')
  <2>1. \A i \in 1..L : /\ r[i].sig \in Signature /\ r[i].sig # s
                        /\ r[i].lastAt = v3[r[i].sig] /\ r[i].lastLoggedAt = v4[r[i].sig]
                        /\ r[i].lastAt \in Nat /\ r[i].lastAt <= v1
    BY <1>1, <1>2, <1>9 DEF InOrder, Faulty
  <2>2. ASSUME NEW i \in 1..(L + 1)
        PROVE  a[i].lastAt = v3'[a[i].sig] /\ a[i].lastLoggedAt = v4'[a[i].sig]
    <3>1. CASE i = L + 1
      BY <1>5, <1>6, <1>9, <3>1
    <3>2. CASE i # L + 1
      <4>1. i \in 1..L
        BY <1>9, <3>2
      <4> QED
        <5>1. a[i] = r[i] /\ a[i].sig \in Signature /\ a[i].sig # s
          BY <1>9, <2>1, <4>1
        <5>2. v3'[a[i].sig] = v3[a[i].sig] /\ v4'[a[i].sig] = v4[a[i].sig]
          BY <1>5, <5>1
        <5>3. a[i].lastAt = v3[a[i].sig] /\ a[i].lastLoggedAt = v4[a[i].sig]
          BY <2>1, <4>1, <5>1
        <5> QED
          BY <5>2, <5>3
    <3> QED
      BY <3>1, <3>2
  <2>3. ASSUME NEW i \in 1..(L + 1), NEW j \in 1..(L + 1)
        PROVE  /\ a[i].sig = a[j].sig => i = j
               /\ i < j => a[i].lastAt <= a[j].lastAt
    <3>1. CASE i \in 1..L /\ j \in 1..L
      BY <1>2, <1>9, <3>1 DEF InOrder
    <3>2. CASE i = L + 1
      <4>1. ~(i < j)
        BY <1>9, <3>2
      <4>2. i # j => j \in 1..L
        BY <1>9, <3>2
      <4>3. j \in 1..L => a[i].sig # a[j].sig
        BY <1>6, <1>9, <2>1, <3>2
      <4> QED
        BY <4>1, <4>2, <4>3
    <3>3. CASE i \in 1..L /\ j = L + 1
      BY <1>6, <1>9, <2>1, <3>3
    <3>4. i \in 1..L \/ i = L + 1
      BY <1>9
    <3>5. j \in 1..L \/ j = L + 1
      BY <1>9
    <3> QED
      BY <3>1, <3>2, <3>3, <3>4, <3>5
  <2> QED
    BY <1>9, <2>2, <2>3 DEF InOrder
<1>11. HasLater(a, v3')
  <2> SUFFICES ASSUME NEW i \in DOMAIN a, NEW t \in Signature, v3'[t] > v3'[a[i].sig]
               PROVE  \E j \in DOMAIN a : a[j].sig = t
    BY DEF HasLater
  <2>1. CASE t = s
    <3>1. L + 1 \in DOMAIN a
      BY <1>9
    <3> QED
      BY <1>6, <1>9, <2>1, <3>1
  <2>2. CASE t # s
    <3>1. v3'[t] = v3[t] /\ v3[t] <= v1 /\ v3[t] \in Int
      BY <1>1, <1>5, <2>2
    <3>2. i # L + 1
      <4> SUFFICES ASSUME i = L + 1 PROVE FALSE
        OBVIOUS
      <4>1. a[i].sig = s
        BY <1>6, <1>9
      <4>2. v3'[a[i].sig] = v1
        BY <1>5, <4>1
      <4> QED
        BY <1>1, <3>1, <4>2
    <3>3. i \in 1..L /\ a[i] = r[i]
      BY <1>9, <3>2
    <3>4. PICK k \in DOMAIN v2 : r[i] = v2[k]
      BY <1>2, <1>9, <3>3
    <3>5. v3'[a[i].sig] = v3[v2[k].sig]
      <4>1. a[i].sig = v2[k].sig /\ r[i].sig # s /\ r[i].sig \in Signature
        BY <1>2, <1>9, <3>3, <3>4 DEF Faulty
      <4> QED
        BY <1>5, <3>3, <4>1
    <3>6. PICK j \in DOMAIN v2 : v2[j].sig = t
      BY <1>1, <3>1, <3>5 DEF HasLater
    <3>7. PICK m \in DOMAIN r : r[m] = v2[j]
      BY <1>2, <2>2, <3>6
    <3>8. m \in DOMAIN a /\ a[m] = r[m]
      BY <1>9, <3>7
    <3> QED
      BY <3>6, <3>7, <3>8
  <2> QED
    BY <2>1, <2>2
<1>12. v2' \in Seq(Faulty) /\ InOrder(v2', v3', v4') /\ HasLater(v2', v3')
  <2>1. v2' = IF Len(a) > MaxSignatures THEN Tail(a) ELSE a
    BY <1>4 DEF Faults!Evicted
  <2>2. a # <<>>
    BY <1>9
  <2>3. Tail(a) \in Seq(Faulty) /\ InOrder(Tail(a), v3', v4') /\ HasLater(Tail(a), v3')
    BY <1>5, <1>9, <1>10, <1>11, <2>2, TailKeeps
  <2> QED
    BY <1>9, <1>10, <1>11, <2>1, <2>3
<1>13. v1' \in Nat /\ \A t \in Signature : v3'[t] <= v1'
  BY <1>1, <1>4, <1>5
<1> QED
  BY <1>5, <1>8, <1>12, <1>13 DEF FaultsInv

LEMMA FaultsInitInv ==
  ASSUME Faults!Init
  PROVE  FaultsInv
BY DEF Faults!Init, FaultsInv, InOrder, HasLater

LEMMA FaultsNextInv ==
  ASSUME FaultsInv, [Faults!Next]_(Faults!vars)
  PROVE  FaultsInv'
<1>1. CASE Faults!Tick
  <2>1. v1' = v1 + 1 /\ v2' = v2 /\ v3' = v3 /\ v4' = v4
    BY <1>1 DEF Faults!Tick
  <2>2. v1 \in Nat /\ v3 \in [Signature -> Int] /\ \A s \in Signature : v3[s] <= v1
    BY DEF FaultsInv
  <2>3. v1' \in Nat /\ \A s \in Signature : v3'[s] <= v1'
    BY <2>1, <2>2
  <2> QED
    BY <2>1, <2>3 DEF FaultsInv
<1>2. CASE UNCHANGED Faults!vars
  BY <1>2 DEF Faults!vars, FaultsInv
<1> QED
  BY <1>1, <1>2, RecordKeeps DEF Faults!Next

LEMMA FaultsSound ==
  ASSUME FaultsInv
  PROVE  Faults!FaultsAreHeard /\ Faults!KeepsTheLatest
<1>1. Faults!FaultsAreHeard
  BY DEF FaultsInv, Faults!FaultsAreHeard
<1>2. Faults!KeepsTheLatest
  BY DEF FaultsInv, HasLater, Faults!KeepsTheLatest, Faults!Known
<1> QED
  BY <1>1, <1>2

-----------------------------------------------------------------------------
BooksInv ==
  /\ part = "log" => LogInv
  /\ part = "history" => HistoryInv
  /\ part = "usage" => UsageInv
  /\ part = "faults" => FaultsInv

LEMMA BooksInitInv ==
  ASSUME AllInit
  PROVE  BooksInv
<1>1. part \in {"log", "history", "usage"} => Books!Init
  BY DEF AllInit
<1>2. part = "faults" => FaultsInv
  BY FaultsInitInv DEF AllInit
<1>3. ASSUME part = "log" PROVE LogInv
  <2>1. v1 = <<>> /\ v2 = 0 /\ v3 \in Caps /\ v9 = <<>>
    BY <1>1, <1>3 DEF Books!Init
  <2>2. v3 \in Nat
    BY <2>1, LedgersAssumption
  <2> QED
    BY <2>1, <2>2 DEF LogInv
<1>4. ASSUME part = "history" PROVE HistoryInv
  BY <1>1, <1>4, HistoryInitInv DEF Books!Init
<1>5. ASSUME part = "usage" PROVE UsageInv
  BY <1>1, <1>5, ZeroUsage DEF Books!Init
<1> QED
  BY <1>2, <1>3, <1>4, <1>5 DEF BooksInv

LEMMA BookSteps ==
  ASSUME [AllNext]_allVars
  PROVE  /\ part' = part
         /\ part = "log" => [Books!LogNext]_(Books!logVars)
         /\ part = "history" => [Books!HealthNext]_(Books!healthVars)
         /\ part = "usage" => [Books!UsageNext]_(Books!usageVars)
         /\ part = "faults" => [Faults!Next]_(Faults!vars)
<1>1. ASSUME UNCHANGED allVars
      PROVE  /\ part' = part
             /\ UNCHANGED <<Books!logVars, Books!healthVars, Books!usageVars, Faults!vars>>
  <2>1. part' = part /\ UNCHANGED own
    BY <1>1 DEF allVars, partVars
  <2> QED
    BY <2>1 DEF own, Books!logVars, Books!healthVars, Books!usageVars, Faults!vars
<1>2. ASSUME AllNext
      PROVE  /\ part' = part
             /\ part = "log" => Books!LogNext
             /\ part = "history" => Books!HealthNext
             /\ part = "usage" => Books!UsageNext
             /\ part = "faults" => Faults!Next
  BY <1>2 DEF AllNext
<1> QED
  BY <1>1, <1>2

LEMMA BooksNextInv ==
  ASSUME BooksInv, [AllNext]_allVars
  PROVE  /\ BooksInv'
         /\ part = "log" /\ Books!LogNext => Books!LogStep
         /\ part = "history" => Books!ShownStep
<1>1. part = "log" => LogInv' /\ (Books!LogNext => Books!LogStep)
  BY BookSteps, LogNextInv DEF BooksInv
<1>2. part = "history" => HistoryInv'
  BY BookSteps, HistoryNextInv DEF BooksInv
<1>3. part = "history" => Books!ShownStep
  BY Recorded DEF BooksInv, Books!ShownStep
<1>4. part = "usage" => UsageInv'
  BY BookSteps, UsageNextInv DEF BooksInv
<1>5. part = "faults" => FaultsInv'
  BY BookSteps, FaultsNextInv DEF BooksInv
<1> QED
  BY <1>1, <1>2, <1>3, <1>4, <1>5, BookSteps DEF BooksInv

(* The ledgers are kept: the log of requests is its newest rows, the       *)
(* health history a bounded log of changes whose newest score is shown,    *)
(* the totals of the projects add up to the roll-up and no share is above  *)
(* 100 (storage/state.ts, usage.ts), and no fault goes on unheard          *)
(* (process-faults.ts); for any caps, rows kept, writers, sizes of files,  *)
(* number of hits and signatures.                                          *)
THEOREM LedgersAreTrue == AllInit /\ [][AllNext]_allVars => LedgersAreKept
<1> DEFINE Kept ==
      /\ part = "history" => Books!HistoryIsChangeLog
      /\ part = "usage" => Books!TotalsAgree /\ Books!BaselineIsPerFile /\ Books!SharesAreShares
      /\ part = "faults" => Faults!FaultsAreHeard /\ Faults!KeepsTheLatest
<1>1. AllInit => BooksInv
  BY BooksInitInv
<1>2. BooksInv /\ [AllNext]_allVars => BooksInv'
  BY BooksNextInv
<1>3. BooksInv => Kept
  BY HistorySound, UsageSound, FaultsSound DEF BooksInv
<1>4. BooksInv /\ [AllNext]_allVars =>
        /\ [part = "log" /\ Books!LogNext => Books!LogStep]_allVars
        /\ [part = "history" => Books!ShownStep]_allVars
  BY BooksNextInv
<1> QED
  BY <1>1, <1>2, <1>3, <1>4, PTL DEF LedgersAreKept
=============================================================================
