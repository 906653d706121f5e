---------------------------- MODULE FilesProofs ----------------------------
(***************************************************************************)
(* Watcher for any paths, contents, cap and number of calls: no change is  *)
(* forgotten, and what the rules exclude is pruned.  Embeddings for any    *)
(* calls, texts and size of a batch: no session is lost sight of, and a    *)
(* call has a vector per text, in their order.  AgentSetup as MCFiles has  *)
(* it: its theorems are of any agents.                                     *)
(***************************************************************************)
EXTENDS MCFiles, SequenceTheorems, TLAPS

(* What the index holds of p once the call under way is over.              *)
Fate(p) == IF inflight[p] # None THEN inflight[p] ELSE index[p]

Entry(p, e) == [path |-> p, event |-> e]

OnePerPath(q) == \A j, k \in DOMAIN q : q[j].path = q[k].path => j = k

-----------------------------------------------------------------------------
(* The pending map, as a set of entries.                                   *)

(* The entries of the pending map.                                         *)
LEMMA SetOf ==
  ASSUME NEW q \in Seq(Pending)
  PROVE  /\ ToSet(q) \subseteq Pending
         /\ \A x : x \in ToSet(q) <=> \E k \in 1..Len(q) : x = q[k]
BY DEF ToSet

(* Taking a path out leaves the other entries, and one per path.           *)
LEMMA WithoutFacts ==
  ASSUME NEW q \in Seq(Pending), OnePerPath(q), NEW x \in ToSet(q)
  PROVE  LET r == Without(q, x.path) IN
         /\ r \in Seq(Pending) /\ Len(r) = Len(q) - 1 /\ OnePerPath(r)
         /\ ToSet(r) = {y \in ToSet(q) : y.path # x.path}
<1> DEFINE i == CHOOSE k \in DOMAIN q : q[k].path = x.path
           r == Without(q, x.path)
<1>1. i \in 1..Len(q) /\ q[i].path = x.path BY SetOf
<1> HIDE DEF i
<1>2. r = SubSeq(q, 1, i - 1) \o SubSeq(q, i + 1, Len(q)) BY DEF Without, RemoveAt, i
<1>3. /\ r \in Seq(Pending) /\ Len(r) = Len(q) - 1
      /\ \A k \in 1..Len(r) : r[k] = IF k < i THEN q[k] ELSE q[k + 1]
  <2>1. SubSeq(q, 1, i - 1) \in Seq(Pending) /\ SubSeq(q, i + 1, Len(q)) \in Seq(Pending)
    BY <1>1
  <2>2. Len(SubSeq(q, 1, i - 1)) = i - 1 /\ Len(SubSeq(q, i + 1, Len(q))) = Len(q) - i
    BY <1>1
  <2> DEFINE a == SubSeq(q, 1, i - 1)
             b == SubSeq(q, i + 1, Len(q))
  <2>3. \A k \in 1..(i - 1) : a[k] = q[k] BY <1>1
  <2>4. \A k \in 1..(Len(q) - i) : b[k] = q[i + k] BY <1>1
  <2> HIDE DEF a, b
  <2>5. r = a \o b BY <1>2 DEF a, b
  <2>6. a \in Seq(Pending) /\ b \in Seq(Pending) /\ Len(a) = i - 1 /\ Len(b) = Len(q) - i
    BY <2>1, <2>2 DEF a, b
  <2> HIDE DEF r
  <2>7. r \in Seq(Pending) /\ Len(r) = Len(q) - 1 BY <1>1, <2>5, <2>6
  <2>8. ASSUME NEW k \in 1..Len(r) PROVE r[k] = IF k < i THEN q[k] ELSE q[k + 1]
    <3>1. CASE k < i
      <4>1. k \in 1..(i - 1) /\ r[k] = a[k] BY <1>1, <2>5, <2>6, <2>7, <3>1
      <4> QED BY <2>3, <3>1, <4>1
    <3>2. CASE ~(k < i)
      <4> DEFINE m == k - (i - 1)
      <4>1. m \in 1..(Len(q) - i) /\ i + m = k + 1 BY <1>1, <2>7, <3>2
      <4>2. r[k] = b[m] BY <1>1, <2>5, <2>6, <2>7, <3>2
      <4> HIDE DEF m
      <4> QED BY <2>4, <3>2, <4>1, <4>2
    <3> QED BY <3>1, <3>2
  <2> QED BY <2>7, <2>8
<1> HIDE DEF r
<1>4. OnePerPath(r)
  <2> SUFFICES ASSUME NEW j \in 1..Len(r), NEW k \in 1..Len(r), r[j].path = r[k].path
               PROVE  j = k
    BY <1>3 DEF OnePerPath
  <2> DEFINE at(n) == IF n < i THEN n ELSE n + 1
  <2>1. at(j) \in 1..Len(q) /\ r[j] = q[at(j)] BY <1>1, <1>3
  <2>2. at(k) \in 1..Len(q) /\ r[k] = q[at(k)] BY <1>1, <1>3
  <2>3. at(j) = at(k) BY <2>1, <2>2 DEF OnePerPath
  <2> QED BY <1>1, <1>3, <2>3
<1>5. ASSUME NEW y \in ToSet(r) PROVE y \in ToSet(q) /\ y.path # x.path
  <2>1. PICK k \in 1..Len(r) : y = r[k] BY <1>3, SetOf
  <2>2. PICK j \in 1..Len(q) : y = q[j] /\ j # i BY <1>1, <1>3, <2>1
  <2> QED BY <1>1, <2>2, SetOf DEF OnePerPath
<1>6. ASSUME NEW y \in ToSet(q), y.path # x.path PROVE y \in ToSet(r)
  <2>1. PICK j \in 1..Len(q) : y = q[j] BY SetOf
  <2>2. j # i BY <1>1, <1>6, <2>1
  <2>3. CASE j < i
    <3>1. j \in 1..Len(r) /\ r[j] = y BY <1>1, <1>3, <2>1, <2>3
    <3> QED BY <1>3, <3>1, SetOf
  <2>4. CASE j > i
    <3>1. j - 1 \in 1..Len(r) /\ r[j - 1] = y BY <1>1, <1>3, <2>1, <2>4
    <3> QED BY <1>3, <3>1, SetOf
  <2> QED BY <1>1, <2>2, <2>3, <2>4
<1>7. ToSet(r) = {y \in ToSet(q) : y.path # x.path} BY <1>5, <1>6
<1> QED BY <1>3, <1>4, <1>7 DEF r

(* Putting an event in leaves the others, but for an evicted one.          *)
LEMMA PutFacts ==
  ASSUME NEW q \in Seq(Pending), OnePerPath(q), Len(q) <= PENDING_CAP,
         NEW p \in Path, NEW e \in Event
  PROVE  LET r == Put(q, p, e) IN
         /\ r \in Seq(Pending) /\ Len(r) <= PENDING_CAP /\ OnePerPath(r)
         /\ Entry(p, e) \in ToSet(r)
         /\ \A y \in ToSet(r) : y = Entry(p, e) \/ (y \in ToSet(q) /\ y.path # p)
         /\ \A y \in ToSet(q) : y.path = p \/ y \in ToSet(r) \/ y.path \in Evicted(q, p)
<1> DEFINE new == Entry(p, e)
           r == Put(q, p, e)
<1>1. new \in Pending /\ new.path = p BY DEF Entry, Pending
<1> HIDE DEF new
<1>2. CASE \E k \in DOMAIN q : q[k].path = p
  <2>1. r = [k \in DOMAIN q |-> IF q[k].path = p THEN new ELSE q[k]]
    BY <1>2 DEF Put, Entry, new
  <2> HIDE DEF r
  <2>2. r \in Seq(Pending) /\ Len(r) = Len(q) BY <1>1, <2>1
  <2>3. \A k \in 1..Len(q) : r[k] = IF q[k].path = p THEN new ELSE q[k] BY <2>1
  <2>4. OnePerPath(r) BY <1>1, <2>2, <2>3 DEF OnePerPath
  <2>5. new \in ToSet(r) BY <1>2, <2>2, <2>3, SetOf
  <2>6. \A y \in ToSet(r) : y = new \/ (y \in ToSet(q) /\ y.path # p)
    BY <2>2, <2>3, SetOf
  <2>7. \A y \in ToSet(q) : y.path = p \/ y \in ToSet(r) BY <2>2, <2>3, SetOf
  <2> QED BY <2>2, <2>4, <2>5, <2>6, <2>7 DEF r, new
<1>3. CASE \A k \in DOMAIN q : q[k].path # p
  <2> DEFINE s == IF Full(q) THEN Tail(q) ELSE q
  <2>1. r = Append(s, new) BY <1>3 DEF Put, Entry, new
  <2>2. /\ s \in Seq(Pending) /\ Len(s) < PENDING_CAP /\ OnePerPath(s)
        /\ ToSet(s) \subseteq ToSet(q)
        /\ \A y \in ToSet(q) : y \in ToSet(s) \/ y.path \in Evicted(q, p)
    <3>1. CASE ~Full(q) BY <3>1, WatcherAssumption DEF Full
    <3>2. CASE Full(q)
      <4>1. Len(q) >= 1 BY <3>2, WatcherAssumption DEF Full
      <4>2. s = Tail(q) BY <3>2
      <4> HIDE DEF s
      <4>3. /\ s \in Seq(Pending) /\ Len(s) = Len(q) - 1
            /\ \A k \in 1..Len(s) : s[k] = q[k + 1]
        BY <4>1, <4>2
      <4>4. OnePerPath(s)
        <5> SUFFICES ASSUME NEW j \in 1..Len(s), NEW k \in 1..Len(s), s[j].path = s[k].path
                     PROVE  j = k
          BY <4>3 DEF OnePerPath
        <5>1. j + 1 \in 1..Len(q) /\ k + 1 \in 1..Len(q) BY <4>3
        <5>2. q[j + 1].path = q[k + 1].path BY <4>3
        <5>3. j + 1 = k + 1 BY <5>1, <5>2 DEF OnePerPath
        <5> QED BY <5>3
      <4>5. ASSUME NEW y \in ToSet(s) PROVE y \in ToSet(q)
        <5>1. PICK k \in 1..Len(s) : y = s[k] BY <4>3, SetOf
        <5>2. k + 1 \in 1..Len(q) /\ y = q[k + 1] BY <4>3, <5>1
        <5> QED BY <5>2, SetOf
      <4>6. ASSUME NEW y \in ToSet(q) PROVE y \in ToSet(s) \/ y.path \in Evicted(q, p)
        <5>1. PICK k \in 1..Len(q) : y = q[k] BY SetOf
        <5>2. CASE k = 1
          <6>1. y = Head(q) BY <4>1, <5>1, <5>2
          <6> QED BY <1>3, <3>2, <6>1 DEF Evicted
        <5>3. CASE k # 1
          <6>1. k - 1 \in 1..Len(s) /\ s[k - 1] = y BY <4>3, <5>1, <5>3
          <6> QED BY <4>3, <6>1, SetOf
        <5> QED BY <5>2, <5>3
      <4>7. Len(s) < PENDING_CAP BY <4>3, WatcherAssumption
      <4> QED BY <4>3, <4>4, <4>5, <4>6, <4>7
    <3> QED BY <3>1, <3>2
  <2> HIDE DEF s, r
  <2>3. /\ r \in Seq(Pending) /\ Len(r) = Len(s) + 1 /\ r[Len(s) + 1] = new
        /\ \A k \in 1..Len(s) : r[k] = s[k]
    BY <1>1, <2>1, <2>2
  <2>4. \A k \in 1..Len(s) : s[k] \in ToSet(q) /\ s[k].path # p
    <3>1. \A y \in ToSet(q) : y.path # p BY <1>3, SetOf
    <3> QED BY <2>2, <3>1, SetOf
  <2>5. OnePerPath(r)
    <3> SUFFICES ASSUME NEW j \in 1..Len(r), NEW k \in 1..Len(r), r[j].path = r[k].path
                 PROVE  j = k
      BY <2>3 DEF OnePerPath
    <3>1. CASE j \in 1..Len(s) /\ k \in 1..Len(s) BY <2>2, <2>3, <3>1 DEF OnePerPath
    <3>2. CASE j = Len(s) + 1 /\ k \in 1..Len(s) BY <1>1, <2>3, <2>4, <3>2
    <3>3. CASE k = Len(s) + 1 /\ j \in 1..Len(s) BY <1>1, <2>3, <2>4, <3>3
    <3>4. CASE j = Len(s) + 1 /\ k = Len(s) + 1 BY <3>4
    <3> QED BY <2>2, <2>3, <3>1, <3>2, <3>3, <3>4
  <2>6. new \in ToSet(r)
    <3>1. Len(s) + 1 \in 1..Len(r) BY <2>2, <2>3
    <3> QED BY <2>3, <3>1, SetOf
  <2>7. ASSUME NEW y \in ToSet(r) PROVE y = new \/ (y \in ToSet(q) /\ y.path # p)
    <3>1. PICK k \in 1..Len(r) : y = r[k] BY <2>3, SetOf
    <3>2. CASE k = Len(s) + 1 BY <2>3, <3>1, <3>2
    <3>3. CASE k \in 1..Len(s) BY <2>3, <2>4, <3>1, <3>3
    <3> QED BY <2>2, <2>3, <3>2, <3>3
  <2>8. ASSUME NEW y \in ToSet(q) PROVE y \in ToSet(r) \/ y.path \in Evicted(q, p)
    <3>1. CASE y \in ToSet(s)
      <4>1. PICK k \in 1..Len(s) : y = s[k] BY <2>2, <3>1, SetOf
      <4>2. k \in 1..Len(r) /\ y = r[k] BY <2>2, <2>3, <4>1
      <4> QED BY <2>3, <4>2, SetOf
    <3> QED BY <2>2, <3>1
  <2>9. Len(r) <= PENDING_CAP BY <2>2, <2>3, WatcherAssumption
  <2> QED BY <2>3, <2>5, <2>6, <2>7, <2>8, <2>9 DEF r, new
<1> QED BY <1>2, <1>3

-----------------------------------------------------------------------------
Basic == TypeOK /\ OnePerPath(pending)

(* The cached filter is what the rule files say, or the watcher will hear. *)
FilterTrue == filter # None /\ filter # rules =>
  rulesRaised \/ rulesPending \/ (phase # "running" /\ missed = Path)

(* The last event of a file that is there says so.                         *)
RaisedTrue == \A p \in Path : raised[p] # {} /\ disk[p] # Absent => "change" \in raised[p]

(* What the call under way leaves lacks what is on disk only if something  *)
(* is to come; an armed removal of a file that is back has an event behind.*)
Supported(p) == p \notin rules \cup missed /\ disk[p] \in Content =>
  /\ Fate(p) # disk[p] => raised[p] # {} \/ \E y \in ToSet(pending) : y.path = p
  /\ \A y \in ToSet(pending) : y.path = p /\ y.event = "unlink" => raised[p] # {}

Inv ==
  /\ Basic
  /\ FilterTrue /\ RaisedTrue /\ ExcludedIsPruned
  /\ \A p \in Path : Supported(p)

(* The invariant holds of a watcher that starts on an indexed project.     *)
LEMMA InitInv == Init => Inv
<1> SUFFICES ASSUME Init PROVE Inv OBVIOUS
<1>1. TypeOK
  <2>1. index \in [Path -> Content \cup {Absent}] BY DEF Init
  <2>2. listed \in [Reeval -> SUBSET Path] /\ reeval \in [Reeval -> SUBSET Path] BY DEF Init
  <2>3. pending \in Seq(Pending) /\ Len(pending) <= PENDING_CAP /\ edits \in 0..MaxEdits
    BY WatcherAssumption DEF Init
  <2>4. raised \in [Path -> SUBSET Event]
        /\ inflight \in [Path -> Content \cup {Absent, None}]
    BY DEF Init
  <2>5. /\ disk \in [Path -> OnDisk] /\ rules \subseteq Path
        /\ filter \in (SUBSET Path) \cup {None} /\ missed \subseteq Path
        /\ rulesRaised \in BOOLEAN /\ rulesPending \in BOOLEAN /\ paused \in BOOLEAN
        /\ phase \in {"running", "stopping", "stopped"}
    BY DEF Init
  <2> QED BY <2>1, <2>2, <2>3, <2>4, <2>5 DEF TypeOK
<1>2. OnePerPath(pending) /\ ToSet(pending) = {} BY DEF Init, OnePerPath, ToSet
<1>3. ASSUME NEW p \in Path
      PROVE  /\ raised[p] = {}
             /\ p \notin rules \cup missed /\ disk[p] \in Content => Fate(p) = disk[p]
             /\ p \in rules \ missed => index[p] = Absent
  BY DEF Init, Fate, Current
<1>4. FilterTrue /\ RaisedTrue /\ ExcludedIsPruned
  <2>1. rules \subseteq Path BY DEF Init
  <2> QED BY <1>3, <2>1 DEF Init, FilterTrue, RaisedTrue, ExcludedIsPruned
<1>5. \A p \in Path : Supported(p) BY <1>2, <1>3 DEF Supported
<1> QED BY <1>1, <1>2, <1>4, <1>5 DEF Inv, Basic

-----------------------------------------------------------------------------
(* Every step keeps the types and one entry per path.                      *)
LEMMA BasicStep == ASSUME Basic, [Next]_vars PROVE Basic'
<1> USE WatcherAssumption DEF Basic, TypeOK
<1> DEFINE Q == pending' \in Seq(Pending) /\ Len(pending') <= PENDING_CAP /\ OnePerPath(pending')
<1>0. Q \/ pending' # pending OBVIOUS
<1>1. ASSUME NEW p \in Path, EditFile(p) PROVE Basic'
  <2>1. disk' \in [Path -> OnDisk] /\ raised' \in [Path -> SUBSET Event]
    BY <1>1 DEF EditFile
  <2> QED BY <1>1, <2>1 DEF EditFile, timers, control, calls
<1>2. CASE EditRules BY <1>2 DEF EditRules, Misses, timers, control, calls
<1>3. ASSUME NEW p \in Path, RouteEvent(p) PROVE Basic'
  <2>1. Delivered(p) \in Event BY DEF Delivered, Event
  <2>2. pending' = pending \/ pending' = Put(pending, p, Delivered(p)) BY <1>3 DEF RouteEvent
  <2>3. Q BY <2>1, <2>2, PutFacts
  <2>4. missed' \subseteq Path
    <3>1. Evicted(pending, p) \subseteq Path
      <4>1. Full(pending) => Head(pending) \in Pending BY DEF Full
      <4> QED BY <4>1 DEF Evicted, Pending
    <3> QED BY <1>3, <3>1 DEF RouteEvent, Misses
  <2>5. filter' \in (SUBSET Path) \cup {None} BY <1>3 DEF RouteEvent, CurrentFilter
  <2>6. raised' \in [Path -> SUBSET Event] BY <1>3 DEF RouteEvent
  <2> QED BY <1>3, <2>3, <2>4, <2>5, <2>6 DEF RouteEvent, world, control, calls
<1>4. CASE ScheduleRulesReeval BY <1>4 DEF ScheduleRulesReeval, world, control, calls
<1>5. ASSUME NEW p \in Path, NEW e \in Event, Dispatch(p, e) PROVE Basic'
  <2> DEFINE x == Entry(p, e)
  <2>1. x \in ToSet(pending) /\ x.path = p BY <1>5 DEF Dispatch, Entry
  <2> HIDE DEF x
  <2>2. /\ Without(pending, p) \in Seq(Pending) /\ Len(Without(pending, p)) = Len(pending) - 1
        /\ OnePerPath(Without(pending, p))
    BY <2>1, WithoutFacts
  <2>3. Q
    <3>1. pending' = Without(pending, p) \/ pending' = Put(Without(pending, p), p, e)
      BY <1>5 DEF Dispatch, Again
    <3>2. Len(Without(pending, p)) <= PENDING_CAP BY <2>2
    <3> QED BY <2>2, <3>1, <3>2, PutFacts
  <2>4. inflight' \in [Path -> Content \cup {Absent, None}]
    <3>1. Outcome(p, e) \in Content \cup {Absent, None} BY DEF Outcome, OnDisk, ShouldIndex
    <3> QED BY <1>5, <3>1 DEF Dispatch
  <2>5. missed' \subseteq Path BY <1>5 DEF Dispatch, Misses
  <2> QED BY <1>5, <2>3, <2>4, <2>5 DEF Dispatch, world, control, calls
<1>6. ASSUME NEW p \in Path, CallEnds(p) PROVE Basic'
  <2>1. index' \in [Path -> Content \cup {Absent}] BY <1>6 DEF CallEnds
  <2>2. inflight' \in [Path -> Content \cup {Absent, None}] BY <1>6 DEF CallEnds, NotInflight
  <2> QED BY <1>6, <2>1, <2>2 DEF CallEnds, Misses, world, control, timers, calls
<1>7. ASSUME NEW p \in Path, CallRejects(p) PROVE Basic'
  <2>1. inflight' \in [Path -> Content \cup {Absent, None}] BY <1>7 DEF CallRejects, NotInflight
  <2> QED BY <1>7, <2>1 DEF CallRejects, Misses, world, control, timers, calls
<1>8. ASSUME NEW r \in Reeval, DispatchRulesReeval(r) PROVE Basic'
  <2>1. listed' \in [Reeval -> SUBSET Path] /\ reeval' \in [Reeval -> SUBSET Path]
    BY <1>8 DEF DispatchRulesReeval, FreshRules
  <2>2. filter' \in (SUBSET Path) \cup {None} /\ rulesPending' \in BOOLEAN
    BY <1>8 DEF DispatchRulesReeval, ResetFilter
  <2>3. UNCHANGED <<world, raised, rulesRaised, pending, control, inflight, index, missed>>
    BY <1>8 DEF DispatchRulesReeval
  <2> QED BY <2>1, <2>2, <2>3 DEF world, control
<1>9. ASSUME NEW r \in Reeval, NEW p \in Path, Look(r, p) PROVE Basic'
  <2>1. listed' \in [Reeval -> SUBSET Path] BY <1>9 DEF Look
  <2>2. reeval' \in [Reeval -> SUBSET Path]
    <3>1. Refused(r, p) \subseteq Path BY DEF Refused
    <3> QED BY <1>9, <3>1 DEF Look
  <2> QED BY <1>9, <2>1, <2>2 DEF Look, world, control, timers
<1>15. ASSUME NEW r \in Reeval, NEW p \in Path, Prune(r, p) PROVE Basic'
  <2>1. reeval' \in [Reeval -> SUBSET Path] BY <1>15 DEF Prune
  <2>2. index' \in [Path -> Content \cup {Absent}] BY <1>15 DEF Prune
  <2> QED BY <1>15, <2>1, <2>2 DEF Prune, Misses, world, control, timers
<1>10. ASSUME NEW r \in Reeval, PruneRejects(r) PROVE Basic'
  <2>1. /\ reeval' \in [Reeval -> SUBSET Path] /\ reeval[r] \subseteq Path
        /\ listed' \in [Reeval -> SUBSET Path]
    BY <1>10 DEF PruneRejects
  <2> QED BY <1>10, <2>1 DEF PruneRejects, Misses, world, control, timers
<1>11. CASE PauseOrResume BY <1>11 DEF PauseOrResume, world, timers, calls
<1>12. CASE Stop
  <2>1. Q BY <1>12 DEF Stop, OnePerPath
  <2>2. \A x \in ToSet(pending) : x.path \in Path BY SetOf DEF Pending
  <2>3. missed' \subseteq Path BY <1>12, <2>2 DEF Stop, Misses
  <2> QED BY <1>12, <2>1, <2>3 DEF Stop, world, calls
<1>13. CASE Unsubscribed
  <2>1. raised' \in [Path -> SUBSET Event] BY <1>13 DEF Unsubscribed
  <2> QED BY <1>13, <2>1 DEF Unsubscribed, Misses, world, timers, calls
<1>14. CASE UNCHANGED vars BY <1>14 DEF vars, world, control, timers, calls
<1> QED BY <1>1, <1>2, <1>3, <1>4, <1>5, <1>6, <1>7, <1>8, <1>9, <1>10, <1>11, <1>12, <1>13, <1>14, <1>15
        DEF Next, Fires, Settles, Prunes, Reevaluates

-----------------------------------------------------------------------------
(* The cached filter is true, or a rule event is on its way.               *)
LEMMA FilterStep == ASSUME Inv, [Next]_vars PROVE FilterTrue'
<1> USE DEF Inv, Basic, TypeOK, FilterTrue
<1>1. ASSUME NEW p \in Path, EditFile(p) PROVE FilterTrue'
  BY <1>1 DEF EditFile, timers, control
<1>2. CASE EditRules
  <2>1. rulesRaised' = (phase # "stopped") BY <1>2 DEF EditRules
  <2>2. UNCHANGED <<filter, rulesPending, phase>> BY <1>2 DEF EditRules, timers, control
  <2>3. phase = "stopped" => missed' = Path BY <1>2 DEF EditRules, Misses
  <2> QED BY <2>1, <2>2, <2>3
<1>3. ASSUME NEW p \in Path, RouteEvent(p) PROVE FilterTrue'
  <2>1. filter' = CurrentFilter /\ missed \subseteq missed' BY <1>3 DEF RouteEvent, Misses
  <2>2. missed' \subseteq Path BY <1>3, BasicStep DEF Next
  <2> QED BY <1>3, <2>1, <2>2 DEF RouteEvent, CurrentFilter, world, control
<1>4. CASE ScheduleRulesReeval BY <1>4 DEF ScheduleRulesReeval, world, control
<1>5. ASSUME UNCHANGED <<filter, rules, rulesRaised, rulesPending, phase>>,
             missed \subseteq missed'
      PROVE  FilterTrue'
  <2>1. missed' \subseteq Path BY BasicStep
  <2> QED BY <1>5, <2>1
<1>6. ASSUME NEW p \in Path, Fires(p) \/ Settles(p) PROVE FilterTrue'
  BY <1>5, <1>6 DEF Fires, Settles, Dispatch, CallEnds, CallRejects, Misses, world, control, timers
<1>7. ASSUME NEW r \in Reeval, DispatchRulesReeval(r) PROVE FilterTrue'
  BY <1>7 DEF DispatchRulesReeval, ResetFilter
<1>8. ASSUME NEW r \in Reeval, Prunes(r) PROVE FilterTrue'
  BY <1>5, <1>8 DEF Prunes, Look, Prune, PruneRejects, Misses, world, control, timers
<1>9. CASE PauseOrResume BY <1>9 DEF PauseOrResume, world, timers
<1>10. CASE Stop
  <2>1. rulesPending => missed' = Path BY <1>10 DEF Stop, Misses
  <2> QED BY <1>10, <2>1 DEF Stop, world
<1>11. CASE Unsubscribed
  <2>1. missed \subseteq missed' /\ (rulesRaised => missed' = Path)
    BY <1>11 DEF Unsubscribed, Misses
  <2>2. missed' \subseteq Path BY BasicStep
  <2> QED BY <1>11, <2>1, <2>2 DEF Unsubscribed, world, timers
<1>12. CASE UNCHANGED vars BY <1>12 DEF vars, world, control, timers
<1> QED BY <1>1, <1>2, <1>3, <1>4, <1>6, <1>7, <1>8, <1>9, <1>10, <1>11, <1>12 DEF Next, Reevaluates

(* What the operating system has yet to deliver is the disk's last change. *)
LEMMA RaisedStep == ASSUME Inv, [Next]_vars PROVE RaisedTrue'
<1> USE DEF Inv, Basic, TypeOK, RaisedTrue
<1>1. ASSUME NEW p \in Path, EditFile(p) PROVE RaisedTrue'
  <2> SUFFICES ASSUME NEW q \in Path, raised'[q] # {}, disk'[q] # Absent
               PROVE  "change" \in raised'[q]
    OBVIOUS
  <2>1. CASE q = p BY <1>1, <2>1 DEF EditFile
  <2>2. CASE q # p BY <1>1, <2>2 DEF EditFile
  <2> QED BY <2>1, <2>2
<1>2. ASSUME NEW p \in Path, RouteEvent(p) PROVE RaisedTrue'
  <2> SUFFICES ASSUME NEW q \in Path, raised'[q] # {}, disk'[q] # Absent
               PROVE  "change" \in raised'[q]
    OBVIOUS
  <2>1. disk' = disk /\ raised' = [raised EXCEPT ![p] = @ \ {Delivered(p)}]
    BY <1>2 DEF RouteEvent, world
  <2>2. CASE q = p BY <1>2, <2>1, <2>2 DEF RouteEvent, Delivered, Event
  <2>3. CASE q # p BY <2>1, <2>3
  <2> QED BY <2>2, <2>3
<1>3. CASE Unsubscribed BY <1>3 DEF Unsubscribed
<1>4. ASSUME UNCHANGED <<disk, raised>> PROVE RaisedTrue' BY <1>4
<1> QED BY <1>1, <1>2, <1>3, <1>4 DEF Next, Reevaluates, Fires, Settles, Prunes, EditRules,
        ScheduleRulesReeval, Dispatch, CallEnds, CallRejects, DispatchRulesReeval, Look,
        Prune, PruneRejects, PauseOrResume, Stop, vars, world

(* What the rules exclude is gone, or its deletion is coming.              *)
LEMMA ExcludedStep == ASSUME Inv, [Next]_vars PROVE ExcludedIsPruned'
<1> USE DEF Inv, Basic, TypeOK, ExcludedIsPruned
<1>0. missed' \subseteq Path BY BasicStep
<1>1. ASSUME NEW p \in Path, EditFile(p) PROVE ExcludedIsPruned'
  <2>1. \A q \in rules : q \in missed => q \in missed' BY <1>1 DEF EditFile
  <2> QED BY <1>1, <2>1 DEF EditFile, timers, calls
<1>2. CASE EditRules
  <2>1. rulesRaised' \/ missed' = Path BY <1>0, <1>2 DEF EditRules, Misses
  <2>2. rules' \subseteq Path BY <1>2 DEF EditRules
  <2> QED BY <2>1, <2>2
<1>3. ASSUME NEW p \in Path, CallEnds(p) PROVE ExcludedIsPruned'
  <2>1. UNCHANGED <<rules, rulesRaised, rulesPending, reeval>> BY <1>3 DEF CallEnds, world, timers, calls
  <2>2. ASSUME NEW q \in rules \ missed', index'[q] # Absent
        PROVE  rulesRaised \/ rulesPending \/ \E r \in Reeval : q \in reeval[r]
    <3>1. CASE q = p
      <4>1. inflight[p] \in Content BY <1>3, <2>2, <3>1 DEF CallEnds
      <4> QED BY <1>3, <2>2, <3>1, <4>1 DEF CallEnds, Misses
    <3>2. CASE q # p BY <1>3, <2>2, <3>2 DEF CallEnds, Misses
    <3> QED BY <3>1, <3>2
  <2> QED BY <2>1, <2>2
<1>4. ASSUME NEW r \in Reeval, DispatchRulesReeval(r) PROVE ExcludedIsPruned'
  <2>1. reeval'[r] = {p \in rules : index[p] # Absent}
    BY <1>4 DEF DispatchRulesReeval, FreshRules
  <2> QED BY <1>4, <2>1 DEF DispatchRulesReeval, world
<1>13. ASSUME NEW r \in Reeval, NEW p \in Path, Look(r, p) PROVE ExcludedIsPruned'
  <2>1. \A t \in Reeval : reeval[t] \subseteq reeval'[t] BY <1>13 DEF Look
  <2>2. UNCHANGED <<rules, rulesRaised, rulesPending, index, missed>>
    BY <1>13 DEF Look, world, timers
  <2> QED BY <2>1, <2>2
<1>5. ASSUME NEW r \in Reeval, NEW p \in Path, Prune(r, p) PROVE ExcludedIsPruned'
  <2>1. UNCHANGED <<rules, rulesRaised, rulesPending>> /\ missed \subseteq missed'
    BY <1>5 DEF Prune, Misses, world, timers
  <2>2. index'[p] = Absent
        /\ \A q \in Path : q # p => index'[q] = index[q]
                                  /\ \A t \in Reeval : q \in reeval[t] => q \in reeval'[t]
    BY <1>5 DEF Prune
  <2> QED BY <2>1, <2>2
<1>6. ASSUME NEW r \in Reeval, PruneRejects(r) PROVE ExcludedIsPruned'
  <2>1. UNCHANGED <<rules, rulesRaised, rulesPending, index>> /\ missed \subseteq missed'
        /\ reeval[r] \subseteq missed'
    BY <1>6 DEF PruneRejects, Misses, world, timers
  <2>2. \A t \in Reeval : t # r => reeval'[t] = reeval[t] BY <1>6 DEF PruneRejects
  <2> QED BY <2>1, <2>2
<1>7. CASE Stop
  <2>1. rulesPending => missed' = Path BY <1>0, <1>7 DEF Stop, Misses
  <2>2. UNCHANGED <<rules, rulesRaised, index, reeval>> /\ missed \subseteq missed'
    BY <1>7 DEF Stop, Misses, world, calls
  <2> QED BY <2>1, <2>2
<1>8. CASE Unsubscribed
  <2>1. rulesRaised => missed' = Path BY <1>0, <1>8 DEF Unsubscribed, Misses
  <2>2. UNCHANGED <<rules, rulesPending, index, reeval>> /\ missed \subseteq missed'
    BY <1>8 DEF Unsubscribed, Misses, world, timers, calls
  <2> QED BY <2>1, <2>2
<1>9. CASE ScheduleRulesReeval BY <1>9 DEF ScheduleRulesReeval
<1>10. ASSUME UNCHANGED <<rules, rulesRaised, rulesPending, index, reeval>>, missed \subseteq missed'
       PROVE  ExcludedIsPruned'
  BY <1>10
<1>11. ASSUME NEW p \in Path, RouteEvent(p) \/ Fires(p) \/ CallRejects(p) PROVE ExcludedIsPruned'
  BY <1>10, <1>11 DEF RouteEvent, Fires, Dispatch, CallRejects, Misses, world, timers, calls
<1>12. CASE PauseOrResume \/ UNCHANGED vars
  BY <1>10, <1>12 DEF PauseOrResume, vars, world, timers, calls
<1> QED BY <1>1, <1>2, <1>3, <1>4, <1>5, <1>6, <1>7, <1>8, <1>9, <1>11, <1>12, <1>13
        DEF Next, Settles, Prunes, Reevaluates

-----------------------------------------------------------------------------
(* A step that loses none of what supports p.                              *)
LEMMA SameSupport ==
  ASSUME NEW p \in Path, Supported(p),
         p \notin rules' \cup missed' => p \notin rules \cup missed,
         disk'[p] = disk[p], Fate(p)' = Fate(p), raised'[p] = raised[p],
         \A y : y.path = p => (y \in ToSet(pending') <=> y \in ToSet(pending))
  PROVE  Supported(p)'
BY DEF Supported

(* An edit raises the event that will account for it.                      *)
LEMMA SupportEdit ==
  ASSUME Inv, NEW p \in Path, EditFile(p), NEW q \in Path
  PROVE  Supported(q)'
<1>1. UNCHANGED <<rules, pending, inflight, index>> BY DEF EditFile, timers
<1>2. CASE q # p
  <2>1. disk'[q] = disk[q] /\ raised'[q] = raised[q] BY <1>2 DEF EditFile, Inv, Basic, TypeOK
  <2>2. q \notin missed' => q \notin missed BY <1>2 DEF EditFile
  <2> QED BY <1>1, <2>1, <2>2, SameSupport DEF Inv, Fate
<1>3. CASE q = p
  <2>1. CASE phase # "running" BY <1>3, <2>1 DEF EditFile, Supported
  <2>2. CASE phase = "running"
    <3>1. raised'[p] # {} BY <2>2 DEF EditFile, Inv, Basic, TypeOK
    <3> QED BY <1>3, <3>1 DEF Supported
  <2> QED BY <2>1, <2>2
<1> QED BY <1>2, <1>3

(* A delivered event goes to a timer, is excluded, or is in missed.        *)
LEMMA SupportRoute ==
  ASSUME Inv, NEW p \in Path, RouteEvent(p), NEW q \in Path
  PROVE  Supported(q)'
<1>1. UNCHANGED <<disk, rules, inflight, index>> /\ missed \subseteq missed' /\ Delivered(p) \in Event
  BY DEF RouteEvent, world, Misses, Delivered, Event
<1>2. /\ raised[p] # {} /\ raised'[p] = raised[p] \ {Delivered(p)}
      /\ \A t \in Path : t # p => raised'[t] = raised[t]
  BY DEF RouteEvent, Inv, Basic, TypeOK
<1>3. CASE ~ShouldIndex(CurrentFilter, p)
  <2>1. UNCHANGED pending BY <1>3 DEF RouteEvent
  <2>2. CASE q # p BY <1>1, <1>2, <2>1, <2>2, SameSupport DEF Inv, Fate
  <2>3. CASE q = p
    <3>1. CASE p \in rules \/ disk[p] = Absent
      BY <1>1, <2>3, <3>1, WatcherAssumption DEF Supported
    <3>2. CASE p \notin rules /\ disk[p] # Absent
      <4>1. p \in CurrentFilter /\ filter # None /\ filter # rules
        BY <1>3, <3>2 DEF CurrentFilter, ShouldIndex
      <4>2. p \in missed' BY <1>3, <3>2, <4>1 DEF Inv, FilterTrue, RouteEvent, Misses
      <4> QED BY <2>3, <4>2 DEF Supported
    <3> QED BY <3>1, <3>2
  <2> QED BY <2>2, <2>3
<1>4. CASE ShouldIndex(CurrentFilter, p)
  <2> DEFINE e == Delivered(p)
  <2>1. pending' = Put(pending, p, e) /\ Evicted(pending, p) \subseteq missed'
    BY <1>4 DEF RouteEvent, Misses
  <2>2. e = "unlink" => raised'[p] # {}
    <3>1. "change" \in raised[p] BY <1>2, <1>4 DEF Inv, RaisedTrue, ShouldIndex
    <3> QED BY <1>2, <3>1
  <2>3. /\ Entry(p, e) \in ToSet(pending')
        /\ \A y \in ToSet(pending') : y = Entry(p, e) \/ (y \in ToSet(pending) /\ y.path # p)
        /\ \A y \in ToSet(pending) : y.path = p \/ y \in ToSet(pending') \/ y.path \in missed'
    BY <1>1, <2>1, PutFacts DEF Inv, Basic, TypeOK
  <2> HIDE DEF e
  <2>4. Entry(p, e).path = p /\ Entry(p, e).event = e BY DEF Entry
  <2>5. CASE q # p
    <3>1. SUFFICES ASSUME q \notin missed' PROVE Supported(q)' BY DEF Supported
    <3>2. \A y : y.path = q => (y \in ToSet(pending') <=> y \in ToSet(pending))
      BY <2>3, <2>4, <2>5, <3>1
    <3> QED BY <1>1, <1>2, <2>5, <3>2, SameSupport DEF Inv, Fate
  <2>6. CASE q = p BY <1>1, <2>2, <2>3, <2>4, <2>6 DEF Supported
  <2> QED BY <2>5, <2>6
<1> QED BY <1>3, <1>4

(* A timer that fires starts a call, or is armed again.                    *)
LEMMA SupportDispatch ==
  ASSUME Inv, NEW p \in Path, NEW e \in Event, Dispatch(p, e), NEW q \in Path
  PROVE  Supported(q)'
<1> DEFINE x == Entry(p, e)
<1>1. x \in ToSet(pending) /\ x.path = p /\ x.event = e BY DEF Dispatch, Entry
<1>2. UNCHANGED <<disk, rules, raised, index>> /\ missed \subseteq missed'
  BY DEF Dispatch, world, Misses
<1> DEFINE rest == Without(pending, p)
<1> HIDE DEF x
<1>3. /\ rest \in Seq(Pending) /\ Len(rest) = Len(pending) - 1 /\ OnePerPath(rest)
      /\ ToSet(rest) = {y \in ToSet(pending) : y.path # p}
  BY <1>1, WithoutFacts DEF Inv, Basic, TypeOK
<1>4. CASE paused
  <2>1. pending' = rest /\ inflight' = inflight /\ p \in missed' BY <1>4 DEF Dispatch, Misses
  <2>2. CASE q = p BY <2>1, <2>2 DEF Supported
  <2>3. CASE q # p
    <3>1. \A y : y.path = q => (y \in ToSet(pending') <=> y \in ToSet(pending))
      BY <1>3, <2>1, <2>3
    <3> QED BY <1>2, <2>1, <3>1, SameSupport DEF Inv, Fate
  <2> QED BY <2>2, <2>3
<1>5. CASE ~paused /\ inflight[p] # None
  <2>1. pending' = Put(rest, p, e) /\ UNCHANGED <<inflight, missed>> BY <1>5 DEF Dispatch, Again
  <2>2. Evicted(rest, p) = {}
    <3>1. ~Full(rest) BY <1>3, WatcherAssumption DEF Full, Inv, Basic, TypeOK
    <3> QED BY <3>1 DEF Evicted
  <2>3. Len(rest) <= PENDING_CAP BY <1>3, WatcherAssumption DEF Inv, Basic, TypeOK
  <2> HIDE DEF rest
  <2>4. /\ x \in ToSet(pending')
        /\ \A y \in ToSet(pending') : y = x \/ (y \in ToSet(rest) /\ y.path # p)
        /\ \A y \in ToSet(rest) : y.path = p \/ y \in ToSet(pending')
    BY <1>3, <2>1, <2>2, <2>3, PutFacts DEF x
  <2>5. \A y : y \in ToSet(pending') <=> y = x \/ (y \in ToSet(pending) /\ y.path # p)
    BY <1>3, <2>4
  <2>6. \A y \in ToSet(pending) : y.path = p => y = x
    <3>1. \A j \in 1..Len(pending), k \in 1..Len(pending) :
            pending[j].path = pending[k].path => j = k
      BY DEF Inv, Basic, TypeOK, OnePerPath
    <3> QED BY <1>1, <3>1, SetOf DEF Inv, Basic, TypeOK
  <2>7. \A y : y \in ToSet(pending') <=> y \in ToSet(pending) BY <1>1, <2>5, <2>6
  <2> QED BY <1>2, <2>1, <2>7, SameSupport DEF Inv, Fate
<1>6. CASE ~paused /\ inflight[p] = None
  <2>1. pending' = rest /\ missed' = missed /\ inflight' = [inflight EXCEPT ![p] = Outcome(p, e)]
    BY <1>6 DEF Dispatch
  <2>2. \A t \in Path : inflight'[t] = IF t = p THEN Outcome(p, e) ELSE inflight[t]
    BY <2>1 DEF Inv, Basic, TypeOK
  <2>3. CASE q # p
    <3>1. \A y : y.path = q => (y \in ToSet(pending') <=> y \in ToSet(pending))
      BY <1>3, <2>1, <2>3
    <3> QED BY <1>2, <2>1, <2>2, <2>3, <3>1, SameSupport DEF Inv, Fate
  <2>4. CASE q = p
    <3> SUFFICES ASSUME p \notin rules \cup missed, disk[p] \in Content PROVE Supported(p)'
      BY <1>2, <2>1, <2>4 DEF Supported
    <3>1. \A y \in ToSet(pending') : y.path # p BY <1>3, <2>1
    <3>2. CASE e = "unlink"
      <4>1. raised[p] # {} BY <1>1, <3>2 DEF Inv, Supported
      <4> QED BY <1>2, <3>1, <4>1 DEF Supported
    <3>3. CASE e # "unlink"
      <4>1. disk[p] # Absent /\ disk[p] # Skipped /\ disk[p] # None BY WatcherAssumption
      <4>2. Fate(p)' = disk[p]
        <5>1. CASE disk[p] = index[p]
          <6>1. Outcome(p, e) = None BY <3>3, <5>1 DEF Outcome
          <6> QED BY <1>2, <2>2, <5>1, <6>1 DEF Fate
        <5>2. CASE disk[p] # index[p]
          <6>1. Outcome(p, e) = disk[p] BY <3>3, <4>1, <5>2 DEF Outcome, ShouldIndex
          <6> QED BY <1>2, <2>2, <4>1, <6>1 DEF Fate
        <5> QED BY <5>1, <5>2
      <4> QED BY <1>2, <3>1, <4>2 DEF Supported
    <3> QED BY <3>2, <3>3
  <2> QED BY <2>3, <2>4
<1> QED BY <1>4, <1>5, <1>6

(* A call that ends leaves what it was going to.                           *)
LEMMA SupportSettles ==
  ASSUME Inv, NEW p \in Path, Settles(p), NEW q \in Path
  PROVE  Supported(q)'
<1>1. UNCHANGED <<disk, rules, raised, pending>> /\ missed \subseteq missed'
  BY DEF Settles, CallEnds, CallRejects, Misses, world, timers
<1>2. CASE CallRejects(p)
  <2>1. CASE q = p BY <1>2, <2>1 DEF CallRejects, Misses, Supported
  <2>2. CASE q # p
    <3>1. UNCHANGED <<index, inflight[q]>>
      BY <1>2, <2>2 DEF CallRejects, NotInflight, Inv, Basic, TypeOK
    <3> QED BY <1>1, <3>1, SameSupport DEF Inv, Fate
  <2> QED BY <2>1, <2>2
<1>3. CASE CallEnds(p)
  <2>1. /\ inflight[p] # None /\ inflight'[p] = None /\ index'[p] = inflight[p]
        /\ \A t \in Path : t # p => inflight'[t] = inflight[t] /\ index'[t] = index[t]
    BY <1>3 DEF CallEnds, NotInflight, Inv, Basic, TypeOK
  <2>2. Fate(q)' = Fate(q) BY <2>1 DEF Fate
  <2> QED BY <1>1, <2>2, SameSupport DEF Inv
<1> QED BY <1>2, <1>3 DEF Settles

(* A pruned row is of a path the rules exclude, or whose file is gone.     *)
LEMMA SupportPrune ==
  ASSUME Inv, NEW r \in Reeval, NEW p \in Path, Prune(r, p), NEW q \in Path
  PROVE  Supported(q)'
<1>1. UNCHANGED <<disk, rules, raised, pending, inflight>> /\ missed \subseteq missed'
      /\ (p \in rules \cup missed' \/ disk[p] = Absent)
  BY DEF Prune, Misses, world, timers
<1>2. CASE q = p BY <1>1, <1>2, WatcherAssumption DEF Supported
<1>3. CASE q # p
  <2>1. index'[q] = index[q] BY <1>3 DEF Prune, Inv, Basic, TypeOK
  <2> QED BY <1>1, <2>1, SameSupport DEF Inv, Fate
<1> QED BY <1>2, <1>3

(* No step loses what will bring a path's row up to date.                  *)
LEMMA SupportStep == ASSUME Inv, [Next]_vars, NEW q \in Path PROVE Supported(q)'
<1>1. ASSUME NEW p \in Path, EditFile(p) \/ RouteEvent(p) \/ Fires(p) \/ Settles(p)
      PROVE  Supported(q)'
  BY <1>1, SupportEdit, SupportRoute, SupportDispatch, SupportSettles DEF Fires
<1>2. CASE EditRules
  <2>1. UNCHANGED <<disk, raised, pending, inflight, index>> BY <1>2 DEF EditRules, timers
  <2>2. q \notin rules' \cup missed' => q \notin rules \cup missed BY <1>2 DEF EditRules, Misses
  <2> QED BY <2>1, <2>2, SameSupport DEF Inv, Fate
<1>3. ASSUME UNCHANGED <<disk, rules, raised, pending, inflight, index>>, missed \subseteq missed'
      PROVE  Supported(q)'
  BY <1>3, SameSupport DEF Inv, Fate
<1>4. CASE ScheduleRulesReeval \/ PauseOrResume \/ UNCHANGED vars
  BY <1>3, <1>4 DEF ScheduleRulesReeval, PauseOrResume, vars, world, timers
<1>5. ASSUME NEW r \in Reeval, NEW p \in Path, DispatchRulesReeval(r) \/ Look(r, p) \/ PruneRejects(r)
      PROVE  Supported(q)'
  BY <1>3, <1>5 DEF DispatchRulesReeval, Look, PruneRejects, Misses, world, timers
<1>6. ASSUME NEW r \in Reeval, NEW p \in Path, Prune(r, p) PROVE Supported(q)'
  BY <1>6, SupportPrune
<1>7. CASE Stop
  <2>1. UNCHANGED <<disk, rules, raised, inflight, index>> /\ missed \subseteq missed'
        /\ pending' = <<>>
    BY <1>7 DEF Stop, Misses, world
  <2>2. ASSUME NEW y \in ToSet(pending), y.path = q PROVE q \in missed'
    <3>1. y \in Pending BY SetOf DEF Inv, Basic, TypeOK
    <3> QED BY <1>7, <2>2, <3>1 DEF Stop, Misses, Pending
  <2>3. SUFFICES ASSUME q \notin missed' PROVE Supported(q)' BY DEF Supported
  <2>4. ToSet(pending') = {} BY <2>1 DEF ToSet
  <2>5. \A y : y.path = q => (y \in ToSet(pending') <=> y \in ToSet(pending))
    BY <2>2, <2>3, <2>4
  <2> QED BY <2>1, <2>5, SameSupport DEF Inv, Fate
<1>8. CASE Unsubscribed
  <2>1. UNCHANGED <<disk, rules, pending, inflight, index>> /\ missed \subseteq missed'
    BY <1>8 DEF Unsubscribed, Misses, world, timers
  <2>2. CASE raised[q] = {}
    <3>1. raised'[q] = raised[q] BY <1>8, <2>2 DEF Unsubscribed
    <3> QED BY <2>1, <3>1, SameSupport DEF Inv, Fate
  <2>3. CASE raised[q] # {}
    <3>1. q \in missed' BY <1>8, <2>3 DEF Unsubscribed, Misses
    <3> QED BY <3>1 DEF Supported
  <2> QED BY <2>2, <2>3
<1> QED BY <1>1, <1>2, <1>4, <1>5, <1>6, <1>7, <1>8 DEF Next, Prunes, Reevaluates

(* Every step preserves the invariant.                                     *)
THEOREM InvStep == Inv /\ [Next]_vars => Inv'
<1> SUFFICES ASSUME Inv, [Next]_vars PROVE Inv' OBVIOUS
<1>1. Basic' BY BasicStep DEF Inv
<1>2. \A p \in Path : Supported(p)' BY SupportStep
<1> QED BY <1>1, <1>2, FilterStep, RaisedStep, ExcludedStep DEF Inv

(* No new content is forgotten: while the index lacks what is on disk, an  *)
(* event is on its way, a timer is armed or a call runs, unless in missed. *)
THEOREM NoChangeIsForgotten == Spec => []NothingForgotten
<1>1. Inv => NothingForgotten
  <2> SUFFICES ASSUME Inv, NEW p \in Path \ (rules \cup missed), disk[p] \in Content,
                      index[p] # disk[p], raised[p] = {}, inflight[p] = None
               PROVE  \E k \in DOMAIN pending : pending[k].path = p
    BY DEF NothingForgotten, OnItsWay
  <2>1. Fate(p) # disk[p] BY DEF Fate
  <2>2. PICK y \in ToSet(pending) : y.path = p BY <2>1 DEF Inv, Supported
  <2>3. PICK k \in 1..Len(pending) : y = pending[k] BY SetOf DEF Inv, Basic, TypeOK
  <2> QED BY <2>2, <2>3 DEF Inv, Basic, TypeOK
<1> QED BY <1>1, InitInv, InvStep, PTL DEF Spec

(* What the rule files exclude is pruned or about to be, unless in missed. *)
THEOREM ExcludedGoes == Spec => []ExcludedIsPruned
<1>1. Inv => ExcludedIsPruned BY DEF Inv
<1> QED BY <1>1, InitInv, InvStep, PTL DEF Spec

(* The timers, the queue, the calls and the index keep their types, and no *)
(* more than PENDING_CAP events wait.                                      *)
THEOREM TypeCorrect == Spec => []TypeOK
<1>1. Inv => TypeOK BY DEF Inv, Basic
<1> QED BY <1>1, InitInv, InvStep, PTL DEF Spec

-----------------------------------------------------------------------------
(* Embeddings.                                                             *)
Where == {"idle", "ready", "loading", "waiting", "probing", "embedding", "done", "failed"}
Load == {"loading", "up", "failed", "released"}
Input == CallKind \X Nat
Asked == [at : Where, kind : CallKind \cup {None}, texts : Seq(Input),
          load : Nat \cup {None}, out : Seq(Input)]

SessionType ==
  /\ session \in Seq(Load)
  /\ pipelineP \in DOMAIN session \cup {None}
  /\ closing \in [at : {"no", "waiting", "releasing", "done"}, load : DOMAIN session \cup {None}]

(* dispose() holds no load before it is called.                            *)
NotYetDisposed == closing.at = "no" => closing.load = None

CallType == size \in Nat /\ call \in [Call -> Asked]

(* What a call has so far are the first of its texts.                      *)
FirstTexts(r) == Len(r.out) <= Len(r.texts) /\ \A i \in 1..Len(r.out) : r.out[i] = r.texts[i]

Filled(r) ==
  /\ FirstTexts(r)
  /\ r.at = "done" /\ r.kind # "ready" => r.out = r.texts

SessionInv == SessionType /\ NotYetDisposed /\ OneSession
CallInv == CallType /\ \A c \in Call : Filled(call[c])

EmbedInv == SessionInv /\ CallInv

LEMMA EmbedInitInv ==
  ASSUME EmbedAssumption, EmbedInit
  PROVE  EmbedInv
<1>1. SessionInv
  BY DEF EmbedInit, SessionInv, SessionType, NotYetDisposed, OneSession
<1>2. size \in Nat
  BY DEF EmbedInit, EmbedAssumption, BatchSize
<1>3. Idle \in Asked /\ Filled(Idle)
  BY DEF Idle, Asked, Where, Filled, FirstTexts
<1>4. CallInv
  BY <1>2, <1>3 DEF EmbedInit, CallInv, CallType
<1> QED
  BY <1>1, <1>4 DEF EmbedInv

(* The provider asks for its pipeline.                                     *)
LEMMA GetPipelineKeeps ==
  ASSUME EmbedAssumption, SessionInv, getPipeline, UNCHANGED closing
  PROVE  SessionInv' /\ pipelineP' \in Nat
<1>1. CASE pipelineP # None
  BY <1>1 DEF SessionInv, SessionType, NotYetDisposed, OneSession, getPipeline
<1>2. CASE pipelineP = None
  <2>1. /\ session' = Append(session, "loading") /\ pipelineP' = Len(session) + 1
        /\ session \in Seq(Load) /\ "loading" \in Load
    BY <1>2 DEF SessionInv, SessionType, getPipeline, Load
  <2>2. /\ session' \in Seq(Load) /\ Len(session') = Len(session) + 1
        /\ session'[Len(session) + 1] = "loading"
        /\ \A l \in 1..Len(session) : session'[l] = session[l]
    BY <2>1, AppendProperties
  <2>3. /\ DOMAIN session = 1..Len(session) /\ Len(session) \in Nat
        /\ DOMAIN session' = 1..(Len(session) + 1)
    BY <2>1, <2>2
  <2>4. SessionType'
    BY <2>1, <2>2, <2>3 DEF SessionInv, SessionType
  <2>5. OneSession'
    <3> SUFFICES ASSUME NEW l \in DOMAIN session', session'[l] \in {"loading", "up"}
                 PROVE  l \in {pipelineP', closing.load}
      BY DEF OneSession
    <3>1. CASE l = Len(session) + 1
      BY <2>1, <3>1
    <3>2. CASE l \in 1..Len(session)
      <4>1. l \in {None, closing.load}
        BY <1>2, <2>2, <2>3, <3>2 DEF SessionInv, OneSession
      <4>2. l # None
        BY <2>3, <3>2 DEF EmbedAssumption
      <4> QED
        BY <4>1, <4>2
    <3> QED
      BY <2>3, <3>1, <3>2
  <2>6. NotYetDisposed'
    BY DEF SessionInv, NotYetDisposed
  <2> QED
    BY <2>1, <2>3, <2>4, <2>5, <2>6 DEF SessionInv
<1> QED
  BY <1>1, <1>2

(* A position that changes, of a call that stays short of "done".          *)
LEMMA MoveKeeps ==
  ASSUME CallInv, UNCHANGED size, NEW c \in Call, NEW r \in Asked,
         call' = [call EXCEPT ![c] = r], Filled(r)
  PROVE  CallInv'
<1>1. call' \in [Call -> Asked]
  BY DEF CallInv, CallType
<1>2. ASSUME NEW d \in Call PROVE Filled(call'[d])
  <2>1. CASE d = c
    BY <2>1 DEF CallInv, CallType
  <2>2. CASE d # c
    BY <2>2 DEF CallInv, CallType
  <2> QED
    BY <2>1, <2>2
<1> QED
  BY <1>1, <1>2 DEF CallInv, CallType

LEMMA BeginsKeeps ==
  ASSUME EmbedAssumption, EmbedInv, NEW c \in Call, NEW kind \in CallKind, NEW n \in 0..MaxTexts,
         Begins(c, kind, n)
  PROVE  EmbedInv'
<1> DEFINE nothing == kind = "documents" /\ n = 0
           Given(at, load) == [at |-> at, kind |-> kind, texts |-> Prefixed(kind, n),
                               load |-> load, out |-> <<>>]
<1>1. UNCHANGED <<size, closing>>
  BY DEF Begins
<1>2. Prefixed(kind, n) \in Seq(Input) /\ Len(Prefixed(kind, n)) = n
  <2>1. n \in Nat
    BY DEF EmbedAssumption
  <2>2. \A i \in 1..n : <<kind, i>> \in Input
    BY <2>1 DEF Input
  <2> QED
    BY <2>1, <2>2 DEF Prefixed
<1>3. ASSUME NEW at \in Where, NEW load \in Nat \cup {None}, at # "idle",
             at = "done" => nothing \/ kind = "ready",
             call' = [call EXCEPT ![c] = Given(at, load)]
      PROVE  CallInv'
  <2>1. Given(at, load) \in Asked
    BY <1>2 DEF Asked
  <2>2. FirstTexts(Given(at, load))
    BY <1>2 DEF FirstTexts
  <2>3. nothing => Prefixed(kind, n) = <<>>
    BY <1>2
  <2>4. Filled(Given(at, load))
    BY <1>3, <2>2, <2>3 DEF Filled
  <2> HIDE DEF Given
  <2> QED
    BY <1>1, <1>3, <2>1, <2>4, MoveKeeps DEF EmbedInv
<1>6. CASE nothing \/ (kind = "ready" /\ identity)
  <2>1. UNCHANGED <<session, pipelineP>> /\ call' = [call EXCEPT ![c] = Given("done", None)]
    BY <1>6 DEF Begins
  <2>2. SessionInv'
    BY <1>1, <2>1 DEF EmbedInv, SessionInv, SessionType, NotYetDisposed, OneSession
  <2>3. CallInv'
    BY <1>3, <1>6, <2>1 DEF Where
  <2> QED
    BY <2>2, <2>3 DEF EmbedInv
<1>7. CASE ~nothing /\ identity /\ kind # "ready"
  <2>1. UNCHANGED <<session, pipelineP>> /\ call' = [call EXCEPT ![c] = Given("ready", None)]
    BY <1>7 DEF Begins
  <2>2. SessionInv'
    BY <1>1, <2>1 DEF EmbedInv, SessionInv, SessionType, NotYetDisposed, OneSession
  <2>3. CallInv'
    BY <1>3, <2>1 DEF Where
  <2> QED
    BY <2>2, <2>3 DEF EmbedInv
<1>8. CASE ~nothing /\ ~identity /\ ~consent
  <2>1. UNCHANGED <<session, pipelineP>> /\ call' = [call EXCEPT ![c] = Given("failed", None)]
    BY <1>8 DEF Begins
  <2>2. SessionInv'
    BY <1>1, <2>1 DEF EmbedInv, SessionInv, SessionType, NotYetDisposed, OneSession
  <2>3. CallInv'
    BY <1>3, <2>1 DEF Where
  <2> QED
    BY <2>2, <2>3 DEF EmbedInv
<1>9. CASE ~nothing /\ ~identity /\ consent
  <2>1. getPipeline /\ call' = [call EXCEPT ![c] = Given("loading", pipelineP')]
    BY <1>9 DEF Begins
  <2>2. SessionInv' /\ pipelineP' \in Nat
    BY <1>1, <2>1, GetPipelineKeeps DEF EmbedInv
  <2>3. CallInv'
    BY <1>3, <2>1, <2>2 DEF Where
  <2> QED
    BY <2>2, <2>3 DEF EmbedInv
<1> QED
  BY <1>6, <1>7, <1>8, <1>9

(* A call moves on to anything but its end, or to its end without vectors. *)
LEMMA PositionKeeps ==
  ASSUME CallInv, UNCHANGED size, NEW c \in Call, NEW at \in Where, Moves(c, at),
         at # "idle", at = "done" => call[c].kind = "ready"
  PROVE  CallInv'
<1> DEFINE r == [call[c] EXCEPT !.at = at]
<1>1. call[c] \in Asked /\ Filled(call[c])
  BY DEF CallInv, CallType
<1>2. r \in Asked
  BY <1>1 DEF Asked
<1>3. r.out = call[c].out /\ r.texts = call[c].texts /\ r.kind = call[c].kind /\ r.at = at
  BY <1>1 DEF Asked
<1>4. Filled(r)
  BY <1>1, <1>3 DEF Filled, FirstTexts
<1>5. call' = [call EXCEPT ![c] = r]
  BY DEF Moves, CallInv, CallType
<1> HIDE DEF r
<1> QED
  BY <1>2, <1>4, <1>5, MoveKeeps

LEMMA CutsOut ==
  ASSUME NEW S, NEW t \in Seq(S), NEW k \in Nat, NEW e \in Nat, k <= e, e <= Len(t)
  PROVE  LET s == SubSeq(t, k + 1, e) IN
         /\ s \in Seq(S) /\ Len(s) = e - k
         /\ \A i \in 1..(e - k) : s[i] = t[k + i]
<1> DEFINE s == SubSeq(t, k + 1, e)
<1>1. k + 1 \in Int /\ e \in Int /\ \A i \in (k + 1)..e : t[i] \in S
  OBVIOUS
<1>2. /\ s \in Seq(S)
      /\ Len(s) = IF k + 1 <= e THEN e - (k + 1) + 1 ELSE 0
      /\ \A i \in 1..(e - (k + 1) + 1) : s[i] = t[(k + 1) + i - 1]
  BY <1>1, SubSeqProperties
<1> HIDE DEF s
<1>3. Len(s) = e - k
  BY <1>2
<1>4. ASSUME NEW i \in 1..(e - k) PROVE s[i] = t[k + i]
  <2>1. i \in 1..(e - (k + 1) + 1) /\ (k + 1) + i - 1 = k + i
    OBVIOUS
  <2> QED
    BY <1>2, <2>1
<1> QED
  BY <1>2, <1>3, <1>4 DEF s

LEMMA EmbedsKeeps ==
  ASSUME EmbedInv, NEW c \in Call, Embeds(c)
  PROVE  CallInv'
<1> DEFINE q == call[c]
           out == q.out \o Slice(q.texts, Len(q.out))
           at == IF Len(out) < Len(q.texts) THEN q.at ELSE "done"
           r == [q EXCEPT !.out = out, !.at = at]
<1>1. q \in Asked /\ Filled(q) /\ size \in Nat /\ UNCHANGED size /\ q.at = "embedding"
  BY DEF EmbedInv, CallInv, CallType, Embeds
<1>2. CASE ~Alive(c)
  BY <1>1, <1>2, PositionKeeps DEF Embeds, EmbedInv, Where
<1>3. CASE Alive(c)
  <2>1. q.texts \in Seq(Input) /\ q.out \in Seq(Input)
    BY <1>1 DEF Asked
  <2>2. /\ Len(q.out) \in Nat /\ Len(q.texts) \in Nat /\ Len(q.out) <= Len(q.texts)
        /\ \A i \in 1..Len(q.out) : q.out[i] = q.texts[i]
    BY <1>1, <2>1 DEF Filled, FirstTexts
  <2> DEFINE e == End(q.texts, Len(q.out))
             slice == Slice(q.texts, Len(q.out))
  <2>3. e \in Nat /\ Len(q.out) <= e /\ e <= Len(q.texts)
    BY <1>1, <2>2 DEF End
  <2>4. /\ slice \in Seq(Input) /\ Len(slice) = e - Len(q.out)
        /\ \A i \in 1..(e - Len(q.out)) : slice[i] = q.texts[Len(q.out) + i]
    <3>1. slice = SubSeq(q.texts, Len(q.out) + 1, e)
      BY DEF Slice
    <3> DEFINE t == q.texts
               k == Len(q.out)
    <3>2. t \in Seq(Input) /\ k \in Nat /\ e \in Nat /\ k <= e /\ e <= Len(t)
      BY <2>1, <2>2, <2>3
    <3>3. slice = SubSeq(t, k + 1, e)
      BY <3>1
    <3> HIDE DEF e, slice, q, t, k
    <3>4. LET cut == SubSeq(t, k + 1, e) IN
          /\ cut \in Seq(Input) /\ Len(cut) = e - k
          /\ \A i \in 1..(e - k) : cut[i] = t[k + i]
      BY <3>2, CutsOut
    <3>5. slice \in Seq(Input) /\ Len(slice) = e - k /\ \A i \in 1..(e - k) : slice[i] = t[k + i]
      BY <3>3, <3>4
    <3> QED
      BY <3>5 DEF t, k
  <2> HIDE DEF slice, e, q
  <2>5. out = q.out \o slice
    BY DEF slice
  <2> HIDE DEF out
  <2>6. /\ out \in Seq(Input) /\ Len(out) = e
        /\ \A i \in 1..e : out[i] = IF i <= Len(q.out) THEN q.out[i] ELSE slice[i - Len(q.out)]
    BY <2>1, <2>2, <2>3, <2>4, <2>5, ConcatProperties
  <2>7. \A i \in 1..e : out[i] = q.texts[i]
    <3> TAKE i \in 1..e
    <3>1. CASE i <= Len(q.out)
      BY <2>2, <2>6, <3>1
    <3>2. CASE i > Len(q.out)
      <4>1. i - Len(q.out) \in 1..(e - Len(q.out)) /\ Len(q.out) + (i - Len(q.out)) = i
        BY <2>2, <2>3, <3>2
      <4>2. out[i] = slice[i - Len(q.out)]
        BY <2>2, <2>6, <3>2
      <4> QED
        BY <2>4, <4>1, <4>2
    <3> QED
      BY <2>2, <2>3, <3>1, <3>2
  <2>8. ~(Len(out) < Len(q.texts)) => out = q.texts
    <3> SUFFICES ASSUME ~(Len(out) < Len(q.texts)) PROVE out = q.texts
      OBVIOUS
    <3>1. Len(out) = Len(q.texts)
      BY <2>2, <2>3, <2>6
    <3> QED
      BY <2>1, <2>6, <2>7, <3>1, SeqEqual
  <2>9. r \in Asked
    BY <1>1, <2>6 DEF Asked, Where
  <2>10. r.out = out /\ r.at = at /\ r.texts = q.texts
    BY <1>1 DEF Asked
  <2>11. Filled(r)
    BY <1>1, <2>2, <2>3, <2>6, <2>7, <2>8, <2>10 DEF Filled, FirstTexts
  <2>12. call' = [call EXCEPT ![c] = r]
    BY <1>1, <1>3 DEF Embeds, out, q, EmbedInv, CallInv, CallType
  <2> HIDE DEF r
  <2> QED
    BY <1>1, <2>9, <2>11, <2>12, MoveKeeps DEF EmbedInv
<1> QED
  BY <1>2, <1>3

LEMMA EmbedStep ==
  ASSUME EmbedAssumption, EmbedInv, [EmbedNext]_embedVars
  PROVE  EmbedInv'
<1>0. SessionInv /\ CallInv
  BY DEF EmbedInv
<1> USE DEF EmbedInv
<1> DEFINE SameSessions == UNCHANGED <<session, pipelineP, closing>>
           SameCalls == UNCHANGED <<size, call>>
<1>a. SameSessions => SessionInv'
  BY DEF SessionInv, SessionType, NotYetDisposed, OneSession
<1>b. SameCalls => CallInv'
  BY DEF CallInv, CallType
<1> HIDE DEF SameSessions, SameCalls
<1>1. ASSUME NEW c \in Call, NEW kind \in CallKind, NEW n \in 0..MaxTexts, Begins(c, kind, n)
      PROVE  EmbedInv'
  BY <1>1, BeginsKeeps
<1>2. ASSUME NEW c \in Call, Loaded(c) PROVE EmbedInv'
  <2>1. CallInv'
    BY <1>2, PositionKeeps DEF Loaded, Where
  <2> QED
    BY <1>2, <1>a, <2>1 DEF Loaded, SameSessions
<1>3. ASSUME NEW c \in Call, Probed(c) PROVE EmbedInv'
  <2>1. CallInv'
    BY <1>3, PositionKeeps DEF Probed, Where
  <2> QED
    BY <1>3, <1>a, <2>1 DEF Probed, SameSessions
<1>4. ASSUME NEW c \in Call, GetsPipeline(c) PROVE EmbedInv'
  <2>1. SessionInv' /\ pipelineP' \in Nat
    BY <1>4, GetPipelineKeeps DEF GetsPipeline
  <2> DEFINE r == [call[c] EXCEPT !.at = "waiting", !.load = pipelineP']
  <2>2. call[c] \in Asked /\ Filled(call[c])
    BY DEF CallInv, CallType
  <2>3. r \in Asked
    BY <2>1, <2>2 DEF Asked, Where
  <2>4. r.out = call[c].out /\ r.texts = call[c].texts /\ r.at = "waiting"
    BY <2>2 DEF Asked
  <2>5. Filled(r)
    BY <2>2, <2>4 DEF Filled, FirstTexts
  <2>6. call' = [call EXCEPT ![c] = r] /\ UNCHANGED size
    BY <1>4, <2>2 DEF GetsPipeline, CallInv, CallType, Asked
  <2> HIDE DEF r
  <2>7. CallInv'
    BY <2>3, <2>5, <2>6, MoveKeeps
  <2> QED
    BY <2>1, <2>7
<1>5. ASSUME NEW c \in Call, Embeds(c) PROVE EmbedInv'
  <2>1. CallInv'
    BY <1>5, EmbedsKeeps
  <2> QED
    BY <1>5, <1>a, <2>1 DEF Embeds, SameSessions
<1>6. ASSUME NEW c \in Call, Rejects(c) PROVE EmbedInv'
  <2>1. CallInv'
    BY <1>6, PositionKeeps DEF Rejects, Where
  <2> QED
    BY <1>6, <1>a, <2>1 DEF Rejects, SameSessions
<1>7. ASSUME NEW l \in DOMAIN session, Loads(l) PROVE EmbedInv'
  <2>1. PICK o \in {"up", "failed"} : session' = [session EXCEPT ![l] = o]
    BY <1>7 DEF Loads
  <2>2. session \in Seq(Load) /\ o \in Load
    BY <2>1 DEF SessionInv, SessionType, Load
  <2>3. session' \in Seq(Load) /\ DOMAIN session' = DOMAIN session
    BY <2>1, <2>2
  <2>4. OneSession'
    BY <1>7, <2>1, <2>2, <2>3 DEF SessionInv, OneSession, Loads
  <2>5. SessionInv'
    BY <1>7, <2>3, <2>4 DEF SessionInv, SessionType, NotYetDisposed, Loads
  <2> QED
    BY <1>7, <1>b, <2>5 DEF Loads, SameCalls
<1>8. ASSUME Consents PROVE EmbedInv'
  BY <1>8, <1>a, <1>b DEF Consents, SameSessions, SameCalls
<1>9. ASSUME Disposes PROVE EmbedInv'
  <2>1. closing.load = None /\ closing'.load = pipelineP /\ closing'.at \in {"done", "waiting"}
    BY <1>9 DEF Disposes, SessionInv, NotYetDisposed
  <2>2. SessionType' /\ NotYetDisposed'
    BY <1>9, <2>1 DEF Disposes, SessionInv, SessionType, NotYetDisposed
  <2>3. OneSession'
    <3> SUFFICES ASSUME NEW l \in DOMAIN session, session[l] \in {"loading", "up"}
                 PROVE  l = pipelineP
      BY <1>9, <2>1 DEF OneSession, Disposes
    <3>1. l \in Nat
      BY DEF SessionInv, SessionType
    <3>2. l \in {pipelineP, None}
      BY <2>1 DEF SessionInv, OneSession
    <3> QED
      BY <3>1, <3>2 DEF EmbedAssumption
  <2> QED
    BY <1>9, <1>b, <2>2, <2>3 DEF SessionInv, Disposes, SameCalls
<1>10. ASSUME HasLoaded \/ TimesOut PROVE EmbedInv'
  <2>1. UNCHANGED <<size, session, pipelineP, call>> /\ closing'.load = closing.load
    BY <1>10 DEF HasLoaded, TimesOut, SessionInv, SessionType
  <2>2. closing' \in [at : {"releasing", "done"}, load : DOMAIN session \cup {None}]
    BY <1>10 DEF HasLoaded, TimesOut, SessionInv, SessionType
  <2>3. SessionInv'
    BY <2>1, <2>2 DEF SessionInv, SessionType, NotYetDisposed, OneSession
  <2> QED
    BY <1>b, <2>1, <2>3 DEF SameCalls
<1>11. ASSUME Releases PROVE EmbedInv'
  <2>1. PICK o \in {"released", "up"} : session' = [session EXCEPT ![closing.load] = o]
    BY <1>11 DEF Releases
  <2>2. session \in Seq(Load) /\ o \in Load
    BY <2>1 DEF SessionInv, SessionType, Load
  <2>3. session' \in Seq(Load) /\ DOMAIN session' = DOMAIN session
    <3>1. CASE closing.load \in DOMAIN session
      BY <2>1, <2>2, <3>1
    <3>2. CASE closing.load \notin DOMAIN session
      <4>1. session' = session
        BY <2>1, <2>2, <3>2
      <4> QED
        BY <2>2, <4>1
    <3> QED
      BY <3>1, <3>2
  <2>4. closing'.load = closing.load /\ UNCHANGED <<size, call, pipelineP>> /\ closing'.at = "done"
        /\ closing' \in [at : {"done"}, load : DOMAIN session \cup {None}]
    BY <1>11 DEF Releases, SessionInv, SessionType
  <2>5. OneSession'
    BY <2>1, <2>2, <2>3, <2>4 DEF SessionInv, OneSession
  <2>6. SessionInv'
    BY <2>3, <2>4, <2>5 DEF SessionInv, SessionType, NotYetDisposed
  <2> QED
    BY <1>b, <2>4, <2>6 DEF SameCalls
<1>12. CASE UNCHANGED embedVars
  BY <1>12, <1>a, <1>b DEF embedVars, SameSessions, SameCalls
<1> QED
  BY <1>1, <1>2, <1>3, <1>4, <1>5, <1>6, <1>7, <1>8, <1>9, <1>10, <1>11, <1>12
     DEF EmbedNext, Proceeds, Closes

(* However many calls of the provider overlap, with one another and with   *)
(* dispose(), no session is lost sight of, and a call has a vector per     *)
(* text, in their order.                                                   *)
THEOREM VectorsAreInOrder == EmbedSpec => []EmbeddingsInOrder
<1>1. EmbedInit => EmbedInv
  BY EmbedAssumption, EmbedInitInv
<1>2. EmbedInv /\ [EmbedNext]_embedVars => EmbedInv'
  BY EmbedAssumption, EmbedStep
<1>3. EmbedInv => EmbeddingsInOrder
  BY DEF EmbedInv, SessionInv, CallInv, Filled, EmbeddingsInOrder, VectorsInOrder
<1> QED
  BY <1>1, <1>2, <1>3, PTL DEF EmbedSpec

-----------------------------------------------------------------------------
(* The files of coding agents, in the run of all three.                    *)
LEMMA KnownSetup == {"claude"} \subseteq Setup!KnownAgents /\ Setup!Distinct
BY AgentsAssumption DEF Setup!KnownAgents, Setup!Distinct

LEMMA SetupStep ==
  ASSUME part = "agents" => Setup!AgentsInv, [AllNext]_allVars
  PROVE  /\ part' = "agents" => Setup!AgentsInv'
         /\ [part = "agents" => Setup!KeepsContent]_allVars
<1>1. part = "agents" => [Setup!Next]_(Setup!vars)
  BY DEF AllNext, allVars, own, Setup!vars
<1>2. part' = part
  BY DEF AllNext, allVars
<1>3. part = "agents" => Setup!AgentsInv' /\ [Setup!KeepsContent]_(Setup!vars)
  BY <1>1, KnownSetup, Setup!AgentsNextInv
<1>4. (UNCHANGED Setup!vars) => Setup!KeepsContent
  BY DEF Setup!KeepsContent, Setup!vars
<1> QED
  BY <1>2, <1>3, <1>4

(* The merges of agent-setup/writers.ts and a refresh of setup.ts keep what*)
(* is the user's, whatever he and the commands do and in whatever order.   *)
THEOREM UserContentStays == AllInit /\ [][AllNext]_allVars => UserContentKept
<1> DEFINE Held == part = "agents" => Setup!AgentsInv
<1>1. AllInit => Held
  BY KnownSetup, Setup!AgentsInitInv DEF AllInit
<1>2. Held /\ [AllNext]_allVars => Held' /\ [part = "agents" => Setup!KeepsContent]_allVars
  BY SetupStep
<1>3. Held => (part = "agents" => Setup!Restamps)
  BY KnownSetup, Setup!RefreshBrings DEF Setup!AgentsInv
<1> QED
  BY <1>1, <1>2, <1>3, PTL DEF UserContentKept
=============================================================================
