--------------------------- MODULE AlgorithmsProofs ---------------------------
(***************************************************************************)
(* The rules, the workspace, the search, the configuration and the         *)
(* measures of MCAlgorithms, for all inputs: rules over any names and any  *)
(* path, any override files, any forest of dirs, any ranked lists, any     *)
(* config file and patch, any judgements, any file that is cut.            *)
(* Induction on a number is by NatInd, about the set of numbers that have  *)
(* a property; a recursive function in a LET is there by RecExists.        *)
(***************************************************************************)
EXTENDS MCAlgorithms, FiniteSetTheorems, SequenceTheorems, WellFoundedInduction, TLAPS

(* Every nonempty set of natural numbers has a least element.              *)
LEMMA LeastOf ==
  ASSUME NEW T \in SUBSET Nat, T # {}
  PROVE  \E x \in T : \A y \in T : x <= y
<1>1. PICK x \in T : \A y \in T : ~(<<y, x>> \in OpToRel(<, Nat))
  BY NatLessThanWellFounded, WFMin
<1>2. \A y \in T : ~(y < x)
  BY <1>1 DEF OpToRel
<1> QED BY <1>2

(* Induction on the natural numbers, about a set.                          *)
LEMMA NatInd ==
  ASSUME NEW Vals \in SUBSET Nat, 0 \in Vals, \A n \in Vals : n + 1 \in Vals
  PROVE  Vals = Nat
<1> SUFFICES ASSUME Nat \ Vals # {} PROVE FALSE
  OBVIOUS
<1>1. PICK x \in Nat \ Vals : \A y \in Nat \ Vals : x <= y
  BY LeastOf
<1>2. x # 0 /\ x - 1 \in Nat /\ x - 1 \in Vals
  BY <1>1
<1> QED
  BY <1>1, <1>2

(* Every nonempty set of indexes of a sequence has a largest one.          *)
LEMMA LastIndex ==
  ASSUME NEW n \in Nat, NEW T \in SUBSET (1..n), T # {}
  PROVE  \E x \in T : \A y \in T : y <= x
<1> DEFINE R == {n - t : t \in T}
<1>1. R \in SUBSET Nat /\ R # {}
  <2>1. PICK t \in T : TRUE
    OBVIOUS
  <2>2. \A u \in T : n - u \in Nat
    OBVIOUS
  <2>3. n - t \in R
    OBVIOUS
  <2> QED
    BY <2>2, <2>3
<1>2. PICK r \in R : \A q \in R : r <= q
  BY <1>1, LeastOf
<1>3. PICK x \in T : r = n - x
  OBVIOUS
<1>4. \A y \in T : n - x <= n - y
  BY <1>2, <1>3
<1> QED
  BY <1>4

(* The last pattern that matches decides, and none if none does.           *)
(* F starts at s and takes a step of g at each of 1..n.                    *)
IsRec(Vals, s, g, n, F) ==
  /\ F \in [0..n -> Vals]
  /\ F = [i \in 0..n |-> IF i = 0 THEN s ELSE g[<<i, F[i - 1]>>]]

(* A recursive function on 0..n has a value.                               *)
LEMMA RecExists ==
  ASSUME NEW Vals, NEW s \in Vals, NEW g \in [Nat \X Vals -> Vals]
  PROVE  \A n \in Nat : \E F : IsRec(Vals, s, g, n, F)
<1> DEFINE T == {n \in Nat : \E F : IsRec(Vals, s, g, n, F)}
<1>1. 0 \in T
  <2>1. IsRec(Vals, s, g, 0, [i \in 0..0 |-> s])
    BY DEF IsRec
  <2> QED
    BY <2>1
<1>2. ASSUME NEW n \in T PROVE n + 1 \in T
  <2>1. PICK F : IsRec(Vals, s, g, n, F)
    OBVIOUS
  <2> DEFINE last == g[<<n + 1, F[n]>>]
             G == [i \in 0..(n + 1) |-> IF i = n + 1 THEN last ELSE F[i]]
  <2>0. n \in Nat /\ n + 1 \in Nat /\ F[n] \in Vals /\ last \in Vals
    BY <2>1 DEF IsRec
  <2>2. \A i \in 0..(n + 1) : G[i] \in Vals /\ G[i] = IF i = 0 THEN s ELSE g[<<i, G[i - 1]>>]
    <3> TAKE i \in 0..(n + 1)
    <3>1. CASE i = n + 1
      <4>1. i # 0 /\ i - 1 = n /\ n \in 0..(n + 1) /\ n # n + 1
        BY <3>1, <2>0
      <4>2. G[i - 1] = F[n] /\ G[i] = last
        BY <4>1, <3>1
      <4> QED
        BY <4>1, <4>2, <3>1, <2>0
    <3>2. CASE i # n + 1
      <4>1. i \in 0..n /\ (i # 0 => i - 1 \in 0..n /\ i - 1 \in 0..(n + 1) /\ i - 1 # n + 1)
        BY <3>2
      <4>2. F[i] \in Vals /\ F[i] = IF i = 0 THEN s ELSE g[<<i, F[i - 1]>>]
        BY <2>1, <4>1 DEF IsRec
      <4> QED
        BY <3>2, <4>1, <4>2
    <3> QED
      BY <3>1, <3>2
  <2>3. IsRec(Vals, s, g, n + 1, G)
    BY <2>2 DEF IsRec
  <2> QED
    BY <2>3, <2>0
<1> HIDE DEF T
<1>3. T = Nat
  BY <1>1, <1>2, NatInd DEF T
<1> QED
  BY <1>3 DEF T

(* The same without an end.                                                *)
IsNatRec(Vals, s, g, F) ==
  F \in [Nat -> Vals] /\ F[0] = s /\ \A n \in Nat : F[n + 1] = g[<<n + 1, F[n]>>]

(* It is there too: what two ends give agrees up to the nearer.            *)
LEMMA NatRec ==
  ASSUME NEW Vals, NEW s \in Vals, NEW g \in [Nat \X Vals -> Vals]
  PROVE  \E F : IsNatRec(Vals, s, g, F)
<1> DEFINE R(n) == CHOOSE F : IsRec(Vals, s, g, n, F)
<1>1. \A n \in Nat : IsRec(Vals, s, g, n, R(n))
  BY RecExists
<1> HIDE DEF R
<1> DEFINE F == [n \in Nat |-> R(n)[n]]
<1>2. F \in [Nat -> Vals]
  <2> SUFFICES ASSUME NEW n \in Nat PROVE R(n)[n] \in Vals
    OBVIOUS
  <2>1. n \in 0..n
    OBVIOUS
  <2> QED
    BY <1>1, <2>1 DEF IsRec
<1>3. ASSUME NEW m \in Nat, NEW n \in Nat, m <= n PROVE R(n)[m] = R(m)[m]
  <2> DEFINE T == {i \in Nat : i <= m => R(n)[i] = R(m)[i]}
  <2>1. 0 \in T
    <3>1. 0 \in 0..m /\ 0 \in 0..n
      BY <1>3
    <3> QED
      BY <1>1, <3>1 DEF IsRec
  <2>2. ASSUME NEW i \in T PROVE i + 1 \in T
    <3> SUFFICES ASSUME i + 1 <= m PROVE R(n)[i + 1] = R(m)[i + 1]
      OBVIOUS
    <3>1. i + 1 \in 0..m /\ i + 1 \in 0..n /\ i + 1 # 0 /\ (i + 1) - 1 = i /\ i <= m
      BY <1>3
    <3>2. R(n)[i + 1] = g[<<i + 1, R(n)[i]>>]
      BY <1>1, <3>1 DEF IsRec
    <3>3. R(m)[i + 1] = g[<<i + 1, R(m)[i]>>]
      BY <1>1, <3>1 DEF IsRec
    <3> QED
      BY <3>1, <3>2, <3>3
  <2> HIDE DEF T
  <2>3. T = Nat
    BY <2>1, <2>2, NatInd DEF T
  <2> QED
    BY <2>3 DEF T
<1>4. F[0] = s
  <2>1. 0 \in Nat /\ 0 \in 0..0
    OBVIOUS
  <2> QED
    BY <1>1, <2>1 DEF IsRec
<1>5. ASSUME NEW n \in Nat PROVE F[n + 1] = g[<<n + 1, F[n]>>]
  <2>1. n + 1 \in Nat /\ n + 1 \in 0..(n + 1) /\ n + 1 # 0 /\ (n + 1) - 1 = n /\ n <= n + 1
    OBVIOUS
  <2>2. R(n + 1)[n + 1] = g[<<n + 1, R(n + 1)[n]>>]
    BY <1>1, <2>1 DEF IsRec
  <2>3. R(n + 1)[n] = R(n)[n]
    BY <1>3, <2>1
  <2> QED
    BY <2>1, <2>2, <2>3
<1> QED
  BY <1>2, <1>4, <1>5 DEF IsNatRec

-----------------------------------------------------------------------------
(* Eligibility: the rules and the lists.                                   *)
(* A layer of patterns over any set of names.                              *)
PatternOf(N) == [name : N, negate : BOOLEAN, below : BOOLEAN]

LEMMA DecidesCases ==
  ASSUME NEW N, NEW layer \in Seq(PatternOf(N)), NEW path
  PROVE  \/ /\ Decides(layer, path) = "none"
            /\ \A i \in DOMAIN layer : ~Matches(layer[i], path)
         \/ \E i \in DOMAIN layer :
              /\ Matches(layer[i], path)
              /\ \A j \in DOMAIN layer : Matches(layer[j], path) => j <= i
              /\ Decides(layer, path) = IF layer[i].negate THEN "include" ELSE "ignore"
<1> DEFINE M == {i \in DOMAIN layer : Matches(layer[i], path)}
           c == CHOOSE i \in M : \A j \in M : j <= i
<1>1. Len(layer) \in Nat /\ DOMAIN layer = 1..Len(layer)
  OBVIOUS
<1>2. CASE M = {}
  BY <1>2 DEF Decides
<1>3. CASE M # {}
  <2>1. c \in M /\ \A j \in M : j <= c
    BY <1>1, <1>3, LastIndex
  <2>2. Decides(layer, path) = IF layer[c].negate THEN "include" ELSE "ignore"
    BY <1>3 DEF Decides
  <2> QED
    BY <2>1, <2>2
<1> QED
  BY <1>2, <1>3

(* The rules of a project, over any names: layers at the root and of any   *)
(* directories below.                                                      *)
RulesOver(N, r) ==
  /\ ".claude" \in N
  /\ r.global \in Seq(PatternOf(N)) /\ r.project \in Seq(PatternOf(N))
  /\ DOMAIN r.nested \subseteq Seq(N)
  /\ \A d \in DOMAIN r.nested : r.nested[d] \in Seq(PatternOf(N))

(* The rules at the root are a layer.                                      *)
LEMMA RootIsLayer ==
  ASSUME NEW N, NEW r, RulesOver(N, r)
  PROVE  RootLayer(r) \in Seq(PatternOf(N))
<1>1. AutoInclude \in Seq(PatternOf(N))
  BY DEF AutoInclude, Reinclude, PatternOf, RulesOver
<1> QED
  BY <1>1 DEF RootLayer, RulesOver

(* The rules of one directory never re-include, if no nested file does.    *)
LEMMA NeverIncludes ==
  ASSUME NEW N, NEW r, RulesOver(N, r), ~Negates(r), NEW d \in DOMAIN r.nested, NEW path
  PROVE  Decides(r.nested[d], path) \in {"none", "ignore"}
<1>1. r.nested[d] \in Seq(PatternOf(N))
  BY DEF RulesOver
<1>2. \A i \in DOMAIN r.nested[d] : ~r.nested[d][i].negate
  BY DEF Negates
<1> QED
  BY <1>1, <1>2, DecidesCases

(* git ignores a path at its own depth if the root's rules do, or those of *)
(* any directory above it.                                                 *)
GitAt(r, q) ==
  \/ Decides(RootLayer(r), q) = "ignore"
  \/ \E m \in 1..(Len(q) - 1) :
       /\ SubSeq(q, 1, m) \in DOMAIN r.nested
       /\ Decides(r.nested[SubSeq(q, 1, m)], Rest(q, m)) = "ignore"

LEMMA GitVerdict ==
  ASSUME NEW N, NEW r, RulesOver(N, r), ~Negates(r), NEW q, Len(q) \in Nat \ {0}
  PROVE  GitDecides(r, q) = "ignore" <=> GitAt(r, q)
<1> DEFINE v == [k \in 1..Len(q) |->
                   IF k = 1 THEN Decides(RootLayer(r), q)
                   ELSE IF SubSeq(q, 1, k - 1) \in DOMAIN r.nested
                        THEN Decides(r.nested[SubSeq(q, 1, k - 1)], Rest(q, k - 1)) ELSE "none"]
           said == {k \in 1..Len(q) : v[k] # "none"}
           c == CHOOSE k \in said : \A j \in said : j <= k
<1>1. GitDecides(r, q) = IF said = {} THEN "none" ELSE v[c]
  BY DEF GitDecides
<1>2. v[1] = Decides(RootLayer(r), q)
  OBVIOUS
<1>3. \A k \in 2..Len(q) : v[k] \in {"none", "ignore"}
  <2> TAKE k \in 2..Len(q)
  <2>1. v[k] = IF SubSeq(q, 1, k - 1) \in DOMAIN r.nested
               THEN Decides(r.nested[SubSeq(q, 1, k - 1)], Rest(q, k - 1)) ELSE "none"
    OBVIOUS
  <2> QED
    BY <2>1, NeverIncludes
<1>4. (\E k \in 2..Len(q) : v[k] = "ignore") <=>
        \E m \in 1..(Len(q) - 1) :
          /\ SubSeq(q, 1, m) \in DOMAIN r.nested
          /\ Decides(r.nested[SubSeq(q, 1, m)], Rest(q, m)) = "ignore"
  <2>1. ASSUME NEW k \in 2..Len(q), v[k] = "ignore"
        PROVE  /\ k - 1 \in 1..(Len(q) - 1)
               /\ SubSeq(q, 1, k - 1) \in DOMAIN r.nested
               /\ Decides(r.nested[SubSeq(q, 1, k - 1)], Rest(q, k - 1)) = "ignore"
    BY <2>1
  <2>2. ASSUME NEW m \in 1..(Len(q) - 1), SubSeq(q, 1, m) \in DOMAIN r.nested,
               Decides(r.nested[SubSeq(q, 1, m)], Rest(q, m)) = "ignore"
        PROVE  m + 1 \in 2..Len(q) /\ v[m + 1] = "ignore"
    <3>1. m + 1 \in 2..Len(q) /\ m + 1 # 1 /\ (m + 1) - 1 = m
      OBVIOUS
    <3>2. v[m + 1] = Decides(r.nested[SubSeq(q, 1, m)], Rest(q, m))
      BY <2>2, <3>1
    <3> QED
      BY <2>2, <3>1, <3>2
  <2> QED
    BY <2>1, <2>2
<1>5. said # {} => c \in said /\ \A j \in said : j <= c
  <2> SUFFICES ASSUME said # {} PROVE \E x \in said : \A y \in said : y <= x
    OBVIOUS
  <2> QED
    BY LastIndex
<1> HIDE DEF v, c
<1>6. \A k \in 1..Len(q) : k = 1 \/ k \in 2..Len(q)
  OBVIOUS
<1>7. (\E k \in 2..Len(q) : v[k] = "ignore") => said # {} /\ v[c] = "ignore"
  <2> SUFFICES ASSUME NEW k \in 2..Len(q), v[k] = "ignore" PROVE said # {} /\ v[c] = "ignore"
    OBVIOUS
  <2>1. k \in said
    OBVIOUS
  <2>2. c \in said /\ k <= c
    BY <2>1, <1>5
  <2>3. c \in 2..Len(q)
    BY <2>2
  <2> QED
    BY <2>1, <2>2, <2>3, <1>3
<1>8. ~(\E k \in 2..Len(q) : v[k] = "ignore") => (v[1] = "ignore" <=> said # {} /\ v[c] = "ignore")
  <2> SUFFICES ASSUME \A k \in 2..Len(q) : v[k] # "ignore"
               PROVE  v[1] = "ignore" <=> said # {} /\ v[c] = "ignore"
    OBVIOUS
  <2>1. said \subseteq {1}
    BY <1>3, <1>6
  <2>2. v[1] = "ignore" => 1 \in said
    OBVIOUS
  <2> QED
    BY <2>1, <2>2, <1>5
<1> QED
  BY <1>1, <1>2, <1>4, <1>7, <1>8 DEF GitAt

(* What is before and behind a place in the upper part of a path.          *)
LEMMA PathParts ==
  ASSUME NEW N, NEW path \in Seq(N), NEW k \in 1..Len(path), NEW m \in 1..(k - 1)
  PROVE  /\ SubSeq(path, 1, k) \in Seq(N) /\ Len(SubSeq(path, 1, k)) = k
         /\ SubSeq(SubSeq(path, 1, k), 1, m) = SubSeq(path, 1, m)
         /\ Rest(SubSeq(path, 1, k), m) = SubSeq(path, m + 1, k)
         /\ SubSeq(Rest(path, m), 1, k - m) = SubSeq(path, m + 1, k)
<1>1. Len(path) \in Nat /\ k \in Nat /\ m \in Nat /\ m < k /\ k <= Len(path)
  OBVIOUS
<1>2. SubSeq(path, 1, k) \in Seq(N) /\ Len(SubSeq(path, 1, k)) = k
  BY <1>1
<1>3. SubSeq(SubSeq(path, 1, k), 1, m) = SubSeq(path, 1, m)
  BY <1>1, SubSeqOfSubSeq
<1>4. SubSeq(SubSeq(path, 1, k), m + 1, k) = SubSeq(path, m + 1, k)
  BY <1>1, SubSeqOfSubSeq
<1>5. SubSeq(SubSeq(path, m + 1, Len(path)), 1, k - m) = SubSeq(path, m + 1, k)
  BY <1>1, SubSeqOfSubSeq
<1> QED
  BY <1>2, <1>3, <1>4, <1>5 DEF Rest

(* A path is ignored by git where loctx ignores it: by the rules above it, *)
(* or by those of a directory on the way that is not ignored itself.       *)
THEOREM NestedIsGit ==
  ASSUME NEW N, NEW r, RulesOver(N, r), NEW path \in Seq(N)
  PROVE  PositiveAsGit(r, path)
<1> SUFFICES ASSUME ~Negates(r), \A d \in DOMAIN r.nested : \A k \in 1..Len(d) : d[k] \notin AlwaysSkip
             PROVE  Ignores(r, path) <=> GitIgnores(r, path)
  <2>1. Ignores(r, path) \in BOOLEAN /\ GitIgnores(r, path) \in BOOLEAN
    BY DEF Ignores, GitIgnores
  <2> QED
    BY <2>1 DEF PositiveAsGit, NestedAsGit
<1> DEFINE n == Len(path)
           root == RootLayer(r)
           Pre(k) == SubSeq(path, 1, k)
           RuleBelow(m, k) == /\ Pre(m) \in DOMAIN r.nested
                          /\ Decides(r.nested[Pre(m)], SubSeq(path, m + 1, k)) = "ignore"
<1>1. n \in Nat
  OBVIOUS
<1>2. GitIgnores(r, path) <=>
        \E k \in 1..n : \/ Decides(root, Pre(k)) = "ignore"
                        \/ \E m \in 1..(k - 1) : RuleBelow(m, k)
  <2>1. ASSUME NEW k \in 1..n
        PROVE  GitDecides(r, Pre(k)) = "ignore" <=>
                 Decides(root, Pre(k)) = "ignore" \/ \E m \in 1..(k - 1) : RuleBelow(m, k)
    <3>1. Len(Pre(k)) = k /\ k \in Nat \ {0}
      OBVIOUS
    <3>2. \A m \in 1..(k - 1) : SubSeq(Pre(k), 1, m) = Pre(m) /\ Rest(Pre(k), m) = SubSeq(path, m + 1, k)
      BY PathParts
    <3>3. GitDecides(r, Pre(k)) = "ignore" <=> GitAt(r, Pre(k))
      BY <3>1, GitVerdict
    <3> QED
      BY <3>1, <3>2, <3>3 DEF GitAt
  <2> QED
    BY <2>1 DEF GitIgnores
<1>3. LayerIgnores(root, path) <=> \E k \in 1..n : Decides(root, Pre(k)) = "ignore"
  BY DEF LayerIgnores
<1>4. ASSUME NEW m \in 1..(n - 1)
      PROVE  LayerIgnores(r.nested[Pre(m)], Rest(path, m)) <=>
               \E k \in (m + 1)..n : Decides(r.nested[Pre(m)], SubSeq(path, m + 1, k)) = "ignore"
  <2> DEFINE l == r.nested[Pre(m)]
             rest == Rest(path, m)
  <2>1. Len(rest) = n - m
    BY <1>1 DEF Rest
  <2>2. \A k \in (m + 1)..n : SubSeq(rest, 1, k - m) = SubSeq(path, m + 1, k)
    <3> TAKE k \in (m + 1)..n
    <3>1. k \in 1..Len(path) /\ m \in 1..(k - 1)
      BY <1>1
    <3> QED
      BY <3>1, PathParts
  <2>3. ASSUME NEW i \in 1..Len(rest), Decides(l, SubSeq(rest, 1, i)) = "ignore"
        PROVE  i + m \in (m + 1)..n /\ Decides(l, SubSeq(path, m + 1, i + m)) = "ignore"
    <3>1. i + m \in (m + 1)..n /\ (i + m) - m = i
      BY <2>1, <1>1
    <3> QED
      BY <3>1, <2>2, <2>3
  <2>4. ASSUME NEW k \in (m + 1)..n, Decides(l, SubSeq(path, m + 1, k)) = "ignore"
        PROVE  k - m \in 1..Len(rest) /\ Decides(l, SubSeq(rest, 1, k - m)) = "ignore"
    <3>1. k - m \in 1..Len(rest)
      BY <2>1, <1>1
    <3>2. SubSeq(rest, 1, k - m) = SubSeq(path, m + 1, k)
      BY <2>2
    <3> QED
      BY <3>1, <3>2, <2>4
  <2> QED
    BY <2>3, <2>4 DEF LayerIgnores
<1>5. ~LayerIgnores(root, path) =>
        \A m \in 1..(n - 1) : Pre(m) \in NestedRuleDirs(r) <=> Pre(m) \in DOMAIN r.nested
  <2> SUFFICES ASSUME ~LayerIgnores(root, path), NEW m \in 1..(n - 1), Pre(m) \in DOMAIN r.nested
               PROVE  \A k \in 1..Len(Pre(m)) : ~LayerIgnores(root, SubSeq(Pre(m), 1, k))
    BY DEF NestedRuleDirs
  <2> TAKE k \in 1..Len(Pre(m))
  <2>1. Len(Pre(m)) = m /\ Pre(m) \in Seq(N) /\ k \in 1..n /\ m \in 1..n
    BY <1>1
  <2>2. SubSeq(Pre(m), 1, k) = Pre(k)
    BY <2>1, SubSeqOfSubSeq
  <2>3. ASSUME NEW j \in 1..Len(Pre(k)) PROVE Decides(root, SubSeq(Pre(k), 1, j)) # "ignore"
    <3>1. Len(Pre(k)) = k /\ j \in 1..n /\ Pre(k) \in Seq(N)
      BY <2>1, <1>1
    <3>2. SubSeq(Pre(k), 1, j) = Pre(j)
      BY <3>1, <2>1, SubSeqOfSubSeq
    <3> QED
      BY <3>1, <3>2, <1>3
  <2> QED
    BY <2>2, <2>3 DEF LayerIgnores
<1>6. Ignores(r, path) <=>
        \/ LayerIgnores(root, path)
        \/ \E m \in 1..(n - 1) : Pre(m) \in NestedRuleDirs(r) /\ LayerIgnores(r.nested[Pre(m)], Rest(path, m))
  BY DEF Ignores
<1> HIDE DEF Pre
<1>7. ASSUME NEW k \in 1..n, NEW m \in 1..(k - 1), RuleBelow(m, k)
      PROVE  m \in 1..(n - 1) /\ k \in (m + 1)..n
  BY <1>1
<1>8. ASSUME NEW m \in 1..(n - 1), NEW k \in (m + 1)..n
      PROVE  k \in 1..n /\ m \in 1..(k - 1)
  BY <1>1
<1>9. CASE LayerIgnores(root, path)
  BY <1>9, <1>2, <1>3, <1>6
<1>10. CASE ~LayerIgnores(root, path)
  <2>1. Ignores(r, path) <=> \E m \in 1..(n - 1) : \E k \in (m + 1)..n : RuleBelow(m, k)
    BY <1>10, <1>4, <1>5, <1>6
  <2>2. GitIgnores(r, path) <=> \E k \in 1..n : \E m \in 1..(k - 1) : RuleBelow(m, k)
    BY <1>10, <1>2, <1>3
  <2> HIDE DEF RuleBelow
  <2> QED
    BY <2>1, <2>2, <1>7, <1>8
<1> QED
  BY <1>9, <1>10

(* The elements of two sequences put together.                             *)
LEMMA ConcatAt ==
  ASSUME NEW Vals, NEW s \in Seq(Vals), NEW t \in Seq(Vals)
  PROVE  /\ s \o t \in Seq(Vals) /\ Len(s \o t) = Len(s) + Len(t)
         /\ \A i \in 1..Len(s) : (s \o t)[i] = s[i]
         /\ \A i \in 1..Len(t) : (s \o t)[Len(s) + i] = t[i]
OBVIOUS

(* What git ignores globally of .claude loctx does not; what the project   *)
(* ignores last, by a name on the path, is ignored.                        *)
THEOREM ProjectDecides ==
  ASSUME NEW N, NEW r, RulesOver(N, r), NEW path \in Seq(N),
         \A i \in DOMAIN r.project : ~r.project[i].below
  PROVE  ProjectHasLastWord(r, path)
<1> DEFINE root == RootLayer(r)
           g == Len(r.global)
           n == Len(r.project)
<1>1. /\ r.global \in Seq(PatternOf(N)) /\ r.project \in Seq(PatternOf(N)) /\ g \in Nat /\ n \in Nat
      /\ root \in Seq(PatternOf(N))
  BY RootIsLayer DEF RulesOver
<1>2. AutoInclude \in Seq(PatternOf(N)) /\ Len(AutoInclude) = 2
  BY DEF AutoInclude, Reinclude, PatternOf, RulesOver
<1>3. /\ Len(root) = g + 2 + n
      /\ \A i \in 1..g : root[i] = r.global[i]
      /\ root[g + 1] = AutoInclude[1] /\ root[g + 2] = AutoInclude[2]
      /\ \A i \in 1..n : root[g + 2 + i] = r.project[i]
  <2> DEFINE upper == r.global \o AutoInclude
  <2> DEFINE P == PatternOf(N)
  <2> HIDE DEF P
  <2>0. r.global \in Seq(P) /\ AutoInclude \in Seq(P) /\ r.project \in Seq(P)
    BY <1>1, <1>2 DEF P
  <2>1. /\ upper \in Seq(P) /\ Len(upper) = Len(r.global) + Len(AutoInclude)
        /\ \A i \in 1..Len(r.global) : upper[i] = r.global[i]
        /\ \A i \in 1..Len(AutoInclude) : upper[Len(r.global) + i] = AutoInclude[i]
    BY ONLY <2>0, ConcatAt
  <2> HIDE DEF upper
  <2>2. /\ Len(upper \o r.project) = Len(upper) + Len(r.project)
        /\ \A i \in 1..Len(upper) : (upper \o r.project)[i] = upper[i]
        /\ \A i \in 1..Len(r.project) : (upper \o r.project)[Len(upper) + i] = r.project[i]
    <3>1. upper \in Seq(P) /\ r.project \in Seq(P)
      BY <2>0, <2>1
    <3> QED
      BY ONLY <3>1, ConcatAt
  <2>3. root = upper \o r.project
    BY DEF RootLayer, upper
  <2> HIDE DEF root
  <2>4. 1 \in 1..2 /\ 2 \in 1..2 /\ \A i \in 1..g : i \in 1..(g + 2)
    BY <1>1
  <2>5. g + 1 \in 1..(g + 2) /\ g + 2 \in 1..(g + 2)
    BY <1>1
  <2> QED
    BY <1>1, <1>2, <2>1, <2>2, <2>3, <2>4, <2>5
<1>4. ASSUME r.project = <<>>, r.nested = <<>>, \A i \in DOMAIN r.global : r.global[i].name = ".claude"
      PROVE  ~Ignores(r, path)
  <2>1. ASSUME NEW q PROVE Decides(root, q) # "ignore"
    <3> SUFFICES ASSUME NEW i \in DOMAIN root, Matches(root[i], q), ~root[i].negate,
                        \A j \in DOMAIN root : Matches(root[j], q) => j <= i
                 PROVE  FALSE
      BY <1>1, DecidesCases
    <3>1. n = 0 /\ DOMAIN root = 1..(g + 2)
      BY <1>1, <1>3, <1>4
    <3>2. /\ AutoInclude[1] = [name |-> ".claude", negate |-> TRUE, below |-> FALSE]
          /\ AutoInclude[2] = [name |-> ".claude", negate |-> TRUE, below |-> TRUE]
      BY DEF AutoInclude, Reinclude
    <3>3. i \in 1..g
      <4>1. AutoInclude[1].negate /\ AutoInclude[2].negate
        BY <3>2
      <4>2. i # g + 1 /\ i # g + 2
        BY <1>3, <4>1
      <4>3. g \in Nat /\ i \in 1..(g + 2)
        BY <1>1, <3>1
      <4> QED
        BY ONLY <4>2, <4>3
    <3>4. root[i].name = ".claude"
      BY <1>1, <1>3, <1>4, <3>3
    <3>5. Matches(root[g + 1], q) \/ Matches(root[g + 2], q)
      BY <1>3, <3>2, <3>4 DEF Matches
    <3>6. g + 1 \in DOMAIN root /\ g + 2 \in DOMAIN root
      BY <1>1, <3>1
    <3>7. g + 1 <= i \/ g + 2 <= i
      BY <3>5, <3>6
    <3> QED
      BY <1>1, <3>3, <3>7
  <2>2. NestedRuleDirs(r) = {}
    BY <1>4 DEF NestedRuleDirs
  <2> QED
    BY <2>1, <2>2 DEF Ignores, LayerIgnores
<1>5. ASSUME n > 0, ~r.project[n].negate, r.project[n].name \in Range(path)
      PROVE  Ignores(r, path)
  <2>1. PICK k \in DOMAIN path : path[k] = r.project[n].name
    BY <1>5 DEF Range
  <2> DEFINE q == SubSeq(path, 1, k)
             last == g + 2 + n
  <2>2. k \in 1..Len(path) /\ Len(q) = k /\ q[k] = path[k]
    OBVIOUS
  <2>3. last \in DOMAIN root /\ (\A j \in DOMAIN root : j <= last) /\ root[last] = r.project[n]
    <3>1. n \in 1..n /\ DOMAIN root = 1..last
      BY <1>1, <1>3, <1>5
    <3> HIDE DEF g, n
    <3>2. last \in Nat /\ last >= 1
      BY <1>1, <1>5
    <3>3. root[last] = r.project[n]
      BY <1>3, <3>1
    <3>4. last \in 1..last /\ \A j \in 1..last : j <= last
      BY <3>2
    <3> QED
      BY <3>1, <3>3, <3>4
  <2>4. ~root[last].below
    BY <1>1, <1>5, <2>3
  <2>5. Matches(root[last], q)
    BY <2>1, <2>2, <2>3, <2>4 DEF Matches
  <2> HIDE DEF root, last, q
  <2>6. Decides(root, q) = "ignore"
    <3>1. ASSUME NEW i \in DOMAIN root, \A j \in DOMAIN root : Matches(root[j], q) => j <= i
          PROVE  i = last
      <4>1. last <= i /\ i <= last
        BY <2>3, <2>5, <3>1
      <4>2. i \in Nat /\ last \in Nat
        BY <1>1, <2>3
      <4> QED
        BY <4>1, <4>2
    <3> QED
      BY <1>1, <1>5, <2>3, <2>5, <3>1, DecidesCases
  <2> QED
    BY <2>2, <2>6 DEF Ignores, LayerIgnores, root, q
<1> QED
  BY <1>4, <1>5 DEF ProjectHasLastWord

(* All that can be said of a file.                                         *)
FileTraits == {"outside", "root", "subpath", "in ignored dir", "gitignored", "ignored name",
           "symlink", "follow", "missing", "no file", "unreadable", "large", "binary"}

(* SecretsStayOut, whatever is said of a file and of its name: each reason *)
(* not to index comes before "ok" (filtering.ts).                          *)
THEOREM SecretsOut ==
  ASSUME NEW traits \in SUBSET FileTraits, NEW lists
  PROVE  SecretsStayOut(traits, lists)
<1> SUFFICES ASSUME ShouldIndex(traits, lists) = "ok"
             PROVE  /\ "secret" \in lists => "allowlist" \in lists
                    /\ "noise" \in lists => "named" \in lists
                    /\ ExtensionAllowed(lists)
                    /\ traits \subseteq {"symlink", "follow"}
  BY DEF SecretsStayOut, ExtensionAllowed
<1>1. /\ "outside" \notin traits /\ "root" \notin traits /\ "subpath" \notin traits
      /\ "in ignored dir" \notin traits /\ "gitignored" \notin traits /\ "ignored name" \notin traits
  BY DEF ShouldIndex
<1>2. /\ "secret" \in lists => "allowlist" \in lists
      /\ "noise" \in lists => "named" \in lists
      /\ ExtensionAllowed(lists)
  BY <1>1 DEF ShouldIndex
<1>3. /\ "missing" \notin traits /\ "no file" \notin traits /\ "unreadable" \notin traits
      /\ "large" \notin traits /\ "binary" \notin traits
  BY <1>1, <1>2 DEF ShouldIndex
<1> QED
  BY <1>1, <1>2, <1>3 DEF FileTraits

(* An override file: what it adds to the lists, what it takes from them.   *)
Override == [add : SUBSET ListKeys, remove : SUBSET ListKeys]

(* F is the merge after each file.                                         *)
IsMerge(defaults, overrides, F) ==
  F = [i \in 0..Len(overrides) |-> IF i = 0 THEN defaults ELSE MergeYaml(F[i - 1], overrides[i])]

(* The merge is there.                                                     *)
LEMMA MergeExists ==
  ASSUME NEW defaults \in SUBSET ListKeys, NEW overrides \in Seq(Override)
  PROVE  \E F : IsMerge(defaults, overrides, F)
<1> DEFINE Vals == SUBSET ListKeys
           n == Len(overrides)
           step(i, l) == IF i \in 1..n THEN MergeYaml(l, overrides[i]) ELSE l
           g == [x \in Nat \X Vals |-> step(x[1], x[2])]
<1>1. \A i \in 1..n : overrides[i].add \in Vals /\ overrides[i].remove \in Vals
  <2>1. \A o \in Override : o.add \in Vals /\ o.remove \in Vals
    BY DEF Override
  <2>2. \A i \in 1..n : overrides[i] \in Override
    OBVIOUS
  <2> QED
    BY <2>1, <2>2
<1>2. \A i \in Nat, l \in Vals : step(i, l) \in Vals
  BY <1>1 DEF MergeYaml
<1>3. n \in Nat /\ g \in [Nat \X Vals -> Vals]
  BY <1>2
<1>4. \A i \in Nat, l \in Vals : g[<<i, l>>] = step(i, l)
  OBVIOUS
<1> HIDE DEF Vals, g
<1>5. defaults \in Vals
  BY DEF Vals
<1>6. PICK F : IsRec(Vals, defaults, g, n, F)
  BY <1>3, <1>5, RecExists
<1>7. \A i \in 0..n : F[i] \in Vals
  BY <1>6 DEF IsRec
<1>8. \A i \in 0..n : i # 0 => g[<<i, F[i - 1]>>] = MergeYaml(F[i - 1], overrides[i])
  <2> TAKE i \in 0..n
  <2> SUFFICES ASSUME i # 0 PROVE g[<<i, F[i - 1]>>] = MergeYaml(F[i - 1], overrides[i])
    OBVIOUS
  <2>1. i \in Nat /\ i - 1 \in 0..n /\ i \in 1..n
    BY <1>3
  <2> QED
    BY <1>4, <1>7, <2>1
<1>9. F = [i \in 0..n |-> IF i = 0 THEN defaults ELSE MergeYaml(F[i - 1], overrides[i])]
  BY <1>6, <1>8 DEF IsRec
<1> QED
  BY <1>9 DEF IsMerge

(* What the first n files leave of a key.                                  *)
Spoken(defaults, overrides, n, key, lists) ==
  \/ /\ \A i \in 1..n : key \notin overrides[i].add \cup overrides[i].remove
     /\ key \in lists <=> key \in defaults
  \/ \E i \in 1..n :
       /\ key \in overrides[i].add \cup overrides[i].remove
       /\ \A j \in (i + 1)..n : key \notin overrides[j].add \cup overrides[j].remove
       /\ key \in lists <=> key \notin overrides[i].remove

(* The last file that speaks of a key decides on it, through every merge.  *)
LEMMA MergeSpoken ==
  ASSUME NEW defaults \in SUBSET ListKeys, NEW overrides \in Seq(Override), NEW F,
         IsMerge(defaults, overrides, F), NEW key
  PROVE  Spoken(defaults, overrides, Len(overrides), key, F[Len(overrides)])
<1> DEFINE n == Len(overrides)
           T == {i \in Nat : i <= n => Spoken(defaults, overrides, i, key, F[i])}
<1>0. n \in Nat
  OBVIOUS
<1>1. 0 \in T
  BY <1>0 DEF IsMerge, Spoken
<1>2. ASSUME NEW i \in T PROVE i + 1 \in T
  <2> SUFFICES ASSUME i + 1 <= n PROVE Spoken(defaults, overrides, i + 1, key, F[i + 1])
    OBVIOUS
  <2>1. i \in Nat /\ i <= n /\ i + 1 \in 0..n /\ (i + 1) - 1 = i /\ i + 1 # 0 /\ i + 1 \in 1..(i + 1)
    BY <1>0
  <2>2. F[i + 1] = (F[i] \cup overrides[i + 1].add) \ overrides[i + 1].remove
    BY <2>1 DEF IsMerge, MergeYaml
  <2>3. Spoken(defaults, overrides, i, key, F[i])
    BY <2>1
  <2>4. CASE key \in overrides[i + 1].add \cup overrides[i + 1].remove
    <3>1. key \in F[i + 1] <=> key \notin overrides[i + 1].remove
      BY <2>2, <2>4
    <3>2. \A j \in ((i + 1) + 1)..(i + 1) : FALSE
      BY <2>1
    <3> QED
      BY <2>1, <2>4, <3>1, <3>2 DEF Spoken
  <2>5. CASE key \notin overrides[i + 1].add \cup overrides[i + 1].remove
    <3>1. key \in F[i + 1] <=> key \in F[i]
      BY <2>2, <2>5
    <3>2. \A j \in 1..(i + 1) : j \in 1..i \/ j = i + 1
      BY <2>1
    <3>3. CASE \A j \in 1..i : key \notin overrides[j].add \cup overrides[j].remove
      <4>1. key \in F[i] <=> key \in defaults
        BY <2>3, <3>3 DEF Spoken
      <4> QED
        BY <2>5, <3>1, <3>2, <3>3, <4>1 DEF Spoken
    <3>4. CASE \E j \in 1..i : key \in overrides[j].add \cup overrides[j].remove
      <4>1. PICK j \in 1..i :
              /\ key \in overrides[j].add \cup overrides[j].remove
              /\ \A k \in (j + 1)..i : key \notin overrides[k].add \cup overrides[k].remove
              /\ key \in F[i] <=> key \notin overrides[j].remove
        BY <2>3, <3>4 DEF Spoken
      <4>2. j \in 1..(i + 1) /\ \A k \in (j + 1)..(i + 1) : k \in (j + 1)..i \/ k = i + 1
        BY <2>1
      <4>3. \A k \in (j + 1)..(i + 1) : key \notin overrides[k].add \cup overrides[k].remove
        BY <2>5, <4>1, <4>2
      <4> QED
        BY <3>1, <4>1, <4>2, <4>3 DEF Spoken
    <3> QED
      BY <3>3, <3>4
  <2> QED
    BY <2>4, <2>5
<1> HIDE DEF T
<1>3. T = Nat
  BY <1>1, <1>2, NatInd DEF T
<1> QED
  BY <1>0, <1>3 DEF T

(* LastFileWins, for any defaults and any number of override files.        *)
THEOREM LastWins ==
  ASSUME NEW defaults \in SUBSET ListKeys, NEW overrides \in Seq(Override)
  PROVE  LastFileWins(defaults, overrides, LoadFilteringRules(defaults, overrides))
<1> DEFINE F == CHOOSE F : IsMerge(defaults, overrides, F)
           n == Len(overrides)
           merged == LoadFilteringRules(defaults, overrides)
<1>1. IsMerge(defaults, overrides, F)
  BY MergeExists
<1>2. merged = F[n]
  BY DEF LoadFilteringRules, IsMerge
<1> HIDE DEF F, merged
<1> SUFFICES ASSUME NEW key \in ListKeys
             PROVE  LET speak == {i \in DOMAIN overrides : key \in overrides[i].add \cup overrides[i].remove}
                        last == CHOOSE i \in speak : \A j \in speak : j <= i
                    IN  key \in merged <=> IF speak = {} THEN key \in defaults
                                           ELSE key \notin overrides[last].remove
  BY DEF LastFileWins, merged
<1> DEFINE speak == {i \in DOMAIN overrides : key \in overrides[i].add \cup overrides[i].remove}
           last == CHOOSE i \in speak : \A j \in speak : j <= i
<1>3. n \in Nat /\ DOMAIN overrides = 1..n
  OBVIOUS
<1>4. Spoken(defaults, overrides, n, key, merged)
  BY <1>1, <1>2, MergeSpoken
<1>5. CASE speak = {}
  <2>1. \A i \in 1..n : key \notin overrides[i].add \cup overrides[i].remove
    BY <1>3, <1>5
  <2>2. key \in merged <=> key \in defaults
    BY <1>4, <2>1 DEF Spoken
  <2> QED
    BY <1>5, <2>2
<1>6. CASE speak # {}
  <2>1. PICK i \in 1..n :
          /\ key \in overrides[i].add \cup overrides[i].remove
          /\ \A j \in (i + 1)..n : key \notin overrides[j].add \cup overrides[j].remove
          /\ key \in merged <=> key \notin overrides[i].remove
    BY <1>3, <1>4, <1>6 DEF Spoken
  <2>2. i \in speak
    BY <1>3, <2>1
  <2>3. ASSUME NEW j \in speak PROVE j <= i
    <3>1. j \in 1..n /\ j \notin (i + 1)..n
      BY <1>3, <2>1
    <3> QED
      BY <3>1, <1>3
  <2>4. last \in speak /\ i <= last
    BY <2>2, <2>3
  <2>5. last = i
    <3>1. last <= i /\ last \in 1..n
      BY <1>3, <2>3, <2>4
    <3> HIDE DEF last
    <3> QED
      BY <1>3, <2>4, <3>1
  <2> QED
    BY <1>6, <2>1, <2>5
<1> QED
  BY <1>5, <1>6

(* InventoryIsPartition, for any projects found, recorded and still there  *)
(* (discovery-inventory.ts).                                               *)
THEOREM Partition ==
  ASSUME NEW hits, NEW rows, NEW dirs, \A d \in DOMAIN rows : rows[d] \in BOOLEAN
  PROVE  InventoryIsPartition(hits, rows, dirs)
BY DEF InventoryIsPartition, InventoryProjects
-----------------------------------------------------------------------------
(* Workspace: dirs are a forest, projects are found and resolved in it.    *)
(* A workspace is a forest: the parent of a dir is one nearer to the top.  *)
Height(w, h) ==
  /\ h \in [w.dirs -> 1..Cardinality(w.dirs)]
  /\ \A d \in w.dirs : w.parent[d] \in w.dirs => h[w.parent[d]] < h[d]

Forest(w) ==
  /\ Above \notin w.dirs
  /\ Cardinality(w.dirs) \in Nat
  /\ w.parent \in [w.dirs -> w.dirs \cup {Above}]
  /\ \E h : Height(w, h)

Dirs(w) == w.dirs \cup {Above}
Higher(w, d) == IF d = Above THEN Above ELSE w.parent[d]

(* U[n][d] is n steps above d.                                             *)
IsUp(w, U) ==
  /\ U \in [Nat \X Dirs(w) -> Dirs(w)]
  /\ \A d \in Dirs(w) : U[<<0, d>>] = d
  /\ \A n \in Nat, d \in Dirs(w) : U[<<n + 1, d>>] = Higher(w, U[<<n, d>>])

(* The ways up are there.                                                  *)
LEMMA UpExists ==
  ASSUME NEW w, Forest(w)
  PROVE  \E U : IsUp(w, U)
<1> DEFINE All == Dirs(w)
           Vals == [All -> All]
           s == [d \in All |-> d]
           g == [x \in Nat \X Vals |-> [d \in All |-> Higher(w, x[2][d])]]
<1>1. \A d \in All : Higher(w, d) \in All
  BY DEF Forest, Dirs, Higher
<1>2. s \in Vals /\ g \in [Nat \X Vals -> Vals]
  BY <1>1
<1>3. \A n \in Nat, f \in Vals, d \in All : g[<<n, f>>][d] = Higher(w, f[d])
  OBVIOUS
<1>4. \A d \in All : s[d] = d
  OBVIOUS
<1> HIDE DEF s, g, Vals
<1>5. PICK F : IsNatRec(Vals, s, g, F)
  BY <1>2, NatRec
<1> DEFINE U == [x \in Nat \X All |-> F[x[1]][x[2]]]
<1>6. \A n \in Nat, d \in All : U[<<n, d>>] = F[n][d] /\ F[n][d] \in All
  BY <1>5 DEF Vals, IsNatRec
<1>7. U \in [Nat \X All -> All]
  BY <1>6
<1>8. \A n \in Nat, d \in All : U[<<n + 1, d>>] = Higher(w, U[<<n, d>>])
  <2> TAKE n \in Nat, d \in All
  <2>1. n + 1 \in Nat /\ F[n] \in Vals /\ F[n + 1] = g[<<n + 1, F[n]>>]
    BY <1>5 DEF IsNatRec
  <2>2. F[n + 1][d] = Higher(w, F[n][d])
    BY <2>1, <1>3
  <2>3. U[<<n + 1, d>>] = F[n + 1][d] /\ U[<<n, d>>] = F[n][d]
    BY <2>1, <1>6
  <2> QED
    BY <2>2, <2>3
<1> HIDE DEF U
<1> QED
  BY <1>4, <1>5, <1>6, <1>7, <1>8 DEF IsUp, IsNatRec

(* The dir n steps above d, Above from the top of the tree on.             *)
At(w, n, d) == (CHOOSE U : IsUp(w, U))[<<n, d>>]

(* A step up is to the parent.                                             *)
LEMMA AtSteps ==
  ASSUME NEW w, Forest(w), NEW d \in Dirs(w)
  PROVE  /\ At(w, 0, d) = d
         /\ \A n \in Nat : At(w, n, d) \in Dirs(w) /\ At(w, n + 1, d) = Higher(w, At(w, n, d))
BY UpExists DEF IsUp, At

(* Nothing is above the top.                                               *)
LEMMA AtAbove ==
  ASSUME NEW w, Forest(w), NEW n \in Nat
  PROVE  At(w, n, Above) = Above
<1> DEFINE T == {m \in Nat : At(w, m, Above) = Above}
<1>1. Above \in Dirs(w)
  BY DEF Dirs
<1>2. 0 \in T
  BY <1>1, AtSteps
<1>3. \A m \in T : m + 1 \in T
  BY <1>1, AtSteps DEF Higher
<1> HIDE DEF T
<1>4. T = Nat
  BY <1>2, <1>3, NatInd DEF T
<1> QED
  BY <1>4 DEF T

(* Steps up add up.                                                        *)
LEMMA AtSum ==
  ASSUME NEW w, Forest(w), NEW d \in Dirs(w), NEW m \in Nat, NEW n \in Nat
  PROVE  At(w, n, At(w, m, d)) = At(w, m + n, d)
<1> DEFINE T == {i \in Nat : At(w, i, At(w, m, d)) = At(w, m + i, d)}
<1>1. At(w, m, d) \in Dirs(w)
  BY AtSteps
<1>2. 0 \in T
  <2>1. m + 0 = m
    OBVIOUS
  <2> QED
    BY <1>1, <2>1, AtSteps
<1>3. ASSUME NEW i \in T PROVE i + 1 \in T
  <2>1. m + (i + 1) = (m + i) + 1 /\ m + i \in Nat
    OBVIOUS
  <2>2. At(w, i + 1, At(w, m, d)) = Higher(w, At(w, i, At(w, m, d)))
    BY <1>1, AtSteps
  <2>3. At(w, (m + i) + 1, d) = Higher(w, At(w, m + i, d))
    BY <2>1, AtSteps
  <2> QED
    BY <2>1, <2>2, <2>3
<1> HIDE DEF T
<1>4. T = Nat
  BY <1>2, <1>3, NatInd DEF T
<1> QED
  BY <1>4 DEF T

(* Two ways up from a dir: one goes on where the other ends.               *)
LEMMA AtFurther ==
  ASSUME NEW w, Forest(w), NEW d \in Dirs(w), NEW m \in Nat, NEW n \in Nat, m <= n
  PROVE  n - m \in Nat /\ At(w, n - m, At(w, m, d)) = At(w, n, d)
<1>1. n - m \in Nat /\ m + (n - m) = n
  OBVIOUS
<1>2. At(w, n - m, At(w, m, d)) = At(w, m + (n - m), d)
  BY <1>1, AtSum
<1> QED
  BY <1>1, <1>2

(* Each step is nearer to the top.                                         *)
LEMMA AtHeight ==
  ASSUME NEW w, Forest(w), NEW h, Height(w, h), NEW d \in w.dirs, NEW n \in Nat, At(w, n, d) \in w.dirs
  PROVE  h[At(w, n, d)] + n <= h[d]
<1> DEFINE T == {i \in Nat : At(w, i, d) \in w.dirs => h[At(w, i, d)] + i <= h[d]}
<1>1. d \in Dirs(w) /\ \A e \in w.dirs : h[e] \in Nat
  BY DEF Dirs, Height, Forest
<1>2. 0 \in T
  BY <1>1, AtSteps
<1>3. ASSUME NEW i \in T PROVE i + 1 \in T
  <2> SUFFICES ASSUME At(w, i + 1, d) \in w.dirs PROVE h[At(w, i + 1, d)] + (i + 1) <= h[d]
    OBVIOUS
  <2>1. At(w, i, d) \in Dirs(w) /\ At(w, i + 1, d) = Higher(w, At(w, i, d))
    BY <1>1, AtSteps
  <2>2. At(w, i, d) \in w.dirs /\ At(w, i + 1, d) = w.parent[At(w, i, d)]
    BY <2>1 DEF Dirs, Higher, Forest
  <2>3. h[At(w, i + 1, d)] < h[At(w, i, d)]
    BY <2>2 DEF Height
  <2>4. h[At(w, i, d)] + i <= h[d]
    BY <2>2
  <2> QED
    BY <1>1, <2>2, <2>3, <2>4
<1> HIDE DEF T
<1>4. T = Nat
  BY <1>2, <1>3, NatInd DEF T
<1> QED
  BY <1>4 DEF T

(* As many steps as there are dirs lead above the top.                     *)
LEMMA AtTop ==
  ASSUME NEW w, Forest(w), NEW d \in w.dirs
  PROVE  At(w, Cardinality(w.dirs), d) = Above
<1>1. PICK h : Height(w, h)
  BY DEF Forest
<1> DEFINE n == Cardinality(w.dirs)
<1>2. n \in Nat /\ d \in Dirs(w)
  BY DEF Forest, Dirs
<1>3. ASSUME At(w, n, d) \in w.dirs PROVE FALSE
  <2>1. h[At(w, n, d)] + n <= h[d]
    BY <1>1, <1>2, <1>3, AtHeight
  <2>2. h[At(w, n, d)] \in 1..n /\ h[d] \in 1..n
    BY <1>1, <1>3 DEF Height
  <2> QED
    BY <1>2, <2>1, <2>2
<1> QED
  BY <1>2, <1>3, AtSteps DEF Dirs

(* No dir is met twice on the way up.                                      *)
LEMMA AtOnce ==
  ASSUME NEW w, Forest(w), NEW d \in w.dirs, NEW m \in Nat, NEW n \in Nat,
         At(w, m, d) \in w.dirs, At(w, m, d) = At(w, n, d)
  PROVE  m = n
<1>1. PICK h : Height(w, h)
  BY DEF Forest
<1>2. ASSUME NEW i \in Nat, NEW j \in Nat, i < j, At(w, i, d) \in w.dirs, At(w, i, d) = At(w, j, d)
      PROVE  FALSE
  <2> DEFINE e == At(w, i, d)
  <2>1. d \in Dirs(w) /\ i <= j
    BY <1>2 DEF Dirs
  <2>2. j - i \in Nat /\ At(w, j - i, e) = e
    BY <1>2, <2>1, AtFurther
  <2>3. e \in w.dirs
    BY <1>2
  <2> HIDE DEF e
  <2>4. h[e] + (j - i) <= h[e]
    BY <1>1, <2>1, <2>2, <2>3, AtHeight
  <2>5. h[e] \in Nat
    BY <1>1, <2>3 DEF Height, Forest
  <2> QED
    BY <1>2, <2>4, <2>5
<1> QED
  BY <1>2

(* The way up from d over n steps.                                         *)
IsWay(w, d, n, path) ==
  /\ path \in Seq(Dirs(w)) /\ Len(path) = n + 1
  /\ \A k \in 1..(n + 1) : path[k] = At(w, k - 1, d)

(* What PathUp climbs over after n steps.                                  *)
Climb(w, top, d, n, p) ==
  \E m \in 0..n :
    /\ IsWay(w, d, m, p)
    /\ \A k \in 1..m : p[k] \notin {top, Above}
    /\ m = n \/ p[m + 1] \in {top, Above}

IsClimb(w, top, d, F) ==
  F = [n \in 0..Cardinality(w.dirs) |->
        IF n = 0 THEN <<d>>
        ELSE IF F[n - 1][Len(F[n - 1])] \in {top, Above} THEN F[n - 1]
             ELSE Append(F[n - 1], w.parent[F[n - 1][Len(F[n - 1])]])]

(* The recursive function in PathUp has a value.                           *)
LEMMA ClimbExists ==
  ASSUME NEW w, Forest(w), NEW top, NEW d \in w.dirs
  PROVE  \E F : IsClimb(w, top, d, F)
<1> DEFINE Vals == {p \in Seq(Dirs(w)) : Len(p) > 0}
           step(p) == IF p[Len(p)] \in {top, Above} THEN p ELSE Append(p, w.parent[p[Len(p)]])
           g == [x \in Nat \X Vals |-> step(x[2])]
           s == <<d>>
           N == Cardinality(w.dirs)
<1>1. s \in Vals
  BY DEF Dirs
<1>2. ASSUME NEW p \in Vals PROVE step(p) \in Vals
  <2>1. p \in Seq(Dirs(w)) /\ Len(p) \in Nat /\ Len(p) \in 1..Len(p) /\ p[Len(p)] \in Dirs(w)
    OBVIOUS
  <2>2. CASE p[Len(p)] \in {top, Above}
    BY <2>2
  <2>3. CASE p[Len(p)] \notin {top, Above}
    <3>1. w.parent[p[Len(p)]] \in Dirs(w)
      BY <2>1, <2>3 DEF Dirs, Forest
    <3> DEFINE q == w.parent[p[Len(p)]]
    <3> HIDE DEF q
    <3>2. Append(p, q) \in Seq(Dirs(w)) /\ Len(Append(p, q)) = Len(p) + 1
      BY <2>1, <3>1 DEF q
    <3> QED
      BY <2>1, <2>3, <3>2 DEF q
  <2> QED
    BY <2>2, <2>3
<1>3. g \in [Nat \X Vals -> Vals]
  BY <1>2
<1>4. \A n \in Nat, p \in Vals : g[<<n, p>>] = step(p)
  OBVIOUS
<1> HIDE DEF Vals, g, s
<1>5. N \in Nat
  BY DEF Forest
<1>6. PICK F : IsRec(Vals, s, g, N, F)
  BY <1>1, <1>3, <1>5, RecExists
<1>7. \A n \in 0..N : F[n] \in Vals
  BY <1>6 DEF IsRec
<1>8. \A n \in 0..N : n # 0 => g[<<n, F[n - 1]>>] = step(F[n - 1])
  <2> TAKE n \in 0..N
  <2> SUFFICES ASSUME n # 0 PROVE g[<<n, F[n - 1]>>] = step(F[n - 1])
    OBVIOUS
  <2>1. n \in Nat /\ n - 1 \in 0..N
    <3> HIDE DEF N, step
    <3> QED
      BY <1>5
  <2> QED
    BY <1>4, <1>7, <2>1
<1>9. F = [n \in 0..N |-> IF n = 0 THEN s ELSE step(F[n - 1])]
  BY <1>6, <1>8, Zenon DEF IsRec
<1> QED
  BY <1>9 DEF IsClimb, s

(* The way that PathUp climbs ends at top or above the tree.               *)
LEMMA ClimbIsWay ==
  ASSUME NEW w, Forest(w), NEW top, NEW d \in w.dirs, NEW F, IsClimb(w, top, d, F),
         NEW n \in 0..Cardinality(w.dirs)
  PROVE  Climb(w, top, d, n, F[n])
<1> DEFINE N == Cardinality(w.dirs)
           T == {i \in Nat : i <= N => Climb(w, top, d, i, F[i])}
<1>0. N \in Nat /\ d \in Dirs(w)
  BY DEF Forest, Dirs
<1>1. 0 \in T
  <2>1. F[0] = <<d>>
    BY <1>0 DEF IsClimb
  <2>2. At(w, 0, d) = d
    BY <1>0, AtSteps
  <2>3. IsWay(w, d, 0, <<d>>)
    BY <1>0, <2>2 DEF IsWay
  <2> QED
    BY <2>1, <2>3 DEF Climb
<1>2. ASSUME NEW i \in T PROVE i + 1 \in T
  <2> SUFFICES ASSUME i + 1 <= N PROVE Climb(w, top, d, i + 1, F[i + 1])
    OBVIOUS
  <2> DEFINE p == F[i]
  <2>1. i \in Nat /\ i + 1 \in 0..N /\ i + 1 # 0 /\ (i + 1) - 1 = i
    <3>1. i \in Nat
      OBVIOUS
    <3> HIDE DEF N, T
    <3> QED
      BY <1>0, <3>1
  <2>2. F[i + 1] = IF p[Len(p)] \in {top, Above} THEN p ELSE Append(p, w.parent[p[Len(p)]])
    BY <2>1, Zenon DEF IsClimb
  <2>3. Climb(w, top, d, i, p)
    <3>1. i <= N
      BY <1>0, <2>1
    <3> QED
      BY <3>1
  <2> HIDE DEF p
  <2>4. PICK m \in 0..i : /\ IsWay(w, d, m, p)
                          /\ \A k \in 1..m : p[k] \notin {top, Above}
                          /\ m = i \/ p[m + 1] \in {top, Above}
    BY <2>3 DEF Climb
  <2>5. m \in Nat /\ Len(p) = m + 1 /\ m \in 0..(i + 1) /\ m + 1 \in 1..(m + 1)
    BY <2>1, <2>4 DEF IsWay
  <2>6. CASE p[m + 1] \in {top, Above}
    <3>1. F[i + 1] = p
      BY <2>2, <2>5, <2>6
    <3> QED
      BY <2>4, <2>5, <2>6, <3>1 DEF Climb
  <2>7. CASE p[m + 1] \notin {top, Above}
    <3> DEFINE e == p[m + 1]
               q == Append(p, w.parent[e])
    <3>1. m = i /\ F[i + 1] = q
      BY <2>2, <2>4, <2>5, <2>7
    <3>2. e = At(w, m, d) /\ e \in Dirs(w) /\ p \in Seq(Dirs(w))
      BY <2>4, <2>5 DEF IsWay
    <3>3. w.parent[e] = At(w, m + 1, d) /\ w.parent[e] \in Dirs(w)
      <4>1. At(w, m + 1, d) = Higher(w, e) /\ At(w, m + 1, d) \in Dirs(w)
        BY <1>0, <2>5, <3>2, AtSteps
      <4> QED
        BY <2>7, <4>1 DEF Higher
    <3> DEFINE x == w.parent[e]
    <3> HIDE DEF x, e
    <3>4. /\ Append(p, x) \in Seq(Dirs(w)) /\ Len(Append(p, x)) = m + 2
          /\ Append(p, x)[m + 2] = x /\ \A k \in 1..(m + 1) : Append(p, x)[k] = p[k]
      BY <2>5, <3>2, <3>3 DEF x
    <3>5. \A k \in 1..(m + 2) : Append(p, x)[k] = At(w, k - 1, d)
      <4> TAKE k \in 1..(m + 2)
      <4>1. CASE k = m + 2
        <5>1. (m + 2) - 1 = m + 1
          BY <2>5
        <5> QED
          BY <3>3, <3>4, <4>1, <5>1 DEF x
      <4>2. CASE k # m + 2
        <5>1. k \in 1..(m + 1)
          BY <2>5, <4>2
        <5> QED
          BY <2>4, <3>4, <5>1 DEF IsWay
      <4> QED
        BY <4>1, <4>2
    <3>6. (m + 1) + 1 = m + 2 /\ m + 1 \in 0..(i + 1)
      BY <2>5, <3>1
    <3>7. IsWay(w, d, m + 1, Append(p, x))
      BY <3>4, <3>5, <3>6 DEF IsWay
    <3>8. \A k \in 1..(m + 1) : Append(p, x)[k] \notin {top, Above}
      <4> TAKE k \in 1..(m + 1)
      <4>1. CASE k = m + 1
        BY <2>5, <2>7, <3>4, <4>1
      <4>2. CASE k # m + 1
        <5>1. k \in 1..m
          BY <2>5, <4>2
        <5> QED
          BY <2>4, <3>4, <5>1
      <4> QED
        BY <4>1, <4>2
    <3> QED
      BY <3>1, <3>6, <3>7, <3>8 DEF Climb, x
  <2> QED
    BY <2>6, <2>7
<1> HIDE DEF T
<1>3. T = Nat
  BY <1>1, <1>2, NatInd DEF T
<1> QED
  BY <1>0, <1>3 DEF T

(* PathUp is the way to top, if top is above d.                            *)
LEMMA PathIsWay ==
  ASSUME NEW w, Forest(w), NEW top \in w.dirs, NEW d \in w.dirs
  PROVE  /\ PathUp(w, top, d) # <<>> =>
              \E n \in Nat : At(w, n, d) = top /\ IsWay(w, d, n, PathUp(w, top, d))
         /\ \A n \in Nat : At(w, n, d) = top => IsWay(w, d, n, PathUp(w, top, d))
<1> DEFINE N == Cardinality(w.dirs)
<1>0. N \in Nat /\ d \in Dirs(w) /\ top # Above
  BY DEF Forest, Dirs
<1> DEFINE F == CHOOSE F : IsClimb(w, top, d, F)
           p == F[N]
<1>1. IsClimb(w, top, d, F)
  BY ClimbExists
<1>2. PathUp(w, top, d) = IF p[Len(p)] = top THEN p ELSE <<>>
  BY DEF PathUp, IsClimb
<1> HIDE DEF F
<1>3. Climb(w, top, d, N, p)
  BY <1>0, <1>1, ClimbIsWay
<1> HIDE DEF p
<1>4. PICK m \in 0..N : /\ IsWay(w, d, m, p)
                        /\ \A k \in 1..m : p[k] \notin {top, Above}
                        /\ m = N \/ p[m + 1] \in {top, Above}
  BY <1>3 DEF Climb
<1>5. m \in Nat /\ Len(p) = m + 1 /\ m + 1 \in 1..(m + 1) /\ (m + 1) - 1 = m
  BY <1>0, <1>4 DEF IsWay
<1>6. p[m + 1] = At(w, m, d)
  BY <1>4, <1>5 DEF IsWay
<1>7. p[m + 1] \in {top, Above}
  BY <1>4, <1>6, AtTop
<1>8. ASSUME PathUp(w, top, d) # <<>>
      PROVE  \E n \in Nat : At(w, n, d) = top /\ IsWay(w, d, n, PathUp(w, top, d))
  <2>1. p[m + 1] = top /\ PathUp(w, top, d) = p
    BY <1>2, <1>5, <1>8
  <2> QED
    BY <1>4, <1>5, <1>6, <2>1
<1>9. ASSUME NEW n \in Nat, At(w, n, d) = top
      PROVE  IsWay(w, d, n, PathUp(w, top, d))
  <2>1. CASE p[m + 1] = top
    <3>1. m = n
      BY <1>5, <1>6, <1>9, <2>1, AtOnce
    <3>2. PathUp(w, top, d) = p
      BY <1>2, <1>5, <2>1
    <3> QED
      BY <1>4, <3>1, <3>2
  <2>2. CASE p[m + 1] = Above
    <3>1. CASE n <= m
      <4>1. n + 1 \in 1..(m + 1) /\ (n + 1) - 1 = n
        BY <1>5, <3>1
      <4>2. p[n + 1] = top
        BY <1>4, <1>9, <4>1 DEF IsWay
      <4>3. n = m \/ n + 1 \in 1..m
        BY <1>5, <3>1
      <4> QED
        BY <1>0, <1>4, <2>2, <4>2, <4>3
    <3>2. CASE n > m
      <4>1. m <= n
        BY <1>5, <3>2
      <4>2. n - m \in Nat /\ At(w, n - m, At(w, m, d)) = At(w, n, d)
        BY <1>0, <1>5, <4>1, AtFurther
      <4>3. At(w, n - m, Above) = Above
        BY <4>2, AtAbove
      <4> QED
        BY <1>0, <1>6, <1>9, <2>2, <4>2, <4>3
    <3> QED
      BY <1>5, <3>1, <3>2
  <2> QED
    BY <1>7, <2>1, <2>2
<1> QED
  BY <1>8, <1>9

(* A dir is below another if the way up passes it.                         *)
LEMMA PathUpIsAbove ==
  ASSUME NEW w, Forest(w), NEW top \in w.dirs, NEW d \in w.dirs
  PROVE  PathUp(w, top, d) # <<>> <=> \E n \in Nat : At(w, n, d) = top
<1>1. ASSUME NEW n \in Nat, IsWay(w, d, n, PathUp(w, top, d)) PROVE PathUp(w, top, d) # <<>>
  BY <1>1 DEF IsWay
<1> QED
  BY <1>1, PathIsWay

(* A walk from top to d, told by the dirs above d.                         *)
LEMMA WalkedIsWay ==
  ASSUME NEW w, Forest(w), NEW top \in w.dirs, NEW d \in w.dirs, NEW least \in Nat
  PROVE  Walked(w, top, d, least) <=>
           \E n \in Nat :
             /\ At(w, n, d) = top /\ n + 1 <= MaxDepth + 1
             /\ \A k \in 0..(n - 1) : At(w, k, d) \notin w.skipped
             /\ \A k \in 1..n : n - k >= least => ~Marked(w, At(w, k, d))
<1> DEFINE path == PathUp(w, top, d)
<1>1. ASSUME NEW n \in Nat, At(w, n, d) = top, IsWay(w, d, n, path)
      PROVE  Walked(w, top, d, least) <=>
               /\ n + 1 <= MaxDepth + 1
               /\ \A k \in 0..(n - 1) : At(w, k, d) \notin w.skipped
               /\ \A k \in 1..n : n - k >= least => ~Marked(w, At(w, k, d))
  <2>1. Len(path) = n + 1 /\ path # <<>> /\ \A k \in 1..(n + 1) : path[k] = At(w, k - 1, d)
    BY <1>1 DEF IsWay
  <2> HIDE DEF path
  <2>2. (\A k \in 1..(Len(path) - 1) : path[k] \notin w.skipped) <=>
          \A k \in 0..(n - 1) : At(w, k, d) \notin w.skipped
    <3>1. ASSUME NEW k \in 1..(Len(path) - 1)
          PROVE  k - 1 \in 0..(n - 1) /\ path[k] = At(w, k - 1, d)
      BY <2>1
    <3>2. ASSUME NEW k \in 0..(n - 1)
          PROVE  k + 1 \in 1..(Len(path) - 1) /\ path[k + 1] = At(w, k, d)
      <4>1. k + 1 \in 1..(Len(path) - 1) /\ k + 1 \in 1..(n + 1) /\ (k + 1) - 1 = k
        BY <2>1
      <4> QED
        BY <2>1, <4>1
    <3> QED
      BY <3>1, <3>2
  <2>3. (\A k \in 2..Len(path) : Len(path) - k >= least => ~Marked(w, path[k])) <=>
          \A k \in 1..n : n - k >= least => ~Marked(w, At(w, k, d))
    <3>1. ASSUME NEW k \in 2..Len(path)
          PROVE  k - 1 \in 1..n /\ path[k] = At(w, k - 1, d) /\ n - (k - 1) = Len(path) - k
      BY <2>1
    <3>2. ASSUME NEW k \in 1..n
          PROVE  k + 1 \in 2..Len(path) /\ path[k + 1] = At(w, k, d) /\ Len(path) - (k + 1) = n - k
      <4>1. k + 1 \in 2..Len(path) /\ k + 1 \in 1..(n + 1) /\ (k + 1) - 1 = k /\ Len(path) - (k + 1) = n - k
        BY <2>1
      <4> QED
        BY <2>1, <4>1
    <3> QED
      BY <3>1, <3>2
  <2>4. Walked(w, top, d, least) <=>
          /\ path # <<>> /\ Len(path) <= MaxDepth + 1
          /\ \A k \in 1..(Len(path) - 1) : path[k] \notin w.skipped
          /\ \A k \in 2..Len(path) : Len(path) - k >= least => ~Marked(w, path[k])
    BY DEF Walked, path
  <2> QED
    BY <2>1, <2>2, <2>3, <2>4
<1>2. \A n \in Nat : At(w, n, d) = top => IsWay(w, d, n, path)
  BY PathIsWay
<1>3. Walked(w, top, d, least) => \E n \in Nat : At(w, n, d) = top
  BY PathUpIsAbove DEF Walked
<1> HIDE DEF path
<1> QED
  BY <1>1, <1>2, <1>3

(* Where ResolveProject is after n steps up: no marker before.             *)
Resolving(w, d, n, e) ==
  \E m \in 0..n :
    /\ e = At(w, m, d)
    /\ \A k \in 0..(m - 1) : At(w, k, d) # Above /\ ~Marked(w, At(w, k, d))
    /\ m = n \/ e = Above \/ Marked(w, e)

IsResolve(w, d, F) ==
  F = [n \in 0..Cardinality(w.dirs) |->
        IF n = 0 THEN d
        ELSE IF F[n - 1] = Above \/ Marked(w, F[n - 1]) THEN F[n - 1] ELSE w.parent[F[n - 1]]]

(* The recursive function in ResolveProject has a value.                   *)
LEMMA ResolveExists ==
  ASSUME NEW w, Forest(w), NEW d \in w.dirs
  PROVE  \E F : IsResolve(w, d, F)
<1> DEFINE Vals == Dirs(w)
           step(e) == IF e = Above \/ Marked(w, e) THEN e ELSE w.parent[e]
           g == [x \in Nat \X Vals |-> step(x[2])]
           N == Cardinality(w.dirs)
<1>1. d \in Vals /\ N \in Nat
  BY DEF Dirs, Forest
<1>2. \A e \in Vals : step(e) \in Vals
  BY DEF Dirs, Forest
<1>3. g \in [Nat \X Vals -> Vals]
  BY <1>2
<1>4. \A n \in Nat, e \in Vals : g[<<n, e>>] = step(e)
  OBVIOUS
<1> HIDE DEF Vals, g
<1>6. PICK F : IsRec(Vals, d, g, N, F)
  BY <1>1, <1>3, RecExists
<1>7. \A n \in 0..N : F[n] \in Vals
  BY <1>6 DEF IsRec
<1>8. \A n \in 0..N : n # 0 => g[<<n, F[n - 1]>>] = step(F[n - 1])
  <2> TAKE n \in 0..N
  <2> SUFFICES ASSUME n # 0 PROVE g[<<n, F[n - 1]>>] = step(F[n - 1])
    OBVIOUS
  <2>1. n \in Nat /\ n - 1 \in 0..N
    BY <1>1
  <2> QED
    BY <1>4, <1>7, <2>1
<1>9. F = [n \in 0..N |-> IF n = 0 THEN d ELSE step(F[n - 1])]
  BY <1>6, <1>8 DEF IsRec
<1> QED
  BY <1>9 DEF IsResolve

(* ResolveProject is the first dir above that has a marker, if any has.    *)
LEMMA ResolvesToFirst ==
  ASSUME NEW w, Forest(w), NEW d \in w.dirs
  PROVE  \E m \in Nat :
           /\ ResolveProject(w, d) = At(w, m, d)
           /\ \A k \in 0..(m - 1) : At(w, k, d) # Above /\ ~Marked(w, At(w, k, d))
           /\ ResolveProject(w, d) = Above \/ Marked(w, ResolveProject(w, d))
<1> DEFINE N == Cardinality(w.dirs)
           F == CHOOSE F : IsResolve(w, d, F)
           T == {i \in Nat : i <= N => Resolving(w, d, i, F[i])}
<1>0. N \in Nat /\ d \in Dirs(w)
  BY DEF Forest, Dirs
<1>1. IsResolve(w, d, F)
  BY ResolveExists
<1>2. ResolveProject(w, d) = F[N]
  BY DEF ResolveProject, IsResolve
<1> HIDE DEF F
<1>3. 0 \in T
  <2>1. F[0] = d /\ At(w, 0, d) = d
    BY <1>0, <1>1, AtSteps DEF IsResolve
  <2> QED
    BY <2>1 DEF Resolving
<1>4. ASSUME NEW i \in T PROVE i + 1 \in T
  <2> SUFFICES ASSUME i + 1 <= N PROVE Resolving(w, d, i + 1, F[i + 1])
    OBVIOUS
  <2> DEFINE e == F[i]
  <2>1. i \in Nat /\ i + 1 \in 0..N /\ i + 1 # 0 /\ (i + 1) - 1 = i /\ i <= N
    BY <1>0
  <2>2. F[i + 1] = IF e = Above \/ Marked(w, e) THEN e ELSE w.parent[e]
    BY <1>1, <2>1 DEF IsResolve
  <2>3. Resolving(w, d, i, e)
    BY <2>1
  <2> HIDE DEF e
  <2>4. PICK m \in 0..i : /\ e = At(w, m, d)
                          /\ \A k \in 0..(m - 1) : At(w, k, d) # Above /\ ~Marked(w, At(w, k, d))
                          /\ m = i \/ e = Above \/ Marked(w, e)
    BY <2>3 DEF Resolving
  <2>5. m \in Nat /\ m \in 0..(i + 1)
    BY <2>1
  <2>6. CASE e = Above \/ Marked(w, e)
    BY <2>2, <2>4, <2>5, <2>6 DEF Resolving
  <2>7. CASE ~(e = Above \/ Marked(w, e))
    <3>1. m = i /\ F[i + 1] = w.parent[e]
      BY <2>2, <2>4, <2>7
    <3>2. w.parent[e] = At(w, i + 1, d)
      <4>1. At(w, i + 1, d) = Higher(w, e)
        BY <1>0, <2>1, <2>4, <3>1, AtSteps
      <4> QED
        BY <2>7, <4>1 DEF Higher
    <3>3. \A k \in 0..((i + 1) - 1) : At(w, k, d) # Above /\ ~Marked(w, At(w, k, d))
      <4> TAKE k \in 0..((i + 1) - 1)
      <4>1. k = i \/ k \in 0..(m - 1)
        BY <2>1, <3>1
      <4> QED
        BY <2>4, <2>7, <3>1, <4>1
    <3>4. i + 1 \in 0..(i + 1)
      BY <2>1
    <3> QED
      BY <3>1, <3>2, <3>3, <3>4 DEF Resolving
  <2> QED
    BY <2>6, <2>7
<1> HIDE DEF T
<1>5. T = Nat
  BY <1>3, <1>4, NatInd DEF T
<1>6. Resolving(w, d, N, F[N])
  BY <1>0, <1>5 DEF T
<1>7. PICK m \in 0..N : /\ F[N] = At(w, m, d)
                        /\ \A k \in 0..(m - 1) : At(w, k, d) # Above /\ ~Marked(w, At(w, k, d))
                        /\ m = N \/ F[N] = Above \/ Marked(w, F[N])
  BY <1>6 DEF Resolving
<1>8. m \in Nat
  BY <1>0
<1>9. m = N => F[N] = Above
  BY <1>7, AtTop
<1> QED
  BY <1>2, <1>7, <1>8, <1>9

(* A workspace whose roots and skipped dirs are among its dirs.            *)
WorkspaceOver(w) ==
  Forest(w) /\ w.roots \subseteq w.dirs /\ w.skipped \subseteq w.dirs

(* ProjectsDisjoint, whatever the workspace (discovery.ts stops at the     *)
(* first marker of a walk): a second project inside a first would have     *)
(* been reached only past the first's marker, or from a root inside it.    *)
THEOREM DisjointProjects ==
  ASSUME NEW w, WorkspaceOver(w)
  PROVE  ProjectsDisjoint(w)
<1> SUFFICES ASSUME \A r \in w.roots, p \in DiscoverProjects(w) : p # r => PathUp(w, p, r) = <<>>,
                    NEW p \in DiscoverProjects(w), NEW q \in DiscoverProjects(w), p # q,
                    PathUp(w, p, q) # <<>>
             PROVE  FALSE
  BY DEF ProjectsDisjoint
<1>1. p \in w.dirs /\ q \in w.dirs /\ Marked(w, p) /\ q \in Dirs(w) /\ Forest(w)
  BY DEF DiscoverProjects, Dirs, WorkspaceOver
<1>2. PICK r \in w.roots \cap w.dirs : Walked(w, r, q, 0)
  BY DEF DiscoverProjects
<1>3. PICK n \in Nat : At(w, n, q) = r /\ \A k \in 1..n : n - k >= 0 => ~Marked(w, At(w, k, q))
  BY <1>1, <1>2, WalkedIsWay
<1>4. PICK m \in Nat : At(w, m, q) = p
  BY <1>1, PathUpIsAbove
<1>5. At(w, 0, q) = q
  BY <1>1, AtSteps
<1>6. \A k \in 1..n : ~Marked(w, At(w, k, q))
  BY <1>3
<1>7. m > n
  <2>1. m # 0
    BY <1>4, <1>5
  <2>2. m \notin 1..n
    BY <1>1, <1>4, <1>6
  <2> QED
    BY <2>1, <2>2
<1>8. m - n \in Nat /\ At(w, m - n, r) = p
  BY <1>1, <1>3, <1>4, <1>7, AtFurther
<1>9. r # p
  <2>1. CASE n = 0
    BY <1>3, <1>5, <2>1
  <2>2. CASE n # 0
    BY <1>1, <1>3, <1>6, <2>2
  <2> QED
    BY <2>1, <2>2
<1> QED
  BY <1>1, <1>2, <1>8, <1>9, PathUpIsAbove

(* AcceptedStaysInside: what is discovered is below a root; from an        *)
(* accepted path the walk up meets its marker at or below the root, or     *)
(* climbs past it, and then resolves the root the same.                    *)
THEOREM InsideAccepted ==
  ASSUME NEW w, WorkspaceOver(w)
  PROVE  AcceptedStaysInside(w)
<1>0. Forest(w) /\ w.roots \subseteq w.dirs
  BY DEF WorkspaceOver
<1>1. \A p \in DiscoverProjects(w) : ResolveUnderWorkspaceRoots(w, p)
  BY DEF DiscoverProjects, Walked, ResolveUnderWorkspaceRoots
<1>2. ASSUME NEW d \in w.dirs, ResolveUnderWorkspaceRoots(w, d), ResolveProject(w, d) # Above,
             ~ResolveUnderWorkspaceRoots(w, ResolveProject(w, d))
      PROVE  \E r \in w.roots : /\ PathUp(w, ResolveProject(w, d), r) # <<>>
                                /\ ResolveProject(w, r) = ResolveProject(w, d)
  <2> DEFINE q == ResolveProject(w, d)
  <2>1. PICK r \in w.roots : PathUp(w, r, d) # <<>>
    BY <1>2 DEF ResolveUnderWorkspaceRoots
  <2>2. PICK n \in Nat : At(w, n, d) = r
    BY <1>0, <2>1, PathUpIsAbove
  <2>3. PICK m \in Nat : /\ q = At(w, m, d)
                         /\ \A k \in 0..(m - 1) : At(w, k, d) # Above /\ ~Marked(w, At(w, k, d))
                         /\ q = Above \/ Marked(w, q)
    BY <1>0, ResolvesToFirst
  <2>4. d \in Dirs(w) /\ r \in Dirs(w) /\ r \in w.dirs
    BY <1>0 DEF Dirs
  <2>5. q \in w.dirs /\ Marked(w, q)
    BY <1>0, <1>2, <2>3, <2>4, AtSteps DEF Dirs
  <2> HIDE DEF q
  <2>6. m > n
    <3> SUFFICES ASSUME m <= n PROVE FALSE
      OBVIOUS
    <3>1. n - m \in Nat /\ At(w, n - m, q) = r
      BY <1>0, <2>2, <2>3, <2>4, AtFurther
    <3>2. PathUp(w, r, q) # <<>>
      BY <1>0, <2>4, <2>5, <3>1, PathUpIsAbove
    <3> QED
      BY <1>2, <3>2 DEF ResolveUnderWorkspaceRoots, q
  <2>7. m - n \in Nat /\ At(w, m - n, r) = q
    BY <1>0, <2>2, <2>3, <2>4, <2>6, AtFurther
  <2>8. PICK i \in Nat : /\ ResolveProject(w, r) = At(w, i, r)
                         /\ \A k \in 0..(i - 1) : At(w, k, r) # Above /\ ~Marked(w, At(w, k, r))
                         /\ ResolveProject(w, r) = Above \/ Marked(w, ResolveProject(w, r))
    BY <1>0, <2>4, ResolvesToFirst
  <2>9. ~(i < m - n)
    <3> SUFFICES ASSUME i < m - n PROVE FALSE
      OBVIOUS
    <3>1. n + i \in 0..(m - 1)
      BY <2>7
    <3>2. At(w, i, r) = At(w, n + i, d)
      BY <1>0, <2>2, <2>4, AtSum
    <3> QED
      BY <2>3, <2>8, <3>1, <3>2
  <2>10. ~(m - n < i)
    <3> SUFFICES ASSUME m - n < i PROVE FALSE
      OBVIOUS
    <3>1. m - n \in 0..(i - 1)
      BY <2>7
    <3> QED
      BY <2>5, <2>7, <2>8, <3>1
  <2>11. i = m - n
    BY <2>7, <2>9, <2>10
  <2>12. ResolveProject(w, r) = q
    BY <2>7, <2>8, <2>11
  <2>13. PathUp(w, q, r) # <<>>
    BY <1>0, <2>4, <2>5, <2>7, PathUpIsAbove
  <2> QED
    BY <2>12, <2>13 DEF q
<1> QED
  BY <1>1, <1>2 DEF AcceptedStaysInside

(* ResolvesToListed: if a path inside a project resolves to another dir,   *)
(* the topmost marker between the two is one that FindAbsorbedMarkers      *)
(* reports, unless a skipped dir or the depth of the walk is in between.   *)
THEOREM ListedOrAbsorbed ==
  ASSUME NEW w, WorkspaceOver(w), MaxDepth \in Nat
  PROVE  ResolvesToListed(w)
<1>0. Forest(w) /\ w.skipped \subseteq w.dirs
  BY DEF WorkspaceOver
<1> SUFFICES ASSUME NEW p \in DiscoverProjects(w), NEW d \in w.dirs, PathUp(w, p, d) # <<>>,
                    ResolveProject(w, d) # p,
                    \A s \in w.skipped : PathUp(w, s, ResolveProject(w, d)) = <<>>,
                    ~(Len(PathUp(w, p, ResolveProject(w, d))) > MaxDepth + 1)
             PROVE  \E a \in FindAbsorbedMarkers(w, p) : PathUp(w, a, ResolveProject(w, d)) # <<>>
  BY DEF ResolvesToListed
<1> DEFINE q == ResolveProject(w, d)
<1>1. p \in w.dirs /\ Marked(w, p) /\ p # Above
  BY <1>0 DEF DiscoverProjects, Forest
<1>2. PICK n \in Nat : At(w, n, d) = p
  BY <1>0, <1>1, PathUpIsAbove
<1>3. PICK m \in Nat : /\ q = At(w, m, d)
                       /\ \A k \in 0..(m - 1) : At(w, k, d) # Above /\ ~Marked(w, At(w, k, d))
                       /\ q = Above \/ Marked(w, q)
  BY <1>0, ResolvesToFirst
<1>4. d \in Dirs(w)
  BY DEF Dirs
<1>5. m <= n
  <2>1. n \notin 0..(m - 1)
    BY <1>1, <1>2, <1>3
  <2> QED
    BY <2>1
<1> DEFINE e == n - m
<1>6. e \in Nat /\ At(w, e, q) = p
  BY <1>0, <1>2, <1>3, <1>4, <1>5, AtFurther
<1> HIDE DEF q, e
<1>7. q \in w.dirs /\ Marked(w, q)
  <2>1. q # Above
    BY <1>0, <1>1, <1>6, AtAbove
  <2>2. q \in Dirs(w)
    BY <1>0, <1>3, <1>4, AtSteps
  <2> QED
    BY <1>3, <2>1, <2>2 DEF Dirs
<1>8. q \in Dirs(w) /\ At(w, 0, q) = q
  BY <1>0, <1>7, AtSteps DEF Dirs
<1>9. e # 0
  BY <1>6, <1>8 DEF q
<1>10. e + 1 <= MaxDepth + 1
  <2>1. IsWay(w, q, e, PathUp(w, p, q))
    BY <1>0, <1>1, <1>6, <1>7, PathIsWay
  <2>2. Len(PathUp(w, p, q)) = e + 1
    BY <2>1 DEF IsWay
  <2> QED
    BY <1>6, <2>2 DEF q
(* The topmost marker below p on the way from q.                           *)
<1> DEFINE M == {k \in 1..e : Marked(w, At(w, k - 1, q))}
<1>11. PICK j \in M : \A k \in M : k <= j
  <2>1. 1 \in M
    BY <1>6, <1>7, <1>8, <1>9
  <2> QED
    BY <1>6, <2>1, LastIndex
<1> DEFINE a == At(w, j - 1, q)
           l == e - (j - 1)
<1>12. j - 1 \in Nat /\ j - 1 <= e /\ l \in Nat /\ l >= 1 /\ l <= e
  BY <1>6, <1>11
<1>13. a \in Dirs(w) /\ At(w, l, a) = p
  BY <1>0, <1>6, <1>8, <1>12, AtSteps, AtFurther
<1> HIDE DEF a, l
<1>14. a \in w.dirs
  <2>1. a # Above
    BY <1>0, <1>1, <1>12, <1>13, AtAbove
  <2> QED
    BY <1>13, <2>1 DEF Dirs
<1>15. a # p
  <2> SUFFICES ASSUME a = p PROVE FALSE
    OBVIOUS
  <2>1. At(w, 0, a) = a
    BY <1>0, <1>13, AtSteps
  <2>2. 0 = l
    BY <1>0, <1>12, <1>13, <1>14, <2>1, AtOnce
  <2> QED
    BY <1>12, <2>2
<1>16. \A k \in Nat : At(w, k, a) = At(w, (j - 1) + k, q)
  BY <1>0, <1>8, <1>12, AtSum DEF a
<1>17. ASSUME NEW k \in 0..(l - 1) PROVE At(w, k, a) \notin w.skipped
  <2>1. k \in Nat /\ (j - 1) + k \in Nat
    BY <1>12
  <2>2. \A s \in w.skipped : ~\E i \in Nat : At(w, i, q) = s
    BY <1>0, <1>7, PathUpIsAbove DEF q
  <2> QED
    BY <1>16, <2>1, <2>2
<1>18. ASSUME NEW k \in 1..l, l - k >= 1 PROVE ~Marked(w, At(w, k, a))
  <2>1. k \in Nat /\ (j - 1) + k = (j + k) - 1 /\ j + k > j /\ j + k \in 1..e
    BY <1>6, <1>11, <1>12, <1>18 DEF l
  <2>2. j + k \notin M
    BY <1>11, <2>1
  <2> QED
    BY <1>16, <2>1, <2>2
<1>19. l + 1 <= MaxDepth + 1
  BY <1>6, <1>10, <1>12
<1>20. Walked(w, p, a, 1)
  BY <1>0, <1>1, <1>12, <1>13, <1>14, <1>17, <1>18, <1>19, WalkedIsWay
<1>21. a \in FindAbsorbedMarkers(w, p)
  BY <1>11, <1>14, <1>15, <1>20 DEF FindAbsorbedMarkers, a
<1>22. PathUp(w, a, q) # <<>>
  BY <1>0, <1>7, <1>12, <1>14, PathUpIsAbove DEF a
<1> QED
  BY <1>21, <1>22 DEF q
-----------------------------------------------------------------------------
(* Retrieval: folds over the indexes of a sequence.                        *)
(* The largest index of the first i is i.                                  *)
LEMMA LastOfFirst ==
  ASSUME NEW n \in Nat, NEW i \in 1..n
  PROVE  /\ 1..i \in SUBSET (1..n) /\ 1..i # {} /\ Max(1..i) = i
         /\ (1..i) \ {i} = 1..(i - 1) /\ 1..(i - 1) \in SUBSET (1..n)
<1>1. i \in 1..i /\ \A y \in 1..i : y <= i
  OBVIOUS
<1>2. \A x \in 1..i : (\A y \in 1..i : y <= x) => x = i
  BY <1>1
<1>3. Max(1..i) = i
  BY <1>1, <1>2 DEF Max
<1> QED
  BY <1>1, <1>3

(* The largest of a nonempty set of indexes.                               *)
LEMMA MaxIs ==
  ASSUME NEW n \in Nat, NEW s \in SUBSET (1..n), s # {}
  PROVE  Max(s) \in s /\ \A y \in s : y <= Max(s)
BY LastIndex DEF Max

(* A fold over the indexes 1..n: it[s] takes a step of g at each index of  *)
(* s, the smallest first.                                                  *)
IsFold(Vals, base, n, g, it) ==
  /\ it \in [SUBSET (1..n) -> Vals]
  /\ it = [s \in SUBSET (1..n) |-> IF s = {} THEN base ELSE g[<<it[s \ {Max(s)}], Max(s)>>]]

(* It is there.                                                            *)
LEMMA FoldExists ==
  ASSUME NEW Vals, NEW base \in Vals, NEW n \in Nat, NEW g \in [Vals \X (1..n) -> Vals]
  PROVE  \E it : IsFold(Vals, base, n, g, it)
<1> DEFINE P == SUBSET (1..n)
           FV == [P -> Vals]
           st(i, f) == [s \in P |-> IF i \in s THEN g[<<f[s], i>>] ELSE f[s]]
           b == [s \in P |-> base]
           h == [x \in Nat \X FV |-> st(x[1], x[2])]
<1>1. b \in FV
  OBVIOUS
<1>2. \A i \in Nat, f \in FV : h[<<i, f>>] = st(i, f) /\ st(i, f) \in FV
  <2> TAKE i \in Nat, f \in FV
  <2>1. \A s \in P : i \in s => i \in 1..n
    OBVIOUS
  <2>2. \A s \in P : f[s] \in Vals
    OBVIOUS
  <2>3. \A s \in P : i \in s => g[<<f[s], i>>] \in Vals
    BY <2>1, <2>2
  <2> QED
    BY <2>2, <2>3
<1>3. h \in [Nat \X FV -> FV]
  BY <1>2
<1> HIDE DEF h, b, FV
<1>4. PICK F : IsRec(FV, b, h, n, F)
  BY <1>1, <1>3, RecExists
<1>5. \A i \in 0..n : F[i] \in FV
  BY <1>4 DEF IsRec
<1>6. \A s \in P : F[0][s] = base
  <2>1. F[0] = b
    BY <1>4 DEF IsRec
  <2> QED
    BY <2>1 DEF b
<1>7. \A i \in 1..n, s \in P : F[i][s] = IF i \in s THEN g[<<F[i - 1][s], i>>] ELSE F[i - 1][s]
  <2> TAKE i \in 1..n, s \in P
  <2>1. i \in 0..n /\ i # 0 /\ i - 1 \in 0..n /\ i \in Nat
    OBVIOUS
  <2>2. F[i] = h[<<i, F[i - 1]>>]
    BY <1>4, <2>1 DEF IsRec
  <2>3. F[i] = st(i, F[i - 1])
    BY <1>2, <1>5, <2>1, <2>2
  <2> QED
    BY <2>3
<1> HIDE DEF P
<1>8. \A s \in P, m \in 0..n : (\A y \in s : y <= m) => \A i \in 0..n : m <= i => F[i][s] = F[m][s]
  <2> SUFFICES ASSUME NEW s \in P, NEW m \in 0..n, \A y \in s : y <= m
               PROVE  \A i \in 0..n : m <= i => F[i][s] = F[m][s]
    OBVIOUS
  <2> DEFINE T == {i \in Nat : i <= n /\ m <= i => F[i][s] = F[m][s]}
  <2>1. 0 \in T
    OBVIOUS
  <2>2. ASSUME NEW i \in T PROVE i + 1 \in T
    <3> SUFFICES ASSUME i + 1 <= n, m <= i + 1 PROVE F[i + 1][s] = F[m][s]
      OBVIOUS
    <3>1. CASE m = i + 1
      BY <3>1
    <3>2. CASE m # i + 1
      <4>0. i \in Nat /\ m \in Nat
        OBVIOUS
      <4>1. m <= i /\ i <= n /\ i + 1 \in 1..n /\ (i + 1) - 1 = i
        BY <3>2, <4>0
      <4>2. i + 1 \notin s
        BY <4>1
      <4>5. F[i + 1][s] = IF i + 1 \in s THEN g[<<F[(i + 1) - 1][s], i + 1>>] ELSE F[(i + 1) - 1][s]
        BY <1>7, <4>1
      <4>3. F[i + 1][s] = F[i][s]
        BY <4>1, <4>2, <4>5
      <4>4. F[i][s] = F[m][s]
        BY <4>1
      <4> QED
        BY <4>3, <4>4
    <3> QED
      BY <3>1, <3>2
  <2> HIDE DEF T
  <2>3. T = Nat
    BY <2>1, <2>2, NatInd DEF T
  <2>4. \A i \in 0..n : i \in Nat /\ i <= n
    OBVIOUS
  <2> QED
    BY <2>3, <2>4 DEF T
<1>9. ASSUME NEW s \in P, NEW m \in s
      PROVE  \A i \in 0..(m - 1) : F[i][s \ {m}] = F[i][s]
  <2> DEFINE r == s \ {m}
             T == {i \in Nat : i <= m - 1 => F[i][r] = F[i][s]}
  <2>0. m \in 1..n /\ r \in P /\ m \in Nat
    BY DEF P
  <2>1. 0 \in T
    BY <1>6, <2>0
  <2>2. ASSUME NEW i \in T PROVE i + 1 \in T
    <3> SUFFICES ASSUME i + 1 <= m - 1 PROVE F[i + 1][r] = F[i + 1][s]
      OBVIOUS
    <3>1. i + 1 \in 1..n /\ (i + 1) - 1 = i /\ i <= m - 1 /\ i + 1 # m
      BY <2>0
    <3>2. F[i][r] = F[i][s]
      BY <3>1
    <3>3. i + 1 \in r <=> i + 1 \in s
      BY <3>1
    <3>4. /\ F[i + 1][r] = IF i + 1 \in r THEN g[<<F[(i + 1) - 1][r], i + 1>>] ELSE F[(i + 1) - 1][r]
          /\ F[i + 1][s] = IF i + 1 \in s THEN g[<<F[(i + 1) - 1][s], i + 1>>] ELSE F[(i + 1) - 1][s]
      BY <1>7, <2>0, <3>1
    <3> DEFINE u == F[i + 1][r]
               v == F[i + 1][s]
               x == F[(i + 1) - 1][r]
               y == F[(i + 1) - 1][s]
    <3>5. /\ u = IF i + 1 \in r THEN g[<<x, i + 1>>] ELSE x
          /\ v = IF i + 1 \in s THEN g[<<y, i + 1>>] ELSE y
      BY <3>4
    <3>6. x = y
      BY <3>1, <3>2
    <3> HIDE DEF u, v, x, y, r
    <3>7. u = v
      BY <3>3, <3>5, <3>6
    <3> QED
      BY <3>7 DEF u, v
  <2> HIDE DEF T, r
  <2>3. T = Nat
    BY <2>1, <2>2, NatInd DEF T
  <2>4. \A i \in 0..(m - 1) : i \in Nat /\ i <= m - 1
    BY <2>0
  <2> QED
    BY <2>3, <2>4 DEF T, r
<1> DEFINE it == [s \in P |-> F[n][s]]
<1>10. it \in [P -> Vals]
  BY <1>5 DEF FV
<1>11. ASSUME NEW s \in P
       PROVE  it[s] = IF s = {} THEN base ELSE g[<<it[s \ {Max(s)}], Max(s)>>]
  <2>1. CASE s = {}
    <3>1. 0 \in 0..n /\ n \in 0..n /\ 0 <= n /\ \A y \in s : y <= 0
      BY <2>1
    <3>2. F[n][s] = F[0][s]
      BY <1>8, <2>1, <3>1
    <3> QED
      BY <1>6, <2>1, <3>2
  <2>2. CASE s # {}
    <3> DEFINE m == Max(s)
               r == s \ {m}
    <3>1. m \in s /\ \A y \in s : y <= m
      BY <2>2, MaxIs DEF P
    <3> HIDE DEF m
    <3>9. m \in 1..n /\ r \in P
      BY <3>1 DEF P
    <3>2. /\ m \in 1..n /\ r \in P /\ m \in 0..n /\ m - 1 \in 0..n /\ n \in 0..n
          /\ m <= n /\ m - 1 <= n /\ m - 1 \in 0..(m - 1)
      BY <3>9
    <3>3. \A y \in r : y <= m - 1
      <4>1. \A y \in r : y \in Nat /\ y <= m /\ y # m
        BY <3>1 DEF P
      <4> QED
        BY <3>9, <4>1
    <3>4. F[n][s] = F[m][s]
      BY <1>8, <3>1, <3>2
    <3>5. F[m][s] = g[<<F[m - 1][s], m>>]
      BY <1>7, <3>1, <3>2
    <3>6. F[m - 1][r] = F[m - 1][s]
      BY <1>9, <3>1, <3>2
    <3> HIDE DEF r
    <3>7. F[n][r] = F[m - 1][r]
      BY <1>8, <3>2, <3>3
    <3>8. it[s] = g[<<it[r], m>>]
      BY <3>2, <3>4, <3>5, <3>6, <3>7
    <3> QED
      BY <2>2, <3>8 DEF r, m
  <2> QED
    BY <2>1, <2>2
<1> HIDE DEF it
<1>12. it = [s \in P |-> IF s = {} THEN base ELSE g[<<it[s \ {Max(s)}], Max(s)>>]]
  <2>1. DOMAIN it = P
    BY <1>10
  <2>2. it = [s \in P |-> it[s]]
    BY <1>10
  <2> QED
    BY <1>11, <2>2
<1> QED
  BY <1>10, <1>12 DEF P, IsFold

-----------------------------------------------------------------------------
(* What a branch adds to the score of a chunk.                             *)
Credit(branch, id) ==
  FoldLeft(LAMBDA s, k : IF branch[k] = id THEN s + Unit \div (RrfK + k) ELSE s,
           0, [k \in 1..Len(branch) |-> k])

Share(k) == Unit \div (RrfK + k)

LEMMA ShareIsNat ==
  ASSUME NEW k \in Nat \ {0}
  PROVE  Share(k) \in Nat
<1>1. RrfK \in Nat /\ Unit \in Nat /\ RrfK + k \in Nat /\ RrfK + k > 0
  BY RankAssumption
<1> DEFINE x == RrfK + k
<1> HIDE DEF x
<1>2. x \in Nat /\ x > 0
  BY <1>1 DEF x
<1>3. Unit \div x \in Nat
  BY <1>1, <1>2
<1> QED
  BY <1>3 DEF Share, x

(* A better rank has a greater share.                                      *)
LEMMA ShareFalls ==
  ASSUME NEW j \in 1..MaxRank, NEW k \in 1..MaxRank, j < k
  PROVE  Share(j) > Share(k) /\ Share(k) > 0
<1> DEFINE x == RrfK + j
           y == RrfK + k
           a == Unit \div x
           b == Unit \div y
<1>0. RrfK \in Nat /\ MaxRank \in Nat /\ Unit \in Nat /\ Unit > 0
  BY RankAssumption
<1>1. x \in Nat /\ y \in Nat /\ x > 0 /\ x < y
  BY <1>0
<1>2. Unit % x = 0 /\ Unit % y = 0
  BY RankAssumption
<1> HIDE DEF x, y
<1>3. a \in Nat /\ b \in Nat
  BY <1>0, <1>1
<1>4. Unit = a * x
  BY <1>0, <1>1, <1>2
<1>5. Unit = b * y
  BY <1>0, <1>1, <1>2
<1> HIDE DEF a, b
<1>6. b > 0
  BY <1>0, <1>1, <1>3, <1>5
<1>7. b * x < b * y
  BY <1>1, <1>3, <1>6
<1>8. a > b
  BY <1>1, <1>3, <1>4, <1>5, <1>7
<1> QED
  BY <1>6, <1>8 DEF Share, a, b, x, y

LEMMA ShareIsPositive ==
  ASSUME NEW k \in 1..MaxRank
  PROVE  Share(k) > 0
<1> DEFINE y == RrfK + k
           b == Unit \div y
<1>0. RrfK \in Nat /\ MaxRank \in Nat /\ Unit \in Nat /\ Unit > 0
  BY RankAssumption
<1>1. y \in Nat /\ y > 0
  BY <1>0
<1>2. Unit % y = 0
  BY RankAssumption
<1> HIDE DEF y
<1>3. b \in Nat
  BY <1>0, <1>1
<1>5. Unit = b * y
  BY <1>0, <1>1, <1>2
<1> HIDE DEF b
<1>6. b > 0
  BY <1>0, <1>1, <1>3, <1>5
<1> QED
  BY <1>6 DEF Share, b, y

(* It adds the share of the rank it gives the chunk.                       *)
LEMMA CreditIs ==
  ASSUME NEW Ids, NEW branch \in Seq(Ids), IsInjective(branch), NEW id
  PROVE  /\ Ranks(branch, id) = {} => Credit(branch, id) = 0
         /\ \A k \in Ranks(branch, id) : Credit(branch, id) = Share(k)
<1> DEFINE n == Len(branch)
           q == [k \in 1..n |-> k]
           e(s, k) == IF branch[k] = id THEN s + Unit \div (RrfK + k) ELSE s
           Is(F) == F = [t \in SUBSET (1..n) |-> IF t = {} THEN 0 ELSE e(F[t \ {Max(t)}], q[Max(t)])]
           C == CHOOSE F : Is(F)
           g == [x \in Nat \X (1..n) |-> e(x[1], x[2])]
<1>1. n \in Nat /\ DOMAIN branch = 1..n
  OBVIOUS
<1>2. Credit(branch, id) = C[1..n]
  <2>1. DOMAIN q = 1..n
    OBVIOUS
  <2> QED
    BY <2>1 DEF Credit, FoldLeft, MapThenFoldSet
<1>3. \A s \in Nat, k \in 1..n : e(s, k) = (IF branch[k] = id THEN s + Share(k) ELSE s) /\ e(s, k) \in Nat
  <2> TAKE s \in Nat, k \in 1..n
  <2>1. Share(k) \in Nat /\ k \in Nat
    BY <1>1, ShareIsNat
  <2>2. e(s, k) = IF branch[k] = id THEN s + Share(k) ELSE s
    BY DEF Share
  <2> QED
    BY <2>1, <2>2
<1>4. g \in [Nat \X (1..n) -> Nat]
  BY <1>3
<1>5. \A s \in Nat, k \in 1..n : g[<<s, k>>] = e(s, k)
  OBVIOUS
<1> HIDE DEF e, g, n
<1>6. PICK it : IsFold(Nat, 0, n, g, it)
  <2>1. 0 \in Nat
    OBVIOUS
  <2> QED
    BY <1>1, <1>4, <2>1, FoldExists
<1>7. Is(it)
  <2>1. ASSUME NEW t \in SUBSET (1..n), t # {}
        PROVE  g[<<it[t \ {Max(t)}], Max(t)>>] = e(it[t \ {Max(t)}], q[Max(t)])
    <3>1. Max(t) \in 1..n /\ it[t \ {Max(t)}] \in Nat
      BY <1>1, <1>6, <2>1, MaxIs DEF IsFold
    <3> QED
      BY <1>5, <3>1
  <2> QED
    BY <1>6, <2>1 DEF IsFold
<1>8. Is(C)
  BY <1>7
<1> HIDE DEF C
<1>9. C[1..0] = 0 /\ \A i \in 1..n : C[1..i] = e(C[1..(i - 1)], i)
  <2>1. 1..0 = {} /\ {} \in SUBSET (1..n)
    OBVIOUS
  <2>2. ASSUME NEW i \in 1..n PROVE C[1..i] = e(C[1..(i - 1)], i)
    <3>1. /\ 1..i \in SUBSET (1..n) /\ 1..i # {} /\ Max(1..i) = i /\ (1..i) \ {i} = 1..(i - 1)
      BY <1>1, LastOfFirst
    <3>2. q[i] = i
      OBVIOUS
    <3>3. C[1..i] = e(C[(1..i) \ {Max(1..i)}], q[Max(1..i)])
      BY <1>8, <3>1
    <3> QED
      BY <3>1, <3>2, <3>3
  <2> QED
    BY <1>8, <2>1, <2>2
<1> DEFINE Right(i) == /\ (\A k \in 1..i : branch[k] # id) => C[1..i] = 0
                       /\ \A k \in 1..i : branch[k] = id => C[1..i] = Share(k)
           T == {i \in Nat : i <= n => C[1..i] \in Nat /\ Right(i)}
<1>10. 0 \in T
  BY <1>9
<1>11. ASSUME NEW i \in T PROVE i + 1 \in T
  <2> SUFFICES ASSUME i + 1 <= n PROVE C[1..(i + 1)] \in Nat /\ Right(i + 1)
    OBVIOUS
  <2>1. i + 1 \in 1..n /\ (i + 1) - 1 = i /\ i <= n /\ i \in Nat /\ i + 1 \in Nat \ {0}
    BY <1>1
  <2>2. C[1..i] \in Nat /\ Right(i)
    BY <2>1
  <2>3. C[1..(i + 1)] = e(C[1..((i + 1) - 1)], i + 1)
    BY <1>9, <2>1
  <2>4. C[1..(i + 1)] = (IF branch[i + 1] = id THEN C[1..i] + Share(i + 1) ELSE C[1..i]) /\ C[1..(i + 1)] \in Nat
    <3> DEFINE s == C[1..i]
               u == C[1..(i + 1)]
    <3>1. s \in Nat
      BY <2>2
    <3>2. e(s, i + 1) = (IF branch[i + 1] = id THEN s + Share(i + 1) ELSE s) /\ e(s, i + 1) \in Nat
      BY <1>3, <2>1, <3>1
    <3>3. C[1..((i + 1) - 1)] = s
      BY <2>1
    <3>4. u = e(s, i + 1)
      BY <2>3, <3>3
    <3> HIDE DEF s, u
    <3>5. u = (IF branch[i + 1] = id THEN s + Share(i + 1) ELSE s) /\ u \in Nat
      BY <3>2, <3>4
    <3> QED
      BY <3>5 DEF s, u
  <2>5. \A k \in 1..(i + 1) : k = i + 1 \/ k \in 1..i
    BY <2>1
  <2>6. CASE branch[i + 1] = id
    <3>1. \A k \in 1..i : branch[k] # id
      <4> SUFFICES ASSUME NEW k \in 1..i, branch[k] = id PROVE FALSE
        OBVIOUS
      <4>1. k \in 1..n /\ k # i + 1
        BY <1>1, <2>1
      <4> QED
        BY <1>1, <2>1, <2>6, <4>1 DEF IsInjective
    <3>2. C[1..i] = 0 /\ Share(i + 1) \in Nat
      BY <2>1, <2>2, <3>1, ShareIsNat
    <3>3. C[1..(i + 1)] = Share(i + 1)
      BY <2>4, <2>6, <3>2
    <3>4. i + 1 \in 1..(i + 1)
      BY <2>1
    <3> QED
      BY <2>4, <2>5, <2>6, <3>1, <3>3, <3>4
  <2>7. CASE branch[i + 1] # id
    <3>1. 1..i \subseteq 1..(i + 1)
      BY <2>1
    <3> QED
      BY <2>2, <2>4, <2>5, <2>7, <3>1
  <2> QED
    BY <2>6, <2>7
<1> HIDE DEF T
<1>12. T = Nat
  BY <1>10, <1>11, NatInd DEF T
<1>13. Right(n)
  BY <1>1, <1>12 DEF T
<1> QED
  BY <1>1, <1>2, <1>13 DEF Ranks

(* The rank a branch gives a chunk, behind all of its chunks if none.      *)
RankIn(branch, id) ==
  IF Ranks(branch, id) = {} THEN Len(branch) + 1 ELSE CHOOSE k \in Ranks(branch, id) : TRUE

(* A branch adds more for a better rank.                                   *)
LEMMA CreditCompares ==
  ASSUME NEW Ids, NEW branch \in Seq(Ids), IsInjective(branch), Len(branch) <= MaxRank, NEW a, NEW b
  PROVE  /\ Credit(branch, a) \in Nat /\ Credit(branch, b) \in Nat
         /\ Ranks(branch, a) \subseteq 1..MaxRank /\ RankIn(branch, a) \in Nat
         /\ Ranks(branch, a) # {} => Credit(branch, a) > 0
         /\ RankIn(branch, a) < RankIn(branch, b) => Credit(branch, a) > Credit(branch, b)
         /\ RankIn(branch, a) = RankIn(branch, b) => Credit(branch, a) = Credit(branch, b)
<1>0. Len(branch) \in Nat /\ DOMAIN branch = 1..Len(branch) /\ MaxRank \in Nat
  BY RankAssumption
<1>1. \A id : Ranks(branch, id) \subseteq 1..Len(branch) /\ Ranks(branch, id) \subseteq 1..MaxRank
  BY <1>0 DEF Ranks
<1>2. \A id : Ranks(branch, id) = {} => Credit(branch, id) = 0 /\ RankIn(branch, id) = Len(branch) + 1
  BY CreditIs DEF RankIn
<1>3. ASSUME NEW id, Ranks(branch, id) # {}
      PROVE  /\ RankIn(branch, id) \in 1..Len(branch) /\ RankIn(branch, id) \in 1..MaxRank
             /\ Credit(branch, id) = Share(RankIn(branch, id))
             /\ Share(RankIn(branch, id)) \in Nat /\ Share(RankIn(branch, id)) > 0
  <2> DEFINE k == RankIn(branch, id)
  <2>1. k \in Ranks(branch, id)
    BY <1>3 DEF RankIn
  <2>2. k \in 1..Len(branch) /\ k \in 1..MaxRank
    BY <1>1, <2>1
  <2>3. Credit(branch, id) = Share(k)
    BY <2>1, CreditIs
  <2> HIDE DEF k
  <2>4. k \in Nat \ {0}
    BY <1>0, <2>2
  <2> QED
    BY <2>2, <2>3, <2>4, ShareIsNat, ShareIsPositive DEF k
<1>4. \A id : Credit(branch, id) \in Nat /\ RankIn(branch, id) \in Nat
  BY <1>0, <1>2, <1>3
<1>5. RankIn(branch, a) < RankIn(branch, b) => Credit(branch, a) > Credit(branch, b)
  <2> SUFFICES ASSUME RankIn(branch, a) < RankIn(branch, b) PROVE Credit(branch, a) > Credit(branch, b)
    OBVIOUS
  <2>1. CASE Ranks(branch, a) = {} /\ Ranks(branch, b) = {}
    BY <1>0, <1>2, <2>1
  <2>2. CASE Ranks(branch, a) = {} /\ Ranks(branch, b) # {}
    BY <1>0, <1>2, <1>3, <2>2
  <2>3. CASE Ranks(branch, a) # {} /\ Ranks(branch, b) = {}
    BY <1>2, <1>3, <2>3
  <2>4. CASE Ranks(branch, a) # {} /\ Ranks(branch, b) # {}
    BY <1>3, <2>4, ShareFalls
  <2> QED
    BY <2>1, <2>2, <2>3, <2>4
<1>6. RankIn(branch, a) = RankIn(branch, b) => Credit(branch, a) = Credit(branch, b)
  <2> SUFFICES ASSUME RankIn(branch, a) = RankIn(branch, b) PROVE Credit(branch, a) = Credit(branch, b)
    OBVIOUS
  <2>1. \A id : Ranks(branch, id) = {} <=> RankIn(branch, id) = Len(branch) + 1
    BY <1>0, <1>2, <1>3
  <2> QED
    BY <1>2, <1>3, <2>1
<1> QED
  BY <1>1, <1>2, <1>3, <1>4, <1>5, <1>6

LEMMA RrfIsSum ==
  ASSUME NEW vector, NEW lexical, NEW id
  PROVE  RrfScore(vector, lexical, id) = Credit(vector, id) + Credit(lexical, id)
BY DEF RrfScore, Credit

(* Fusion ranks a chunk higher that both branches rank higher, and one of  *)
(* both branches above one of a single branch that ranks it no better.     *)
THEOREM FusionIsFair ==
  ASSUME NEW Ids, NEW vector \in Seq(Ids), NEW lexical \in Seq(Ids),
         IsInjective(vector), IsInjective(lexical), Len(vector) <= MaxRank, Len(lexical) <= MaxRank
  PROVE  FusionIsMonotone(vector, lexical)
<1> DEFINE ids == Range(vector) \cup Range(lexical)
           vShare(id) == Credit(vector, id)
           lShare(id) == Credit(lexical, id)
           vRank(id) == RankIn(vector, id)
           lRank(id) == RankIn(lexical, id)
<1>1. \A id : RrfScore(vector, lexical, id) = vShare(id) + lShare(id)
  BY RrfIsSum
<1>2. \A id : vShare(id) \in Nat /\ lShare(id) \in Nat /\ vRank(id) \in Nat /\ lRank(id) \in Nat
  BY CreditCompares
<1>3. \A p, q : /\ vRank(p) < vRank(q) => vShare(p) > vShare(q)
                /\ vRank(p) = vRank(q) => vShare(p) = vShare(q)
                /\ lRank(p) < lRank(q) => lShare(p) > lShare(q)
                /\ lRank(p) = lRank(q) => lShare(p) = lShare(q)
  BY CreditCompares
<1>4. \A id : /\ Ranks(vector, id) # {} => vShare(id) > 0
              /\ Ranks(lexical, id) # {} => lShare(id) > 0
              /\ Ranks(vector, id) \subseteq 1..MaxRank /\ Ranks(lexical, id) \subseteq 1..MaxRank
  BY CreditCompares
<1>5. \A id : /\ Ranks(vector, id) = {} => vShare(id) = 0
              /\ Ranks(lexical, id) = {} => lShare(id) = 0
              /\ \A r \in Ranks(vector, id) : vShare(id) = Share(r)
              /\ \A r \in Ranks(lexical, id) : lShare(id) = Share(r)
  BY CreditIs
<1>6. \A id \in ids : Ranks(vector, id) # {} \/ Ranks(lexical, id) # {}
  BY DEF Range, Ranks
<1>7. ASSUME NEW a, NEW b, vRank(a) <= vRank(b), lRank(a) <= lRank(b), vRank(a) < vRank(b) \/ lRank(a) < lRank(b)
      PROVE  vShare(a) + lShare(a) > vShare(b) + lShare(b)
  <2>1. /\ vShare(a) \in Nat /\ vShare(b) \in Nat /\ lShare(a) \in Nat /\ lShare(b) \in Nat
        /\ vRank(a) \in Nat /\ vRank(b) \in Nat /\ lRank(a) \in Nat /\ lRank(b) \in Nat
    BY <1>2
  <2>2. /\ vRank(a) < vRank(b) => vShare(a) > vShare(b)
        /\ vRank(a) = vRank(b) => vShare(a) = vShare(b)
        /\ lRank(a) < lRank(b) => lShare(a) > lShare(b)
        /\ lRank(a) = lRank(b) => lShare(a) = lShare(b)
    BY <1>3
  <2>3. /\ vRank(a) = vRank(b) \/ vRank(a) < vRank(b)
        /\ lRank(a) = lRank(b) \/ lRank(a) < lRank(b)
    BY <1>7, <2>1
  <2> QED
    BY <1>7, <2>1, <2>2, <2>3
<1>8. \A p, q \in 1..MaxRank : p <= q => Share(p) >= Share(q) /\ Share(p) \in Nat /\ Share(q) \in Nat
  <2> SUFFICES ASSUME NEW j \in 1..MaxRank, NEW k \in 1..MaxRank, j <= k
               PROVE  Share(j) >= Share(k) /\ Share(j) \in Nat /\ Share(k) \in Nat
    OBVIOUS
  <2>1. j \in Nat \ {0} /\ k \in Nat \ {0}
    BY RankAssumption
  <2>2. Share(j) \in Nat /\ Share(k) \in Nat
    BY <2>1, ShareIsNat
  <2>3. j = k \/ j < k
    BY <2>1
  <2> QED
    BY <2>2, <2>3, ShareFalls
<1>9. ASSUME NEW a, NEW b \in ids, Ranks(vector, a) # {}, Ranks(lexical, a) # {},
             Ranks(vector, b) = {} \/ Ranks(lexical, b) = {},
             NEW j \in Ranks(vector, a) \cup Ranks(lexical, a),
             \A r \in Ranks(vector, b) \cup Ranks(lexical, b) : j <= r
      PROVE  vShare(a) + lShare(a) > vShare(b) + lShare(b)
  <2>1. PICK k \in Ranks(vector, b) \cup Ranks(lexical, b) : TRUE
    BY <1>6
  <2>2. j \in 1..MaxRank /\ k \in 1..MaxRank /\ j <= k
    BY <1>4, <1>9
  <2>3. Share(j) >= Share(k) /\ Share(j) \in Nat /\ Share(k) \in Nat
    BY <1>8, <2>2
  <2>4. vShare(b) + lShare(b) = Share(k)
    <3>1. CASE k \in Ranks(vector, b)
      <4>1. vShare(b) = Share(k) /\ lShare(b) = 0
        BY <1>5, <1>9, <3>1
      <4> QED
        BY <2>3, <4>1
    <3>2. CASE k \in Ranks(lexical, b)
      <4>1. lShare(b) = Share(k) /\ vShare(b) = 0
        BY <1>5, <1>9, <3>2
      <4> QED
        BY <2>3, <4>1
    <3> QED
      BY <3>1, <3>2
  <2>5. vShare(a) > 0 /\ lShare(a) > 0 /\ vShare(a) \in Nat /\ lShare(a) \in Nat
    BY <1>2, <1>4, <1>9
  <2>6. vShare(a) = Share(j) \/ lShare(a) = Share(j)
    BY <1>5
  <2> QED
    BY <2>3, <2>4, <2>5, <2>6
<1> SUFFICES ASSUME NEW a \in ids, NEW b \in ids,
                    \/ /\ vRank(a) <= vRank(b)
                       /\ lRank(a) <= lRank(b)
                       /\ vRank(a) < vRank(b) \/ lRank(a) < lRank(b)
                    \/ /\ Ranks(vector, a) # {}
                       /\ Ranks(lexical, a) # {}
                       /\ Ranks(vector, b) = {} \/ Ranks(lexical, b) = {}
                       /\ \E j \in Ranks(vector, a) \cup Ranks(lexical, a) :
                            \A k \in Ranks(vector, b) \cup Ranks(lexical, b) : j <= k
             PROVE  vShare(a) + lShare(a) > vShare(b) + lShare(b)
  BY <1>1 DEF FusionIsMonotone, RankIn
<1> HIDE DEF ids
<1>10. CASE /\ vRank(a) <= vRank(b)
            /\ lRank(a) <= lRank(b)
            /\ vRank(a) < vRank(b) \/ lRank(a) < lRank(b)
  BY <1>7, <1>10
<1>11. CASE /\ Ranks(vector, a) # {}
            /\ Ranks(lexical, a) # {}
            /\ Ranks(vector, b) = {} \/ Ranks(lexical, b) = {}
            /\ \E j \in Ranks(vector, a) \cup Ranks(lexical, a) :
                 \A k \in Ranks(vector, b) \cup Ranks(lexical, b) : j <= k
  BY <1>9, <1>11
<1> QED
  BY <1>10, <1>11

-----------------------------------------------------------------------------
(* A strict total order on the indexes 1..n, as a set of pairs.            *)
TotalOrder(R, n) ==
  /\ \A i \in 1..n : <<i, i>> \notin R
  /\ \A i, j \in 1..n : i # j => <<i, j>> \in R \/ <<j, i>> \in R
  /\ \A i, j, k \in 1..n : <<i, j>> \in R /\ <<j, k>> \in R => <<i, k>> \in R

Before(R, n, i) == {j \in 1..n : <<j, i>> \in R}

(* Each place of the order is that of one index: as many are before it.    *)
LEMMA PlacesOf ==
  ASSUME NEW n \in Nat, NEW R, TotalOrder(R, n)
  PROVE  /\ \A i \in 1..n : Cardinality(Before(R, n, i)) \in 0..(n - 1)
         /\ \A i, j \in 1..n : <<i, j>> \in R => Cardinality(Before(R, n, i)) < Cardinality(Before(R, n, j))
         /\ \A i, j \in 1..n : Cardinality(Before(R, n, i)) = Cardinality(Before(R, n, j)) => i = j
         /\ \A k \in 1..n : \E i \in 1..n : Cardinality(Before(R, n, i)) = k - 1
<1> DEFINE c(i) == Cardinality(Before(R, n, i))
           f == [i \in 1..n |-> c(i)]
<1>1. IsFiniteSet(1..n) /\ Cardinality(1..n) = n
  <2>1. 1 \in Int /\ n \in Int
    OBVIOUS
  <2>2. IsFiniteSet(1..n) /\ Cardinality(1..n) = IF 1 > n THEN 0 ELSE n - 1 + 1
    BY <2>1, FS_Interval
  <2> QED
    BY <2>2
<1>2. \A i \in 1..n : IsFiniteSet(Before(R, n, i)) /\ c(i) \in Nat
  <2> TAKE i \in 1..n
  <2>1. Before(R, n, i) \in SUBSET (1..n)
    BY DEF Before
  <2> QED
    BY <1>1, <2>1, FS_Subset, FS_CardinalityType
<1>3. ASSUME NEW i \in 1..n, NEW j \in 1..n, <<i, j>> \in R PROVE c(i) < c(j)
  <2>1. i \in Before(R, n, j) /\ i \notin Before(R, n, i)
    BY <1>3 DEF Before, TotalOrder
  <2>2. Before(R, n, i) \in SUBSET Before(R, n, j)
    BY <1>3 DEF Before, TotalOrder
  <2>3. c(i) <= c(j) /\ (c(j) = c(i) => Before(R, n, j) = Before(R, n, i))
    BY <1>2, <2>2, FS_Subset
  <2>4. c(i) \in Nat /\ c(j) \in Nat /\ c(i) # c(j)
    BY <1>2, <2>1, <2>3
  <2> HIDE DEF c
  <2> QED
    BY <2>3, <2>4
<1>4. \A i \in 1..n : c(i) \in 0..(n - 1)
  <2> TAKE i \in 1..n
  <2>1. Before(R, n, i) \in SUBSET (1..n) /\ i \notin Before(R, n, i)
    BY DEF Before, TotalOrder
  <2>2. c(i) <= n /\ (n = c(i) => 1..n = Before(R, n, i))
    BY <1>1, <2>1, FS_Subset
  <2>3. c(i) # n /\ c(i) \in Nat
    BY <1>2, <2>1, <2>2
  <2> HIDE DEF c
  <2> QED
    BY <2>2, <2>3
<1>5. \A i, j \in 1..n : c(i) = c(j) => i = j
  <2> TAKE i, j \in 1..n
  <2>1. c(i) \in Nat /\ c(j) \in Nat
    BY <1>2
  <2>2. i # j => c(i) < c(j) \/ c(j) < c(i)
    BY <1>3 DEF TotalOrder
  <2> QED
    BY <2>1, <2>2
<1>6. f \in Injection(1..n, 0..(n - 1))
  BY <1>4, <1>5 DEF Injection, IsInjective
<1>7. IsFiniteSet(0..(n - 1)) /\ Cardinality(0..(n - 1)) = n
  <2>1. 0 \in Int /\ n - 1 \in Int
    OBVIOUS
  <2>2. IsFiniteSet(0..(n - 1)) /\ Cardinality(0..(n - 1)) = IF 0 > n - 1 THEN 0 ELSE n - 1 - 0 + 1
    BY <2>1, FS_Interval
  <2> QED
    BY <2>2
<1> HIDE DEF f
<1>8. f \in Surjection(1..n, 0..(n - 1))
  BY <1>1, <1>6, <1>7, FS_Injection
<1>9. \A k \in 1..n : \E i \in 1..n : c(i) = k - 1
  <2> TAKE k \in 1..n
  <2>1. k - 1 \in 0..(n - 1)
    OBVIOUS
  <2>2. PICK i \in 1..n : f[i] = k - 1
    BY <1>8, <2>1 DEF Surjection
  <2> QED
    BY <2>2 DEF f
<1> QED
  BY <1>3, <1>4, <1>5, <1>9

(* Ranked chunks are the same chunks, the highest score first.             *)
LEMMA ByScoreIs ==
  ASSUME NEW Ids, NEW ids \in Seq(Ids), IsInjective(ids), NEW score, \A i \in 1..Len(ids) : score[ids[i]] \in Int
  PROVE  LET out == ByScore(ids, score) IN
         /\ out \in Seq(Ids) /\ Len(out) = Len(ids) /\ IsInjective(out) /\ Range(out) = Range(ids)
         /\ \A k, m \in 1..Len(ids) : k < m => score[out[k]] >= score[out[m]]
<1> DEFINE n == Len(ids)
           before(i, j) == score[ids[i]] > score[ids[j]] \/ (score[ids[i]] = score[ids[j]] /\ i < j)
           R == {x \in (1..n) \X (1..n) : before(x[1], x[2])}
           c(i) == Cardinality(Before(R, n, i))
           at(k) == CHOOSE i \in DOMAIN ids : Cardinality({j \in DOMAIN ids : before(j, i)}) = k - 1
           out == ByScore(ids, score)
<1>1. n \in Nat /\ DOMAIN ids = 1..n /\ \A i \in 1..n : ids[i] \in Ids
  OBVIOUS
<1>2. \A i, j \in 1..n : <<i, j>> \in R <=> before(i, j)
  OBVIOUS
<1>3. TotalOrder(R, n)
  <2> DEFINE v(i) == score[ids[i]]
  <2>1. \A i \in 1..n : v(i) \in Int /\ i \in Int
    OBVIOUS
  <2>2. \A i, j \in 1..n : <<i, j>> \in R <=> v(i) > v(j) \/ (v(i) = v(j) /\ i < j)
    BY <1>2
  <2> HIDE DEF R, v
  <2>3. \A i \in 1..n : <<i, i>> \notin R
    BY <2>1, <2>2
  <2>4. \A i, j \in 1..n : i # j => <<i, j>> \in R \/ <<j, i>> \in R
    BY <2>1, <2>2
  <2>5. \A i, j, k \in 1..n : <<i, j>> \in R /\ <<j, k>> \in R => <<i, k>> \in R
    <3> TAKE i, j, k \in 1..n
    <3>1. /\ v(i) \in Int /\ v(j) \in Int /\ v(k) \in Int
          /\ i \in Int /\ j \in Int /\ k \in Int
      BY <2>1
    <3>2. /\ <<i, j>> \in R <=> v(i) > v(j) \/ (v(i) = v(j) /\ i < j)
          /\ <<j, k>> \in R <=> v(j) > v(k) \/ (v(j) = v(k) /\ j < k)
          /\ <<i, k>> \in R <=> v(i) > v(k) \/ (v(i) = v(k) /\ i < k)
      BY <2>2
    <3>3. ASSUME NEW a \in Int, NEW b \in Int, NEW d \in Int, NEW x \in Int, NEW y \in Int, NEW z \in Int,
                 a > b \/ (a = b /\ x < y), b > d \/ (b = d /\ y < z)
          PROVE  a > d \/ (a = d /\ x < z)
      BY <3>3
    <3> QED
      BY <3>1, <3>2, <3>3
  <2> QED
    BY <2>3, <2>4, <2>5 DEF TotalOrder
<1>4. \A i \in 1..n : {j \in DOMAIN ids : before(j, i)} = Before(R, n, i)
  BY <1>1 DEF Before
<1>5. out = [k \in 1..n |-> ids[at(k)]]
  BY DEF ByScore
<1> HIDE DEF R, out, n
<1>6. /\ \A i, j \in 1..n : <<i, j>> \in R => c(i) < c(j)
      /\ \A i, j \in 1..n : c(i) = c(j) => i = j
      /\ \A k \in 1..n : \E i \in 1..n : c(i) = k - 1
      /\ \A i \in 1..n : c(i) \in 0..(n - 1)
  BY <1>1, <1>3, PlacesOf
<1>7. ASSUME NEW k \in 1..n PROVE at(k) \in 1..n /\ c(at(k)) = k - 1
  <2>1. PICK i \in 1..n : c(i) = k - 1
    BY <1>6
  <2>2. \E p \in DOMAIN ids : Cardinality({j \in DOMAIN ids : before(j, p)}) = k - 1
    BY <1>1, <1>4, <2>1
  <2>3. at(k) \in DOMAIN ids /\ Cardinality({j \in DOMAIN ids : before(j, at(k))}) = k - 1
    BY <2>2
  <2> QED
    BY <1>1, <1>4, <2>3
<1> HIDE DEF c
<1> HIDE DEF at
<1>8. \A i \in 1..n : \E k \in 1..n : at(k) = i
  <2> TAKE i \in 1..n
  <2>1. c(i) \in 0..(n - 1)
    BY <1>6
  <2>2. c(i) + 1 \in 1..n /\ (c(i) + 1) - 1 = c(i)
    BY <1>1, <2>1
  <2>3. at(c(i) + 1) \in 1..n /\ c(at(c(i) + 1)) = (c(i) + 1) - 1
    BY <1>7, <2>2
  <2>4. at(c(i) + 1) = i
    BY <1>6, <2>2, <2>3
  <2> QED
    BY <2>2, <2>4
<1>9. \A k, m \in 1..n : at(k) = at(m) => k = m
  <2> TAKE k, m \in 1..n
  <2>1. c(at(k)) = k - 1 /\ c(at(m)) = m - 1
    BY <1>7
  <2>2. k - 1 = m - 1 => k = m
    BY <1>1
  <2> QED
    BY <2>1, <2>2
<1>10. \A k \in 1..n : out[k] = ids[at(k)] /\ out[k] \in Ids
  BY <1>1, <1>5, <1>7
<1>11. out \in Seq(Ids) /\ Len(out) = n
  BY <1>1, <1>5, <1>10
<1>12. IsInjective(out)
  <2> SUFFICES ASSUME NEW k \in 1..n, NEW m \in 1..n, out[k] = out[m] PROVE k = m
    BY <1>5 DEF IsInjective
  <2>1. ids[at(k)] = ids[at(m)] /\ at(k) \in DOMAIN ids /\ at(m) \in DOMAIN ids
    BY <1>1, <1>7, <1>10
  <2>2. at(k) = at(m)
    BY <2>1 DEF IsInjective
  <2> QED
    BY <1>9, <2>2
<1>13. Range(out) = Range(ids)
  <2>1. DOMAIN out = 1..n
    BY <1>5
  <2>2. ASSUME NEW k \in 1..n PROVE out[k] \in Range(ids)
    BY <1>1, <1>7, <1>10 DEF Range
  <2>3. ASSUME NEW i \in 1..n PROVE ids[i] \in Range(out)
    <3>1. PICK k \in 1..n : at(k) = i
      BY <1>8
    <3> QED
      BY <1>10, <2>1, <3>1 DEF Range
  <2> QED
    BY <1>1, <2>1, <2>2, <2>3 DEF Range
<1>14. \A k, m \in 1..n : k < m => score[out[k]] >= score[out[m]]
  <2> SUFFICES ASSUME NEW k \in 1..n, NEW m \in 1..n, k < m, ~(score[out[k]] >= score[out[m]]) PROVE FALSE
    OBVIOUS
  <2> DEFINE i == at(k)
             j == at(m)
  <2>1. i \in 1..n /\ j \in 1..n /\ c(i) = k - 1 /\ c(j) = m - 1
    BY <1>7
  <2>2. out[k] = ids[i] /\ out[m] = ids[j]
    BY <1>10
  <2> HIDE DEF i, j
  <2>3. score[ids[i]] \in Int /\ score[ids[j]] \in Int
    BY <2>1 DEF n
  <2>4. before(j, i)
    BY <2>2, <2>3
  <2>5. c(j) < c(i)
    BY <1>2, <1>6, <2>1, <2>4
  <2>6. m - 1 < k - 1
    BY <2>1, <2>5
  <2> QED
    BY <1>1, <2>6
<1> QED
  BY <1>11, <1>12, <1>13, <1>14 DEF out, n

-----------------------------------------------------------------------------
(* A new element behind a sequence without duplicates.                     *)
LEMMA AppendNew ==
  ASSUME NEW Ids, NEW q \in Seq(Ids), IsInjective(q), NEW x \in Ids, x \notin Range(q)
  PROVE  /\ Append(q, x) \in Seq(Ids) /\ Len(Append(q, x)) = Len(q) + 1
         /\ \A k \in 1..Len(q) : Append(q, x)[k] = q[k]
         /\ IsInjective(Append(q, x)) /\ Range(Append(q, x)) = Range(q) \cup {x}
<1> DEFINE n == Len(q)
           r == Append(q, x)
<1>1. n \in Nat /\ DOMAIN q = 1..n /\ DOMAIN r = 1..(n + 1)
  OBVIOUS
<1>2. r \in Seq(Ids) /\ Len(r) = n + 1 /\ r[n + 1] = x /\ \A k \in 1..n : r[k] = q[k]
  OBVIOUS
<1>3. \A k \in 1..n : q[k] \in Range(q)
  BY <1>1 DEF Range
<1> HIDE DEF n, r
<1>4. \A k \in 1..(n + 1) : k = n + 1 \/ k \in 1..n
  BY <1>1
<1>5. 1..n \subseteq 1..(n + 1) /\ n + 1 \in 1..(n + 1)
  BY <1>1
<1>6. IsInjective(r)
  <2> SUFFICES ASSUME NEW k \in 1..(n + 1), NEW m \in 1..(n + 1), r[k] = r[m] PROVE k = m
    BY <1>1 DEF IsInjective
  <2>1. CASE k \in 1..n /\ m \in 1..n
    BY <1>1, <1>2, <2>1 DEF IsInjective
  <2> QED
    BY <1>2, <1>3, <1>4, <2>1
<1>7. Range(r) = Range(q) \cup {x}
  BY <1>1, <1>2, <1>4, <1>5 DEF Range
<1> QED
  BY <1>2, <1>6, <1>7 DEF n, r

(* What is in two sequences one behind the other.                          *)
LEMMA ConcatRange ==
  ASSUME NEW Ids, NEW s \in Seq(Ids), NEW t \in Seq(Ids)
  PROVE  /\ Range(s \o t) = Range(s) \cup Range(t)
         /\ IsInjective(s) /\ IsInjective(t) /\ Range(s) \cap Range(t) = {} => IsInjective(s \o t)
<1> DEFINE all == s \o t
           n == Len(all)
<1>1. all \in Seq(Ids) /\ n \in Nat /\ DOMAIN all = 1..n
  OBVIOUS
<1>2. Len(s) \in Nat /\ Len(t) \in Nat /\ n = Len(s) + Len(t)
  OBVIOUS
<1>3. \A i \in 1..Len(s) : i \in 1..n /\ all[i] = s[i]
  OBVIOUS
<1>4. \A i \in 1..Len(t) : Len(s) + i \in 1..n /\ all[Len(s) + i] = t[i]
  OBVIOUS
<1>5. \A i \in 1..n : i \in 1..Len(s) \/ (i - Len(s) \in 1..Len(t) /\ Len(s) + (i - Len(s)) = i)
  BY <1>2
<1>6. DOMAIN s = 1..Len(s) /\ DOMAIN t = 1..Len(t)
  OBVIOUS
<1> HIDE DEF all, n
<1>7. ASSUME NEW i \in 1..n PROVE all[i] \in Range(s) \cup Range(t)
  BY <1>3, <1>4, <1>5, <1>6 DEF Range
<1>8. ASSUME NEW i \in 1..Len(s) PROVE s[i] \in Range(all)
  BY <1>1, <1>3 DEF Range
<1>9. ASSUME NEW i \in 1..Len(t) PROVE t[i] \in Range(all)
  BY <1>1, <1>4 DEF Range
<1>10. Range(all) \subseteq Range(s) \cup Range(t)
  BY <1>1, <1>7 DEF Range
<1>11. Range(s) \subseteq Range(all) /\ Range(t) \subseteq Range(all)
  BY <1>6, <1>8, <1>9 DEF Range
<1>12. ASSUME IsInjective(s), IsInjective(t), Range(s) \cap Range(t) = {},
              NEW i \in 1..n, NEW j \in 1..n, all[i] = all[j]
       PROVE  i = j
  <2> DEFINE p == i - Len(s)
             q == j - Len(s)
  <2>1. CASE i \in 1..Len(s) /\ j \in 1..Len(s)
    BY <1>3, <1>6, <1>12, <2>1 DEF IsInjective
  <2>2. CASE i \in 1..Len(s) /\ j \notin 1..Len(s)
    <3>1. q \in 1..Len(t) /\ Len(s) + q = j
      BY <1>5, <2>2
    <3> HIDE DEF q
    <3>2. s[i] = t[q]
      BY <1>3, <1>4, <1>12, <2>2, <3>1
    <3> QED
      BY <1>6, <1>12, <2>2, <3>1, <3>2 DEF Range
  <2>3. CASE i \notin 1..Len(s) /\ j \in 1..Len(s)
    <3>1. p \in 1..Len(t) /\ Len(s) + p = i
      BY <1>5, <2>3
    <3> HIDE DEF p
    <3>2. s[j] = t[p]
      BY <1>3, <1>4, <1>12, <2>3, <3>1
    <3> QED
      BY <1>6, <1>12, <2>3, <3>1, <3>2 DEF Range
  <2>4. CASE i \notin 1..Len(s) /\ j \notin 1..Len(s)
    <3>1. p \in 1..Len(t) /\ Len(s) + p = i /\ q \in 1..Len(t) /\ Len(s) + q = j
      BY <1>5, <2>4
    <3> HIDE DEF p, q
    <3>2. t[p] = t[q]
      BY <1>4, <1>12, <3>1
    <3>3. p = q
      BY <1>6, <1>12, <3>1, <3>2 DEF IsInjective
    <3> QED
      BY <3>1, <3>3
  <2> QED
    BY <2>1, <2>2, <2>3, <2>4
<1>13. IsInjective(s) /\ IsInjective(t) /\ Range(s) \cap Range(t) = {} => IsInjective(all)
  BY <1>1, <1>12 DEF IsInjective
<1> QED
  BY <1>10, <1>11, <1>13 DEF all

(* The chunks of both branches, each once.                                 *)
LEMMA UniqueIdsAre ==
  ASSUME NEW Ids, NEW vector \in Seq(Ids), NEW lexical \in Seq(Ids)
  PROVE  LET u == UniqueIds(vector, lexical) IN
         u \in Seq(Ids) /\ IsInjective(u) /\ Range(u) = Range(vector) \cup Range(lexical)
<1> DEFINE all == vector \o lexical
           n == Len(all)
           e(ids, id) == IF Contains(ids, id) THEN ids ELSE Append(ids, id)
           Is(F) == F = [t \in SUBSET (1..n) |-> IF t = {} THEN <<>> ELSE e(F[t \ {Max(t)}], all[Max(t)])]
           C == CHOOSE F : Is(F)
           g == [x \in Seq(Ids) \X (1..n) |-> e(x[1], all[x[2]])]
<1>1. all \in Seq(Ids) /\ n \in Nat /\ DOMAIN all = 1..n /\ \A i \in 1..n : all[i] \in Ids
  OBVIOUS
<1>2. UniqueIds(vector, lexical) = C[1..n]
  BY <1>1 DEF UniqueIds, FoldLeft, MapThenFoldSet
<1>3. Range(all) = Range(vector) \cup Range(lexical)
  BY ConcatRange
<1> HIDE DEF all, n
<1>4. \A s \in Seq(Ids), k \in 1..n : e(s, all[k]) \in Seq(Ids)
  BY <1>1
<1>5. g \in [Seq(Ids) \X (1..n) -> Seq(Ids)]
  BY <1>4
<1>6. \A s \in Seq(Ids), k \in 1..n : g[<<s, k>>] = e(s, all[k])
  OBVIOUS
<1> HIDE DEF e, g
<1>7. PICK it : IsFold(Seq(Ids), <<>>, n, g, it)
  <2>1. <<>> \in Seq(Ids)
    OBVIOUS
  <2> QED
    BY <1>1, <1>5, <2>1, FoldExists
<1>8. Is(it)
  <2>1. ASSUME NEW t \in SUBSET (1..n), t # {}
        PROVE  g[<<it[t \ {Max(t)}], Max(t)>>] = e(it[t \ {Max(t)}], all[Max(t)])
    <3>1. Max(t) \in 1..n /\ it[t \ {Max(t)}] \in Seq(Ids)
      BY <1>1, <1>7, <2>1, MaxIs DEF IsFold
    <3> QED
      BY <1>6, <3>1
  <2> QED
    BY <1>7, <2>1 DEF IsFold
<1>9. Is(C)
  BY <1>8
<1> HIDE DEF C
<1>10. C[1..0] = <<>> /\ \A i \in 1..n : C[1..i] = e(C[1..(i - 1)], all[i])
  <2>1. 1..0 = {} /\ {} \in SUBSET (1..n)
    OBVIOUS
  <2>2. ASSUME NEW i \in 1..n PROVE C[1..i] = e(C[1..(i - 1)], all[i])
    <3>1. 1..i \in SUBSET (1..n) /\ 1..i # {} /\ Max(1..i) = i /\ (1..i) \ {i} = 1..(i - 1)
      BY <1>1, LastOfFirst
    <3>2. C[1..i] = e(C[(1..i) \ {Max(1..i)}], all[Max(1..i)])
      BY <1>9, <3>1
    <3> QED
      BY <3>1, <3>2
  <2> QED
    BY <1>9, <2>1, <2>2
<1> DEFINE Good(i) == /\ C[1..i] \in Seq(Ids) /\ IsInjective(C[1..i])
                      /\ Range(C[1..i]) = {all[k] : k \in 1..i}
           T == {i \in Nat : i <= n => Good(i)}
<1>11. 0 \in T
  <2>1. <<>> \in Seq(Ids) /\ IsInjective(<<>>) /\ Range(<<>>) = {}
    BY DEF IsInjective, Range
  <2>2. {all[k] : k \in 1..0} = {}
    OBVIOUS
  <2> QED
    BY <1>10, <2>1, <2>2
<1>12. ASSUME NEW i \in T PROVE i + 1 \in T
  <2> SUFFICES ASSUME i + 1 <= n PROVE Good(i + 1)
    OBVIOUS
  <2>1. i + 1 \in 1..n /\ (i + 1) - 1 = i /\ i <= n /\ i \in Nat
    BY <1>1
  <2>2. Good(i)
    BY <2>1
  <2> DEFINE q == C[1..i]
             x == all[i + 1]
  <2>3. C[1..(i + 1)] = e(C[1..((i + 1) - 1)], x)
    BY <1>10, <2>1
  <2>4. C[1..(i + 1)] = IF Contains(q, x) THEN q ELSE Append(q, x)
    BY <2>1, <2>3 DEF e
  <2>5. {all[k] : k \in 1..(i + 1)} = {all[k] : k \in 1..i} \cup {x}
    <3>1. \A k : k \in 1..(i + 1) <=> k \in 1..i \/ k = i + 1
      BY <2>1
    <3> QED
      BY <3>1
  <2>6. x \in Ids
    BY <1>1, <2>1
  <2> HIDE DEF x
  <2>7. Contains(q, x) <=> x \in Range(q)
    <3>1. DOMAIN q = 1..Len(q)
      BY <2>2
    <3> QED
      BY <3>1 DEF Contains, Range
  <2>8. CASE Contains(q, x)
    BY <2>2, <2>4, <2>5, <2>7, <2>8
  <2>9. CASE ~Contains(q, x)
    <3>1. C[1..(i + 1)] = Append(q, x)
      BY <2>4, <2>9
    <3> HIDE DEF q
    <3>2. q \in Seq(Ids) /\ IsInjective(q) /\ Range(q) = {all[k] : k \in 1..i}
      BY <2>2 DEF q
    <3>3. Append(q, x) \in Seq(Ids) /\ IsInjective(Append(q, x)) /\ Range(Append(q, x)) = Range(q) \cup {x}
      BY <2>6, <2>7, <2>9, <3>2, AppendNew
    <3> QED
      BY <2>5, <3>1, <3>2, <3>3
  <2> QED
    BY <2>8, <2>9
<1> HIDE DEF T
<1>13. T = Nat
  BY <1>11, <1>12, NatInd DEF T
<1>14. Good(n)
  <2>1. n \in Nat /\ n <= n
    BY <1>1
  <2> HIDE DEF Good
  <2> QED
    BY <1>13, <2>1 DEF T
<1>15. {all[k] : k \in 1..n} = Range(all)
  BY <1>1 DEF Range
<1> DEFINE res == C[1..n]
<1>16. res \in Seq(Ids) /\ IsInjective(res) /\ Range(res) = Range(all)
  BY <1>14, <1>15
<1> HIDE DEF res
<1>17. UniqueIds(vector, lexical) = res
  BY <1>2 DEF res
<1> QED
  BY <1>3, <1>16, <1>17, Zenon

(* A sequence without duplicates has as many elements as places.           *)
LEMMA RangeSize ==
  ASSUME NEW Ids, NEW q \in Seq(Ids), IsInjective(q)
  PROVE  IsFiniteSet(Range(q)) /\ Cardinality(Range(q)) = Len(q)
<1> DEFINE n == Len(q)
<1>1. n \in Nat /\ DOMAIN q = 1..n /\ q = [k \in 1..n |-> q[k]]
  OBVIOUS
<1>2. q \in Injection(1..n, Range(q)) /\ q \in Surjection(1..n, Range(q))
  BY <1>1 DEF Injection, Surjection, IsInjective, Range
<1>3. IsFiniteSet(1..n) /\ Cardinality(1..n) = n
  <2>1. 1 \in Int /\ n \in Int
    OBVIOUS
  <2>2. IsFiniteSet(1..n) /\ Cardinality(1..n) = IF 1 > n THEN 0 ELSE n - 1 + 1
    BY <2>1, FS_Interval
  <2> QED
    BY <2>2
<1> HIDE DEF n
<1>4. IsFiniteSet(Range(q)) /\ Cardinality(Range(q)) = Cardinality(1..n)
  BY <1>2, <1>3, FS_Surjection
<1> QED
  BY <1>3, <1>4 DEF n

(* A boost is a number, whatever a chunk's metadata.                       *)
LEMMA BoostIsInt ==
  ASSUME NEW meta, NEW terms, IsFiniteSet(terms), meta.inbound \in Nat
  PROVE  Boost(meta, terms) \in Int
<1> DEFINE R == ComputeMatchReasons(meta, terms)
           four == {"symbol_match", "exported", "import_match", "call_match"}
<1>1. IsFiniteSet(four \cup terms)
  <2>1. IsFiniteSet(terms \cup {"symbol_match"} \cup {"exported"} \cup {"import_match"} \cup {"call_match"})
    <3>1. IsFiniteSet(terms \cup {"symbol_match"})
      BY FS_AddElement
    <3>2. IsFiniteSet(terms \cup {"symbol_match"} \cup {"exported"})
      BY <3>1, FS_AddElement
    <3>3. IsFiniteSet(terms \cup {"symbol_match"} \cup {"exported"} \cup {"import_match"})
      BY <3>2, FS_AddElement
    <3> QED
      BY <3>3, FS_AddElement
  <2>2. four \cup terms = terms \cup {"symbol_match"} \cup {"exported"} \cup {"import_match"} \cup {"call_match"}
    OBVIOUS
  <2> QED
    BY <2>1, <2>2
<1>2. R \in SUBSET (four \cup terms)
  BY DEF ComputeMatchReasons
<1>3. Cardinality(R) \in Nat
  BY <1>1, <1>2, FS_Subset, FS_CardinalityType
<1> HIDE DEF R
<1>4. Weight.reason \in Nat /\ Weight.authority \in Nat /\ Weight.definition \in Nat /\ Weight.derivative \in Nat
  BY WeightAssumption
<1> DEFINE c == Cardinality(R)
           d == IF meta.headings \cap terms # {} THEN Weight.definition ELSE 0
           f == IF meta.derivative THEN Weight.derivative ELSE 0
           x == c * Weight.reason
           y == meta.inbound * Weight.authority
<1>5. d \in Nat /\ f \in Nat /\ x \in Nat /\ y \in Nat
  BY <1>3, <1>4
<1>6. Boost(meta, terms) = x + y + d - f
  BY DEF Boost, R
<1> HIDE DEF d, f, x, y
<1> QED
  BY <1>5, <1>6

(* Of all candidates the results are the best, boosts included.            *)
THEOREM BestAreKept ==
  ASSUME NEW Ids, NEW vector \in Seq(Ids), NEW lexical \in Seq(Ids), IsInjective(vector), IsInjective(lexical),
         NEW terms, IsFiniteSet(terms), NEW metas, \A id \in Ids : metas[id].inbound \in Nat, NEW limit \in Nat
  PROVE  CutKeepsTheBest(vector, lexical, metas, terms, limit, Search(vector, lexical, metas, terms, limit))
<1> DEFINE ids == UniqueIds(vector, lexical)
           all == Range(vector) \cup Range(lexical)
           base == [id \in Range(ids) |-> RrfScore(vector, lexical, id)]
           score == [id \in Range(ids) |-> base[id] + Boost(metas[id], terms)]
           best == [id \in all |-> RrfScore(vector, lexical, id) + Boost(metas[id], terms)]
           fused == ByScore(ids, base)
           sorted == ByScore(fused, score)
           n == Len(ids)
           m == IF n < limit THEN n ELSE limit
           out == SubSeq(sorted, 1, m)
<1>1. Search(vector, lexical, metas, terms, limit) = out
  BY DEF Search
<1>2. ids \in Seq(Ids) /\ IsInjective(ids) /\ Range(ids) = all
  BY UniqueIdsAre
<1>3. n \in Nat /\ n = Cardinality(all)
  <2> HIDE DEF ids, all
  <2>1. IsFiniteSet(Range(ids)) /\ Cardinality(Range(ids)) = Len(ids) /\ Len(ids) \in Nat
    BY <1>2, RangeSize
  <2> QED
    BY <1>2, <2>1
<1>4. \A id \in all : RrfScore(vector, lexical, id) \in Int /\ Boost(metas[id], terms) \in Int
  <2> TAKE id \in all
  <2>1. \A b \in {vector, lexical} : Credit(b, id) \in Nat
    <3> TAKE b \in {vector, lexical}
    <3>1. CASE Ranks(b, id) = {}
      BY <3>1, CreditIs
    <3>2. CASE Ranks(b, id) # {}
      <4>1. PICK k \in Ranks(b, id) : TRUE
        BY <3>2
      <4>2. k \in Nat \ {0}
        BY <4>1 DEF Ranks
      <4> QED
        BY <4>1, <4>2, CreditIs, ShareIsNat
    <3> QED
      BY <3>1, <3>2
  <2>2. RrfScore(vector, lexical, id) \in Int
    BY <2>1, RrfIsSum
  <2>3. all \subseteq Ids
    BY DEF Range
  <2>4. metas[id].inbound \in Nat
    BY <2>3
  <2> QED
    BY <2>2, <2>4, BoostIsInt
<1>5. \A id \in all : base[id] = RrfScore(vector, lexical, id) /\ score[id] = best[id] /\ score[id] \in Int
  BY <1>2, <1>4
<1> HIDE DEF ids, all, base, score, n
<1>6. \A q : q \in Seq(Ids) /\ Range(q) = all => \A i \in 1..Len(q) : q[i] \in all
  BY DEF Range
<1>7. fused \in Seq(Ids) /\ Len(fused) = n /\ IsInjective(fused) /\ Range(fused) = all
  <2>1. \A i \in 1..Len(ids) : base[ids[i]] \in Int
    BY <1>2, <1>4, <1>5, <1>6
  <2> QED
    BY <1>2, <2>1, ByScoreIs DEF n
<1> HIDE DEF fused
<1>8. /\ sorted \in Seq(Ids) /\ Len(sorted) = n /\ IsInjective(sorted) /\ Range(sorted) = all
      /\ \A k, j \in 1..n : k < j => score[sorted[k]] >= score[sorted[j]]
  <2>1. \A i \in 1..Len(fused) : score[fused[i]] \in Int
    BY <1>5, <1>6, <1>7
  <2> QED
    BY <1>7, <2>1, ByScoreIs
<1> HIDE DEF sorted
<1>9. m \in Nat /\ m <= n
  BY <1>3
<1> HIDE DEF m
<1>10. out \in Seq(Ids) /\ Len(out) = m /\ DOMAIN out = 1..m /\ \A k \in 1..m : out[k] = sorted[k]
  <2>1. Len(sorted) = n /\ \A k \in 1..m : k \in 1..n
    BY <1>3, <1>8, <1>9
  <2> QED
    BY <1>3, <1>8, <1>9, <2>1
<1> HIDE DEF out
<1>11. \A k \in 1..m : k \in 1..n /\ k \in DOMAIN sorted
  BY <1>3, <1>8, <1>9
<1>12. IsInjective(out)
  <2> SUFFICES ASSUME NEW k \in 1..m, NEW j \in 1..m, out[k] = out[j] PROVE k = j
    BY <1>10 DEF IsInjective
  <2>1. sorted[k] = sorted[j]
    BY <1>10
  <2> QED
    BY <1>8, <1>11, <2>1 DEF IsInjective
<1>13. Range(out) \subseteq all
  BY <1>6, <1>8, <1>10, <1>11 DEF Range
<1>14. ASSUME NEW i \in 1..m, NEW id \in all, best[id] > best[out[i]]
       PROVE  \E j \in 1..(i - 1) : out[j] = id
  <2>1. PICK j \in 1..n : sorted[j] = id
    <3>1. DOMAIN sorted = 1..n
      BY <1>8
    <3> QED
      BY <1>8, <3>1 DEF Range
  <2>2. out[i] = sorted[i] /\ i \in 1..n /\ sorted[i] \in all
    BY <1>6, <1>8, <1>10, <1>11
  <2>3. score[sorted[j]] > score[sorted[i]] /\ score[sorted[j]] \in Int /\ score[sorted[i]] \in Int
    BY <1>5, <1>14, <2>1, <2>2
  <2>4. ~(i < j)
    BY <1>8, <2>2, <2>3
  <2>5. i # j
    BY <2>3
  <2>6. j \in 1..(i - 1) /\ j \in 1..m
    BY <1>3, <1>9, <2>2, <2>4, <2>5
  <2> QED
    BY <1>10, <2>1, <2>6
<1>15. Len(out) = IF Cardinality(all) < limit THEN Cardinality(all) ELSE limit
  BY <1>3, <1>10 DEF m
<1> HIDE DEF best, all
<1>16. \A i \in DOMAIN out, id \in all : best[id] > best[out[i]] => \E j \in 1..(i - 1) : out[j] = id
  BY <1>10, <1>14
<1>17. CutKeepsTheBest(vector, lexical, metas, terms, limit, out)
  BY <1>12, <1>13, <1>15, <1>16, Zenon DEF CutKeepsTheBest, best, all
<1> QED
  BY <1>1, <1>17

-----------------------------------------------------------------------------
(* A sequence of sequences, one behind the other, has what is in them.     *)
LEMMA FlattenIs ==
  ASSUME NEW Ids, NEW ss \in Seq(Seq(Ids))
  PROVE  /\ FlattenSeq(ss) \in Seq(Ids)
         /\ \A k \in 1..Len(ss) : Range(ss[k]) \subseteq Range(FlattenSeq(ss))
<1> DEFINE n == Len(ss)
           Is(F) == F = [i \in 1..n |-> IF i = 1 THEN ss[i] ELSE F[i - 1] \o ss[i]]
           C == CHOOSE F : Is(F)
           g == [x \in Nat \X Seq(Ids) |-> IF x[1] \in 1..n THEN x[2] \o ss[x[1]] ELSE <<>>]
<1>1. n \in Nat /\ \A i \in 1..n : ss[i] \in Seq(Ids)
  OBVIOUS
<1>2. <<>> \in Seq(Ids) /\ \A q, r \in Seq(Ids) : q \o r \in Seq(Ids)
  OBVIOUS
<1>3. \A q \in Seq(Ids) : <<>> \o q = q
  OBVIOUS
<1> HIDE DEF n
<1>4. g \in [Nat \X Seq(Ids) -> Seq(Ids)]
  BY <1>1, <1>2
<1>5. \A i \in 1..n, q \in Seq(Ids) : g[<<i, q>>] = q \o ss[i]
  <2> TAKE i \in 1..n, q \in Seq(Ids)
  <2>1. <<i, q>> \in Nat \X Seq(Ids) /\ <<i, q>>[1] = i /\ <<i, q>>[2] = q
    BY <1>1
  <2> QED
    BY <2>1
<1> HIDE DEF g
<1>6. PICK G : IsRec(Seq(Ids), <<>>, g, n, G)
  BY <1>1, <1>2, <1>4, RecExists
<1>7. \A i \in 0..n : G[i] \in Seq(Ids)
  BY <1>6 DEF IsRec
<1>8. G[0] = <<>>
  <2>1. 0 \in 0..n
    BY <1>1
  <2> QED
    BY <1>6, <2>1 DEF IsRec
<1>9. \A i \in 1..n : G[i] = G[i - 1] \o ss[i]
  <2> TAKE i \in 1..n
  <2>1. i \in 0..n /\ i # 0 /\ i - 1 \in 0..n
    BY <1>1
  <2>2. G[i] = g[<<i, G[i - 1]>>]
    BY <1>6, <2>1 DEF IsRec
  <2> QED
    BY <1>5, <1>7, <2>1, <2>2
<1> DEFINE F0 == [i \in 1..n |-> G[i]]
<1>10. Is(F0)
  <2>1. ASSUME NEW i \in 1..n PROVE F0[i] = IF i = 1 THEN ss[i] ELSE F0[i - 1] \o ss[i]
    <3>1. CASE i = 1
      <4>1. i - 1 = 0 /\ F0[i] = G[i] /\ G[i] = G[i - 1] \o ss[i] /\ ss[i] \in Seq(Ids)
        <5>1. F0[i] = G[i]
          OBVIOUS
        <5>2. G[i] = G[i - 1] \o ss[i] /\ ss[i] \in Seq(Ids)
          BY <1>1, <1>9
        <5>3. i - 1 = 0
          BY <3>1
        <5> HIDE DEF F0
        <5> QED
          BY <5>1, <5>2, <5>3
      <4>2. G[i - 1] = <<>>
        BY <1>8, <4>1
      <4> HIDE DEF F0
      <4> QED
        BY <1>3, <3>1, <4>1, <4>2
    <3>2. CASE i # 1
      <4>1. i - 1 \in 1..n
        BY <1>1, <3>2
      <4>2. F0[i] = G[i] /\ F0[i - 1] = G[i - 1]
        BY <4>1
      <4> HIDE DEF F0
      <4> QED
        BY <1>9, <3>2, <4>2
    <3> QED
      BY <3>1, <3>2
  <2>2. F0 = [i \in 1..n |-> F0[i]]
    BY Zenon
  <2> HIDE DEF F0
  <2> QED
    BY <2>1, <2>2
<1>11. Is(C)
  BY <1>10, Zenon
<1> HIDE DEF C, F0
<1>12. CASE n = 0
  <2>1. FlattenSeq(ss) = <<>> /\ ss = <<>>
    BY <1>12 DEF FlattenSeq, n
  <2> QED
    BY <1>2, <1>12, <2>1 DEF n
<1>13. CASE n # 0
  <2>1. FlattenSeq(ss) = C[n]
    BY <1>13 DEF FlattenSeq, n, C
  <2> DEFINE Good(i) == C[i] \in Seq(Ids) /\ \A k \in 1..i : Range(ss[k]) \subseteq Range(C[i])
             T == {i \in Nat : i + 1 <= n => Good(i + 1)}
  <2>2. 0 \in T
    <3>1. 1 \in 1..n /\ 0 + 1 = 1
      BY <1>1, <1>13
    <3>2. C[1] = ss[1]
      BY <1>11, <3>1
    <3>3. \A k \in 1..1 : k = 1
      OBVIOUS
    <3> QED
      BY <1>1, <3>1, <3>2, <3>3
  <2>3. ASSUME NEW j \in T PROVE j + 1 \in T
    <3> DEFINE i == j + 1
    <3> SUFFICES ASSUME i + 1 <= n PROVE Good(i + 1)
      OBVIOUS
    <3>1. i \in Nat /\ i <= n /\ i + 1 \in 1..n /\ i + 1 # 1 /\ (i + 1) - 1 = i
      BY <1>1
    <3>2. Good(i)
      BY <3>1
    <3> HIDE DEF i
    <3>3. C[i + 1] = C[i] \o ss[i + 1]
      BY <1>11, <3>1
    <3>4. C[i] \in Seq(Ids) /\ ss[i + 1] \in Seq(Ids)
      BY <1>1, <3>1, <3>2
    <3>5. C[i + 1] \in Seq(Ids) /\ Range(C[i + 1]) = Range(C[i]) \cup Range(ss[i + 1])
      BY <1>2, <3>3, <3>4, ConcatRange
    <3>6. \A k \in 1..(i + 1) : k = i + 1 \/ k \in 1..i
      BY <3>1
    <3> QED
      BY <3>2, <3>5, <3>6
  <2> HIDE DEF T
  <2>4. T = Nat
    BY <2>2, <2>3, NatInd DEF T
  <2>5. n - 1 \in T /\ (n - 1) + 1 = n
    BY <1>1, <1>13, <2>4
  <2>6. Good(n)
    <3>1. (n - 1) + 1 <= n => Good((n - 1) + 1)
      BY <2>5 DEF T
    <3> HIDE DEF Good
    <3> QED
      BY <1>1, <2>5, <3>1
  <2> QED
    BY <2>1, <2>6 DEF n
<1> QED
  BY <1>12, <1>13

(* The expansion adds chunks of the users, none twice, up to the cap, and  *)
(* stops short of it only when nothing is left.                            *)
THEOREM ExpansionStaysBounded ==
  ASSUME NEW Ids, NEW originals \in Seq(Ids), IsInjective(originals), NEW cap \in Nat,
         NEW usersOf, \A id \in Ids : usersOf[id] \in Seq(Ids)
  PROVE  ExpansionIsBounded(originals, usersOf, cap, ExpandCoverage(originals, usersOf, cap))
<1> DEFINE users == [k \in 1..Len(originals) |-> usersOf[originals[k]]]
           all == FlattenSeq(users)
           n == Len(all)
           e(ex, x) == Offer(originals, ex, x, cap)
           Is(F) == F = [t \in SUBSET (1..n) |-> IF t = {} THEN <<>> ELSE e(F[t \ {Max(t)}], all[Max(t)])]
           C == CHOOSE F : Is(F)
           g == [x \in Seq(Ids) \X (1..n) |-> e(x[1], all[x[2]])]
<1>0. users \in Seq(Seq(Ids)) /\ Len(users) = Len(originals) /\ \A k \in 1..Len(originals) : users[k] = usersOf[originals[k]]
  OBVIOUS
<1> HIDE DEF users
<1>1. all \in Seq(Ids) /\ \A k \in 1..Len(originals) : Range(usersOf[originals[k]]) \subseteq Range(all)
  BY <1>0, FlattenIs
<1>2. ExpandCoverage(originals, usersOf, cap) = originals \o C[1..n]
  <2>1. DOMAIN all = 1..n
    BY <1>1
  <2> QED
    BY <2>1 DEF ExpandCoverage, FoldLeft, MapThenFoldSet, users
<1> HIDE DEF all
<1>3. n \in Nat /\ DOMAIN all = 1..n /\ \A i \in 1..n : all[i] \in Ids
  BY <1>1
<1> HIDE DEF n
<1>4. \A s \in Seq(Ids), x \in Ids : e(s, x) \in Seq(Ids)
  BY DEF Offer
<1>5. g \in [Seq(Ids) \X (1..n) -> Seq(Ids)]
  BY <1>3, <1>4
<1>6. \A s \in Seq(Ids), k \in 1..n : g[<<s, k>>] = e(s, all[k])
  OBVIOUS
<1> HIDE DEF e, g
<1>7. PICK it : IsFold(Seq(Ids), <<>>, n, g, it)
  <2>1. <<>> \in Seq(Ids)
    OBVIOUS
  <2> QED
    BY <1>3, <1>5, <2>1, FoldExists
<1>8. Is(it)
  <2>1. ASSUME NEW t \in SUBSET (1..n), t # {}
        PROVE  g[<<it[t \ {Max(t)}], Max(t)>>] = e(it[t \ {Max(t)}], all[Max(t)])
    <3>1. Max(t) \in 1..n /\ it[t \ {Max(t)}] \in Seq(Ids)
      BY <1>3, <1>7, <2>1, MaxIs DEF IsFold
    <3> QED
      BY <1>6, <3>1
  <2> QED
    BY <1>7, <2>1 DEF IsFold
<1>9. Is(C)
  BY <1>8
<1> HIDE DEF C
<1>10. C[1..0] = <<>> /\ \A i \in 1..n : C[1..i] = e(C[1..(i - 1)], all[i])
  <2>1. 1..0 = {} /\ {} \in SUBSET (1..n)
    OBVIOUS
  <2>2. ASSUME NEW i \in 1..n PROVE C[1..i] = e(C[1..(i - 1)], all[i])
    <3>1. 1..i \in SUBSET (1..n) /\ 1..i # {} /\ Max(1..i) = i /\ (1..i) \ {i} = 1..(i - 1)
      BY <1>3, LastOfFirst
    <3>2. C[1..i] = e(C[(1..i) \ {Max(1..i)}], all[Max(1..i)])
      BY <1>9, <3>1
    <3> QED
      BY <3>1, <3>2
  <2> QED
    BY <1>9, <2>1, <2>2
<1> DEFINE L == Len(originals)
           Good(i, ex) == /\ ex \in Seq(Ids) /\ IsInjective(ex) /\ Range(originals) \cap Range(ex) = {}
                          /\ L <= cap => L + Len(ex) <= cap
                          /\ L + Len(ex) < cap => \A k \in 1..i : all[k] \in Range(originals) \cup Range(ex)
           T == {i \in Nat : i <= n => Good(i, C[1..i])}
<1>11. L \in Nat
  OBVIOUS
<1> HIDE DEF L
<1>12. 0 \in T
  <2>1. <<>> \in Seq(Ids) /\ IsInjective(<<>>) /\ Range(<<>>) = {} /\ Len(<<>>) = 0
    BY DEF IsInjective, Range
  <2>2. Good(0, <<>>)
    BY <1>11, <2>1
  <2> HIDE DEF Good
  <2> QED
    BY <1>10, <2>2
<1>13. ASSUME NEW i \in T PROVE i + 1 \in T
  <2> SUFFICES ASSUME i + 1 <= n PROVE Good(i + 1, C[1..(i + 1)])
    OBVIOUS
  <2> DEFINE ex == C[1..i]
             x == all[i + 1]
  <2>1. i + 1 \in 1..n /\ (i + 1) - 1 = i /\ i <= n /\ i \in Nat
    BY <1>3
  <2>2. Good(i, ex)
    BY <2>1
  <2>3. C[1..(i + 1)] = Offer(originals, ex, x, cap)
    <3>1. C[1..(i + 1)] = e(C[1..((i + 1) - 1)], x)
      BY <1>10, <2>1
    <3> QED
      BY <2>1, <3>1 DEF e
  <2>4. x \in Ids
    BY <1>3, <2>1
  <2>5. \A k \in 1..(i + 1) : k = i + 1 \/ k \in 1..i
    BY <2>1
  <2> HIDE DEF ex
  <2>6. CASE L + Len(ex) >= cap
    <3>1. C[1..(i + 1)] = ex
      BY <2>3, <2>6 DEF Offer, L
    <3>2. Len(ex) \in Nat
      BY <2>2
    <3>3. ~(L + Len(ex) < cap)
      BY <1>11, <2>6, <3>2
    <3> QED
      BY <2>2, <3>1, <3>3
  <2>7. CASE L + Len(ex) < cap /\ x \in Range(originals) \cup Range(ex)
    <3>1. C[1..(i + 1)] = ex
      BY <2>3, <2>7 DEF Offer
    <3>2. \A k \in 1..(i + 1) : all[k] \in Range(originals) \cup Range(ex)
      BY <2>2, <2>5, <2>7
    <3> QED
      BY <2>2, <3>1, <3>2
  <2>8. CASE L + Len(ex) < cap /\ x \notin Range(originals) \cup Range(ex)
    <3> DEFINE y == Append(ex, x)
    <3>0. Len(ex) \in Nat /\ ~(L + Len(ex) >= cap)
      BY <1>11, <2>2, <2>8
    <3>1. C[1..(i + 1)] = y
      BY <2>3, <2>8, <3>0 DEF Offer, L
    <3>2. y \in Seq(Ids) /\ IsInjective(y) /\ Range(y) = Range(ex) \cup {x} /\ Len(y) = Len(ex) + 1
      <4>1. ex \in Seq(Ids) /\ IsInjective(ex) /\ x \notin Range(ex)
        BY <2>2, <2>8
      <4> HIDE DEF x
      <4> QED
        BY <2>4, <4>1, AppendNew
    <3> HIDE DEF y, x
    <3>3. L <= cap => L + Len(y) <= cap
      BY <1>11, <2>8, <3>0, <3>2
    <3>4. Range(originals) \cap Range(y) = {}
      BY <2>2, <2>8, <3>2
    <3>5. \A k \in 1..(i + 1) : all[k] \in Range(originals) \cup Range(y)
      BY <2>2, <2>5, <2>8, <3>2 DEF x
    <3> QED
      BY <3>1, <3>2, <3>3, <3>4, <3>5
  <2>9. Len(ex) \in Nat
    BY <2>2
  <2>10. L + Len(ex) >= cap \/ L + Len(ex) < cap
    BY <1>11, <2>9
  <2> QED
    BY <2>6, <2>7, <2>8, <2>10
<1> HIDE DEF T
<1>14. T = Nat
  BY <1>12, <1>13, NatInd DEF T
<1> DEFINE ex == C[1..n]
<1>15. Good(n, ex)
  <2>1. n \in Nat /\ n <= n
    BY <1>3
  <2> HIDE DEF Good
  <2> QED
    BY <1>14, <2>1 DEF T
<1> HIDE DEF ex
<1> DEFINE out == originals \o ex
<1>16. /\ out \in Seq(Ids) /\ Len(out) = L + Len(ex) /\ Range(out) = Range(originals) \cup Range(ex)
       /\ IsInjective(out) /\ \A k \in 1..L : out[k] = originals[k]
  BY <1>15, ConcatRange DEF L
<1>17. SubSeq(out, 1, L) = originals
  BY <1>15 DEF L
<1> HIDE DEF out
<1>18. L <= cap => Len(out) <= cap
  BY <1>15, <1>16
<1>19. Len(out) < cap => \A k \in DOMAIN originals : Range(usersOf[originals[k]]) \subseteq Range(out)
  <2> SUFFICES ASSUME Len(out) < cap PROVE Range(all) \subseteq Range(out)
    BY <1>1
  <2>1. \A k \in 1..n : all[k] \in Range(out)
    BY <1>15, <1>16
  <2> QED
    BY <1>3, <2>1 DEF Range
<1>20. ExpandCoverage(originals, usersOf, cap) = out
  BY <1>2 DEF out, ex
<1> QED
  BY <1>16, <1>17, <1>18, <1>19, <1>20 DEF ExpansionIsBounded, L

(* The function shown shares lines with the chunk, and none shares more.   *)
THEOREM LargestIsPicked ==
  ASSUME NEW fns \in Seq([from : Int, to : Int]), NEW from \in Int, NEW to \in Int
  PROVE  PicksTheLargest(fns, from, to, PickOverlapping(fns, from, to))
<1> DEFINE n == Len(fns)
           q == [k \in 1..n |-> k]
           v(k) == Overlap(fns[k], from, to)
           e(best, k) == IF v(k) > (IF best = 0 THEN 0 ELSE v(best)) THEN k ELSE best
           Is(F) == F = [t \in SUBSET (1..n) |-> IF t = {} THEN 0 ELSE e(F[t \ {Max(t)}], q[Max(t)])]
           C == CHOOSE F : Is(F)
           g == [x \in Nat \X (1..n) |-> e(x[1], x[2])]
<1>1. n \in Nat /\ DOMAIN fns = 1..n
  OBVIOUS
<1>2. PickOverlapping(fns, from, to) = C[1..n]
  <2>1. DOMAIN q = 1..n
    OBVIOUS
  <2> QED
    BY <2>1 DEF PickOverlapping, FoldLeft, MapThenFoldSet
<1>3. \A k \in 1..n : v(k) \in Int
  <2> TAKE k \in 1..n
  <2> DEFINE f == fns[k]
             Fn == [from : Int, to : Int]
  <2>1. f \in Fn
    <3>1. fns \in Seq(Fn)
      OBVIOUS
    <3> HIDE DEF Fn
    <3> QED
      BY <3>1, ElementOfSeq
  <2> HIDE DEF f
  <2>2. f.from \in Int /\ f.to \in Int
    BY <2>1
  <2> DEFINE lo == IF f.from > from THEN f.from ELSE from
             hi == IF f.to < to THEN f.to ELSE to
  <2>4. lo \in Int /\ hi \in Int
    BY <2>2
  <2> HIDE DEF lo, hi
  <2>5. hi - lo + 1 \in Int
    BY <2>4
  <2>3. Overlap(f, from, to) \in Int
    BY <2>5 DEF Overlap, lo, hi
  <2> QED
    BY <2>3 DEF f
<1> HIDE DEF v, n
<1>4. \A s \in Nat, k \in 1..n : e(s, k) \in Nat
  BY <1>1
<1>5. g \in [Nat \X (1..n) -> Nat]
  BY <1>4
<1>6. \A s \in Nat, k \in 1..n : g[<<s, k>>] = e(s, k)
  OBVIOUS
<1> HIDE DEF e, g
<1>7. PICK it : IsFold(Nat, 0, n, g, it)
  <2>1. 0 \in Nat
    OBVIOUS
  <2> QED
    BY <1>1, <1>5, <2>1, FoldExists
<1>8. Is(it)
  <2>1. ASSUME NEW t \in SUBSET (1..n), t # {}
        PROVE  g[<<it[t \ {Max(t)}], Max(t)>>] = e(it[t \ {Max(t)}], q[Max(t)])
    <3>1. Max(t) \in 1..n /\ it[t \ {Max(t)}] \in Nat
      BY <1>1, <1>7, <2>1, MaxIs DEF IsFold
    <3> QED
      BY <1>6, <3>1
  <2> QED
    BY <1>7, <2>1 DEF IsFold
<1>9. Is(C)
  BY <1>8
<1> HIDE DEF C
<1>10. C[1..0] = 0 /\ \A i \in 1..n : C[1..i] = e(C[1..(i - 1)], i)
  <2>1. 1..0 = {} /\ {} \in SUBSET (1..n)
    OBVIOUS
  <2>2. ASSUME NEW i \in 1..n PROVE C[1..i] = e(C[1..(i - 1)], i)
    <3>1. 1..i \in SUBSET (1..n) /\ 1..i # {} /\ Max(1..i) = i /\ (1..i) \ {i} = 1..(i - 1)
      BY <1>1, LastOfFirst
    <3>2. q[i] = i
      OBVIOUS
    <3>3. C[1..i] = e(C[(1..i) \ {Max(1..i)}], q[Max(1..i)])
      BY <1>9, <3>1
    <3> QED
      BY <3>1, <3>2, <3>3
  <2> QED
    BY <1>9, <2>1, <2>2
<1> DEFINE Good(i, b) == \/ b = 0 /\ \A k \in 1..i : v(k) <= 0
                         \/ b \in 1..n /\ v(b) > 0 /\ \A k \in 1..i : v(k) <= v(b)
           T == {i \in Nat : i <= n => Good(i, C[1..i])}
<1>11. 0 \in T
  BY <1>10
<1>12. ASSUME NEW i \in T PROVE i + 1 \in T
  <2> SUFFICES ASSUME i + 1 <= n PROVE Good(i + 1, C[1..(i + 1)])
    <3>1. i + 1 \in Nat
      OBVIOUS
    <3> HIDE DEF Good
    <3> QED
      BY <3>1
  <2> DEFINE b == C[1..i]
             j == i + 1
  <2>1. j \in 1..n /\ j - 1 = i /\ i <= n /\ j # 0
    BY <1>1
  <2>2. Good(i, b)
    BY <2>1
  <2>3. \A k \in 1..j : k = j \/ k \in 1..i
    BY <2>1
  <2>4. \A k \in 1..i : k \in 1..n
    BY <1>1, <2>1
  <2> HIDE DEF b, j
  <2>5. C[1..j] = e(b, j)
    BY <1>10, <2>1 DEF b
  <2>6. v(j) \in Int /\ (b \in 1..n => v(b) \in Int /\ b # 0) /\ \A k \in 1..i : v(k) \in Int
    BY <1>1, <1>3, <2>1, <2>4
  <2>7. CASE b = 0
    <3>1. \A k \in 1..i : v(k) <= 0
      BY <1>1, <2>2, <2>7
    <3>2. C[1..j] = IF v(j) > 0 THEN j ELSE 0
      BY <2>5, <2>7 DEF e
    <3>3. CASE v(j) > 0
      <4>1. \A k \in 1..j : v(k) <= v(j)
        BY <2>3, <2>6, <3>1, <3>3
      <4> QED
        BY <2>1, <3>2, <3>3, <4>1 DEF j
    <3>4. CASE ~(v(j) > 0)
      <4>1. \A k \in 1..j : v(k) <= 0
        BY <2>3, <2>6, <3>1, <3>4
      <4> QED
        BY <3>2, <3>4, <4>1 DEF j
    <3> QED
      BY <3>3, <3>4
  <2>8. CASE b # 0
    <3>1. b \in 1..n /\ v(b) > 0 /\ \A k \in 1..i : v(k) <= v(b)
      BY <2>2, <2>8
    <3>2. C[1..j] = IF v(j) > v(b) THEN j ELSE b
      BY <2>5, <2>8 DEF e
    <3>3. CASE v(j) > v(b)
      <4>1. v(j) > 0 /\ \A k \in 1..j : v(k) <= v(j)
        BY <2>3, <2>6, <3>1, <3>3
      <4> QED
        BY <2>1, <3>2, <3>3, <4>1 DEF j
    <3>4. CASE ~(v(j) > v(b))
      <4>1. \A k \in 1..j : v(k) <= v(b)
        BY <2>3, <2>6, <3>1, <3>4
      <4> QED
        BY <3>1, <3>2, <3>4, <4>1 DEF j
    <3> QED
      BY <3>3, <3>4
  <2> QED
    BY <2>7, <2>8
<1> HIDE DEF T
<1>13. T = Nat
  BY <1>11, <1>12, NatInd DEF T
<1> DEFINE p == C[1..n]
<1>14. Good(n, p)
  <2>1. n \in Nat /\ n <= n
    BY <1>1
  <2> HIDE DEF Good
  <2> QED
    BY <1>13, <2>1 DEF T
<1> HIDE DEF p
<1>15. PicksTheLargest(fns, from, to, p)
  BY <1>1, <1>14 DEF PicksTheLargest, v
<1> QED
  BY <1>2, <1>15 DEF p

-----------------------------------------------------------------------------
(* A path inside an active project is searched in the deepest of them.     *)
THEOREM DeepestIsSearched ==
  ASSUME NEW w, Forest(w), NEW active \in SUBSET w.dirs, NEW d \in w.dirs,
         NEW rows, \A row \in rows : PathUp(w, row.project, row.dir) # <<>>
  PROVE  ScopeIsIndexed(w, active, d, rows)
<1> DEFINE over == {p \in active : PathUp(w, p, d) # <<>>}
           len(p) == Len(PathUp(w, p, d))
           q == CHOOSE p \in over : \A r \in over : len(p) <= len(r)
           scope == ResolveProjectScope(w, active, d, Above)
<1> SUFFICES ASSUME over # {}
             PROVE  /\ scope.project \in over
                    /\ \A p \in over : PathUp(w, p, scope.project) # <<>>
                    /\ \A row \in rows : row.project = scope.project =>
                         /\ PathUp(w, d, row.dir) # <<>> => InScope(w, scope, row)
                         /\ InScope(w, scope, row) /\ PathUp(w, d, row.dir) = <<>> =>
                              \E e \in w.dirs : /\ <<scope.project, d, Above, e>> \in w.like
                                               /\ PathUp(w, e, row.dir) # <<>>
  BY Zenon DEF ScopeIsIndexed
<1>1. d \in Dirs(w) /\ Above \notin w.dirs /\ over \subseteq w.dirs
  BY DEF Dirs, Forest
<1>2. ASSUME NEW p \in over
      PROVE  \E n \in Nat : At(w, n, d) = p /\ len(p) = n + 1
  <2>1. p \in w.dirs /\ PathUp(w, p, d) # <<>>
    BY <1>1
  <2> QED
    BY <2>1, PathIsWay DEF IsWay
<1> HIDE DEF len, over
<1>3. q \in over /\ \A r \in over : len(q) <= len(r)
  <2> DEFINE N == {len(p) : p \in over}
  <2>1. \A p \in over : len(p) \in Nat
    BY <1>2
  <2>2. N \in SUBSET Nat /\ N # {}
    BY <2>1
  <2>3. PICK x \in N : \A y \in N : x <= y
    BY <2>2, LeastOf
  <2>4. PICK p \in over : x = len(p)
    BY <2>3
  <2>5. \A r \in over : len(p) <= len(r)
    BY <2>3, <2>4
  <2> QED
    BY <2>5
<1>4. IndexedAncestor(w, active, d) = q
  BY DEF IndexedAncestor, over, len
<1> HIDE DEF q
<1>5. q # Above /\ d # Above
  BY <1>1, <1>3
<1>6. /\ scope.project = q /\ scope.file = Above
      /\ scope.within = IF q = d THEN Above ELSE d
  BY <1>4, <1>5 DEF ResolveProjectScope
<1> HIDE DEF scope
<1>7. ASSUME NEW p \in over PROVE PathUp(w, p, q) # <<>>
  <2>1. PICK m \in Nat : At(w, m, d) = q /\ len(q) = m + 1
    BY <1>2, <1>3
  <2>2. PICK n \in Nat : At(w, n, d) = p /\ len(p) = n + 1
    BY <1>2
  <2>3. m <= n
    <3>1. len(q) <= len(p)
      BY <1>3
    <3> QED
      BY <2>1, <2>2, <3>1
  <2>4. n - m \in Nat /\ At(w, n - m, q) = p
    BY <1>1, <2>1, <2>2, <2>3, AtFurther
  <2>5. p \in w.dirs /\ q \in w.dirs
    BY <1>1, <1>3
  <2> QED
    BY <2>4, <2>5, PathUpIsAbove
<1>8. ASSUME NEW row \in rows, row.project = q
      PROVE  /\ PathUp(w, d, row.dir) # <<>> => InScope(w, scope, row)
             /\ InScope(w, scope, row) /\ PathUp(w, d, row.dir) = <<>> =>
                  \E e \in w.dirs : /\ <<scope.project, d, Above, e>> \in w.like
                                   /\ PathUp(w, e, row.dir) # <<>>
  <2>1. PathUp(w, row.project, row.dir) # <<>>
    OBVIOUS
  <2>2. CASE q = d
    BY <1>6, <1>8, <2>1, <2>2 DEF InScope
  <2>3. CASE q # d
    <3>1. scope.within = d /\ scope.within # Above /\ scope.project # Above /\ scope.file = Above
      BY <1>5, <1>6, <2>3
    <3>2. ReadAs(w, scope) = {d} \cup {e \in w.dirs : <<scope.project, d, Above, e>> \in w.like}
      BY <3>1 DEF ReadAs
    <3>3. InScope(w, scope, row) <=> \E e \in ReadAs(w, scope) : PathUp(w, e, row.dir) # <<>>
      BY <1>6, <1>8, <3>1 DEF InScope
    <3> QED
      BY <3>2, <3>3
  <2> QED
    BY <2>2, <2>3
<1> QED
  BY <1>3, <1>6, <1>7, <1>8

-----------------------------------------------------------------------------
(* The two tables of settings.  The kind of a setting shows from its name. *)
IntNames ==
  {"debounce_ms", "port", "rrf_k", "interval_seconds", "compact_interval_hours", "max_depth", "log_max_rows",
   "concurrency", "per_task_timeout_ms", "window_size", "min_unique_tokens", "semantic_threshold",
   "semantic_max_chunks", "max_findings_per_file", "god_file_nloc", "god_file_exports", "max_params",
   "max_nesting_depth", "escalate_ccn", "max_fan_out", "max_fan_in", "doc_drift_floor"}
BoolNames ==
  {"normalize", "run_on_start", "admin_enabled", "strict_ssl", "background_enabled", "enabled", "semantic",
   "bundled_rules", "markdown_rules", "okf_default", "require_frontmatter", "check_links"}
StrNames == {"provider", "model", "hostname", "ca_cert", "proxy", "command", "registry_config"}
ListNames == {"workspace_roots", "extra_markers", "rule_dirs", "globs", "schemas"}

(* The settings, by section.                                               *)
IsKnown(s, n) ==
  \/ s = NoText /\ n \in {"workspace_roots"}
  \/ s = "embedding" /\ n \in {"provider", "model", "normalize"}
  \/ s = "watcher" /\ n \in {"debounce_ms"}
  \/ s = "daemon" /\ n \in {"port", "hostname"}
  \/ s = "retrieval" /\ n \in {"mode", "rrf_k"}
  \/ s = "reconciliation" /\ n \in {"run_on_start", "interval_seconds"}
  \/ s = "maintenance" /\ n \in {"compact_interval_hours"}
  \/ s = "discovery" /\ n \in {"extra_markers", "max_depth"}
  \/ s = "mcp" /\ n \in {"log_max_rows", "admin_enabled"}
  \/ s = "network" /\ n \in {"ca_cert", "proxy", "strict_ssl"}
  \/ s = "analyzers" /\ n \in {"background_enabled", "concurrency", "per_task_timeout_ms"}
  \/ s = "lizard" /\ n \in {"enabled", "command"}
  \/ s = "duplicates" /\ n \in {"enabled", "window_size", "min_unique_tokens", "semantic",
       "semantic_threshold", "semantic_max_chunks"}
  \/ s = "semgrep" /\ n \in {"enabled", "command", "rule_dirs", "registry_config", "max_findings_per_file"}
  \/ s = "astGrep" /\ n \in {"enabled", "command", "rule_dirs", "bundled_rules", "max_findings_per_file"}
  \/ s = "quality" /\ n \in {"enabled", "god_file_nloc", "god_file_exports", "max_params",
       "max_nesting_depth", "escalate_ccn", "max_fan_out", "max_fan_in", "max_findings_per_file",
       "markdown_rules", "doc_drift_floor"}
  \/ s = "definitions" /\ n \in {"enabled", "okf_default", "globs", "schemas", "require_frontmatter",
       "check_links", "max_findings_per_file"}

(* A setting by its section, name and kind.                                *)
IsSetting(s, n, kind) ==
  /\ kind = "int" => n \in IntNames
  /\ kind = "bool" => n \in BoolNames
  /\ kind = "list" => n \in ListNames
  /\ kind = "str" => n \in StrNames \/ (n = "mode" /\ s = "retrieval")
  /\ kind \in {"int", "bool", "list", "str"}
  /\ IsKnown(s, n)

FieldIsSound(f) ==
  \E s, n : /\ f.key = <<s, n>> /\ IsSetting(s, n, KindOf(f.type)) /\ f.min \in Nat
            /\ f.type = "int" \/ KindOf(f.type) # "int"
            /\ n = "mode" => f.type = "enum" /\ f.enum = {"hybrid", "vector", "lexical"}

LeafIsSound(leaf) == \E s, n : leaf.key = <<s, n>> /\ IsSetting(s, n, leaf.kind)

LEMMA NamesDiffer ==
  ASSUME NEW s, NEW n, NEW k1, NEW k2, IsSetting(s, n, k1), IsSetting(s, n, k2)
  PROVE  k1 = k2
<1>1. IntNames \cap BoolNames = {} /\ IntNames \cap StrNames = {} /\ IntNames \cap ListNames = {}
  BY DEF IntNames, BoolNames, StrNames, ListNames
<1>2. BoolNames \cap StrNames = {} /\ BoolNames \cap ListNames = {} /\ StrNames \cap ListNames = {}
  BY DEF BoolNames, StrNames, ListNames
<1>3. "mode" \notin IntNames \cup BoolNames \cup ListNames
  BY DEF IntNames, BoolNames, ListNames
<1> QED
  BY <1>1, <1>2, <1>3 DEF IsSetting

LEMMA FieldRow ==
  /\ \A s, n, d : IsSetting(s, n, "bool") => FieldIsSound(Plain(s, n, "bool", d))
  /\ \A s, n, d : n \in StrNames /\ IsSetting(s, n, "str") => FieldIsSound(Plain(s, n, "string", d))
  /\ \A s, n, d : IsSetting(s, n, "list") => FieldIsSound(Plain(s, n, "string-array", d))
<1>0. "mode" \notin BoolNames \cup StrNames \cup ListNames
  BY DEF StrNames, BoolNames, ListNames
<1>1. KindOf("bool") = "bool" /\ KindOf("string") = "str" /\ KindOf("string-array") = "list"
  BY DEF KindOf
<1>2. ASSUME NEW s, NEW n, NEW t, NEW d, IsSetting(s, n, KindOf(t)), KindOf(t) # "int", n # "mode"
      PROVE  FieldIsSound(Plain(s, n, t, d))
  <2>1. Plain(s, n, t, d).key = <<s, n>> /\ Plain(s, n, t, d).type = t /\ Plain(s, n, t, d).min = 0
    BY DEF Plain, Field_
  <2> QED
    BY <1>2, <2>1 DEF FieldIsSound
<1>3. \A s, n, d : IsSetting(s, n, "bool") => FieldIsSound(Plain(s, n, "bool", d))
  BY <1>0, <1>1, <1>2 DEF IsSetting
<1>4. \A s, n, d : n \in StrNames /\ IsSetting(s, n, "str") => FieldIsSound(Plain(s, n, "string", d))
  BY <1>0, <1>1, <1>2 DEF IsSetting
<1>5. \A s, n, d : IsSetting(s, n, "list") => FieldIsSound(Plain(s, n, "string-array", d))
  BY <1>0, <1>1, <1>2 DEF IsSetting
<1> QED
  BY <1>3, <1>4, <1>5

LEMMA NumberRow ==
  \A s, n, d, min, max : IsSetting(s, n, "int") /\ min \in Nat => FieldIsSound(Number(s, n, d, min, max))
<1>0. "mode" \notin IntNames
  BY DEF IntNames
<1>1. KindOf("int") = "int"
  BY DEF KindOf
<1>2. ASSUME NEW s, NEW n, NEW d, NEW min, NEW max
      PROVE  Number(s, n, d, min, max).key = <<s, n>> /\ Number(s, n, d, min, max).type = "int"
             /\ Number(s, n, d, min, max).min = min
  BY DEF Number, Field_
<1> QED
  BY <1>0, <1>1, <1>2 DEF FieldIsSound, IsSetting

LEMMA EnumRow ==
  /\ \A s, n, d, v : n \in StrNames /\ IsSetting(s, n, "str") => FieldIsSound(OneOf(s, n, d, v))
  /\ \A d : FieldIsSound(OneOf("retrieval", "mode", d, {"hybrid", "vector", "lexical"}))
<1>0. "mode" \notin StrNames
  BY DEF StrNames
<1>1. KindOf("enum") = "str"
  BY DEF KindOf
<1>2. ASSUME NEW s, NEW n, NEW d, NEW v
      PROVE  OneOf(s, n, d, v).key = <<s, n>> /\ OneOf(s, n, d, v).type = "enum"
             /\ OneOf(s, n, d, v).min = 0 /\ OneOf(s, n, d, v).enum = v
  BY DEF OneOf, Field_
<1>3. IsSetting("retrieval", "mode", "str")
  BY DEF IsSetting, IsKnown
<1> QED
  BY <1>0, <1>1, <1>2, <1>3 DEF FieldIsSound

LEMMA SwitchRow ==
  \A s, n : IsSetting(s, n, "bool") => FieldIsSound(On(s, n)) /\ FieldIsSound(Off(s, n))
BY FieldRow, Zenon DEF On, Off

LEMMA LeafRow ==
  \A s, n, kind, d : IsSetting(s, n, kind) => LeafIsSound(Leaf(s, n, kind, d))
<1>1. ASSUME NEW s, NEW n, NEW kind, NEW d
      PROVE  Leaf(s, n, kind, d).key = <<s, n>> /\ Leaf(s, n, kind, d).kind = kind
  BY DEF Leaf
<1> QED
  BY <1>1 DEF LeafIsSound

LEMMA LeafSwitchRow ==
  \A s, n : IsSetting(s, n, "bool") => LeafIsSound(LeafOn(s, n)) /\ LeafIsSound(LeafOff(s, n))
BY LeafRow, Zenon DEF LeafOn, LeafOff

LEMMA CoreSchemaIsSound ==
  \A x \in CoreSchema : FieldIsSound(x)
<1>1. \A x \in
       {Number("watcher", "debounce_ms", 500, 0, 60000), Number("daemon", "port", 3000, 0, 65535),
        Number("retrieval", "rrf_k", 60, 1, 1000), Number("reconciliation", "interval_seconds", 600, 0, 86400)} :
       FieldIsSound(x)
  BY NumberRow DEF IsSetting, IsKnown, IntNames
<1>2. \A x \in
       {On("embedding", "normalize"), On("reconciliation", "run_on_start")} :
       FieldIsSound(x)
  BY SwitchRow DEF IsSetting, IsKnown, BoolNames
<1>3. \A x \in
       {Plain("embedding", "model", "string", "Xenova/all-MiniLM-L6-v2"),
        Plain("daemon", "hostname", "string", "127.0.0.1")} :
       FieldIsSound(x)
  BY FieldRow DEF IsSetting, IsKnown, StrNames
<1>4. \A x \in
       {Plain(NoText, "workspace_roots", "string-array", <<>>)} :
       FieldIsSound(x)
  BY FieldRow DEF IsSetting, IsKnown, ListNames
<1>5. \A x \in
       {OneOf("embedding", "provider", "huggingface-transformers", {"huggingface-transformers"}),
        OneOf("retrieval", "mode", "hybrid", {"hybrid", "vector", "lexical"})} :
       FieldIsSound(x)
  BY EnumRow DEF IsSetting, IsKnown, StrNames
<1> QED
  BY <1>1, <1>2, <1>3, <1>4, <1>5 DEF CoreSchema

LEMMA RuntimeSchemaIsSound ==
  \A x \in RuntimeSchema : FieldIsSound(x)
<1>1. \A x \in
       {Number("maintenance", "compact_interval_hours", 24, 0, 8760), Number("discovery", "max_depth", 4, 1, 16),
        Number("mcp", "log_max_rows", 200, 0, 100000), Number("analyzers", "concurrency", 2, 1, 16),
        Number("analyzers", "per_task_timeout_ms", 60000, 1000, 600000)} :
       FieldIsSound(x)
  BY NumberRow DEF IsSetting, IsKnown, IntNames
<1>2. \A x \in
       {Off("mcp", "admin_enabled"), On("network", "strict_ssl"), Off("analyzers", "background_enabled")} :
       FieldIsSound(x)
  BY SwitchRow DEF IsSetting, IsKnown, BoolNames
<1>3. \A x \in
       {Plain("network", "ca_cert", "string", NoText), Plain("network", "proxy", "string", NoText)} :
       FieldIsSound(x)
  BY FieldRow DEF IsSetting, IsKnown, StrNames
<1>4. \A x \in
       {Plain("discovery", "extra_markers", "string-array", <<>>)} :
       FieldIsSound(x)
  BY FieldRow DEF IsSetting, IsKnown, ListNames
<1> QED
  BY <1>1, <1>2, <1>3, <1>4 DEF RuntimeSchema

LEMMA ToolSchemaIsSound ==
  \A x \in ToolSchema : FieldIsSound(x)
<1>1. \A x \in
       {Number("duplicates", "window_size", 50, 5, 1000), Number("duplicates", "min_unique_tokens", 15, 1, 1000),
        Number("duplicates", "semantic_threshold", 92, 50, 100),
        Number("duplicates", "semantic_max_chunks", 3000, 100, 5000),
        Number("semgrep", "max_findings_per_file", 50, 1, 10000)} :
       FieldIsSound(x)
  BY NumberRow DEF IsSetting, IsKnown, IntNames
<1>2. \A x \in
       {Off("lizard", "enabled"), Off("duplicates", "enabled"), Off("duplicates", "semantic"),
        Off("semgrep", "enabled")} :
       FieldIsSound(x)
  BY SwitchRow DEF IsSetting, IsKnown, BoolNames
<1>3. \A x \in
       {Plain("lizard", "command", "string", "lizard"), Plain("semgrep", "command", "string", "semgrep"),
        Plain("semgrep", "registry_config", "string", "p/default")} :
       FieldIsSound(x)
  BY FieldRow DEF IsSetting, IsKnown, StrNames
<1>4. \A x \in
       {Plain("semgrep", "rule_dirs", "string-array", <<>>)} :
       FieldIsSound(x)
  BY FieldRow DEF IsSetting, IsKnown, ListNames
<1> QED
  BY <1>1, <1>2, <1>3, <1>4 DEF ToolSchema

LEMMA RuleSchemaIsSound ==
  \A x \in RuleSchema : FieldIsSound(x)
<1>1. \A x \in
       {Number("astGrep", "max_findings_per_file", 50, 1, 10000),
        Number("quality", "god_file_nloc", 400, 50, 100000), Number("quality", "god_file_exports", 10, 1, 1000),
        Number("quality", "max_params", 5, 1, 100), Number("quality", "max_nesting_depth", 4, 1, 50),
        Number("quality", "escalate_ccn", 10, 1, 1000)} :
       FieldIsSound(x)
  BY NumberRow DEF IsSetting, IsKnown, IntNames
<1>2. \A x \in
       {Number("quality", "max_fan_out", 20, 1, 1000), Number("quality", "max_fan_in", 25, 1, 10000),
        Number("quality", "max_findings_per_file", 50, 1, 10000)} :
       FieldIsSound(x)
  BY NumberRow DEF IsSetting, IsKnown, IntNames
<1>3. \A x \in
       {Off("astGrep", "enabled"), On("astGrep", "bundled_rules"), On("quality", "enabled")} :
       FieldIsSound(x)
  BY SwitchRow DEF IsSetting, IsKnown, BoolNames
<1>4. \A x \in
       {Plain("astGrep", "command", "string", "ast-grep")} :
       FieldIsSound(x)
  BY FieldRow DEF IsSetting, IsKnown, StrNames
<1>5. \A x \in
       {Plain("astGrep", "rule_dirs", "string-array", <<>>)} :
       FieldIsSound(x)
  BY FieldRow DEF IsSetting, IsKnown, ListNames
<1> QED
  BY <1>1, <1>2, <1>3, <1>4, <1>5 DEF RuleSchema

LEMMA ContextSchemaIsSound ==
  \A x \in ContextSchema : FieldIsSound(x)
<1>1. \A x \in
       {Number("quality", "doc_drift_floor", 35, 5, 95),
        Number("definitions", "max_findings_per_file", 50, 1, 10000)} :
       FieldIsSound(x)
  BY NumberRow DEF IsSetting, IsKnown, IntNames
<1>2. \A x \in
       {On("quality", "markdown_rules"), On("definitions", "enabled"), On("definitions", "okf_default"),
        Off("definitions", "require_frontmatter"), On("definitions", "check_links")} :
       FieldIsSound(x)
  BY SwitchRow DEF IsSetting, IsKnown, BoolNames
<1>3. \A x \in
       {Plain("definitions", "globs", "string-array", <<>>),
        Plain("definitions", "schemas", "string-array", <<>>)} :
       FieldIsSound(x)
  BY FieldRow DEF IsSetting, IsKnown, ListNames
<1> QED
  BY <1>1, <1>2, <1>3 DEF ContextSchema

LEMMA CoreLeavesIsSound ==
  \A x \in CoreLeaves : LeafIsSound(x)
<1>1. \A x \in
       {Leaf("watcher", "debounce_ms", "int", 500), Leaf("daemon", "port", "int", 3022),
        Leaf("retrieval", "rrf_k", "int", 60), Leaf("reconciliation", "interval_seconds", "int", 600),
        Leaf("maintenance", "compact_interval_hours", "int", 24), Leaf("discovery", "max_depth", "int", 4)} :
       LeafIsSound(x)
  BY LeafRow DEF IsSetting, IsKnown, IntNames
<1>2. \A x \in
       {Leaf("mcp", "log_max_rows", "int", 200)} :
       LeafIsSound(x)
  BY LeafRow DEF IsSetting, IsKnown, IntNames
<1>3. \A x \in
       {LeafOn("embedding", "normalize"), LeafOn("reconciliation", "run_on_start"),
        LeafOff("mcp", "admin_enabled"), LeafOn("network", "strict_ssl")} :
       LeafIsSound(x)
  BY LeafSwitchRow DEF IsSetting, IsKnown, BoolNames
<1>4. \A x \in
       {Leaf("embedding", "provider", "str", "huggingface-transformers"),
        Leaf("embedding", "model", "str", "Xenova/all-MiniLM-L6-v2"),
        Leaf("daemon", "hostname", "str", "127.0.0.1"), Leaf("retrieval", "mode", "str", "hybrid"),
        Leaf("network", "ca_cert", "str", Null), Leaf("network", "proxy", "str", Null)} :
       LeafIsSound(x)
  BY LeafRow DEF IsSetting, IsKnown, StrNames
<1>5. \A x \in
       {Leaf(NoText, "workspace_roots", "list", <<Cwd>>), Leaf("discovery", "extra_markers", "list", <<>>)} :
       LeafIsSound(x)
  BY LeafRow DEF IsSetting, IsKnown, ListNames
<1> QED
  BY <1>1, <1>2, <1>3, <1>4, <1>5 DEF CoreLeaves

LEMMA AnalyzerLeavesIsSound ==
  \A x \in AnalyzerLeaves : LeafIsSound(x)
<1>1. \A x \in
       {Leaf("analyzers", "concurrency", "int", 2), Leaf("analyzers", "per_task_timeout_ms", "int", 60000),
        Leaf("duplicates", "window_size", "int", 50), Leaf("duplicates", "min_unique_tokens", "int", 15),
        Leaf("duplicates", "semantic_threshold", "int", 92),
        Leaf("duplicates", "semantic_max_chunks", "int", 3000)} :
       LeafIsSound(x)
  BY LeafRow DEF IsSetting, IsKnown, IntNames
<1>2. \A x \in
       {Leaf("definitions", "max_findings_per_file", "int", 50), Leaf("quality", "god_file_nloc", "int", 400),
        Leaf("quality", "god_file_exports", "int", 10), Leaf("quality", "max_params", "int", 5),
        Leaf("quality", "max_nesting_depth", "int", 4), Leaf("quality", "escalate_ccn", "int", 10)} :
       LeafIsSound(x)
  BY LeafRow DEF IsSetting, IsKnown, IntNames
<1>3. \A x \in
       {Leaf("quality", "max_fan_out", "int", 20), Leaf("quality", "max_fan_in", "int", 25),
        Leaf("quality", "max_findings_per_file", "int", 50), Leaf("quality", "doc_drift_floor", "int", 35)} :
       LeafIsSound(x)
  BY LeafRow DEF IsSetting, IsKnown, IntNames
<1>4. \A x \in
       {LeafOn("analyzers", "background_enabled"), LeafOn("lizard", "enabled"), LeafOn("duplicates", "enabled"),
        LeafOff("duplicates", "semantic"), LeafOn("astGrep", "bundled_rules"), LeafOn("definitions", "enabled")} :
       LeafIsSound(x)
  BY LeafSwitchRow DEF IsSetting, IsKnown, BoolNames
<1>5. \A x \in
       {LeafOn("definitions", "okf_default"), LeafOff("definitions", "require_frontmatter"),
        LeafOn("definitions", "check_links"), LeafOn("quality", "enabled"), LeafOn("quality", "markdown_rules")} :
       LeafIsSound(x)
  BY LeafSwitchRow DEF IsSetting, IsKnown, BoolNames
<1>6. \A x \in
       {Leaf("lizard", "command", "str", "lizard"), Leaf("semgrep", "command", "str", "semgrep"),
        Leaf("semgrep", "registry_config", "str", "p/default"), Leaf("astGrep", "command", "str", "ast-grep")} :
       LeafIsSound(x)
  BY LeafRow DEF IsSetting, IsKnown, StrNames
<1>7. \A x \in
       {Leaf("definitions", "globs", "list", [i \in 1..6 |-> i]), Leaf("definitions", "schemas", "list", <<>>)} :
       LeafIsSound(x)
  BY LeafRow DEF IsSetting, IsKnown, ListNames
<1> QED
  BY <1>1, <1>2, <1>3, <1>4, <1>5, <1>6, <1>7 DEF AnalyzerLeaves

LEMMA KnownFields ==
  ASSUME NEW s, NEW n, IsKnown(s, n)
  PROVE  \E x \in Schema : x.key = <<s, n>>
<1> DEFINE Has(a, m) == \E x \in Schema : x.key = <<a, m>>
<1>1. \A m \in
       {"workspace_roots"} : Has(NoText, m)
  <2>1. \A m \in
       {"workspace_roots"} :
         \E x \in CoreSchema : x.key = <<NoText, m>>
    BY DEF CoreSchema, On, Off, Plain, Number, OneOf, Field_
  <2> QED
    BY <2>1 DEF Schema
<1>2. \A m \in
       {"provider", "model", "normalize"} : Has("embedding", m)
  <2>1. \A m \in
       {"provider", "model", "normalize"} :
         \E x \in CoreSchema : x.key = <<"embedding", m>>
    BY DEF CoreSchema, On, Off, Plain, Number, OneOf, Field_
  <2> QED
    BY <2>1 DEF Schema
<1>3. \A m \in
       {"debounce_ms"} : Has("watcher", m)
  <2>1. \A m \in
       {"debounce_ms"} :
         \E x \in CoreSchema : x.key = <<"watcher", m>>
    BY DEF CoreSchema, On, Off, Plain, Number, OneOf, Field_
  <2> QED
    BY <2>1 DEF Schema
<1>4. \A m \in
       {"port", "hostname"} : Has("daemon", m)
  <2>1. \A m \in
       {"port", "hostname"} :
         \E x \in CoreSchema : x.key = <<"daemon", m>>
    BY DEF CoreSchema, On, Off, Plain, Number, OneOf, Field_
  <2> QED
    BY <2>1 DEF Schema
<1>5. \A m \in
       {"mode", "rrf_k"} : Has("retrieval", m)
  <2>1. \A m \in
       {"mode", "rrf_k"} :
         \E x \in CoreSchema : x.key = <<"retrieval", m>>
    BY DEF CoreSchema, On, Off, Plain, Number, OneOf, Field_
  <2> QED
    BY <2>1 DEF Schema
<1>6. \A m \in
       {"run_on_start", "interval_seconds"} : Has("reconciliation", m)
  <2>1. \A m \in
       {"run_on_start", "interval_seconds"} :
         \E x \in CoreSchema : x.key = <<"reconciliation", m>>
    BY DEF CoreSchema, On, Off, Plain, Number, OneOf, Field_
  <2> QED
    BY <2>1 DEF Schema
<1>7. \A m \in
       {"compact_interval_hours"} : Has("maintenance", m)
  <2>1. \A m \in
       {"compact_interval_hours"} :
         \E x \in RuntimeSchema : x.key = <<"maintenance", m>>
    BY DEF RuntimeSchema, On, Off, Plain, Number, OneOf, Field_
  <2> QED
    BY <2>1 DEF Schema
<1>8. \A m \in
       {"extra_markers", "max_depth"} : Has("discovery", m)
  <2>1. \A m \in
       {"extra_markers", "max_depth"} :
         \E x \in RuntimeSchema : x.key = <<"discovery", m>>
    BY DEF RuntimeSchema, On, Off, Plain, Number, OneOf, Field_
  <2> QED
    BY <2>1 DEF Schema
<1>9. \A m \in
       {"log_max_rows", "admin_enabled"} : Has("mcp", m)
  <2>1. \A m \in
       {"log_max_rows", "admin_enabled"} :
         \E x \in RuntimeSchema : x.key = <<"mcp", m>>
    BY DEF RuntimeSchema, On, Off, Plain, Number, OneOf, Field_
  <2> QED
    BY <2>1 DEF Schema
<1>10. \A m \in
       {"ca_cert", "proxy", "strict_ssl"} : Has("network", m)
  <2>1. \A m \in
       {"ca_cert", "proxy", "strict_ssl"} :
         \E x \in RuntimeSchema : x.key = <<"network", m>>
    BY DEF RuntimeSchema, On, Off, Plain, Number, OneOf, Field_
  <2> QED
    BY <2>1 DEF Schema
<1>11. \A m \in
       {"background_enabled", "concurrency", "per_task_timeout_ms"} : Has("analyzers", m)
  <2>1. \A m \in
       {"background_enabled", "concurrency", "per_task_timeout_ms"} :
         \E x \in RuntimeSchema : x.key = <<"analyzers", m>>
    BY DEF RuntimeSchema, On, Off, Plain, Number, OneOf, Field_
  <2> QED
    BY <2>1 DEF Schema
<1>12. \A m \in
       {"enabled", "command"} : Has("lizard", m)
  <2>1. \A m \in
       {"enabled", "command"} :
         \E x \in ToolSchema : x.key = <<"lizard", m>>
    BY DEF ToolSchema, On, Off, Plain, Number, OneOf, Field_
  <2> QED
    BY <2>1 DEF Schema
<1>13. \A m \in
       {"enabled", "window_size", "min_unique_tokens", "semantic", "semantic_threshold",
        "semantic_max_chunks"} : Has("duplicates", m)
  <2>1. \A m \in
       {"enabled", "window_size", "min_unique_tokens", "semantic", "semantic_threshold",
        "semantic_max_chunks"} :
         \E x \in ToolSchema : x.key = <<"duplicates", m>>
    BY DEF ToolSchema, On, Off, Plain, Number, OneOf, Field_
  <2> QED
    BY <2>1 DEF Schema
<1>14. \A m \in
       {"enabled", "command", "rule_dirs", "registry_config", "max_findings_per_file"} : Has("semgrep", m)
  <2>1. \A m \in
       {"enabled", "command", "rule_dirs", "registry_config", "max_findings_per_file"} :
         \E x \in ToolSchema : x.key = <<"semgrep", m>>
    BY DEF ToolSchema, On, Off, Plain, Number, OneOf, Field_
  <2> QED
    BY <2>1 DEF Schema
<1>15. \A m \in
       {"enabled", "command", "rule_dirs", "bundled_rules", "max_findings_per_file"} : Has("astGrep", m)
  <2>1. \A m \in
       {"enabled", "command", "rule_dirs", "bundled_rules", "max_findings_per_file"} :
         \E x \in RuleSchema : x.key = <<"astGrep", m>>
    BY DEF RuleSchema, On, Off, Plain, Number, OneOf, Field_
  <2> QED
    BY <2>1 DEF Schema
<1>16. \A m \in
       {"enabled", "god_file_nloc", "god_file_exports", "max_params", "max_nesting_depth", "escalate_ccn",
        "max_fan_out", "max_fan_in", "max_findings_per_file"} : Has("quality", m)
  <2>1. \A m \in
       {"enabled", "god_file_nloc", "god_file_exports", "max_params", "max_nesting_depth", "escalate_ccn",
        "max_fan_out", "max_fan_in", "max_findings_per_file"} :
         \E x \in RuleSchema : x.key = <<"quality", m>>
    BY DEF RuleSchema, On, Off, Plain, Number, OneOf, Field_
  <2> QED
    BY <2>1 DEF Schema
<1>17. \A m \in
       {"markdown_rules", "doc_drift_floor"} : Has("quality", m)
  <2>1. \A m \in
       {"markdown_rules", "doc_drift_floor"} :
         \E x \in ContextSchema : x.key = <<"quality", m>>
    BY DEF ContextSchema, On, Off, Plain, Number, OneOf, Field_
  <2> QED
    BY <2>1 DEF Schema
<1>18. \A m \in
       {"enabled", "okf_default", "globs", "schemas", "require_frontmatter", "check_links",
        "max_findings_per_file"} : Has("definitions", m)
  <2>1. \A m \in
       {"enabled", "okf_default", "globs", "schemas", "require_frontmatter", "check_links",
        "max_findings_per_file"} :
         \E x \in ContextSchema : x.key = <<"definitions", m>>
    BY DEF ContextSchema, On, Off, Plain, Number, OneOf, Field_
  <2> QED
    BY <2>1 DEF Schema
<1> HIDE DEF Has
<1>19. Has(s, n)
  BY <1>1, <1>2, <1>3, <1>4, <1>5, <1>6, <1>7, <1>8, <1>9, <1>10, <1>11, <1>12, <1>13, <1>14, <1>15, <1>16, <1>17, <1>18
     DEF IsKnown
<1> QED
  BY <1>19 DEF Has

LEMMA RulePackIsSound ==
  ASSUME NEW s \in {"semgrep", "astGrep"}, NEW x \in RulePackLeaves(s)
  PROVE  LeafIsSound(x)
<1>1. IsSetting(s, "enabled", "bool") /\ IsSetting(s, "rule_dirs", "list")
  BY DEF IsSetting, IsKnown, BoolNames, ListNames
<1>2. IsSetting(s, "max_findings_per_file", "int")
  BY DEF IsSetting, IsKnown, IntNames
<1> QED
  BY <1>1, <1>2, LeafRow, LeafSwitchRow DEF RulePackLeaves

LEMMA KnownLeaves ==
  ASSUME NEW s, NEW n, IsKnown(s, n)
  PROVE  \E x \in Leaves : x.key = <<s, n>>
<1> DEFINE Has(a, m) == \E x \in Leaves : x.key = <<a, m>>
<1>1. \A m \in
       {"workspace_roots"} : Has(NoText, m)
  <2>1. \A m \in
       {"workspace_roots"} :
         \E x \in CoreLeaves : x.key = <<NoText, m>>
    BY DEF CoreLeaves, LeafOn, LeafOff, Leaf
  <2> QED
    BY <2>1 DEF Leaves
<1>2. \A m \in
       {"provider", "model", "normalize"} : Has("embedding", m)
  <2>1. \A m \in
       {"provider", "model", "normalize"} :
         \E x \in CoreLeaves : x.key = <<"embedding", m>>
    BY DEF CoreLeaves, LeafOn, LeafOff, Leaf
  <2> QED
    BY <2>1 DEF Leaves
<1>3. \A m \in
       {"debounce_ms"} : Has("watcher", m)
  <2>1. \A m \in
       {"debounce_ms"} :
         \E x \in CoreLeaves : x.key = <<"watcher", m>>
    BY DEF CoreLeaves, LeafOn, LeafOff, Leaf
  <2> QED
    BY <2>1 DEF Leaves
<1>4. \A m \in
       {"port", "hostname"} : Has("daemon", m)
  <2>1. \A m \in
       {"port", "hostname"} :
         \E x \in CoreLeaves : x.key = <<"daemon", m>>
    BY DEF CoreLeaves, LeafOn, LeafOff, Leaf
  <2> QED
    BY <2>1 DEF Leaves
<1>5. \A m \in
       {"mode", "rrf_k"} : Has("retrieval", m)
  <2>1. \A m \in
       {"mode", "rrf_k"} :
         \E x \in CoreLeaves : x.key = <<"retrieval", m>>
    BY DEF CoreLeaves, LeafOn, LeafOff, Leaf
  <2> QED
    BY <2>1 DEF Leaves
<1>6. \A m \in
       {"run_on_start", "interval_seconds"} : Has("reconciliation", m)
  <2>1. \A m \in
       {"run_on_start", "interval_seconds"} :
         \E x \in CoreLeaves : x.key = <<"reconciliation", m>>
    BY DEF CoreLeaves, LeafOn, LeafOff, Leaf
  <2> QED
    BY <2>1 DEF Leaves
<1>7. \A m \in
       {"compact_interval_hours"} : Has("maintenance", m)
  <2>1. \A m \in
       {"compact_interval_hours"} :
         \E x \in CoreLeaves : x.key = <<"maintenance", m>>
    BY DEF CoreLeaves, LeafOn, LeafOff, Leaf
  <2> QED
    BY <2>1 DEF Leaves
<1>8. \A m \in
       {"extra_markers", "max_depth"} : Has("discovery", m)
  <2>1. \A m \in
       {"extra_markers", "max_depth"} :
         \E x \in CoreLeaves : x.key = <<"discovery", m>>
    BY DEF CoreLeaves, LeafOn, LeafOff, Leaf
  <2> QED
    BY <2>1 DEF Leaves
<1>9. \A m \in
       {"log_max_rows", "admin_enabled"} : Has("mcp", m)
  <2>1. \A m \in
       {"log_max_rows", "admin_enabled"} :
         \E x \in CoreLeaves : x.key = <<"mcp", m>>
    BY DEF CoreLeaves, LeafOn, LeafOff, Leaf
  <2> QED
    BY <2>1 DEF Leaves
<1>10. \A m \in
       {"ca_cert", "proxy", "strict_ssl"} : Has("network", m)
  <2>1. \A m \in
       {"ca_cert", "proxy", "strict_ssl"} :
         \E x \in CoreLeaves : x.key = <<"network", m>>
    BY DEF CoreLeaves, LeafOn, LeafOff, Leaf
  <2> QED
    BY <2>1 DEF Leaves
<1>11. \A m \in
       {"background_enabled", "concurrency", "per_task_timeout_ms"} : Has("analyzers", m)
  <2>1. \A m \in
       {"background_enabled", "concurrency", "per_task_timeout_ms"} :
         \E x \in AnalyzerLeaves : x.key = <<"analyzers", m>>
    BY DEF AnalyzerLeaves, LeafOn, LeafOff, Leaf
  <2> QED
    BY <2>1 DEF Leaves
<1>12. \A m \in
       {"enabled", "command"} : Has("lizard", m)
  <2>1. \A m \in
       {"enabled", "command"} :
         \E x \in AnalyzerLeaves : x.key = <<"lizard", m>>
    BY DEF AnalyzerLeaves, LeafOn, LeafOff, Leaf
  <2> QED
    BY <2>1 DEF Leaves
<1>13. \A m \in
       {"enabled", "window_size", "min_unique_tokens", "semantic", "semantic_threshold",
        "semantic_max_chunks"} : Has("duplicates", m)
  <2>1. \A m \in
       {"enabled", "window_size", "min_unique_tokens", "semantic", "semantic_threshold",
        "semantic_max_chunks"} :
         \E x \in AnalyzerLeaves : x.key = <<"duplicates", m>>
    BY DEF AnalyzerLeaves, LeafOn, LeafOff, Leaf
  <2> QED
    BY <2>1 DEF Leaves
<1>14. \A m \in
       {"command", "registry_config"} : Has("semgrep", m)
  <2>1. \A m \in
       {"command", "registry_config"} :
         \E x \in AnalyzerLeaves : x.key = <<"semgrep", m>>
    BY DEF AnalyzerLeaves, LeafOn, LeafOff, Leaf
  <2> QED
    BY <2>1 DEF Leaves
<1>15. \A m \in
       {"enabled", "rule_dirs", "max_findings_per_file"} : Has("semgrep", m)
  <2>1. \A m \in
       {"enabled", "rule_dirs", "max_findings_per_file"} :
         \E x \in RulePackLeaves("semgrep") : x.key = <<"semgrep", m>>
    BY DEF RulePackLeaves, LeafOn, LeafOff, Leaf
  <2> QED
    BY <2>1 DEF Leaves
<1>16. \A m \in
       {"command", "bundled_rules"} : Has("astGrep", m)
  <2>1. \A m \in
       {"command", "bundled_rules"} :
         \E x \in AnalyzerLeaves : x.key = <<"astGrep", m>>
    BY DEF AnalyzerLeaves, LeafOn, LeafOff, Leaf
  <2> QED
    BY <2>1 DEF Leaves
<1>17. \A m \in
       {"enabled", "rule_dirs", "max_findings_per_file"} : Has("astGrep", m)
  <2>1. \A m \in
       {"enabled", "rule_dirs", "max_findings_per_file"} :
         \E x \in RulePackLeaves("astGrep") : x.key = <<"astGrep", m>>
    BY DEF RulePackLeaves, LeafOn, LeafOff, Leaf
  <2> QED
    BY <2>1 DEF Leaves
<1>18. \A m \in
       {"globs", "schemas", "enabled", "okf_default", "require_frontmatter", "check_links",
        "max_findings_per_file"} : Has("definitions", m)
  <2>1. \A m \in
       {"globs", "schemas", "enabled", "okf_default", "require_frontmatter", "check_links",
        "max_findings_per_file"} :
         \E x \in AnalyzerLeaves : x.key = <<"definitions", m>>
    BY DEF AnalyzerLeaves, LeafOn, LeafOff, Leaf
  <2> QED
    BY <2>1 DEF Leaves
<1>19. \A m \in
       {"enabled", "god_file_nloc", "god_file_exports", "max_params", "max_nesting_depth", "escalate_ccn",
        "max_fan_out", "max_fan_in", "max_findings_per_file", "markdown_rules", "doc_drift_floor"} : Has("quality", m)
  <2>1. \A m \in
       {"enabled", "god_file_nloc", "god_file_exports", "max_params", "max_nesting_depth", "escalate_ccn",
        "max_fan_out", "max_fan_in", "max_findings_per_file", "markdown_rules", "doc_drift_floor"} :
         \E x \in AnalyzerLeaves : x.key = <<"quality", m>>
    BY DEF AnalyzerLeaves, LeafOn, LeafOff, Leaf
  <2> QED
    BY <2>1 DEF Leaves
<1> HIDE DEF Has
<1>20. Has(s, n)
  BY <1>1, <1>2, <1>3, <1>4, <1>5, <1>6, <1>7, <1>8, <1>9, <1>10, <1>11, <1>12, <1>13, <1>14, <1>15, <1>16, <1>17, <1>18, <1>19
     DEF IsKnown
<1> QED
  BY <1>20 DEF Has

(* What the two tables say of one setting fits.                            *)
LEMMA SchemaIsSound == \A f \in Schema : FieldIsSound(f)
  BY CoreSchemaIsSound, RuntimeSchemaIsSound, ToolSchemaIsSound, RuleSchemaIsSound, ContextSchemaIsSound DEF Schema

LEMMA LeavesAreSound == \A leaf \in Leaves : LeafIsSound(leaf)
<1>1. \A leaf \in RulePackLeaves("semgrep") \cup RulePackLeaves("astGrep") : LeafIsSound(leaf)
  BY RulePackIsSound
<1> QED
  BY <1>1, CoreLeavesIsSound, AnalyzerLeavesIsSound DEF Leaves

LEMMA SameSettings ==
  /\ DOMAIN LeafOf = DOMAIN FieldOf
  /\ \A f \in Schema : f.key \in DOMAIN FieldOf
  /\ \A leaf \in Leaves : leaf.key \in DOMAIN LeafOf
  /\ \A k \in DOMAIN FieldOf : FieldOf[k] \in Schema /\ FieldOf[k].key = k
  /\ \A k \in DOMAIN LeafOf : LeafOf[k] \in Leaves /\ LeafOf[k].key = k
<1>1. \A f \in Schema : \E leaf \in Leaves : leaf.key = f.key
  BY SchemaIsSound, KnownLeaves DEF FieldIsSound, IsSetting
<1>2. \A leaf \in Leaves : \E f \in Schema : leaf.key = f.key
  BY LeavesAreSound, KnownFields DEF LeafIsSound, IsSetting
<1>3. DOMAIN FieldOf = {f.key : f \in Schema} /\ DOMAIN LeafOf = {leaf.key : leaf \in Leaves}
  BY DEF FieldOf, LeafOf
<1>4. \A k \in {f.key : f \in Schema} : FieldOf[k] = CHOOSE f \in Schema : f.key = k
  BY DEF FieldOf
<1>5. \A k \in {leaf.key : leaf \in Leaves} : LeafOf[k] = CHOOSE leaf \in Leaves : leaf.key = k
  BY DEF LeafOf
<1>6. \A k \in DOMAIN FieldOf : FieldOf[k] \in Schema /\ FieldOf[k].key = k
  BY <1>3, <1>4
<1>7. \A k \in DOMAIN LeafOf : LeafOf[k] \in Leaves /\ LeafOf[k].key = k
  BY <1>3, <1>5
<1> QED
  BY <1>1, <1>2, <1>3, <1>6, <1>7

LEMMA ValidIsAccepted ==
  ASSUME NEW f \in Schema, NEW leaf \in Leaves, leaf.key = f.key, NEW value, ValidateValue(f, value)
  PROVE  Accepts(leaf, value)
<1>1. PICK s, n : /\ f.key = <<s, n>> /\ IsSetting(s, n, KindOf(f.type)) /\ f.min \in Nat
                  /\ f.type = "int" \/ KindOf(f.type) # "int"
                  /\ n = "mode" => f.type = "enum" /\ f.enum = {"hybrid", "vector", "lexical"}
  BY SchemaIsSound DEF FieldIsSound
<1>2. IsSetting(s, n, leaf.kind)
  BY <1>1, LeavesAreSound DEF LeafIsSound
<1>3. leaf.kind = KindOf(f.type)
  BY <1>1, <1>2, NamesDiffer
<1>4. leaf.kind = "int" => value.value >= 0
  <2> SUFFICES ASSUME leaf.kind = "int" PROVE value.value >= 0
    OBVIOUS
  <2>1. value.value \in f.min..f.max
    BY <1>1, <1>3 DEF ValidateValue
  <2> QED
    BY <1>1, <2>1
<1>5. leaf.key = <<"retrieval", "mode">> => value.value \in {"hybrid", "vector", "lexical"}
  BY <1>1 DEF ValidateValue
<1> QED
  BY <1>3, <1>4, <1>5 DEF Accepts, ValidateValue

(* TablesAgree: the schema and the mergers describe the same settings.     *)
LEMMA FieldsAgree ==
  ASSUME NEW f \in Schema
  PROVE  TablesAgree(f)
<1>1. f.key \in DOMAIN LeafOf /\ LeafOf[f.key] \in Leaves /\ LeafOf[f.key].key = f.key
  BY SameSettings
<1>2. \A value : ValidateValue(f, value) => Accepts(LeafOf[f.key], value)
  BY <1>1, ValidIsAccepted
<1> QED
  BY <1>2, SameSettings DEF TablesAgree

(* Writing a patch: of any file and any patch.                             *)
LEMMA NoOddSections ==
  \A s, n : IsKnown(s, n) => s # "ast_grep" /\ s # "filtering" /\ s # "indexing"
<1>1. NoText # "ast_grep" /\ NoText # "filtering" /\ NoText # "indexing"
  BY DEF NoText
<1> QED
  BY <1>1 DEF IsKnown

LEMMA NoEmptyName == \A s : ~IsKnown(s, NoText)
BY DEF IsKnown, NoText

(* What a valid patch holds.                                               *)
LEMMA PatchIs ==
  ASSUME NEW patch, ValidatePatch(patch) = {}, NEW k \in DOMAIN patch
  PROVE  /\ k \in DOMAIN FieldOf /\ k \in DOMAIN LeafOf /\ ValidateValue(FieldOf[k], patch[k])
         /\ k = <<k[1], k[2]>> /\ IsKnown(k[1], k[2])
         /\ \A leaf \in Leaves : leaf.key = k => Accepts(leaf, patch[k])
<1>1. k \in DOMAIN FieldOf /\ ValidateValue(FieldOf[k], patch[k])
  BY DEF ValidatePatch
<1>2. k \in DOMAIN LeafOf /\ FieldOf[k] \in Schema /\ FieldOf[k].key = k
  BY <1>1, SameSettings
<1>3. PICK s, n : k = <<s, n>> /\ IsKnown(s, n)
  BY <1>2, SchemaIsSound DEF FieldIsSound, IsSetting
<1> QED
  BY <1>1, <1>2, <1>3, ValidIsAccepted

(* The file that a patch is written to.                                    *)
LEMMA WrittenFile ==
  ASSUME NEW file, NEW patch, ValidatePatch(patch) = {}, Settable(file, patch)
  PROVE  LET new == WriteConfigPatch(file, patch) IN
         /\ DOMAIN new = DOMAIN file \cup DOMAIN patch
         /\ \A k \in DOMAIN new : new[k] = IF k \in DOMAIN patch THEN patch[k] ELSE file[k]
         /\ Sections(new) = Sections(file) \cup Sections(patch)
         /\ \A s \in Sections(patch) : s # "ast_grep" /\ s # "filtering" /\ s # "indexing"
         /\ \A s : Bare(s) \notin DOMAIN patch
<1> DEFINE new == WriteConfigPatch(file, patch)
<1>1. new = [k \in DOMAIN file \cup DOMAIN patch |-> IF k \in DOMAIN patch THEN patch[k] ELSE file[k]]
  BY DEF WriteConfigPatch
<1>2. DOMAIN new = DOMAIN file \cup DOMAIN patch
  BY <1>1
<1>3. \A k \in DOMAIN new : new[k] = IF k \in DOMAIN patch THEN patch[k] ELSE file[k]
  BY <1>1
<1> HIDE DEF new
<1>4. Sections(new) = Sections(file) \cup Sections(patch)
  BY <1>2 DEF Sections
<1>5. \A s \in Sections(patch) : s # "ast_grep" /\ s # "filtering" /\ s # "indexing"
  BY PatchIs, NoOddSections DEF Sections
<1>6. \A s : Bare(s) \notin DOMAIN patch
  <2> SUFFICES ASSUME NEW s, <<s, NoText>> \in DOMAIN patch PROVE FALSE
    BY DEF Bare
  <2>1. IsKnown(<<s, NoText>>[1], <<s, NoText>>[2])
    BY PatchIs
  <2>2. IsKnown(s, NoText)
    BY <2>1
  <2> QED
    BY <2>2, NoEmptyName
<1> QED
  BY <1>2, <1>3, <1>4, <1>5, <1>6 DEF new

(* A setting is read from where it was, or where it was written.           *)
Spot(file, leaf) == <<SectionOf(file, leaf.key[1]), leaf.key[2]>>

Loads(file) ==
  /\ Sections(file) \cap {"filtering", "indexing"} = {}
  /\ \A leaf \in Leaves : Spot(file, leaf) \in DOMAIN file => Accepts(leaf, file[Spot(file, leaf)])
  /\ \A leaf \in Leaves : LET b == Bare(SectionOf(file, leaf.key[1]))
                          IN  b \in DOMAIN file => file[b].kind = "null"

LEMMA LoadConfigIs ==
  ASSUME NEW file
  PROVE  /\ ~LoadConfig(file).error <=> Loads(file)
         /\ Loads(file) => /\ DOMAIN LoadConfig(file).settings = DOMAIN LeafOf
                           /\ \A k \in DOMAIN LeafOf : LoadConfig(file).settings[k] = Pick(file, LeafOf[k])
<1>1. CASE Loads(file)
  <2>1. LoadConfig(file) = [settings |-> [k \in DOMAIN LeafOf |-> Pick(file, LeafOf[k])], error |-> FALSE]
    BY <1>1 DEF LoadConfig, Loads, Spot
  <2> QED
    BY <1>1, <2>1
<1>2. CASE ~Loads(file)
  <2>1. LoadConfig(file) = Failed
    BY <1>2 DEF LoadConfig, Loads, Spot
  <2> QED
    BY <1>2, <2>1 DEF Failed
<1> QED
  BY <1>1, <1>2

(* Where a leaf is found after a write.                                    *)
LEMMA SpotAfter ==
  ASSUME NEW file, NEW patch, ValidatePatch(patch) = {}, Settable(file, patch), NEW leaf \in Leaves
  PROVE  LET new == WriteConfigPatch(file, patch) IN
         /\ Spot(new, leaf) \in DOMAIN patch => Spot(new, leaf) = leaf.key
         /\ Spot(new, leaf) \in DOMAIN new \ DOMAIN patch =>
              Spot(new, leaf) = Spot(file, leaf) /\ Spot(file, leaf) \in DOMAIN file
         /\ leaf.key \in DOMAIN patch => Spot(new, leaf) = leaf.key
<1> DEFINE new == WriteConfigPatch(file, patch)
<1>1. PICK s, n : leaf.key = <<s, n>> /\ IsKnown(s, n)
  BY LeavesAreSound DEF LeafIsSound, IsSetting
<1>2. /\ DOMAIN new = DOMAIN file \cup DOMAIN patch
      /\ Sections(new) = Sections(file) \cup Sections(patch)
      /\ \A t \in Sections(patch) : t # "ast_grep"
  BY WrittenFile
<1> HIDE DEF new
<1>3. s # "astGrep" => Spot(new, leaf) = leaf.key /\ Spot(file, leaf) = leaf.key
  BY <1>1 DEF Spot, SectionOf
<1>4. "astGrep" \in Sections(file) => Spot(new, leaf) = leaf.key /\ Spot(file, leaf) = leaf.key
  BY <1>1, <1>2 DEF Spot, SectionOf
<1>5. CASE s = "astGrep" /\ "astGrep" \notin Sections(file)
  <2>1. \A m : <<"astGrep", m>> \notin DOMAIN file
    BY <1>5 DEF Sections
  <2>2. \A m : <<"ast_grep", m>> \notin DOMAIN patch
    BY <1>2 DEF Sections
  <2>3. Spot(file, leaf) = <<"ast_grep", n>>
    BY <1>1, <1>5 DEF Spot, SectionOf
  <2>4. CASE "astGrep" \in Sections(patch)
    <3>1. Spot(new, leaf) = leaf.key /\ leaf.key = <<"astGrep", n>>
      BY <1>1, <1>2, <1>5, <2>4 DEF Spot, SectionOf
    <3> QED
      BY <1>2, <2>1, <3>1 DEF new
  <2>5. CASE "astGrep" \notin Sections(patch)
    <3>1. Spot(new, leaf) = <<"ast_grep", n>>
      BY <1>1, <1>2, <1>5, <2>5 DEF Spot, SectionOf
    <3>2. leaf.key \notin DOMAIN patch
      BY <1>1, <1>5, <2>5 DEF Sections
    <3> QED
      BY <1>2, <2>2, <2>3, <3>1, <3>2 DEF new
  <2> QED
    BY <2>4, <2>5
<1>6. CASE s # "astGrep" \/ "astGrep" \in Sections(file)
  BY <1>2, <1>3, <1>4, <1>6 DEF new
<1> QED
  BY <1>5, <1>6

(* A section that is no mapping was none before the write.                 *)
LEMMA BareAfter ==
  ASSUME NEW file, NEW patch, ValidatePatch(patch) = {}, Settable(file, patch), NEW s
  PROVE  LET new == WriteConfigPatch(file, patch) IN
         Bare(SectionOf(new, s)) \in DOMAIN new => SectionOf(new, s) = SectionOf(file, s)
<1> DEFINE new == WriteConfigPatch(file, patch)
<1>1. /\ DOMAIN new = DOMAIN file \cup DOMAIN patch
      /\ Sections(new) = Sections(file) \cup Sections(patch)
      /\ \A t : Bare(t) \notin DOMAIN patch
  BY WrittenFile
<1> HIDE DEF new
<1>2. CASE s # "astGrep" \/ "astGrep" \in Sections(file)
  BY <1>1, <1>2 DEF SectionOf, new
<1>3. CASE s = "astGrep" /\ "astGrep" \notin Sections(file)
  <2>1. Bare("astGrep") \notin DOMAIN file
    BY <1>3 DEF Sections, Bare
  <2>2. Bare("astGrep") \notin DOMAIN new
    BY <1>1, <2>1
  <2>3. SectionOf(file, s) = "ast_grep"
    BY <1>3 DEF SectionOf
  <2>4. SectionOf(new, s) \in {"astGrep", "ast_grep"}
    BY <1>3 DEF SectionOf
  <2> QED
    BY <2>2, <2>3, <2>4 DEF new
<1> QED
  BY <1>2, <1>3

(* A file that loads still loads after a write.                            *)
LEMMA StillLoads ==
  ASSUME NEW file, NEW patch, ValidatePatch(patch) = {}, Settable(file, patch), Loads(file)
  PROVE  Loads(WriteConfigPatch(file, patch))
<1> DEFINE new == WriteConfigPatch(file, patch)
<1>1. /\ \A k \in DOMAIN new : new[k] = IF k \in DOMAIN patch THEN patch[k] ELSE file[k]
      /\ DOMAIN new = DOMAIN file \cup DOMAIN patch
      /\ Sections(new) = Sections(file) \cup Sections(patch)
      /\ \A s \in Sections(patch) : s # "filtering" /\ s # "indexing"
      /\ \A s : Bare(s) \notin DOMAIN patch
  BY WrittenFile
<1> HIDE DEF new
<1>2. Sections(new) \cap {"filtering", "indexing"} = {}
  BY <1>1 DEF Loads
<1>3. ASSUME NEW leaf \in Leaves, Spot(new, leaf) \in DOMAIN new
      PROVE  Accepts(leaf, new[Spot(new, leaf)])
  <2>1. CASE Spot(new, leaf) \in DOMAIN patch
    BY <1>1, <1>3, <2>1, SpotAfter, PatchIs DEF new
  <2>2. CASE Spot(new, leaf) \notin DOMAIN patch
    <3>1. Spot(new, leaf) = Spot(file, leaf) /\ Spot(file, leaf) \in DOMAIN file
      BY <1>3, <2>2, SpotAfter DEF new
    <3>2. new[Spot(new, leaf)] = file[Spot(file, leaf)]
      BY <1>1, <1>3, <2>2, <3>1
    <3> QED
      BY <3>1, <3>2 DEF Loads
  <2> QED
    BY <2>1, <2>2
<1>4. ASSUME NEW leaf \in Leaves, Bare(SectionOf(new, leaf.key[1])) \in DOMAIN new
      PROVE  new[Bare(SectionOf(new, leaf.key[1]))].kind = "null"
  <2> DEFINE b == Bare(SectionOf(new, leaf.key[1]))
  <2>1. b = Bare(SectionOf(file, leaf.key[1]))
    BY <1>4, BareAfter DEF new
  <2>2. b \notin DOMAIN patch
    BY <1>1
  <2>3. b \in DOMAIN new
    BY <1>4
  <2> HIDE DEF b
  <2>4. b \in DOMAIN file /\ new[b] = file[b]
    BY <1>1, <2>2, <2>3
  <2>5. file[b].kind = "null"
    BY <2>1, <2>4 DEF Loads
  <2> QED
    BY <2>4, <2>5 DEF b
<1> QED
  BY <1>2, <1>3, <1>4 DEF Loads, new

(* Of any file that loads and any patch: the file still loads; a patch that*)
(* is refused or names an empty section changes nothing, any other is what *)
(* the daemon uses and the editor shows.                                   *)
THEOREM WritesAreLoaded ==
  ASSUME NEW file, NEW patch
  PROVE  WrittenIsUsed(file, patch)
<1> DEFINE new == WriteConfigPatch(file, patch)
<1> SUFFICES ASSUME ~LoadConfig(file).error
             PROVE  /\ ~LoadConfig(new).error
                    /\ ValidatePatch(patch) # {} \/ ~Settable(file, patch) => new = file
                    /\ ValidatePatch(patch) = {} /\ Settable(file, patch) =>
                         \A k \in DOMAIN patch :
                           /\ LoadConfig(new).settings[k].source = "global"
                           /\ ReadLayerSnapshot(new)[k] = patch[k]
                           /\ LoadConfig(new).settings[k].v \in {patch[k].value, Null}
  BY DEF WrittenIsUsed
<1>1. Loads(file)
  BY LoadConfigIs
<1>2. CASE ValidatePatch(patch) # {} \/ ~Settable(file, patch)
  BY <1>1, <1>2, LoadConfigIs DEF WriteConfigPatch
<1>3. CASE ValidatePatch(patch) = {} /\ Settable(file, patch)
  <2>1. Loads(new)
    BY <1>1, <1>3, StillLoads
  <2>2. /\ \A k \in DOMAIN new : new[k] = IF k \in DOMAIN patch THEN patch[k] ELSE file[k]
        /\ DOMAIN new = DOMAIN file \cup DOMAIN patch
    BY <1>3, WrittenFile
  <2> HIDE DEF new
  <2>3. ~LoadConfig(new).error /\ \A k \in DOMAIN LeafOf : LoadConfig(new).settings[k] = Pick(new, LeafOf[k])
    BY <2>1, LoadConfigIs
  <2>4. ASSUME NEW k \in DOMAIN patch
        PROVE  /\ LoadConfig(new).settings[k].source = "global"
               /\ ReadLayerSnapshot(new)[k] = patch[k]
               /\ LoadConfig(new).settings[k].v \in {patch[k].value, Null}
    <3>1. k \in DOMAIN FieldOf /\ k \in DOMAIN LeafOf /\ ValidateValue(FieldOf[k], patch[k])
      BY <1>3, PatchIs
    <3>2. LeafOf[k] \in Leaves /\ LeafOf[k].key = k
      BY <3>1, SameSettings
    <3>3. Spot(new, LeafOf[k]) = k
      BY <1>3, <3>2, SpotAfter DEF new
    <3>4. k \in DOMAIN new /\ new[k] = patch[k]
      BY <2>2
    <3>5. /\ Pick(new, LeafOf[k]).source = "global"
          /\ Pick(new, LeafOf[k]).v \in {patch[k].value, Null}
      BY <3>3, <3>4 DEF Pick, Spot
    <3>6. ReadLayerSnapshot(new)[k] = patch[k]
      <4>1. FieldOf[k].type = "int" => patch[k].kind # "digits"
        BY <3>1 DEF ValidateValue, KindOf
      <4> QED
        BY <3>1, <3>4, <4>1 DEF ReadLayerSnapshot
    <3> QED
      BY <2>3, <3>1, <3>5, <3>6
  <2> QED
    BY <1>3, <2>3, <2>4
<1> QED
  BY <1>2, <1>3

(* A write leaves every setting alone that the patch does not name, if the *)
(* file spells the sections as the schema does.                            *)
THEOREM OthersAreLeftAlone ==
  ASSUME NEW file, NEW patch
  PROVE  PatchIsPartialByName(file, patch)
<1> DEFINE new == WriteConfigPatch(file, patch)
<1> SUFFICES ASSUME "ast_grep" \notin Sections(file), ~LoadConfig(file).error,
                    NEW k \in DOMAIN LeafOf, k \notin DOMAIN patch
             PROVE  LoadConfig(new).settings[k].v = LoadConfig(file).settings[k].v
  BY DEF PatchIsPartialByName, PatchIsPartial
<1>1. Loads(file)
  BY LoadConfigIs
<1>2. CASE ValidatePatch(patch) # {} \/ ~Settable(file, patch)
  BY <1>1, <1>2, LoadConfigIs DEF WriteConfigPatch
<1>3. CASE ValidatePatch(patch) = {} /\ Settable(file, patch)
  <2>1. Loads(new)
    BY <1>1, <1>3, StillLoads
  <2>2. /\ DOMAIN new = DOMAIN file \cup DOMAIN patch
        /\ \A j \in DOMAIN new : new[j] = IF j \in DOMAIN patch THEN patch[j] ELSE file[j]
        /\ Sections(new) = Sections(file) \cup Sections(patch)
        /\ \A s \in Sections(patch) : s # "ast_grep"
    BY <1>3, WrittenFile
  <2> HIDE DEF new
  <2> DEFINE leaf == LeafOf[k]
  <2>3. leaf \in Leaves /\ leaf.key = k
    BY SameSettings
  <2>4. PICK s, n : k = <<s, n>> /\ s # "ast_grep"
    BY <2>3, LeavesAreSound, NoOddSections DEF LeafIsSound, IsSetting
  <2> HIDE DEF leaf
  <2>5. \A m : <<"ast_grep", m>> \notin DOMAIN file /\ <<"ast_grep", m>> \notin DOMAIN new
    BY <2>2 DEF Sections
  <2>6. Spot(file, leaf) \in DOMAIN file => Spot(file, leaf) = k
    BY <2>3, <2>4, <2>5 DEF Spot, SectionOf
  <2>7. Spot(new, leaf) \in DOMAIN new => Spot(new, leaf) = k
    BY <2>3, <2>4, <2>5 DEF Spot, SectionOf
  <2>8. k \in DOMAIN file => Spot(file, leaf) = k
    BY <2>3, <2>4 DEF Spot, SectionOf, Sections
  <2>9. k \in DOMAIN new => Spot(new, leaf) = k
    BY <2>3, <2>4 DEF Spot, SectionOf, Sections
  <2>10. k \in DOMAIN new <=> k \in DOMAIN file
    BY <2>2
  <2>11. k \in DOMAIN file => new[k] = file[k]
    BY <2>2
  <2>12. Pick(new, leaf).v = Pick(file, leaf).v
    <3>1. CASE k \in DOMAIN file
      BY <2>8, <2>9, <2>10, <2>11, <3>1 DEF Pick, Spot
    <3>2. CASE k \notin DOMAIN file
      <4>1. Spot(file, leaf) \notin DOMAIN file /\ Spot(new, leaf) \notin DOMAIN new
        BY <2>6, <2>7, <2>10, <3>2
      <4> QED
        BY <4>1 DEF Pick, Spot
    <3> QED
      BY <3>1, <3>2
  <2> QED
    BY <1>1, <2>1, <2>12, LoadConfigIs DEF leaf
<1> QED
  BY <1>2, <1>3

-----------------------------------------------------------------------------
(* A gold set of any judgements of grades 0, 1 and 2.                      *)
Graded(qrels) == qrels \in Seq(Range(qrels)) /\ \A i \in DOMAIN qrels : qrels[i].grade \in 0..2

(* The relevant ones of the higher grade.                                  *)
Twos(qrels) == {i \in Relevant(qrels) : qrels[i].grade = 2}

LEMMA RelevantAre ==
  ASSUME NEW qrels, Graded(qrels)
  PROVE  /\ IsFiniteSet(Relevant(qrels)) /\ IsFiniteSet(Twos(qrels))
         /\ Relevant(qrels) \subseteq Nat /\ Twos(qrels) \subseteq Relevant(qrels)
         /\ \A i \in Relevant(qrels) : qrels[i].grade \in 1..2
         /\ Cardinality(Relevant(qrels)) \in Nat /\ Cardinality(Twos(qrels)) \in Nat
         /\ Cardinality(Twos(qrels)) <= Cardinality(Relevant(qrels))
<1>1. Len(qrels) \in Nat /\ DOMAIN qrels = 1..Len(qrels)
  BY DEF Graded
<1>2. IsFiniteSet(DOMAIN qrels)
  BY <1>1, FS_Interval
<1>3. Relevant(qrels) \subseteq DOMAIN qrels /\ Twos(qrels) \subseteq Relevant(qrels)
  BY DEF Relevant, Twos
<1>4. IsFiniteSet(Relevant(qrels)) /\ IsFiniteSet(Twos(qrels))
  BY <1>2, <1>3, FS_Subset
<1>5. \A i \in Relevant(qrels) : qrels[i].grade \in 1..2
  BY DEF Relevant, Graded
<1> QED
  BY <1>1, <1>3, <1>4, <1>5, FS_CardinalityType, FS_Subset

(* What is open for a rank.                                                *)
Open(d, qrels, consumed) == {i \in Relevant(qrels) \ consumed : QrelMatchesDoc(qrels[i], d)}

(* The best open judgement is one of the highest grade, if any is open.    *)
LEMMA BestIs ==
  ASSUME NEW qrels, Graded(qrels), NEW d, NEW consumed
  PROVE  \/ Open(d, qrels, consumed) = {} /\ BestUnconsumedMatch(d, qrels, consumed) = {}
         \/ \E i \in Open(d, qrels, consumed) : BestUnconsumedMatch(d, qrels, consumed) = {i}
<1> DEFINE open == Open(d, qrels, consumed)
           twos == {i \in open : qrels[i].grade = 2}
           best == {i \in open : \A j \in open : qrels[i].grade > qrels[j].grade
                                                   \/ (qrels[i].grade = qrels[j].grade /\ i <= j)}
<1>1. best = BestUnconsumedMatch(d, qrels, consumed)
  BY DEF BestUnconsumedMatch, Open
<1>2. \A i \in open : i \in Nat /\ qrels[i].grade \in 1..2
  BY RelevantAre DEF Open
<1> HIDE DEF open
<1>3. CASE open = {}
  BY <1>1, <1>3 DEF open
<1>4. CASE twos # {}
  <2>1. PICK i \in twos : \A j \in twos : i <= j
    <3>1. twos \in SUBSET Nat
      BY <1>2
    <3> QED
      BY <3>1, <1>4, LeastOf
  <2>2. i \in best
    BY <1>2, <2>1
  <2>3. \A j \in best : j = i
    BY <1>2, <2>1, <2>2
  <2>4. best = {i} /\ i \in open
    BY <2>2, <2>3
  <2> QED
    BY <2>4, <1>1 DEF open
<1>5. CASE open # {} /\ twos = {}
  <2>1. PICK i \in open : \A j \in open : i <= j
    <3>1. open \in SUBSET Nat
      BY <1>2
    <3> QED
      BY <3>1, <1>5, LeastOf
  <2>0. \A j \in open : qrels[j].grade = 1
    BY <1>2, <1>5
  <2>2. i \in best
    BY <1>2, <2>1, <2>0
  <2>3. \A j \in best : j = i
    BY <1>2, <2>1, <2>2, <2>0
  <2>4. best = {i} /\ i \in open
    BY <2>2, <2>3
  <2> QED
    BY <2>4, <1>1 DEF open
<1> QED
  BY <1>3, <1>4, <1>5

(* What the walk has: judgements credited, and their gain.                 *)
Credited(qrels) == [consumed : SUBSET Relevant(qrels), dcg : Nat]

(* The weights of the ranks are positive and decrease.                     *)
LEMMA WeightsAre ==
  /\ Len(Gain) \in Nat
  /\ \A r \in 1..Len(Gain) : Gain[r] \in Nat /\ Gain[r] > 0
  /\ \A r \in 1..Len(Gain) : r + 1 <= Len(Gain) => Gain[r + 1] <= Gain[r]
<1>1. Len(Gain) \in Nat /\ \A r \in 1..Len(Gain) : Gain[r] \in Nat \ {0}
  BY GainDecreases
<1>2. \A r \in 1..(Len(Gain) - 1) : Gain[r] > Gain[r + 1]
  BY GainDecreases
<1>3. \A r \in 1..Len(Gain) : r + 1 <= Len(Gain) => r \in 1..(Len(Gain) - 1) /\ r + 1 \in 1..Len(Gain)
  BY <1>1
<1> QED
  BY <1>1, <1>2, <1>3

(* One rank credits nothing, if nothing is open for it, or one more        *)
(* judgement.                                                              *)
CreditsOne(ranked, qrels, acc, next, r) ==
  \/ /\ next.consumed = acc.consumed /\ next.dcg = acc.dcg
     /\ r <= Len(ranked) => Open(ranked[r], qrels, acc.consumed) = {}
  \/ /\ r <= Len(ranked)
     /\ \E i \in Open(ranked[r], qrels, acc.consumed) :
          /\ next.consumed = acc.consumed \cup {i}
          /\ next.dcg = acc.dcg + GainOf(qrels[i].grade) * Gain[r]

LEMMA RankCredits ==
  ASSUME NEW ranked, NEW qrels, Graded(qrels), NEW acc \in Credited(qrels), NEW r \in 1..Len(Gain)
  PROVE  LET next == CreditRank(ranked, qrels, acc, r)
         IN  next \in Credited(qrels) /\ CreditsOne(ranked, qrels, acc, next, r)
<1> DEFINE best == IF r <= Len(ranked) THEN BestUnconsumedMatch(ranked[r], qrels, acc.consumed) ELSE {}
           next == CreditRank(ranked, qrels, acc, r)
<1>0. acc.consumed \in SUBSET Relevant(qrels) /\ acc.dcg \in Nat
  BY DEF Credited
<1>1. next = [consumed |-> acc.consumed \cup best,
              dcg |-> IF best = {} THEN acc.dcg
                      ELSE acc.dcg + GainOf(qrels[CHOOSE i \in best : TRUE].grade) * Gain[r]]
  BY DEF CreditRank
<1>2. /\ next.consumed = acc.consumed \cup best
      /\ next.dcg = IF best = {} THEN acc.dcg
                    ELSE acc.dcg + GainOf(qrels[CHOOSE i \in best : TRUE].grade) * Gain[r]
  BY <1>1
<1>3. \A c, g : c \in SUBSET Relevant(qrels) /\ g \in Nat => [consumed |-> c, dcg |-> g] \in Credited(qrels)
  BY DEF Credited
<1>4. next = [consumed |-> next.consumed, dcg |-> next.dcg]
  BY <1>1
<1> HIDE DEF next
<1>5. CASE best = {}
  <2>1. next.consumed = acc.consumed /\ next.dcg = acc.dcg
    BY <1>2, <1>5
  <2>2. next \in Credited(qrels)
    BY <2>1, <1>0, <1>3, <1>4
  <2>3. r <= Len(ranked) => Open(ranked[r], qrels, acc.consumed) = {}
    <3> SUFFICES ASSUME r <= Len(ranked) PROVE Open(ranked[r], qrels, acc.consumed) = {}
      OBVIOUS
    <3>1. BestUnconsumedMatch(ranked[r], qrels, acc.consumed) = {}
      BY <1>5
    <3> QED
      BY <3>1, BestIs
  <2> QED
    BY <2>1, <2>2, <2>3 DEF next, CreditsOne
<1>6. CASE best # {}
  <2>1. r <= Len(ranked) /\ best = BestUnconsumedMatch(ranked[r], qrels, acc.consumed)
    BY <1>6
  <2> HIDE DEF best
  <2>2. PICK i \in Open(ranked[r], qrels, acc.consumed) : best = {i}
    BY <2>1, <1>6, BestIs
  <2>3. (CHOOSE j \in best : TRUE) = i
    BY <2>2
  <2>4. next.consumed = acc.consumed \cup {i} /\ next.dcg = acc.dcg + GainOf(qrels[i].grade) * Gain[r]
    BY <1>2, <1>6, <2>2, <2>3
  <2>5. i \in Relevant(qrels) /\ qrels[i].grade \in 1..2
    BY <2>2, RelevantAre DEF Open
  <2>6. GainOf(qrels[i].grade) \in Nat /\ Gain[r] \in Nat
    BY <2>5, WeightsAre DEF GainOf
  <2>7. next.dcg \in Nat /\ next.consumed \in SUBSET Relevant(qrels)
    BY <2>4, <2>5, <2>6, <1>0
  <2>8. next \in Credited(qrels)
    BY <2>7, <1>3, <1>4
  <2> QED
    BY <2>1, <2>2, <2>4, <2>8 DEF next, CreditsOne
<1> QED
  BY <1>5, <1>6

(* The walk of a ranked list, and the ideal one.                           *)
IsCreditWalk(ranked, qrels, W) ==
  W = [r \in 0..Len(Gain) |->
         IF r = 0 THEN [consumed |-> {}, dcg |-> 0] ELSE CreditRank(ranked, qrels, W[r - 1], r)]
IsIdeal(qrels, I) ==
  I = [r \in 0..Len(Gain) |-> IF r = 0 THEN 0 ELSE I[r - 1] + GainOf(IdealGrade(qrels, r)) * Gain[r]]

LEMMA CreditWalkExists ==
  ASSUME NEW ranked, NEW qrels, Graded(qrels)
  PROVE  \E W : IsCreditWalk(ranked, qrels, W)
<1> DEFINE Vals == Credited(qrels)
           n == Len(Gain)
           s == [consumed |-> {}, dcg |-> 0]
           step(i, l) == IF i \in 1..n THEN CreditRank(ranked, qrels, l, i) ELSE l
           g == [x \in Nat \X Vals |-> step(x[1], x[2])]
<1>1. s \in Vals
  BY DEF Credited
<1>2. \A i \in Nat, l \in Vals : step(i, l) \in Vals
  BY RankCredits
<1>3. n \in Nat /\ g \in [Nat \X Vals -> Vals]
  BY <1>2, WeightsAre
<1>4. \A i \in Nat, l \in Vals : g[<<i, l>>] = step(i, l)
  OBVIOUS
<1> HIDE DEF Vals, g, s
<1>6. PICK F : IsRec(Vals, s, g, n, F)
  BY <1>3, <1>1, RecExists
<1>7. \A i \in 0..n : F[i] \in Vals
  BY <1>6 DEF IsRec
<1>8. \A i \in 0..n : i # 0 => g[<<i, F[i - 1]>>] = CreditRank(ranked, qrels, F[i - 1], i)
  <2> TAKE i \in 0..n
  <2> SUFFICES ASSUME i # 0 PROVE g[<<i, F[i - 1]>>] = CreditRank(ranked, qrels, F[i - 1], i)
    OBVIOUS
  <2>1. i \in Nat /\ i - 1 \in 0..n /\ i \in 1..n
    BY <1>3
  <2> QED
    BY <1>4, <1>7, <2>1
<1>9. F = [i \in 0..n |-> IF i = 0 THEN s ELSE CreditRank(ranked, qrels, F[i - 1], i)]
  BY <1>6, <1>8 DEF IsRec
<1> QED
  BY <1>9 DEF IsCreditWalk, s

LEMMA GainsAre ==
  ASSUME NEW qrels, NEW r
  PROVE  /\ IdealGrade(qrels, r) \in 0..2
         /\ GainOf(IdealGrade(qrels, r)) \in Nat
<1>1. IdealGrade(qrels, r) \in 0..2
  BY DEF IdealGrade
<1> QED
  BY <1>1 DEF GainOf

LEMMA IdealExists ==
  ASSUME NEW qrels
  PROVE  \E I : IsIdeal(qrels, I)
<1> DEFINE n == Len(Gain)
           step(i, l) == IF i \in 1..n THEN l + GainOf(IdealGrade(qrels, i)) * Gain[i] ELSE l
           g == [x \in Nat \X Nat |-> step(x[1], x[2])]
<1>2. \A i \in Nat, l \in Nat : step(i, l) \in Nat
  <2> TAKE i \in Nat, l \in Nat
  <2>1. CASE i \in 1..n
    <3>1. GainOf(IdealGrade(qrels, i)) \in Nat /\ Gain[i] \in Nat
      BY <2>1, GainsAre, WeightsAre
    <3> QED
      BY <3>1
  <2> QED
    BY <2>1
<1>3. n \in Nat /\ g \in [Nat \X Nat -> Nat]
  BY <1>2, WeightsAre
<1>4. \A i \in Nat, l \in Nat : g[<<i, l>>] = step(i, l)
  OBVIOUS
<1> HIDE DEF g
<1>6. PICK F : IsRec(Nat, 0, g, n, F)
  BY <1>3, RecExists
<1>7. \A i \in 0..n : F[i] \in Nat
  BY <1>6 DEF IsRec
<1>8. \A i \in 0..n : i # 0 => g[<<i, F[i - 1]>>] = F[i - 1] + GainOf(IdealGrade(qrels, i)) * Gain[i]
  <2> TAKE i \in 0..n
  <2> SUFFICES ASSUME i # 0 PROVE g[<<i, F[i - 1]>>] = F[i - 1] + GainOf(IdealGrade(qrels, i)) * Gain[i]
    OBVIOUS
  <2>1. i \in Nat /\ i - 1 \in 0..n /\ i \in 1..n
    BY <1>3
  <2> QED
    BY <1>4, <1>7, <2>1
<1>9. F = [i \in 0..n |-> IF i = 0 THEN 0 ELSE F[i - 1] + GainOf(IdealGrade(qrels, i)) * Gain[i]]
  BY <1>6, <1>8 DEF IsRec
<1> QED
  BY <1>9 DEF IsIdeal

(* What Ndcg says: the two walks, at their first k ranks.                  *)
LEMMA NdcgIs ==
  ASSUME NEW ranked, NEW qrels, Graded(qrels)
  PROVE  \E W, I : /\ IsCreditWalk(ranked, qrels, W) /\ IsIdeal(qrels, I)
                   /\ \A k : Ndcg(ranked, qrels, k).dcg = W[k].dcg /\ Ndcg(ranked, qrels, k).ideal = I[k]
<1> DEFINE W == CHOOSE W : IsCreditWalk(ranked, qrels, W)
           I == CHOOSE I : IsIdeal(qrels, I)
<1>1. IsCreditWalk(ranked, qrels, W) /\ IsIdeal(qrels, I)
  BY CreditWalkExists, IdealExists
<1>2. \A k : Ndcg(ranked, qrels, k) = [dcg |-> W[k].dcg, ideal |-> I[k]]
  BY DEF Ndcg, IsCreditWalk, IsIdeal
<1> HIDE DEF W, I
<1> QED
  BY <1>1, <1>2

(* After r ranks: how many judgements could have been credited, and how    *)
(* much gain they would have had, twos counting three.                     *)
Reach(r, m) == IF r <= m THEN r ELSE m
Best(qrels, r) == Reach(r, Cardinality(Relevant(qrels))) + 2 * Reach(r, Cardinality(Twos(qrels)))
Had(qrels, c) == Cardinality(c) + 2 * Cardinality(c \cap Twos(qrels))

Matched(ranked, qrels, r) ==
  r <= Len(ranked) /\ \E i \in Relevant(qrels) : QrelMatchesDoc(qrels[i], ranked[r])

(* What a walk keeps: no more credits than ranks; gain if and only if some *)
(* rank so far matches a relevant judgement; what the ideal order has at   *)
(* hand, at any weight up to that of the last rank, it is ahead by.        *)
WalkIsFair(ranked, qrels, W, I, r) ==
  /\ W[r] \in Credited(qrels) /\ I[r] \in Nat
  /\ Cardinality(W[r].consumed) <= r
  /\ W[r].dcg > 0 <=> W[r].consumed # {}
  /\ W[r].consumed # {} <=> \E p \in 1..r : Matched(ranked, qrels, p)
  /\ Had(qrels, W[r].consumed) <= Best(qrels, r)
  /\ \A g \in Nat : (r = 0 \/ g <= Gain[r]) =>
       W[r].dcg + (Best(qrels, r) - Had(qrels, W[r].consumed)) * g <= I[r]

(* The ideal order credits the next judgement at hand.                     *)
LEMMA BestGrows ==
  ASSUME NEW qrels, Graded(qrels), NEW r \in Nat
  PROVE  /\ Best(qrels, r) \in Nat
         /\ Best(qrels, r + 1) = Best(qrels, r) + GainOf(IdealGrade(qrels, r + 1))
<1> DEFINE m == Cardinality(Relevant(qrels))
           t == Cardinality(Twos(qrels))
<1>1. m \in Nat /\ t \in Nat /\ t <= m
  BY RelevantAre
<1>2. IdealGrade(qrels, r + 1) = IF r + 1 <= t THEN 2 ELSE IF r + 1 <= m THEN 1 ELSE 0
  BY DEF IdealGrade, Twos
<1>3. /\ Best(qrels, r) = Reach(r, m) + 2 * Reach(r, t)
      /\ Best(qrels, r + 1) = Reach(r + 1, m) + 2 * Reach(r + 1, t)
  BY DEF Best
<1> HIDE DEF m, t
<1> QED
  BY <1>1, <1>2, <1>3 DEF Reach, GainOf

(* So does a walk that credits one.                                        *)
LEMMA HadGrows ==
  ASSUME NEW qrels, Graded(qrels), NEW c \in SUBSET Relevant(qrels)
  PROVE  /\ IsFiniteSet(c) /\ Cardinality(c) \in Nat /\ Had(qrels, c) \in Nat
         /\ \A i \in Relevant(qrels) \ c :
              /\ Cardinality(c \cup {i}) = Cardinality(c) + 1
              /\ Had(qrels, c \cup {i}) = Had(qrels, c) + GainOf(qrels[i].grade)
<1> DEFINE twos == c \cap Twos(qrels)
<1>1. IsFiniteSet(c) /\ IsFiniteSet(twos)
  BY RelevantAre, FS_Subset
<1>2. Cardinality(c) \in Nat /\ Cardinality(twos) \in Nat
  BY <1>1, FS_CardinalityType
<1>3. Had(qrels, c) = Cardinality(c) + 2 * Cardinality(twos)
  BY DEF Had
<1>4. ASSUME NEW i \in Relevant(qrels) \ c
      PROVE  /\ Cardinality(c \cup {i}) = Cardinality(c) + 1
             /\ Had(qrels, c \cup {i}) = Had(qrels, c) + GainOf(qrels[i].grade)
  <2>1. Cardinality(c \cup {i}) = Cardinality(c) + 1
    BY <1>1, FS_AddElement
  <2>2. Had(qrels, c \cup {i}) = Cardinality(c \cup {i}) + 2 * Cardinality((c \cup {i}) \cap Twos(qrels))
    BY DEF Had
  <2>3. CASE i \in Twos(qrels)
    <3>1. (c \cup {i}) \cap Twos(qrels) = twos \cup {i} /\ i \notin twos
      BY <2>3
    <3>2. Cardinality(twos \cup {i}) = Cardinality(twos) + 1
      BY <3>1, <1>1, FS_AddElement
    <3>3. GainOf(qrels[i].grade) = 3
      BY <2>3 DEF Twos, GainOf
    <3>4. Had(qrels, c \cup {i}) = Cardinality(c \cup {i}) + 2 * Cardinality(twos \cup {i})
      BY <2>2, <3>1
    <3> HIDE DEF twos
    <3>5. Had(qrels, c \cup {i}) = (Cardinality(c) + 1) + 2 * (Cardinality(twos) + 1)
      BY <2>1, <3>2, <3>4
    <3>6. (Cardinality(c) + 1) + 2 * (Cardinality(twos) + 1) = (Cardinality(c) + 2 * Cardinality(twos)) + 3
      BY <1>2
    <3> QED
      BY <2>1, <3>5, <3>6, <3>3, <1>3
  <2>4. CASE i \notin Twos(qrels)
    <3>1. (c \cup {i}) \cap Twos(qrels) = twos
      BY <2>4
    <3>3. GainOf(qrels[i].grade) = 1
      <4>1. qrels[i].grade \in 1..2 /\ qrels[i].grade # 2
        BY <2>4, RelevantAre DEF Twos
      <4> QED
        BY <4>1 DEF GainOf
    <3>4. Had(qrels, c \cup {i}) = Cardinality(c \cup {i}) + 2 * Cardinality(twos)
      BY <2>2, <3>1
    <3> HIDE DEF twos
    <3>5. Had(qrels, c \cup {i}) = (Cardinality(c) + 1) + 2 * Cardinality(twos)
      BY <2>1, <3>4
    <3>6. (Cardinality(c) + 1) + 2 * Cardinality(twos) = (Cardinality(c) + 2 * Cardinality(twos)) + 1
      BY <1>2
    <3> QED
      BY <2>1, <3>5, <3>6, <3>3, <1>3
  <2> QED
    BY <2>3, <2>4
<1> HIDE DEF twos
<1> QED
  BY <1>1, <1>2, <1>3, <1>4

(* No set of r judgements has more than the best r.                        *)
LEMMA HadIsBounded ==
  ASSUME NEW qrels, Graded(qrels), NEW c \in SUBSET Relevant(qrels), NEW r \in Nat, Cardinality(c) <= r
  PROVE  Had(qrels, c) <= Best(qrels, r)
<1> DEFINE twos == c \cap Twos(qrels)
           m == Cardinality(Relevant(qrels))
           t == Cardinality(Twos(qrels))
<1>1. IsFiniteSet(c) /\ IsFiniteSet(Twos(qrels)) /\ IsFiniteSet(Relevant(qrels))
  BY RelevantAre, FS_Subset
<1>2. Cardinality(twos) <= Cardinality(c) /\ Cardinality(twos) <= t /\ Cardinality(c) <= m
  BY <1>1, FS_Subset
<1>3. m \in Nat /\ t \in Nat /\ Cardinality(c) \in Nat /\ Cardinality(twos) \in Nat
  <2>1. IsFiniteSet(twos)
    BY <1>1, FS_Subset
  <2> QED
    BY <1>1, <2>1, FS_CardinalityType
<1>4. Had(qrels, c) = Cardinality(c) + 2 * Cardinality(twos) /\ Best(qrels, r) = Reach(r, m) + 2 * Reach(r, t)
  BY DEF Had, Best
<1> HIDE DEF twos, m, t
<1> QED
  BY <1>2, <1>3, <1>4 DEF Reach

(* At a lower weight the ideal order stays ahead.                          *)
LEMMA Distributes ==
  ASSUME NEW a \in Int, NEW b \in Int, NEW w \in Int
  PROVE  (a + b) * w = a * w + b * w /\ (a - b) * w = a * w - b * w
OBVIOUS

LEMMA StaysAhead ==
  ASSUME NEW d \in Nat, NEW i \in Nat, NEW ahead \in Nat, NEW w \in Nat, NEW g \in Nat, NEW u \in Nat, NEW v \in Nat,
         d + ahead * w <= i, g <= w, v <= ahead + u
  PROVE  (d + v * w) + ((ahead + u) - v) * g <= i + u * w
<1> DEFINE x == (ahead + u) - v
           y == w - g
<1>1. x \in Nat /\ y \in Nat /\ ahead + u \in Nat
  OBVIOUS
<1>2. x * y \in Nat
  <2> HIDE DEF x, y
  <2> QED
    BY <1>1
<1>3. w = y + g /\ x \in Int /\ y \in Int /\ g \in Int /\ w \in Int /\ u \in Int /\ v \in Int /\ ahead \in Int
  BY <1>1
<1>4. y * x + g * x = w * x
  <2> HIDE DEF x, y
  <2> QED
    BY <1>3, Distributes
<1>5. x * w = (ahead + u) * w - v * w /\ (ahead + u) * w = ahead * w + u * w
  BY <1>3, Distributes
<1> HIDE DEF x, y
<1>6. y * x = x * y /\ g * x = x * g /\ w * x = x * w
  BY <1>3
<1>7. ahead * w \in Int /\ u * w \in Int /\ v * w \in Int /\ x * w \in Int /\ x * g \in Int
  BY <1>3
<1> DEFINE aw == ahead * w
           uw == u * w
           vw == v * w
           xw == x * w
           xg == x * g
           xy == x * y
<1>8. /\ xy \in Nat /\ xy + xg = xw /\ xw = (aw + uw) - vw /\ d + aw <= i
      /\ aw \in Int /\ uw \in Int /\ vw \in Int /\ xw \in Int /\ xg \in Int
  BY <1>2, <1>4, <1>5, <1>6, <1>7
<1>9. (d + vw) + xg <= i + uw
  <2> HIDE DEF aw, uw, vw, xw, xg, xy
  <2> QED
    BY <1>8
<1> QED
  BY <1>9 DEF x

(* One rank keeps it.                                                      *)
LEMMA WalkStep ==
  ASSUME NEW ranked, NEW qrels, Graded(qrels), NEW W, NEW I,
         IsCreditWalk(ranked, qrels, W), IsIdeal(qrels, I),
         NEW r \in Nat, r + 1 <= Len(Gain), WalkIsFair(ranked, qrels, W, I, r)
  PROVE  WalkIsFair(ranked, qrels, W, I, r + 1) /\ W[r].dcg <= W[r + 1].dcg
<1> DEFINE acc == W[r]
           next == W[r + 1]
           c == acc.consumed
           w == Gain[r + 1]
           u == GainOf(IdealGrade(qrels, r + 1))
<1>0. Len(Gain) \in Nat /\ r + 1 \in 1..Len(Gain) /\ r + 1 \in 0..Len(Gain) /\ (r + 1) - 1 = r /\ r + 1 # 0
  BY WeightsAre
<1>1. next = CreditRank(ranked, qrels, acc, r + 1)
  <2>1. W[r + 1] = CreditRank(ranked, qrels, W[(r + 1) - 1], r + 1)
    BY <1>0 DEF IsCreditWalk
  <2> QED
    BY <2>1, <1>0
<1>2. I[r + 1] = I[r] + u * w
  <2>1. I[r + 1] = I[(r + 1) - 1] + GainOf(IdealGrade(qrels, r + 1)) * Gain[r + 1]
    BY <1>0 DEF IsIdeal
  <2> QED
    BY <2>1, <1>0
<1>3. /\ acc \in Credited(qrels) /\ I[r] \in Nat /\ Cardinality(c) <= r
      /\ acc.dcg > 0 <=> c # {}
      /\ c # {} <=> \E p \in 1..r : Matched(ranked, qrels, p)
      /\ Had(qrels, c) <= Best(qrels, r)
      /\ \A g \in Nat : (r = 0 \/ g <= Gain[r]) => acc.dcg + (Best(qrels, r) - Had(qrels, c)) * g <= I[r]
  BY DEF WalkIsFair
<1>4. /\ w \in Nat /\ w > 0 /\ (r = 0 \/ w <= Gain[r])
      /\ u \in Nat
  <2>1. r = 0 \/ r \in 1..Len(Gain)
    BY <1>0
  <2> QED
    BY <1>0, <2>1, WeightsAre, GainsAre
<1>5. /\ c \in SUBSET Relevant(qrels) /\ acc.dcg \in Nat
      /\ Cardinality(c) \in Nat /\ Had(qrels, c) \in Nat
      /\ Best(qrels, r) \in Nat /\ Best(qrels, r + 1) = Best(qrels, r) + u
  <2>1. c \in SUBSET Relevant(qrels) /\ acc.dcg \in Nat
    BY <1>3 DEF Credited
  <2> QED
    BY <2>1, HadGrows, BestGrows
<1>6. acc.dcg + (Best(qrels, r) - Had(qrels, c)) * w <= I[r]
  BY <1>3, <1>4
<1>7. /\ next \in Credited(qrels)
      /\ \/ /\ next.consumed = c /\ next.dcg = acc.dcg
            /\ r + 1 <= Len(ranked) => Open(ranked[r + 1], qrels, c) = {}
         \/ /\ r + 1 <= Len(ranked)
            /\ \E i \in Open(ranked[r + 1], qrels, c) :
                 next.consumed = c \cup {i} /\ next.dcg = acc.dcg + GainOf(qrels[i].grade) * w
  <2>1. /\ CreditRank(ranked, qrels, acc, r + 1) \in Credited(qrels)
        /\ CreditsOne(ranked, qrels, acc, CreditRank(ranked, qrels, acc, r + 1), r + 1)
    <3> HIDE DEF acc, next
    <3> QED
      BY <1>0, <1>3, RankCredits
  <2>2. next \in Credited(qrels) /\ CreditsOne(ranked, qrels, acc, next, r + 1)
    BY <1>1, <2>1
  <2> QED
    BY <2>2 DEF CreditsOne
<1>8. \A p \in Nat : p \in 1..(r + 1) <=> p \in 1..r \/ p = r + 1
  OBVIOUS
<1> DEFINE ahead == Best(qrels, r) - Had(qrels, c)
<1>9. ahead \in Nat
  BY <1>3, <1>5
<1>10. I[r + 1] \in Nat
  BY <1>2, <1>3, <1>4
<1>11. CASE /\ next.consumed = c /\ next.dcg = acc.dcg
            /\ r + 1 <= Len(ranked) => Open(ranked[r + 1], qrels, c) = {}
  <2>1. Cardinality(next.consumed) <= r + 1
    BY <1>3, <1>5, <1>11
  <2>2. next.dcg > 0 <=> next.consumed # {}
    BY <1>3, <1>11
  <2>3. next.consumed # {} <=> \E p \in 1..(r + 1) : Matched(ranked, qrels, p)
    <3>1. Matched(ranked, qrels, r + 1) => c # {}
      BY <1>11 DEF Matched, Open
    <3> QED
      BY <1>3, <1>8, <1>11, <3>1
  <2>4. Had(qrels, next.consumed) <= Best(qrels, r + 1)
    BY <1>3, <1>4, <1>5, <1>11
  <2>5. ASSUME NEW g \in Nat, g <= w
        PROVE  next.dcg + (Best(qrels, r + 1) - Had(qrels, next.consumed)) * g <= I[r + 1]
    <3>1. 0 \in Nat /\ 0 <= ahead + u /\ acc.dcg + ahead * w <= I[r]
      BY <1>4, <1>6, <1>9
    <3> HIDE DEF ahead, u, w
    <3>2. (acc.dcg + 0 * w) + ((ahead + u) - 0) * g <= I[r] + u * w
      BY <3>1, <2>5, <1>3, <1>4, <1>5, <1>9, StaysAhead
    <3>3. 0 * w = 0 /\ (ahead + u) - 0 = ahead + u
      BY <1>4, <1>9
    <3>4. Best(qrels, r + 1) - Had(qrels, next.consumed) = ahead + u
      BY <1>5, <1>4, <1>11 DEF ahead
    <3> QED
      BY <3>2, <3>3, <3>4, <1>2, <1>5, <1>11
  <2>6. r + 1 # 0 /\ W[r + 1] = next /\ w = Gain[r + 1]
    BY <1>0
  <2>7. W[r].dcg <= next.dcg
    BY <1>5, <1>11
  <2> HIDE DEF next, w
  <2> QED
    BY <2>1, <2>2, <2>3, <2>4, <2>5, <2>6, <2>7, <1>7, <1>10 DEF WalkIsFair
<1>12. CASE /\ r + 1 <= Len(ranked)
            /\ \E i \in Open(ranked[r + 1], qrels, c) :
                 next.consumed = c \cup {i} /\ next.dcg = acc.dcg + GainOf(qrels[i].grade) * w
  <2>0. PICK i \in Open(ranked[r + 1], qrels, c) :
          next.consumed = c \cup {i} /\ next.dcg = acc.dcg + GainOf(qrels[i].grade) * w
    BY <1>12
  <2> DEFINE v == GainOf(qrels[i].grade)
  <2>a. i \in Relevant(qrels) /\ i \notin c /\ QrelMatchesDoc(qrels[i], ranked[r + 1])
    BY DEF Open
  <2>b. v \in Nat /\ v > 0
    <3>1. qrels[i].grade \in 1..2
      BY <2>a, RelevantAre
    <3> QED
      BY <3>1 DEF GainOf
  <2>c. /\ Cardinality(next.consumed) = Cardinality(c) + 1
        /\ Had(qrels, next.consumed) = Had(qrels, c) + v
    BY <2>0, <2>a, <1>5, HadGrows
  <2>d. v * w \in Nat /\ v * w > 0
    <3> HIDE DEF v, w
    <3>1. v - 1 \in Nat /\ (v - 1) * w \in Nat
      BY <2>b, <1>4
    <3>2. ((v - 1) + 1) * w = (v - 1) * w + 1 * w
      BY <2>b, <1>4, Distributes
    <3>3. (v - 1) + 1 = v /\ 1 * w = w
      BY <2>b, <1>4
    <3> QED
      BY <3>1, <3>2, <3>3, <1>4
  <2>1. Cardinality(next.consumed) <= r + 1
    BY <1>3, <1>5, <2>c
  <2>2. next.dcg > 0 /\ next.consumed # {} /\ acc.dcg <= next.dcg
    BY <1>5, <2>0, <2>d
  <2>3. \E p \in 1..(r + 1) : Matched(ranked, qrels, p)
    <3>1. Matched(ranked, qrels, r + 1)
      BY <1>12, <2>a DEF Matched
    <3> QED
      BY <3>1, <1>8
  <2>4. Had(qrels, next.consumed) <= Best(qrels, r + 1)
    <3>1. next.consumed \in SUBSET Relevant(qrels)
      BY <2>0, <2>a, <1>5
    <3> QED
      BY <3>1, <2>1, HadIsBounded
  <2>5. ASSUME NEW g \in Nat, g <= w
        PROVE  next.dcg + (Best(qrels, r + 1) - Had(qrels, next.consumed)) * g <= I[r + 1]
    <3>1. v <= ahead + u /\ acc.dcg + ahead * w <= I[r]
      BY <2>4, <2>c, <2>b, <1>4, <1>5, <1>6
    <3>4. Best(qrels, r + 1) - Had(qrels, next.consumed) = (ahead + u) - v
      BY <1>5, <1>4, <2>b, <2>c
    <3> HIDE DEF ahead, u, w, v
    <3>2. (acc.dcg + v * w) + ((ahead + u) - v) * g <= I[r] + u * w
      BY <3>1, <2>5, <2>b, <1>3, <1>4, <1>5, <1>9, StaysAhead
    <3> QED
      BY <3>2, <3>4, <1>2, <2>0 DEF v
  <2>6. r + 1 # 0 /\ W[r + 1] = next /\ w = Gain[r + 1]
    BY <1>0
  <2>7. W[r].dcg <= next.dcg
    BY <2>2
  <2> HIDE DEF next, w
  <2> QED
    BY <2>1, <2>2, <2>3, <2>4, <2>5, <2>6, <2>7, <1>7, <1>10 DEF WalkIsFair
<1> QED
  BY <1>7, <1>11, <1>12

LEMMA WalksAreFair ==
  ASSUME NEW ranked, NEW qrels, Graded(qrels), NEW W, NEW I,
         IsCreditWalk(ranked, qrels, W), IsIdeal(qrels, I)
  PROVE  \A r \in 0..Len(Gain) : WalkIsFair(ranked, qrels, W, I, r)
<1> DEFINE T == {r \in Nat : r <= Len(Gain) => WalkIsFair(ranked, qrels, W, I, r)}
<1>1. 0 \in T
  <2>0. 0 \in 0..Len(Gain)
    BY WeightsAre
  <2>1. W[0] = [consumed |-> {}, dcg |-> 0] /\ I[0] = 0
    BY <2>0 DEF IsCreditWalk, IsIdeal
  <2>2. W[0].consumed = {} /\ W[0].dcg = 0 /\ W[0] \in Credited(qrels)
    BY <2>1 DEF Credited
  <2>3. Cardinality({}) = 0 /\ {} \cap Twos(qrels) = {} /\ Cardinality({} \cap Twos(qrels)) = 0
    BY FS_EmptySet
  <2>4. Had(qrels, {}) = 0
    BY <2>3 DEF Had
  <2>5. Best(qrels, 0) = 0
    BY RelevantAre DEF Best, Reach
  <2>6. \A g \in Nat : 0 + (0 - 0) * g <= 0
    OBVIOUS
  <2>7. WalkIsFair(ranked, qrels, W, I, 0)
    BY <2>1, <2>2, <2>3, <2>4, <2>5, <2>6 DEF WalkIsFair
  <2> QED
    BY <2>7
<1>2. ASSUME NEW r \in T PROVE r + 1 \in T
  <2>1. r \in Nat /\ Len(Gain) \in Nat
    BY WeightsAre
  <2>2. ASSUME r + 1 <= Len(Gain) PROVE WalkIsFair(ranked, qrels, W, I, r + 1)
    <3>1. WalkIsFair(ranked, qrels, W, I, r)
      BY <2>1, <2>2
    <3> QED
      BY <2>1, <2>2, <3>1, WalkStep
  <2> QED
    BY <2>1, <2>2
<1> HIDE DEF T
<1>3. T = Nat
  BY <1>1, <1>2, NatInd DEF T
<1> QED
  BY <1>3, WeightsAre DEF T

-----------------------------------------------------------------------------
(* The grade a rank is judged by: the highest of those it overlaps.        *)
LEMMA JudgedIs ==
  ASSUME NEW ranked, ranked \in Seq(Range(ranked)), NEW qrels, Graded(qrels), NEW r \in DOMAIN ranked
  PROVE  LET g == JudgeRanked(ranked, qrels)[r]
         IN  g \in 0..2 /\ (g >= 1 <=> Matched(ranked, qrels, r))
<1> DEFINE grades == GradesOf(qrels, ranked[r])
           g == CHOOSE x \in grades \cup {0} : \A h \in grades : x >= h
<1>1. JudgeRanked(ranked, qrels)[r] = g
  BY DEF JudgeRanked
<1>2. grades \subseteq 0..2
  BY DEF GradesOf, Graded
<1>3. (\E h \in grades : h >= 1) <=> Matched(ranked, qrels, r)
  <2>1. r <= Len(ranked)
    OBVIOUS
  <2>2. (\E h \in grades : h >= 1) <=> \E i \in Relevant(qrels) : QrelMatchesDoc(qrels[i], ranked[r])
    BY DEF GradesOf, Relevant
  <2> QED
    BY <2>1, <2>2 DEF Matched
<1> HIDE DEF grades
<1>4. \E x \in grades \cup {0} : \A h \in grades : x >= h
  <2>1. CASE 2 \in grades
    BY <1>2, <2>1
  <2>2. CASE 2 \notin grades /\ 1 \in grades
    <3>1. \A h \in grades : h = 0 \/ h = 1
      BY <1>2, <2>2
    <3> QED
      BY <3>1, <2>2
  <2>3. CASE 2 \notin grades /\ 1 \notin grades
    <3>1. \A h \in grades : 0 >= h
      BY <1>2, <2>3
    <3>2. 0 \in grades \cup {0}
      OBVIOUS
    <3> QED
      BY <3>1, <3>2, Zenon
  <2> QED
    BY <2>1, <2>2, <2>3
<1>5. g \in grades \cup {0} /\ \A h \in grades : g >= h
  BY <1>4
<1> HIDE DEF g
<1>6. g \in 0..2
  BY <1>2, <1>5
<1>7. g >= 1 <=> \E h \in grades : h >= 1
  BY <1>2, <1>5, <1>6
<1> QED
  BY <1>1, <1>3, <1>6, <1>7

(* The ranks of the top.                                                   *)
LEMMA TopIs ==
  ASSUME NEW Items, NEW s \in Seq(Items), NEW k \in Nat
  PROVE  /\ DOMAIN Top(s, k) = {r \in DOMAIN s : r <= k}
         /\ \A r \in DOMAIN Top(s, k) : Top(s, k)[r] = s[r]
<1> DEFINE n == Smaller(k, Len(s))
<1>1. n \in 0..Len(s) /\ Len(s) \in Nat /\ n <= k /\ (n = k \/ n = Len(s))
  BY DEF Smaller
<1>2. Top(s, k) = SubSeq(s, 1, n)
  BY DEF Top
<1> HIDE DEF n
<1>3. 1 \in 1..(Len(s) + 1) /\ n \in (1 - 1)..Len(s)
  BY <1>1
<1>4. SubSeq(s, 1, n) \in Seq(Items) /\ Len(SubSeq(s, 1, n)) = (n - 1) + 1 /\ \A i \in 1..((n - 1) + 1) : SubSeq(s, 1, n)[i] = s[(1 + i) - 1]
  BY <1>1, <1>3, SubSeqProperties, SMT
<1>5. DOMAIN SubSeq(s, 1, n) = 1..n
  BY <1>1, <1>4
<1>6. \A i \in 1..n : SubSeq(s, 1, n)[i] = s[i]
  BY <1>1, <1>4
<1>7. \A r : r \in 1..n <=> r \in DOMAIN s /\ r <= k
  BY <1>1
<1> QED
  BY <1>2, <1>5, <1>6, <1>7

(* Every measure's hit is a rank of the top that overlaps a relevant span. *)
MatchedBy(ranked, qrels, k) == \E r \in 1..k : Matched(ranked, qrels, r)

LEMMA HitIs ==
  ASSUME NEW Items, NEW ranked \in Seq(Items), NEW qrels, Graded(qrels), NEW k \in Nat
  PROVE  LET judged == JudgeRanked(ranked, qrels)
         IN  /\ HitAtK(judged, k) <=> MatchedBy(ranked, qrels, k)
             /\ HitAtK(judged, k) <=> FirstHitAtK(judged, k) # 0
<1> DEFINE judged == JudgeRanked(ranked, qrels)
           hits == {r \in DOMAIN Top(judged, k) : judged[r] >= 1}
<1>1. DOMAIN ranked = 1..Len(ranked) /\ Len(ranked) \in Nat
  OBVIOUS
<1>2. DOMAIN judged = DOMAIN ranked
  BY DEF JudgeRanked
<1>3. \A r \in DOMAIN ranked : judged[r] \in 0..2 /\ (judged[r] >= 1 <=> Matched(ranked, qrels, r))
  <2>1. ranked \in Seq(Range(ranked))
    BY DEF Range
  <2> QED
    BY <2>1, JudgedIs
<1>4. judged = [r \in 1..Len(ranked) |-> judged[r]]
  BY <1>1 DEF JudgeRanked
<1> HIDE DEF judged
<1>5. judged \in Seq(0..2)
  BY <1>1, <1>2, <1>3, <1>4
<1>6. DOMAIN Top(judged, k) = {r \in DOMAIN ranked : r <= k}
  BY <1>2, <1>5, TopIs
<1>7. HitAtK(judged, k) <=> hits # {}
  BY DEF HitAtK
<1>8. hits # {} <=> MatchedBy(ranked, qrels, k)
  <2>1. \A r : r \in hits <=> r \in 1..k /\ Matched(ranked, qrels, r)
    BY <1>1, <1>3, <1>6 DEF Matched
  <2> QED
    BY <2>1 DEF MatchedBy
<1>9. hits # {} => FirstHitAtK(judged, k) # 0
  <2> SUFFICES ASSUME hits # {} PROVE FirstHitAtK(judged, k) # 0
    OBVIOUS
  <2>1. hits \in SUBSET Nat /\ 0 \notin hits
    BY <1>1, <1>6
  <2>2. PICK x \in hits : \A y \in hits : x <= y
    BY <2>1, LeastOf
  <2>3. \A p \in 1..(x - 1) : judged[p] < 1
    <3> TAKE p \in 1..(x - 1)
    <3>1. x \in DOMAIN ranked /\ x <= k /\ p \notin hits
      BY <1>1, <1>6, <2>1, <2>2
    <3>2. p \in DOMAIN ranked /\ p <= k
      BY <1>1, <3>1
    <3>3. judged[p] \in 0..2 /\ ~(judged[p] >= 1)
      BY <1>3, <1>6, <3>1, <3>2
    <3> QED
      BY <3>3
  <2>4. x \in DOMAIN Top(judged, k) /\ judged[x] >= 1
    BY <2>2
  <2>5. FirstHitAtK(judged, k) = CHOOSE r \in DOMAIN Top(judged, k) : judged[r] >= 1 /\ \A p \in 1..(r - 1) : judged[p] < 1
    BY <1>7 DEF FirstHitAtK
  <2>6. FirstHitAtK(judged, k) \in DOMAIN Top(judged, k)
    BY <2>3, <2>4, <2>5
  <2> QED
    BY <2>6, <1>1, <1>6
<1>10. ~HitAtK(judged, k) => FirstHitAtK(judged, k) = 0
  BY DEF FirstHitAtK
<1> HIDE DEF hits
<1> QED
  BY <1>7, <1>8, <1>9, <1>10 DEF judged

LEMMA CoveredIs ==
  ASSUME NEW Items, NEW ranked \in Seq(Items), NEW qrels, Graded(qrels), NEW k \in Nat
  PROVE  /\ CoveredAtK(ranked, qrels, k) =
              {i \in Relevant(qrels) : \E r \in DOMAIN ranked : r <= k /\ QrelMatchesDoc(qrels[i], ranked[r])}
         /\ CoveredAtK(ranked, qrels, k) # {} <=> MatchedBy(ranked, qrels, k)
<1>1. DOMAIN ranked = 1..Len(ranked) /\ Len(ranked) \in Nat
  OBVIOUS
<1>2. \A q : (\E d \in Range(Top(ranked, k)) : QrelMatchesDoc(q, d))
               <=> \E r \in DOMAIN ranked : r <= k /\ QrelMatchesDoc(q, ranked[r])
  BY TopIs DEF Range
<1>3. CoveredAtK(ranked, qrels, k) =
        {i \in Relevant(qrels) : \E r \in DOMAIN ranked : r <= k /\ QrelMatchesDoc(qrels[i], ranked[r])}
  BY <1>2 DEF CoveredAtK
<1>4. \A r : r \in DOMAIN ranked /\ r <= k <=> r \in 1..k /\ r <= Len(ranked)
  BY <1>1
<1> QED
  BY <1>3, <1>4 DEF MatchedBy, Matched

(* MeasuresAgree, of any ranked list, any judgements and any cut below the *)
(* last weight: a hit is one to every measure, no list has more gain than  *)
(* the ideal order, and a longer list has no less (metrics.ts).            *)
THEOREM MeasuresAlwaysAgree ==
  ASSUME NEW Items, NEW ranked \in Seq(Items), NEW qrels, Graded(qrels), NEW k \in Nat, k + 1 <= Len(Gain)
  PROVE  MeasuresAgree(ranked, qrels, k)
<1> DEFINE judged == JudgeRanked(ranked, qrels)
           hit == HitAtK(judged, k)
<1>1. /\ hit <=> MatchedBy(ranked, qrels, k)
      /\ hit <=> FirstHitAtK(judged, k) # 0
  BY HitIs
<1>2. CoveredAtK(ranked, qrels, k) # {} <=> MatchedBy(ranked, qrels, k)
  BY CoveredIs
<1>3. CoveredAtK(ranked, qrels, k) \subseteq CoveredAtK(ranked, qrels, k + 1)
  <2>1. k + 1 \in Nat /\ \A r \in DOMAIN ranked : r <= k => r <= k + 1
    OBVIOUS
  <2> QED
    BY <2>1, CoveredIs
<1>4. PICK W, I : /\ IsCreditWalk(ranked, qrels, W) /\ IsIdeal(qrels, I)
                  /\ \A j : Ndcg(ranked, qrels, j).dcg = W[j].dcg /\ Ndcg(ranked, qrels, j).ideal = I[j]
  BY NdcgIs
<1>5. k \in 0..Len(Gain)
  BY WeightsAre
<1>6. WalkIsFair(ranked, qrels, W, I, k)
  BY <1>4, <1>5, WalksAreFair
<1>7. W[k].dcg > 0 <=> MatchedBy(ranked, qrels, k)
  BY <1>6 DEF WalkIsFair, MatchedBy
<1>8. W[k].dcg <= I[k]
  <2>1. W[k].dcg \in Nat /\ I[k] \in Nat
    BY <1>6 DEF WalkIsFair, Credited
  <2>2. Best(qrels, k) \in Nat /\ Had(qrels, W[k].consumed) \in Nat
    <3>1. W[k].consumed \in SUBSET Relevant(qrels)
      BY <1>6 DEF WalkIsFair, Credited
    <3> QED
      BY <3>1, BestGrows, HadGrows
  <2>3. k = 0 \/ 0 <= Gain[k]
    BY <1>5, WeightsAre
  <2>4. W[k].dcg + (Best(qrels, k) - Had(qrels, W[k].consumed)) * 0 <= I[k]
    BY <1>6, <2>3 DEF WalkIsFair
  <2>5. (Best(qrels, k) - Had(qrels, W[k].consumed)) * 0 = 0
    BY <2>2
  <2> QED
    BY <2>1, <2>4, <2>5
<1>9. W[k].dcg <= W[k + 1].dcg
  BY <1>4, <1>6, WalkStep
<1> HIDE DEF hit, judged
<1>10. /\ hit = (FirstHitAtK(judged, k) # 0)
       /\ hit = (CoveredAtK(ranked, qrels, k) # {})
       /\ hit = (Ndcg(ranked, qrels, k).dcg > 0)
  <2>1. hit \in BOOLEAN
    BY DEF hit, HitAtK
  <2> QED
    BY <1>1, <1>2, <1>4, <1>7, <2>1
<1>11. /\ Ndcg(ranked, qrels, k).dcg <= Ndcg(ranked, qrels, k).ideal
       /\ Ndcg(ranked, qrels, k).dcg <= Ndcg(ranked, qrels, k + 1).dcg
  BY <1>4, <1>8, <1>9
<1> QED
  BY <1>3, <1>10, <1>11 DEF MeasuresAgree, hit, judged

(* RotIsUnscorable, of any judgement that counts and any chunks of its     *)
(* file: what validate calls rot, and only that, no chunk can hit          *)
(* (classify in validate.ts).                                              *)
THEOREM RotNeverScores ==
  ASSUME NEW q, q.from \in Nat, q.to \in Nat, q.from <= q.to, q.grade \in 1..2,
         NEW spans, \A s \in spans : s.path = q.path
  PROVE  RotIsUnscorable(q, spans)
<1>1. Graded(<<q>>) /\ DOMAIN <<q>> = {1} /\ <<q>>[1] = q
  <2>1. DOMAIN <<q>> = {1} /\ <<q>>[1] = q /\ q.grade \in 0..2
    OBVIOUS
  <2>2. <<q>> \in Seq(Range(<<q>>))
    BY <2>1 DEF Range
  <2> QED
    BY <2>1, <2>2 DEF Graded
<1>2. Relevant(<<q>>) = {1}
  BY <1>1 DEF Relevant
<1>3. ASSUME NEW d PROVE CoveredAtK(<<d>>, <<q>>, 1) = {} <=> ~QrelMatchesDoc(q, d)
  <2> DEFINE ranked == <<d>>
             qrels == <<q>>
  <2>1. ranked \in Seq({d}) /\ DOMAIN ranked = {1} /\ ranked[1] = d
    OBVIOUS
  <2>2. Graded(qrels) /\ DOMAIN qrels = {1} /\ qrels[1] = q /\ Relevant(qrels) = {1}
    BY <1>1, <1>2
  <2> HIDE DEF ranked, qrels
  <2>3. CoveredAtK(ranked, qrels, 1) =
          {i \in Relevant(qrels) : \E r \in DOMAIN ranked : r <= 1 /\ QrelMatchesDoc(qrels[i], ranked[r])}
    BY <2>1, <2>2, CoveredIs
  <2>4. CoveredAtK(ranked, qrels, 1) = {} <=> ~QrelMatchesDoc(q, d)
    BY <2>1, <2>2, <2>3
  <2> QED
    BY <2>4 DEF ranked, qrels
<1>4. \A s \in spans : s.from = q.from /\ s.to = q.to => QrelMatchesDoc(q, s)
  BY DEF QrelMatchesDoc
<1>5. Classify(q, spans) \in {"missing-file", "no-overlap"} <=> \A s \in spans : ~QrelMatchesDoc(q, s)
  BY <1>4 DEF Classify
<1>6. (\A d \in spans : CoveredAtK(<<d>>, <<q>>, 1) = {}) <=> \A s \in spans : ~QrelMatchesDoc(q, s)
  BY <1>3, Zenon
<1> DEFINE rot == Classify(q, spans) \in {"missing-file", "no-overlap"}
           none == \A d \in spans : CoveredAtK(<<d>>, <<q>>, 1) = {}
<1>7. rot \in BOOLEAN /\ none \in BOOLEAN /\ (rot <=> none)
  BY <1>5, <1>6
<1>8. rot = none
  <2> HIDE DEF rot, none
  <2> QED
    BY <1>7
<1> QED
  BY <1>8 DEF RotIsUnscorable

-----------------------------------------------------------------------------
(* A document as the parser gives it: its nodes lie within its lines.      *)
NodeIn(total) == [first : 1..total, last : 1..total, type : {"chunkable", "import", "other"}]

IsDocument(doc) ==
  /\ doc.total \in Nat
  /\ doc.nodes \in Seq(NodeIn(doc.total))
  /\ \A i \in 1..Len(doc.nodes) : doc.nodes[i].first <= doc.nodes[i].last

CutBy(w) == w \in Windows /\ w.overlap < w.window

LEMMA WindowsAre ==
  CutBy(FallbackWindow) /\ CutBy(GapWindow) /\ CutBy(CapWindow) /\ CutBy(SectionWindow)
BY ChunkingAssumption DEF CutBy

(* Division by a step.                                                     *)
LEMMA DividedBy ==
  ASSUME NEW a \in Nat, NEW b \in Nat, b > 0
  PROVE  a \div b \in Nat /\ (a \div b) * b <= a /\ a < (a \div b) * b + b
<1>1. a \div b \in Int /\ a % b \in 0..(b - 1) /\ a = b * (a \div b) + (a % b)
  OBVIOUS
<1> DEFINE d == a \div b
           r == a % b
<1>2. d \in Int /\ r \in 0..(b - 1) /\ a = b * d + r
  BY <1>1
<1> HIDE DEF d, r
<1>3. d >= 0
  <2> SUFFICES ASSUME d <= -1 PROVE FALSE
    BY <1>2
  <2>1. b * d <= -b
    BY <1>2
  <2> QED
    BY <1>2, <2>1
<1>4. b * d = d * b
  BY <1>2
<1> DEFINE p == d * b
<1>5. p \in Int /\ a = p + r
  BY <1>2, <1>4
<1> HIDE DEF p
<1>6. d \in Nat /\ p <= a /\ a < p + b
  BY <1>2, <1>3, <1>5
<1> QED
  BY <1>6 DEF d, p

(* Every one of n lines is in a window, none of which is longer than it    *)
(* may be; one is enough only for so many.                                 *)
LEMMA WindowsCover ==
  ASSUME NEW n \in Nat \ {0}, NEW w, CutBy(w)
  PROVE  /\ Len(WindowRanges(n, w)) \in Nat
         /\ DOMAIN WindowRanges(n, w) = 1..Len(WindowRanges(n, w))
         /\ \A k \in 1..Len(WindowRanges(n, w)) :
              WindowRanges(n, w)[k][1] \in Nat \ {0} /\ WindowRanges(n, w)[k][2] \in Nat
         /\ \A x \in 1..n : \E k \in 1..Len(WindowRanges(n, w)) :
              WindowRanges(n, w)[k][1] <= x /\ x <= WindowRanges(n, w)[k][2]
         /\ \A k \in 1..Len(WindowRanges(n, w)) :
              WindowRanges(n, w)[k][2] - WindowRanges(n, w)[k][1] < w.window
         /\ 1 \in 1..Len(WindowRanges(n, w)) /\ WindowRanges(n, w)[1][1] = 1
         /\ Len(WindowRanges(n, w)) <= 1 => n <= w.window
<1> DEFINE step == w.window - w.overlap
           size == w.window
           over == n - size + step - 1
           count == IF n <= size THEN 1 ELSE 1 + over \div step
           from(k) == (k - 1) * step + 1
           to(k) == Least((k - 1) * step + size, n)
           wr == [k \in 1..count |-> <<(k - 1) * step + 1, Least((k - 1) * step + size, n)>>]
<1>1. WindowRanges(n, w) = wr
  BY DEF WindowRanges
<1>2. step \in Nat /\ step > 0 /\ size \in Nat /\ size > 0 /\ step <= size
  BY DEF CutBy, Windows
<1> HIDE DEF step, size
<1>3. n > size => over \in Nat /\ over \div step \in Nat /\ over < (over \div step) * step + step
  <2> SUFFICES ASSUME n > size PROVE over \in Nat /\ over \div step \in Nat /\ over < (over \div step) * step + step
    OBVIOUS
  <2>1. over \in Nat
    BY <1>2
  <2> HIDE DEF over
  <2> QED
    BY <1>2, <2>1, DividedBy
<1>4. count \in Nat \ {0}
  BY <1>2, <1>3
<1>5. n <= (count - 1) * step + size
  <2>1. CASE n <= size
    <3>1. count = 1
      BY <2>1
    <3>2. (count - 1) * step = 0
      BY <1>2, <3>1
    <3> HIDE DEF count
    <3> QED
      BY <1>2, <2>1, <3>2
  <2>2. CASE ~(n <= size)
    <3> DEFINE d == over \div step
               p == d * step
    <3>0. n > size
      BY <1>2, <2>2
    <3>1. count = 1 + d
      BY <2>2
    <3>2. d \in Nat /\ over < p + step /\ over \in Nat
      BY <1>3, <3>0
    <3> HIDE DEF d
    <3>3. count - 1 = d
      BY <3>1, <3>2
    <3>4. (count - 1) * step = p
      BY <3>3
    <3>5. p \in Nat
      BY <3>2, <1>2
    <3> HIDE DEF p, count
    <3>6. n - size + step - 1 < p + step
      BY <3>2 DEF over
    <3> QED
      BY <1>2, <3>4, <3>5, <3>6
  <2> QED
    BY <2>1, <2>2
<1> HIDE DEF count, over
<1>6. Len(wr) = count /\ DOMAIN wr = 1..count
  BY <1>4
<1>7. \A k \in 1..count : (k - 1) * step \in Nat
  <2> TAKE k \in 1..count
  <2>1. k - 1 \in Nat
    BY <1>4
  <2> DEFINE j == k - 1
  <2> HIDE DEF j
  <2>2. j * step \in Nat
    BY <1>2, <2>1 DEF j
  <2> QED
    BY <2>2 DEF j
<1>8. \A k \in 1..count : from(k) \in Nat \ {0} /\ to(k) \in Nat
  <2> TAKE k \in 1..count
  <2> DEFINE p == (k - 1) * step
  <2>1. p \in Nat
    BY <1>7
  <2> HIDE DEF p
  <2>2. p + 1 \in Nat \ {0} /\ Least(p + size, n) \in Nat
    BY <1>2, <2>1 DEF Least
  <2> QED
    BY <2>2 DEF p
<1>9. \A x \in 1..n : \E k \in 1..count : from(k) <= x /\ x <= to(k)
  <2> TAKE x \in 1..n
  <2> DEFINE d == (x - 1) \div step
             p == d * step
             q == (count - 1) * step
  <2>1. d \in Nat /\ p <= x - 1 /\ x - 1 < p + step
    <3>1. x - 1 \in Nat
      OBVIOUS
    <3> DEFINE y == x - 1
    <3> HIDE DEF y
    <3>2. y \div step \in Nat /\ (y \div step) * step <= y /\ y < (y \div step) * step + step
      BY <1>2, <3>1, DividedBy DEF y
    <3> QED
      BY <3>2 DEF y
  <2>2. q \in Nat /\ n <= q + size
    BY <1>4, <1>5, <1>7
  <2> HIDE DEF d
  <2>3. p \in Nat
    BY <2>1, <1>2
  <2>4. CASE d + 1 <= count
    <3>1. d + 1 \in 1..count /\ (d + 1) - 1 = d
      BY <2>1, <1>4, <2>4
    <3>2. ((d + 1) - 1) * step = p
      BY <3>1
    <3> HIDE DEF p, q
    <3>3. p + 1 <= x /\ x <= Least(p + size, n)
      BY <2>1, <2>3, <1>2 DEF Least
    <3>4. from(d + 1) <= x /\ x <= to(d + 1)
      BY <3>2, <3>3
    <3> QED
      BY <3>1, <3>4
  <2>5. CASE ~(d + 1 <= count)
    <3>1. d \in Nat /\ count - 1 \in Nat /\ d - (count - 1) \in Nat
      BY <2>1, <1>4, <2>5
    <3>2. q <= p
      <4> DEFINE a == count - 1
                 b == d - a
      <4>1. a \in Nat /\ b \in Nat /\ d = a + b
        BY <3>1
      <4> HIDE DEF a, b
      <4>2. d * step = a * step + b * step /\ b * step \in Nat /\ a * step \in Nat
        BY <4>1, <1>2, Distributes
      <4>3. a * step <= d * step
        BY <4>2
      <4> QED
        BY <4>3 DEF a
    <3>3. count \in 1..count
      BY <1>4
    <3> HIDE DEF p, q
    <3>4. q + 1 <= x /\ x <= Least(q + size, n)
      BY <2>1, <2>2, <2>3, <3>2, <1>2 DEF Least
    <3>5. from(count) <= x /\ x <= to(count)
      BY <3>4 DEF q
    <3> QED
      BY <3>3, <3>5
  <2> QED
    BY <2>4, <2>5
<1>11. \A k \in 1..count : to(k) - from(k) < size
  <2> TAKE k \in 1..count
  <2> DEFINE p == (k - 1) * step
  <2>1. p \in Nat
    BY <1>7
  <2> HIDE DEF p
  <2>2. Least(p + size, n) - (p + 1) < size
    BY <1>2, <2>1 DEF Least
  <2> QED
    BY <2>2 DEF p
<1>12. 1 \in 1..count /\ from(1) = 1
  <2>1. (1 - 1) * step = 0
    BY <1>2
  <2> QED
    BY <1>4, <2>1
<1>13. count <= 1 => n <= size
  <2> SUFFICES ASSUME count <= 1 PROVE n <= size
    OBVIOUS
  <2>1. count - 1 = 0
    BY <1>4
  <2>2. (count - 1) * step = 0
    BY <1>2, <2>1
  <2> QED
    BY <1>2, <1>5, <2>2
<1> HIDE DEF from, to
<1>10. \A k \in 1..count : wr[k][1] = from(k) /\ wr[k][2] = to(k)
  BY DEF from, to
<1> HIDE DEF wr
<1>15. Len(wr) <= 1 => n <= size
  BY <1>6, <1>13
<1>16. \A k \in 1..count : wr[k][2] - wr[k][1] < size
  BY <1>10, <1>11
<1>17. /\ Len(wr) \in Nat /\ DOMAIN wr = 1..Len(wr)
       /\ \A k \in 1..Len(wr) : wr[k][1] \in Nat \ {0} /\ wr[k][2] \in Nat
       /\ \A k \in 1..Len(wr) : wr[k][2] - wr[k][1] < size
  BY <1>4, <1>6, <1>8, <1>10, <1>16
<1>18. /\ \A x \in 1..n : \E k \in 1..Len(wr) : wr[k][1] <= x /\ x <= wr[k][2]
       /\ 1 \in 1..Len(wr) /\ wr[1][1] = 1
  BY <1>6, <1>9, <1>10, <1>12
<1> QED
  BY <1>1, <1>15, <1>17, <1>18 DEF size

(* Every line of a range that is not empty is in a window of it.           *)
LEMMA LinesAreInWindows ==
  ASSUME NEW from \in Nat \ {0}, NEW to \in Nat, from <= to, NEW empty, NEW w, CutBy(w)
  PROVE  LET ranges == LineWindows(from, to, empty, w) IN
         /\ Len(ranges) \in Nat /\ DOMAIN ranges = 1..Len(ranges)
         /\ \A k \in 1..Len(ranges) : ranges[k][1] \in Nat \ {0} /\ ranges[k][2] \in Nat
         /\ \A l \in (from..to) \ empty : \E k \in 1..Len(ranges) : l \in ranges[k][1]..ranges[k][2]
         /\ \A k \in 1..Len(ranges) : ranges[k][2] - ranges[k][1] < w.window
         /\ 1 \in 1..Len(ranges) /\ ranges[1][1] = from
         /\ Len(ranges) <= 1 => to - from <= w.window
<1> DEFINE n == IF to > from /\ to \in empty THEN to - from ELSE to - from + 1
           wr == WindowRanges(n, w)
           rs == [k \in 1..Len(wr) |-> <<from + wr[k][1] - 1, from + wr[k][2] - 1>>]
<1>1. LineWindows(from, to, empty, w) = rs
  BY DEF LineWindows
<1>2. n \in Nat \ {0} /\ \A l \in (from..to) \ empty : l - from + 1 \in 1..n
  OBVIOUS
<1> HIDE DEF n
<1>3. /\ Len(wr) \in Nat
      /\ \A k \in 1..Len(wr) : wr[k][1] \in Nat \ {0} /\ wr[k][2] \in Nat
      /\ \A x \in 1..n : \E k \in 1..Len(wr) : wr[k][1] <= x /\ x <= wr[k][2]
      /\ \A k \in 1..Len(wr) : wr[k][2] - wr[k][1] < w.window
      /\ 1 \in 1..Len(wr) /\ wr[1][1] = 1
      /\ Len(wr) <= 1 => n <= w.window
  BY <1>2, WindowsCover
<1>9. to - from <= n /\ w.window \in Nat
  <2>1. w.window \in Nat
    BY DEF CutBy, Windows
  <2> QED
    BY <2>1 DEF n
<1> HIDE DEF wr
<1>4. Len(rs) = Len(wr) /\ DOMAIN rs = 1..Len(wr)
  BY <1>3
<1>5. \A k \in 1..Len(wr) : rs[k][1] = from + wr[k][1] - 1 /\ rs[k][2] = from + wr[k][2] - 1
  OBVIOUS
<1> HIDE DEF rs
<1>6. \A k \in 1..Len(wr) : rs[k][1] \in Nat \ {0} /\ rs[k][2] \in Nat
  <2> TAKE k \in 1..Len(wr)
  <2> DEFINE a == wr[k][1]
             b == wr[k][2]
  <2>1. a \in Nat \ {0} /\ b \in Nat /\ rs[k][1] = from + a - 1 /\ rs[k][2] = from + b - 1
    BY <1>3, <1>5
  <2> HIDE DEF a, b
  <2> QED
    BY <2>1
<1>8. \A k \in 1..Len(wr) : rs[k][2] - rs[k][1] < w.window
  <2> TAKE k \in 1..Len(wr)
  <2> DEFINE a == wr[k][1]
             b == wr[k][2]
  <2>1. /\ a \in Nat \ {0} /\ b \in Nat /\ rs[k][1] = from + a - 1 /\ rs[k][2] = from + b - 1
        /\ b - a < w.window
    BY <1>3, <1>5
  <2> HIDE DEF a, b
  <2> QED
    BY <1>9, <2>1
<1>10. 1 \in 1..Len(wr) /\ rs[1][1] = from
  BY <1>3, <1>5
<1>11. Len(rs) <= 1 => to - from <= w.window
  BY <1>2, <1>3, <1>4, <1>9
<1>7. ASSUME NEW l \in (from..to) \ empty PROVE \E k \in 1..Len(wr) : l \in rs[k][1]..rs[k][2]
  <2>1. PICK k \in 1..Len(wr) : wr[k][1] <= l - from + 1 /\ l - from + 1 <= wr[k][2]
    BY <1>2, <1>3
  <2> DEFINE a == wr[k][1]
             b == wr[k][2]
  <2>2. /\ a \in Nat /\ b \in Nat /\ rs[k][1] = from + a - 1 /\ rs[k][2] = from + b - 1
        /\ a <= l - from + 1 /\ l - from + 1 <= b
    BY <1>3, <1>5, <2>1
  <2> HIDE DEF a, b
  <2>3. l \in rs[k][1]..rs[k][2]
    BY <2>2
  <2> QED
    BY <2>3
<1> QED
  BY <1>1, <1>3, <1>4, <1>6, <1>7, <1>8, <1>10, <1>11

-----------------------------------------------------------------------------
Kinds == {"node", "window", "window-fill"}

Piece == [first : Nat \ {0}, last : Nat, kind : Kinds, def : Nat, imports : SUBSET Nat,
          refs : SUBSET [call : Int, line : Int]]

(* A sequence is one of what it is made of.                                *)
LEMMA MadeOf ==
  ASSUME NEW Ids, NEW n \in Nat, NEW s, DOMAIN s = 1..n, s = [k \in 1..n |-> s[k]],
         \A k \in 1..n : s[k] \in Ids
  PROVE  s \in Seq(Ids) /\ Len(s) = n
<1>1. s \in [1..n -> Ids]
  OBVIOUS
<1> QED
  BY <1>1

PieceOf(first, last, kind, def, imports, refs) ==
  [first |-> first, last |-> last, kind |-> kind, def |-> def, imports |-> imports, refs |-> refs]

LEMMA PieceIs ==
  ASSUME NEW first \in Nat \ {0}, NEW last \in Nat, NEW kind \in Kinds, NEW def \in Nat,
         NEW imports \in SUBSET Nat, NEW refs \in SUBSET [call : Int, line : Int]
  PROVE  LET c == PieceOf(first, last, kind, def, imports, refs) IN
         c \in Piece /\ c.first = first /\ c.last = last
BY DEF Piece, PieceOf

LEMMA WindowChunkIsPiece ==
  ASSUME NEW doc, NEW range, range[1] \in Nat \ {0}, range[2] \in Nat, NEW kind \in Kinds, NEW base \in Int
  PROVE  /\ WindowChunk(doc, range, kind, base) \in Piece
         /\ WindowChunk(doc, range, kind, base).first = range[1]
         /\ WindowChunk(doc, range, kind, base).last = range[2]
<1> DEFINE refs == {[call |-> l, line |-> l - base] : l \in CallsIn(doc, range[1], range[2])}
<1>1. \A l \in CallsIn(doc, range[1], range[2]) : l \in Int /\ l - base \in Int
  BY DEF CallsIn
<1>2. refs \in SUBSET [call : Int, line : Int]
  BY <1>1
<1> HIDE DEF refs
<1>3. WindowChunk(doc, range, kind, base) = PieceOf(range[1], range[2], kind, 0, {}, refs)
  BY DEF WindowChunk, refs, PieceOf
<1> QED
  <2>1. {} \in SUBSET Nat /\ 0 \in Nat
    OBVIOUS
  <2> QED
    BY <1>2, <1>3, <2>1, PieceIs

LEMMA NodeIsPiece ==
  ASSUME NEW doc, IsDocument(doc), NEW i \in 1..Len(doc.nodes)
  PROVE  /\ ChunkFromNode(doc, i) \in Piece
         /\ ChunkFromNode(doc, i).first = doc.nodes[i].first
         /\ ChunkFromNode(doc, i).last = doc.nodes[i].last
<1> DEFINE a == doc.nodes[i].first
           b == doc.nodes[i].last
           refs == {[call |-> l, line |-> l] : l \in CallsIn(doc, a, b)}
<1>1. a \in Nat \ {0} /\ b \in Nat /\ i \in Nat
  <2>1. doc.nodes[i] \in NodeIn(doc.total) /\ doc.total \in Nat
    BY DEF IsDocument
  <2>2. Len(doc.nodes) \in Nat
    BY DEF IsDocument
  <2>3. a \in 1..doc.total /\ b \in 1..doc.total
    BY <2>1 DEF NodeIn
  <2> HIDE DEF a, b
  <2> QED
    BY <2>1, <2>2, <2>3
<1> HIDE DEF a, b
<1>2. \A l \in CallsIn(doc, a, b) : l \in Int
  BY <1>1 DEF CallsIn
<1>3. refs \in SUBSET [call : Int, line : Int]
  BY <1>2
<1> HIDE DEF refs
<1>4. ChunkFromNode(doc, i) = PieceOf(a, b, "node", i, {}, refs)
  BY DEF ChunkFromNode, refs, a, b, PieceOf
<1>5. ChunkFromNode(doc, i) \in Piece /\ ChunkFromNode(doc, i).first = a /\ ChunkFromNode(doc, i).last = b
  <2>1. "node" \in Kinds /\ {} \in SUBSET Nat
    BY DEF Kinds
  <2> QED
    BY <1>1, <1>3, <1>4, <2>1, PieceIs
<1> QED
  BY <1>5 DEF a, b

(* A chunk that is cut loses none of its lines but an empty one.           *)
CutIn(doc, c) ==
  LET rs == LineWindows(c.first, c.last, doc.empty, CapWindow) IN
  IF c.last - c.first + 1 <= HardMax \/ Len(rs) <= 1 THEN <<c>> ELSE Parts(c, rs)

LEMMA CutKeepsLines ==
  ASSUME NEW doc, NEW c \in Piece
  PROVE  /\ CutIn(doc, c) \in Seq(Piece)
         /\ \A l \in (c.first..c.last) \ doc.empty : \E k \in 1..Len(CutIn(doc, c)) :
              l \in CutIn(doc, c)[k].first..CutIn(doc, c)[k].last
<1> DEFINE a == c.first
           b == c.last
           rs == LineWindows(a, b, doc.empty, CapWindow)
           n == Len(rs)
           short == b - a + 1 <= HardMax \/ n <= 1
           ps == Parts(c, rs)
<1>0. c.first \in Nat \ {0} /\ c.last \in Nat
  BY DEF Piece
<1>1. CASE short
  <2>1. CutIn(doc, c) = <<c>>
    BY <1>1 DEF CutIn
  <2>2. <<c>> \in Seq(Piece) /\ Len(<<c>>) = 1 /\ <<c>>[1] = c /\ 1 \in 1..1
    OBVIOUS
  <2> QED
    BY <2>1, <2>2
<1>2. CASE ~short
  <2>1. CutIn(doc, c) = ps
    BY <1>2 DEF CutIn
  <2>2. c.first <= c.last
    BY <1>0, <1>2, ChunkingAssumption
  <2>3. /\ n \in Nat
        /\ \A k \in 1..n : rs[k][1] \in Nat \ {0} /\ rs[k][2] \in Nat
        /\ \A l \in (a..b) \ doc.empty : \E k \in 1..n : l \in rs[k][1]..rs[k][2]
    <3>1. a \in Nat \ {0} /\ b \in Nat /\ a <= b /\ CutBy(CapWindow)
      BY <1>0, <2>2, WindowsAre
    <3> HIDE DEF a, b, ps
    <3> QED
      BY <3>1, LinesAreInWindows
  <2> HIDE DEF rs
  <2>4. ps = [k \in 1..n |->
               IF k = 1 THEN [c EXCEPT !.last = rs[1][2]]
               ELSE [first |-> rs[k][1], last |-> rs[k][2], kind |-> "window",
                     def |-> 0, imports |-> {}, refs |-> {}]]
    BY DEF Parts
  <2> HIDE DEF ps, n, short
  <2>5. ASSUME NEW k \in 1..n
        PROVE  ps[k] \in Piece /\ ps[k].last = rs[k][2] /\ ps[k].first = IF k = 1 THEN c.first ELSE rs[k][1]
    <3>1. CASE k = 1
      <4>1. ps[k] = [c EXCEPT !.last = rs[1][2]] /\ rs[1][2] \in Nat
        BY <2>3, <2>4, <3>1
      <4> QED
        BY <3>1, <4>1 DEF Piece
    <3>2. CASE k # 1
      <4>1. ps[k] = PieceOf(rs[k][1], rs[k][2], "window", 0, {}, {})
        BY <2>4, <3>2 DEF PieceOf
      <4>2. rs[k][1] \in Nat \ {0} /\ rs[k][2] \in Nat
        BY <2>3
      <4>3. "window" \in Kinds /\ {} \in SUBSET Nat /\ {} \in SUBSET [call : Int, line : Int] /\ 0 \in Nat
        BY DEF Kinds
      <4>4. ps[k] \in Piece /\ ps[k].first = rs[k][1] /\ ps[k].last = rs[k][2]
        BY <4>1, <4>2, <4>3, PieceIs
      <4> QED
        BY <3>2, <4>4
    <3> QED
      BY <3>1, <3>2
  <2>6. DOMAIN ps = 1..n /\ ps = [k \in 1..n |-> ps[k]]
    BY <2>4
  <2>7. ps \in Seq(Piece) /\ Len(ps) = n
    BY <2>3, <2>5, <2>6, MadeOf
  <2>8. ASSUME NEW l \in (c.first..c.last) \ doc.empty
        PROVE  \E k \in 1..n : l \in ps[k].first..ps[k].last
    <3>1. PICK k \in 1..n : l \in rs[k][1]..rs[k][2]
      BY <2>3
    <3>2. ps[k].last = rs[k][2] /\ ps[k].first \in {c.first, rs[k][1]}
      BY <2>5
    <3>3. rs[k][1] \in Nat /\ rs[k][2] \in Nat
      BY <2>3
    <3>4. l \in ps[k].first..ps[k].last
      BY <1>0, <3>1, <3>2, <3>3
    <3> QED
      BY <3>4
  <2> QED
    BY <2>1, <2>7, <2>8
<1> QED
  BY <1>1, <1>2

(* What a sequence of sequences covers, its flat form does.                *)
LEMMA FlatCovers ==
  ASSUME NEW Ids, NEW ss \in Seq(Seq(Ids)), NEW k \in 1..Len(ss), NEW j \in 1..Len(ss[k]),
         NEW l, l \in ss[k][j].first..ss[k][j].last
  PROVE  l \in Covered(FlattenSeq(ss))
<1>1. Range(ss[k]) \subseteq Range(FlattenSeq(ss))
  BY FlattenIs
<1>2. ss[k] \in Seq(Ids)
  OBVIOUS
<1>3. ss[k][j] \in Range(ss[k])
  BY <1>2 DEF Range
<1>4. PICK i \in DOMAIN FlattenSeq(ss) : FlattenSeq(ss)[i] = ss[k][j]
  BY <1>1, <1>3 DEF Range
<1>5. l \in FlattenSeq(ss)[i].first..FlattenSeq(ss)[i].last
  BY <1>4
<1> QED
  BY <1>5 DEF Covered

LEMMA CapCovers ==
  ASSUME NEW doc, NEW chunks \in Seq(Piece), NEW l \in Covered(chunks), l \notin doc.empty
  PROVE  l \in Covered(CapChunkSizes(doc, chunks))
<1> DEFINE n == Len(chunks)
           ss == [k \in 1..n |-> CutIn(doc, chunks[k])]
<1>1. CapChunkSizes(doc, chunks) = FlattenSeq(ss)
  BY DEF CapChunkSizes, CutIn
<1>2. n \in Nat /\ \A k \in 1..n : chunks[k] \in Piece
  OBVIOUS
<1>3. \A k \in 1..n : ss[k] = CutIn(doc, chunks[k])
  OBVIOUS
<1>4. DOMAIN ss = 1..n /\ ss = [k \in 1..n |-> ss[k]]
  OBVIOUS
<1>5. PICK k \in 1..n : l \in chunks[k].first..chunks[k].last
  BY DEF Covered
<1> HIDE DEF ss, n
<1>6. \A i \in 1..n : ss[i] \in Seq(Piece)
  BY <1>2, <1>3, CutKeepsLines
<1>7. ss \in Seq(Seq(Piece)) /\ Len(ss) = n
  BY <1>2, <1>4, <1>6, MadeOf
<1>8. PICK j \in 1..Len(CutIn(doc, chunks[k])) : l \in CutIn(doc, chunks[k])[j].first..CutIn(doc, chunks[k])[j].last
  BY <1>2, <1>5, CutKeepsLines
<1>9. l \in Covered(FlattenSeq(ss))
  BY <1>3, <1>5, <1>7, <1>8, FlatCovers
<1> QED
  BY <1>1, <1>9

(* What is cut is at most HardMax lines long.                              *)
Short == {p \in Piece : p.last - p.first < HardMax}

LEMMA CutIsShort ==
  ASSUME NEW doc, NEW c \in Piece
  PROVE  CutIn(doc, c) \in Seq(Short)
<1> DEFINE rs == LineWindows(c.first, c.last, doc.empty, CapWindow)
           n == Len(rs)
           ps == Parts(c, rs)
           cut == CutIn(doc, c)
           size == CapWindow.window
<1>1. c.first \in Nat \ {0} /\ c.last \in Nat /\ HardMax \in Nat /\ size \in Nat /\ size < HardMax
  <2>1. c.first \in Nat \ {0} /\ c.last \in Nat
    BY DEF Piece
  <2>2. size \in Nat
    BY WindowsAre DEF CutBy, Windows
  <2> QED
    BY <2>1, <2>2, ChunkingAssumption
<1> HIDE DEF size
<1>2. cut \in Seq(Piece)
  BY CutKeepsLines
<1>3. ASSUME c.last - c.first < HardMax, cut = <<c>> PROVE cut \in Seq(Short)
  <2>1. c \in Short
    BY <1>3 DEF Short
  <2> QED
    BY <1>3, <2>1
<1>4. CASE c.last - c.first + 1 <= HardMax
  <2>1. cut = <<c>>
    BY <1>4 DEF CutIn
  <2>2. c.last - c.first < HardMax
    BY <1>1, <1>4
  <2> QED
    BY <1>3, <2>1, <2>2
<1>5. CASE ~(c.last - c.first + 1 <= HardMax)
  <2>1. c.first <= c.last
    BY <1>1, <1>5
  <2>2. /\ n \in Nat
        /\ \A k \in 1..n : rs[k][1] \in Nat \ {0} /\ rs[k][2] \in Nat
        /\ \A k \in 1..n : rs[k][2] - rs[k][1] < size
        /\ 1 \in 1..n /\ rs[1][1] = c.first
        /\ n <= 1 => c.last - c.first <= size
    BY <1>1, <2>1, WindowsAre, LinesAreInWindows DEF size
  <2> HIDE DEF rs
  <2>3. CASE n <= 1
    <3>1. cut = <<c>>
      BY <2>3 DEF CutIn, rs
    <3>2. c.last - c.first < HardMax
      BY <1>1, <2>2, <2>3
    <3> QED
      BY <1>3, <3>1, <3>2
  <2>4. CASE ~(n <= 1)
    <3>1. cut = ps
      BY <1>5, <2>4 DEF CutIn, rs
    <3>2. ps = [k \in 1..n |->
                 IF k = 1 THEN [c EXCEPT !.last = rs[1][2]]
                 ELSE [first |-> rs[k][1], last |-> rs[k][2], kind |-> "window",
                       def |-> 0, imports |-> {}, refs |-> {}]]
      BY DEF Parts
    <3>0. ps \in Seq(Piece)
      BY <1>2, <3>1
    <3> HIDE DEF ps, n, cut
    <3>3. DOMAIN ps = 1..n /\ ps = [k \in 1..n |-> ps[k]]
      BY <3>2
    <3>4. \A k \in 1..n : ps[k] \in Piece
      <4>1. \A k \in DOMAIN ps : ps[k] \in Piece
        BY <3>0
      <4> QED
        BY <3>3, <4>1
    <3>5. ASSUME NEW k \in 1..n PROVE ps[k].first = rs[k][1] /\ ps[k].last = rs[k][2]
      <4>1. CASE k = 1
        <5>1. ps[k] = [c EXCEPT !.last = rs[1][2]]
          BY <3>2, <4>1
        <5> QED
          BY <2>2, <4>1, <5>1 DEF Piece
      <4>2. CASE k # 1
        BY <3>2, <4>2
      <4> QED
        BY <4>1, <4>2
    <3>6. ASSUME NEW k \in 1..n PROVE ps[k] \in Short
      <4> DEFINE a == rs[k][1]
                 b == rs[k][2]
      <4>1. a \in Nat /\ b \in Nat /\ b - a < size /\ ps[k].first = a /\ ps[k].last = b
        BY <2>2, <3>5
      <4> HIDE DEF a, b
      <4>2. ps[k].last - ps[k].first < HardMax
        BY <1>1, <4>1
      <4> QED
        BY <3>4, <4>2 DEF Short
    <3>7. ps \in Seq(Short)
      BY <2>2, <3>3, <3>6, MadeOf
    <3> QED
      BY <3>1, <3>7 DEF cut
  <2> QED
    BY <2>3, <2>4
<1> QED
  BY <1>4, <1>5

LEMMA CapIsShort ==
  ASSUME NEW doc, NEW chunks \in Seq(Piece)
  PROVE  CapChunkSizes(doc, chunks) \in Seq(Short)
<1> DEFINE n == Len(chunks)
           ss == [k \in 1..n |-> CutIn(doc, chunks[k])]
<1>1. CapChunkSizes(doc, chunks) = FlattenSeq(ss)
  BY DEF CapChunkSizes, CutIn
<1>2. n \in Nat /\ \A k \in 1..n : chunks[k] \in Piece
  OBVIOUS
<1>3. \A k \in 1..n : ss[k] = CutIn(doc, chunks[k])
  OBVIOUS
<1>4. DOMAIN ss = 1..n /\ ss = [k \in 1..n |-> ss[k]]
  OBVIOUS
<1> HIDE DEF ss, n
<1>5. \A k \in 1..n : ss[k] \in Seq(Short)
  BY <1>2, <1>3, CutIsShort
<1>6. ss \in Seq(Seq(Short))
  BY <1>2, <1>4, <1>5, MadeOf
<1> QED
  BY <1>1, <1>6, FlattenIs

(* What pieces cover is what their set does.                               *)
LEMMA CoveredBy ==
  ASSUME NEW s, NEW l
  PROVE  l \in Covered(s) <=> \E p \in Range(s) : l \in p.first..p.last
BY DEF Covered, Range

(* The lines of a gap that is not short are in its windows.                *)
LEMMA GapIsCut ==
  ASSUME NEW doc, NEW from \in Nat \ {0}, NEW to \in Nat
  PROVE  /\ Gap(doc, from, to) \in Seq(Piece)
         /\ to + 1 < from + GapThreshold \/ (from..to) \ doc.empty \subseteq Covered(Gap(doc, from, to))
<1> DEFINE rs == LineWindows(from, to, doc.empty, GapWindow)
           n == Len(rs)
           cs == [k \in 1..n |-> WindowChunk(doc, rs[k], "window-fill", rs[k][1] - 1)]
<1>0. <<>> \in Seq(Piece)
  OBVIOUS
<1>1. CASE to + 1 < from + GapThreshold
  <2>1. Gap(doc, from, to) = <<>>
    BY <1>1 DEF Gap
  <2> QED
    BY <1>0, <1>1, <2>1
<1>2. CASE ~(to + 1 < from + GapThreshold)
  <2>1. Gap(doc, from, to) = ChunkLineRange(doc, from, to)
    BY <1>2 DEF Gap
  <2>2. CASE from..to \subseteq doc.empty
    <3>1. Gap(doc, from, to) = <<>> /\ (from..to) \ doc.empty = {}
      BY <2>1, <2>2 DEF ChunkLineRange
    <3> QED
      BY <1>0, <3>1
  <2>3. CASE ~(from..to \subseteq doc.empty)
    <3>1. Gap(doc, from, to) = cs
      BY <2>1, <2>3 DEF ChunkLineRange
    <3>2. from <= to
      BY <1>2, ChunkingAssumption
    <3>3. /\ n \in Nat
          /\ \A k \in 1..n : rs[k][1] \in Nat \ {0} /\ rs[k][2] \in Nat
          /\ \A l \in (from..to) \ doc.empty : \E k \in 1..n : l \in rs[k][1]..rs[k][2]
      BY <3>2, WindowsAre, LinesAreInWindows
    <3> DEFINE kind == "window-fill"
    <3>4. kind \in Kinds
      BY DEF Kinds
    <3>5. DOMAIN cs = 1..n /\ cs = [k \in 1..n |-> cs[k]]
      OBVIOUS
    <3>6. \A k \in 1..n : cs[k] = WindowChunk(doc, rs[k], kind, rs[k][1] - 1)
      OBVIOUS
    <3> HIDE DEF kind, cs, rs, n
    <3>7. ASSUME NEW k \in 1..n PROVE cs[k] \in Piece /\ cs[k].first = rs[k][1] /\ cs[k].last = rs[k][2]
      <4>1. rs[k][1] \in Nat \ {0} /\ rs[k][2] \in Nat /\ rs[k][1] - 1 \in Int
        BY <3>3
      <4> QED
        BY <3>4, <3>6, <4>1, WindowChunkIsPiece
    <3>8. cs \in Seq(Piece)
      BY <3>3, <3>5, <3>7, MadeOf
    <3>9. (from..to) \ doc.empty \subseteq Covered(cs)
      <4> SUFFICES ASSUME NEW l \in (from..to) \ doc.empty PROVE l \in Covered(cs)
        OBVIOUS
      <4>1. PICK k \in 1..n : l \in rs[k][1]..rs[k][2]
        BY <3>3
      <4>2. k \in DOMAIN cs /\ l \in cs[k].first..cs[k].last
        BY <3>5, <3>7, <4>1
      <4> QED
        BY <4>2 DEF Covered
    <3> QED
      BY <3>1, <3>8, <3>9
  <2> QED
    BY <2>2, <2>3
<1> QED
  BY <1>1, <1>2

(* One of finitely many numbers is the greatest.                           *)
LEMMA GreatestOf ==
  ASSUME NEW n \in Nat \ {0}, NEW f, \A m \in 1..n : f[m] \in Nat
  PROVE  \E j \in 1..n : \A m \in 1..n : f[m] <= f[j]
<1> DEFINE T == {i \in Nat : i + 1 <= n => \E j \in 1..(i + 1) : \A m \in 1..(i + 1) : f[m] <= f[j]}
<1>1. 0 \in T
  <2> SUFFICES ASSUME 0 + 1 <= n PROVE \E j \in 1..(0 + 1) : \A m \in 1..(0 + 1) : f[m] <= f[j]
    OBVIOUS
  <2>1. 1 \in 1..n /\ 1 \in 1..(0 + 1) /\ \A m \in 1..(0 + 1) : m = 1
    OBVIOUS
  <2>2. f[1] <= f[1]
    BY <2>1
  <2> QED
    BY <2>1, <2>2
<1>2. ASSUME NEW i \in T PROVE i + 1 \in T
  <2> DEFINE z == (i + 1) + 1
  <2> SUFFICES ASSUME z <= n PROVE \E j \in 1..z : \A m \in 1..z : f[m] <= f[j]
    OBVIOUS
  <2>1. PICK j \in 1..(i + 1) : \A m \in 1..(i + 1) : f[m] <= f[j]
    OBVIOUS
  <2>2. z \in 1..n /\ j \in 1..n /\ j \in 1..z /\ z \in 1..z /\ \A m \in 1..z : m \in 1..n /\ (m = z \/ m \in 1..(i + 1))
    OBVIOUS
  <2>3. f[z] \in Nat /\ f[j] \in Nat
    BY <2>2
  <2> HIDE DEF z
  <2>5. CASE f[z] <= f[j]
    <3>1. \A m \in 1..z : f[m] <= f[j]
      BY <2>1, <2>2, <2>5
    <3> QED
      BY <2>2, <3>1
  <2>6. CASE ~(f[z] <= f[j])
    <3>1. ASSUME NEW m \in 1..z PROVE f[m] <= f[z]
      <4>1. CASE m = z
        BY <2>3, <4>1
      <4>2. CASE m # z
        <5>1. f[m] <= f[j] /\ f[m] \in Nat
          BY <2>1, <2>2, <4>2
        <5> QED
          BY <2>3, <2>6, <5>1
      <4> QED
        BY <4>1, <4>2
    <3> QED
      BY <2>2, <3>1
  <2> QED
    BY <2>5, <2>6
<1>3. T = Nat
  <2>1. T \in SUBSET Nat
    OBVIOUS
  <2> HIDE DEF T
  <2> QED
    BY <1>1, <1>2, <2>1, NatInd
<1>4. n - 1 \in Nat /\ (n - 1) + 1 = n
  OBVIOUS
<1>5. n - 1 \in T
  BY <1>3, <1>4
<1> QED
  BY <1>4, <1>5 DEF T

(* The first line after all of k chunks.                                   *)
LEMMA CursorIs ==
  ASSUME NEW chunks \in Seq(Piece), NEW k \in 1..(Len(chunks) + 1)
  PROVE  /\ Cursor(chunks, k) \in Nat \ {0}
         /\ Cursor(chunks, k) = 1 \/ \E j \in 1..(k - 1) : Cursor(chunks, k) = chunks[j].last + 1
         /\ \A j \in 1..(k - 1) : chunks[j].last < Cursor(chunks, k)
<1> DEFINE n == Len(chunks)
           ends == {chunks[j].last : j \in 1..(k - 1)}
           most == CHOOSE e \in ends : \A f \in ends : f <= e
           lasts == [j \in 1..n |-> chunks[j].last]
<1>1. n \in Nat /\ \A j \in 1..n : chunks[j].last \in Nat
  <2>1. \A j \in 1..n : chunks[j] \in Piece
    OBVIOUS
  <2> QED
    BY <2>1 DEF Piece
<1>2. Cursor(chunks, k) = IF ends = {} THEN 1 ELSE 1 + most
  BY DEF Cursor
<1>3. k \in 1..(n + 1)
  OBVIOUS
<1> HIDE DEF n
<1>4. CASE k = 1
  <2>1. ends = {} /\ 1..(k - 1) = {}
    BY <1>4
  <2> QED
    BY <1>2, <2>1
<1>5. CASE k # 1
  <2>1. k - 1 \in Nat \ {0} /\ \A m \in 1..(k - 1) : m \in 1..n
    BY <1>1, <1>3, <1>5
  <2>2. \A m \in 1..(k - 1) : lasts[m] = chunks[m].last /\ lasts[m] \in Nat
    BY <1>1, <2>1
  <2> HIDE DEF lasts
  <2>3. PICK j \in 1..(k - 1) : \A m \in 1..(k - 1) : lasts[m] <= lasts[j]
    BY <2>1, <2>2, GreatestOf
  <2>4. chunks[j].last \in ends /\ \A f \in ends : f <= chunks[j].last
    BY <2>2, <2>3
  <2>5. most \in ends /\ ends # {} /\ \A f \in ends : f <= most
    BY <2>4
  <2>6. PICK m \in 1..(k - 1) : most = chunks[m].last
    BY <2>5
  <2>7. most \in Nat
    BY <2>2, <2>6
  <2>8. \A i \in 1..(k - 1) : chunks[i].last <= most /\ chunks[i].last \in Nat
    BY <2>2, <2>5
  <2> HIDE DEF most, ends
  <2>9. Cursor(chunks, k) = 1 + most
    BY <1>2, <2>5
  <2>10. Cursor(chunks, k) = chunks[m].last + 1
    BY <2>6, <2>7, <2>9
  <2> QED
    BY <2>7, <2>8, <2>9, <2>10
<1> QED
  BY <1>4, <1>5

(* What is filled has the chunks and, before and after them, the gaps.     *)
GapBefore(doc, chunks, k) ==
  Gap(doc, Cursor(chunks, k), IF k <= Len(chunks) THEN chunks[k].first - 1 ELSE doc.total)

LEMMA CoveredConcat ==
  ASSUME NEW s \in Seq(Piece), NEW t \in Seq(Piece)
  PROVE  s \o t \in Seq(Piece) /\ Covered(s \o t) = Covered(s) \cup Covered(t)
<1>1. s \o t \in Seq(Piece) /\ Range(s \o t) = Range(s) \cup Range(t)
  BY ConcatRange
<1>2. \A l : l \in Covered(s \o t) <=> l \in Covered(s) \/ l \in Covered(t)
  BY <1>1, CoveredBy
<1> QED
  BY <1>1, <1>2

LEMMA FillKeeps ==
  ASSUME NEW doc, doc.total \in Nat, NEW chunks \in Seq(Piece)
  PROVE  /\ FillCoverageGaps(doc, chunks) \in Seq(Piece)
         /\ Covered(chunks) \subseteq Covered(FillCoverageGaps(doc, chunks))
         /\ \A k \in 1..(Len(chunks) + 1) :
              Covered(GapBefore(doc, chunks, k)) \subseteq Covered(FillCoverageGaps(doc, chunks))
<1> DEFINE n == Len(chunks)
           gap(k) == GapBefore(doc, chunks, k)
           ss == [k \in 1..n |-> gap(k) \o <<chunks[k]>>]
           filled == FillCoverageGaps(doc, chunks)
<1>1. n \in Nat /\ \A k \in 1..n : chunks[k] \in Piece /\ chunks[k].first \in Nat \ {0}
  <2>1. n \in Nat /\ \A k \in 1..n : chunks[k] \in Piece
    OBVIOUS
  <2> QED
    BY <2>1 DEF Piece
<1>2. filled = FlattenSeq(ss) \o gap(n + 1)
  <2>1. ss = [k \in 1..n |-> Gap(doc, Cursor(chunks, k), chunks[k].first - 1) \o <<chunks[k]>>]
    BY <1>1 DEF GapBefore
  <2>2. gap(n + 1) = Gap(doc, Cursor(chunks, n + 1), doc.total)
    BY <1>1 DEF GapBefore
  <2>3. filled = FlattenSeq([k \in 1..n |-> Gap(doc, Cursor(chunks, k), chunks[k].first - 1) \o <<chunks[k]>>])
                   \o Gap(doc, Cursor(chunks, n + 1), doc.total)
    BY DEF FillCoverageGaps
  <2> HIDE DEF ss, n, filled, gap
  <2> QED
    BY <2>1, <2>2, <2>3
<1>3. \A k \in 1..(n + 1) : gap(k) \in Seq(Piece)
  <2> TAKE k \in 1..(n + 1)
  <2>1. Cursor(chunks, k) \in Nat \ {0}
    BY CursorIs
  <2> DEFINE to == IF k <= n THEN chunks[k].first - 1 ELSE doc.total
  <2>2. to \in Nat
    <3>1. k <= n => k \in 1..n
      BY <1>1
    <3> HIDE DEF n
    <3>2. k <= n => chunks[k].first - 1 \in Nat
      BY <1>1, <3>1
    <3> QED
      BY <3>2
  <2>3. gap(k) = Gap(doc, Cursor(chunks, k), to)
    BY DEF GapBefore
  <2> HIDE DEF to
  <2> QED
    BY <2>1, <2>2, <2>3, GapIsCut
<1> HIDE DEF filled, gap
<1>4. \A k \in 1..n : ss[k] = gap(k) \o <<chunks[k]>>
  OBVIOUS
<1>5. DOMAIN ss = 1..n /\ ss = [k \in 1..n |-> ss[k]]
  OBVIOUS
<1>6. \A k \in 1..n : k \in 1..(n + 1)
  BY <1>1
<1>7. n + 1 \in 1..(n + 1) /\ \A k \in 1..(n + 1) : k \in 1..n \/ k = n + 1
  BY <1>1
<1>8. \A k \in 1..n : <<chunks[k]>> \in Seq(Piece) /\ Covered(<<chunks[k]>>) = chunks[k].first..chunks[k].last
  <2> TAKE k \in 1..n
  <2>1. <<chunks[k]>> \in Seq(Piece) /\ DOMAIN <<chunks[k]>> = {1} /\ <<chunks[k]>>[1] = chunks[k]
    BY <1>1
  <2>2. Covered(<<chunks[k]>>) = chunks[k].first..chunks[k].last
    BY <2>1 DEF Covered
  <2> QED
    BY <2>1, <2>2
<1>9. Covered(chunks) = UNION {chunks[k].first..chunks[k].last : k \in 1..n}
  BY DEF Covered
<1> HIDE DEF n, ss
<1>10. \A k \in 1..n : /\ ss[k] \in Seq(Piece)
                       /\ Covered(ss[k]) = Covered(gap(k)) \cup (chunks[k].first..chunks[k].last)
  <2> TAKE k \in 1..n
  <2> DEFINE a == gap(k)
             b == <<chunks[k]>>
  <2>1. a \in Seq(Piece) /\ b \in Seq(Piece) /\ ss[k] = a \o b /\ Covered(b) = chunks[k].first..chunks[k].last
    BY <1>3, <1>4, <1>6, <1>8
  <2> HIDE DEF a, b
  <2>2. a \o b \in Seq(Piece) /\ Covered(a \o b) = Covered(a) \cup Covered(b)
    BY <2>1, CoveredConcat
  <2> QED
    BY <2>1, <2>2 DEF a
<1>11. ss \in Seq(Seq(Piece)) /\ Len(ss) = n
  BY <1>1, <1>5, <1>10, MadeOf
<1>12. FlattenSeq(ss) \in Seq(Piece)
  BY <1>11, FlattenIs
<1>13. \A k \in 1..n : Covered(ss[k]) \subseteq Covered(FlattenSeq(ss))
  <2> SUFFICES ASSUME NEW k \in 1..n, NEW l \in Covered(ss[k]) PROVE l \in Covered(FlattenSeq(ss))
    OBVIOUS
  <2>1. PICK j \in DOMAIN ss[k] : l \in ss[k][j].first..ss[k][j].last
    BY DEF Covered
  <2>2. j \in 1..Len(ss[k])
    BY <1>10
  <2> QED
    BY <1>11, <2>1, <2>2, FlatCovers
<1>14. filled \in Seq(Piece) /\ Covered(filled) = Covered(FlattenSeq(ss)) \cup Covered(gap(n + 1))
  BY <1>2, <1>3, <1>7, <1>12, CoveredConcat
<1>15. Covered(chunks) \subseteq Covered(filled)
  BY <1>9, <1>10, <1>13, <1>14
<1>16. \A k \in 1..(n + 1) : Covered(gap(k)) \subseteq Covered(filled)
  BY <1>7, <1>10, <1>13, <1>14
<1> QED
  <2>1. FillCoverageGaps(doc, chunks) \in Seq(Piece) /\ Covered(chunks) \subseteq Covered(FillCoverageGaps(doc, chunks))
    BY <1>14, <1>15 DEF filled
  <2>2. \A k \in 1..(Len(chunks) + 1) : Covered(GapBefore(doc, chunks, k)) \subseteq Covered(filled)
    BY <1>16 DEF gap, n
  <2> QED
    BY <2>1, <2>2 DEF filled

(* A file of which no node is a chunk is all in windows.                   *)
LEMMA FallbackCovers ==
  ASSUME NEW doc, doc.total \in Nat
  PROVE  (1..doc.total) \ doc.empty \subseteq Covered(Fallback(doc))
<1>1. CASE doc.total = 0
  BY <1>1
<1>2. CASE doc.total # 0
  <2> DEFINE rs == LineWindows(1, doc.total, doc.empty, FallbackWindow)
             n == Len(rs)
             out == [k \in 1..n |-> [WindowChunk(doc, rs[k], "window", 0) EXCEPT !.refs = {}]]
  <2>1. Fallback(doc) = out
    BY <1>2 DEF Fallback
  <2>2. 1 <= doc.total /\ 1 \in Nat \ {0}
    BY <1>2
  <2>3. \A l \in (1..doc.total) \ doc.empty : \E k \in 1..n : l \in rs[k][1]..rs[k][2]
    BY <2>2, WindowsAre, LinesAreInWindows
  <2> HIDE DEF rs, n
  <2>4. \A k \in 1..n : out[k].first = rs[k][1] /\ out[k].last = rs[k][2]
    BY DEF WindowChunk
  <2>5. DOMAIN out = 1..n
    OBVIOUS
  <2> HIDE DEF out
  <2>6. ASSUME NEW l \in (1..doc.total) \ doc.empty PROVE l \in Covered(out)
    <3>1. PICK k \in 1..n : l \in rs[k][1]..rs[k][2]
      BY <2>3
    <3>2. k \in DOMAIN out /\ l \in out[k].first..out[k].last
      BY <2>4, <2>5, <3>1
    <3> QED
      BY <3>2 DEF Covered
  <2> QED
    BY <2>1, <2>6
<1> QED
  BY <1>1, <1>2

(* The chunkable nodes, in order, and what becomes of them; the imports    *)
(* are with the first.                                                     *)
Chunkable(doc) == {i \in DOMAIN doc.nodes : doc.nodes[i].type = "chunkable"}

Picked(doc) ==
  FlattenSeq([i \in 1..Len(doc.nodes) |-> IF doc.nodes[i].type = "chunkable" THEN <<i>> ELSE <<>>])

FromNodes(doc) ==
  WithFileImports([k \in 1..Len(Picked(doc)) |-> ChunkFromNode(doc, Picked(doc)[k])], FileLevelImports(doc))

LEMMA NodeLines ==
  ASSUME NEW doc, IsDocument(doc)
  PROVE  /\ doc.total \in Nat /\ Len(doc.nodes) \in Nat /\ DOMAIN doc.nodes = 1..Len(doc.nodes)
         /\ \A i \in DOMAIN doc.nodes :
              /\ doc.nodes[i].first \in 1..doc.total /\ doc.nodes[i].last \in 1..doc.total
              /\ doc.nodes[i].first <= doc.nodes[i].last
<1>1. doc.total \in Nat /\ Len(doc.nodes) \in Nat /\ DOMAIN doc.nodes = 1..Len(doc.nodes)
  BY DEF IsDocument
<1>2. ASSUME NEW i \in 1..Len(doc.nodes)
      PROVE  /\ doc.nodes[i].first \in 1..doc.total /\ doc.nodes[i].last \in 1..doc.total
             /\ doc.nodes[i].first <= doc.nodes[i].last
  <2>1. doc.nodes[i] \in NodeIn(doc.total)
    BY DEF IsDocument
  <2> QED
    BY <2>1 DEF NodeIn, IsDocument
<1> QED
  BY <1>1, <1>2

LEMMA PickedAre ==
  ASSUME NEW doc, IsDocument(doc)
  PROVE  /\ Picked(doc) \in Seq(Chunkable(doc))
         /\ Len(Picked(doc)) = 0 => Chunkable(doc) = {}
<1> DEFINE n == Len(doc.nodes)
           Ids == Chunkable(doc)
           picks == [i \in 1..n |-> IF doc.nodes[i].type = "chunkable" THEN <<i>> ELSE <<>>]
           picked == FlattenSeq(picks)
<1>1. n \in Nat /\ Ids = {i \in 1..n : doc.nodes[i].type = "chunkable"}
  BY NodeLines DEF Chunkable
<1>2. Picked(doc) = picked
  BY DEF Picked
<1>3. DOMAIN picks = 1..n /\ picks = [i \in 1..n |-> picks[i]]
  OBVIOUS
<1>4. \A i \in 1..n : picks[i] = IF doc.nodes[i].type = "chunkable" THEN <<i>> ELSE <<>>
  OBVIOUS
<1> HIDE DEF Ids, picks, n
<1>5. \A i \in 1..n : picks[i] \in Seq(Ids)
  <2> TAKE i \in 1..n
  <2>1. CASE doc.nodes[i].type = "chunkable"
    <3>1. i \in Ids /\ picks[i] = <<i>>
      BY <1>1, <1>4, <2>1
    <3> QED
      BY <3>1
  <2>2. CASE doc.nodes[i].type # "chunkable"
    <3>1. picks[i] = <<>>
      BY <1>4, <2>2
    <3> QED
      BY <3>1
  <2> QED
    BY <2>1, <2>2
<1>6. picks \in Seq(Seq(Ids)) /\ Len(picks) = n
  BY <1>1, <1>3, <1>5, MadeOf
<1>7. picked \in Seq(Ids) /\ \A i \in 1..n : Range(picks[i]) \subseteq Range(picked)
  BY <1>6, FlattenIs
<1> HIDE DEF picked
<1>8. ASSUME Len(picked) = 0, NEW i \in Ids PROVE FALSE
  <2>1. i \in 1..n /\ picks[i] = <<i>>
    BY <1>1, <1>4
  <2>2. i \in Range(<<i>>)
    <3>1. 1 \in DOMAIN <<i>> /\ <<i>>[1] = i
      OBVIOUS
    <3> QED
      BY <3>1 DEF Range
  <2>3. i \in Range(picked)
    BY <1>7, <2>1, <2>2
  <2>4. DOMAIN picked = {}
    BY <1>7, <1>8
  <2> QED
    BY <2>3, <2>4 DEF Range
<1> QED
  BY <1>2, <1>7, <1>8 DEF Ids

LEMMA FromNodesAre ==
  ASSUME NEW doc, IsDocument(doc)
  PROVE  LET picked == Picked(doc)
             n == Len(picked)
             all == FromNodes(doc)
         IN  /\ n \in Nat /\ \A k \in 1..n : picked[k] \in Chunkable(doc)
             /\ all \in Seq(Piece) /\ Len(all) = n
             /\ \A k \in 1..n : /\ all[k].first = doc.nodes[picked[k]].first
                               /\ all[k].last = doc.nodes[picked[k]].last
             /\ CodeChunks(doc) = IF ~doc.parsed \/ n = 0 THEN Fallback(doc)
                                  ELSE CapChunkSizes(doc, FillCoverageGaps(doc, all))
<1> DEFINE picked == Picked(doc)
           n == Len(picked)
           chunks == [k \in 1..n |-> ChunkFromNode(doc, picked[k])]
           imports == FileLevelImports(doc)
           all == FromNodes(doc)
           node(k) == doc.nodes[picked[k]]
<1>1. CodeChunks(doc) = IF ~doc.parsed \/ chunks = <<>> THEN Fallback(doc)
                        ELSE CapChunkSizes(doc, FillCoverageGaps(doc, all))
  BY DEF CodeChunks, Picked, FromNodes
<1>2. all = [chunks EXCEPT ![1].imports = imports]
  BY DEF FromNodes, WithFileImports
<1>3. n \in Nat /\ \A k \in 1..n : picked[k] \in Chunkable(doc)
  <2>1. picked \in Seq(Chunkable(doc))
    BY PickedAre
  <2> HIDE DEF picked
  <2> QED
    BY <2>1
<1> HIDE DEF picked, all
<1>4. DOMAIN chunks = 1..n /\ chunks = [k \in 1..n |-> chunks[k]]
  OBVIOUS
<1>5. \A k \in 1..n : chunks[k] = ChunkFromNode(doc, picked[k])
  OBVIOUS
<1> HIDE DEF chunks, n
<1>6. chunks = <<>> <=> n = 0
  BY <1>3, <1>4
<1>7. ASSUME NEW k \in 1..n
      PROVE  chunks[k] \in Piece /\ chunks[k].first = node(k).first /\ chunks[k].last = node(k).last
  <2>1. picked[k] \in 1..Len(doc.nodes)
    BY <1>3, NodeLines DEF Chunkable
  <2> QED
    BY <1>5, <2>1, NodeIsPiece
<1>8. imports \in SUBSET Nat
  <2>1. \A i \in DOMAIN doc.nodes : doc.nodes[i].first \in Nat
    BY NodeLines
  <2> QED
    BY <2>1 DEF FileLevelImports
<1> HIDE DEF imports, node
<1>9. DOMAIN all = 1..n /\ all = [k \in 1..n |-> all[k]]
  BY <1>2, <1>4
<1>10. ASSUME NEW k \in 1..n
       PROVE  all[k] \in Piece /\ all[k].first = chunks[k].first /\ all[k].last = chunks[k].last
  <2>1. all[k] = chunks[k] \/ all[k] = [chunks[k] EXCEPT !.imports = imports]
    BY <1>2, <1>4
  <2> QED
    BY <1>7, <1>8, <2>1 DEF Piece
<1>11. all \in Seq(Piece) /\ Len(all) = n
  BY <1>3, <1>9, <1>10, MadeOf
<1>12. \A k \in 1..n : all[k].first = node(k).first /\ all[k].last = node(k).last
  BY <1>7, <1>10
<1> QED
  BY <1>1, <1>3, <1>6, <1>11, <1>12 DEF all, n, picked, node

(* Every line of every document is in a chunk, but for an empty one, or    *)
(* one in a stretch between nodes that is below the threshold.             *)
THEOREM EveryLineIsChunked ==
  ASSUME NEW doc, IsDocument(doc)
  PROVE  EveryLineChunked(doc, CodeChunks(doc))
<1> DEFINE nodes == IF doc.parsed THEN {i \in DOMAIN doc.nodes : doc.nodes[i].type = "chunkable"} ELSE {}
           inNode == UNION {doc.nodes[i].first..doc.nodes[i].last : i \in nodes}
           stretch(l) == {m \in 1..doc.total : (Least(l, m)..(IF l < m THEN m ELSE l)) \cap inNode = {}}
           picked == Picked(doc)
           n == Len(picked)
           all == FromNodes(doc)
           filled == FillCoverageGaps(doc, all)
           out == CodeChunks(doc)
           total == doc.total
           node(k) == doc.nodes[picked[k]]
<1>1. total \in Nat
  BY NodeLines
<1>2. /\ n \in Nat /\ \A k \in 1..n : picked[k] \in Chunkable(doc)
      /\ all \in Seq(Piece) /\ Len(all) = n
      /\ \A k \in 1..n : all[k].first = node(k).first /\ all[k].last = node(k).last
      /\ out = IF ~doc.parsed \/ n = 0 THEN Fallback(doc) ELSE CapChunkSizes(doc, filled)
  BY FromNodesAre
<1>3. doc.parsed => nodes = Chunkable(doc)
  BY DEF Chunkable
<1> HIDE DEF nodes, picked
<1> SUFFICES ASSUME NEW l \in (1..total) \ (Covered(out) \cup doc.empty)
             PROVE  nodes # {} /\ Cardinality(stretch(l)) < GapThreshold
  BY DEF EveryLineChunked, nodes
<1>9. ~(~doc.parsed \/ n = 0)
  <2> SUFFICES ASSUME ~doc.parsed \/ n = 0 PROVE FALSE
    OBVIOUS
  <2>1. out = Fallback(doc)
    BY <1>2
  <2>2. (1..total) \ doc.empty \subseteq Covered(out)
    BY <1>1, <2>1, FallbackCovers
  <2> HIDE DEF out, total
  <2> QED
    BY <2>2
<1>11. nodes # {} /\ \A k \in 1..n : picked[k] \in nodes
  <2>1. 1 \in 1..n
    BY <1>2, <1>9
  <2> QED
    BY <1>2, <1>3, <1>9, <2>1
<1>12. \A k \in 1..n : node(k).first \in 1..total /\ node(k).last \in 1..total /\ node(k).first <= node(k).last
  <2>1. \A k \in 1..n : picked[k] \in DOMAIN doc.nodes
    BY <1>2 DEF Chunkable
  <2> QED
    BY <2>1, NodeLines
<1>13. \A k \in 1..n : node(k).first..node(k).last \subseteq inNode
  BY <1>11
<1>15. /\ n \in Nat /\ all \in Seq(Piece) /\ Len(all) = n
       /\ \A k \in 1..n : all[k].first = node(k).first /\ all[k].last = node(k).last
  BY <1>2
<1> HIDE DEF all, node, inNode
<1>16. /\ filled \in Seq(Piece) /\ Covered(all) \subseteq Covered(filled)
       /\ \A k \in 1..(n + 1) : Covered(GapBefore(doc, all, k)) \subseteq Covered(filled)
  BY <1>1, <1>15, FillKeeps
<1>17. l \notin Covered(filled)
  <2> SUFFICES ASSUME l \in Covered(filled) PROVE FALSE
    OBVIOUS
  <2>1. out = CapChunkSizes(doc, filled)
    BY <1>2, <1>9
  <2> HIDE DEF filled, out
  <2>2. l \in Covered(out)
    BY <1>16, <2>1, CapCovers
  <2> QED
    BY <2>2
<1> HIDE DEF filled, out
<1>18. l \in Nat /\ l \in 1..total /\ l \notin doc.empty
  BY <1>1
<1>19. \A k \in 1..n : l < node(k).first \/ node(k).last < l
  <2> TAKE k \in 1..n
  <2>1. l \notin node(k).first..node(k).last
    <3>1. k \in DOMAIN all
      BY <1>15
    <3>2. l \notin all[k].first..all[k].last
      BY <1>16, <1>17, <3>1 DEF Covered
    <3> QED
      BY <1>15, <3>2
  <2> QED
    BY <1>12, <1>18, <2>1
<1> DEFINE Later == {k \in 1..(n + 1) : k = n + 1 \/ l < node(k).first}
<1>20. PICK k \in Later : \A j \in Later : k <= j
  <2>1. n + 1 \in Later /\ Later \in SUBSET Nat
    BY <1>15
  <2> HIDE DEF Later
  <2> QED
    BY <2>1, LeastOf
<1> DEFINE from == Cursor(all, k)
           to == IF k <= n THEN node(k).first - 1 ELSE total
<1>21. k \in 1..(n + 1) /\ (k \in 1..n => l < node(k).first) /\ (k <= n <=> k \in 1..n)
  BY <1>15, <1>20
<1>22. \A j \in 1..(k - 1) : j \in 1..n /\ node(j).last < l
  <2> TAKE j \in 1..(k - 1)
  <2>1. j \in 1..n /\ j \in 1..(n + 1) /\ ~(k <= j)
    BY <1>15, <1>21
  <2>2. ~(l < node(j).first)
    BY <1>20, <2>1
  <2> QED
    BY <1>19, <2>1, <2>2
<1> HIDE DEF Later
<1>23. from \in Nat \ {0} /\ (from = 1 \/ \E j \in 1..(k - 1) : from = node(j).last + 1)
  <2>1. k \in 1..(Len(all) + 1)
    BY <1>15, <1>21
  <2>2. from \in Nat \ {0} /\ (from = 1 \/ \E j \in 1..(k - 1) : from = all[j].last + 1)
    BY <1>15, <2>1, CursorIs
  <2> QED
    BY <1>15, <1>22, <2>2
<1>24. to \in Nat /\ l <= to /\ to <= total
  <2>1. CASE k \in 1..n
    <3>1. node(k).first \in 1..total /\ l < node(k).first /\ to = node(k).first - 1
      BY <1>12, <1>21, <2>1
    <3> HIDE DEF to
    <3> QED
      BY <1>1, <1>18, <3>1
  <2>2. CASE k \notin 1..n
    BY <1>1, <1>18, <1>21, <2>2
  <2> QED
    BY <2>1, <2>2
<1>25. GapBefore(doc, all, k) = Gap(doc, from, to)
  BY <1>15, <1>21 DEF GapBefore
<1>26. from <= l
  <2>1. CASE from = 1
    BY <1>18, <2>1
  <2>2. ASSUME NEW j \in 1..(k - 1), from = node(j).last + 1 PROVE from <= l
    BY <1>12, <1>18, <1>22, <2>2
  <2> QED
    BY <1>23, <2>1, <2>2
<1>27. to + 1 < from + GapThreshold
  <2> SUFFICES ASSUME ~(to + 1 < from + GapThreshold) PROVE FALSE
    OBVIOUS
  <2> HIDE DEF to, from
  <2>1. l \in (from..to) \ doc.empty
    BY <1>18, <1>23, <1>24, <1>26
  <2>2. l \in Covered(Gap(doc, from, to))
    BY <1>23, <1>24, <2>1, GapIsCut
  <2>3. l \in Covered(filled)
    BY <1>16, <1>21, <1>25, <2>2
  <2> QED
    BY <1>17, <2>3
<1>28. \A m \in stretch(l) : m \in from..to
  <2> SUFFICES ASSUME NEW m \in 1..total, (Least(l, m)..(IF l < m THEN m ELSE l)) \cap inNode = {}
               PROVE  m \in from..to
    OBVIOUS
  <2>0. m \in Nat /\ m >= 1 /\ m <= total
    BY <1>1
  <2>1. ASSUME m > to PROVE FALSE
    <3>1. k \in 1..n
      BY <1>1, <1>21, <2>0, <2>1
    <3> DEFINE f == node(k).first
    <3>2. f \in inNode /\ f \in Nat /\ l < f /\ to = f - 1
      BY <1>12, <1>13, <1>21, <3>1
    <3> HIDE DEF f, to
    <3>3. f \in Least(l, m)..(IF l < m THEN m ELSE l)
      BY <1>18, <2>0, <2>1, <3>2 DEF Least
    <3> QED
      BY <2>0, <3>2, <3>3
  <2>2. ASSUME m < from PROVE FALSE
    <3>1. PICK j \in 1..(k - 1) : from = node(j).last + 1
      BY <1>23, <2>0, <2>2
    <3> DEFINE e == node(j).last
    <3>2. e \in inNode /\ e \in Nat /\ e < l /\ from = e + 1
      BY <1>12, <1>13, <1>22, <3>1
    <3> HIDE DEF e, from
    <3>3. e \in Least(l, m)..(IF l < m THEN m ELSE l)
      BY <1>18, <2>0, <2>2, <3>2 DEF Least
    <3> QED
      BY <2>0, <3>2, <3>3
  <2> HIDE DEF from, to
  <2> QED
    BY <1>23, <1>24, <2>0, <2>1, <2>2
<1>29. Cardinality(stretch(l)) < GapThreshold
  <2> DEFINE st == stretch(l)
  <2>1. st \subseteq from..to
    BY <1>28
  <2> HIDE DEF st, from, to
  <2>2. from \in Int /\ to \in Int /\ from <= to
    BY <1>23, <1>24, <1>26
  <2>3. IsFiniteSet(from..to) /\ Cardinality(from..to) = to - from + 1
    BY <2>2, FS_Interval
  <2>4. IsFiniteSet(st) /\ Cardinality(st) <= Cardinality(from..to)
    BY <2>1, <2>3, FS_Subset
  <2>5. Cardinality(st) \in Nat
    BY <2>4, FS_CardinalityType
  <2>6. Cardinality(st) < GapThreshold
    BY <1>27, <2>2, <2>3, <2>4, <2>5, ChunkingAssumption
  <2> QED
    BY <2>6 DEF st
<1> QED
  BY <1>11, <1>29

(* Whatever is cut out of a file that has nodes to chunk is at most        *)
(* HardMax lines long, in every document.                                  *)
THEOREM ChunksAreShort ==
  ASSUME NEW doc, IsDocument(doc), doc.parsed, Chunkable(doc) # {}
  PROVE  \A k \in DOMAIN CodeChunks(doc) : CodeChunks(doc)[k].last - CodeChunks(doc)[k].first < HardMax
<1> DEFINE all == FromNodes(doc)
           filled == FillCoverageGaps(doc, all)
           out == CodeChunks(doc)
<1>1. Len(Picked(doc)) # 0
  BY PickedAre
<1>2. all \in Seq(Piece) /\ out = CapChunkSizes(doc, filled)
  BY <1>1, FromNodesAre
<1>3. filled \in Seq(Piece)
  BY <1>2, NodeLines, FillKeeps
<1> HIDE DEF out, filled
<1>4. out \in Seq(Short)
  BY <1>2, <1>3, CapIsShort
<1>5. \A k \in DOMAIN out : out[k] \in Short
  BY <1>4
<1>6. \A k \in DOMAIN out : out[k].last - out[k].first < HardMax
  BY <1>5 DEF Short
<1> QED
  BY <1>6 DEF out

-----------------------------------------------------------------------------
(* The lines of a markdown file and what they are scanned into.            *)
LineKinds == {"text", "empty", "fence", "rule", "h1", "h2", "h3"}

HeadingPaths == {HeadingPath(stack) : stack \in Seq(Nat)} \cup {<<>>}
Told == [first : Nat \ {0}, last : Nat, path : HeadingPaths]
ToldOf(first, last, path) == [first |-> first, last |-> last, path |-> path]
Scans == [fence : BOOLEAN, stack : Seq(Nat), out : Seq(Told)]

LEMMA SectionIs ==
  ASSUME NEW first \in Nat \ {0}, NEW last \in Nat, NEW path \in HeadingPaths
  PROVE  LET c == ToldOf(first, last, path) IN c \in Told /\ c.first = first /\ c.last = last
BY DEF Told, ToldOf

LEMMA PushIs ==
  ASSUME NEW stack \in Seq(Nat), NEW depth \in Nat, NEW i \in Nat
  PROVE  Push(stack, depth, i) \in Seq(Nat)
<1> DEFINE n == Len(stack)
           at(d) == IF d = depth THEN i ELSE IF d <= n THEN stack[d] ELSE 0
           p == [d \in 1..depth |-> at(d)]
<1>1. n \in Nat /\ \A d \in 1..n : stack[d] \in Nat
  OBVIOUS
<1>2. Push(stack, depth, i) = p
  BY DEF Push
<1> HIDE DEF n
<1>3. \A d \in 1..depth : at(d) \in Nat
  BY <1>1
<1> HIDE DEF at
<1>4. p \in [1..depth -> Nat]
  BY <1>3
<1> QED
  BY <1>2, <1>4

(* A line leaves no section open, opens one or extends the last.           *)
LEMMA ScanIs ==
  ASSUME NEW lines \in Seq(LineKinds), NEW i \in 1..Len(lines), NEW s \in Scans
  PROVE  LET t == ScanLine(lines, s, i) IN
         /\ t \in Scans
         /\ \/ s.out = <<>> /\ t.out = <<>>
            \/ \E path \in HeadingPaths : t.out = Append(s.out, ToldOf(IF s.out = <<>> THEN 1 ELSE i, i, path))
            \/ s.out # <<>> /\ t.out = [s.out EXCEPT ![Len(s.out)].last = i]
<1> DEFINE line == lines[i]
           fence == IF line = "fence" THEN ~s.fence ELSE s.fence
           stack == Push(s.stack, Depth[line], i)
           first == IF s.out = <<>> THEN 1 ELSE i
           opens == ~fence /\ IsHeading(line)
           opened == Append(s.out, ToldOf(first, i, HeadingPath(stack)))
           longer == IF s.out = <<>> THEN s.out ELSE [s.out EXCEPT ![Len(s.out)].last = i]
           t == ScanLine(lines, s, i)
<1>1. i \in Nat \ {0} /\ i \in Nat /\ 1 \in Nat \ {0}
  OBVIOUS
<1>2. fence \in BOOLEAN /\ s.fence \in BOOLEAN /\ s.stack \in Seq(Nat) /\ s.out \in Seq(Told)
  BY DEF Scans
<1>3. t = IF opens THEN [fence |-> fence, stack |-> stack, out |-> opened]
          ELSE [s EXCEPT !.fence = fence, !.out = longer]
  BY DEF ScanLine, ToldOf
<1>4. s = [fence |-> s.fence, stack |-> s.stack, out |-> s.out]
  BY DEF Scans
<1>5. IsHeading(line) => Depth[line] \in Nat
  BY DEF IsHeading, Depth
<1> HIDE DEF fence, stack, longer, opened, t
<1>6. CASE opens
  <2>1. t = [fence |-> fence, stack |-> stack, out |-> opened]
    BY <1>3, <1>6
  <2>2. stack \in Seq(Nat)
    BY <1>1, <1>2, <1>5, <1>6, PushIs DEF stack
  <2>3. HeadingPath(stack) \in HeadingPaths
    BY <2>2 DEF HeadingPaths
  <2>4. first \in Nat \ {0}
    BY <1>1
  <2> HIDE DEF first
  <2>5. ToldOf(first, i, HeadingPath(stack)) \in Told
    BY <1>1, <2>3, <2>4, SectionIs
  <2>6. opened \in Seq(Told)
    BY <1>2, <2>5 DEF opened
  <2>7. t \in Scans
    BY <1>2, <2>1, <2>2, <2>6 DEF Scans
  <2>8. \E path \in HeadingPaths : t.out = Append(s.out, ToldOf(first, i, path))
    BY <2>1, <2>3 DEF opened
  <2> QED
    BY <2>7, <2>8 DEF t, first
<1>7. CASE ~opens
  <2>1. t = [fence |-> fence, stack |-> s.stack, out |-> longer]
    BY <1>3, <1>4, <1>7
  <2>2. CASE s.out = <<>>
    <3>1. longer = <<>>
      BY <2>2 DEF longer
    <3>2. t \in Scans
      BY <1>2, <2>1, <2>2, <3>1 DEF Scans
    <3> QED
      BY <2>1, <2>2, <3>1, <3>2 DEF t
  <2>3. CASE s.out # <<>>
    <3> DEFINE o == s.out
               m == Len(o)
    <3>1. longer = [o EXCEPT ![m].last = i]
      BY <2>3 DEF longer
    <3>2. m \in Nat /\ DOMAIN o = 1..m /\ \A k \in 1..m : o[k] \in Told
      BY <1>2
    <3> HIDE DEF m, o
    <3>3. DOMAIN longer = 1..m /\ longer = [k \in 1..m |-> longer[k]]
      BY <3>1, <3>2
    <3>4. ASSUME NEW k \in 1..m PROVE longer[k] \in Told
      <4>1. longer[k] = o[k] \/ longer[k] = [o[k] EXCEPT !.last = i]
        BY <3>1, <3>2
      <4> QED
        BY <1>1, <3>2, <4>1 DEF Told
    <3>5. longer \in Seq(Told)
      BY <3>2, <3>3, <3>4, MadeOf
    <3>6. t \in Scans
      BY <1>2, <2>1, <3>5 DEF Scans
    <3>7. t.out = longer
      BY <2>1
    <3> QED
      BY <2>3, <3>1, <3>6, <3>7 DEF t, o, m
  <2> QED
    BY <2>2, <2>3
<1> QED
  BY <1>6, <1>7

(* Sections that tell every line up to a line, the last up to just there.  *)
ToldUpTo(out, l) ==
  out # <<>> => /\ out[Len(out)].first <= l /\ out[Len(out)].last = l
                /\ 1..l \subseteq Covered(out)

LEMMA OpenedUpTo ==
  ASSUME NEW out \in Seq(Told), NEW l \in Nat, ToldUpTo(out, l), NEW path \in HeadingPaths
  PROVE  ToldUpTo(Append(out, ToldOf(IF out = <<>> THEN 1 ELSE l + 1, l + 1, path)), l + 1)
<1> DEFINE first == IF out = <<>> THEN 1 ELSE l + 1
           c == ToldOf(first, l + 1, path)
           m == Len(out)
           new == Append(out, c)
<1>1. first \in Nat \ {0} /\ first <= l + 1
  OBVIOUS
<1>2. c \in Told /\ c.first = first /\ c.last = l + 1
  <2> HIDE DEF first
  <2> QED
    BY <1>1, SectionIs
<1>3. m \in Nat /\ DOMAIN out = 1..m
  OBVIOUS
<1> HIDE DEF c
<1>4. /\ new \in Seq(Told) /\ Len(new) = m + 1 /\ DOMAIN new = 1..(m + 1)
      /\ new[m + 1] = c /\ \A k \in 1..m : new[k] = out[k]
  BY <1>2
<1>5. ASSUME NEW x \in 1..(l + 1) PROVE x \in Covered(new)
  <2>1. CASE out = <<>>
    <3>1. x \in c.first..c.last /\ m + 1 \in DOMAIN new
      BY <1>2, <1>3, <1>4, <2>1
    <3> QED
      BY <1>4, <3>1 DEF Covered
  <2>2. CASE out # <<>> /\ x \in 1..l
    <3>1. PICK k \in 1..m : x \in out[k].first..out[k].last
      BY <1>3, <2>2 DEF ToldUpTo, Covered
    <3>2. k \in DOMAIN new /\ new[k] = out[k]
      BY <1>3, <1>4, <3>1
    <3> QED
      BY <3>1, <3>2 DEF Covered
  <2>3. CASE out # <<>> /\ x \notin 1..l
    <3>1. x = l + 1 /\ c.first = l + 1 /\ m + 1 \in DOMAIN new
      BY <1>2, <1>3, <1>4, <2>3
    <3>2. x \in c.first..c.last
      BY <1>2, <3>1
    <3> QED
      BY <1>4, <3>1, <3>2 DEF Covered
  <2> QED
    BY <2>1, <2>2, <2>3
<1> HIDE DEF new
<1>6. ToldUpTo(new, l + 1)
  BY <1>1, <1>2, <1>4, <1>5 DEF ToldUpTo
<1> QED
  BY <1>6 DEF new, c

LEMMA LongerUpTo ==
  ASSUME NEW out \in Seq(Told), NEW l \in Nat, ToldUpTo(out, l), out # <<>>
  PROVE  ToldUpTo([out EXCEPT ![Len(out)].last = l + 1], l + 1)
<1> DEFINE m == Len(out)
           new == [out EXCEPT ![m].last = l + 1]
<1>1. m \in Nat /\ DOMAIN out = 1..m /\ \A k \in 1..m : out[k] \in Told
  OBVIOUS
<1>2. m \in 1..m /\ out[m].first <= l /\ out[m].last = l /\ 1..l \subseteq Covered(out)
  BY <1>1 DEF ToldUpTo
<1>3. out[m] \in Told /\ out[m].first \in Nat
  <2>1. out[m] \in Told
    BY <1>1, <1>2
  <2> QED
    BY <2>1 DEF Told
<1> HIDE DEF m
<1>4. DOMAIN new = 1..m /\ Len(new) = m /\ \A k \in 1..m : k # m => new[k] = out[k]
  BY <1>1
<1>5. new[m] = [out[m] EXCEPT !.last = l + 1]
  BY <1>1, <1>2
<1>6. new[m].first = out[m].first /\ new[m].last = l + 1
  BY <1>3, <1>5 DEF Told
<1> HIDE DEF new
<1>7. ASSUME NEW x \in 1..(l + 1) PROVE x \in Covered(new)
  <2>1. CASE x \in out[m].first..(l + 1)
    <3>1. x \in new[m].first..new[m].last
      BY <1>6, <2>1
    <3> QED
      BY <1>2, <1>4, <3>1 DEF Covered
  <2>2. CASE x \notin out[m].first..(l + 1)
    <3>1. x \in 1..l
      BY <1>2, <1>3, <2>2
    <3>2. PICK k \in 1..m : x \in out[k].first..out[k].last
      BY <1>1, <1>2, <3>1 DEF Covered
    <3>3. k # m
      BY <1>2, <1>3, <2>2, <3>2
    <3> QED
      BY <1>4, <3>2, <3>3 DEF Covered
  <2> QED
    BY <2>1, <2>2
<1>8. new[m].first <= l + 1
  BY <1>2, <1>3, <1>6
<1>9. ToldUpTo(new, l + 1)
  BY <1>4, <1>6, <1>7, <1>8 DEF ToldUpTo
<1> QED
  BY <1>9 DEF new, m

LEMMA ScanUpTo ==
  ASSUME NEW lines \in Seq(LineKinds), NEW i \in 1..Len(lines), NEW s \in Scans, ToldUpTo(s.out, i - 1)
  PROVE  ScanLine(lines, s, i) \in Scans /\ ToldUpTo(ScanLine(lines, s, i).out, i)
<1> DEFINE t == ScanLine(lines, s, i)
           l == i - 1
           opened(path) == Append(s.out, ToldOf(IF s.out = <<>> THEN 1 ELSE i, i, path))
           longer == [s.out EXCEPT ![Len(s.out)].last = i]
<1>1. /\ t \in Scans
      /\ t.out = <<>> \/ (\E path \in HeadingPaths : t.out = opened(path)) \/ (s.out # <<>> /\ t.out = longer)
  BY ScanIs
<1>2. l \in Nat /\ l + 1 = i /\ s.out \in Seq(Told)
  BY DEF Scans
<1> HIDE DEF t, l
<1>3. ToldUpTo(s.out, l)
  BY DEF l
<1>4. ASSUME t.out = <<>> PROVE ToldUpTo(t.out, i)
  BY <1>4 DEF ToldUpTo
<1>5. ASSUME NEW path \in HeadingPaths PROVE ToldUpTo(opened(path), i)
  <2>1. ToldUpTo(Append(s.out, ToldOf(IF s.out = <<>> THEN 1 ELSE l + 1, l + 1, path)), l + 1)
    BY <1>2, <1>3, OpenedUpTo
  <2> QED
    BY <1>2, <2>1
<1>6. ASSUME s.out # <<>> PROVE ToldUpTo(longer, i)
  <2>1. ToldUpTo([s.out EXCEPT ![Len(s.out)].last = l + 1], l + 1)
    BY <1>2, <1>3, <1>6, LongerUpTo
  <2> QED
    BY <1>2, <2>1
<1> HIDE DEF opened, longer
<1>7. t \in Scans /\ ToldUpTo(t.out, i)
  BY <1>1, <1>4, <1>5, <1>6
<1> QED
  BY <1>7 DEF t

(* The frontmatter ends in the file.                                       *)
LEMMA FrontmatterIs ==
  ASSUME NEW lines \in Seq(LineKinds)
  PROVE  FrontmatterEnd(lines) \in 0..Len(lines)
<1> DEFINE n == Len(lines)
           closing == {i \in 2..n : lines[i] = "rule"}
           c == CHOOSE i \in closing : \A j \in closing : i <= j
<1>1. n \in Nat
  OBVIOUS
<1>2. FrontmatterEnd(lines) = IF n = 0 \/ lines[1] # "rule" \/ closing = {} THEN 0 ELSE c
  BY DEF FrontmatterEnd
<1>3. closing # {} => c \in closing
  <2>1. closing \in SUBSET Nat
    OBVIOUS
  <2> HIDE DEF closing
  <2> QED
    BY <2>1, LeastOf
<1>4. \A i \in closing : i \in 0..n
  BY <1>1
<1> HIDE DEF c, closing, n
<1>5. FrontmatterEnd(lines) \in 0..n
  BY <1>1, <1>2, <1>3, <1>4
<1> QED
  BY <1>5 DEF n

(* With a heading there is a section for every line.                       *)
LEMMA SectionsTellAll ==
  ASSUME NEW lines \in Seq(LineKinds)
  PROVE  /\ SplitIntoSections(lines) \in Seq(Told)
         /\ ToldUpTo(SplitIntoSections(lines), Len(lines))
<1> DEFINE top == FrontmatterEnd(lines)
           first == top + 1
           n == Len(lines) + 1 - first
           q == [k \in 1..n |-> first + k - 1]
           e(s, i) == ScanLine(lines, s, i)
           base == [fence |-> FALSE, stack |-> <<>>, out |-> <<>>]
           Is(F) == F = [t \in SUBSET (1..n) |-> IF t = {} THEN base ELSE e(F[t \ {Max(t)}], q[Max(t)])]
           C == CHOOSE F : Is(F)
           g == [x \in Scans \X (1..n) |-> e(x[1], top + x[2])]
<1>1. /\ top \in Nat /\ n \in Nat /\ Len(lines) = top + n
      /\ \A k \in 1..n : k \in Nat /\ top + k \in 1..Len(lines) /\ first + k - 1 = top + k
  <2>1. top \in 0..Len(lines) /\ Len(lines) \in Nat
    BY FrontmatterIs
  <2> HIDE DEF top
  <2> QED
    BY <2>1
<1>2. SplitIntoSections(lines) = C[1..n].out
  <2>1. DOMAIN q = 1..n
    OBVIOUS
  <2> QED
    BY <2>1 DEF SplitIntoSections, FoldLeft, MapThenFoldSet
<1>3. \A k \in 1..n : q[k] = top + k
  BY <1>1
<1>4. base \in Scans /\ base.out = <<>>
  <2>1. <<>> \in Seq(Nat) /\ <<>> \in Seq(Told)
    OBVIOUS
  <2> QED
    BY <2>1 DEF Scans
<1> HIDE DEF base, q, n, top
<1>5. \A s \in Scans, k \in 1..n : e(s, top + k) \in Scans
  BY <1>1, ScanIs
<1> HIDE DEF e
<1>6. g \in [Scans \X (1..n) -> Scans]
  BY <1>5
<1>7. \A s \in Scans, k \in 1..n : g[<<s, k>>] = e(s, top + k)
  OBVIOUS
<1> HIDE DEF g
<1>8. PICK it : IsFold(Scans, base, n, g, it)
  BY <1>1, <1>4, <1>6, FoldExists
<1>9. Is(it)
  <2>1. ASSUME NEW t \in SUBSET (1..n), t # {}
        PROVE  g[<<it[t \ {Max(t)}], Max(t)>>] = e(it[t \ {Max(t)}], q[Max(t)])
    <3>1. Max(t) \in 1..n /\ it[t \ {Max(t)}] \in Scans
      BY <1>1, <1>8, <2>1, MaxIs DEF IsFold
    <3> QED
      BY <1>3, <1>7, <3>1
  <2> QED
    BY <1>8, <2>1 DEF IsFold
<1>10. Is(C)
  BY <1>9
<1> HIDE DEF C
<1>11. C[1..0] = base /\ \A i \in 1..n : C[1..i] = e(C[1..(i - 1)], top + i)
  <2>1. 1..0 = {} /\ {} \in SUBSET (1..n)
    OBVIOUS
  <2>2. ASSUME NEW i \in 1..n PROVE C[1..i] = e(C[1..(i - 1)], top + i)
    <3>1. /\ 1..i \in SUBSET (1..n) /\ 1..i # {} /\ Max(1..i) = i /\ (1..i) \ {i} = 1..(i - 1)
      BY <1>1, LastOfFirst
    <3>2. C[1..i] = e(C[(1..i) \ {Max(1..i)}], q[Max(1..i)])
      BY <1>10, <3>1
    <3> QED
      BY <1>3, <3>1, <3>2
  <2> QED
    BY <1>10, <2>1, <2>2
<1> DEFINE T == {i \in Nat : i <= n => C[1..i] \in Scans /\ ToldUpTo(C[1..i].out, top + i)}
<1>12. 0 \in T
  <2>1. ToldUpTo(base.out, top + 0)
    BY <1>4 DEF ToldUpTo
  <2> QED
    BY <1>4, <1>11, <2>1
<1>13. ASSUME NEW i \in T PROVE i + 1 \in T
  <2> SUFFICES ASSUME i + 1 <= n PROVE C[1..(i + 1)] \in Scans /\ ToldUpTo(C[1..(i + 1)].out, top + (i + 1))
    OBVIOUS
  <2> DEFINE s == C[1..i]
             u == C[1..(i + 1)]
             l == top + i
  <2>1. i + 1 \in 1..n /\ (i + 1) - 1 = i /\ i <= n /\ i \in Nat
    BY <1>1
  <2>2. s \in Scans /\ ToldUpTo(s.out, l)
    BY <2>1
  <2>3. u = e(s, top + (i + 1))
    BY <1>11, <2>1
  <2>4. l \in Nat /\ top + (i + 1) = l + 1 /\ l + 1 \in 1..Len(lines)
    BY <1>1, <2>1
  <2> HIDE DEF s, u
  <2>5. u = ScanLine(lines, s, l + 1) /\ (l + 1) - 1 = l
    BY <2>3, <2>4 DEF e
  <2> HIDE DEF l
  <2>6. u \in Scans /\ ToldUpTo(u.out, l + 1)
    BY <2>2, <2>4, <2>5, ScanUpTo
  <2> QED
    BY <2>4, <2>6 DEF u
<1>14. T \in SUBSET Nat
  OBVIOUS
<1> HIDE DEF T
<1>15. T = Nat
  BY <1>12, <1>13, <1>14, NatInd
<1>16. C[1..n] \in Scans /\ ToldUpTo(C[1..n].out, top + n)
  <2>1. n \in T /\ n <= n
    BY <1>1, <1>15
  <2> QED
    BY <2>1 DEF T
<1> QED
  BY <1>1, <1>2, <1>16 DEF Scans

(* A section that is cut loses none of its lines but an empty one.         *)
LEMMA MaterializeKeeps ==
  ASSUME NEW section \in Told, NEW empty
  PROVE  LET cut == MaterializeSection(section, empty) IN
         /\ cut \in Seq(Told)
         /\ \A l \in (section.first..section.last) \ empty :
              \E k \in 1..Len(cut) : l \in cut[k].first..cut[k].last
<1> DEFINE a == section.first
           b == section.last
           path == section.path
           rs == LineWindows(a, b, empty, SectionWindow)
           n == Len(rs)
           ps == [k \in 1..n |-> ToldOf(rs[k][1], rs[k][2], path)]
           short == b - a + 1 <= SectionWindow.window
           cut == MaterializeSection(section, empty)
<1>1. a \in Nat \ {0} /\ b \in Nat /\ path \in HeadingPaths
  BY DEF Told
<1>2. cut = IF short THEN <<section>> ELSE ps
  BY DEF MaterializeSection, ToldOf
<1>3. CASE short
  <2>1. cut = <<section>>
    BY <1>2, <1>3
  <2>2. <<section>> \in Seq(Told) /\ Len(<<section>>) = 1 /\ <<section>>[1] = section /\ 1 \in 1..1
    OBVIOUS
  <2> QED
    BY <2>1, <2>2
<1>4. CASE ~short
  <2>1. cut = ps
    BY <1>2, <1>4
  <2>2. a <= b
    <3>1. SectionWindow.window \in Nat
      BY WindowsAre DEF CutBy, Windows
    <3> QED
      BY <1>1, <1>4, <3>1
  <2> HIDE DEF a, b, path, cut
  <2>3. /\ n \in Nat
        /\ \A k \in 1..n : rs[k][1] \in Nat \ {0} /\ rs[k][2] \in Nat
        /\ \A l \in (a..b) \ empty : \E k \in 1..n : l \in rs[k][1]..rs[k][2]
    BY <1>1, <2>2, WindowsAre, LinesAreInWindows
  <2>4. DOMAIN ps = 1..n /\ ps = [k \in 1..n |-> ps[k]]
    OBVIOUS
  <2>5. \A k \in 1..n : ps[k] = ToldOf(rs[k][1], rs[k][2], path)
    OBVIOUS
  <2> HIDE DEF ps, rs, n
  <2>6. \A k \in 1..n : ps[k] \in Told /\ ps[k].first = rs[k][1] /\ ps[k].last = rs[k][2]
    BY <1>1, <2>3, <2>5, SectionIs
  <2>7. ps \in Seq(Told) /\ Len(ps) = n
    BY <2>3, <2>4, <2>6, MadeOf
  <2>8. \A l \in (a..b) \ empty : \E k \in 1..n : l \in ps[k].first..ps[k].last
    BY <2>3, <2>6
  <2>9. cut \in Seq(Told) /\ \A l \in (a..b) \ empty : \E k \in 1..Len(cut) : l \in cut[k].first..cut[k].last
    BY <2>1, <2>7, <2>8
  <2> QED
    BY <2>9 DEF cut, a, b
<1> QED
  BY <1>3, <1>4

(* Every line of every markdown file is in a chunk, but for an empty one.  *)
THEOREM EverySectionLineIsChunked ==
  ASSUME NEW lines \in Seq(LineKinds)
  PROVE  \A l \in (1..Len(lines)) \ Covered(MarkdownChunks(lines)) : lines[l] = "empty"
<1> DEFINE n == Len(lines)
           empty == {i \in 1..n : lines[i] = "empty"}
           sections == SplitIntoSections(lines)
           m == Len(sections)
           rs == LineWindows(1, n, empty, SectionWindow)
           whole == [k \in 1..Len(rs) |-> ToldOf(rs[k][1], rs[k][2], <<>>)]
           ss == [k \in 1..m |-> MaterializeSection(sections[k], empty)]
           out == MarkdownChunks(lines)
<1>1. n \in Nat
  OBVIOUS
<1>2. out = IF n = 0 THEN <<>> ELSE IF sections = <<>> THEN whole ELSE FlattenSeq(ss)
  BY DEF MarkdownChunks, ToldOf
<1>3. sections \in Seq(Told) /\ ToldUpTo(sections, n)
  BY SectionsTellAll
<1> SUFFICES ASSUME NEW l \in 1..n, l \notin empty PROVE l \in Covered(out)
  OBVIOUS
<1>4. n # 0 /\ 1 <= n /\ 1 \in Nat \ {0} /\ l \in Nat
  BY <1>1
<1> HIDE DEF n, empty, sections, out
<1>5. CASE sections = <<>>
  <2>1. out = whole
    BY <1>2, <1>4, <1>5
  <2>2. PICK k \in 1..Len(rs) : l \in rs[k][1]..rs[k][2]
    <3>1. \A x \in (1..n) \ empty : \E k \in 1..Len(rs) : x \in rs[k][1]..rs[k][2]
      BY <1>1, <1>4, WindowsAre, LinesAreInWindows
    <3> QED
      BY <3>1
  <2> HIDE DEF rs
  <2>3. k \in DOMAIN whole /\ whole[k].first = rs[k][1] /\ whole[k].last = rs[k][2]
    BY DEF ToldOf
  <2> HIDE DEF whole
  <2>4. k \in DOMAIN whole /\ l \in whole[k].first..whole[k].last
    BY <2>2, <2>3
  <2> QED
    BY <2>1, <2>4 DEF Covered
<1>6. CASE sections # <<>>
  <2>1. out = FlattenSeq(ss)
    BY <1>2, <1>4, <1>6
  <2>2. m \in Nat /\ DOMAIN sections = 1..m /\ \A k \in 1..m : sections[k] \in Told
    BY <1>3
  <2>3. PICK k \in 1..m : l \in sections[k].first..sections[k].last
    BY <1>3, <1>6, <2>2 DEF ToldUpTo, Covered
  <2>4. DOMAIN ss = 1..m /\ ss = [i \in 1..m |-> ss[i]] /\ \A i \in 1..m : ss[i] = MaterializeSection(sections[i], empty)
    OBVIOUS
  <2> HIDE DEF ss, m
  <2>5. \A i \in 1..m : ss[i] \in Seq(Told)
    BY <2>2, <2>4, MaterializeKeeps
  <2>6. ss \in Seq(Seq(Told)) /\ Len(ss) = m
    BY <2>2, <2>4, <2>5, MadeOf
  <2>7. PICK j \in 1..Len(ss[k]) : l \in ss[k][j].first..ss[k][j].last
    BY <2>2, <2>3, <2>4, MaterializeKeeps
  <2> QED
    BY <2>1, <2>6, <2>7, FlatCovers
<1> QED
  BY <1>5, <1>6

-----------------------------------------------------------------------------
(* The calls of MCAlgorithms.                                              *)
(* Every call is of its own kind.                                          *)
LEMMA CallKinds ==
  /\ CallChunkCode => call'.op = "code"
  /\ CallChunkMarkdown => call'.op = "markdown"
  /\ CallExtract => call'.op = "extract"
  /\ CallIgnores => call'.op = "ignores"
  /\ CallFilter => call'.op = "filter"
  /\ CallDiscover => call'.op = "discover"
  /\ CallInventory => call'.op = "inventory"
  /\ CallScope => call'.op = "scope"
  /\ CallSearch => call'.op = "search"
  /\ CallExpand => call'.op = "expand"
  /\ CallPick => call'.op = "pick"
  /\ CallLiteral => call'.op = "literal"
  /\ CallSuffix => call'.op = "suffix"
  /\ CallGaps => call'.op = "gaps"
  /\ CallFanIn => call'.op = "fanIn"
  /\ CallStats => call'.op = "stats"
  /\ CallRecent => call'.op = "recent"
  /\ CallRoot => call'.op = "root"
  /\ CallFile => call'.op = "file"
  /\ CallReport => call'.op = "report"
  /\ CallHealth => call'.op = "health"
  /\ CallWindows => call'.op = "windows"
  /\ CallGroups => call'.op = "groups"
  /\ CallScores => call'.op = "scores"
  /\ CallRefs => call'.op = "refs"
  /\ CallWrite => call'.op = "write"
  /\ CallField => call'.op = "field"
  /\ CallScore => call'.op = "score"
  /\ CallValidate => call'.op = "validate"
  /\ CallCorpus => call'.op = "corpus"
  /\ CallParse => call'.op = "parse"
  /\ CallDuplicates => call'.op = "duplicates"
  /\ CallDoctor => call'.op = "doctor"
  /\ CallInstall => call'.op = "install"
<1>1. CallChunkCode => call'.op = "code"
  BY DEF CallChunkCode
<1>2. CallChunkMarkdown => call'.op = "markdown"
  BY DEF CallChunkMarkdown
<1>3. CallExtract => call'.op = "extract"
  BY DEF CallExtract
<1>4. CallIgnores => call'.op = "ignores"
  BY DEF CallIgnores
<1>5. CallFilter => call'.op = "filter"
  BY DEF CallFilter
<1>6. CallDiscover => call'.op = "discover"
  BY DEF CallDiscover
<1>7. CallInventory => call'.op = "inventory"
  BY DEF CallInventory
<1>8. CallScope => call'.op = "scope"
  BY DEF CallScope
<1>9. CallSearch => call'.op = "search"
  BY DEF CallSearch
<1>10. CallExpand => call'.op = "expand"
  BY DEF CallExpand
<1>11. CallPick => call'.op = "pick"
  BY DEF CallPick
<1>12. CallLiteral => call'.op = "literal"
  <2>1. CallLiteral => \E p, q, d, c :
          call' = [op |-> "literal", pattern |-> p, project |-> q, dir |-> d, chunks |-> c]
    BY ZenonT(60) DEF CallLiteral
  <2> QED
    BY <2>1
<1>13. CallSuffix => call'.op = "suffix"
  <2>1. CallSuffix => \E p, r : call' = [op |-> "suffix", paths |-> p, ref |-> r]
    BY Zenon DEF CallSuffix
  <2> QED
    BY <2>1
<1>14. CallGaps => call'.op = "gaps"
  BY DEF CallGaps
<1>15. CallFanIn => call'.op = "fanIn"
  BY DEF CallFanIn
<1>16. CallStats => call'.op = "stats"
  BY DEF CallStats
<1>17. CallRecent => call'.op = "recent"
  BY DEF CallRecent
<1>18. CallRoot => call'.op = "root"
  <2>1. CallRoot => \E p : call' = [op |-> "root", paths |-> p]
    BY Zenon DEF CallRoot
  <2> QED
    BY <2>1
<1>19. CallFile => call'.op = "file"
  BY DEF CallFile
<1>20. CallReport => call'.op = "report"
  BY DEF CallReport
<1>21. CallHealth => call'.op = "health"
  BY DEF CallHealth
<1>22. CallWindows => call'.op = "windows"
  BY DEF CallWindows
<1>23. CallGroups => call'.op = "groups"
  BY DEF CallGroups
<1>24. CallScores => call'.op = "scores"
  BY DEF CallScores
<1>25. CallRefs => call'.op = "refs"
  BY DEF CallRefs
<1>26. CallWrite => call'.op = "write"
  BY DEF CallWrite
<1>27. CallField => call'.op = "field"
  BY DEF CallField
<1>28. CallScore => call'.op = "score"
  BY DEF CallScore
<1>29. CallValidate => call'.op = "validate"
  BY DEF CallValidate
<1>30. CallCorpus => call'.op = "corpus"
  BY DEF CallCorpus
<1>31. CallParse => call'.op = "parse"
  BY DEF CallParse
<1>32. CallDuplicates => call'.op = "duplicates"
  BY DEF CallDuplicates
<1>33. CallDoctor => call'.op = "doctor"
  BY DEF CallDoctor
<1>34. CallInstall => call'.op = "install"
  <2>1. CallInstall => \E m, n : call' = [op |-> "install", m |-> m, name |-> n]
    BY Zenon DEF CallInstall
  <2> QED
    BY <2>1
<1> QED
  BY <1>1, <1>2, <1>3, <1>4, <1>5, <1>6, <1>7, <1>8, <1>9, <1>10, <1>11, <1>12, <1>13, <1>14, <1>15, <1>16, <1>17,
     <1>18, <1>19, <1>20, <1>21, <1>22, <1>23, <1>24, <1>25, <1>26, <1>27, <1>28, <1>29, <1>30, <1>31, <1>32, <1>33, <1>34

(* A step that makes no call answers nothing.                              *)
LEMMA NoKinds ==
  /\ (\E t \in Topics : call' = About(t)) => call'.op = "about"
  /\ call' = NoCall => call'.op = "none"
BY DEF About, NoCall

(* The calls about rules.                                                  *)
RulesOps == {"ignores", "filter", "discover", "inventory"}

(* The names that occur in the rules and paths of CallIgnores.             *)
Names == {"a", "b", ".claude", "vendor"}

(* What CallIgnores asks about are rules over these names.                 *)
LEMMA IgnoresInputs ==
  ASSUME NEW global \in UpTo1(Patterns({"a", ".claude"}, {FALSE})),
         NEW project \in UpTo1(Patterns({"a", "b", ".claude"}, BOOLEAN)),
         NEW nested \in Nested, NEW path \in Paths
  PROVE  /\ RulesOver(Names, [global |-> global, project |-> project, nested |-> nested])
         /\ path \in Seq(Names)
         /\ \A i \in DOMAIN project : ~project[i].below
<1> DEFINE P == PatternOf(Names)
<1>1. /\ Patterns({"a", ".claude"}, {FALSE}) \subseteq P /\ Patterns({"a", "b", ".claude"}, BOOLEAN) \subseteq P
      /\ Patterns({"a", "b"}, BOOLEAN) \subseteq P
  BY DEF Patterns, PatternOf, Names
<1>2. \A p \in Patterns({"a", "b", ".claude"}, BOOLEAN) : ~p.below
  BY DEF Patterns
<1>3. \A p \in P : <<p>> \in Seq(P)
  OBVIOUS
<1>4. <<>> \in Seq(P)
  OBVIOUS
<1>5. global \in Seq(P) /\ project \in Seq(P)
  <2> HIDE DEF P
  <2> QED
    BY <1>1, <1>3, <1>4 DEF UpTo1
<1>6. \A i \in DOMAIN project : ~project[i].below
  BY <1>2 DEF UpTo1
<1>7. path \in Seq(Names)
  <2>1. CASE path = <<"vendor", "a">>
    BY <2>1 DEF Names
  <2>2. CASE \E n \in 2..3 : path \in [1..n -> {"a", "b", ".claude"}]
    <3>1. PICK n \in 2..3 : path \in [1..n -> {"a", "b", ".claude"}]
      BY <2>2
    <3>2. path \in [1..n -> Names] /\ n \in Nat
      BY <3>1 DEF Names
    <3> QED
      BY <3>2
  <2> QED
    BY <2>1, <2>2 DEF Paths
<1>8. DOMAIN nested \subseteq Seq(Names) /\ \A d \in DOMAIN nested : nested[d] \in Seq(P)
  <2>1. CASE nested = <<>>
    <3>1. DOMAIN nested = {}
      BY <2>1
    <3> QED
      BY <3>1
  <2>2. CASE \E dirs \in SUBSET {<<"a">>, <<"a", "a">>, <<"vendor">>} :
               nested \in [dirs -> {<<p>> : p \in Patterns({"a", "b"}, BOOLEAN)}]
    <3>1. PICK dirs \in SUBSET {<<"a">>, <<"a", "a">>, <<"vendor">>} :
            nested \in [dirs -> {<<p>> : p \in Patterns({"a", "b"}, BOOLEAN)}]
      BY <2>2
    <3>2. {<<"a">>, <<"a", "a">>, <<"vendor">>} \subseteq Seq(Names)
      BY DEF Names
    <3>3. {<<p>> : p \in Patterns({"a", "b"}, BOOLEAN)} \subseteq Seq(P)
      BY <1>1, <1>3
    <3> HIDE DEF P
    <3>4. DOMAIN nested = dirs /\ \A d \in dirs : nested[d] \in {<<p>> : p \in Patterns({"a", "b"}, BOOLEAN)}
      BY <3>1
    <3> QED
      BY <3>1, <3>2, <3>3, <3>4
  <2> QED
    BY <2>1, <2>2 DEF Nested
<1> DEFINE r == [global |-> global, project |-> project, nested |-> nested]
<1>9. r.global = global /\ r.project = project /\ r.nested = nested /\ ".claude" \in Names
  BY DEF Names
<1> HIDE DEF r
<1>10. RulesOver(Names, r)
  BY <1>5, <1>8, <1>9 DEF RulesOver
<1> QED
  BY <1>6, <1>7, <1>10 DEF r

(* The answers to the four calls about rules.                              *)
LEMMA IgnoresDecide ==
  ASSUME CallIgnores
  PROVE  RulesDecide'
<1>1. PICK global \in UpTo1(Patterns({"a", ".claude"}, {FALSE})),
           project \in UpTo1(Patterns({"a", "b", ".claude"}, BOOLEAN)),
           nested \in Nested, path \in Paths :
        call' = [op |-> "ignores", rules |-> [global |-> global, project |-> project, nested |-> nested],
                 path |-> path]
  BY DEF CallIgnores
<1> DEFINE r == [global |-> global, project |-> project, nested |-> nested]
<1>2. RulesOver(Names, r) /\ path \in Seq(Names) /\ \A i \in DOMAIN r.project : ~r.project[i].below
  BY IgnoresInputs
<1> HIDE DEF r
<1>3. PositiveAsGit(r, path)
  BY <1>2, NestedIsGit
<1>4. ProjectHasLastWord(r, path)
  BY <1>2, ProjectDecides
<1>5. call'.op = "ignores" /\ call'.rules = r /\ call'.path = path
  BY <1>1 DEF r
<1> QED
  BY <1>3, <1>4, <1>5 DEF RulesDecide

LEMMA FilterDecides ==
  ASSUME CallFilter
  PROVE  RulesDecide'
<1>1. ASSUME NEW traits \in SUBSET FileTraits, NEW defaults \in SUBSET ListKeys, NEW overrides \in Seq(Override),
             call'.op = "filter", call'.traits = traits, call'.defaults = defaults,
             call'.overrides = overrides, call'.merged = LoadFilteringRules(defaults, overrides)
      PROVE  RulesDecide'
  BY <1>1, SecretsOut, LastWins DEF RulesDecide
<1>2. CASE \E defaults \in SUBSET ListKeys, overrides \in UpTo1(Overrides) \cup [1..2 -> Overrides] :
             call' = [op |-> "filter", traits |-> {}, defaults |-> defaults, overrides |-> overrides,
                      merged |-> LoadFilteringRules(defaults, overrides)]
  <2>1. PICK defaults \in SUBSET ListKeys, overrides \in UpTo1(Overrides) \cup [1..2 -> Overrides] :
               call' = [op |-> "filter", traits |-> {}, defaults |-> defaults, overrides |-> overrides,
                        merged |-> LoadFilteringRules(defaults, overrides)]
    BY <1>2
  <2>2. Overrides \subseteq Override
    BY DEF Overrides, Override
  <2>3. overrides \in Seq(Override)
    <3>0. /\ <<>> \in Seq(Override) /\ \A o \in Override : <<o>> \in Seq(Override)
          /\ \A n \in Nat : [1..n -> Override] \subseteq Seq(Override)
      OBVIOUS
    <3>1. CASE overrides \in UpTo1(Overrides)
      BY <2>2, <3>0, <3>1 DEF UpTo1
    <3>2. CASE overrides \in [1..2 -> Overrides]
      <4>1. overrides \in [1..2 -> Override] /\ 2 \in Nat
        BY <2>2, <3>2
      <4> QED
        BY <3>0, <4>1
    <3> QED
      BY <3>1, <3>2
  <2>4. {} \in SUBSET FileTraits
    OBVIOUS
  <2>5. /\ call'.op = "filter" /\ call'.traits = {} /\ call'.defaults = defaults
        /\ call'.overrides = overrides /\ call'.merged = LoadFilteringRules(defaults, overrides)
    BY <2>1
  <2> QED
    BY <1>1, <2>3, <2>4, <2>5
<1>3. CASE \E traits \in Traits, lists \in SUBSET ListKeys :
             call' = [op |-> "filter", traits |-> traits \ {"plain"}, defaults |-> lists,
                      overrides |-> <<>>, merged |-> lists]
  <2>1. PICK traits \in Traits, lists \in SUBSET ListKeys :
               call' = [op |-> "filter", traits |-> traits \ {"plain"}, defaults |-> lists,
                        overrides |-> <<>>, merged |-> lists]
    BY <1>3
  <2>2. traits \ {"plain"} \in SUBSET FileTraits
    BY DEF Traits, FileTraits
  <2>3. <<>> \in Seq(Override) /\ Len(<<>>) = 0
    OBVIOUS
  <2>4. LoadFilteringRules(lists, <<>>) = lists
    <3>1. PICK F : IsMerge(lists, <<>>, F)
      BY <2>3, MergeExists
    <3>2. LoadFilteringRules(lists, <<>>) = (CHOOSE G : IsMerge(lists, <<>>, G))[0]
      BY <2>3 DEF LoadFilteringRules, IsMerge
    <3>3. \A G : IsMerge(lists, <<>>, G) => G[0] = lists
      BY <2>3 DEF IsMerge
    <3> QED
      BY <3>1, <3>2, <3>3
  <2>5. /\ call'.op = "filter" /\ call'.traits = traits \ {"plain"} /\ call'.defaults = lists
        /\ call'.overrides = <<>> /\ call'.merged = LoadFilteringRules(lists, <<>>)
    BY <2>1, <2>4
  <2> QED
    BY <1>1, <2>2, <2>3, <2>5
<1> QED
  BY <1>2, <1>3 DEF CallFilter

(* The dirs of the instance are a forest.                                  *)
LEMMA TreeIsForest ==
  ASSUME NEW w, w.dirs = DOMAIN Tree, w.parent = Tree
  PROVE  Forest(w)
<1> DEFINE h == [d \in DOMAIN Tree |-> CASE d \in {"ws", "out"} -> 1 [] d \in {"a", "nm"} -> 2
                                       [] d \in {"b", "pkg"} -> 3 [] OTHER -> 4]
<1>1. DOMAIN Tree = {"ws", "a", "b", "c", "nm", "pkg", "out"}
  BY DEF Tree
<1>2. /\ Tree["ws"] = Above /\ Tree["out"] = Above /\ Tree["a"] = "ws" /\ Tree["nm"] = "ws"
      /\ Tree["b"] = "a" /\ Tree["pkg"] = "nm" /\ Tree["c"] = "b"
  BY DEF Tree
<1>3. Cardinality(DOMAIN Tree) \in Nat /\ Cardinality(DOMAIN Tree) >= 4
  <2>1. IsFiniteSet({"ws", "a", "b", "c"}) /\ Cardinality({"ws", "a", "b", "c"}) = 4
    <3>1. IsFiniteSet({}) /\ Cardinality({}) = 0
      BY FS_EmptySet
    <3>2. IsFiniteSet({"ws"}) /\ Cardinality({"ws"}) = 1
      BY FS_Singleton
    <3>3. IsFiniteSet({"ws", "a"}) /\ Cardinality({"ws", "a"}) = 2
      <4>1. {"ws", "a"} = {"ws"} \cup {"a"} /\ "a" \notin {"ws"}
        OBVIOUS
      <4>2. IsFiniteSet({"ws"} \cup {"a"}) /\ Cardinality({"ws"} \cup {"a"}) = 1 + 1
        BY <3>2, <4>1, FS_AddElement
      <4> QED
        BY <4>1, <4>2
    <3>4. IsFiniteSet({"ws", "a", "b"}) /\ Cardinality({"ws", "a", "b"}) = 3
      <4>1. {"ws", "a", "b"} = {"ws", "a"} \cup {"b"} /\ "b" \notin {"ws", "a"}
        OBVIOUS
      <4>2. IsFiniteSet({"ws", "a"} \cup {"b"}) /\ Cardinality({"ws", "a"} \cup {"b"}) = 2 + 1
        BY <3>3, <4>1, FS_AddElement
      <4> QED
        BY <4>1, <4>2
    <3>5. {"ws", "a", "b", "c"} = {"ws", "a", "b"} \cup {"c"} /\ "c" \notin {"ws", "a", "b"}
      OBVIOUS
    <3>6. IsFiniteSet({"ws", "a", "b"} \cup {"c"}) /\ Cardinality({"ws", "a", "b"} \cup {"c"}) = 3 + 1
      BY <3>4, <3>5, FS_AddElement
    <3> QED
      BY <3>5, <3>6
  <2>2. IsFiniteSet(DOMAIN Tree)
    <3>1. DOMAIN Tree = {"ws", "a", "b", "c"} \cup {"nm"} \cup {"pkg"} \cup {"out"}
      BY <1>1
    <3>2. IsFiniteSet({"ws", "a", "b", "c"} \cup {"nm"})
      BY <2>1, FS_AddElement
    <3>3. IsFiniteSet({"ws", "a", "b", "c"} \cup {"nm"} \cup {"pkg"})
      BY <3>2, FS_AddElement
    <3> QED
      BY <3>1, <3>3, FS_AddElement
  <2>3. {"ws", "a", "b", "c"} \subseteq DOMAIN Tree
    BY <1>1
  <2>4. Cardinality({"ws", "a", "b", "c"}) <= Cardinality(DOMAIN Tree)
    BY <2>2, <2>3, FS_Subset
  <2>5. Cardinality(DOMAIN Tree) \in Nat
    BY <2>2, FS_CardinalityType
  <2> QED
    BY <2>1, <2>4, <2>5
<1> DEFINE n == Cardinality(DOMAIN Tree)
<1> HIDE DEF n
<1>4. n \in Nat /\ n >= 4
  BY <1>3 DEF n
<1>5. h \in [DOMAIN Tree -> 1..n]
  <2>1. \A d \in DOMAIN Tree : h[d] \in 1..4
    OBVIOUS
  <2>2. 1..4 \subseteq 1..n
    BY <1>4
  <2> QED
    BY <2>1, <2>2
<1>6. /\ h["ws"] = 1 /\ h["out"] = 1 /\ h["a"] = 2 /\ h["nm"] = 2 /\ h["b"] = 3 /\ h["pkg"] = 3
      /\ h["c"] = 4
  BY <1>1
<1>7. \A d \in DOMAIN Tree : Tree[d] \in DOMAIN Tree => h[Tree[d]] < h[d]
  <2> HIDE DEF h
  <2> QED
    BY <1>1, <1>2, <1>6, TreeAssumption
<1>8. Tree \in [DOMAIN Tree -> DOMAIN Tree \cup {Above}]
  <2>1. \A d \in DOMAIN Tree : Tree[d] \in DOMAIN Tree \cup {Above}
    BY <1>1, <1>2
  <2>2. Tree = [d \in DOMAIN Tree |-> Tree[d]]
    BY DEF Tree
  <2> QED
    BY <2>1, <2>2
<1>9. Height(w, h)
  BY <1>5, <1>7 DEF Height, n
<1> HIDE DEF h
<1> QED
  BY <1>3, <1>8, <1>9, TreeAssumption DEF Forest

LEMMA DiscoverDecides ==
  ASSUME CallDiscover
  PROVE  RulesDecide'
<1>1. PICK marks \in [DOMAIN Tree -> Groupings], roots \in {{"ws"}, {"ws", "b"}, {"a", "nm"}} :
        call' = [op |-> "discover",
                 w |-> [dirs |-> DOMAIN Tree, parent |-> Tree, roots |-> roots, marks |-> marks,
                        skipped |-> {"nm"}]]
  BY DEF CallDiscover
<1> DEFINE w == [dirs |-> DOMAIN Tree, parent |-> Tree, roots |-> roots, marks |-> marks,
                 skipped |-> {"nm"}]
<1>2. w.dirs = DOMAIN Tree /\ w.parent = Tree /\ w.roots = roots /\ w.skipped = {"nm"}
  OBVIOUS
<1>3. call'.op = "discover" /\ call'.w = w
  BY <1>1
<1> HIDE DEF w
<1>4. DOMAIN Tree = {"ws", "a", "b", "c", "nm", "pkg", "out"}
  BY DEF Tree
<1>5. Forest(w)
  BY <1>2, TreeIsForest
<1>6. w.roots \subseteq w.dirs /\ w.skipped \subseteq w.dirs
  BY <1>2, <1>4
<1>7. WorkspaceOver(w)
  BY <1>5, <1>6 DEF WorkspaceOver
<1>8. ProjectsDisjoint(w) /\ AcceptedStaysInside(w) /\ ResolvesToListed(w)
  BY <1>7, DisjointProjects, InsideAccepted, ListedOrAbsorbed, DepthAssumption
<1> QED
  BY <1>3, <1>8 DEF RulesDecide

LEMMA InventoryDecides ==
  ASSUME CallInventory
  PROVE  RulesDecide'
<1>1. PICK hits \in SUBSET {"ws", "a", "b"}, dirs \in SUBSET {"ws", "a", "b", "out"},
           known \in SUBSET {"a", "b", "out"} :
        \E rows \in [known -> BOOLEAN] :
          call' = [op |-> "inventory", hits |-> hits, rows |-> rows, dirs |-> dirs]
  BY DEF CallInventory
<1>2. PICK rows \in [known -> BOOLEAN] :
        call' = [op |-> "inventory", hits |-> hits, rows |-> rows, dirs |-> dirs]
  BY <1>1
<1>3. InventoryIsPartition(hits, rows, dirs)
  BY Partition
<1>4. call'.op = "inventory" /\ call'.hits = hits /\ call'.rows = rows /\ call'.dirs = dirs
  BY <1>2
<1> QED
  BY <1>3, <1>4 DEF RulesDecide

(* RulesDecide holds of every call: by the theorems above, of which the    *)
(* calls are instances.                                                    *)
THEOREM RulesDecided == Spec => []RulesDecide
<1>1. Init => RulesDecide
  BY DEF Init, NoCall, RulesDecide
<1>2. RulesDecide /\ [Next]_call => RulesDecide'
  <2> SUFFICES ASSUME RulesDecide, [Next]_call PROVE RulesDecide'
    OBVIOUS
  <2>1. CASE call'.op \notin RulesOps
    BY <2>1 DEF RulesDecide, RulesOps
  <2>2. CASE UNCHANGED call
    BY <2>2 DEF RulesDecide
  <2>3. CASE CallIgnores
    BY <2>3, IgnoresDecide
  <2>4. CASE CallFilter
    BY <2>4, FilterDecides
  <2>5. CASE CallDiscover
    BY <2>5, DiscoverDecides
  <2>6. CASE CallInventory
    BY <2>6, InventoryDecides
  <2> QED
    BY <2>1, <2>2, <2>3, <2>4, <2>5, <2>6, CallKinds, NoKinds DEF Next, RulesOps
<1> QED
  BY <1>1, <1>2, PTL DEF Spec

-----------------------------------------------------------------------------
(* The calls about a search.                                               *)
SearchOps == {"scope", "search", "expand", "pick"}

LEMMA ScopeIsFair ==
  ASSUME CallScope
  PROVE  SearchIsFair'
<1>1. PICK marks \in [DOMAIN Tree -> {{}, {"ide", "git"}}], active \in SUBSET {"ws", "a", "b"},
           d \in DOMAIN Tree, file \in {Above, "f"}, like \in Likes :
        call' = [op |-> "scope", active |-> active, dir |-> d, file |-> file,
                 w |-> [dirs |-> DOMAIN Tree, parent |-> Tree, roots |-> {"ws"}, marks |-> marks,
                        skipped |-> {}, like |-> like]]
  BY DEF CallScope
<1> DEFINE w == [dirs |-> DOMAIN Tree, parent |-> Tree, roots |-> {"ws"}, marks |-> marks,
                 skipped |-> {}, like |-> like]
<1>2. w.dirs = DOMAIN Tree /\ w.parent = Tree
  OBVIOUS
<1>3. call'.op = "scope" /\ call'.w = w /\ call'.active = active /\ call'.dir = d
  BY <1>1
<1> HIDE DEF w
<1>4. Forest(w)
  BY <1>2, TreeIsForest
<1>5. active \in SUBSET w.dirs /\ d \in w.dirs
  BY <1>2 DEF Tree
<1> DEFINE rows == {row \in [project : active, dir : DOMAIN Tree] : PathUp(w, row.project, row.dir) # <<>>}
<1>6. ScopeIsIndexed(w, active, d, rows)
  <2>1. \A row \in rows : PathUp(w, row.project, row.dir) # <<>>
    OBVIOUS
  <2> HIDE DEF rows
  <2> QED
    BY <1>4, <1>5, <2>1, DeepestIsSearched
<1> QED
  BY <1>3, <1>6 DEF SearchIsFair

(* The branches of the instance.                                           *)
LEMMA BranchesAre ==
  ASSUME NEW b \in Branches
  PROVE  b \in Seq(Chunks) /\ IsInjective(b) /\ Len(b) <= MaxRank
<1>1. PICK n \in 0..3 : b \in [1..n -> Chunks]
  BY DEF Branches
<1>2. n \in Nat /\ n <= MaxRank
  BY BranchesAssumption, RankAssumption
<1>3. b \in Seq(Chunks) /\ Len(b) = n
  <2> HIDE DEF Chunks
  <2> QED
    BY <1>1, <1>2
<1> QED
  BY <1>2, <1>3 DEF Branches

(* The imports of a chunk are counted in numbers.                          *)
LEMMA MetasInbound ==
  ASSUME NEW m \in Metas
  PROVE  m.inbound \in Nat
BY DEF Metas, Meta

(* A short sequence of chunks is a sequence of chunks.                     *)
LEMMA ShortSequences ==
  /\ <<>> \in Seq(Chunks) /\ Len(<<>>) = 0
  /\ \A x \in Chunks : <<x>> \in Seq(Chunks) /\ Len(<<x>>) = 1
  /\ \A x, y \in Chunks : <<x, y>> \in Seq(Chunks) /\ Len(<<x, y>>) = 2
  /\ \A x, y, z \in Chunks : <<x, y, z>> \in Seq(Chunks) /\ Len(<<x, y, z>>) = 3
OBVIOUS

LEMMA SearchIsFairOnce ==
  ASSUME CallSearch
  PROVE  SearchIsFair'
<1>1. PICK vector \in Branches, lexical \in {<<>>, <<"p", "q", "r">>, <<"s", "p">>}, limit \in 1..3 :
        \E p, q \in Metas, s \in {Meta({}, {}, {}, {}, 0, FALSE), Meta({}, {}, {}, {}, 1, FALSE)} :
          LET metas == [p |-> p, q |-> q, r |-> Meta({}, {}, {}, {}, 0, FALSE), s |-> s]
          IN  call' = [op |-> "search", vector |-> vector, lexical |-> lexical, metas |-> metas, limit |-> limit,
                       out |-> Search(vector, lexical, metas, {"t", "risk"}, limit)]
  BY DEF CallSearch
<1>2. PICK p \in Metas, q \in Metas, s \in {Meta({}, {}, {}, {}, 0, FALSE), Meta({}, {}, {}, {}, 1, FALSE)} :
        call' = [op |-> "search", vector |-> vector, lexical |-> lexical,
                 metas |-> [p |-> p, q |-> q, r |-> Meta({}, {}, {}, {}, 0, FALSE), s |-> s], limit |-> limit,
                 out |-> Search(vector, lexical,
                                [p |-> p, q |-> q, r |-> Meta({}, {}, {}, {}, 0, FALSE), s |-> s],
                                {"t", "risk"}, limit)]
  BY <1>1
<1> DEFINE metas == [p |-> p, q |-> q, r |-> Meta({}, {}, {}, {}, 0, FALSE), s |-> s]
           terms == {"t", "risk"}
           out == Search(vector, lexical, metas, terms, limit)
<1>3. /\ call'.op = "search" /\ call'.vector = vector /\ call'.lexical = lexical
      /\ call'.metas = metas /\ call'.limit = limit /\ call'.out = out
  BY <1>2
<1>4. \A id \in Chunks : metas[id].inbound \in Nat
  <2>1. metas["p"] = p /\ metas["q"] = q /\ metas["r"] = Meta({}, {}, {}, {}, 0, FALSE) /\ metas["s"] = s
    OBVIOUS
  <2>2. p.inbound \in Nat /\ q.inbound \in Nat
    BY MetasInbound
  <2>3. Meta({}, {}, {}, {}, 0, FALSE).inbound \in Nat
    BY DEF Meta
  <2>4. s.inbound \in Nat
    BY DEF Meta
  <2> HIDE DEF metas
  <2>5. metas["p"].inbound \in Nat
    BY <2>1, <2>2
  <2>6. metas["q"].inbound \in Nat
    BY <2>1, <2>2
  <2>7. metas["r"].inbound \in Nat
    BY <2>1, <2>3, Zenon
  <2>8. metas["s"].inbound \in Nat
    BY <2>1, <2>4
  <2> QED
    BY <2>5, <2>6, <2>7, <2>8 DEF Chunks
<1>5. IsFiniteSet(terms)
  <2>1. IsFiniteSet({"t"} \cup {"risk"})
    BY FS_Singleton, FS_AddElement
  <2>2. terms = {"t"} \cup {"risk"}
    OBVIOUS
  <2> QED
    BY <2>1, <2>2
<1> HIDE DEF metas, terms
<1>6. vector \in Seq(Chunks) /\ IsInjective(vector) /\ Len(vector) <= MaxRank
  BY BranchesAre
<1>7. lexical \in Seq(Chunks) /\ IsInjective(lexical) /\ Len(lexical) <= MaxRank
  <2>1. \A c \in {lexical} : c = <<>> \/ c = <<"p", "q", "r">> \/ c = <<"s", "p">>
    OBVIOUS
  <2>2. "p" \in Chunks /\ "q" \in Chunks /\ "r" \in Chunks /\ "s" \in Chunks
    BY DEF Chunks
  <2>3. lexical \in Seq(Chunks) /\ Len(lexical) \in 0..3
    <3> HIDE DEF Chunks
    <3>1. CASE lexical = <<>>
      BY <3>1, ShortSequences
    <3>2. CASE lexical = <<"p", "q", "r">>
      BY <3>2, <2>2, ShortSequences
    <3>3. CASE lexical = <<"s", "p">>
      BY <3>3, <2>2, ShortSequences
    <3> QED
      BY <2>1, <3>1, <3>2, <3>3
  <2>4. IsInjective(lexical)
    BY DEF IsInjective
  <2>5. 0..3 \subseteq 0..MaxRank
    BY BranchesAssumption, RankAssumption
  <2>6. \A n \in 0..MaxRank : n <= MaxRank
    BY RankAssumption
  <2>7. Len(lexical) \in 0..MaxRank
    BY <2>3, <2>5
  <2>8. Len(lexical) <= MaxRank
    BY <2>6, <2>7
  <2> QED
    BY <2>3, <2>4, <2>8
<1>8. FusionIsMonotone(vector, lexical)
  BY <1>6, <1>7, FusionIsFair
<1>9. CutKeepsTheBest(vector, lexical, metas, terms, limit, out)
  <2>1. limit \in Nat
    OBVIOUS
  <2> QED
    BY <1>4, <1>5, <1>6, <1>7, <2>1, BestAreKept
<1> HIDE DEF out
<1> QED
  BY <1>3, <1>8, <1>9 DEF SearchIsFair, terms

LEMMA ExpandIsFair ==
  ASSUME CallExpand
  PROVE  SearchIsFair'
<1>1. PICK results \in Branches, users \in [{"p", "q"} -> {<<>>, <<"r">>, <<"q", "s">>, <<"s", "p", "s">>}],
           cap \in 1..4 :
        call' = [op |-> "expand", results |-> results,
                 usersOf |-> [c \in Chunks |-> IF c \in DOMAIN users THEN users[c] ELSE <<"p">>], cap |-> cap,
                 out |-> ExpandCoverage(results,
                                        [c \in Chunks |-> IF c \in DOMAIN users THEN users[c] ELSE <<"p">>], cap)]
  BY DEF CallExpand
<1> DEFINE usersOf == [c \in Chunks |-> IF c \in DOMAIN users THEN users[c] ELSE <<"p">>]
           out == ExpandCoverage(results, usersOf, cap)
<1>2. /\ call'.op = "expand" /\ call'.results = results /\ call'.usersOf = usersOf
      /\ call'.cap = cap /\ call'.out = out
  BY <1>1
<1>3. \A id \in Chunks : usersOf[id] \in Seq(Chunks)
  <2>0. "p" \in Chunks /\ "q" \in Chunks /\ "r" \in Chunks /\ "s" \in Chunks
    BY DEF Chunks
  <2>1. \A u \in {<<>>, <<"r">>, <<"q", "s">>, <<"s", "p", "s">>} : u \in Seq(Chunks)
    <3>1. <<>> \in Seq(Chunks) /\ <<"r">> \in Seq(Chunks)
      BY <2>0, ShortSequences
    <3>2. <<"q", "s">> \in Seq(Chunks)
      BY <2>0, ShortSequences
    <3>3. <<"s", "p", "s">> \in Seq(Chunks)
      BY <2>0, ShortSequences
    <3> QED
      BY <3>1, <3>2, <3>3
  <2>2. <<"p">> \in Seq(Chunks)
    BY <2>0, ShortSequences
  <2> QED
    BY <2>1, <2>2
<1> HIDE DEF usersOf
<1>4. results \in Seq(Chunks) /\ IsInjective(results)
  BY BranchesAre
<1>5. ExpansionIsBounded(results, usersOf, cap, out)
  <2>1. cap \in Nat
    OBVIOUS
  <2> QED
    BY <1>3, <1>4, <2>1, ExpansionStaysBounded
<1> HIDE DEF out
<1> QED
  BY <1>2, <1>5 DEF SearchIsFair

LEMMA PickIsFair ==
  ASSUME CallPick
  PROVE  SearchIsFair'
<1> DEFINE Fns == {[from |-> s[1], to |-> s[2]] : s \in {x \in Spans : x[2] <= 5}}
<1>1. PICK fns \in UNION {[1..n -> Fns] : n \in 0..2}, chunk \in {<<2, 4>>, <<1, 3>>} :
        call' = [op |-> "pick", fns |-> fns, from |-> chunk[1], to |-> chunk[2],
                 out |-> PickOverlapping(fns, chunk[1], chunk[2])]
  BY DEF CallPick
<1>2. chunk[1] \in Int /\ chunk[2] \in Int
  OBVIOUS
<1>3. fns \in Seq([from : Int, to : Int])
  <2>1. \A s \in Spans : s[1] \in Int /\ s[2] \in Int
    BY DEF Spans, Total
  <2>2. Fns \subseteq [from : Int, to : Int]
    BY <2>1
  <2> DEFINE Rows == [from : Int, to : Int]
  <2> HIDE DEF Fns, Rows
  <2>3. PICK n \in 0..2 : fns \in [1..n -> Fns]
    OBVIOUS
  <2>4. Fns \subseteq Rows
    BY <2>2 DEF Rows
  <2>5. n \in Nat /\ fns \in [1..n -> Rows]
    BY <2>3, <2>4
  <2>6. fns \in Seq(Rows)
    BY <2>5
  <2> QED
    BY <2>6 DEF Rows
<1>4. PicksTheLargest(fns, chunk[1], chunk[2], PickOverlapping(fns, chunk[1], chunk[2]))
  BY <1>2, <1>3, LargestIsPicked
<1>5. /\ call'.op = "pick" /\ call'.fns = fns /\ call'.from = chunk[1] /\ call'.to = chunk[2]
      /\ call'.out = PickOverlapping(fns, chunk[1], chunk[2])
  BY <1>1
<1> QED
  BY <1>4, <1>5 DEF SearchIsFair

(* SearchIsFair holds of every call.                                       *)
THEOREM SearchesAreFair == Spec => []SearchIsFair
<1>1. Init => SearchIsFair
  BY DEF Init, NoCall, SearchIsFair
<1>2. SearchIsFair /\ [Next]_call => SearchIsFair'
  <2> SUFFICES ASSUME SearchIsFair, [Next]_call PROVE SearchIsFair'
    OBVIOUS
  <2>1. CASE call'.op \notin SearchOps
    BY <2>1 DEF SearchIsFair, SearchOps
  <2>2. CASE UNCHANGED call
    BY <2>2 DEF SearchIsFair
  <2>3. CASE CallScope
    BY <2>3, ScopeIsFair
  <2>4. CASE CallSearch
    BY <2>4, SearchIsFairOnce
  <2>5. CASE CallExpand
    BY <2>5, ExpandIsFair
  <2>6. CASE CallPick
    BY <2>6, PickIsFair
  <2> QED
    BY <2>1, <2>2, <2>3, <2>4, <2>5, <2>6, CallKinds, NoKinds DEF Next, SearchOps
<1> QED
  BY <1>1, <1>2, PTL DEF Spec

(* A write, and the tables, field by field.                                *)
ConfigOps == {"write", "field"}

LEMMA WriteIsLoaded ==
  ASSUME CallWrite
  PROVE  SettingsAreLoaded'
<1>1. PICK file, patch : call' = [op |-> "write", file |-> file, patch |-> patch]
  <2>1. \E file, patch : call' = [op |-> "write", file |-> file, patch |-> patch]
    BY Zenon DEF CallWrite
  <2> QED
    BY <2>1
<1>2. WrittenIsUsed(file, patch) /\ PatchIsPartialByName(file, patch)
  BY WritesAreLoaded, OthersAreLeftAlone
<1>3. call'.op = "write" /\ call'.file = file /\ call'.patch = patch
  BY <1>1
<1> QED
  BY <1>2, <1>3 DEF SettingsAreLoaded

LEMMA FieldIsLoaded ==
  ASSUME CallField
  PROVE  SettingsAreLoaded'
<1>1. PICK f \in Schema : call' = [op |-> "field", f |-> f]
  BY DEF CallField
<1>2. TablesAgree(f)
  BY FieldsAgree
<1>3. call'.op = "field" /\ call'.f = f
  BY <1>1
<1> QED
  BY <1>2, <1>3 DEF SettingsAreLoaded

(* SettingsAreLoaded holds of every call.                                  *)
THEOREM SettingsTakeEffect == Spec => []SettingsAreLoaded
<1>1. Init => SettingsAreLoaded
  BY DEF Init, NoCall, SettingsAreLoaded
<1>2. SettingsAreLoaded /\ [Next]_call => SettingsAreLoaded'
  <2> SUFFICES ASSUME SettingsAreLoaded, [Next]_call PROVE SettingsAreLoaded'
    OBVIOUS
  <2>1. CASE call'.op \notin ConfigOps
    BY <2>1 DEF SettingsAreLoaded, ConfigOps
  <2>2. CASE UNCHANGED call
    BY <2>2 DEF SettingsAreLoaded
  <2>3. CASE CallWrite
    BY <2>3, WriteIsLoaded
  <2>4. CASE CallField
    BY <2>4, FieldIsLoaded
  <2> QED
    BY <2>1, <2>2, <2>3, <2>4, CallKinds, NoKinds DEF Next, ConfigOps
<1> QED
  BY <1>1, <1>2, PTL DEF Spec

(* The calls of the evaluation harness.                                    *)
EvaluationOps == {"score", "validate", "corpus"}

LEMMA UpToAre ==
  ASSUME NEW n \in Nat, NEW Items, NEW s \in UpTo(n, Items)
  PROVE  s \in Seq(Items)
<1>1. PICK k \in 0..n : s \in [1..k -> Items]
  BY DEF UpTo
<1> QED
  BY <1>1

LEMMA ScoreIsFair ==
  ASSUME CallScore
  PROVE  EvaluationIsFair'
<1>1. PICK ranked \in UpTo(3, Docs), qrels \in UpTo(2, Qrels) :
        call' = [op |-> "score", ranked |-> ranked, qrels |-> qrels, k |-> 2]
  BY DEF CallScore
<1>2. ranked \in Seq(Docs) /\ qrels \in Seq(Qrels)
  BY UpToAre
<1>3. \A q \in Qrels : q.grade \in 0..2
  BY DEF Qrels
<1>4. Graded(qrels)
  <2>1. \A i \in DOMAIN qrels : qrels[i] \in Qrels
    BY <1>2
  <2>2. qrels \in Seq(Range(qrels))
    BY <1>2 DEF Range
  <2> QED
    BY <2>1, <2>2, <1>3 DEF Graded
<1>5. 2 \in Nat /\ 2 + 1 <= Len(Gain)
  BY GainsAssumption, WeightsAre
<1>6. MeasuresAgree(ranked, qrels, 2)
  BY <1>2, <1>4, <1>5, MeasuresAlwaysAgree
<1>7. call'.op = "score" /\ call'.ranked = ranked /\ call'.qrels = qrels /\ call'.k = 2
  BY <1>1
<1> QED
  BY <1>6, <1>7 DEF EvaluationIsFair

LEMMA ValidateIsFair ==
  ASSUME CallValidate
  PROVE  EvaluationIsFair'
<1>1. PICK q \in Qrels, spans \in SUBSET {d \in Docs : d.path = "p"} :
        q.grade # 0 /\ call' = [op |-> "validate", q |-> q, spans |-> spans]
  BY DEF CallValidate
<1>2. q.path = "p" /\ q.from \in Nat /\ q.to \in Nat /\ q.from <= q.to /\ q.grade \in 1..2
  BY <1>1 DEF Qrels, Lines
<1>3. \A s \in spans : s.path = q.path
  BY <1>2
<1>4. RotIsUnscorable(q, spans)
  BY <1>2, <1>3, RotNeverScores
<1>5. call'.op = "validate" /\ call'.q = q /\ call'.spans = spans
  BY <1>1
<1> QED
  BY <1>4, <1>5 DEF EvaluationIsFair

LEMMA CorpusIsFair ==
  ASSUME CallCorpus
  PROVE  EvaluationIsFair'
<1>1. PICK failed \in 1..7, closes \in BOOLEAN :
        call' = [op |-> "corpus", failed |-> failed, closes |-> closes]
  BY DEF CallCorpus
<1>2. LeavesNothing(failed, closes)
  <2>1. failed = 1 \/ failed = 2 \/ failed = 3 \/ failed = 4 \/ failed = 5 \/ failed = 6 \/ failed = 7
    OBVIOUS
  <2>2. Taken(1) = {}
    BY DEF Taken
  <2>3. Taken(2) = {"tmp"}
    <3>1. 1..(2 - 1) = {1}
      OBVIOUS
    <3> QED
      BY <3>1 DEF Taken, Steps
  <2>4. Taken(3) = {"tmp", "worktree"}
    <3>1. 1..(3 - 1) = {1, 2}
      OBVIOUS
    <3> QED
      BY <3>1 DEF Taken, Steps
  <2>5. Taken(4) = {"tmp", "worktree", "data", "env"}
    <3>1. 1..(4 - 1) = {1, 2, 3}
      OBVIOUS
    <3> QED
      BY <3>1 DEF Taken, Steps
  <2>6. /\ Len(Steps) = 6
        /\ Steps[1].name = "tmp" /\ Steps[2].name = "worktree" /\ Steps[3].name = "data"
        /\ Steps[4].name = "build" /\ Steps[5].name = "index" /\ Steps[6].name = "fn"
    BY DEF Steps
  <2>7. /\ Leftover("tmp") = {} /\ Leftover("worktree") = {"tmp"} /\ Leftover("data") = {}
        /\ Leftover("build") = {"data", "env"} /\ Leftover("index") = {} /\ Leftover("fn") = {}
    BY DEF Leftover
  <2>8. CASE failed \in {1, 2, 3, 4}
    BY <2>2, <2>3, <2>4, <2>5, <2>6, <2>7, <2>8 DEF LeavesNothing, WithCorpusRuntime
  <2>9. CASE failed \in {5, 6, 7}
    BY <2>6, <2>7, <2>9 DEF LeavesNothing, WithCorpusRuntime
  <2> QED
    BY <2>1, <2>8, <2>9
<1>3. call'.op = "corpus" /\ call'.failed = failed /\ call'.closes = closes
  BY <1>1
<1> QED
  BY <1>2, <1>3 DEF EvaluationIsFair

(* EvaluationIsFair holds of every call.                                   *)
THEOREM EvaluationsAreFair == Spec => []EvaluationIsFair
<1>1. Init => EvaluationIsFair
  BY DEF Init, NoCall, EvaluationIsFair
<1>2. EvaluationIsFair /\ [Next]_call => EvaluationIsFair'
  <2> SUFFICES ASSUME EvaluationIsFair, [Next]_call PROVE EvaluationIsFair'
    OBVIOUS
  <2>1. CASE call'.op \notin EvaluationOps
    BY <2>1 DEF EvaluationIsFair, EvaluationOps
  <2>2. CASE UNCHANGED call
    BY <2>2 DEF EvaluationIsFair
  <2>3. CASE CallScore
    BY <2>3, ScoreIsFair
  <2>4. CASE CallValidate
    BY <2>4, ValidateIsFair
  <2>5. CASE CallCorpus
    BY <2>5, CorpusIsFair
  <2> QED
    BY <2>1, <2>2, <2>3, <2>4, <2>5, CallKinds, NoKinds DEF Next, EvaluationOps
<1> QED
  BY <1>1, <1>2, PTL DEF Spec
===============================================================================
