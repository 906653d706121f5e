------------------------------ MODULE Eligibility ------------------------------
(***************************************************************************)
(* Which files of a project are indexed: the ignore rules that git and     *)
(* loctx files layer over each other (packages/core/src/gitignore.ts) and  *)
(* the lists of names that a user's overrides add to and take from         *)
(* (filtering.ts), asked in a fixed order.                                 *)
(*                                                                         *)
(* A path is the sequence of its components.  A pattern has the name it    *)
(* ignores, or with negate re-includes; with below it stands for the       *)
(* contents of the directory of that name (`name/**`).                     *)
(***************************************************************************)
EXTENDS Naturals, Sequences, FiniteSets, SequencesExt

(* Directories whose rule files are not looked for.                        *)
AlwaysSkip == {"vendor"}

-----------------------------------------------------------------------------
(* The `ignore` package: the last pattern that matches a path decides, and *)
(* a path below an ignored one is ignored.                                 *)
Matches(pattern, path) ==
  IF pattern.below THEN \E i \in 1..(Len(path) - 1) : path[i] = pattern.name
  ELSE path[Len(path)] = pattern.name

Decides(layer, path) ==
  LET matching == {i \in DOMAIN layer : Matches(layer[i], path)} IN
  IF matching = {} THEN "none"
  ELSE IF layer[CHOOSE i \in matching : \A j \in matching : j <= i].negate THEN "include" ELSE "ignore"

LayerIgnores(layer, path) == \E k \in 1..Len(path) : Decides(layer, SubSeq(path, 1, k)) = "ignore"

-----------------------------------------------------------------------------
Reinclude(name) ==
  <<[name |-> name, negate |-> TRUE, below |-> FALSE], [name |-> name, negate |-> TRUE, below |-> TRUE]>>

AutoInclude == Reinclude(".claude")

(* Global excludes and .git/info/exclude, the built-in re-includes, the    *)
(* rule files at the root.                                                 *)
RootLayer(r) == r.global \o AutoInclude \o r.project

(* The directories below the root whose rule files are found.              *)
NestedRuleDirs(r) ==
  {d \in DOMAIN r.nested :
     \A k \in 1..Len(d) : d[k] \notin AlwaysSkip /\ ~LayerIgnores(RootLayer(r), SubSeq(d, 1, k))}

Rest(path, k) == SubSeq(path, k + 1, Len(path))

Ignores(r, path) ==
  \/ LayerIgnores(RootLayer(r), path)
  \/ \E k \in 1..(Len(path) - 1) :
       /\ SubSeq(path, 1, k) \in NestedRuleDirs(r)
       /\ LayerIgnores(r.nested[SubSeq(path, 1, k)], Rest(path, k))

-----------------------------------------------------------------------------
(* The lists.  What is said of one file is whether a list holds its name,  *)
(* or a spelling of its extension: "ext" with the dot, "bare" without.     *)
ListKeys == {"secret", "allowlist", "named", "noise", "ext", "bare"}

(* An override file adds to the lists and then removes from them.          *)
MergeYaml(lists, source) == (lists \cup source.add) \ source.remove

LoadFilteringRules(defaults, overrides) ==
  LET merged[i \in 0..Len(overrides)] ==
        IF i = 0 THEN defaults ELSE MergeYaml(merged[i - 1], overrides[i])
  IN  merged[Len(overrides)]

(* Extensions are spelled alike only once the lists are merged.            *)
Finalize(lists) == IF "bare" \in lists THEN (lists \ {"bare"}) \cup {"ext"} ELSE lists

ExtensionAllowed(lists) == lists \cap {"named", "allowlist", "ext"} # {}

(* The first reason that applies, from what the file is and its lists.     *)
ShouldIndex(traits, lists) ==
  IF "outside" \in traits THEN "outside-project"
  ELSE IF "root" \in traits \/ "subpath" \in traits \/ "in ignored dir" \in traits THEN "ignored-directory"
  ELSE IF "gitignored" \in traits THEN "ignored-by-gitignore"
  ELSE IF "ignored name" \in traits THEN "ignored-directory"
  ELSE IF "secret" \in lists /\ "allowlist" \notin lists THEN "secret"
  ELSE IF "noise" \in lists /\ "named" \notin lists THEN "noise"
  ELSE IF ~ExtensionAllowed(lists) THEN "unsupported-extension"
  ELSE IF "symlink" \in traits /\ "follow" \notin traits THEN "symlink"
  ELSE IF "missing" \in traits THEN "missing"
  ELSE IF "no file" \in traits THEN "not-a-file"
  ELSE IF "unreadable" \in traits THEN "unreadable"
  ELSE IF "large" \in traits THEN "oversized"
  ELSE IF "binary" \in traits THEN "binary"
  ELSE "ok"

-----------------------------------------------------------------------------
(* What git decides: the rules of all directories above a path, the        *)
(* innermost last, and the last match wins.                                *)
GitDecides(r, path) ==
  LET verdicts == [k \in 1..Len(path) |->
        IF k = 1 THEN Decides(RootLayer(r), path)
        ELSE IF SubSeq(path, 1, k - 1) \in DOMAIN r.nested
             THEN Decides(r.nested[SubSeq(path, 1, k - 1)], Rest(path, k - 1)) ELSE "none"]
      said == {k \in 1..Len(path) : verdicts[k] # "none"}
  IN  IF said = {} THEN "none" ELSE verdicts[CHOOSE k \in said : \A j \in said : j <= k]

GitIgnores(r, path) == \E k \in 1..Len(path) : GitDecides(r, SubSeq(path, 1, k)) = "ignore"

Negates(r) == \E d \in DOMAIN r.nested : \E i \in DOMAIN r.nested[d] : r.nested[d][i].negate

(* "Patterns in a nested file scope to that subdirectory's subtree,        *)
(* exactly as git itself applies them".                                    *)
NestedAsGit(r, path) == Ignores(r, path) = GitIgnores(r, path)

(* As git decides, if no nested file re-includes what a file above it      *)
(* ignores and no rule file is in a directory that is skipped.             *)
PositiveAsGit(r, path) ==
  ~Negates(r) /\ (\A d \in DOMAIN r.nested : \A k \in 1..Len(d) : d[k] \notin AlwaysSkip) =>
    NestedAsGit(r, path)

(* A developer's global rules do not hide .claude, but the project's own   *)
(* last word on a name stands.                                             *)
ProjectHasLastWord(r, path) ==
  LET n == Len(r.project) IN
  /\ r.project = <<>> /\ r.nested = <<>> /\ (\A i \in DOMAIN r.global : r.global[i].name = ".claude") =>
       ~Ignores(r, path)
  /\ n > 0 /\ ~r.project[n].negate /\ r.project[n].name \in Range(path) => Ignores(r, path)

(* A name that the merged lists call a secret is not indexed, whatever     *)
(* else lists it, and what is indexed is what all the lists agree on.      *)
SecretsStayOut(traits, lists) ==
  ShouldIndex(traits, lists) = "ok" =>
    /\ "secret" \in lists => "allowlist" \in lists
    /\ "noise" \in lists => "named" \in lists
    /\ lists \cap {"named", "allowlist", "ext"} # {}
    /\ traits \subseteq {"symlink", "follow"}

(* The last file that speaks of an entry wins, a removal over an addition  *)
(* in the same file: so a user can always take a default back.             *)
LastFileWins(defaults, overrides, merged) ==
  \A key \in ListKeys :
    LET speak == {i \in DOMAIN overrides : key \in overrides[i].add \cup overrides[i].remove}
        last == CHOOSE i \in speak : \A j \in speak : j <= i
    IN  key \in merged <=> IF speak = {} THEN key \in defaults ELSE key \notin overrides[last].remove
=============================================================================
