----------------------------- MODULE AgentSetup -----------------------------
(***************************************************************************)
(* Wiring coding agents to loctx (packages/core/src/agent-setup, the       *)
(* setup-agent command and /api/agent-setup): files of the user that loctx *)
(* writes into.  A file of JSON is [loctx, others]: its own entry and      *)
(* whether other servers and settings are there; a shared text is a        *)
(* sequence of "S" and "E", the markers, the bodies of the templates and   *)
(* "u", the user's lines; a file of loctx's own is [marked, body].  A file *)
(* has changed under a command that waits for its answer when the user     *)
(* edits it, and one that cannot be read may still be written.             *)
(***************************************************************************)
EXTENDS Naturals, Sequences, FiniteSets, SequencesExt, TLC, FiniteSetTheorems, SequenceTheorems,
        WellFoundedInduction, TLAPS

CONSTANTS
  Project,      \* the roots of the projects
  Agent,        \* those of AGENTS a behaviour is about
  MaxEdits,     \* bound: how often a file is edited or cannot be read
  MaxText,      \* bound: the lines and blocks of a shared text
  None

VARIABLES
  file,         \* path -> content, None when absent
  version,      \* the templates of the installed loctx: 1, then 2
  command,      \* setup-agent at its question: what it would write, or None
  unread,       \* paths that cannot be read for now
  stale,        \* paths that changed since the command's plan, or that it did not see
  edits

vars == <<file, version, command, unread, stale, edits>>

-----------------------------------------------------------------------------
(* AGENTS: what each has in a project.  Windsurf's servers are the user's. *)
T(purpose, kind, path) == [purpose |-> purpose, path |-> <<path[1], path[2], kind>>]

Targets(agent, p) ==
  CASE agent = "claude" ->
         {T("mcp", "json", <<p, ".mcp.json">>), T("rules", "block", <<p, "CLAUDE.md">>),
          T("rules", "own", <<p, "SKILL.md">>)}
    [] agent = "cursor" -> {T("mcp", "json", <<p, ".cursor/mcp.json">>), T("rules", "own", <<p, "loctx.mdc">>)}
    [] agent = "agents-md" -> {T("rules", "block", <<p, "AGENTS.md">>)}
    [] agent = "windsurf" ->
         {T("mcp", "json", <<"home", "mcp_config.json">>), T("rules", "own", <<p, ".windsurf/loctx.md">>)}
    [] agent = "vscode" ->
         {T("mcp", "json", <<p, ".vscode/mcp.json">>), T("rules", "block", <<p, "copilot-instructions.md">>)}

TargetsOf(p) == UNION {Targets(a, p) : a \in Agent}
Paths == {t.path : t \in UNION {TargetsOf(p) : p \in Project}}
KindOf(path) == path[3]

Body(v) == IF v = 1 THEN "one" ELSE "two"

-----------------------------------------------------------------------------
(* JSON that does not parse, whose root is no object, and whose section of *)
(* servers is none.                                                        *)
Malformed == [loctx |-> "does not parse", others |-> TRUE]
NoObject == [loctx |-> "no object", others |-> TRUE]
NoSection == [loctx |-> "no section", others |-> TRUE]

(* The transformers: [content, action, present].                           *)
Plan(content, action, present) == [content |-> content, action |-> action, present |-> present]
Skip(present) == Plan(None, "skip", present)

mergeServerJson(current, spec) ==
  IF current = Malformed THEN Skip(FALSE)
  ELSE IF current = None THEN Plan([loctx |-> spec, others |-> FALSE], "create", FALSE)
  ELSE IF current = NoObject THEN Plan([loctx |-> spec, others |-> FALSE], "update", FALSE)
  ELSE IF current.loctx = spec THEN Skip(TRUE)
  ELSE Plan([current EXCEPT !.loctx = spec], "update", current.loctx \in {"stdio", "http"})

IndexOf(x, s) == IF x \in ToSet(s) THEN SelectInSeq(s, LAMBDA y : y = x) ELSE 0

(* Slip: whatever the file has, the block is appended.                     *)
AppendBlock(current, body) ==
  LET block == <<"S", body, "E">> IN
  IF current = None THEN Plan(block, "create", FALSE)
  ELSE Plan(current \o block, "update", "S" \in ToSet(current))

upsertMarkerBlock(current, body) ==
  LET block == <<"S", body, "E">>
      start == IndexOf("S", current)
      end == IndexOf("E", current)
      updated == SubSeq(current, 1, start - 1) \o block \o SubSeq(current, end + 1, Len(current))
  IN  IF current = None THEN Plan(block, "create", FALSE)
      ELSE IF start = 0 \/ end <= start THEN Plan(current \o block, "update", FALSE)
      ELSE IF updated = current THEN Skip(TRUE)
      ELSE Plan(updated, "update", TRUE)

standaloneFile(current, body) ==
  IF current = None THEN Plan([marked |-> TRUE, body |-> body], "create", FALSE)
  ELSE IF current = [marked |-> TRUE, body |-> body] THEN Skip(TRUE)
  ELSE IF current.marked THEN Plan([marked |-> TRUE, body |-> body], "update", TRUE)
  ELSE Skip(FALSE)

Render(t, content, transport) ==
  CASE KindOf(t.path) = "json" -> mergeServerJson(content, transport)
    [] KindOf(t.path) = "block" -> upsertMarkerBlock(content, Body(version))
    [] KindOf(t.path) = "own" -> standaloneFile(content, Body(version))

(* A file that cannot be read is taken for absent.                         *)
readMaybe(path) == IF path \in unread THEN None ELSE file[path]

planAgentSetup(p, transport) ==
  [a \in Agent |-> [t \in Targets(a, p) |-> Render(t, readMaybe(t.path), transport)]]

AgentWired(plan, a) == \E t \in DOMAIN plan[a] : plan[a][t].present
isWired(plan) == \E a \in Agent : AgentWired(plan, a)
Registered(plan, a) == \A t \in DOMAIN plan[a] : plan[a][t].action = "skip"

(* What the plan would write of these targets, and the files once written, *)
(* but for those that cannot be.                                           *)
Writes(plan, targets) ==
  LET planned(a) == {t \in targets \cap DOMAIN plan[a] : plan[a][t].action # "skip"}
      written == UNION {{[path |-> t.path, content |-> plan[a][t].content] : t \in planned(a)} : a \in Agent}
  IN  [path \in {w.path : w \in written} |-> (CHOOSE w \in written : w.path = path).content]

applyAgentSetup(writes, failed) ==
  [path \in Paths |-> IF path \in DOMAIN writes \ failed THEN writes[path] ELSE file[path]]

Selected(p, plan, selected) == Writes(plan, UNION {Targets(a, p) : a \in selected})

Refreshed(p, plan) ==
  {t \in UNION {Targets(a, p) : a \in {b \in Agent : AgentWired(plan, b)}} : t.purpose # "mcp"}

refreshAgentSetup(p, plan, failed) == applyAgentSetup(Writes(plan, Refreshed(p, plan)), failed)

-----------------------------------------------------------------------------
(* At first the user has files of his own, or none.                        *)
Contents(kind) ==
  CASE kind = "json" -> {None, Malformed, NoObject, NoSection, [loctx |-> None, others |-> TRUE]}
    [] kind = "block" -> {None, <<"u">>}
    [] kind = "own" -> {None}

PathsOf(kind) == {path \in Paths : KindOf(path) = kind}

Init ==
  /\ \E json \in [PathsOf("json") -> Contents("json")], block \in [PathsOf("block") -> Contents("block")],
        own \in [PathsOf("own") -> Contents("own")] :
       file = [path \in Paths |-> CASE KindOf(path) = "json" -> json[path]
                                    [] KindOf(path) = "block" -> block[path]
                                    [] KindOf(path) = "own" -> own[path]]
  /\ version = 1
  /\ command = None
  /\ unread = {} /\ stale = {}
  /\ edits = 0

(* Of the writes of one call at most one fails.                            *)
Failing == {{}} \cup {{path} : path \in Paths}

(* What changes while a command asks is not what it has planned for.       *)
Changes ==
  stale' = IF command = None THEN {} ELSE stale \cup {path \in Paths : file'[path] # file[path]}

(* POST /api/agent-setup, setup-agent --yes and the nudge after an         *)
(* activation, which plans again once it is answered: the reads and the    *)
(* writes of one turn.                                                     *)
RunsAtOnce(p, transport, selected) ==
  /\ \E failed \in Failing :
       file' = applyAgentSetup(Selected(p, planAgentSetup(p, transport), selected), failed)
  /\ Changes
  /\ UNCHANGED <<version, command, unread, edits>>

(* setup-agent: shows its plan and asks; with nothing to do or a dry run it*)
(* ends.                                                                   *)
Asks(p, transport, selected) ==
  LET plan == planAgentSetup(p, transport) IN
  /\ command = None
  /\ \E a \in selected : ~Registered(plan, a)
  /\ command' = Selected(p, plan, selected)
  /\ stale' = unread
  /\ UNCHANGED <<file, version, unread, edits>>

Answered ==
  /\ command # None
  /\ \E failed \in Failing : file' = applyAgentSetup(command, failed)
  /\ command' = None
  /\ stale' = {}
  /\ UNCHANGED <<version, unread, edits>>

Refused ==
  /\ command # None
  /\ command' = None
  /\ stale' = {}
  /\ UNCHANGED <<file, version, unread, edits>>

(* setup-agent --refresh and its route: every project, one after another,  *)
(* none of which reads what another's refresh writes.  The transport is of *)
(* no matter, since no server's entry is written.                          *)
Refreshes ==
  LET plan(p) == planAgentSetup(p, "stdio")
      wired == {p \in Project : isWired(plan(p))}
      inProject(p) == {t.path : t \in TargetsOf(p)}
  IN  /\ \E failed \in Failing :
           file' = [path \in Paths |->
                      IF \E p \in wired : path \in inProject(p)
                      THEN LET p == CHOOSE q \in wired : path \in inProject(q)
                           IN  refreshAgentSetup(p, plan(p), failed)[path]
                      ELSE file[path]]
      /\ Changes
      /\ UNCHANGED <<version, command, unread, edits>>

Upgrades == version = 1 /\ version' = 2 /\ UNCHANGED <<file, command, unread, stale, edits>>

-----------------------------------------------------------------------------
(* The user: adds lines, deletes a marker, adds a server, breaks or mends a*)
(* file, deletes it, or writes one of his own.                             *)
Edited(path) ==
  LET now == file[path] IN
  CASE KindOf(path) = "json" -> Contents("json")
                                  \cup (IF now \in {None, Malformed} THEN {} ELSE {[now EXCEPT !.others = TRUE]})
    [] KindOf(path) = "block" -> IF now = None THEN {<<"u">>}
                                 ELSE {now \o <<"u">>, <<"u">> \o now}
                                        \cup {RemoveAt(now, i) : i \in {j \in DOMAIN now : now[j] \in {"S", "E"}}}
    [] KindOf(path) = "own" -> {None, [marked |-> FALSE, body |-> "u"]}
                                 \cup (IF now = None THEN {} ELSE {[now EXCEPT !.body = "u"]})

Edits(path) ==
  /\ edits < MaxEdits
  /\ \E content \in Edited(path) : content # file[path] /\ file' = [file EXCEPT ![path] = content]
  /\ edits' = edits + 1
  /\ Changes
  /\ UNCHANGED <<version, command, unread>>

(* The rights of a file, or the process out of descriptors, until later.   *)
CannotBeRead ==
  /\ \/ unread = {} /\ edits < MaxEdits /\ edits' = edits + 1 /\ \E path \in Paths : unread' = {path}
     \/ unread # {} /\ unread' = {} /\ edits' = edits
  /\ UNCHANGED <<file, version, command, stale>>

Next ==
  /\ \/ \E p \in Project, selected \in SUBSET Agent \ {{}}, transport \in {"stdio", "http"} :
          RunsAtOnce(p, transport, selected) \/ Asks(p, transport, selected)
     \/ Answered
     \/ Refused
     \/ Refreshes
     \/ Upgrades
     \/ CannotBeRead
     \/ \E path \in Paths : Edits(path)
  /\ \A path \in PathsOf("block") : (IF file'[path] = None THEN 0 ELSE Len(file'[path])) <= MaxText

Spec == Init /\ [][Next]_vars

-----------------------------------------------------------------------------
(* A text with no marker, or with one block and nothing else of loctx.     *)
Tidy(text) ==
  \/ text = None
  \/ {"S", "E"} \cap ToSet(text) = {}
  \/ /\ Cardinality({i \in DOMAIN text : text[i] = "S"}) = 1
     /\ Cardinality({i \in DOMAIN text : text[i] = "E"}) = 1
     /\ IndexOf("E", text) = IndexOf("S", text) + 2

Lines(text) == IF text = None THEN 0 ELSE Cardinality({i \in DOMAIN text : text[i] = "u"})

(* What a merge keeps: the servers and the lines that are not loctx's, a   *)
(* file that does not parse, and one that has the name of loctx's but is   *)
(* not.  A text never has two blocks.  What it does not keep is a JSON     *)
(* whose root is no object, written anew, and a section that is none.      *)
Keeps(path, old, new) ==
  CASE KindOf(path) = "json" -> old # Malformed /\ (old \notin {None, NoObject} /\ old.others => new.others)
    [] KindOf(path) = "block" -> Tidy(old) => Tidy(new) /\ Lines(new) = Lines(old)
    [] KindOf(path) = "own" -> old = None \/ old.marked

(* Files whose content the step does not know: they changed while          *)
(* setup-agent asked, or could not be read when it planned.                *)
Unseen(path) == IF command # None /\ command' = None THEN path \in stale ELSE path \in unread

(* Whatever commands, routes, upgrades and the user do in whatever order,  *)
(* loctx keeps what is the user's in every file whose content it has seen. *)
(* The markers are as loctx left them.                                     *)
KeepsContent ==
  edits' = edits =>
    \A path \in Paths :
      file'[path] # file[path] /\ ~Unseen(path) => Keeps(path, file[path], file'[path])

(* The claim of writers.ts:6-8, "All three are non-destructive: JSON       *)
(* merges preserve unrelated keys", without exceptions: it does not hold.  *)
(* A root or a section that is no object gives way to one, and a file that *)
(* cannot be read or changed at the prompt is written over.                *)
NonDestructive ==
  [][edits' = edits =>
       \A path \in Paths :
         file'[path] # file[path] =>
           /\ file[path] \notin {NoObject, NoSection}
           /\ Keeps(path, file[path], file'[path])]_vars

(* Of every step.                                                          *)
UserContentKept == [][KeepsContent]_vars

HasRules(files, t) ==
  LET content == files[t.path] IN
  CASE KindOf(t.path) = "block" -> content # None /\ \E i \in 1..(Len(content) - 2) :
                             SubSeq(content, i, i + 2) = <<"S", Body(version), "E">>
    [] KindOf(t.path) = "own" -> content # None /\ (content.marked => content.body = Body(version))
    [] OTHER -> TRUE

(* Whatever was done before, a refresh that can read and write all leaves  *)
(* every agent that was wired with the rules of this version, those files  *)
(* it did not have before among them, and everybody's server entry as it   *)
(* is (setup.ts:153-161).                                                  *)
Restamps ==
  unread = {} => \A p \in Project :
    LET plan == planAgentSetup(p, "stdio")
        after == refreshAgentSetup(p, plan, {})
    IN  /\ \A a \in Agent : AgentWired(plan, a) => \A t \in Targets(a, p) : HasRules(after, t)
        /\ \A path \in PathsOf("json") : after[path] = file[path]

(* `Never wires a new project (MCP entry + unwired projects untouched)'    *)
(* (api/agent-setup.ts:76-78): a refresh changes no file of a project that *)
(* has nothing of loctx.                                                   *)
HasLoctx(path) ==
  CASE KindOf(path) = "json" -> file[path] # None /\ file[path].loctx \in {"stdio", "http"}
    [] KindOf(path) = "block" -> file[path] # None /\ "S" \in ToSet(file[path])
    [] KindOf(path) = "own" -> file[path] # None /\ file[path].marked

NeverWires ==
  \A p \in Project :
    (\A t \in TargetsOf(p) : t.path[1] = p => ~HasLoctx(t.path))
      => refreshAgentSetup(p, planAgentSetup(p, "stdio"), {}) = file
-----------------------------------------------------------------------------
(* The proofs, for any projects and any of the agents.                     *)
KnownAgents == {"claude", "cursor", "agents-md", "windsurf", "vscode"}

Piece == {"S", "E", "u", "one", "two"}
Bodies == {"one", "two"}

(* A marker is followed by what loctx has written after it: the user may   *)
(* delete one, and write at either end of the text.                        *)
Blocked(text) ==
  \A i \in 1..Len(text) : text[i] = "S" => i < Len(text) /\ text[i + 1] \in Bodies

Text == {text \in Seq(Piece) : Blocked(text)}
Json == [loctx : {None, "stdio", "http", Malformed.loctx, NoObject.loctx, NoSection.loctx}, others : BOOLEAN]
Own == [marked : BOOLEAN, body : Bodies \cup {"u"}]

OfKind(kind, content) ==
  \/ content = None
  \/ kind = "json" /\ content \in Json
  \/ kind = "block" /\ content \in Text
  \/ kind = "own" /\ content \in Own

FilesInv ==
  /\ DOMAIN file = Paths
  /\ \A path \in Paths : OfKind(KindOf(path), file[path])
  /\ version \in {1, 2}
  /\ edits \in Nat

(* What a command would write still keeps what is there, but of files that *)
(* it did not see or that changed since.                                   *)
CommandInv ==
  command # None =>
    \A path \in DOMAIN command :
      /\ path \in Paths /\ OfKind(KindOf(path), command[path])
      /\ path \notin stale => Keeps(path, file[path], command[path])

-----------------------------------------------------------------------------
(* Sequences: where a piece first is, and what a block does in the place of*)
(* the pieces from m + 1 to n.                                             *)
LEMMA FirstOf ==
  ASSUME NEW n \in Nat, NEW Places \in SUBSET (1..n), Places # {}
  PROVE  Min(Places) \in Places /\ \A y \in Places : Min(Places) <= y
<1>1. Places \in SUBSET Nat
  OBVIOUS
<1>2. PICK x \in Places : \A y \in Places : ~(<<y, x>> \in OpToRel(<, Nat))
  BY <1>1, NatLessThanWellFounded, WFMin
<1>3. \A y \in Places : x <= y
  <2>1. \A y \in Places : y \in Nat /\ x \in Nat
    BY <1>1
  <2>2. \A y \in Places : ~(y < x)
    BY <1>1, <1>2 DEF OpToRel
  <2> QED
    BY <2>1, <2>2
<1> QED
  BY <1>3 DEF Min

LEMMA IndexIs ==
  ASSUME NEW s \in Seq(Piece), NEW x
  PROVE  /\ IndexOf(x, s) \in 0..Len(s)
         /\ IndexOf(x, s) = 0 => \A i \in 1..Len(s) : s[i] # x
         /\ IndexOf(x, s) # 0 => s[IndexOf(x, s)] = x /\ \A i \in 1..(IndexOf(x, s) - 1) : s[i] # x
<1> DEFINE Places == {i \in 1..Len(s) : s[i] = x}
<1>1. Len(s) \in Nat /\ DOMAIN s = 1..Len(s)
  BY LenProperties
<1>2. CASE x \in ToSet(s)
  <2>1. Places # {}
    BY <1>1, <1>2 DEF ToSet
  <2>2. IndexOf(x, s) = Min(Places)
    BY <1>2, <2>1 DEF IndexOf, SelectInSeq
  <2>3. Min(Places) \in Places /\ \A y \in Places : Min(Places) <= y
    BY <1>1, <2>1, FirstOf
  <2>4. \A i \in 1..(Min(Places) - 1) : i \in 1..Len(s) /\ ~(Min(Places) <= i)
    BY <1>1, <2>3
  <2>5. \A i \in 1..(Min(Places) - 1) : s[i] # x
    BY <2>3, <2>4
  <2> QED
    BY <1>1, <2>2, <2>3, <2>5
<1>3. CASE x \notin ToSet(s)
  <2>1. IndexOf(x, s) = 0
    BY <1>3 DEF IndexOf
  <2> QED
    BY <1>1, <1>3, <2>1 DEF ToSet
<1> QED
  BY <1>2, <1>3

LEMMA BlockIs ==
  ASSUME NEW body \in Bodies
  PROVE  /\ <<"S", body, "E">> \in Seq(Piece) /\ Len(<<"S", body, "E">>) = 3
         /\ <<"S", body, "E">>[1] = "S" /\ <<"S", body, "E">>[2] = body /\ <<"S", body, "E">>[3] = "E"
BY DEF Bodies, Piece

Spliced(current, m, n, body) ==
  SubSeq(current, 1, m) \o <<"S", body, "E">> \o SubSeq(current, n + 1, Len(current))

LEMMA SplicedIs ==
  ASSUME NEW current \in Seq(Piece), NEW m \in 0..Len(current), NEW n \in m..Len(current),
         NEW body \in Bodies
  PROVE  /\ Spliced(current, m, n, body) \in Seq(Piece)
         /\ Len(Spliced(current, m, n, body)) = Len(current) + m + 3 - n
         /\ \A i \in 1..(Len(current) + m + 3 - n) :
              Spliced(current, m, n, body)[i] =
                IF i <= m THEN current[i]
                ELSE IF i = m + 1 THEN "S"
                ELSE IF i = m + 2 THEN body
                ELSE IF i = m + 3 THEN "E"
                ELSE current[i + n - m - 3]
<1> DEFINE a == SubSeq(current, 1, m)
           b == <<"S", body, "E">>
           c == SubSeq(current, n + 1, Len(current))
           ab == a \o b
<1>1. Len(current) \in Nat /\ m \in Nat /\ n \in Nat /\ n <= Len(current) /\ m <= n
      /\ \A i \in 1..Len(current) : current[i] \in Piece
  BY LenProperties, ElementOfSeq
<1>2. a \in Seq(Piece) /\ Len(a) = m /\ \A i \in 1..m : a[i] = current[i]
  <2>1. 1 \in Int /\ m \in Int /\ \A i \in 1..m : current[i] \in Piece
    BY <1>1
  <2>2. /\ SubSeq(current, 1, m) \in Seq(Piece)
        /\ Len(SubSeq(current, 1, m)) = IF 1 <= m THEN m - 1 + 1 ELSE 0
        /\ \A i \in 1..(m - 1 + 1) : SubSeq(current, 1, m)[i] = current[1 + i - 1]
    BY <2>1, SubSeqProperties, SMT
  <2>3. Len(a) = m
    BY <1>1, <2>2
  <2>4. \A i \in 1..m : i \in 1..(m - 1 + 1) /\ 1 + i - 1 = i
    BY <1>1
  <2> QED
    BY <2>2, <2>3, <2>4
<1>3. c \in Seq(Piece) /\ Len(c) = Len(current) - n /\ \A i \in 1..(Len(current) - n) : c[i] = current[n + i]
  <2>1. n + 1 \in Int /\ Len(current) \in Int /\ \A i \in (n + 1)..Len(current) : current[i] \in Piece
    BY <1>1
  <2>2. /\ SubSeq(current, n + 1, Len(current)) \in Seq(Piece)
        /\ Len(SubSeq(current, n + 1, Len(current))) = IF n + 1 <= Len(current) THEN Len(current) - (n + 1) + 1 ELSE 0
        /\ \A i \in 1..(Len(current) - (n + 1) + 1) :
             SubSeq(current, n + 1, Len(current))[i] = current[n + 1 + i - 1]
    BY <2>1, SubSeqProperties, SMT
  <2>3. Len(c) = Len(current) - n
    BY <1>1, <2>2
  <2>4. \A i \in 1..(Len(current) - n) : i \in 1..(Len(current) - (n + 1) + 1) /\ n + 1 + i - 1 = n + i
    BY <1>1
  <2> QED
    BY <2>2, <2>3, <2>4
<1>4. b \in Seq(Piece) /\ Len(b) = 3 /\ b[1] = "S" /\ b[2] = body /\ b[3] = "E"
  BY BlockIs
<1> HIDE DEF a, b, c
<1>5. /\ ab \in Seq(Piece) /\ Len(ab) = m + 3
      /\ \A i \in 1..(m + 3) : ab[i] = IF i <= m THEN a[i] ELSE b[i - m]
  <2>1. /\ a \o b \in Seq(Piece) /\ Len(a \o b) = Len(a) + Len(b)
        /\ \A i \in 1..(Len(a) + Len(b)) : (a \o b)[i] = IF i <= Len(a) THEN a[i] ELSE b[i - Len(a)]
    BY <1>2, <1>4, ConcatProperties
  <2> QED
    BY <1>2, <1>4, <2>1
<1> HIDE DEF ab
<1>6. /\ ab \o c \in Seq(Piece) /\ Len(ab \o c) = (m + 3) + (Len(current) - n)
      /\ \A i \in 1..((m + 3) + (Len(current) - n)) :
           (ab \o c)[i] = IF i <= m + 3 THEN ab[i] ELSE c[i - (m + 3)]
  <2>1. /\ ab \o c \in Seq(Piece) /\ Len(ab \o c) = Len(ab) + Len(c)
        /\ \A i \in 1..(Len(ab) + Len(c)) : (ab \o c)[i] = IF i <= Len(ab) THEN ab[i] ELSE c[i - Len(ab)]
    BY <1>3, <1>5, ConcatProperties
  <2> QED
    BY <1>3, <1>5, <2>1
<1>7. Spliced(current, m, n, body) = ab \o c
  BY DEF Spliced, a, b, c, ab
<1>8. \A i \in 1..(Len(current) + m + 3 - n) :
        (ab \o c)[i] = IF i <= m THEN current[i]
                       ELSE IF i = m + 1 THEN "S"
                       ELSE IF i = m + 2 THEN body
                       ELSE IF i = m + 3 THEN "E"
                       ELSE current[i + n - m - 3]
  <2> SUFFICES ASSUME NEW i \in 1..(Len(current) + m + 3 - n)
               PROVE  (ab \o c)[i] = IF i <= m THEN current[i]
                                     ELSE IF i = m + 1 THEN "S"
                                     ELSE IF i = m + 2 THEN body
                                     ELSE IF i = m + 3 THEN "E"
                                     ELSE current[i + n - m - 3]
    OBVIOUS
  <2>1. i \in 1..((m + 3) + (Len(current) - n))
    BY <1>1
  <2>2. (ab \o c)[i] = IF i <= m + 3 THEN ab[i] ELSE c[i - (m + 3)]
    BY <1>6, <2>1
  <2>3. CASE i <= m
    <3>1. i \in 1..m /\ i \in 1..(m + 3)
      BY <1>1, <2>1, <2>3
    <3> QED
      BY <1>1, <1>2, <1>5, <2>2, <2>3, <3>1
  <2>4. CASE i > m /\ i <= m + 3
    <3>1. i \in 1..(m + 3) /\ ~(i <= m)
      BY <1>1, <2>1, <2>4
    <3>2. (ab \o c)[i] = b[i - m]
      BY <1>5, <2>2, <2>4, <3>1
    <3>3. i = m + 1 \/ i = m + 2 \/ i = m + 3
      BY <1>1, <2>4, <3>1
    <3> QED
      BY <1>1, <1>4, <3>1, <3>2, <3>3
  <2>5. CASE i > m + 3
    <3>1. i - (m + 3) \in 1..(Len(current) - n) /\ n + (i - (m + 3)) = i + n - m - 3
      BY <1>1, <2>1, <2>5
    <3>2. c[i - (m + 3)] = current[i + n - m - 3]
      BY <1>3, <3>1
    <3> QED
      BY <1>1, <2>1, <2>2, <2>5, <3>2
  <2>6. i <= m \/ (i > m /\ i <= m + 3) \/ i > m + 3
    BY <1>1, <2>1
  <2> QED
    BY <2>3, <2>4, <2>5, <2>6, Zenon
<1>9. (m + 3) + (Len(current) - n) = Len(current) + m + 3 - n
  BY <1>1
<1> QED
  BY <1>6, <1>7, <1>8, <1>9

-----------------------------------------------------------------------------
(* Texts.                                                                  *)
LEMMA TextFacts ==
  ASSUME NEW text \in Text
  PROVE  /\ text \in Seq(Piece) /\ Len(text) \in Nat /\ DOMAIN text = 1..Len(text)
         /\ \A i \in 1..Len(text) : text[i] \in Piece
         /\ \A i \in 1..Len(text) : text[i] = "S" => i < Len(text) /\ text[i + 1] \in Bodies
BY LenProperties, ElementOfSeq DEF Text, Blocked

(* A block in the place of others is a text again, if no marker is left    *)
(* before it whose block it would cut.                                     *)
LEMMA SplicedIsText ==
  ASSUME NEW current \in Text, NEW m \in 0..Len(current), NEW n \in m..Len(current),
         NEW body \in Bodies, m # 0 => current[m] # "S"
  PROVE  Spliced(current, m, n, body) \in Text
<1> DEFINE s == Spliced(current, m, n, body)
           L == Len(current)
<1>1. /\ L \in Nat /\ m \in Nat /\ n \in Nat /\ m <= n /\ n <= L
      /\ \A i \in 1..L : current[i] = "S" => i < L /\ current[i + 1] \in Bodies
  BY TextFacts
<1>2. /\ s \in Seq(Piece) /\ Len(s) = L + m + 3 - n
      /\ \A i \in 1..(L + m + 3 - n) :
           s[i] = IF i <= m THEN current[i]
                  ELSE IF i = m + 1 THEN "S"
                  ELSE IF i = m + 2 THEN body
                  ELSE IF i = m + 3 THEN "E"
                  ELSE current[i + n - m - 3]
  BY TextFacts, SplicedIs
<1> HIDE DEF s, L
<1>3. ASSUME NEW i \in 1..(L + m + 3 - n), s[i] = "S"
      PROVE  i < L + m + 3 - n /\ s[i + 1] \in Bodies
  <2>1. i \in Nat /\ i <= L + m + 3 - n
    BY <1>1
  <2>2. CASE i <= m
    <3>1. i \in 1..L /\ current[i] = "S"
      BY <1>1, <1>2, <1>3, <2>1, <2>2
    <3>2. i # m
      BY <1>1, <2>1, <3>1 DEF L
    <3>3. i + 1 \in 1..(L + m + 3 - n) /\ i + 1 <= m
      BY <1>1, <2>1, <2>2, <3>2
    <3>4. s[i + 1] = current[i + 1]
      BY <1>2, <3>3
    <3> QED
      BY <1>1, <2>1, <3>1, <3>3, <3>4
  <2>3. CASE i = m + 1
    <3>1. i + 1 \in 1..(L + m + 3 - n) /\ ~(i + 1 <= m) /\ i + 1 # m + 1 /\ i + 1 = m + 2
      BY <1>1, <2>3
    <3> QED
      BY <1>1, <1>2, <2>3, <3>1
  <2>4. CASE i > m + 3
    <3> DEFINE k == i + n - m - 3
    <3>1. k \in 1..L /\ ~(i <= m) /\ i # m + 1 /\ i # m + 2 /\ i # m + 3
      BY <1>1, <2>1, <2>4
    <3>2. current[k] = "S"
      BY <1>2, <1>3, <3>1
    <3>3. k < L /\ current[k + 1] \in Bodies
      BY <1>1, <3>1, <3>2
    <3>4. /\ i + 1 \in 1..(L + m + 3 - n) /\ i < L + m + 3 - n
          /\ ~(i + 1 <= m) /\ i + 1 # m + 1 /\ i + 1 # m + 2 /\ i + 1 # m + 3
          /\ (i + 1) + n - m - 3 = k + 1
      BY <1>1, <2>1, <2>4, <3>3
    <3>5. s[i + 1] = current[k + 1]
      BY <1>2, <3>4
    <3> QED
      BY <3>3, <3>4, <3>5
  <2>5. i # m + 2 /\ i # m + 3
    <3>1. i = m + 2 => s[i] = body
      BY <1>1, <1>2
    <3>2. i = m + 3 => s[i] = "E"
      BY <1>1, <1>2
    <3> QED
      BY <1>3, <3>1, <3>2 DEF Bodies
  <2>6. i <= m \/ i = m + 1 \/ i > m + 3
    BY <1>1, <2>1, <2>5
  <2> QED
    BY <2>2, <2>3, <2>4, <2>6, Zenon
<1>4. \A i \in 1..Len(s) : s[i] = "S" => i < Len(s) /\ s[i + 1] \in Bodies
  BY <1>2, <1>3
<1> QED
  BY <1>2, <1>4 DEF Text, Blocked, s

(* Neither the lines nor the marks are others in a text that differs in    *)
(* one body.                                                               *)
Marks(text, x) == {i \in DOMAIN text : text[i] = x}

(* A text that one of loctx's transformations has appended to: at the end  *)
(* no block is cut, since every marker has its body behind it.             *)
LEMMA AppendedIs ==
  ASSUME NEW current \in Text, NEW body \in Bodies
  PROVE  /\ current \o <<"S", body, "E">> \in Text
         /\ Len(current \o <<"S", body, "E">>) = Len(current) + 3
         /\ \A i \in 1..(Len(current) + 3) :
              (current \o <<"S", body, "E">>)[i] =
                IF i <= Len(current) THEN current[i]
                ELSE IF i = Len(current) + 1 THEN "S" ELSE IF i = Len(current) + 2 THEN body ELSE "E"
<1> DEFINE L == Len(current)
           b == <<"S", body, "E">>
           s == current \o b
<1>1. /\ current \in Seq(Piece) /\ L \in Nat
      /\ \A i \in 1..L : current[i] = "S" => i < L /\ current[i + 1] \in Bodies
  BY TextFacts
<1>2. b \in Seq(Piece) /\ Len(b) = 3 /\ b[1] = "S" /\ b[2] = body /\ b[3] = "E"
  BY BlockIs
<1> HIDE DEF b
<1>3. /\ s \in Seq(Piece) /\ Len(s) = L + 3
      /\ \A i \in 1..(L + 3) : s[i] = IF i <= L THEN current[i] ELSE b[i - L]
  <2>1. /\ s \in Seq(Piece) /\ Len(s) = L + Len(b)
        /\ \A i \in 1..(L + Len(b)) : s[i] = IF i <= L THEN current[i] ELSE b[i - L]
    BY <1>1, <1>2, ConcatProperties
  <2> QED
    BY <1>2, <2>1
<1> HIDE DEF s, L
<1>4. \A i \in 1..(L + 3) :
        s[i] = IF i <= L THEN current[i] ELSE IF i = L + 1 THEN "S" ELSE IF i = L + 2 THEN body ELSE "E"
  <2> SUFFICES ASSUME NEW i \in 1..(L + 3)
               PROVE  s[i] = IF i <= L THEN current[i]
                             ELSE IF i = L + 1 THEN "S" ELSE IF i = L + 2 THEN body ELSE "E"
    OBVIOUS
  <2>1. i \in Int /\ (i <= L \/ i - L = 1 \/ i - L = 2 \/ i - L = 3)
    BY <1>1
  <2> QED
    BY <1>1, <1>2, <1>3, <2>1
<1>5. ASSUME NEW i \in 1..(L + 3), s[i] = "S"
      PROVE  i < L + 3 /\ s[i + 1] \in Bodies
  <2>1. CASE i <= L
    <3>1. i \in 1..L /\ current[i] = "S"
      BY <1>1, <1>4, <1>5, <2>1
    <3>2. i < L /\ current[i + 1] \in Bodies
      BY <1>1, <3>1
    <3>3. i + 1 \in 1..(L + 3) /\ i + 1 <= L
      BY <1>1, <3>1, <3>2
    <3> QED
      BY <1>1, <1>4, <3>1, <3>2, <3>3
  <2>2. CASE i = L + 1
    <3>1. i + 1 \in 1..(L + 3) /\ ~(i + 1 <= L) /\ i + 1 # L + 1 /\ i + 1 = L + 2 /\ i < L + 3
      BY <1>1, <2>2
    <3>2. s[i + 1] = body
      BY <1>4, <3>1
    <3> QED
      BY <3>1, <3>2
  <2>3. i # L + 2 /\ i # L + 3
    <3>1. i = L + 2 => s[i] = body
      BY <1>1, <1>4
    <3>2. i = L + 3 => s[i] = "E"
      BY <1>1, <1>4
    <3> QED
      BY <1>5, <3>1, <3>2 DEF Bodies
  <2>4. i <= L \/ i = L + 1
    BY <1>1, <2>3
  <2> QED
    BY <2>1, <2>2, <2>4, Zenon
<1>6. \A i \in 1..Len(s) : s[i] = "S" => i < Len(s) /\ s[i + 1] \in Bodies
  BY <1>3, <1>5
<1>7. s \in Text
  BY <1>3, <1>6 DEF Text, Blocked
<1> QED
  BY <1>3, <1>4, <1>7 DEF s, b, L

-----------------------------------------------------------------------------
(* A tidy text has no markers, or one block whose place its two markers    *)
(* give.                                                                   *)
Block(text, k) ==
  /\ k \in 1..(Len(text) - 2)
  /\ Marks(text, "S") = {k} /\ Marks(text, "E") = {k + 2}

LEMMA MarksAre ==
  ASSUME NEW text \in Text, NEW x
  PROVE  IsFiniteSet(Marks(text, x)) /\ Marks(text, x) \subseteq 1..Len(text)
<1>1. Len(text) \in Nat /\ Marks(text, x) \subseteq 1..Len(text)
  BY TextFacts DEF Marks
<1>2. IsFiniteSet(1..Len(text))
  BY <1>1, FS_Interval
<1> QED
  BY <1>1, <1>2, FS_Subset

LEMMA IndexOfMark ==
  ASSUME NEW text \in Text, NEW x, NEW k, Marks(text, x) = {k}
  PROVE  IndexOf(x, text) = k
<1>1. text \in Seq(Piece) /\ DOMAIN text = 1..Len(text)
  BY TextFacts
<1>2. k \in 1..Len(text) /\ text[k] = x /\ \A i \in 1..Len(text) : text[i] = x => i = k
  BY <1>1 DEF Marks
<1>3. /\ IndexOf(x, text) \in 0..Len(text)
      /\ IndexOf(x, text) = 0 => \A i \in 1..Len(text) : text[i] # x
      /\ IndexOf(x, text) # 0 => text[IndexOf(x, text)] = x
  BY <1>1, IndexIs
<1>4. IndexOf(x, text) # 0
  BY <1>2, <1>3
<1>5. IndexOf(x, text) \in 1..Len(text)
  BY <1>3, <1>4
<1> QED
  BY <1>2, <1>3, <1>4, <1>5

LEMMA BlockIsTidy ==
  ASSUME NEW text \in Text, NEW k, Block(text, k)
  PROVE  Tidy(text)
<1>1. Marks(text, "S") = {k} /\ Marks(text, "E") = {k + 2}
  BY DEF Block
<1>2. IndexOf("S", text) = k /\ IndexOf("E", text) = k + 2
  BY <1>1, IndexOfMark
<1>3. Cardinality(Marks(text, "S")) = 1 /\ Cardinality(Marks(text, "E")) = 1
  BY <1>1, FS_Singleton
<1> QED
  BY <1>2, <1>3 DEF Tidy, Marks

LEMMA TidyIsBlock ==
  ASSUME NEW text \in Text, text # None, Tidy(text)
  PROVE  \/ Marks(text, "S") = {} /\ Marks(text, "E") = {}
         \/ Block(text, IndexOf("S", text)) /\ IndexOf("E", text) = IndexOf("S", text) + 2
<1>1. CASE {"S", "E"} \cap ToSet(text) = {}
  BY <1>1, TextFacts DEF ToSet, Marks
<1>2. CASE /\ Cardinality({i \in DOMAIN text : text[i] = "S"}) = 1
           /\ Cardinality({i \in DOMAIN text : text[i] = "E"}) = 1
           /\ IndexOf("E", text) = IndexOf("S", text) + 2
  <2>1. Cardinality(Marks(text, "S")) = 1 /\ Cardinality(Marks(text, "E")) = 1
    BY <1>2 DEF Marks
  <2>2. PICK k : Marks(text, "S") = {k}
    BY <2>1, MarksAre, FS_Singleton
  <2>3. PICK l : Marks(text, "E") = {l}
    BY <2>1, MarksAre, FS_Singleton
  <2>4. IndexOf("S", text) = k /\ IndexOf("E", text) = l
    BY <2>2, <2>3, IndexOfMark
  <2>5. k \in 1..Len(text) /\ l \in 1..Len(text) /\ Len(text) \in Nat
    BY <2>2, <2>3, MarksAre, TextFacts
  <2>6. l = k + 2 /\ k \in 1..(Len(text) - 2)
    BY <1>2, <2>4, <2>5
  <2> QED
    BY <1>2, <2>2, <2>3, <2>4, <2>6 DEF Block
<1> QED
  BY <1>1, <1>2 DEF Tidy

LEMMA SubSeqIsBlock ==
  ASSUME NEW text \in Seq(Piece), NEW i \in 1..(Len(text) - 2), NEW body \in Bodies,
         text[i] = "S", text[i + 1] = body, text[i + 2] = "E"
  PROVE  SubSeq(text, i, i + 2) = <<"S", body, "E">>
<1> DEFINE s == SubSeq(text, i, i + 2)
           b == <<"S", body, "E">>
<1>1. Len(text) \in Nat /\ i \in Int /\ i + 2 \in Int /\ \A j \in i..(i + 2) : text[j] \in Piece
  <2>1. Len(text) \in Nat /\ \A j \in 1..Len(text) : text[j] \in Piece
    BY LenProperties, ElementOfSeq
  <2> QED
    BY <2>1
<1>2. /\ s \in Seq(Piece)
      /\ Len(s) = IF i <= i + 2 THEN (i + 2) - i + 1 ELSE 0
      /\ \A j \in 1..((i + 2) - i + 1) : s[j] = text[i + j - 1]
  BY <1>1, SubSeqProperties, SMT
<1>3. b \in Seq(Piece) /\ Len(b) = 3 /\ b[1] = "S" /\ b[2] = body /\ b[3] = "E"
  BY BlockIs
<1> HIDE DEF s, b
<1>4. Len(s) = 3 /\ \A j \in 1..3 : s[j] = text[i + j - 1]
  <2>1. (i + 2) - i + 1 = 3 /\ i <= i + 2
    BY <1>1
  <2> QED
    BY <1>2, <2>1
<1>5. s[1] = text[i] /\ s[2] = text[i + 1] /\ s[3] = text[i + 2]
  <2>1. i + 1 - 1 = i /\ i + 2 - 1 = i + 1 /\ i + 3 - 1 = i + 2
    BY <1>1
  <2>2. 1 \in 1..3 /\ 2 \in 1..3 /\ 3 \in 1..3
    OBVIOUS
  <2> QED
    BY <1>4, <2>1, <2>2
<1>6. \A j \in 1..Len(s) : s[j] = b[j]
  <2>1. \A j \in 1..Len(s) : j = 1 \/ j = 2 \/ j = 3
    BY <1>4
  <2> QED
    BY <1>3, <1>5, <2>1
<1>7. s = b
  BY <1>2, <1>3, <1>4, <1>6, SeqEqual
<1> QED
  BY <1>7 DEF s, b

-----------------------------------------------------------------------------
(* What each transformation returns keeps what is the user's.              *)
KeepsText(old, new) == Tidy(old) => Tidy(new) /\ Lines(new) = Lines(old)

HasBlock(text, body) ==
  text # None /\ \E i \in 1..(Len(text) - 2) : SubSeq(text, i, i + 2) = <<"S", body, "E">>

LEMMA FreshBlock ==
  ASSUME NEW body \in Bodies, None \notin Seq(Piece)
  PROVE  LET block == <<"S", body, "E">> IN
         block \in Text /\ KeepsText(None, block) /\ HasBlock(block, body)
<1> DEFINE b == <<"S", body, "E">>
<1>1. b \in Seq(Piece) /\ Len(b) = 3 /\ b[1] = "S" /\ b[2] = body /\ b[3] = "E"
  BY BlockIs
<1> HIDE DEF b
<1>2. body # "S" /\ body # "E" /\ body # "u"
  BY DEF Bodies
<1>3. DOMAIN b = 1..3
  BY <1>1, LenProperties
<1>4. \A i \in 1..3 : i = 1 \/ i = 2 \/ i = 3
  OBVIOUS
<1>5. b \in Text
  <2>1. \A i \in 1..Len(b) : b[i] = "S" => i < Len(b) /\ b[i + 1] \in Bodies
    <3>1. \A i \in 1..Len(b) : b[i] = "S" => i = 1
      BY <1>1, <1>2, <1>4
    <3>2. 1 < Len(b) /\ b[1 + 1] \in Bodies
      BY <1>1
    <3> QED
      BY <3>1, <3>2
  <2> QED
    BY <1>1, <2>1 DEF Text, Blocked
<1>6. Marks(b, "S") = {1} /\ Marks(b, "E") = {3} /\ Marks(b, "u") = {}
  <2>1. 1 \in DOMAIN b /\ 3 \in DOMAIN b
    BY <1>3
  <2> QED
    BY <1>1, <1>2, <1>3, <1>4, <2>1 DEF Marks
<1>7. Block(b, 1)
  <2>1. 1 \in 1..(Len(b) - 2) /\ 1 + 2 = 3
    BY <1>1
  <2> QED
    BY <1>6, <2>1 DEF Block
<1>8. KeepsText(None, b)
  <2>1. Tidy(b)
    BY <1>5, <1>7, BlockIsTidy
  <2>2. Lines(None) = 0
    BY DEF Lines
  <2>3. Lines(b) = 0
    BY <1>6, FS_EmptySet DEF Lines, Marks
  <2> QED
    BY <2>1, <2>2, <2>3 DEF KeepsText
<1>9. HasBlock(b, body)
  <2>1. 1 \in 1..(Len(b) - 2) /\ b[1 + 1] = body /\ b[1 + 2] = "E"
    BY <1>1
  <2>2. SubSeq(b, 1, 1 + 2) = <<"S", body, "E">>
    BY <1>1, <2>1, SubSeqIsBlock
  <2>3. b # None
    BY <1>1
  <2> QED
    BY <2>1, <2>2, <2>3 DEF HasBlock
<1> QED
  BY <1>5, <1>8, <1>9 DEF b

LEMMA AppendedKeeps ==
  ASSUME NEW current \in Text, NEW body \in Bodies, None \notin Seq(Piece),
         Marks(current, "S") = {} \/ ~Tidy(current)
  PROVE  LET new == current \o <<"S", body, "E">> IN
         new \in Text /\ KeepsText(current, new) /\ HasBlock(new, body)
<1> DEFINE s == current \o <<"S", body, "E">>
           L == Len(current)
<1>1. /\ s \in Text /\ Len(s) = L + 3
      /\ \A i \in 1..(L + 3) :
           s[i] = IF i <= L THEN current[i] ELSE IF i = L + 1 THEN "S" ELSE IF i = L + 2 THEN body ELSE "E"
  BY AppendedIs
<1>2. L \in Nat /\ DOMAIN current = 1..L
  BY TextFacts
<1>3. s \in Seq(Piece) /\ DOMAIN s = 1..(L + 3)
  BY <1>1, TextFacts
<1> HIDE DEF s, L
<1>4. body # "S" /\ body # "E" /\ body # "u"
  BY DEF Bodies
<1>5. s[L + 1] = "S" /\ s[L + 2] = body /\ s[L + 3] = "E"
  <2>1. L + 1 \in 1..(L + 3) /\ L + 2 \in 1..(L + 3) /\ L + 3 \in 1..(L + 3)
    BY <1>2
  <2>2. ~(L + 1 <= L) /\ ~(L + 2 <= L) /\ ~(L + 3 <= L) /\ L + 2 # L + 1 /\ L + 3 # L + 1 /\ L + 3 # L + 2
    BY <1>2
  <2> QED
    BY <1>1, <2>1, <2>2
<1>6. \A i \in 1..(L + 3) : i \in 1..L \/ i = L + 1 \/ i = L + 2 \/ i = L + 3
  BY <1>2
<1>7. \A i \in 1..L : i \in 1..(L + 3) /\ s[i] = current[i]
  <2>1. \A i \in 1..L : i \in 1..(L + 3) /\ i <= L
    BY <1>2
  <2> QED
    BY <1>1, <2>1
<1>8. KeepsText(current, s)
  <2> SUFFICES ASSUME Tidy(current)
               PROVE  Tidy(s) /\ Lines(s) = Lines(current)
    BY DEF KeepsText
  <2>1. Marks(current, "S") = {} /\ Marks(current, "E") = {}
    BY TidyIsBlock, TextFacts DEF Block
  <2>2. L + 1 \in DOMAIN s /\ L + 3 \in DOMAIN s
    BY <1>2, <1>3
  <2>3. \A i \in 1..L : s[i] # "S" /\ s[i] # "E"
    BY <1>2, <1>7, <2>1 DEF Marks
  <2>4. Marks(s, "S") = {L + 1} /\ Marks(s, "E") = {L + 3}
    BY <1>3, <1>4, <1>5, <1>6, <2>2, <2>3 DEF Marks
  <2>5. Block(s, L + 1)
    <3>1. L + 1 \in 1..(Len(s) - 2) /\ (L + 1) + 2 = L + 3
      BY <1>1, <1>2
    <3> QED
      BY <2>4, <3>1 DEF Block
  <2>6. Tidy(s)
    BY <1>1, <2>5, BlockIsTidy
  <2>7. {i \in DOMAIN s : s[i] = "u"} = {i \in DOMAIN current : current[i] = "u"}
    BY <1>2, <1>3, <1>4, <1>5, <1>6, <1>7
  <2>8. Lines(current) = Cardinality({i \in DOMAIN current : current[i] = "u"})
    BY TextFacts DEF Lines
  <2>9. Lines(s) = Cardinality({i \in DOMAIN s : s[i] = "u"})
    BY <1>3 DEF Lines
  <2> QED
    BY <2>6, <2>7, <2>8, <2>9
<1>9. HasBlock(s, body)
  <2>1. L + 1 \in 1..(Len(s) - 2) /\ (L + 1) + 1 = L + 2 /\ (L + 1) + 2 = L + 3
    BY <1>1, <1>2
  <2>2. SubSeq(s, L + 1, (L + 1) + 2) = <<"S", body, "E">>
    BY <1>3, <1>5, <2>1, SubSeqIsBlock
  <2>3. s # None
    BY <1>3
  <2> QED
    BY <2>1, <2>2, <2>3 DEF HasBlock
<1> QED
  BY <1>1, <1>8, <1>9 DEF s

LEMMA SplicedKeeps ==
  ASSUME NEW current \in Text, NEW body \in Bodies, None \notin Seq(Piece),
         IndexOf("S", current) # 0, IndexOf("E", current) > IndexOf("S", current)
  PROVE  LET new == Spliced(current, IndexOf("S", current) - 1, IndexOf("E", current), body) IN
         new \in Text /\ KeepsText(current, new) /\ HasBlock(new, body)
<1> DEFINE k == IndexOf("S", current)
           n == IndexOf("E", current)
           s == Spliced(current, k - 1, n, body)
           L == Len(current)
<1>1. /\ L \in Nat /\ current \in Seq(Piece) /\ DOMAIN current = 1..L
      /\ \A i \in 1..L : current[i] = "S" => i < L /\ current[i + 1] \in Bodies
  BY TextFacts
<1>2. /\ k \in 0..L /\ k # 0 /\ n \in 0..L /\ n > k
      /\ current[k] = "S" /\ \A i \in 1..(k - 1) : current[i] # "S"
  BY <1>1, IndexIs
<1> HIDE DEF k, n, L
<1>3. k \in 1..L /\ k - 1 \in 0..L /\ n \in (k - 1)..L /\ k \in Int /\ n \in Int
  BY <1>1, <1>2
<1>4. k - 1 # 0 => current[k - 1] # "S"
  <2>1. k - 1 # 0 => k - 1 \in 1..(k - 1)
    BY <1>3
  <2> QED
    BY <1>2, <2>1
<1>5. s \in Text
  BY <1>1, <1>3, <1>4, SplicedIsText DEF L
<1>6. /\ s \in Seq(Piece) /\ Len(s) = L + (k - 1) + 3 - n
      /\ \A i \in 1..(L + (k - 1) + 3 - n) :
           s[i] = IF i <= k - 1 THEN current[i]
                  ELSE IF i = (k - 1) + 1 THEN "S"
                  ELSE IF i = (k - 1) + 2 THEN body
                  ELSE IF i = (k - 1) + 3 THEN "E"
                  ELSE current[i + n - (k - 1) - 3]
  <2> DEFINE m == k - 1
  <2>1. m \in 0..Len(current) /\ n \in m..Len(current)
    BY <1>3 DEF L
  <2>2. s = Spliced(current, m, n, body)
    OBVIOUS
  <2> HIDE DEF s, m
  <2>3. /\ Spliced(current, m, n, body) \in Seq(Piece)
        /\ Len(Spliced(current, m, n, body)) = Len(current) + m + 3 - n
        /\ \A i \in 1..(Len(current) + m + 3 - n) :
             Spliced(current, m, n, body)[i] =
               IF i <= m THEN current[i]
               ELSE IF i = m + 1 THEN "S"
               ELSE IF i = m + 2 THEN body
               ELSE IF i = m + 3 THEN "E"
               ELSE current[i + n - m - 3]
    BY <1>1, <2>1, SplicedIs
  <2> QED
    BY <2>2, <2>3 DEF m, L
<1> HIDE DEF s
<1>7. body # "S" /\ body # "E" /\ body # "u"
  BY DEF Bodies
<1>8. s[k] = "S" /\ s[k + 1] = body /\ s[k + 2] = "E" /\ k \in 1..(Len(s) - 2)
  <2>1. k \in 1..(L + (k - 1) + 3 - n) /\ k + 1 \in 1..(L + (k - 1) + 3 - n) /\ k + 2 \in 1..(L + (k - 1) + 3 - n)
    BY <1>1, <1>3
  <2>2. /\ ~(k <= k - 1) /\ k = (k - 1) + 1
        /\ ~(k + 1 <= k - 1) /\ k + 1 # (k - 1) + 1 /\ k + 1 = (k - 1) + 2
        /\ ~(k + 2 <= k - 1) /\ k + 2 # (k - 1) + 1 /\ k + 2 # (k - 1) + 2 /\ k + 2 = (k - 1) + 3
    BY <1>3
  <2>3. k \in 1..(Len(s) - 2)
    BY <1>1, <1>3, <1>6
  <2>4. s[k] = "S"
    BY <1>6, <2>1, <2>2
  <2>5. s[k + 1] = body
    BY <1>6, <2>1, <2>2
  <2>6. s[k + 2] = "E"
    BY <1>6, <2>1, <2>2
  <2> QED
    BY <2>3, <2>4, <2>5, <2>6
<1>9. KeepsText(current, s)
  <2> SUFFICES ASSUME Tidy(current)
               PROVE  Tidy(s) /\ Lines(s) = Lines(current)
    BY DEF KeepsText
  <2>1. current # None
    BY <1>1
  <2>2. Marks(current, "S") # {}
    BY <1>1, <1>2, <1>3 DEF Marks
  <2>3. Block(current, k) /\ n = k + 2
    BY <2>1, <2>2, TidyIsBlock DEF k, n
  <2>4. L + (k - 1) + 3 - n = L
    BY <1>1, <1>3, <2>3
  <2>5. DOMAIN s = 1..L /\ Len(s) = L
    BY <1>6, <2>4, LenProperties
  <2>6. \A i \in 1..L : i # k + 1 => s[i] = current[i]
    <3> SUFFICES ASSUME NEW i \in 1..L, i # k + 1
                 PROVE  s[i] = current[i]
      OBVIOUS
    <3>1. current[k + 2] = "E"
      BY <2>3 DEF Block, Marks
    <3>2. i \in Int /\ i \in 1..(L + (k - 1) + 3 - n)
      BY <2>4
    <3>3. i <= k - 1 \/ i = k \/ i = k + 2 \/ i > k + 2
      BY <1>3, <3>2
    <3>4. CASE i <= k - 1
      BY <1>6, <3>2, <3>4
    <3>5. CASE i > k + 2
      <4>1. /\ ~(i <= k - 1) /\ i # (k - 1) + 1 /\ i # (k - 1) + 2 /\ i # (k - 1) + 3
            /\ i + n - (k - 1) - 3 = i
        BY <1>3, <2>3, <3>2, <3>5
      <4> QED
        BY <1>6, <3>2, <4>1
    <3> QED
      BY <1>2, <1>8, <3>1, <3>3, <3>4, <3>5
  <2>7. current[k + 1] \in Bodies /\ k + 1 \in 1..L
    BY <1>1, <1>2, <1>3
  <2>8. \A x \in {"S", "E", "u"} : \A i \in 1..L : s[i] = x <=> current[i] = x
    <3> SUFFICES ASSUME NEW x \in {"S", "E", "u"}, NEW i \in 1..L
                 PROVE  s[i] = x <=> current[i] = x
      OBVIOUS
    <3>1. body # x /\ current[k + 1] # x
      BY <2>7 DEF Bodies
    <3> QED
      BY <1>8, <2>6, <3>1
  <2>9. \A x \in {"S", "E", "u"} : Marks(s, x) = Marks(current, x)
    BY <1>1, <2>5, <2>8 DEF Marks
  <2>10. Block(s, k)
    BY <1>8, <2>3, <2>9 DEF Block
  <2>11. Tidy(s)
    BY <1>5, <2>10, BlockIsTidy
  <2>12. Lines(s) = Cardinality(Marks(s, "u")) /\ Lines(current) = Cardinality(Marks(current, "u"))
    BY <1>1, <1>6 DEF Lines, Marks
  <2> QED
    BY <2>9, <2>11, <2>12
<1>10. HasBlock(s, body)
  <2>1. SubSeq(s, k, k + 2) = <<"S", body, "E">>
    BY <1>6, <1>8, SubSeqIsBlock
  <2>2. s # None
    BY <1>6
  <2> QED
    BY <1>8, <2>1, <2>2 DEF HasBlock
<1> QED
  BY <1>5, <1>9, <1>10 DEF s, k, n

(* Nothing is written only where the text is what would be written.        *)
LEMMA UpsertKeeps ==
  ASSUME NEW content, content = None \/ content \in Text, NEW body \in Bodies, None \notin Seq(Piece)
  PROVE  LET plan == upsertMarkerBlock(content, body) IN
         IF plan.action = "skip" THEN HasBlock(content, body)
         ELSE plan.content \in Text /\ KeepsText(content, plan.content) /\ HasBlock(plan.content, body)
<1> DEFINE block == <<"S", body, "E">>
           start == IndexOf("S", content)
           end == IndexOf("E", content)
           updated == SubSeq(content, 1, start - 1) \o block \o SubSeq(content, end + 1, Len(content))
           plan == upsertMarkerBlock(content, body)
<1>1. plan = IF content = None THEN Plan(block, "create", FALSE)
             ELSE IF start = 0 \/ end <= start THEN Plan(content \o block, "update", FALSE)
             ELSE IF updated = content THEN Skip(TRUE)
             ELSE Plan(updated, "update", TRUE)
  BY DEF upsertMarkerBlock
<1> HIDE DEF block, start, end, updated, plan
<1>2. CASE content = None
  <2>1. plan.content = block /\ plan.action # "skip"
    BY <1>1, <1>2 DEF Plan
  <2> QED
    BY <1>2, <2>1, FreshBlock DEF block, plan
<1>3. CASE content # None /\ (start = 0 \/ end <= start)
  <2>1. plan.content = content \o block /\ plan.action # "skip"
    BY <1>1, <1>3 DEF Plan
  <2>2. content \in Text
    BY <1>3
  <2>3. Marks(content, "S") = {} \/ ~Tidy(content)
    <3>1. ASSUME Tidy(content), Marks(content, "S") # {} PROVE FALSE
      <4>1. Block(content, start) /\ end = start + 2
        BY <1>3, <2>2, <3>1, TidyIsBlock DEF start, end
      <4>2. start \in 1..(Len(content) - 2) /\ Len(content) \in Nat
        BY <2>2, <4>1, TextFacts DEF Block
      <4> QED
        BY <1>3, <4>1, <4>2
    <3> QED
      BY <3>1
  <2>4. /\ content \o block \in Text /\ KeepsText(content, content \o block)
        /\ HasBlock(content \o block, body)
    BY <2>2, <2>3, AppendedKeeps DEF block
  <2>5. plan.content \in Text /\ KeepsText(content, plan.content) /\ HasBlock(plan.content, body)
    BY <2>1, <2>4
  <2> QED
    BY <2>1, <2>5 DEF plan
<1>4. CASE content # None /\ ~(start = 0 \/ end <= start)
  <2>1. content \in Text /\ content \in Seq(Piece)
    BY <1>4, TextFacts
  <2>2. start # 0 /\ end > start
    <3>1. start \in 0..Len(content) /\ end \in 0..Len(content) /\ Len(content) \in Nat
      BY <2>1, IndexIs, TextFacts DEF start, end
    <3> QED
      BY <1>4, <3>1
  <2>3. updated \in Text /\ KeepsText(content, updated) /\ HasBlock(updated, body)
    BY <2>1, <2>2, SplicedKeeps DEF Spliced, start, end, updated, block
  <2>4. IF updated = content THEN plan.action = "skip" ELSE plan.action # "skip" /\ plan.content = updated
    BY <1>1, <1>4 DEF Plan, Skip
  <2>5. IF plan.action = "skip" THEN HasBlock(content, body)
        ELSE plan.content \in Text /\ KeepsText(content, plan.content) /\ HasBlock(plan.content, body)
    BY <2>3, <2>4
  <2> QED
    BY <2>5 DEF plan
<1> QED
  BY <1>2, <1>3, <1>4, Zenon

LEMMA JsonFacts == {Malformed, NoObject, NoSection, [loctx |-> None, others |-> TRUE]} \subseteq Json
BY DEF Malformed, NoObject, NoSection, Json

LEMMA MergeKeeps ==
  ASSUME NEW content, content = None \/ content \in Json, NEW spec \in {"stdio", "http"},
         mergeServerJson(content, spec).action # "skip"
  PROVE  LET new == mergeServerJson(content, spec).content IN
         new \in Json /\ content # Malformed /\ (content \notin {None, NoObject} /\ content.others => new.others)
<1> DEFINE plan == mergeServerJson(content, spec)
<1>1. content # Malformed
  BY DEF mergeServerJson, Skip, Plan
<1>2. CASE content \in {None, NoObject}
  <2>1. plan.content = [loctx |-> spec, others |-> FALSE]
    BY <1>1, <1>2 DEF mergeServerJson, Plan
  <2> QED
    BY <1>1, <1>2, <2>1 DEF Json
<1>3. CASE content \notin {None, NoObject}
  <2>1. content \in Json
    BY <1>3
  <2>2. plan.content = [content EXCEPT !.loctx = spec]
    BY <1>1, <1>3 DEF mergeServerJson, Plan, Skip
  <2>3. [content EXCEPT !.loctx = spec] \in Json /\ [content EXCEPT !.loctx = spec].others = content.others
    BY <2>1 DEF Json
  <2> QED
    BY <1>1, <2>2, <2>3
<1> QED
  BY <1>2, <1>3

LEMMA StandaloneKeeps ==
  ASSUME NEW content, content = None \/ content \in Own, NEW body \in Bodies, None \notin Own
  PROVE  LET plan == standaloneFile(content, body) IN
         IF plan.action = "skip" THEN content # None /\ (content.marked => content.body = body)
         ELSE plan.content \in Own /\ (content = None \/ content.marked)
              /\ plan.content # None /\ plan.content.body = body
<1> DEFINE new == [marked |-> TRUE, body |-> body]
<1>1. new \in Own /\ new.body = body
  BY DEF Own
<1>2. new # None
  BY <1>1
<1> QED
  BY <1>1, <1>2 DEF standaloneFile, Plan, Skip

-----------------------------------------------------------------------------
(* The plans, the writes they are for, and the files afterwards.           *)
Distinct == None \notin Seq(Piece) /\ None \notin Own

Kinds == {"json", "block", "own"}

LEMMA TargetFacts ==
  ASSUME Agent \subseteq KnownAgents, NEW p \in Project, NEW a \in Agent, NEW t \in Targets(a, p)
  PROVE  /\ t.path \in Paths /\ KindOf(t.path) \in Kinds
         /\ t.purpose = "mcp" <=> KindOf(t.path) = "json"
<1>1. a \in KnownAgents
  OBVIOUS
<1>2. /\ KindOf(t.path) \in Kinds
      /\ t.purpose = "mcp" <=> KindOf(t.path) = "json"
  BY <1>1 DEF KnownAgents, Targets, T, KindOf, Kinds
<1>3. t.path \in Paths
  BY DEF Paths, TargetsOf
<1> QED
  BY <1>2, <1>3

LEMMA PathKinds ==
  ASSUME Agent \subseteq KnownAgents, NEW path \in Paths
  PROVE  KindOf(path) \in Kinds
<1>1. PICK p \in Project : \E t \in TargetsOf(p) : path = t.path
  BY DEF Paths
<1>2. PICK a \in Agent : \E t \in Targets(a, p) : path = t.path
  BY <1>1 DEF TargetsOf
<1> QED
  BY <1>2, TargetFacts

LEMMA BodyIs ==
  ASSUME version \in {1, 2}
  PROVE  Body(version) \in Bodies
BY DEF Body, Bodies

LEMMA RenderKeeps ==
  ASSUME Distinct, version \in {1, 2}, NEW t, KindOf(t.path) \in Kinds,
         NEW content, OfKind(KindOf(t.path), content), NEW transport \in {"stdio", "http"},
         Render(t, content, transport).action # "skip"
  PROVE  /\ OfKind(KindOf(t.path), Render(t, content, transport).content)
         /\ Keeps(t.path, content, Render(t, content, transport).content)
<1> DEFINE plan == Render(t, content, transport)
           body == Body(version)
<1>1. body \in Bodies
  BY BodyIs
<1>2. CASE KindOf(t.path) = "json"
  <2>1. plan = mergeServerJson(content, transport)
    BY <1>2 DEF Render
  <2>2. content = None \/ content \in Json
    BY <1>2 DEF OfKind
  <2>3. /\ plan.content \in Json /\ content # Malformed
        /\ content \notin {None, NoObject} /\ content.others => plan.content.others
    BY <2>1, <2>2, MergeKeeps
  <2> QED
    BY <1>2, <2>3 DEF OfKind, Keeps
<1>3. CASE KindOf(t.path) = "block"
  <2>1. plan = upsertMarkerBlock(content, body)
    BY <1>3 DEF Render
  <2>2. content = None \/ content \in Text
    BY <1>3 DEF OfKind
  <2>3. plan.content \in Text /\ KeepsText(content, plan.content)
    BY <1>1, <2>1, <2>2, UpsertKeeps DEF Distinct
  <2> QED
    BY <1>3, <2>3 DEF OfKind, Keeps, KeepsText
<1>4. CASE KindOf(t.path) = "own"
  <2>1. plan = standaloneFile(content, body)
    BY <1>4 DEF Render
  <2>2. content = None \/ content \in Own
    BY <1>4 DEF OfKind
  <2>3. plan.content \in Own /\ (content = None \/ content.marked)
    BY <1>1, <2>1, <2>2, StandaloneKeeps DEF Distinct
  <2> QED
    BY <1>4, <2>3 DEF OfKind, Keeps
<1> QED
  BY <1>2, <1>3, <1>4 DEF Kinds

(* A file is written with what was planned for a target that has its path. *)
LEMMA WritesAre ==
  ASSUME NEW p, NEW transport, NEW targets
  PROVE  LET plan == planAgentSetup(p, transport) IN
         /\ \A path \in DOMAIN Writes(plan, targets) :
              \E a \in Agent : \E t \in targets \cap Targets(a, p) :
                /\ t.path = path /\ Render(t, readMaybe(path), transport).action # "skip"
                /\ Writes(plan, targets)[path] = Render(t, readMaybe(path), transport).content
         /\ \A a \in Agent : \A t \in targets \cap Targets(a, p) :
              Render(t, readMaybe(t.path), transport).action # "skip" => t.path \in DOMAIN Writes(plan, targets)
<1> DEFINE plan == planAgentSetup(p, transport)
           planned(a) == {t \in targets \cap DOMAIN plan[a] : plan[a][t].action # "skip"}
           written == UNION {{[path |-> t.path, content |-> plan[a][t].content] : t \in planned(a)} : a \in Agent}
<1>1. \A a \in Agent : DOMAIN plan[a] = Targets(a, p)
  BY DEF planAgentSetup
<1>2. \A a \in Agent : \A t \in Targets(a, p) : plan[a][t] = Render(t, readMaybe(t.path), transport)
  BY DEF planAgentSetup
<1>3. Writes(plan, targets) =
        [path \in {w.path : w \in written} |-> (CHOOSE w \in written : w.path = path).content]
  BY DEF Writes
<1> HIDE DEF plan
<1>4. ASSUME NEW w \in written
      PROVE  \E a \in Agent : \E t \in targets \cap Targets(a, p) :
               /\ t.path = w.path /\ Render(t, readMaybe(t.path), transport).action # "skip"
               /\ w.content = Render(t, readMaybe(t.path), transport).content
  <2>1. PICK a \in Agent : \E t \in planned(a) : w = [path |-> t.path, content |-> plan[a][t].content]
    OBVIOUS
  <2>2. PICK t \in planned(a) : w = [path |-> t.path, content |-> plan[a][t].content]
    BY <2>1
  <2>3. t \in targets \cap Targets(a, p) /\ plan[a][t].action # "skip"
    BY <1>1, <2>2
  <2>4. w.path = t.path /\ w.content = plan[a][t].content
    BY <2>2
  <2> QED
    BY <1>2, <2>3, <2>4
<1>5. ASSUME NEW a \in Agent, NEW t \in targets \cap Targets(a, p),
             Render(t, readMaybe(t.path), transport).action # "skip"
      PROVE  \E w \in written : w.path = t.path
  <2>1. t \in planned(a)
    BY <1>1, <1>2, <1>5
  <2>2. [path |-> t.path, content |-> plan[a][t].content] \in written
    BY <2>1
  <2> QED
    BY <2>2
<1> HIDE DEF written
<1>6. ASSUME NEW path \in DOMAIN Writes(plan, targets)
      PROVE  \E a \in Agent : \E t \in targets \cap Targets(a, p) :
                /\ t.path = path /\ Render(t, readMaybe(path), transport).action # "skip"
                /\ Writes(plan, targets)[path] = Render(t, readMaybe(path), transport).content
  <2> DEFINE w == CHOOSE w \in written : w.path = path
  <2>1. \E v \in written : v.path = path
    BY <1>3, <1>6
  <2>2. w \in written /\ w.path = path
    BY <2>1
  <2>3. Writes(plan, targets)[path] = w.content
    BY <1>3, <1>6
  <2> HIDE DEF w
  <2> QED
    BY <1>4, <2>2, <2>3
<1>7. ASSUME NEW a \in Agent, NEW t \in targets \cap Targets(a, p),
             Render(t, readMaybe(t.path), transport).action # "skip"
      PROVE  t.path \in DOMAIN Writes(plan, targets)
  BY <1>3, <1>5, <1>7
<1> QED
  BY <1>6, <1>7 DEF plan

Good(path, content) ==
  OfKind(KindOf(path), content) /\ (path \notin unread => Keeps(path, file[path], content))

LEMMA WritesAreGood ==
  ASSUME Agent \subseteq KnownAgents, Distinct, FilesInv,
         NEW p \in Project, NEW transport \in {"stdio", "http"}, NEW targets
  PROVE  \A path \in DOMAIN Writes(planAgentSetup(p, transport), targets) :
           path \in Paths /\ Good(path, Writes(planAgentSetup(p, transport), targets)[path])
<1> DEFINE w == Writes(planAgentSetup(p, transport), targets)
<1> SUFFICES ASSUME NEW path \in DOMAIN w
             PROVE  path \in Paths /\ Good(path, w[path])
  OBVIOUS
<1>1. PICK a \in Agent : \E t \in targets \cap Targets(a, p) :
        /\ t.path = path /\ Render(t, readMaybe(path), transport).action # "skip"
        /\ w[path] = Render(t, readMaybe(path), transport).content
  BY WritesAre
<1>2. PICK t \in targets \cap Targets(a, p) :
        /\ t.path = path /\ Render(t, readMaybe(path), transport).action # "skip"
        /\ w[path] = Render(t, readMaybe(path), transport).content
  BY <1>1
<1>3. path \in Paths /\ KindOf(t.path) \in Kinds
  BY <1>2, TargetFacts
<1>4. OfKind(KindOf(t.path), readMaybe(path)) /\ version \in {1, 2}
  BY <1>2, <1>3 DEF FilesInv, readMaybe, OfKind
<1>5. path \notin unread => readMaybe(path) = file[path]
  BY DEF readMaybe
<1> HIDE DEF w
<1> QED
  BY <1>2, <1>3, <1>4, <1>5, RenderKeeps DEF Good

-----------------------------------------------------------------------------
(* What the user does to a text: he writes at an end of it, or deletes a   *)
(* marker, which is never what follows one.                                *)
LEMMA UserWrites ==
  ASSUME NEW now \in Text
  PROVE  <<"u">> \in Text /\ now \o <<"u">> \in Text /\ <<"u">> \o now \in Text
<1> DEFINE one == <<"u">>
           L == Len(now)
           s == now \o one
           r == one \o now
<1>1. /\ now \in Seq(Piece) /\ L \in Nat
      /\ \A i \in 1..L : now[i] = "S" => i < L /\ now[i + 1] \in Bodies
  BY TextFacts
<1>2. one \in Seq(Piece) /\ Len(one) = 1 /\ one[1] = "u"
  BY DEF Piece
<1> HIDE DEF one
<1>3. /\ s \in Seq(Piece) /\ Len(s) = L + Len(one)
      /\ \A i \in 1..(L + Len(one)) : s[i] = IF i <= L THEN now[i] ELSE one[i - L]
  BY <1>1, <1>2, ConcatProperties
<1>4. /\ r \in Seq(Piece) /\ Len(r) = Len(one) + L
      /\ \A i \in 1..(Len(one) + L) : r[i] = IF i <= Len(one) THEN one[i] ELSE now[i - Len(one)]
  BY <1>1, <1>2, ConcatProperties
<1> HIDE DEF s, r, L
<1>5. one \in Text
  <2>1. \A i \in 1..Len(one) : i = 1
    BY <1>2
  <2>2. \A i \in 1..Len(one) : one[i] # "S"
    BY <1>2, <2>1
  <2> QED
    BY <1>2, <2>2 DEF Text, Blocked
<1>6. ASSUME NEW i \in 1..Len(s), s[i] = "S" PROVE i < Len(s) /\ s[i + 1] \in Bodies
  <2>1. i \in 1..(L + 1) /\ Len(s) = L + 1
    BY <1>1, <1>2, <1>3
  <2>2. i # L + 1
    <3>1. L + 1 \in 1..(L + Len(one)) /\ ~(L + 1 <= L) /\ (L + 1) - L = 1
      BY <1>1, <1>2
    <3>2. s[L + 1] = "u"
      BY <1>2, <1>3, <3>1
    <3> QED
      BY <1>6, <3>2
  <2>3. i \in 1..L /\ i \in 1..(L + Len(one)) /\ i <= L
    BY <1>1, <1>2, <2>1, <2>2
  <2>4. now[i] = "S"
    BY <1>3, <1>6, <2>3
  <2>5. i < L /\ now[i + 1] \in Bodies
    BY <1>1, <2>3, <2>4
  <2>6. i + 1 \in 1..(L + Len(one)) /\ i + 1 <= L
    BY <1>1, <1>2, <2>3, <2>5
  <2>7. s[i + 1] = now[i + 1]
    BY <1>3, <2>6
  <2> QED
    BY <1>1, <2>1, <2>3, <2>5, <2>7
<1>7. ASSUME NEW i \in 1..Len(r), r[i] = "S" PROVE i < Len(r) /\ r[i + 1] \in Bodies
  <2>1. i \in 1..(Len(one) + L) /\ i \in 1..(L + 1) /\ Len(r) = L + 1
    BY <1>1, <1>2, <1>4
  <2>2. i # 1
    <3>1. 1 \in 1..(Len(one) + L) /\ 1 <= Len(one)
      BY <1>1, <1>2
    <3>2. r[1] = "u"
      BY <1>2, <1>4, <3>1
    <3> QED
      BY <1>7, <3>2
  <2>3. i - 1 \in 1..L /\ i - 1 = i - Len(one) /\ ~(i <= Len(one))
    BY <1>1, <1>2, <2>1, <2>2
  <2>4. now[i - 1] = "S"
    BY <1>4, <1>7, <2>1, <2>3
  <2>5. i - 1 < L /\ now[(i - 1) + 1] \in Bodies
    BY <1>1, <2>3, <2>4
  <2>6. /\ i + 1 \in 1..(Len(one) + L) /\ ~(i + 1 <= Len(one)) /\ (i + 1) - Len(one) = (i - 1) + 1
        /\ i < L + 1
    BY <1>1, <1>2, <2>1, <2>3, <2>5
  <2>7. r[i + 1] = now[(i - 1) + 1]
    BY <1>4, <2>6
  <2> QED
    BY <2>1, <2>5, <2>6, <2>7
<1>8. s \in Text /\ r \in Text
  BY <1>3, <1>4, <1>6, <1>7 DEF Text, Blocked
<1> QED
  BY <1>5, <1>8 DEF s, r, one

LEMMA UserDeletes ==
  ASSUME NEW now \in Text, NEW j \in DOMAIN now, now[j] \in {"S", "E"}
  PROVE  RemoveAt(now, j) \in Text
<1> DEFINE L == Len(now)
           a == SubSeq(now, 1, j - 1)
           c == SubSeq(now, j + 1, L)
           s == a \o c
<1>1. /\ now \in Seq(Piece) /\ L \in Nat /\ j \in 1..L
      /\ \A i \in 1..L : now[i] \in Piece
      /\ \A i \in 1..L : now[i] = "S" => i < L /\ now[i + 1] \in Bodies
  BY TextFacts
<1> HIDE DEF L
<1>2. a \in Seq(Piece) /\ Len(a) = j - 1 /\ \A i \in 1..(j - 1) : a[i] = now[i]
  <2>1. 1 \in Int /\ j - 1 \in Int /\ \A i \in 1..(j - 1) : now[i] \in Piece
    BY <1>1
  <2>2. /\ SubSeq(now, 1, j - 1) \in Seq(Piece)
        /\ Len(SubSeq(now, 1, j - 1)) = IF 1 <= j - 1 THEN (j - 1) - 1 + 1 ELSE 0
        /\ \A i \in 1..((j - 1) - 1 + 1) : SubSeq(now, 1, j - 1)[i] = now[1 + i - 1]
    BY <2>1, SubSeqProperties, SMT
  <2>3. Len(a) = j - 1
    BY <1>1, <2>2
  <2>4. \A i \in 1..(j - 1) : i \in 1..((j - 1) - 1 + 1) /\ 1 + i - 1 = i
    BY <1>1
  <2> QED
    BY <2>2, <2>3, <2>4
<1>3. c \in Seq(Piece) /\ Len(c) = L - j /\ \A i \in 1..(L - j) : c[i] = now[j + i]
  <2>1. j + 1 \in Int /\ L \in Int /\ \A i \in (j + 1)..L : now[i] \in Piece
    BY <1>1
  <2>2. /\ SubSeq(now, j + 1, L) \in Seq(Piece)
        /\ Len(SubSeq(now, j + 1, L)) = IF j + 1 <= L THEN L - (j + 1) + 1 ELSE 0
        /\ \A i \in 1..(L - (j + 1) + 1) : SubSeq(now, j + 1, L)[i] = now[j + 1 + i - 1]
    BY <2>1, SubSeqProperties, SMT
  <2>3. Len(c) = L - j
    BY <1>1, <2>2
  <2>4. \A i \in 1..(L - j) : i \in 1..(L - (j + 1) + 1) /\ j + 1 + i - 1 = j + i
    BY <1>1
  <2> QED
    BY <2>2, <2>3, <2>4
<1> HIDE DEF a, c
<1>4. /\ s \in Seq(Piece) /\ Len(s) = L - 1
      /\ \A i \in 1..(L - 1) : s[i] = IF i < j THEN now[i] ELSE now[i + 1]
  <2>1. /\ s \in Seq(Piece) /\ Len(s) = Len(a) + Len(c)
        /\ \A i \in 1..(Len(a) + Len(c)) : s[i] = IF i <= Len(a) THEN a[i] ELSE c[i - Len(a)]
    BY <1>2, <1>3, ConcatProperties
  <2>2. Len(a) + Len(c) = L - 1
    BY <1>1, <1>2, <1>3
  <2>3. ASSUME NEW i \in 1..(L - 1) PROVE s[i] = IF i < j THEN now[i] ELSE now[i + 1]
    <3>1. i \in 1..(Len(a) + Len(c)) /\ i \in Int
      BY <2>2
    <3>2. CASE i < j
      <4>1. i \in 1..(j - 1) /\ i <= Len(a)
        BY <1>1, <1>2, <3>2
      <4> QED
        BY <1>2, <2>1, <3>1, <3>2, <4>1
    <3>3. CASE ~(i < j)
      <4>1. ~(i <= Len(a)) /\ i - Len(a) \in 1..(L - j) /\ j + (i - Len(a)) = i + 1
        BY <1>1, <1>2, <3>3
      <4> QED
        BY <1>3, <2>1, <3>1, <3>3, <4>1
    <3> QED
      BY <3>2, <3>3
  <2> QED
    BY <2>1, <2>2, <2>3
<1> HIDE DEF s
<1>5. ASSUME NEW i \in 1..(L - 1), s[i] = "S" PROVE i < L - 1 /\ s[i + 1] \in Bodies
  <2>1. now[j] \notin Bodies
    BY DEF Bodies
  <2>2. CASE i < j
    <3>1. i \in 1..L /\ now[i] = "S"
      BY <1>1, <1>4, <1>5, <2>2
    <3>2. i < L /\ now[i + 1] \in Bodies
      BY <1>1, <3>1
    <3>3. i + 1 # j
      BY <2>1, <3>2
    <3>4. i + 1 \in 1..(L - 1) /\ i + 1 < j /\ i < L - 1
      BY <1>1, <2>2, <3>1, <3>3
    <3> QED
      BY <1>4, <3>2, <3>4
  <2>3. CASE ~(i < j)
    <3>1. i + 1 \in 1..L /\ now[i + 1] = "S"
      BY <1>1, <1>4, <1>5, <2>3
    <3>2. i + 1 < L /\ now[(i + 1) + 1] \in Bodies
      BY <1>1, <3>1
    <3>3. i + 1 \in 1..(L - 1) /\ ~(i + 1 < j) /\ i < L - 1
      BY <1>1, <2>3, <3>2
    <3> QED
      BY <1>4, <3>2, <3>3
  <2> QED
    BY <2>2, <2>3
<1>6. \A i \in 1..Len(s) : s[i] = "S" => i < Len(s) /\ s[i + 1] \in Bodies
  BY <1>4, <1>5
<1>7. RemoveAt(now, j) = s
  BY DEF RemoveAt, s, a, c, L
<1> QED
  BY <1>4, <1>6, <1>7 DEF Text, Blocked

LEMMA EditedIs ==
  ASSUME Agent \subseteq KnownAgents, FilesInv, NEW path \in Paths, NEW content \in Edited(path)
  PROVE  OfKind(KindOf(path), content)
<1> DEFINE now == file[path]
<1>1. OfKind(KindOf(path), now) /\ KindOf(path) \in Kinds
  BY PathKinds DEF FilesInv
<1>2. CASE KindOf(path) = "json"
  <2>1. \A x \in Contents("json") : x = None \/ x \in Json
    BY JsonFacts DEF Contents
  <2>2. content \in Contents("json")
          \cup (IF now \in {None, Malformed} THEN {} ELSE {[now EXCEPT !.others = TRUE]})
    BY <1>2 DEF Edited
  <2>3. now # None => now \in Json
    BY <1>1, <1>2 DEF OfKind
  <2>4. now # None => [now EXCEPT !.others = TRUE] \in Json
    BY <2>3 DEF Json
  <2>5. content = None \/ content \in Json
    BY <2>1, <2>2, <2>4
  <2> QED
    BY <1>2, <2>5 DEF OfKind
<1>3. CASE KindOf(path) = "block"
  <2>1. now = None \/ now \in Text
    BY <1>1, <1>3 DEF OfKind
  <2>2. content \in (IF now = None THEN {<<"u">>}
                     ELSE {now \o <<"u">>, <<"u">> \o now}
                            \cup {RemoveAt(now, i) : i \in {j \in DOMAIN now : now[j] \in {"S", "E"}}})
    BY <1>3 DEF Edited
  <2>3. content \in Text
    <3>1. CASE now = None
      <4>1. content = <<"u">>
        BY <2>2, <3>1
      <4>2. <<"u">> \in Text
        <5>1. <<"u">> \in Seq(Piece) /\ Len(<<"u">>) = 1 /\ <<"u">>[1] = "u"
          BY DEF Piece
        <5>2. \A i \in 1..Len(<<"u">>) : <<"u">>[i] # "S"
          <6>1. \A i \in 1..Len(<<"u">>) : i = 1
            BY <5>1
          <6> QED
            BY <5>1, <6>1
        <5> QED
          BY <5>1, <5>2 DEF Text, Blocked
      <4> QED
        BY <4>1, <4>2
    <3>2. CASE now # None
      <4> HIDE DEF now
      <4>1. now \in Text
        BY <2>1, <3>2
      <4>2. \/ content = now \o <<"u">> \/ content = <<"u">> \o now
            \/ \E j \in DOMAIN now : now[j] \in {"S", "E"} /\ content = RemoveAt(now, j)
        BY <2>2, <3>2
      <4> QED
        BY <4>1, <4>2, UserWrites, UserDeletes
    <3> QED
      BY <3>1, <3>2
  <2> QED
    BY <1>3, <2>3 DEF OfKind
<1>4. CASE KindOf(path) = "own"
  <2>1. [marked |-> FALSE, body |-> "u"] \in Own
    BY DEF Own
  <2>2. content \in {None, [marked |-> FALSE, body |-> "u"]}
          \cup (IF now = None THEN {} ELSE {[now EXCEPT !.body = "u"]})
    BY <1>4 DEF Edited
  <2>3. now # None => now \in Own
    BY <1>1, <1>4 DEF OfKind
  <2>4. now # None => [now EXCEPT !.body = "u"] \in Own
    BY <2>3 DEF Own
  <2>5. content = None \/ content \in Own
    BY <2>1, <2>2, <2>4
  <2> QED
    BY <1>4, <2>5 DEF OfKind
<1> QED
  BY <1>1, <1>2, <1>3, <1>4 DEF Kinds

-----------------------------------------------------------------------------
(* The steps.                                                              *)
AgentsInv == FilesInv /\ CommandInv

LEMMA FilesStay ==
  ASSUME FilesInv, DOMAIN file' = Paths,
         \A path \in Paths : file'[path] = file[path] \/ OfKind(KindOf(path), file'[path]),
         version' \in {1, 2}, edits' \in Nat
  PROVE  FilesInv'
<1>1. \A path \in Paths : OfKind(KindOf(path), file'[path])
  BY DEF FilesInv
<1> QED
  BY <1>1 DEF FilesInv

(* What has changed since the plan is in stale.                            *)
LEMMA CommandStays ==
  ASSUME CommandInv, command' = command, Changes
  PROVE  CommandInv'
<1> SUFFICES ASSUME command # None, NEW path \in DOMAIN command
             PROVE  /\ path \in Paths /\ OfKind(KindOf(path), command[path])
                    /\ path \notin stale' => Keeps(path, file'[path], command[path])
  BY DEF CommandInv
<1>1. /\ path \in Paths /\ OfKind(KindOf(path), command[path])
      /\ path \notin stale => Keeps(path, file[path], command[path])
  BY DEF CommandInv
<1>2. stale' = stale \cup {q \in Paths : file'[q] # file[q]}
  BY DEF Changes
<1>3. path \notin stale' => path \notin stale /\ file'[path] = file[path]
  BY <1>1, <1>2
<1> QED
  BY <1>1, <1>3

LEMMA AppliedIs ==
  ASSUME NEW writes, NEW failed, NEW path \in Paths
  PROVE  \/ applyAgentSetup(writes, failed)[path] = file[path]
         \/ path \in DOMAIN writes /\ applyAgentSetup(writes, failed)[path] = writes[path]
BY DEF applyAgentSetup

LEMMA AppliedDomain ==
  ASSUME NEW writes, NEW failed
  PROVE  DOMAIN applyAgentSetup(writes, failed) = Paths
BY DEF applyAgentSetup

(* Files that a plan of this very state was written to, some of them.      *)
LEMMA GoodStep ==
  ASSUME FilesInv, DOMAIN file' = Paths, version' = version, edits' = edits, command' = command,
         \A path \in Paths : file'[path] = file[path] \/ Good(path, file'[path])
  PROVE  FilesInv' /\ KeepsContent
<1>1. FilesInv'
  <2>1. version' \in {1, 2} /\ edits' \in Nat
    BY DEF FilesInv
  <2>2. \A path \in Paths : file'[path] = file[path] \/ OfKind(KindOf(path), file'[path])
    BY DEF Good
  <2> QED
    BY <2>1, <2>2, FilesStay
<1>2. KeepsContent
  BY DEF KeepsContent, Good, Unseen
<1> QED
  BY <1>1, <1>2

LEMMA AgentsInitInv ==
  ASSUME Agent \subseteq KnownAgents, Init
  PROVE  AgentsInv
<1>1. PICK json \in [PathsOf("json") -> Contents("json")] :
        \E block \in [PathsOf("block") -> Contents("block")], mine \in [PathsOf("own") -> Contents("own")] :
          file = [path \in Paths |-> CASE KindOf(path) = "json" -> json[path]
                                     [] KindOf(path) = "block" -> block[path]
                                     [] KindOf(path) = "own" -> mine[path]]
  BY DEF Init
<1>2. PICK block \in [PathsOf("block") -> Contents("block")], mine \in [PathsOf("own") -> Contents("own")] :
        file = [path \in Paths |-> CASE KindOf(path) = "json" -> json[path]
                                     [] KindOf(path) = "block" -> block[path]
                                     [] KindOf(path) = "own" -> mine[path]]
  BY <1>1
<1>3. \A path \in Paths : KindOf(path) \in {"json", "block", "own"}
  BY PathKinds DEF Kinds
<1>4. DOMAIN file = Paths
  BY <1>2
<1>5. ASSUME NEW path \in Paths PROVE OfKind(KindOf(path), file[path])
  <2>1. CASE KindOf(path) = "json"
    <3>1. path \in PathsOf("json")
      BY <2>1 DEF PathsOf
    <3>2. file[path] = json[path]
      BY <1>2, <2>1
    <3>3. json[path] \in Contents("json")
      BY <3>1
    <3>4. json[path] = None \/ json[path] \in Json
      BY <3>3, JsonFacts DEF Contents
    <3> QED
      BY <2>1, <3>2, <3>4 DEF OfKind
  <2>2. CASE KindOf(path) = "block"
    <3>1. path \in PathsOf("block")
      BY <2>2 DEF PathsOf
    <3>2. file[path] = block[path]
      BY <1>2, <2>2
    <3>3. block[path] \in {None, <<"u">>}
      BY <3>1 DEF Contents
    <3>4. <<"u">> \in Text
      <4>1. <<"u">> \in Seq(Piece) /\ Len(<<"u">>) = 1 /\ <<"u">>[1] = "u"
        BY DEF Piece
      <4>2. \A i \in 1..Len(<<"u">>) : <<"u">>[i] # "S"
        <5>1. \A i \in 1..Len(<<"u">>) : i = 1
          BY <4>1
        <5> QED
          BY <4>1, <5>1
      <4> QED
        BY <4>1, <4>2 DEF Text, Blocked
    <3> QED
      BY <2>2, <3>2, <3>3, <3>4 DEF OfKind
  <2>3. CASE KindOf(path) = "own"
    <3>1. path \in PathsOf("own")
      BY <2>3 DEF PathsOf
    <3>2. file[path] = mine[path]
      BY <1>2, <2>3
    <3>3. mine[path] = None
      BY <3>1 DEF Contents
    <3> QED
      BY <3>2, <3>3 DEF OfKind
  <2> QED
    BY <1>3, <2>1, <2>2, <2>3
<1>6. version = 1 /\ edits = 0 /\ command = None
  BY DEF Init
<1> QED
  BY <1>4, <1>5, <1>6 DEF AgentsInv, FilesInv, CommandInv

LEMMA RunsKeeps ==
  ASSUME Agent \subseteq KnownAgents, Distinct, AgentsInv,
         NEW p \in Project, NEW transport \in {"stdio", "http"}, NEW selected, RunsAtOnce(p, transport, selected)
  PROVE  AgentsInv' /\ KeepsContent
<1> DEFINE targets == UNION {Targets(a, p) : a \in selected}
           w == Writes(planAgentSetup(p, transport), targets)
<1>1. PICK failed : file' = applyAgentSetup(w, failed)
  BY DEF RunsAtOnce, Selected
<1>2. \A path \in DOMAIN w : path \in Paths /\ Good(path, w[path])
  BY WritesAreGood DEF AgentsInv
<1> HIDE DEF w
<1>3. \A path \in Paths : file'[path] = file[path] \/ Good(path, file'[path])
  BY <1>1, <1>2, AppliedIs
<1>4. DOMAIN file' = Paths
  BY <1>1, AppliedDomain
<1>5. Changes /\ version' = version /\ command' = command /\ edits' = edits
  BY DEF RunsAtOnce
<1>6. FilesInv' /\ KeepsContent
  BY <1>3, <1>4, <1>5, GoodStep DEF AgentsInv
<1>7. CommandInv'
  BY <1>5, CommandStays DEF AgentsInv
<1> QED
  BY <1>6, <1>7 DEF AgentsInv

LEMMA AsksKeeps ==
  ASSUME Agent \subseteq KnownAgents, Distinct, AgentsInv,
         NEW p \in Project, NEW transport \in {"stdio", "http"}, NEW selected, Asks(p, transport, selected)
  PROVE  AgentsInv' /\ KeepsContent
<1> DEFINE targets == UNION {Targets(a, p) : a \in selected}
           w == Writes(planAgentSetup(p, transport), targets)
<1>1. /\ command' = w /\ file' = file /\ version' = version /\ edits' = edits /\ stale' = unread
  BY DEF Asks, Selected
<1>2. \A path \in DOMAIN w : path \in Paths /\ Good(path, w[path])
  BY WritesAreGood DEF AgentsInv
<1> HIDE DEF w
<1>3. CommandInv'
  BY <1>1, <1>2 DEF CommandInv, Good
<1>4. FilesInv'
  BY <1>1 DEF AgentsInv, FilesInv
<1>5. KeepsContent
  BY <1>1 DEF KeepsContent
<1> QED
  BY <1>3, <1>4, <1>5 DEF AgentsInv

LEMMA AnsweredKeeps ==
  ASSUME AgentsInv, Answered
  PROVE  AgentsInv' /\ KeepsContent
<1>1. PICK failed : file' = applyAgentSetup(command, failed)
  BY DEF Answered
<1>2. command # None /\ command' = None /\ version' = version /\ edits' = edits
  BY DEF Answered
<1>3. \A path \in DOMAIN command :
        /\ path \in Paths /\ OfKind(KindOf(path), command[path])
        /\ path \notin stale => Keeps(path, file[path], command[path])
  BY <1>2 DEF AgentsInv, CommandInv
<1>4. \A path \in Paths : file'[path] = file[path] \/ (path \in DOMAIN command /\ file'[path] = command[path])
  BY <1>1, AppliedIs
<1>5. DOMAIN file' = Paths
  BY <1>1, AppliedDomain
<1>6. FilesInv'
  <2>1. \A path \in Paths : file'[path] = file[path] \/ OfKind(KindOf(path), file'[path])
    BY <1>3, <1>4
  <2>2. version' \in {1, 2} /\ edits' \in Nat /\ FilesInv
    BY <1>2 DEF AgentsInv, FilesInv
  <2> QED
    BY <1>5, <2>1, <2>2, FilesStay
<1>7. KeepsContent
  BY <1>2, <1>3, <1>4 DEF KeepsContent, Unseen
<1>8. CommandInv'
  BY <1>2 DEF CommandInv
<1> QED
  BY <1>6, <1>7, <1>8 DEF AgentsInv

LEMMA RefreshesKeeps ==
  ASSUME Agent \subseteq KnownAgents, Distinct, AgentsInv, Refreshes
  PROVE  AgentsInv' /\ KeepsContent
<1> DEFINE plan(p) == planAgentSetup(p, "stdio")
           wired == {p \in Project : isWired(plan(p))}
           inProject(p) == {t.path : t \in TargetsOf(p)}
           w(p) == Writes(plan(p), Refreshed(p, plan(p)))
<1>1. PICK failed :
        file' = [path \in Paths |->
                   IF \E p \in wired : path \in inProject(p)
                   THEN LET p == CHOOSE q \in wired : path \in inProject(q)
                        IN  refreshAgentSetup(p, plan(p), failed)[path]
                   ELSE file[path]]
  BY DEF Refreshes
<1>2. Changes /\ version' = version /\ command' = command /\ edits' = edits
  BY DEF Refreshes
<1>3. ASSUME NEW path \in Paths
      PROVE  file'[path] = file[path] \/ \E p \in Project : file'[path] = applyAgentSetup(w(p), failed)[path]
  <2>1. CASE \E p \in wired : path \in inProject(p)
    <3> DEFINE p == CHOOSE q \in wired : path \in inProject(q)
    <3>1. p \in wired
      BY <2>1
    <3>2. file'[path] = refreshAgentSetup(p, plan(p), failed)[path]
      BY <1>1, <2>1
    <3> HIDE DEF p
    <3> QED
      BY <3>1, <3>2 DEF refreshAgentSetup
  <2>2. CASE ~\E p \in wired : path \in inProject(p)
    BY <1>1, <2>2
  <2> QED
    BY <2>1, <2>2
<1>4. \A p \in Project : \A path \in DOMAIN w(p) : path \in Paths /\ Good(path, w(p)[path])
  BY WritesAreGood DEF AgentsInv
<1> HIDE DEF w
<1>5. \A path \in Paths : file'[path] = file[path] \/ Good(path, file'[path])
  BY <1>3, <1>4, AppliedIs
<1>6. DOMAIN file' = Paths
  BY <1>1
<1>7. FilesInv' /\ KeepsContent
  BY <1>2, <1>5, <1>6, GoodStep DEF AgentsInv
<1>8. CommandInv'
  BY <1>2, CommandStays DEF AgentsInv
<1> QED
  BY <1>7, <1>8 DEF AgentsInv

LEMMA EditsKeeps ==
  ASSUME Agent \subseteq KnownAgents, AgentsInv, NEW path \in Paths, Edits(path)
  PROVE  AgentsInv' /\ KeepsContent
<1>1. PICK content \in Edited(path) : file' = [file EXCEPT ![path] = content]
  BY DEF Edits
<1>2. Changes /\ version' = version /\ command' = command /\ edits' = edits + 1
  BY DEF Edits
<1>3. DOMAIN file = Paths /\ edits \in Nat /\ version \in {1, 2}
  BY DEF AgentsInv, FilesInv
<1>4. OfKind(KindOf(path), content)
  BY EditedIs DEF AgentsInv
<1>5. DOMAIN file' = Paths
  BY <1>1, <1>3
<1>6. \A q \in Paths : file'[q] = file[q] \/ OfKind(KindOf(q), file'[q])
  BY <1>1, <1>3, <1>4
<1>7. version' \in {1, 2} /\ edits' \in Nat /\ edits' # edits
  BY <1>2, <1>3
<1>8. FilesInv'
  BY <1>5, <1>6, <1>7, FilesStay DEF AgentsInv
<1>9. CommandInv'
  BY <1>2, CommandStays DEF AgentsInv
<1> QED
  BY <1>7, <1>8, <1>9 DEF AgentsInv, KeepsContent

LEMMA AgentsNextInv ==
  ASSUME Agent \subseteq KnownAgents, Distinct, AgentsInv, [Next]_vars
  PROVE  AgentsInv' /\ [KeepsContent]_vars
<1>1. CASE UNCHANGED vars
  BY <1>1 DEF vars, AgentsInv, FilesInv, CommandInv
<1>2. ASSUME NEW p \in Project, NEW selected \in SUBSET Agent \ {{}}, NEW transport \in {"stdio", "http"},
             RunsAtOnce(p, transport, selected)
      PROVE  AgentsInv' /\ KeepsContent
  BY <1>2, RunsKeeps
<1>3. ASSUME NEW p \in Project, NEW selected \in SUBSET Agent \ {{}}, NEW transport \in {"stdio", "http"},
             Asks(p, transport, selected)
      PROVE  AgentsInv' /\ KeepsContent
  BY <1>3, AsksKeeps
<1>4. CASE Answered
  BY <1>4, AnsweredKeeps
<1>5. CASE Refused
  <2>1. command' = None /\ file' = file /\ version' = version /\ edits' = edits
    BY <1>5 DEF Refused
  <2> QED
    BY <2>1 DEF AgentsInv, FilesInv, CommandInv, KeepsContent
<1>6. CASE Refreshes
  BY <1>6, RefreshesKeeps
<1>7. CASE Upgrades
  <2>1. version' = 2 /\ file' = file /\ command' = command /\ stale' = stale /\ edits' = edits
    BY <1>7 DEF Upgrades
  <2> QED
    BY <2>1 DEF AgentsInv, FilesInv, CommandInv, KeepsContent
<1>8. ASSUME NEW path \in Paths, Edits(path)
      PROVE  AgentsInv' /\ KeepsContent
  BY <1>8, EditsKeeps
<1>9. CASE CannotBeRead
  <2>1. UNCHANGED <<file, version, command, stale>> /\ edits' \in Nat
    BY <1>9 DEF CannotBeRead, AgentsInv, FilesInv
  <2> QED
    BY <2>1 DEF AgentsInv, FilesInv, CommandInv, KeepsContent
<1> HIDE DEF AgentsInv, KeepsContent
<1> QED
  BY <1>1, <1>2, <1>3, <1>4, <1>5, <1>6, <1>7, <1>8, <1>9 DEF Next

-----------------------------------------------------------------------------
(* A refresh: what is of loctx in the project is of this version after it. *)
LEMMA RefreshBrings ==
  ASSUME Agent \subseteq KnownAgents, Distinct, FilesInv
  PROVE  Restamps
<1> SUFFICES ASSUME unread = {}, NEW p \in Project
             PROVE  LET plan == planAgentSetup(p, "stdio")
                        after == refreshAgentSetup(p, plan, {})
                    IN  /\ \A a \in Agent : AgentWired(plan, a) => \A t \in Targets(a, p) : HasRules(after, t)
                        /\ \A path \in PathsOf("json") : after[path] = file[path]
  BY DEF Restamps
<1> DEFINE plan == planAgentSetup(p, "stdio")
           targets == Refreshed(p, plan)
           w == Writes(plan, targets)
           after == refreshAgentSetup(p, plan, {})
           body == Body(version)
<1>1. after = [path \in Paths |-> IF path \in DOMAIN w THEN w[path] ELSE file[path]]
  BY DEF refreshAgentSetup, applyAgentSetup
<1>2. /\ \A path \in DOMAIN w :
           \E a \in Agent : \E t \in targets \cap Targets(a, p) :
             /\ t.path = path /\ Render(t, file[path], "stdio").action # "skip"
             /\ w[path] = Render(t, file[path], "stdio").content
      /\ \A a \in Agent : \A t \in targets \cap Targets(a, p) :
           Render(t, file[t.path], "stdio").action # "skip" => t.path \in DOMAIN w
  <2>1. \A path : readMaybe(path) = file[path]
    BY DEF readMaybe
  <2> HIDE DEF w, plan, targets
  <2> QED
    BY <2>1, WritesAre DEF w, plan
<1>3. \A t \in targets : t.purpose # "mcp"
  BY DEF Refreshed
<1>4. \A a \in Agent : AgentWired(plan, a) => \A t \in Targets(a, p) : t.purpose # "mcp" => t \in targets
  BY DEF Refreshed
<1> HIDE DEF w, after, targets, plan
<1>5. ASSUME NEW path \in PathsOf("json") PROVE after[path] = file[path]
  <2>1. path \in Paths /\ KindOf(path) = "json"
    BY DEF PathsOf
  <2>2. path \notin DOMAIN w
    BY <1>2, <1>3, <2>1, TargetFacts
  <2> QED
    BY <1>1, <2>1, <2>2
<1>6. ASSUME NEW a \in Agent, AgentWired(plan, a), NEW t \in Targets(a, p)
      PROVE  HasRules(after, t)
  <2> DEFINE content == file[t.path]
             render == Render(t, content, "stdio")
  <2>1. /\ t.path \in Paths /\ KindOf(t.path) \in Kinds
        /\ t.purpose = "mcp" <=> KindOf(t.path) = "json"
    BY TargetFacts
  <2>2. OfKind(KindOf(t.path), content) /\ body \in Bodies
    BY <2>1, BodyIs DEF FilesInv
  <2>3. CASE KindOf(t.path) = "json"
    BY <2>3 DEF HasRules
  <2>4. ASSUME KindOf(t.path) # "json"
        PROVE  after[t.path] = IF render.action = "skip" THEN content ELSE render.content
    <3>1. t \in targets
      BY <1>4, <1>6, <2>1, <2>4
    <3>2. t.path \in DOMAIN w =>
            \E u : u.path = t.path /\ Render(u, content, "stdio").action # "skip"
                   /\ w[t.path] = Render(u, content, "stdio").content
      BY <1>2
    <3>3. \A u : u.path = t.path => Render(u, content, "stdio") = render
      BY DEF Render
    <3>4. t.path \in DOMAIN w => render.action # "skip" /\ w[t.path] = render.content
      BY <3>2, <3>3
    <3>5. render.action # "skip" => t.path \in DOMAIN w
      BY <1>2, <3>1
    <3> HIDE DEF render
    <3> QED
      BY <1>1, <2>1, <3>4, <3>5
  <2>5. CASE KindOf(t.path) = "block"
    <3>1. render = upsertMarkerBlock(content, body)
      BY <2>5 DEF Render
    <3>2. content = None \/ content \in Text
      BY <2>2, <2>5 DEF OfKind
    <3>3. IF render.action = "skip" THEN HasBlock(content, body) ELSE HasBlock(render.content, body)
      BY <2>2, <3>1, <3>2, UpsertKeeps DEF Distinct
    <3>4. HasBlock(after[t.path], body)
      BY <2>4, <2>5, <3>3
    <3> QED
      BY <2>5, <3>4 DEF HasRules, HasBlock
  <2>6. CASE KindOf(t.path) = "own"
    <3>1. render = standaloneFile(content, body)
      BY <2>6 DEF Render
    <3>2. content = None \/ content \in Own
      BY <2>2, <2>6 DEF OfKind
    <3>3. IF render.action = "skip" THEN content # None /\ (content.marked => content.body = body)
          ELSE render.content # None /\ render.content.body = body
      BY <2>2, <3>1, <3>2, StandaloneKeeps DEF Distinct
    <3>4. after[t.path] # None /\ (after[t.path].marked => after[t.path].body = body)
      BY <2>4, <2>6, <3>3
    <3> QED
      BY <2>6, <3>4 DEF HasRules
  <2> QED
    BY <2>1, <2>3, <2>5, <2>6 DEF Kinds
<1> QED
  BY <1>5, <1>6 DEF plan, after

(* The merges are non-destructive (writers.ts:6-8), for any projects and   *)
(* any of the agents, of every file whose content loctx has seen: what is  *)
(* the user's stays, but by his own edits.  A JSON whose root, or whose    *)
(* section of servers, is no object is not among what stays.               *)
THEOREM MergesAreNonDestructive ==
  ASSUME Agent \subseteq KnownAgents, Distinct
  PROVE  Spec => UserContentKept
<1>1. Init => AgentsInv
  BY AgentsInitInv
<1>2. AgentsInv /\ [Next]_vars => AgentsInv' /\ [KeepsContent]_vars
  BY AgentsNextInv
<1> QED
  BY <1>1, <1>2, PTL DEF Spec, UserContentKept

(* A refresh leaves every agent that was wired with the rules of this      *)
(* version, and everybody's server entry as it is (setup.ts:153-161).      *)
THEOREM RefreshRestamps ==
  ASSUME Agent \subseteq KnownAgents, Distinct
  PROVE  Spec => []Restamps
<1>1. Init => AgentsInv
  BY AgentsInitInv
<1>2. AgentsInv /\ [Next]_vars => AgentsInv'
  BY AgentsNextInv
<1>3. AgentsInv => Restamps
  BY RefreshBrings DEF AgentsInv
<1> QED
  BY <1>1, <1>2, <1>3, PTL DEF Spec
=============================================================================
