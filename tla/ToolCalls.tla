------------------------------ MODULE ToolCalls ------------------------------
(***************************************************************************)
(* What the two transports of the tools share (packages/core/src/          *)
(* tool-inputs.ts, and runSemanticDuplicates of container.ts): the parsing *)
(* of a search, and find_duplicates over MCP and over HTTP.                *)
(*                                                                         *)
(* A field as it was sent is Absent or [is, value]: a "string" by its      *)
(* length once trimmed, a "number" by its halves, a "boolean", or "other". *)
(***************************************************************************)
EXTENDS Quality

CONSTANTS
  MemberClamp,  \* the largest min_members of HTTP
  Bounds,       \* TOOL_INPUT_BOUNDS: query, language, path, limitMin, limitMax, limitDefault
  Absent

-----------------------------------------------------------------------------
Ok(value) == [ok |-> TRUE, value |-> value]
Bad == [ok |-> FALSE, value |-> None]

requiredString(raw, max) ==
  IF raw # Absent /\ raw.is = "string" /\ raw.value \in 1..max THEN Ok(raw.value) ELSE Bad

optionalString(raw, max) ==
  IF raw = Absent THEN Ok(None)
  ELSE IF raw.is # "string" \/ raw.value > max THEN Bad
  ELSE Ok(IF raw.value = 0 THEN None ELSE raw.value)

(* Of a number, the next integer towards zero.                             *)
Trunc(halves) == IF halves < 0 THEN 0 - ((0 - halves) \div 2) ELSE halves \div 2

boundedInt(raw) ==
  IF raw = Absent THEN Ok(Bounds.limitDefault)
  ELSE IF raw.is # "number" THEN Bad
  ELSE IF Trunc(raw.value) \in Bounds.limitMin..Bounds.limitMax THEN Ok(Trunc(raw.value)) ELSE Bad

Coverage_(raw) ==
  IF raw = Absent THEN Ok(FALSE) ELSE IF raw.is # "boolean" THEN Bad ELSE Ok(raw.value)

(* The fields in the order they are looked at; the error names the first   *)
(* that is not as it should be.                                            *)
Fields == <<"query", "limit", "language", "coverage", "path">>

Field(data, f) ==
  CASE f = "query" -> requiredString(data.query, Bounds.query)
    [] f = "limit" -> boundedInt(data.limit)
    [] f = "language" -> optionalString(data.language, Bounds.language)
    [] f = "coverage" -> Coverage_(data.coverage)
    [] f = "path" -> optionalString(data.path, Bounds.path)

parseSearchToolInput(data) ==
  LET wrong == SelectSeq(Fields, LAMBDA f : ~Field(data, f).ok) IN
  IF wrong # <<>> THEN [error |-> Head(wrong)]
  ELSE [error |-> None, input |-> [f \in ToSet(Fields) |-> Field(data, f).value]]

-----------------------------------------------------------------------------
(* An index is its exact windows [project, file, hash, line] and its chunks*)
(* [project, file, license, kind] in the order of a scan; chunks of a kind *)
(* are alike.  config: [exact, semantic, cap, store].                      *)
AtLeastTwo(n) == IF n < 2 THEN 2 ELSE n

FirstOf(s, n) == SubSeq(s, 1, IF n < Len(s) THEN n ELSE Len(s))

Similarities(chunks) ==
  [p \in {q \in (DOMAIN chunks) \X (DOMAIN chunks) : q[1] < q[2]} |->
     IF chunks[p[1]].kind = chunks[p[2]].kind THEN 90 ELSE 80]

(* Slip: the scan has no row more than the cap.                            *)
ScanToCap(index, project, cap) == FirstOf(SelectSeq(index.chunks, LAMBDA c : project \in {None, c.project}), cap)

scanChunks(index, project, cap) ==
  FirstOf(SelectSeq(index.chunks, LAMBDA c : project \in {None, c.project}), cap + 1)

runSemanticDuplicates(index, config, project, minMembers) ==
  LET scanned == scanChunks(index, project, config.cap)
      usable == SelectSeq(FirstOf(scanned, config.cap), LAMBDA c : ~c.license)
      chunks == [i \in DOMAIN usable |-> [file |-> usable[i].file, usable |-> TRUE]]
      groups == SemanticGroups(chunks, Similarities(usable), 85, AtLeastTwo(minMembers), 10)
  IN  IF ~config.semantic THEN [groups |-> None, disabled |-> "off", partial |-> FALSE]
      ELSE IF ~config.store THEN [groups |-> None, disabled |-> "unavailable", partial |-> FALSE]
      ELSE [groups |-> [k \in DOMAIN groups |-> {usable[i].file : i \in groups[k].all}],
            disabled |-> None,
            partial |-> Len(scanned) > config.cap]

(* findDuplicateGroups, of a project or of all.                            *)
ExactGroups(index, project, minMembers) ==
  DuplicateGroups({[file |-> w.file, hash |-> w.hash, line |-> w.line] :
                     w \in {x \in index.windows : project \in {None, x.project}}},
                  AtLeastTwo(minMembers))

Answer(index, config, project, exactMin, semanticMin) ==
  [groups |-> ExactGroups(index, project, exactMin),
   disabled |-> ~config.exact,
   semantic |-> runSemanticDuplicates(index, config, project, semanticMin)]

McpDuplicates(index, config, project, minMembers) ==
  Answer(index, config, project, AtLeastTwo(minMembers), minMembers)

Clamped(n) == IF AtLeastTwo(n) > MemberClamp THEN MemberClamp ELSE AtLeastTwo(n)

ApiDuplicates(index, config, project, minMembers) ==
  LET n == Clamped(minMembers) IN Answer(index, config, project, n, n)

-----------------------------------------------------------------------------
(* A search is run only within the bounds and rejected otherwise, never    *)
(* changed: a caller's error must not look like an empty result            *)
(* (tool-inputs.ts:11-15).  The error is of the first field that is wrong; *)
(* text that is only blanks is no text at all, also for a path.            *)
Blank == [is |-> "string", value |-> 0]

SearchIsBounded(data) ==
  LET parsed == parseSearchToolInput(data)
      wrong == IF data.query \in {Absent, Blank} \/ data.query.is # "string" \/ data.query.value > Bounds.query THEN "query"
               ELSE IF data.limit # Absent /\ (data.limit.is # "number"
                      \/ data.limit.value < 2 * Bounds.limitMin \/ data.limit.value >= 2 * (Bounds.limitMax + 1)) THEN "limit"
               ELSE IF data.language # Absent /\ (data.language.is # "string" \/ data.language.value > Bounds.language) THEN "language"
               ELSE IF data.coverage # Absent /\ data.coverage.is # "boolean" THEN "coverage"
               ELSE IF data.path # Absent /\ (data.path.is # "string" \/ data.path.value > Bounds.path) THEN "path"
               ELSE None
  IN  /\ parsed.error = wrong
      /\ wrong = None =>
           /\ data.limit # Absent => parsed.input.limit * 2 \in {data.limit.value - 1, data.limit.value}
           /\ (parsed.input.path = None) = (data.path \in {Absent, Blank})
           /\ (parsed.input.language = None) = (data.language \in {Absent, Blank})

(* find_duplicates says the same over MCP and over HTTP of a project; for  *)
(* more members than HTTP can ask for, what MCP says is among its answer.  *)
SurfacesAgree(index, config, project, minMembers) ==
  LET mcp == McpDuplicates(index, config, project, minMembers)
      api == ApiDuplicates(index, config, project, minMembers)
      spread(groups) == {g \in ToSet(groups) : Cardinality(FilesOf(g)) >= minMembers}
  IN  /\ minMembers <= MemberClamp => mcp = api
      /\ mcp.disabled = api.disabled /\ mcp.semantic.disabled = api.semantic.disabled
      /\ mcp.semantic.partial = api.semantic.partial
      /\ Len(api.groups) < MaxGroups => spread(api.groups) \subseteq ToSet(mcp.groups)

(* "the two surfaces cannot drift" (container.ts:841-844).                 *)
SurfacesSame(index, config, project, minMembers) ==
  McpDuplicates(index, config, project, minMembers) = ApiDuplicates(index, config, project, minMembers)

(* The near-duplicates are those of a complete scan exactly when nothing is*)
(* said of a cap: `a corpus of exactly cap chunks is a complete scan'      *)
(* (container.ts:869); of such a scan the widest groups are told.          *)
TruncationIsTold(index, config, project, minMembers) ==
  LET answer == runSemanticDuplicates(index, config, project, minMembers)
      own == {c \in ToSet(index.chunks) : project \in {None, c.project}}
      held == Len(SelectSeq(index.chunks, LAMBDA c : project \in {None, c.project}))
      alike(kind) == {c.file : c \in {d \in own : d.kind = kind /\ ~d.license}}
      wide == {kind \in {c.kind : c \in own} : Cardinality(alike(kind)) >= AtLeastTwo(minMembers)}
      told == ToSet(answer.groups)
  IN  answer.disabled = None =>
        /\ answer.partial = (held > config.cap)
        /\ ~answer.partial =>
             /\ told \subseteq {alike(kind) : kind \in wide}
             /\ Len(answer.groups) = IF Cardinality(wide) < SemanticCap THEN Cardinality(wide) ELSE SemanticCap
             /\ \A S \in told, kind \in wide :
                  alike(kind) \in told \/ Cardinality(S) >= Cardinality(alike(kind))

(* "no silent caps" (semantic-duplicates.ts:17-20): a group that is left   *)
(* out is told of.                                                         *)
NoSilentCap(index, config, project, minMembers) ==
  LET answer == runSemanticDuplicates(index, config, project, minMembers)
      own == {c \in ToSet(index.chunks) : project \in {None, c.project} /\ ~c.license}
      files(kind) == {c.file : c \in {d \in own : d.kind = kind}}
  IN  answer.disabled = None /\ ~answer.partial =>
        \A c \in own : Cardinality(files(c.kind)) >= AtLeastTwo(minMembers) =>
                       files(c.kind) \in ToSet(answer.groups)
=============================================================================
