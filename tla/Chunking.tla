-------------------------------- MODULE Chunking --------------------------------
(***************************************************************************)
(* How a file is cut into chunks (packages/core/src/chunking): by fixed    *)
(* windows of lines, by the top-level nodes of its parse tree, or by its   *)
(* markdown sections; and what is learnt from the tree of a chunk.         *)
(*                                                                         *)
(* A document is its lines.  Of a line the chunkers look at whether it is  *)
(* empty, a heading, a fence or a rule; of a node at its first and last    *)
(* line and its type.  A call stands for everything extractSymbolRefs      *)
(* finds on a line, and is named by that line.                             *)
(***************************************************************************)
EXTENDS Naturals, Sequences, FiniteSets, SequencesExt

CONSTANTS
  FallbackWindow,   \* windowLines and overlapLines of the chunkers:
  GapWindow,        \*   for whole files, for gaps between nodes,
  CapWindow,        \*   for nodes that are too long
  SectionWindow,    \*   and for sections that are
  GapThreshold,     \* GAP_THRESHOLD_LINES
  HardMax           \* HARD_MAX_LINES

Windows == [window : Nat \ {0}, overlap : Nat]

ASSUME ChunkingAssumption ==
  /\ {FallbackWindow, GapWindow, CapWindow, SectionWindow} \subseteq Windows
  /\ \A w \in {FallbackWindow, GapWindow, CapWindow, SectionWindow} : w.overlap < w.window
  /\ GapThreshold \in Nat \ {0}
  /\ HardMax \in Nat /\ CapWindow.window < HardMax /\ GapWindow.window <= HardMax

Least(a, b) == IF a < b THEN a ELSE b

-----------------------------------------------------------------------------
(* The ranges of n lines: a window starts a step after the one before it,  *)
(* and the last is the first that reaches line n.                          *)
WindowRanges(n, w) ==
  LET step == w.window - w.overlap
      count == IF n <= w.window THEN 1 ELSE 1 + (n - w.window + step - 1) \div step
  IN  [k \in 1..count |-> <<(k - 1) * step + 1, Least((k - 1) * step + w.window, n)>>]

(* The lines from..to of a document: a last line that is empty is dropped. *)
LineWindows(from, to, empty, w) ==
  LET n == IF to > from /\ to \in empty THEN to - from ELSE to - from + 1
      ranges == WindowRanges(n, w)
  IN  [k \in 1..Len(ranges) |-> <<from + ranges[k][1] - 1, from + ranges[k][2] - 1>>]

-----------------------------------------------------------------------------
(* A source file: total lines, the empty ones, the lines with a call, and  *)
(* its top-level nodes in source order; parsed is FALSE when there is no   *)
(* grammar for it or the parser throws.                                    *)
CallsIn(doc, from, to) == doc.calls \cap from..to

(* Chunks whose references carry the line numbers of the text parsed.      *)
WindowChunk(doc, range, kind, base) ==
  [first |-> range[1], last |-> range[2], kind |-> kind, def |-> 0, imports |-> {},
   refs |-> {[call |-> l, line |-> l - base] : l \in CallsIn(doc, range[1], range[2])}]

Fallback(doc) ==
  IF doc.total = 0 THEN <<>>
  ELSE LET ranges == LineWindows(1, doc.total, doc.empty, FallbackWindow)
       IN  [k \in 1..Len(ranges) |->
             [WindowChunk(doc, ranges[k], "window", 0) EXCEPT !.refs = {}]]

ChunkFromNode(doc, i) ==
  LET node == doc.nodes[i] IN
  [first |-> node.first, last |-> node.last, kind |-> "node", def |-> i, imports |-> {},
   refs |-> {[call |-> l, line |-> l] : l \in CallsIn(doc, node.first, node.last)}]

(* The lines of the import statements, none of which is a chunk.           *)
FileLevelImports(doc) ==
  {doc.nodes[i].first : i \in {j \in DOMAIN doc.nodes : doc.nodes[j].type = "import"}}

WithFileImports(chunks, imports) == [chunks EXCEPT ![1].imports = imports]

(* A range long enough and not all empty is cut into windows, each parsed  *)
(* by itself: its references count lines from its first.                   *)
ChunkLineRange(doc, from, to) ==
  IF from..to \subseteq doc.empty THEN <<>>
  ELSE LET ranges == LineWindows(from, to, doc.empty, GapWindow)
       IN  [k \in 1..Len(ranges) |->
             WindowChunk(doc, ranges[k], "window-fill", ranges[k][1] - 1)]

Gap(doc, from, to) ==
  IF to + 1 < from + GapThreshold THEN <<>> ELSE ChunkLineRange(doc, from, to)

(* The first line no chunk before the k-th covers.                         *)
Cursor(chunks, k) ==
  LET ends == {chunks[j].last : j \in 1..(k - 1)} IN
  IF ends = {} THEN 1 ELSE 1 + (CHOOSE e \in ends : \A f \in ends : f <= e)

(* The nodes come in source order, so the result is sorted already.        *)
FillCoverageGaps(doc, chunks) ==
  FlattenSeq([k \in 1..Len(chunks) |->
                Gap(doc, Cursor(chunks, k), chunks[k].first - 1) \o <<chunks[k]>>])
    \o Gap(doc, Cursor(chunks, Len(chunks) + 1), doc.total)

(* The first part keeps kind, symbols and references of the whole.         *)
Parts(c, ranges) ==
  [k \in 1..Len(ranges) |->
    IF k = 1 THEN [c EXCEPT !.last = ranges[1][2]]
    ELSE [first |-> ranges[k][1], last |-> ranges[k][2], kind |-> "window",
          def |-> 0, imports |-> {}, refs |-> {}]]

CapChunkSizes(doc, chunks) ==
  FlattenSeq([k \in 1..Len(chunks) |->
    LET c == chunks[k]
        ranges == LineWindows(c.first, c.last, doc.empty, CapWindow)
    IN  IF c.last - c.first + 1 <= HardMax \/ Len(ranges) <= 1 THEN <<c>> ELSE Parts(c, ranges)])

CodeChunks(doc) ==
  LET chunkable == FlattenSeq([i \in 1..Len(doc.nodes) |->
                                 IF doc.nodes[i].type = "chunkable" THEN <<i>> ELSE <<>>])
      chunks == [k \in 1..Len(chunkable) |-> ChunkFromNode(doc, chunkable[k])]
  IN  IF ~doc.parsed \/ chunks = <<>> THEN Fallback(doc)
      ELSE CapChunkSizes(doc, FillCoverageGaps(doc, WithFileImports(chunks, FileLevelImports(doc))))

-----------------------------------------------------------------------------
(* Markdown: a sequence of lines, each a heading or "text", "empty",       *)
(* "fence" (``` or ~~~) or "rule" (---).  No heading is without text.      *)
Depth == [h1 |-> 1, h2 |-> 2, h3 |-> 3]
IsHeading(line) == line \in DOMAIN Depth

FrontmatterEnd(lines) ==
  LET closing == {i \in 2..Len(lines) : lines[i] = "rule"} IN
  IF Len(lines) = 0 \/ lines[1] # "rule" \/ closing = {} THEN 0
  ELSE CHOOSE i \in closing : \A j \in closing : i <= j

(* The heading at line i; 0 is a hole, of a depth that was skipped.        *)
Push(stack, depth, i) ==
  [d \in 1..depth |-> IF d = depth THEN i ELSE IF d <= Len(stack) THEN stack[d] ELSE 0]

(* The headings that are there.                                            *)
HeadingPath(stack) == SelectSeq(stack, LAMBDA h : h # 0)

(* One line: a heading outside a fence opens a section, the first with all *)
(* that is above it, and any other line extends the section that is open.  *)
ScanLine(lines, s, i) ==
  LET fence == IF lines[i] = "fence" THEN ~s.fence ELSE s.fence
      stack == Push(s.stack, Depth[lines[i]], i)
  IN  IF ~fence /\ IsHeading(lines[i])
      THEN [fence |-> fence, stack |-> stack,
            out |-> Append(s.out, [first |-> IF s.out = <<>> THEN 1 ELSE i, last |-> i,
                                   path |-> HeadingPath(stack)])]
      ELSE [s EXCEPT !.fence = fence,
                     !.out = IF @ = <<>> THEN @ ELSE [@ EXCEPT ![Len(@)].last = i]]

SplitIntoSections(lines) ==
  LET first == FrontmatterEnd(lines) + 1
      body == [k \in 1..(Len(lines) + 1 - first) |-> first + k - 1]
  IN  FoldLeft(LAMBDA s, i : ScanLine(lines, s, i),
               [fence |-> FALSE, stack |-> <<>>, out |-> <<>>], body).out

(* A section, or the windows of a long one, under the same heading path.   *)
MaterializeSection(section, empty) ==
  LET ranges == LineWindows(section.first, section.last, empty, SectionWindow)
  IN  IF section.last - section.first + 1 <= SectionWindow.window THEN <<section>>
      ELSE [k \in 1..Len(ranges) |->
             [first |-> ranges[k][1], last |-> ranges[k][2], path |-> section.path]]

(* Without a heading the file is cut into windows.                         *)
MarkdownChunks(lines) ==
  LET n == Len(lines)
      empty == {i \in 1..n : lines[i] = "empty"}
      sections == SplitIntoSections(lines)
      whole == LineWindows(1, n, empty, SectionWindow)
  IN  IF n = 0 THEN <<>>
      ELSE IF sections = <<>>
      THEN [k \in 1..Len(whole) |-> [first |-> whole[k][1], last |-> whole[k][2], path |-> <<>>]]
      ELSE FlattenSeq([k \in 1..Len(sections) |-> MaterializeSection(sections[k], empty)])

-----------------------------------------------------------------------------
(***************************************************************************)
(* What is learnt from the parse tree of a chunk (analyzer.ts): the        *)
(* references find_usages looks up, and the metadata that ranks and        *)
(* describes the chunk.                                                    *)
(*                                                                         *)
(* A tree is its nodes in source order, each with its depth; the first is  *)
(* the chunk's root.  A node's name is the text of the field that names    *)
(* it: of a definition its identifier, of an import its module, of a call  *)
(* its callee without what is before the last dot; 0 is a missing field.   *)
(***************************************************************************)

(* The node types the extractors tell apart, per language.                 *)
Profile ==
  [python |-> [nests |-> {"function", "class", "loop", "branch"}, members |-> {"function"},
               exports |-> {}],
   typescript |-> [nests |-> {"function", "class", "member", "loop", "branch"},
                   members |-> {"member"}, exports |-> {"export"}],
   rust |-> [nests |-> {"function", "impl", "loop", "branch"}, members |-> {"function"},
             exports |-> {}]]

Nests(language, type) == type \in Profile[language].nests

(* The children of node i: one deeper, with none as shallow in between.    *)
Children(t, i) ==
  {j \in (i + 1)..Len(t) : t[j].depth = t[i].depth + 1 /\ \A k \in (i + 1)..j : t[k].depth > t[i].depth}

Inside(t, i) == {j \in (i + 1)..Len(t) : \A k \in (i + 1)..j : t[k].depth > t[i].depth}

Ref(t, i, kind) == [symbol |-> t[i].name, kind |-> kind, line |-> t[i].line]

First(S) == IF S = {} THEN 0 ELSE CHOOSE i \in S : \A j \in S : i <= j

-----------------------------------------------------------------------------
Declarators(t, i) == {j \in Children(t, i) : t[j].type = "declarator" /\ t[j].name # 0}

FirstDeclaratorName(t, i) ==
  IF Declarators(t, i) = {} THEN 0 ELSE t[First(Declarators(t, i))].name

(* The name of definition i, or that of its first declarator.              *)
DirectName(t, i) ==
  IF t[i].type \in {"function", "class", "member"} THEN t[i].name
  ELSE IF t[i].type = "lexical" THEN FirstDeclaratorName(t, i) ELSE 0

(* Slip: wrappers have no name.                                            *)
RootNameOnly(t) == DirectName(t, 1)

(* The root's name; that of an export or a decorated definition is the     *)
(* first its children have.                                                *)
FindDefName(t) ==
  LET named == {j \in Children(t, 1) : DirectName(t, j) # 0} IN
  IF DirectName(t, 1) # 0 THEN DirectName(t, 1)
  ELSE IF t[1].type \in {"export", "decorated"} /\ named # {} THEN DirectName(t, First(named)) ELSE 0

(* Every import and call, and the members below the root.                  *)
WalkRefs(t, language) ==
  {Ref(t, i, t[i].type) : i \in {j \in 1..Len(t) : t[j].type \in {"import", "call"} /\ t[j].name # 0}}
    \cup {Ref(t, i, "def") : i \in {j \in 2..Len(t) : t[j].type \in Profile[language].members /\ t[j].name # 0}}

ExtractSymbolRefs(t, language) ==
  WalkRefs(t, language) \cup
  IF FindDefName(t) = 0 THEN {} ELSE {[symbol |-> FindDefName(t), kind |-> "def", line |-> t[1].line]}

(* The symbols stored with the chunk: its own name, or that of what it     *)
(* decorates.                                                              *)
ExtractSymbols(t) ==
  LET inner == {j \in Children(t, 1) : t[j].type \in {"function", "class"}} IN
  (IF t[1].type = "decorated" THEN IF inner = {} THEN {} ELSE {t[First(inner)].name}
   ELSE IF t[1].type \in {"function", "class", "member"} THEN {t[1].name} ELSE {}) \ {0}

-----------------------------------------------------------------------------
(* What one export statement exports: what it declares, and the            *)
(* specifiers of `export { A, B as C }`.                                   *)
ExportedNames(t, i) ==
  LET declared == {j \in Children(t, i) : t[j].type \in {"function", "class", "lexical"}}
      decl == First(declared)
      names == IF decl = 0 THEN {} ELSE {decl} \cup Declarators(t, decl)
      specifiers == {j \in Inside(t, i) : t[j].type = "specifier"}
  IN  {t[j].name : j \in {k \in names \cup specifiers : t[k].type # "lexical"}} \ {0}

(* The walk leaves the nodes that do not hold node i and enters it.        *)
Enter(t, language, s, i) ==
  LET stays == {j \in s.open : t[j].depth < t[i].depth} IN
  [s EXCEPT
    !.open = stays \cup {i},
    !.nesting = @ - Cardinality({j \in s.open \ stays : Nests(language, t[j].type)})
                  + IF Nests(language, t[i].type) THEN 1 ELSE 0,
    !.loop = @ - Cardinality({j \in s.open \ stays : t[j].type = "loop"})
               + IF t[i].type = "loop" THEN 1 ELSE 0]

Walk(t, language) ==
  FoldLeft(LAMBDA s, i :
             LET e == Enter(t, language, s, i) IN
             [e EXCEPT !.maxNesting = IF e.nesting > @ THEN e.nesting ELSE @,
                       !.maxLoop = IF e.loop > @ THEN e.loop ELSE @],
           [open |-> {}, nesting |-> 0, loop |-> 0, maxNesting |-> 0, maxLoop |-> 0],
           [i \in 1..Len(t) |-> i])

(* The calls of risky categories are those among them.                     *)
ExtractAnalyzer(t, language) ==
  LET walked == Walk(t, language)
      named(type) == {t[i].name : i \in {j \in 1..Len(t) : t[j].type = type}} \ {0}
  IN  [imports |-> named("import"), calls |-> named("call"),
       exports |-> UNION {ExportedNames(t, i) :
                            i \in {j \in 1..Len(t) : t[j].type \in Profile[language].exports}},
       maxNestingDepth |-> walked.maxNesting, maxLoopDepth |-> walked.maxLoop]

-----------------------------------------------------------------------------
Covered(chunks) == UNION {chunks[k].first..chunks[k].last : k \in DOMAIN chunks}

(* "every line of source ends up in some chunk": a line that does not is   *)
(* empty or lies between nodes in a stretch below the threshold, whatever  *)
(* the windows and however the nodes lie.                                  *)
EveryLineChunked(doc, chunks) ==
  LET nodes == IF doc.parsed THEN {i \in DOMAIN doc.nodes : doc.nodes[i].type = "chunkable"} ELSE {}
      inNode == UNION {doc.nodes[i].first..doc.nodes[i].last : i \in nodes}
      stretch(l) == {m \in 1..doc.total : (Least(l, m)..(IF l < m THEN m ELSE l)) \cap inNode = {}}
  IN  \A l \in (1..doc.total) \ (Covered(chunks) \cup doc.empty) :
        nodes # {} /\ Cardinality(stretch(l)) < GapThreshold

(* Whatever is cut out of a parsed file is at most HardMax lines long, in  *)
(* file order, and each definition is told by exactly one chunk, the       *)
(* imports by at most one: a second would double find_usages.              *)
DefinitionsOnce(doc, chunks) ==
  /\ \A k \in DOMAIN chunks : chunks[k].last - chunks[k].first < HardMax
  /\ \A k \in 2..Len(chunks) : chunks[k - 1].first <= chunks[k].first
  /\ \A k \in DOMAIN chunks, j \in DOMAIN chunks :
       k # j => /\ chunks[k].def = chunks[j].def => chunks[k].def = 0
                /\ chunks[k].imports = {} \/ chunks[j].imports = {}
  /\ (\E k \in DOMAIN chunks : chunks[k].def # 0) =>
       /\ {chunks[k].def : k \in DOMAIN chunks} \ {0} =
            {i \in DOMAIN doc.nodes : doc.nodes[i].type = "chunkable"}
       /\ UNION {chunks[k].imports : k \in DOMAIN chunks} = FileLevelImports(doc)

(* A chunk's id is made of its lines and its text (chunkIdFor) and         *)
(* INSERT OR IGNORE drops the second of two: only definitions that share   *)
(* one line lose their row to one another.                                 *)
IdsDiffer(doc, chunks) ==
  \A k \in DOMAIN chunks, j \in DOMAIN chunks :
    k < j /\ chunks[k].first = chunks[j].first /\ chunks[k].last = chunks[j].last =>
      /\ chunks[k].def # 0 /\ chunks[j].def # 0
      /\ chunks[k].first = chunks[k].last

(* "Coordinates are absolute file lines (1-based) so consumers can jump    *)
(* straight to the source."                                                *)
RefsAreAbsolute(chunks) ==
  \A k \in DOMAIN chunks : \A r \in chunks[k].refs : r.line = r.call

(* Every line of a markdown file is in a chunk, but for an empty one at    *)
(* the end of a section or file that is cut; lines are repeated only       *)
(* inside one section.                                                     *)
SectionsCover(lines, chunks) ==
  /\ \A l \in (1..Len(lines)) \ Covered(chunks) : lines[l] = "empty"
  /\ \A k \in DOMAIN chunks, j \in DOMAIN chunks :
       k < j /\ chunks[j].first <= chunks[k].last =>
         chunks[k].path = chunks[j].path /\ chunks[k].last - chunks[j].first < SectionWindow.overlap

(* A chunk's heading path is the chain of headings it is under: each, of   *)
(* every depth up to its own, the nearest above with none shallower in     *)
(* between, and none of them inside a fence or the frontmatter.            *)
UnderItsHeadings(lines, chunks) ==
  LET after == FrontmatterEnd(lines)
      fences(i) == Cardinality({j \in (after + 1)..i : lines[j] = "fence"})
      headings == {i \in (after + 1)..Len(lines) : IsHeading(lines[i]) /\ fences(i) % 2 = 0}
      encloses(h, g) == h = g \/ (h < g /\ \A m \in headings \cap (h + 1)..g : Depth[lines[h]] < Depth[lines[m]])
  IN  \A k \in DOMAIN chunks :
        LET above == {h \in headings : h <= chunks[k].last}
            own == CHOOSE h \in above : \A m \in above : m <= h
        IN  IF headings = {} THEN chunks[k].path = <<>>
            ELSE above # {} => Range(chunks[k].path) = {h \in headings : encloses(h, own)}

-----------------------------------------------------------------------------
(* "depth>0 ensures we don't double-emit a def for the root itself": a     *)
(* definition is one def reference, except that a decorated one is told    *)
(* twice, at its decorator and at itself.                                  *)
DefinedOnce(t, language, refs) ==
  \A i \in 1..Len(t) :
    t[i].type \in {"function", "class", "member"} /\ t[1].type # "decorated" =>
      Cardinality({r \in refs : r.kind = "def" /\ r.symbol = t[i].name}) <= 1

(* Whatever an exported declaration declares first, and every member of a  *)
(* class or impl, find_usages finds the definition of: a chunk's exports   *)
(* and its definitions are collected by two walks.                         *)
ExportsAreDefined(t, language, refs, analyzer) ==
  LET defined == {r.symbol : r \in {x \in refs : x.kind = "def"}} IN
  /\ ExtractSymbols(t) \subseteq defined
  /\ \A i \in 2..Len(t) : t[i].type \in Profile[language].members /\ t[i].name # 0 => t[i].name \in defined
  /\ t[1].type \in Profile[language].exports /\ analyzer.exports # {}
       /\ (\A i \in 2..Len(t) : t[i].type # "specifier") =>
     analyzer.exports \cap defined # {}

(* The depths are those of the deepest node: its ancestors and itself.     *)
DepthsAreTrue(t, language, analyzer) ==
  LET path(i) == {j \in 1..i : j = i \/ i \in Inside(t, j)}
      nesting(i) == Cardinality({j \in path(i) : Nests(language, t[j].type)})
      loops(i) == Cardinality({j \in path(i) : t[j].type = "loop"})
  IN  /\ \A i \in 1..Len(t) : nesting(i) <= analyzer.maxNestingDepth /\ loops(i) <= analyzer.maxLoopDepth
      /\ \E i \in 1..Len(t) : nesting(i) = analyzer.maxNestingDepth
      /\ \E i \in 1..Len(t) : loops(i) = analyzer.maxLoopDepth
=============================================================================
