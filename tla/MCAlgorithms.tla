------------------------------ MODULE MCAlgorithms ------------------------------
(***************************************************************************)
(* The pure algorithms.  Every call is one state: what was asked, on every *)
(* small input, and sometimes its answer.                                  *)
(***************************************************************************)
EXTENDS Chunking, Eligibility, Retrieval, ToolCalls, Config, Evaluation

VARIABLE call
MCFallback == [window |-> 3, overlap |-> 1]
MCGap == [window |-> 4, overlap |-> 1]
MCSection == [window |-> 2, overlap |-> 1]

NoCall == [op |-> "none"]

(* What the next call is about.                                            *)
Topics == {"chunking", "rules", "search", "queries", "analysis", "config", "evaluation", "tools"}
About(t) == [op |-> "about", topic |-> t]

-----------------------------------------------------------------------------
(* Files of Total lines with up to three nodes.                            *)
Total == 7
Spans == {s \in (1..Total) \X (1..Total) : s[1] <= s[2]}
Layouts ==
  {<<>>} \cup {<<a>> : a \in Spans} \cup {l \in Spans \X Spans : l[1][2] <= l[2][1]}
    \cup {l \in Spans \X Spans \X Spans : l[1][2] <= l[2][1] /\ l[2][2] <= l[3][1] /\ l[3][2] >= 6}
NodesOf(l, types) == [k \in 1..Len(l) |-> [first |-> l[k][1], last |-> l[k][2], type |-> types[k]]]
Between(l) == {i \in 1..Total : \A k \in DOMAIN l : i \notin l[k][1]..l[k][2]}
Empties(l) ==
  IF Len(l) > 1 THEN {{}, Between(l)} ELSE {e \in SUBSET Between(l) : Cardinality(e) <= 2} \cup {Between(l)}

CallChunkCode ==
  \E l \in Layouts, parsed \in BOOLEAN :
    \E types \in [1..Len(l) -> {"chunkable", "import", "other"}], e \in Empties(l) :
      /\ \A k \in DOMAIN l : types[k] = "import" => l[k][1] = l[k][2]
      /\ ~parsed => Len(l) = 0
      /\ LET doc == [total |-> Total, parsed |-> parsed, nodes |-> NodesOf(l, types),
                     empty |-> e, calls |-> (1..Total) \ e]
         IN  call' = [op |-> "code", doc |-> doc, out |-> CodeChunks(doc)]

CallChunkMarkdown ==
  \E n \in 0..5 : \E lines \in [1..n -> {"text", "empty", "fence", "rule", "h1", "h2", "h3"}] :
    call' = [op |-> "markdown", lines |-> lines, out |-> MarkdownChunks(lines)]

-----------------------------------------------------------------------------
Roots == [python |-> {"function", "class", "decorated"},
          typescript |-> {"function", "class", "lexical", "export"}, rust |-> {"function", "impl"}]
Below == [python |-> {"function", "class", "call", "loop", "branch"},
          typescript |-> {"function", "class", "member", "lexical", "declarator", "specifier", "call", "loop"},
          rust |-> {"function", "call", "import", "loop"}]
Depths == {d \in [1..4 -> 0..3] : d[1] = 0 /\ \A i \in 1..3 : d[i + 1] \in 1..(d[i] + 1)}
Parent(d, i) == CHOOSE j \in 1..(i - 1) : d[j] = d[i] - 1 /\ \A k \in (j + 1)..i : d[k] > d[j]
Holds ==
  [export |-> {"function", "class", "lexical", "specifier"}, lexical |-> {"declarator"},
   decorated |-> {"call", "function", "class"}, declarator |-> {"function", "call"},
   specifier |-> {}, call |-> {"function"}, import |-> {}, impl |-> {"function"}]

CallExtract ==
  \E language \in DOMAIN Profile, d \in Depths : \E n \in 1..4 :
    \E root \in Roots[language], types \in [2..n -> Below[language]], unnamed \in SUBSET {1, n} :
      LET type(i) == IF i = 1 THEN root ELSE types[i]
          t == [i \in 1..n |-> [type |-> type(i), depth |-> d[i], line |-> i,
                                name |-> IF i \in unnamed THEN 0 ELSE i]]
      IN  /\ \A i \in unnamed : type(i) = "function"
          /\ \A i \in 2..n : LET p == type(Parent(d, i)) IN
               IF p \in DOMAIN Holds THEN type(i) \in Holds[p]
               ELSE type(i) \notin {"declarator", "specifier"}
          /\ call' = [op |-> "extract", tree |-> t, language |-> language,
                      refs |-> ExtractSymbolRefs(t, language), out |-> ExtractAnalyzer(t, language)]

-----------------------------------------------------------------------------
UpTo1(S) == {<<>>} \cup {<<x>> : x \in S}
Patterns(names, signs) == [name : names, negate : signs, below : {FALSE}]
Paths ==
  {<<"vendor", "a">>} \cup UNION {[1..n -> {"a", "b", ".claude"}] : n \in 2..3}
Nested ==
  {<<>>} \cup
  UNION {[dirs -> {<<p>> : p \in Patterns({"a", "b"}, BOOLEAN)}] :
           dirs \in SUBSET {<<"a">>, <<"a", "a">>, <<"vendor">>}}

CallIgnores ==
  \E global \in UpTo1(Patterns({"a", ".claude"}, {FALSE})),
     project \in UpTo1(Patterns({"a", "b", ".claude"}, BOOLEAN)),
     nested \in Nested, path \in Paths :
    LET r == [global |-> global, project |-> project, nested |-> nested] IN
    /\ Cardinality(DOMAIN nested) <= 2
    /\ call' = [op |-> "ignores", rules |-> r, path |-> path]

Overrides == [add : {{}} \cup {{k} : k \in ListKeys}, remove : {{}} \cup {{k} : k \in ListKeys}]
Traits ==
  {{"symlink", "follow"}} \cup
  {{t} : t \in {"plain", "outside", "root", "subpath", "in ignored dir", "gitignored", "ignored name",
                "symlink", "missing", "no file", "unreadable", "large", "binary"}}

CallFilter ==
  \/ \E defaults \in SUBSET ListKeys, overrides \in UpTo1(Overrides) \cup [1..2 -> Overrides] :
       /\ Len(overrides) = 2 => defaults \in {{"secret"}, {"noise", "ext"}, {"named", "bare"}}
       /\ LET merged == LoadFilteringRules(defaults, overrides) IN
          call' = [op |-> "filter", traits |-> {}, defaults |-> defaults, overrides |-> overrides,
                   merged |-> merged]
  \/ \E traits \in Traits, lists \in SUBSET ListKeys :
       call' = [op |-> "filter", traits |-> traits \ {"plain"}, defaults |-> lists,
                overrides |-> <<>>, merged |-> lists]

-----------------------------------------------------------------------------
Tree == [ws |-> Above, a |-> "ws", b |-> "a", c |-> "b", nm |-> "ws", pkg |-> "nm", out |-> Above]
ASSUME TreeAssumption == Above \notin DOMAIN Tree

Groupings == {{}, {"build"}, {"ide", "git"}}

CallDiscover ==
  \E marks \in [DOMAIN Tree -> Groupings], roots \in {{"ws"}, {"ws", "b"}, {"a", "nm"}} :
    /\ marks["out"] = {} /\ marks["nm"] # {"build"} /\ marks["c"] # {"ide", "git"}
    /\ call' = [op |-> "discover",
                w |-> [dirs |-> DOMAIN Tree, parent |-> Tree, roots |-> roots, marks |-> marks,
                       skipped |-> {"nm"}]]

CallInventory ==
  \E hits \in SUBSET {"ws", "a", "b"}, dirs \in SUBSET {"ws", "a", "b", "out"} :
    \E known \in SUBSET {"a", "b", "out"} : \E rows \in [known -> BOOLEAN] :
      call' = [op |-> "inventory", hits |-> hits, rows |-> rows, dirs |-> dirs]

(* No wildcard, one in the names of a and b, one in that of a file.        *)
Likes == {{}, {<<"ws", "a", Above, "nm">>, <<"ws", "b", Above, "pkg">>}, {<<"ws", "ws", "f", "nm">>}}
CallScope ==
  \E marks \in [DOMAIN Tree -> {{}, {"ide", "git"}}], active \in SUBSET {"ws", "a", "b"},
     d \in DOMAIN Tree, file \in {Above, "f"}, like \in Likes :
    /\ marks["out"] = {} /\ marks["nm"] = {} /\ marks["pkg"] = {}
    /\ call' = [op |-> "scope", active |-> active, dir |-> d, file |-> file,
                w |-> [dirs |-> DOMAIN Tree, parent |-> Tree, roots |-> {"ws"}, marks |-> marks,
                       skipped |-> {}, like |-> like]]

-----------------------------------------------------------------------------
(* Two branches over four chunks, the metadata of which names two terms.   *)
MCWeight == [reason |-> 12, authority |-> 4, definition |-> 20, derivative |-> 16]
Chunks == {"p", "q", "r", "s"}
Branches == {b \in UNION {[1..n -> Chunks] : n \in 0..3} : IsInjective(b)}
ASSUME BranchesAssumption == MaxRank >= 3
Meta(exports, calls, qualities, headings, inbound, derivative) ==
  [exports |-> exports, imports |-> {}, calls |-> calls, qualities |-> qualities,
   headings |-> headings, inbound |-> inbound, derivative |-> derivative]
Metas ==
  {Meta({}, {}, {}, {}, 0, FALSE), Meta({"t"}, {}, {}, {}, 0, FALSE), Meta({}, {"t"}, {"risk"}, {}, 0, FALSE),
   Meta({"u"}, {}, {}, {"t"}, 2, TRUE)}

CallSearch ==
  \E vector \in Branches, lexical \in {<<>>, <<"p", "q", "r">>, <<"s", "p">>}, limit \in 1..3 :
    \E p, q \in Metas, s \in {Meta({}, {}, {}, {}, 0, FALSE), Meta({}, {}, {}, {}, 1, FALSE)} :
      LET metas == [p |-> p, q |-> q, r |-> Meta({}, {}, {}, {}, 0, FALSE), s |-> s]
      IN  call' = [op |-> "search", vector |-> vector, lexical |-> lexical, metas |-> metas, limit |-> limit,
                   out |-> Search(vector, lexical, metas, {"t", "risk"}, limit)]

CallExpand ==
  \E results \in Branches, users \in [{"p", "q"} -> {<<>>, <<"r">>, <<"q", "s">>, <<"s", "p", "s">>}], cap \in 1..4 :
    LET usersOf == [c \in Chunks |-> IF c \in DOMAIN users THEN users[c] ELSE <<"p">>] IN
    call' = [op |-> "expand", results |-> results, usersOf |-> usersOf, cap |-> cap,
             out |-> ExpandCoverage(results, usersOf, cap)]

CallPick ==
  \E fns \in UNION {[1..n -> {[from |-> s[1], to |-> s[2]] : s \in {x \in Spans : x[2] <= 5}}] : n \in 0..2},
     chunk \in {<<2, 4>>, <<1, 3>>} :
    call' = [op |-> "pick", fns |-> fns, from |-> chunk[1], to |-> chunk[2],
             out |-> PickOverlapping(fns, chunk[1], chunk[2])]

MCLimits == [lines |-> 2, exports |-> 1, params |-> 1, depth |-> 2, ccn |-> 1, fanOut |-> 1]
MCDimensions ==
  [security |-> [weight |-> 25, half |-> 15, stored |-> {"s"}, live |-> {}],
   duplication |-> [weight |-> 20, half |-> 30, stored |-> {}, live |-> {"d"}],
   documentation |-> [weight |-> 15, half |-> 30, stored |-> {"r"}, live |-> {"l"}]]
MCGain == <<1000, 631, 500, 431>>

UpTo(n, S) == UNION {[1..k -> S] : k \in 0..n}

-----------------------------------------------------------------------------
FileMetas == {[exports |-> e, imports |-> {}, params |-> p, depth |-> d] : e \in {{}, {"x", "y"}}, p \in {1, 2}, d \in {1, 2}}
CallFile ==
  \E n \in {2, 3}, m \in [1..2 -> FileMetas \cup {None}] :
    \E fns \in UpTo(2, [from : {1, 3}, to : {3}, ccn : {1, 2}, params : {1, 2}]) \cup {None}, cap \in {0, 2, 3} :
      call' = [op |-> "file", cap |-> cap,
               doc |-> [file |-> 1, lines |-> n, lizard |-> fns,
                        chunks |-> <<[from |-> 1, to |-> 2, meta |-> m[1]], [from |-> 3, to |-> 3, meta |-> m[2]]>>]]

Findings == {Finding(x, r, s, 1) : x \in {1, 2}, r \in {"a", "b"}, s \in {1, 3}}
Entries ==
  {{}, {[rule |-> "*", files |-> {1}, reason |-> TRUE]}, {[rule |-> "a", files |-> {1, 2}, reason |-> TRUE]},
   {[rule |-> "a", files |-> {1}, reason |-> FALSE]}}
CallReport ==
  \E found \in UpTo(3, Findings), entries \in Entries, old \in {None, {<<"a", 1>>}}, indexed \in {{1}, {1, 2}} :
    call' = [op |-> "report", found |-> [k \in DOMAIN found |-> [found[k] EXCEPT !.line = k]],
             entries |-> entries, old |-> old, indexed |-> indexed]

CallHealth ==
  \E findings \in UpTo(2, [file : {1}, rule : {"s", "d", "r", "l", "x"}, severity : {1, 3}, line : {1}]),
     files \in 0..3, stored \in BOOLEAN :
    call' = [op |-> "health", findings |-> findings, files |-> files, stored |-> stored]

CallWindows ==
  \E windows \in SUBSET [file : 1..3, hash : {1, 2}, line : 1..3] :
    /\ \A v, w \in windows : v.file = w.file /\ v.line = w.line => v = w
    /\ \A h \in {1, 2} : Cardinality({w \in windows : w.hash = h}) <= 3 + h
    /\ call' = [op |-> "windows", windows |-> windows]

CallGroups ==
  \E n \in {3, 4} :
    \E files \in [1..n -> 1..3], sims \in [{p \in (1..n) \X (1..n) : p[1] < p[2]} -> {80, 90, 95}], bad \in {0, 2}, max \in {1, 3} :
      LET chunks == [i \in 1..n |-> [file |-> files[i], usable |-> i # bad]]
      IN  /\ n = 4 => files[1] = 1 /\ files[2] <= 2
          /\ \A p \in DOMAIN sims : files[p[1]] = files[p[2]] => sims[p] = 80
          /\ \A p \in DOMAIN sims : sims[p] = 95 => p = <<3, 4>>
          /\ call' = [op |-> "groups", chunks |-> chunks, sims |-> sims, max |-> max,
                      out |-> SemanticGroups(chunks, sims, 85, 2, max)]

CallScores ==
  \E prose \in [1..4 -> BOOLEAN], cohesion \in [1..4 -> {30, 50, 80}] :
    call' = [op |-> "scores", scores |-> {[file |-> i, prose |-> prose[i], cohesion |-> cohesion[i]] : i \in 1..4}]

Places == {"file", "missing", "outside"}
CallRefs ==
  \E refs \in SUBSET [home : {FALSE}, beside : Places, root : Places, suffix : {"file", "missing"}] :
    Cardinality(refs) <= 2 /\ call' = [op |-> "refs", refs |-> refs]

-----------------------------------------------------------------------------
Keys ==
  {<<"retrieval", "mode">>, <<"retrieval", "rrf_k">>, <<"network", "proxy">>, <<"astGrep", "enabled">>,
   <<"ast_grep", "command">>, <<"ast_grep", "enabled">>, <<"nowhere", "x">>, <<"indexing", "x">>,
   Bare("network"), Bare("astGrep"), Bare("analyzers")}
Held(k) ==
  CASE k[2] = "rrf_k" -> {Val("int", 0), Val("int", 60)} [] k[2] = "proxy" -> {Val("str", ""), Val("str", "p")}
    [] k[2] = NoText -> {Val("null", Null), Val("int", 0)}
    [] k[2] = "mode" -> {Val("str", "vector")} [] k[2] = "command" -> {Val("str", "c")} [] OTHER -> {Val("bool", FALSE)}
Asked ==
  {Val("int", 0), Val("int", 1), Val("int", 2000), Val("str", "vector"), Val("str", ""), Val("bool", FALSE)}
CallWrite ==
  \E held \in SUBSET Keys, named \in SUBSET {<<"retrieval", "rrf_k">>, <<"network", "proxy">>,
                                               <<"astGrep", "enabled">>, <<"nowhere", "x">>} :
    /\ Cardinality(held) <= 2 /\ Cardinality(named) \in 1..2
    /\ \A k \in held : \A s \in held \ {k} : s[2] = NoText => s[1] \notin Within(k[1])
    /\ \E file \in [held -> UNION {Held(k) : k \in held}], patch \in [named -> Asked] :
         /\ \A k \in held : file[k] \in Held(k)
         /\ call' = [op |-> "write", file |-> file, patch |-> patch]

CallField == \E f \in Schema : call' = [op |-> "field", f |-> f]

-----------------------------------------------------------------------------
(* The cut of the run, and the one behind it, have weights.                *)
ASSUME GainsAssumption == Len(Gain) >= 3

Lines == {<<1, 2>>, <<2, 4>>, <<3, 3>>}
Docs == [path : {"p"}, from : {1}, to : {2}] \cup [path : {"p"}, from : {2}, to : {4}] \cup [path : {"p"}, from : {3}, to : {3}]
          \cup [path : {"q"}, from : {1}, to : {2}]
Qrels == {[path |-> "p", from |-> l[1], to |-> l[2], grade |-> g] : l \in Lines, g \in 0..2}
CallScore ==
  \E ranked \in UpTo(3, Docs), qrels \in UpTo(2, Qrels), k \in {2} :
    call' = [op |-> "score", ranked |-> ranked, qrels |-> qrels, k |-> k]

CallValidate ==
  \E q \in Qrels, spans \in SUBSET {d \in Docs : d.path = "p"} :
    q.grade # 0 /\ call' = [op |-> "validate", q |-> q, spans |-> spans]

CallCorpus ==
  \E failed \in 1..7, closes \in BOOLEAN : call' = [op |-> "corpus", failed |-> failed, closes |-> closes]

-----------------------------------------------------------------------------
S == INSTANCE StoreQueries

Texts == {<<>>, <<"a">>, <<"A">>, <<"_">>, <<"\\">>, <<"a", "_">>}
CallLiteral ==
  \E path \in {<<"a", "/", "x">>, <<"A", "/", "x">>, <<"_", "/", "x">>, <<"a", "a", "/", "x">>, <<"x">>},
     lines \in Texts \X Texts, error \in BOOLEAN :
    \E pattern \in Texts \ {<<>>}, project \in {None, "p", "q"}, dir \in {<<>>, <<"a">>, <<"_">>} :
      call' = [op |-> "literal", pattern |-> pattern, project |-> project, dir |-> dir,
               chunks |-> {[project |-> "p", path |-> path, start |-> 3, lines |-> lines, error |-> error]}]

CallSuffix ==
  \E paths \in SUBSET {<<"a">>, <<"d", "/", "a">>, <<"e", "/", "d", "/", "a">>, <<"d", "/", "_">>, <<"d", "/", "A">>,
                       <<"d", "a">>},
     ref \in {<<"a">>, <<"_">>, <<"d", "/", "a">>, <<"d", "/", "_">>} :
    call' = [op |-> "suffix", paths |-> paths, ref |-> ref]

CallGaps ==
  \E shas \in [1..2 -> 1..2],
     rows \in SUBSET [file : 1..2, analyzer : {"x", "y"}, version : 1..2, sha : 1..2, status : {"complete"}],
     version \in 1..2 :
    /\ Cardinality(rows) <= 2
    /\ call' = [op |-> "gaps", files |-> {[id |-> f, sha |-> shas[f]] : f \in 1..2}, rows |-> rows, version |-> version]

CallFanIn ==
  \E refs \in SUBSET [symbol : {"s", "t"}, project : {"p"}, file : 1..3, line : 1..2, kind : {"def", "call"}] :
    /\ Cardinality(refs) <= 3
    /\ call' = [op |-> "fanIn", refs |-> refs \cup {[symbol |-> "s", project |-> "q", file |-> 4, line |-> 1, kind |-> "call"]}]

CallStats ==
  \E n \in 0..3 : \E rows \in [1..n -> [ext : {"x", "y"}, error : BOOLEAN, at : 1..2, chunks : {0, 2}]], limit \in 1..2 :
    call' = [op |-> "stats", limit |-> limit,
             files |-> {[path |-> i, ext |-> rows[i].ext, error |-> rows[i].error, at |-> rows[i].at,
                         chunks |-> rows[i].chunks] : i \in 1..n}]

CallRecent ==
  \E keys \in SUBSET ({"p", "q"} \X (1..4)) :
    call' = [op |-> "recent", rows |-> {[project |-> k[1], at |-> k[2], score |-> k[2]] : k \in keys}]

CallRoot ==
  \E paths \in SUBSET {<<"">> \o q : q \in UpTo(3, {"a", "b"})} :
    Cardinality(paths) <= 3 /\ call' = [op |-> "root", paths |-> paths]

-----------------------------------------------------------------------------
MCBounds == [query |-> 2, language |-> 1, path |-> 2, limitMin |-> 1, limitMax |-> 3, limitDefault |-> 2]

Other == [is |-> "other", value |-> 0]
Str(max) == {Absent, Other} \cup [is : {"string"}, value : {0, 1, max, max + 1}]
CallParse ==
  \E query \in Str(2), language \in Str(1), path \in Str(2),
     limit \in {Absent, Other} \cup [is : {"number"}, value : (0 - 2)..9],
     coverage \in {Absent, Other} \cup [is : {"boolean"}, value : BOOLEAN] :
    call' = [op |-> "parse", data |-> [query |-> query, limit |-> limit, language |-> language,
                                        coverage |-> coverage, path |-> path]]

Chunk == [project : {"p"}, file : 1..3, license : {FALSE}, kind : {"k", "l"}]
           \cup [project : {"p"}, file : 1..3, license : {TRUE}, kind : {"k"}]
CallDuplicates ==
  \E chunks \in UpTo(3, Chunk), other \in 0..1, cap \in 1..4, on \in {<<TRUE, TRUE>>, <<TRUE, FALSE>>, <<FALSE, TRUE>>},
     minMembers \in {0, 2, 3} :
    /\ on = <<TRUE, TRUE>> \/ Len(chunks) < 2
    /\ call' = [op |-> "duplicates",
                index |-> [windows |-> {[project |-> "p", file |-> f, hash |-> f \div 3, line |-> 1] : f \in 1..3},
                           chunks |-> [i \in 1..other |->
                             [project |-> "q", file |-> 9, license |-> FALSE, kind |-> "k"]] \o chunks],
                config |-> [exact |-> TRUE, semantic |-> on[1], cap |-> cap, store |-> on[2]],
                min |-> minMembers]

-----------------------------------------------------------------------------
D == INSTANCE Doctor

(* A host with nothing wrong, and what may be wrong of it, two at a time.  *)
Healthy ==
  [paths |-> [p \in {"dataDir", "configDir", "vectorDir", "logsDir"} |-> "dir"], daemon |-> TRUE,
   db |-> "good", fts |-> TRUE, errors |-> 0, markers |-> "found", local |-> TRUE, trusted |-> TRUE,
   projects |-> {[active |-> TRUE, reconciled |-> TRUE, pending |-> FALSE]}, inDaemon |-> TRUE,
   watchers |-> {"active"}, nofile |-> "enough", background |-> TRUE, lizard |-> "found",
   caCert |-> "default", proxy |-> FALSE, strictSsl |-> TRUE]
Faults ==
  [db |-> {"none", "damaged", "no projects", "no files"}, fts |-> {FALSE}, errors |-> {1},
   paths |-> {[Healthy.paths EXCEPT !["dataDir"] = s] : s \in {"none", "file", "denied"}},
   daemon |-> {FALSE}, markers |-> {"nothing", "throws"}, local |-> {FALSE}, trusted |-> {FALSE},
   projects |-> {{}} \cup {{p} : p \in [active : BOOLEAN, reconciled : BOOLEAN, pending : BOOLEAN]},
   inDaemon |-> {FALSE}, watchers |-> SUBSET {"active", "paused", "failed"}, nofile |-> {"low"},
   background |-> {FALSE}, lizard |-> {"off", "gone"}, caCert |-> {"there", "gone"}, proxy |-> {TRUE},
   strictSsl |-> {FALSE}]
CallDoctor ==
  \E f, g \in DOMAIN Faults : \E x \in Faults[f], y \in Faults[g] :
    LET h == [k \in DOMAIN Healthy |-> IF k = f THEN x ELSE IF k = g THEN y ELSE Healthy[k]] IN
    /\ h.db = "none" => h.fts
    /\ call' = [op |-> "doctor", h |-> h]

CallInstall ==
  \E m \in [python : BOOLEAN, venv : {"none", "half", "whole"}, ensurepip : BOOLEAN, online : BOOLEAN,
            platform : BOOLEAN, asset : {"none", "other", "whole"}, unzip : BOOLEAN,
            tools : SUBSET {"pip tool", "ast-grep"}], name \in {"lizard", "ast-grep"} :
    ("pip tool" \in m.tools => m.venv = "whole") /\ call' = [op |-> "install", m |-> m, name |-> name]

-----------------------------------------------------------------------------
Init == call = NoCall

Next ==
  \/ call = NoCall /\ \E t \in Topics : call' = About(t)
  \/ call = About("chunking") /\ (CallChunkCode \/ CallChunkMarkdown \/ CallExtract)
  \/ call = About("rules") /\ (CallIgnores \/ CallFilter \/ CallDiscover \/ CallInventory)
  \/ call = About("search") /\ (CallScope \/ CallSearch \/ CallExpand \/ CallPick)
  \/ call = About("queries") /\ (CallLiteral \/ CallSuffix \/ CallGaps \/ CallFanIn \/ CallStats
                                  \/ CallRecent \/ CallRoot)
  \/ call = About("analysis") /\ (CallFile \/ CallReport \/ CallHealth \/ CallWindows \/ CallGroups
                                   \/ CallScores \/ CallRefs)
  \/ call = About("config") /\ (CallWrite \/ CallField)
  \/ call = About("evaluation") /\ (CallScore \/ CallValidate \/ CallCorpus)
  \/ call = About("tools") /\ (CallParse \/ CallDuplicates \/ CallDoctor \/ CallInstall)
  \/ call.op \notin {"none", "about"} /\ call' = NoCall

Spec == Init /\ [][Next]_call

-----------------------------------------------------------------------------
(* Chunking: every line with text is in a chunk, a definition is told by   *)
(* one, no two share an id; the sections of a document cover it, each under*)
(* the headings above it; what a tree defines is told once, exports among  *)
(* it, and the depth told is the tree's.                                   *)
ChunksCoverFile ==
  /\ call.op = "code" => /\ EveryLineChunked(call.doc, call.out)
                         /\ DefinitionsOnce(call.doc, call.out)
                         /\ IdsDiffer(call.doc, call.out)
  /\ call.op = "markdown" => SectionsCover(call.lines, call.out) /\ UnderItsHeadings(call.lines, call.out)
  /\ call.op = "extract" => /\ DefinedOnce(call.tree, call.language, call.refs)
                            /\ ExportsAreDefined(call.tree, call.language, call.refs, call.out)
                            /\ DepthsAreTrue(call.tree, call.language, call.out)

(* Eligibility and Workspace: without negations the rules ignore what git  *)
(* ignores, the project's own come last, no override lets a secret in and  *)
(* the last file wins; projects do not contain one another, a path is      *)
(* resolved to one that is listed and inside the roots, and each is in one *)
(* bucket.                                                                 *)
RulesDecide ==
  /\ call.op = "ignores" => PositiveAsGit(call.rules, call.path) /\ ProjectHasLastWord(call.rules, call.path)
  /\ call.op = "filter" => /\ SecretsStayOut(call.traits, Finalize(call.merged))
                           /\ LastFileWins(call.defaults, call.overrides, call.merged)
  /\ call.op = "discover" => /\ ProjectsDisjoint(call.w) /\ ResolvesToListed(call.w)
                             /\ AcceptedStaysInside(call.w)
  /\ call.op = "inventory" => InventoryIsPartition(call.hits, call.rows, call.dirs)

(* Retrieval: a scope is the deepest active project and loses no row below *)
(* it, others come in by a wildcard alone; what ranks higher in both lists *)
(* ranks higher in the fusion, the cut to the limit keeps the best, the    *)
(* expansion adds no more than its cap, and the complexity told of a chunk *)
(* is of a function in it.                                                 *)
SearchIsFair ==
  /\ call.op = "scope" =>
       ScopeIsIndexed(call.w, call.active, call.dir,
                      {row \in [project : call.active, dir : DOMAIN Tree] :
                         PathUp(call.w, row.project, row.dir) # <<>>})
  /\ call.op = "search" =>
       /\ FusionIsMonotone(call.vector, call.lexical)
       /\ CutKeepsTheBest(call.vector, call.lexical, call.metas, {"t", "risk"}, call.limit, call.out)
  /\ call.op = "expand" => ExpansionIsBounded(call.results, call.usersOf, call.cap, call.out)
  /\ call.op = "pick" => PicksTheLargest(call.fns, call.from, call.to, call.out)

(* StoreQueries: a literal search finds its lines and no others, a         *)
(* reference is resolved at a directory's boundary, a gap of an analyzer is*)
(* closed by its result alone, the fan-in counts the files that            *)
(* find_usages shows, the page of a project adds up to its row, the score  *)
(* shown is the newest, the root left out is above every project.          *)
QueriesAreExact ==
  /\ call.op = "literal" => S!LiteralIsExact(call.chunks, call.pattern, call.project, call.dir)
  /\ call.op = "suffix" => S!SuffixResolves(call.paths, call.ref)
  /\ call.op = "gaps" => S!GapsClose(call.files, call.rows, "x", call.version)
  /\ call.op = "fanIn" => S!FanInAgrees(call.refs, "p")
  /\ call.op = "stats" => S!StatsAddUp(call.files, call.limit)
  /\ call.op = "recent" => S!RecentIsListed(call.rows)
  /\ call.op = "root" => S!CommonRootIsAbove(call.paths)

(* Quality: complexity results sharpen findings and lose none short of the *)
(* cap; a finding new since the baseline shows, and each is shown,         *)
(* suppressed or cut; another raises no score; equal windows of three files*)
(* are told, and groups are the components of the similar pairs, but for   *)
(* what the caps cut off, shown by as many files as can be; prose is       *)
(* compared with prose.                                                    *)
AnalysisIsHonest ==
  /\ call.op = "file" => UpgradeKeeps(call.doc, call.cap)
  /\ call.op = "report" =>
       /\ ReportAccounts(call.found, call.indexed, call.entries, call.old)
       /\ \A later \in Findings :
            RatchetHolds(call.found, call.indexed, call.entries, call.old, [later EXCEPT !.line = 9])
  /\ call.op = "health" =>
       \A r \in {"s", "d", "r", "l", "x"}, s \in {1, 3} :
         HealthIsHonest(call.findings, Finding(1, r, s, 2), call.files, call.stored)
  /\ call.op = "windows" => CandidatesComplete(call.windows)
  /\ call.op = "groups" => /\ GroupsAreComponents(call.chunks, call.sims, 85, call.out)
                           /\ SampleIsDiverse(call.chunks, call.out, call.max)
  /\ call.op = "scores" => FlagsAreOfTheirKind(call.scores, 2, 60)

(* Config: what is written is in effect after the next load, unless it is  *)
(* refused or names an empty section, and then nothing is; a patch leaves  *)
(* alone what it does not name, the schema and the mergers agree on every  *)
(* field.                                                                  *)
SettingsAreLoaded ==
  /\ call.op = "write" => WrittenIsUsed(call.file, call.patch) /\ PatchIsPartialByName(call.file, call.patch)
  /\ call.op = "field" => TablesAgree(call.f)

(* Evaluation: the measures stay within their bounds and order, a judgement*)
(* whose lines are gone is told, a step that fails leaves behind only what *)
(* its own function had taken.                                             *)
EvaluationIsFair ==
  /\ call.op = "score" => MeasuresAgree(call.ranked, call.qrels, call.k)
  /\ call.op = "validate" => RotIsUnscorable(call.q, call.spans)
  /\ call.op = "corpus" => LeavesNothing(call.failed, call.closes)

(* ToolCalls: a search is run within the bounds or rejected;               *)
(* find_duplicates is the same over MCP and HTTP as far as HTTP's clamp    *)
(* goes, and tells that a scan was cut if it was, and only then.  Doctor: a*)
(* report is whole whatever fails, it is good only if nothing is wrong, and*)
(* a second one says the same; a tool that is said to be installed is      *)
(* there.                                                                  *)
ToolsAgree ==
  /\ call.op = "parse" => SearchIsBounded(call.data)
  /\ call.op = "duplicates" =>
       /\ SurfacesAgree(call.index, call.config, "p", call.min)
       /\ \A p \in {"p", None} : TruncationIsTold(call.index, call.config, p, call.min)
  /\ call.op = "doctor" => D!ReportIsComplete(call.h) /\ D!SummaryIsHonest(call.h) /\ D!DoctorSettles(call.h)
  /\ call.op = "install" => D!InstalledIsThere(call.m, call.name)

-----------------------------------------------------------------------------
(* What the code does not keep; the README has the examples.  Chunking: a  *)
(* reference's line is the file's line, in windows too.                    *)
LinesOfRefs == call.op = "code" => RefsAreAbsolute(call.out)

(* Eligibility: negations in nested files do as git's.                     *)
NestedNegation == call.op = "ignores" => NestedAsGit(call.rules, call.path)

(* Retrieval: a search scoped to a file finds what the file has.           *)
FilesAreFound == call.op = "scope" /\ call.file # Above => FileScopeFinds(call.w, call.active, call.dir, call.file)

(* Retrieval: a search scoped to a directory finds what is below it only.  *)
SubtreeSearch ==
  call.op = "scope" =>
    SubtreeOnly(call.w, call.active, call.dir,
                {row \in [project : call.active, dir : DOMAIN Tree] :
                   PathUp(call.w, row.project, row.dir) # <<>>})

(* Quality: a reference out of the project is not judged.                  *)
OutsideRefs == call.op = "refs" => OutsideIsNotJudged(call.refs)

(* Quality: lizard's findings push no other out.                           *)
Upgrades == call.op = "file" => UpgradeHidesNone(call.doc, call.cap)

(* ToolCalls: MCP and HTTP answer alike, and no group is left out unsaid.  *)
Surfaces == call.op = "duplicates" => SurfacesSame(call.index, call.config, "p", call.min)
Unsaid == call.op = "duplicates" => \A p \in {"p", None} : NoSilentCap(call.index, call.config, p, call.min)

(* Config: a patch is partial under the other spelling of a section too.   *)
PartialAnyName == call.op = "write" => PatchIsPartial(call.file, call.patch)

(* Config: what is written is in effect, whatever section was left empty.  *)
AnySection == call.op = "write" => EmptySectionsToo(call.file, call.patch)

(* Evaluation: a corpus is torn down whatever failed.                      *)
TearsDown == call.op = "corpus" => TearsAllDown(call.failed, call.closes)

(* Config: the default shown is the default used.                          *)
ShownDefaults == call.op = "field" => DefaultsAgree(call.f)

(* StoreQueries: a literal search does the same whichever transport asks.  *)
Transports == call.op = "literal" => S!TransportsAgree(call.chunks, call.pattern, call.project, call.dir)

(* Doctor: an installation succeeds once the cause of its failure is gone. *)
Retries == call.op = "install" => D!RetryInstalls(call.m, call.name)

(* StoreQueries: a lexical hit is of its scope.                            *)
Lexical == call.op = "literal" => S!LexicalInScope(call.chunks, call.project, S!ToolPrefix(call.dir))
=============================================================================
