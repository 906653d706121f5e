---------------------------- MODULE StoreQueries ----------------------------
(***************************************************************************)
(* What the state store answers (packages/core/src/storage/state.ts,       *)
(* state-rows.ts and sql/state.sql): the literal and the lexical search    *)
(* with their scopes, the suffix lookup of the quality rules, the gaps of  *)
(* an analyzer, the symbol cross-reference and the statistics of a         *)
(* project.  A path and a line are sequences of characters, since LIKE     *)
(* and its escapes tell them apart; a table is a set of records.           *)
(***************************************************************************)
EXTENDS Naturals, Sequences, FiniteSets, SequencesExt, FiniteSetsExt

CONSTANTS None

-----------------------------------------------------------------------------
(* SQLite's LIKE: ASCII letters match in either case.                      *)
Folded(c) == IF c = "A" THEN "a" ELSE c

Escape == "\\"

(* Of a pattern, what stands for one character: [wild, char].              *)
Wild(c) == [wild |-> TRUE, char |-> c]
Plain(c) == [wild |-> FALSE, char |-> c]
AsWritten(s) == [i \in DOMAIN s |-> IF s[i] \in {"%", "_"} THEN Wild(s[i]) ELSE Plain(s[i])]

Matches(text, pattern) ==
  LET from[i \in 1..(Len(text) + 1), j \in 1..(Len(pattern) + 1)] ==
        IF j > Len(pattern) THEN i > Len(text)
        ELSE IF pattern[j] = Wild("%")
        THEN from[i, j + 1] \/ (i <= Len(text) /\ from[i + 1, j])
        ELSE /\ i <= Len(text)
             /\ pattern[j] = Wild("_") \/ Folded(text[i]) = Folded(pattern[j].char)
             /\ from[i + 1, j + 1]
  IN  from[1, 1]

(* ESCAPE '\': the character after it is plain.                            *)
WithEscape(s) ==
  LET from[i \in 1..(Len(s) + 1)] ==
        IF i > Len(s) THEN <<>>
        ELSE IF s[i] = Escape /\ i < Len(s) THEN <<Plain(s[i + 1])>> \o from[i + 2]
        ELSE AsWritten(<<s[i]>>) \o from[i + 1]
  IN  from[1]

escapeLikePattern(s) ==
  FlattenSeq([i \in DOMAIN s |-> IF s[i] \in {"%", "_", Escape} THEN <<Escape, s[i]>> ELSE <<s[i]>>])

-----------------------------------------------------------------------------
(* A row of chunks and chunks_fts with its file: project, path, start, the *)
(* lines of the document, and whether the file's error is set.             *)
HasAt(line, pattern, i) ==
  i + Len(pattern) - 1 <= Len(line) /\ SubSeq(line, i, i + Len(pattern) - 1) = pattern
Found(line, pattern) == {i \in 1..Len(line) : HasAt(line, pattern, i)}

(* One row for a line that has the pattern, at its first place.            *)
extractLineMatches(row, pattern) ==
  {[project |-> row.project, path |-> row.path, line |-> row.start + i - 1,
    column |-> Min(Found(row.lines[i], pattern))] :
     i \in {j \in DOMAIN row.lines : Found(row.lines[j], pattern) # {}}}

findLiteralMatches(chunks, pattern, project, prefix) ==
  LET like == WithEscape(<<"%">> \o escapeLikePattern(pattern) \o <<"%">>)
      below == WithEscape(escapeLikePattern(prefix) \o <<"%">>)
      rows == {r \in chunks :
                 /\ ~r.error
                 /\ \E i \in DOMAIN r.lines : Matches(r.lines[i], like)
                 /\ project # None => r.project = project
                 /\ project # None /\ prefix # <<>> => Matches(r.path, below)
                 /\ project = None => IsPrefix(prefix, r.path)}
  IN  IF pattern = <<>> THEN {} ELSE UNION {extractLineMatches(r, pattern) : r \in rows}

(* Without ESCAPE, and whatever the file's error.                          *)
searchLexical(chunks, project, prefix) ==
  {r \in chunks : /\ project # None => r.project = project
                  /\ prefix # <<>> => Matches(r.path, AsWritten(prefix \o <<"%">>))}

(* The scopes: of the MCP tool, and of POST /api/find-literal.             *)
ToolPrefix(dir) == dir \o <<"/">>
ApiPrefix(dir) == dir

InScope(row, project, prefix) ==
  /\ project # None => row.project = project
  /\ \/ IsPrefix(prefix, row.path)
     \/ /\ Len(row.path) >= Len(prefix)
        /\ \A i \in DOMAIN prefix : Folded(row.path[i]) = Folded(prefix[i])

(* The lines found are those with the pattern, in its case, of the files   *)
(* below the directory asked for and of no other, % and _ and all; but for *)
(* the case of the directory's name.                                       *)
LiteralIsExact(chunks, pattern, project, dir) ==
  LET prefix == IF dir = <<>> THEN <<>> ELSE ToolPrefix(dir)
      found == findLiteralMatches(chunks, pattern, project, prefix)
      tells(m, r, i) ==
        /\ m.project = r.project /\ m.path = r.path /\ m.line = r.start + i - 1
        /\ ~r.error /\ HasAt(r.lines[i], pattern, m.column)
  IN  /\ \A m \in found : \E r \in chunks :
           InScope(r, project, prefix) /\ \E i \in DOMAIN r.lines : tells(m, r, i)
      /\ \A r \in {c \in chunks : ~c.error /\ (project # None => c.project = project)} :
           \A i \in DOMAIN r.lines :
             IsPrefix(prefix, r.path) /\ Found(r.lines[i], pattern) # {}
               => \E m \in found : tells(m, r, i)

(* The same directory finds the same by either transport.                  *)
TransportsAgree(chunks, pattern, project, dir) ==
  findLiteralMatches(chunks, pattern, project, ToolPrefix(dir))
    = findLiteralMatches(chunks, pattern, project, ApiPrefix(dir))

(* A lexical hit is of the scope.                                          *)
LexicalInScope(chunks, project, prefix) ==
  \A r \in searchLexical(chunks, project, prefix) : InScope(r, project, prefix)

-----------------------------------------------------------------------------
(* Slip: wherever the reference begins.                                    *)
EndsWith(path, ref) ==
  path = ref \/ Matches(path, WithEscape(<<"%">> \o escapeLikePattern(ref)))

(* resolve_file_suffix: of the paths that are the reference or end with it *)
(* after a slash, the shortest.                                            *)
Candidate(path, ref) ==
  path = ref \/ Matches(path, WithEscape(<<"%", "/">> \o escapeLikePattern(ref)))

Shortest(paths) == {p \in paths : \A q \in paths : Len(p) <= Len(q)}

resolveFileSuffix(paths, ref) ==
  LET some == Shortest({p \in paths : Candidate(p, ref)}) IN
  IF some = {} THEN {None} ELSE some

(* `Exact match beats suffix' (state.ts:957), and a reference that is found*)
(* ends a path at a directory's boundary.                                  *)
SuffixResolves(paths, ref) ==
  \A p \in resolveFileSuffix(paths, ref) :
    /\ ref \in paths => p = ref
    /\ p # None => \/ p = ref
                   \/ /\ Len(p) > Len(ref) /\ p[Len(p) - Len(ref)] = "/"
                      /\ \A i \in DOMAIN ref : Folded(p[Len(p) - Len(ref) + i]) = Folded(ref[i])
    /\ p = None => \A q \in paths : ~IsSuffix(<<"/">> \o ref, q) /\ q # ref

-----------------------------------------------------------------------------
(* file_enrichments: one row for a file and an analyzer.                   *)
upsertFileEnrichment(rows, row) ==
  {r \in rows : r.file # row.file \/ r.analyzer # row.analyzer} \cup {row}

getFileEnrichment(rows, file, analyzer) == {r \in rows : r.file = file /\ r.analyzer = analyzer}

deleteFileEnrichment(rows, file, analyzer) == rows \ getFileEnrichment(rows, file, analyzer)

UpToDate(e, f, analyzer, version) ==
  /\ e.file = f.id /\ e.analyzer = analyzer /\ e.version = version
  /\ e.sha = f.sha /\ e.status = "complete"

listFilesMissingEnrichment(files, rows, analyzer, version) ==
  {f \in files : \A e \in rows : ~UpToDate(e, f, analyzer, version)}

(* What completes at the version asked for closes the gap, and only then:  *)
(* a failure, another content or an older version leaves it open.          *)
GapsClose(files, rows, analyzer, version) ==
  \A f \in files, v \in 1..2, sha \in {1, 2}, status \in {"complete", "failed"} :
    LET row == [file |-> f.id, analyzer |-> analyzer, version |-> v, sha |-> sha, status |-> status]
        after == upsertFileEnrichment(rows, row)
    IN  /\ (f \in listFilesMissingEnrichment(files, after, analyzer, version))
             = ~(v = version /\ sha = f.sha /\ status = "complete")
        /\ getFileEnrichment(after, f.id, analyzer) = {row}
        /\ f \in listFilesMissingEnrichment(files, deleteFileEnrichment(after, f.id, analyzer), analyzer, version)

-----------------------------------------------------------------------------
(* symbol_refs: [symbol, project, file, line, kind].                       *)
findSymbol(refs, project, symbol) ==
  LET hits == {r \in refs : r.project = project /\ r.symbol = symbol} IN
  [defs |-> {r \in hits : r.kind = "def"}, refs |-> {r \in hits : r.kind # "def"}]

CountsFiles(uses) == Cardinality({u.file : u \in uses})

fanInCounts(refs, project) ==
  [f \in {d.file : d \in {r \in refs : r.project = project /\ r.kind = "def"}} |->
     CountsFiles({r \in refs : /\ r.project = project /\ r.kind # "def" /\ r.file # f
                               /\ \E d \in refs : /\ d.project = project /\ d.kind = "def"
                                                  /\ d.file = f /\ d.symbol = r.symbol})]

(* The fan-in the quality report judges a file by is what find_usages      *)
(* shows of the symbols it defines: the other files that use them.         *)
FanInAgrees(refs, project) ==
  LET counts == fanInCounts(refs, project)
      symbols == {r.symbol : r \in refs}
      users(f) == UNION {IF \E d \in findSymbol(refs, project, s).defs : d.file = f
                         THEN {r.file : r \in findSymbol(refs, project, s).refs} \ {f} ELSE {} : s \in symbols}
  IN  /\ \A f \in DOMAIN counts : counts[f] = Cardinality(users(f)) 
      /\ \A f \in {r.file : r \in refs} : users(f) # {} => f \in DOMAIN counts

-----------------------------------------------------------------------------
(* The statistics of a project: its files rows [path, ext, error, at] and  *)
(* the chunks of each.                                                     *)
fileStats(files) ==
  [files |-> Cardinality(files), errors |-> Cardinality({f \in files : f.error}),
   lastIndexed |-> IF files = {} THEN None ELSE Max({f.at : f \in files})]

chunkCount(files) == FoldSet(LAMBDA f, n : n + f.chunks, 0, files)

listIndexedFilesWithChunks(files) == {f \in files : ~f.error}

listFailingFiles(files) == {f \in files : f.error}
countFilesIndexedSince(files, since) == Cardinality({f \in files : f.at >= since})

projectStats(files, limit) ==
  LET rows == listIndexedFilesWithChunks(files)
      ext(e) == {f \in rows : f.ext = e}
      first(Before(_, _)) ==
        {f \in rows : Cardinality({g \in rows \ {f} : Before(g, f)}) < limit}
  IN  [byExtension |-> {[ext |-> e, files |-> Cardinality(ext(e)), chunks |-> chunkCount(ext(e))] :
                          e \in {f.ext : f \in rows}},
       topFiles |-> first(LAMBDA g, f : g.chunks > f.chunks \/ (g.chunks = f.chunks /\ g.path < f.path)),
       recentFiles |-> first(LAMBDA g, f : g.at > f.at \/ (g.at = f.at /\ g.path < f.path)),
       failingFiles |-> listFailingFiles(files)]

(* The page of a project adds up to its row: every file is under one       *)
(* extension or among the failing, and the chunks a row counts are those   *)
(* of the extensions and of what failing files had before.                 *)
StatsAddUp(files, limit) ==
  LET row == fileStats(files)
      page == projectStats(files, limit)
      total(field) == FoldSet(LAMBDA e, n : n + e[field], 0, page.byExtension)
  IN  /\ row.files = total("files") + row.errors
      /\ row.errors = Cardinality(page.failingFiles)
      /\ chunkCount(files) = total("chunks") + chunkCount(page.failingFiles)
      /\ Cardinality(page.topFiles) = Min({limit, total("files")})
      /\ Cardinality(page.recentFiles) = Min({limit, total("files")})
      /\ total("files") > 0 /\ (\E f \in listIndexedFilesWithChunks(files) : f.at = row.lastIndexed)
           => \E f \in page.recentFiles : f.at = row.lastIndexed
      /\ \A since \in {f.at : f \in files} : countFilesIndexedSince(files, since) \in 1..row.files

-----------------------------------------------------------------------------
(* project_health: the newest n snapshots of a project, and those of all.  *)
listProjectHealth(rows, project, n) ==
  LET mine == SetToSortSeq({r \in rows : r.project = project}, LAMBDA a, b : a.at > b.at) IN
  SubSeq(mine, 1, Min({n, Len(mine)}))

Newest(rows, n, r) == Cardinality({q \in rows : q.project = r.project /\ q.at > r.at}) < n

recentProjectHealth(rows, n) ==
  LET kept == {r \in rows : Newest(rows, n, r)} IN
  [p \in {r.project : r \in kept} |->
     SetToSortSeq({r \in kept : r.project = p}, LAMBDA a, b : a.at > b.at)]

(* The row's [latest, previous], and the trend shown, are of the project.  *)
toHealthSummary(snapshots) ==
  IF snapshots = <<>> THEN None
  ELSE [score |-> snapshots[1].score, previous |-> IF Len(snapshots) > 1 THEN snapshots[2].score ELSE None]

RecentIsListed(rows) ==
  LET recent == recentProjectHealth(rows, 2)
  IN  \A p \in {r.project : r \in rows} :
        /\ p \in DOMAIN recent
        /\ toHealthSummary(recent[p]) = toHealthSummary(listProjectHealth(rows, p, 5))

-----------------------------------------------------------------------------
(* Of an absolute path: its segments, the first of them empty.             *)
longestCommonPrefix(paths) ==
  LET n == Min({Len(p) : p \in paths})
      agree == {i \in 0..n : \A p, q \in paths : SubSeq(p, 1, i) = SubSeq(q, 1, i)}
  IN  IF Cardinality(paths) < 2 \/ Max(agree) <= 1 THEN <<>>
      ELSE SubSeq(CHOOSE p \in paths : TRUE, 1, Max(agree))

(* The root the page leaves out of its rows is above every project, and is *)
(* never all that a path has unless one project is above the others.       *)
CommonRootIsAbove(paths) ==
  LET root == longestCommonPrefix(paths) IN
  /\ \A p \in paths : IsPrefix(root, p)
  /\ root # <<>> => Len(root) > 1
  /\ (Cardinality(paths) > 1 /\ root = <<>>) => \E p, q \in paths : Len(p) < 2 \/ p[2] # q[2]
=============================================================================
