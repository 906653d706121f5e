-------------------------------- MODULE Config --------------------------------
(***************************************************************************)
(* The global config file, as two tables describe it: the schema the admin *)
(* editor validates and writes by (config-schema.ts, config-writer.ts) and *)
(* the mergers the daemon loads it with (config.ts, config-merge.ts).      *)
(*                                                                         *)
(* A setting is a pair <<section, field>> by its YAML names (the camelCase *)
(* keys of the source are a one-to-one renaming); a file is a function     *)
(* from the settings it holds to values [kind, value].  A section without  *)
(* settings is the setting of no name: of kind "null" if it is empty, else *)
(* no mapping.  The loader knows "astGrep" and "ast_grep" for one section. *)
(***************************************************************************)
EXTENDS Integers, Sequences, FiniteSets, SequencesExt

CONSTANTS Cwd, Null

NoText == ""
Val(kind, value) == [kind |-> kind, value |-> value]

-----------------------------------------------------------------------------
(* CONFIG_SCHEMA: every field with its type, default and bounds.           *)
KindOf(type) ==
  CASE type \in {"string", "enum"} -> "str" [] type = "string-array" -> "list" [] OTHER -> type

Field_(s, f, type, default, min, max, enum) ==
  [key |-> <<s, f>>, type |-> type, default |-> Val(KindOf(type), default), min |-> min, max |-> max, enum |-> enum]
Plain(s, f, type, default) == Field_(s, f, type, default, 0, 0, {})
On(s, f) == Plain(s, f, "bool", TRUE)
Off(s, f) == Plain(s, f, "bool", FALSE)
Number(s, f, default, min, max) == Field_(s, f, "int", default, min, max, {})
OneOf(s, f, default, values) == Field_(s, f, "enum", default, 0, 0, values)

CoreSchema ==
  {Plain(NoText, "workspace_roots", "string-array", <<>>),
   OneOf("embedding", "provider", "huggingface-transformers", {"huggingface-transformers"}),
   Plain("embedding", "model", "string", "Xenova/all-MiniLM-L6-v2"),
   On("embedding", "normalize"),
   Number("watcher", "debounce_ms", 500, 0, 60000),
   Number("daemon", "port", 3000, 0, 65535),
   Plain("daemon", "hostname", "string", "127.0.0.1"),
   OneOf("retrieval", "mode", "hybrid", {"hybrid", "vector", "lexical"}),
   Number("retrieval", "rrf_k", 60, 1, 1000),
   On("reconciliation", "run_on_start"),
   Number("reconciliation", "interval_seconds", 600, 0, 86400)}

RuntimeSchema ==
  {Number("maintenance", "compact_interval_hours", 24, 0, 8760),
   Plain("discovery", "extra_markers", "string-array", <<>>),
   Number("discovery", "max_depth", 4, 1, 16),
   Number("mcp", "log_max_rows", 200, 0, 100000),
   Off("mcp", "admin_enabled"),
   Plain("network", "ca_cert", "string", NoText),
   Plain("network", "proxy", "string", NoText),
   On("network", "strict_ssl"),
   Off("analyzers", "background_enabled"),
   Number("analyzers", "concurrency", 2, 1, 16),
   Number("analyzers", "per_task_timeout_ms", 60000, 1000, 600000)}

ToolSchema ==
  {Off("lizard", "enabled"),
   Plain("lizard", "command", "string", "lizard"),
   Off("duplicates", "enabled"),
   Number("duplicates", "window_size", 50, 5, 1000),
   Number("duplicates", "min_unique_tokens", 15, 1, 1000),
   Off("duplicates", "semantic"),
   Number("duplicates", "semantic_threshold", 92, 50, 100),
   Number("duplicates", "semantic_max_chunks", 3000, 100, 5000),
   Off("semgrep", "enabled"),
   Plain("semgrep", "command", "string", "semgrep"),
   Plain("semgrep", "rule_dirs", "string-array", <<>>),
   Plain("semgrep", "registry_config", "string", "p/default"),
   Number("semgrep", "max_findings_per_file", 50, 1, 10000)}

RuleSchema ==
  {Off("astGrep", "enabled"),
   Plain("astGrep", "command", "string", "ast-grep"),
   Plain("astGrep", "rule_dirs", "string-array", <<>>),
   On("astGrep", "bundled_rules"),
   Number("astGrep", "max_findings_per_file", 50, 1, 10000),
   On("quality", "enabled"),
   Number("quality", "god_file_nloc", 400, 50, 100000),
   Number("quality", "god_file_exports", 10, 1, 1000),
   Number("quality", "max_params", 5, 1, 100),
   Number("quality", "max_nesting_depth", 4, 1, 50),
   Number("quality", "escalate_ccn", 10, 1, 1000),
   Number("quality", "max_fan_out", 20, 1, 1000),
   Number("quality", "max_fan_in", 25, 1, 10000),
   Number("quality", "max_findings_per_file", 50, 1, 10000)}

ContextSchema ==
  {On("quality", "markdown_rules"),
   Number("quality", "doc_drift_floor", 35, 5, 95),
   On("definitions", "enabled"),
   On("definitions", "okf_default"),
   Plain("definitions", "globs", "string-array", <<>>),
   Plain("definitions", "schemas", "string-array", <<>>),
   Off("definitions", "require_frontmatter"),
   On("definitions", "check_links"),
   Number("definitions", "max_findings_per_file", 50, 1, 10000)}

Schema == CoreSchema \cup RuntimeSchema \cup ToolSchema \cup RuleSchema \cup ContextSchema

FieldOf == [k \in {f.key : f \in Schema} |-> CHOOSE f \in Schema : f.key = k]

-----------------------------------------------------------------------------
(* The mergers: every leaf the loader picks, with its kind and default.    *)
Leaf(s, f, kind, default) == [key |-> <<s, f>>, kind |-> kind, default |-> Val(kind, default)]
LeafOn(s, f) == Leaf(s, f, "bool", TRUE)
LeafOff(s, f) == Leaf(s, f, "bool", FALSE)

CoreLeaves ==
  {Leaf(NoText, "workspace_roots", "list", <<Cwd>>),
   Leaf("embedding", "provider", "str", "huggingface-transformers"),
   Leaf("embedding", "model", "str", "Xenova/all-MiniLM-L6-v2"),
   LeafOn("embedding", "normalize"),
   Leaf("watcher", "debounce_ms", "int", 500),
   Leaf("daemon", "port", "int", 3022), Leaf("daemon", "hostname", "str", "127.0.0.1"),
   Leaf("retrieval", "mode", "str", "hybrid"), Leaf("retrieval", "rrf_k", "int", 60),
   LeafOn("reconciliation", "run_on_start"),
   Leaf("reconciliation", "interval_seconds", "int", 600),
   Leaf("maintenance", "compact_interval_hours", "int", 24),
   Leaf("discovery", "extra_markers", "list", <<>>), Leaf("discovery", "max_depth", "int", 4),
   Leaf("mcp", "log_max_rows", "int", 200), LeafOff("mcp", "admin_enabled"),
   Leaf("network", "ca_cert", "str", Null), Leaf("network", "proxy", "str", Null),
   LeafOn("network", "strict_ssl")}

RulePackLeaves(s) ==
  {LeafOn(s, "enabled"), Leaf(s, "rule_dirs", "list", <<>>),
   Leaf(s, "max_findings_per_file", "int", 50)}

AnalyzerLeaves ==
  {LeafOn("analyzers", "background_enabled"), Leaf("analyzers", "concurrency", "int", 2),
   Leaf("analyzers", "per_task_timeout_ms", "int", 60000),
   LeafOn("lizard", "enabled"), Leaf("lizard", "command", "str", "lizard"),
   LeafOn("duplicates", "enabled"), Leaf("duplicates", "window_size", "int", 50),
   Leaf("duplicates", "min_unique_tokens", "int", 15), LeafOff("duplicates", "semantic"),
   Leaf("duplicates", "semantic_threshold", "int", 92),
   Leaf("duplicates", "semantic_max_chunks", "int", 3000),
   Leaf("semgrep", "command", "str", "semgrep"), Leaf("semgrep", "registry_config", "str", "p/default"),
   Leaf("astGrep", "command", "str", "ast-grep"), LeafOn("astGrep", "bundled_rules"),
   Leaf("definitions", "globs", "list", [i \in 1..6 |-> i]), Leaf("definitions", "schemas", "list", <<>>),
   LeafOn("definitions", "enabled"), LeafOn("definitions", "okf_default"),
   LeafOff("definitions", "require_frontmatter"), LeafOn("definitions", "check_links"),
   Leaf("definitions", "max_findings_per_file", "int", 50),
   LeafOn("quality", "enabled"), Leaf("quality", "god_file_nloc", "int", 400),
   Leaf("quality", "god_file_exports", "int", 10), Leaf("quality", "max_params", "int", 5),
   Leaf("quality", "max_nesting_depth", "int", 4), Leaf("quality", "escalate_ccn", "int", 10),
   Leaf("quality", "max_fan_out", "int", 20), Leaf("quality", "max_fan_in", "int", 25),
   Leaf("quality", "max_findings_per_file", "int", 50), LeafOn("quality", "markdown_rules"),
   Leaf("quality", "doc_drift_floor", "int", 35)}

Leaves == CoreLeaves \cup RulePackLeaves("semgrep") \cup RulePackLeaves("astGrep") \cup AnalyzerLeaves

LeafOf == [k \in {leaf.key : leaf \in Leaves} |-> CHOOSE leaf \in Leaves : leaf.key = k]

-----------------------------------------------------------------------------
Sections(file) == {k[1] : k \in DOMAIN file}
Bare(s) == <<s, NoText>>

(* The sections a setting of section s lies in.                            *)
Within(s) ==
  IF s \in {"lizard", "duplicates", "semgrep", "astGrep", "ast_grep", "quality", "definitions"}
  THEN {s, "analyzers"} ELSE {s} \ {NoText}

(* sectionRecord: astGrep when the file has it, empty or not, else ast_grep*)
SectionOf(file, s) == IF s = "astGrep" /\ "astGrep" \notin Sections(file) THEN "ast_grep" ELSE s

(* The Specs of _validate.ts, and the check mergeRetrieval adds.           *)
Accepts(leaf, value) ==
  /\ value.kind = leaf.kind
  /\ leaf.kind = "int" => value.value >= 0
  /\ leaf.key = <<"retrieval", "mode">> => value.value \in {"hybrid", "vector", "lexical"}

(* makePicker: the file's value, or the default; an empty network string   *)
(* is null.                                                                *)
Pick(file, leaf) ==
  LET k == <<SectionOf(file, leaf.key[1]), leaf.key[2]>> IN
  IF k \notin DOMAIN file THEN [v |-> leaf.default.value, source |-> "default"]
  ELSE [v |-> IF leaf.key[1] = "network" /\ file[k] = Val("str", NoText) THEN Null ELSE file[k].value,
        source |-> "global"]

Failed == [settings |-> <<>>, error |-> TRUE]

(* loadConfig: filtering sections, a section that is no mapping and one    *)
(* value of a wrong kind fail it.                                          *)
LoadConfig(file) ==
  LET bad(leaf) == LET k == <<SectionOf(file, leaf.key[1]), leaf.key[2]>>
                   IN  k \in DOMAIN file /\ ~ Accepts(leaf, file[k])
      shapeless(leaf) == LET b == Bare(SectionOf(file, leaf.key[1]))
                         IN  b \in DOMAIN file /\ file[b].kind # "null"
  IN  IF \/ Sections(file) \cap {"filtering", "indexing"} # {}
         \/ \E leaf \in Leaves : bad(leaf) \/ shapeless(leaf)
      THEN Failed
      ELSE [settings |-> [k \in DOMAIN LeafOf |-> Pick(file, LeafOf[k])],
            error |-> FALSE]

ValidateValue(f, value) ==
  /\ value.kind = KindOf(f.type)
  /\ f.type = "enum" => value.value \in f.enum
  /\ f.type = "int" => value.value \in f.min..f.max

ValidatePatch(patch) ==
  {k \in DOMAIN patch : k \notin DOMAIN FieldOf \/ ~ ValidateValue(FieldOf[k], patch[k])}

(* Slip: the values that are valid are written.                            *)
WriteTheValid(file, patch) ==
  [k \in DOMAIN file \cup (DOMAIN patch \ ValidatePatch(patch)) |->
     IF k \in DOMAIN patch \ ValidatePatch(patch) THEN patch[k] ELSE file[k]]

(* setIn throws where a section is there and holds no mapping, null too.   *)
Settable(file, patch) == \A k \in DOMAIN patch : \A s \in Within(k[1]) : Bare(s) \notin DOMAIN file

(* writeConfigPatch: all of a valid patch, at the schema's YAML paths; the *)
(* file is written when everything is set.                                 *)
WriteConfigPatch(file, patch) ==
  IF ValidatePatch(patch) # {} \/ ~Settable(file, patch) THEN file
  ELSE [k \in DOMAIN file \cup DOMAIN patch |-> IF k \in DOMAIN patch THEN patch[k] ELSE file[k]]

(* readLayerSnapshot: a quoted integer is shown as the integer.            *)
ReadLayerSnapshot(file) ==
  [k \in DOMAIN file \cap DOMAIN FieldOf |->
     IF FieldOf[k].type = "int" /\ file[k].kind = "digits" THEN Val("int", file[k].value) ELSE file[k]]

-----------------------------------------------------------------------------
(* The two tables describe one file: the same settings, and whatever the   *)
(* editor may write, at either bound, the daemon can load.                 *)
TablesAgree(f) ==
  /\ DOMAIN LeafOf = DOMAIN FieldOf
  /\ \A value \in {Val("int", f.min), Val("int", f.max), Val("bool", TRUE), Val("str", NoText), Val("list", <<>>)}
                    \cup {Val("str", e) : e \in f.enum} :
       ValidateValue(f, value) => Accepts(LeafOf[f.key], value)

(* Saving the number or switch the editor shows as the default of a        *)
(* setting the file does not mention changes nothing.                      *)
DefaultsAgree(f) ==
  f.type \in {"int", "bool"} =>
    LoadConfig(WriteConfigPatch(<<>>, f.key :> f.default)).settings[f.key].v
      = LoadConfig(<<>>).settings[f.key].v

(* After a write to a file that loads, the file still loads; a patch that  *)
(* is refused, or cannot be set for an empty section of those it names,    *)
(* changes nothing, any other is what the daemon now uses.                 *)
WrittenIsUsed(file, patch) ==
  LET new == WriteConfigPatch(file, patch)
      old == LoadConfig(file)
      loaded == LoadConfig(new)
  IN  ~ old.error =>
        /\ ~ loaded.error
        /\ ValidatePatch(patch) # {} \/ ~Settable(file, patch) => new = file
        /\ ValidatePatch(patch) = {} /\ Settable(file, patch) =>
             \A k \in DOMAIN patch : loaded.settings[k].source = "global"
                                      /\ ReadLayerSnapshot(new)[k] = patch[k]
                                      /\ loaded.settings[k].v \in {patch[k].value, Null}

(* "Already creates intermediate maps as needed" (config-writer.ts:78): a  *)
(* valid patch is written whatever sections are empty.                     *)
EmptySectionsToo(file, patch) ==
  ~ LoadConfig(file).error /\ ValidatePatch(patch) = {} =>
    \A k \in DOMAIN patch : LoadConfig(WriteConfigPatch(file, patch)).settings[k].source = "global"

(* A write changes no setting the patch does not name.                     *)
PatchIsPartial(file, patch) ==
  ~ LoadConfig(file).error =>
    \A k \in DOMAIN LeafOf \ DOMAIN patch :
      LoadConfig(WriteConfigPatch(file, patch)).settings[k].v = LoadConfig(file).settings[k].v

(* The same where the file spells the section as the schema does.          *)
PatchIsPartialByName(file, patch) == "ast_grep" \notin Sections(file) => PatchIsPartial(file, patch)
=============================================================================
