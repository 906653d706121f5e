------------------------------ MODULE Ledgers ------------------------------
(***************************************************************************)
(* The bookkeeping tables of the state store (storage/state.ts,            *)
(* sql/state.sql): the log of MCP requests, the code-health history, the   *)
(* value-served totals with the estimate that feeds them (usage.ts).  The  *)
(* daemon and one-shot processes write to them at once; a transaction is   *)
(* one action, and what is deferred to the next tick or computed before    *)
(* its transaction is an action of its own.                                *)
(***************************************************************************)
EXTENDS Integers, Sequences, FiniteSets, Functions

CONSTANTS
  Caps,         \* the values mcp.log_max_rows is set to
  MaxRequests,  \* bound: requests logged
  MaxDeferred,  \* bound: requests of one tick
  Writer,       \* whoever scores a project
  Payload,      \* scores with their payloads
  HEALTH_HISTORY_KEEP,
  MaxClock,     \* bound: milliseconds
  Hit,          \* what a response points at: [project, path, snippet]
  Size(_),      \* bytes of a file, 0 for a file that is not found
  MaxHits,      \* bound: hits of a response
  MaxQueries,   \* bound: queries accounted
  None

VARIABLES
  log,          \* mcp_requests, by id, the oldest first
  lastId,       \* AUTOINCREMENT
  cap,          \* mcp.log_max_rows
  deferred,     \* per request waiting for the next tick, the cap it saw
  history,      \* project_health of one project: [at, payload]
  scoring,      \* per writer, the score it is about to record
  clock,
  usage,        \* usage_stats: per project, and WorkspaceRow
  asked         \* history: queries accounted since the totals were cleared

logVars == <<log, lastId, cap, deferred>>
healthVars == <<history, scoring, clock>>
usageVars == <<usage, asked>>
vars == <<logVars, healthVars, usageVars>>

Projects == {h.project : h \in Hit}
WorkspaceRow == ""     \* the roll-up
Zero == [queries |-> 0, results |-> 0, baseline |-> 0, avoided |-> 0, zeroHits |-> 0]

Init ==
  /\ log = <<>> /\ lastId = 0 /\ cap \in Caps /\ deferred = <<>>
  /\ history = {} /\ scoring = [w \in Writer |-> None] /\ clock = 0
  /\ usage = [p \in Projects \cup {WorkspaceRow} |-> Zero] /\ asked = 0

-----------------------------------------------------------------------------
(* The log.  An id goes up by one for every request.                       *)
Newest(rows, n) == SubSeq(rows, IF Len(rows) > n THEN Len(rows) - n + 1 ELSE 1, Len(rows))

Trimmed(rows, id, n) == Newest(Append(rows, id), n)

(* recordMcpRequest: nothing is logged with a cap of 0, and what is there  *)
(* stays.  The write is left to the next tick, the cap is not.             *)
RecordMcpRequest ==
  /\ cap > 0 /\ Len(deferred) < MaxDeferred
  /\ deferred' = Append(deferred, cap)
  /\ UNCHANGED <<log, lastId, cap, healthVars, usageVars>>

LogMcpRequest ==
  /\ deferred # <<>> /\ lastId < MaxRequests
  /\ lastId' = lastId + 1
  /\ log' = Trimmed(log, lastId', Head(deferred))
  /\ deferred' = Tail(deferred)
  /\ UNCHANGED <<cap, healthVars, usageVars>>

ClearMcpRequests ==
  /\ log' = <<>>
  /\ UNCHANGED <<lastId, cap, deferred, healthVars, usageVars>>

(* The config is edited and loaded again.                                  *)
SetCap ==
  /\ cap' \in Caps
  /\ UNCHANGED <<log, lastId, deferred, healthVars, usageVars>>

-----------------------------------------------------------------------------
(* The health history, whose key is the time.                              *)
Latest(rows) == CHOOSE r \in rows : \A s \in rows : s.at <= r.at
NewestRows(rows, n) == {r \in rows : Cardinality({s \in rows : s.at > r.at}) < n}

(* runCodeHealth has been awaited, computedAt is now.                      *)
Score(w, p) ==
  /\ scoring[w] = None
  /\ scoring' = [scoring EXCEPT ![w] = [at |-> clock, payload |-> p]]
  /\ UNCHANGED <<logVars, history, clock, usageVars>>

(* Slip: the first of the rows is taken for the latest.                    *)
SameAsFirst(row) ==
  history # {} /\ (CHOOSE r \in history : \A s \in history : r.at <= s.at).payload = row.payload

Unchanged(row) == history # {} /\ Latest(history).payload = row.payload

Pruned(rows, row) == NewestRows(rows \cup {row}, HEALTH_HISTORY_KEEP)

(* recordProjectHealth: the latest row is read, the transaction follows in *)
(* the same tick.  A second row of a millisecond violates the key and      *)
(* nothing is written.                                                     *)
RecordProjectHealth(w) ==
  /\ scoring[w] # None
  /\ history' = IF Unchanged(scoring[w]) \/ \E r \in history : r.at = scoring[w].at
                THEN history
                ELSE Pruned(history, scoring[w])
  /\ scoring' = [scoring EXCEPT ![w] = None]
  /\ UNCHANGED <<logVars, clock, usageVars>>

(* computedAt is taken and recorded in one tick: time passes only then.    *)
Tick ==
  /\ clock < MaxClock /\ \A w \in Writer : scoring[w] = None
  /\ clock' = clock + 1
  /\ UNCHANGED <<logVars, history, scoring, usageVars>>

(* A purge or a rebuild of the project.                                    *)
DeleteProjectHealth ==
  /\ history' = {}
  /\ UNCHANGED <<logVars, scoring, clock, usageVars>>

-----------------------------------------------------------------------------
(* The estimate of one response: its hits, the same file any number of     *)
(* times.                                                                  *)
OfProject(hits, p) == {k \in DOMAIN hits : hits[k].project = p}

Baseline(hits, p) ==
  SumFunction([f \in {hits[k].path : k \in OfProject(hits, p)} |-> Size(f)])

ProjectValue(hits, p) ==
  [queries |-> 1,
   results |-> SumFunction([k \in OfProject(hits, p) |-> hits[k].snippet]),
   baseline |-> Baseline(hits, p),
   avoided |-> Cardinality({hits[k].path : k \in OfProject(hits, p)}),
   zeroHits |-> 0]

Touched(hits) == {hits[k].project : k \in DOMAIN hits}

(* toUsageDeltas: the roll-up, and a row for every project touched.        *)
ToUsageDeltas(hits) ==
  LET SumOf(field) == SumFunction([p \in Touched(hits) |-> ProjectValue(hits, p)[field]]) IN
  [p \in Touched(hits) \cup {WorkspaceRow} |->
     IF p # WorkspaceRow THEN ProjectValue(hits, p)
     ELSE [queries |-> 1,
           results |-> SumOf("results"),
           baseline |-> SumOf("baseline"),
           avoided |-> SumOf("avoided"),
           zeroHits |-> IF hits = <<>> THEN 1 ELSE 0]]

Plus(r, d) == [x \in DOMAIN r |-> r[x] + d[x]]

(* upsert_usage for every delta, in one transaction.                       *)
ApplyUsageDeltas(hits) ==
  LET deltas == ToUsageDeltas(hits) IN
  /\ asked < MaxQueries /\ asked' = asked + 1
  /\ usage' = [p \in DOMAIN usage |->
                 IF p \in DOMAIN deltas THEN Plus(usage[p], deltas[p]) ELSE usage[p]]
  /\ UNCHANGED <<logVars, healthVars>>

ClearUsageStats ==
  /\ usage' = [p \in DOMAIN usage |-> Zero] /\ asked' = 0
  /\ UNCHANGED <<logVars, healthVars>>

(* summarizeRow, with what a share is rounded to.                          *)
Rounded(n, d) == (2 * n + d) \div (2 * d)
Tokens(bytes) == Rounded(bytes, 4)
AtLeastZero(n) == IF n < 0 THEN 0 ELSE n

Saved(n) == AtLeastZero(n)

Summary(r) ==
  LET saved == Saved(Tokens(r.baseline) - Tokens(r.results)) IN
  [saved |-> saved,
   reductionPct |-> IF Tokens(r.baseline) > 0
                    THEN Rounded(100 * saved, Tokens(r.baseline)) ELSE 0,
   zeroHitPct |-> IF r.queries > 0 THEN Rounded(100 * r.zeroHits, r.queries) ELSE 0]

-----------------------------------------------------------------------------
(* The three tables know nothing of one another.                           *)
LogNext == RecordMcpRequest \/ LogMcpRequest \/ ClearMcpRequests \/ SetCap

HealthNext ==
  \/ Tick \/ DeleteProjectHealth
  \/ \E w \in Writer : RecordProjectHealth(w) \/ \E p \in Payload : Score(w, p)

UsageNext ==
  \/ \E n \in 0..MaxHits : \E hits \in [1..n -> Hit] : ApplyUsageDeltas(hits)
  \/ ClearUsageStats

Next == LogNext \/ HealthNext \/ UsageNext

Spec == Init /\ [][Next]_vars

-----------------------------------------------------------------------------
(* "each insert trims the table back to the newest N rows by id": after a  *)
(* request is logged the table is an unbroken run of ids up to its own, no *)
(* longer than the cap it saw, whatever the cap was before or is by now.    *)
LogStep ==
  lastId' # lastId =>
    /\ Len(log') <= Head(deferred)
    /\ \A k \in DOMAIN log' : log'[k] = lastId' - Len(log') + k

LogKeepsNewest == [][LogStep]_vars

(* "written only when the score or a dimension changed since the latest    *)
(* row, so the table stays small and history reads as a change log": no    *)
(* two neighbours are equal and no more rows are kept than asked for,      *)
(* whoever scores at once.                                                 *)
HistoryIsChangeLog ==
  /\ Cardinality(history) <= HEALTH_HISTORY_KEEP
  /\ \A r, s \in history :
       r.at < s.at /\ ~(\E x \in history : r.at < x.at /\ x.at < s.at) => r.payload # s.payload

(* The newest score is the one shown: what is recorded is the latest row   *)
(* afterwards, or the latest row of the same millisecond was first.        *)
ShownStep ==
  \A w \in Writer : RecordProjectHealth(w) =>
    \/ Latest(history').payload = scoring[w].payload
    \/ Latest(history').at = scoring[w].at

NewestIsShown == [][ShownStep]_vars

(* The roll-up is "authoritative for total queries / zero-hit": bytes and  *)
(* files of the projects add up to it, a query over two projects counts    *)
(* once in it, and every query is counted.                                 *)
TotalsAgree ==
  LET Over(field) == SumFunction([p \in Projects |-> usage[p][field]]) IN
  /\ usage[WorkspaceRow].results = Over("results")
  /\ usage[WorkspaceRow].baseline = Over("baseline")
  /\ usage[WorkspaceRow].avoided = Over("avoided")
  /\ usage[WorkspaceRow].queries = asked
  /\ \A p \in Projects : usage[p].queries <= asked - usage[WorkspaceRow].zeroHits

(* A file is counted once however often a response quotes it.              *)
BaselineIsPerFile ==
  \A p \in Projects : usage[p].baseline <=
    usage[p].queries * SumFunction([f \in {h.path : h \in {x \in Hit : x.project = p}} |-> Size(f)])

(* No summary shows a negative saving or a share above 100.                *)
SharesAreShares ==
  \A p \in DOMAIN usage : LET s == Summary(usage[p]) IN
    s.saved >= 0 /\ s.reductionPct \in 0..100 /\ s.zeroHitPct \in 0..100
=============================================================================
