----------------------------- MODULE VectorTable -----------------------------
(***************************************************************************)
(* The vector store (packages/core/src/storage/vectors.ts): the table that *)
(* is opened on first use, the mutex its writes go through, compaction     *)
(* with its status (container.ts) and the timer and the route that ask for *)
(* it (cli/src/start.ts, web/server/api/ops.ts).                           *)
(*                                                                         *)
(* A call is numbered in the order in which it is made.  What happens      *)
(* between two awaits is one action.                                       *)
(***************************************************************************)
EXTENDS Naturals, Sequences, SequencesExt, Absence

CONSTANT
  MaxCalls      \* bound: calls

ASSUME VectorAssumption == MaxCalls \in Nat /\ None \notin Nat

VARIABLES
  call,         \* per call made: its operation and how far it has come
  table,        \* the reference to the open table is set
  promise,      \* openPromise: the call that made it
  exists,       \* the table is on disk
  chain,        \* AsyncMutex: the writes to be run, the running one first
  lance,        \* the calls inside the database
  rows,         \* the rows: the calls that wrote them
  banner,       \* maintenance.running
  schedule      \* the compaction loop, its interval and the reconciler

vectorVars == <<call, table, promise, exists, chain, lance, rows, banner, schedule>>

Op == {"upsert", "delete", "query", "index", "compact"}
NewCall(o) == [op |-> o, at |-> "new", on |-> None, open |-> "no"]

Over == {"done", "rejected"}
Unsettled(c) == call[c].at \notin Over

(* A boot, with or without a table from earlier and a compaction interval. *)
VectorInit ==
  /\ call = <<>> /\ table = FALSE /\ promise = None
  /\ exists \in BOOLEAN
  /\ chain = <<>> /\ lance = {} /\ rows = {} /\ banner = FALSE
  /\ \E interval \in {0, 1} :
       schedule = [timer |-> IF interval = 0 THEN "off" ELSE "armed", run |-> 0,
                   interval |-> interval]

-----------------------------------------------------------------------------
(* Slip: nor does a delete.                                                *)
AllButDelete(o) == o \in {"upsert", "index", "compact"}

Exclusive(o) == o \in {"upsert", "delete", "index", "compact"}

OpensFirst == promise = None

(* Where the calls of s are when they have the table: writes take a turn,  *)
(* the others go ahead.                                                    *)
Proceeds(cs, s) ==
  [c \in DOMAIN cs |->
     IF c \notin s THEN cs[c]
     ELSE [cs[c] EXCEPT !.at = IF Exclusive(cs[c].op) THEN "queued" ELSE "runs"]]

Turns(cs, s) ==
  LET taken[k \in 0..Len(cs)] ==
        IF k = 0 THEN <<>>
        ELSE IF k \in s /\ Exclusive(cs[k].op) THEN Append(taken[k - 1], k) ELSE taken[k - 1]
  IN  taken[Len(cs)]

Free(cs, s) == {c \in s : ~Exclusive(cs[c].op)}

(* The compaction status and the loop when the calls of s settle.  The     *)
(* loop arms its timer after its own pass, on the interval of now.         *)
Rearmed(s) ==
  IF schedule.run \notin s THEN schedule
  ELSE [schedule EXCEPT !.run = 0,
          !.timer = IF @ = "stopped" THEN @
                    ELSE IF schedule.interval > 0 THEN "armed" ELSE "off"]

StatusSettles(cs, s) ==
  /\ banner' = (banner /\ ~\E c \in s : cs[c].op = "compact")
  /\ schedule' = Rearmed(s)

-----------------------------------------------------------------------------
(* ready(): the table, the promise of the first caller, or a new one.  A   *)
(* promise that was rejected stays.                                        *)
Make(o) ==
  LET c == Len(call) + 1
      cs == Append(call, NewCall(o)) IN
  /\ c <= MaxCalls
  /\ \/ /\ table
        /\ call' = Proceeds(cs, {c})
        /\ chain' = chain \o Turns(cs, {c})
        /\ lance' = lance \cup Free(cs, {c})
        /\ UNCHANGED promise
     \/ /\ ~table /\ OpensFirst
        /\ call' = [cs EXCEPT ![c].at = "waits", ![c].on = c, ![c].open = "lists"]
        /\ promise' = c
        /\ UNCHANGED <<chain, lance>>
     \/ /\ ~table /\ ~OpensFirst
        /\ call' = [cs EXCEPT ![c].at = IF call[promise].open = "failed" THEN "rejected" ELSE "waits",
                                 ![c].on = promise]
        /\ UNCHANGED <<promise, chain, lance>>
  /\ UNCHANGED <<table, exists, rows>>

(* A caller of the store: the indexer, a search, a purge.                  *)
Request(o) == o # "compact" /\ Make(o) /\ UNCHANGED <<banner, schedule>>

(* compactVectors; a call that is rejected at once leaves no trace.        *)
CompactVectors == Make("compact") /\ banner' = (banner \/ call'[Len(call')].at \notin Over)

(* POST /api/compact.  It asks whether a pass is under way, and refuses;   *)
(* one may begin at any time after.                                        *)
ApiCompact == \E reconciling \in BOOLEAN : ~reconciling /\ CompactVectors /\ UNCHANGED schedule

RetriesBusy == schedule

(* The loop's timer.  While a pass is in flight it is armed again.         *)
TimerFires ==
  /\ schedule.timer = "armed"
  /\ \E reconciling \in BOOLEAN :
     \/ /\ reconciling
        /\ schedule' = RetriesBusy
        /\ UNCHANGED <<call, table, promise, exists, chain, lance, rows, banner>>
     \/ /\ ~reconciling
        /\ CompactVectors
        /\ schedule' = IF call'[Len(call')].at \in Over
                       THEN [schedule EXCEPT !.timer = IF schedule.interval > 0 THEN "armed" ELSE "off"]
                       ELSE [schedule EXCEPT !.timer = "runs", !.run = Len(call')]

-----------------------------------------------------------------------------
(* The procedure that opens the table has listed the names.                *)
Waiters(o) == {c \in DOMAIN call : call[c].at = "waits" /\ call[c].on = o}

Opened(o, cs) ==
  /\ table' = TRUE /\ exists' = TRUE
  /\ call' = Proceeds(cs, Waiters(o))
  /\ chain' = chain \o Turns(cs, Waiters(o))
  /\ lance' = lance \cup Free(cs, Waiters(o))
  /\ UNCHANGED <<promise, rows, banner, schedule>>

ListsNames(o) ==
  /\ call[o].open = "lists"
  /\ \/ exists /\ Opened(o, [call EXCEPT ![o].open = "open"])
     \/ ~exists /\ call' = [call EXCEPT ![o].open = "creates"]
        /\ UNCHANGED <<table, promise, exists, chain, lance, rows, banner, schedule>>

CreatesTable(o) ==
  /\ call[o].open = "creates" /\ ~exists
  /\ Opened(o, [call EXCEPT ![o].open = "open"])

(* The import, the connection or the creation fails, the last when there   *)
(* is a table of that name by now.                                         *)
OpenFails(o) ==
  /\ call[o].open \in {"lists", "creates"}
  /\ call' = [c \in DOMAIN call |->
                IF c \in Waiters(o)
                THEN [call[c] EXCEPT !.at = "rejected",
                        !.open = IF c = o THEN (IF call[o].open = "creates" /\ exists THEN "raced" ELSE "failed")
                                 ELSE @]
                ELSE call[c]]
  /\ StatusSettles(call, Waiters(o))
  /\ UNCHANGED <<table, promise, exists, chain, lance, rows>>

-----------------------------------------------------------------------------
(* The mutex lets the next write go when the one before has settled.       *)
Runs ==
  /\ chain # <<>> /\ call[Head(chain)].at = "queued"
  /\ call' = [call EXCEPT ![Head(chain)].at = "runs"]
  /\ lance' = lance \cup {Head(chain)}
  /\ UNCHANGED <<table, promise, exists, chain, rows, banner, schedule>>

After(c) == IF chain # <<>> /\ Head(chain) = c THEN Tail(chain) ELSE chain

Advances(c) == After(c)

Written(c) ==
  CASE call[c].op = "upsert" -> rows \cup {c}
    [] call[c].op = "delete" -> {}
    [] OTHER -> rows

Resolves(c) ==
  /\ c \in lance
  /\ call' = [call EXCEPT ![c].at = "done"]
  /\ rows' = Written(c)
  /\ lance' = lance \ {c} /\ chain' = After(c)
  /\ StatusSettles(call, {c})
  /\ UNCHANGED <<table, promise, exists>>

(* A write or a query fails.  ensureVectorIndex catches it.                *)
Rejects(c) ==
  /\ c \in lance
  /\ call' = [call EXCEPT ![c].at = IF call[c].op = "index" THEN "done" ELSE "rejected"]
  /\ lance' = lance \ {c} /\ chain' = Advances(c)
  /\ StatusSettles(call, {c})
  /\ UNCHANGED <<table, promise, exists, rows>>

-----------------------------------------------------------------------------
(* The interval is set to 0 in the config, the daemon stops.               *)
Others ==
  /\ \/ schedule' = [schedule EXCEPT !.interval = 0]
     \/ schedule' = [schedule EXCEPT !.timer = "stopped"]
  /\ UNCHANGED <<call, table, promise, exists, chain, lance, rows, banner>>

VectorNext ==
  \/ \E o \in Op : Request(o)
  \/ ApiCompact \/ TimerFires \/ Runs \/ Others
  \/ \E c \in DOMAIN call :
       ListsNames(c) \/ CreatesTable(c) \/ OpenFails(c) \/ Resolves(c) \/ Rejects(c)

(* The opening goes on, the next write is let go, the database answers.    *)
VectorFairness ==
  /\ WF_vectorVars(Runs)
  /\ \A c \in 1..MaxCalls :
       /\ WF_vectorVars(c \in DOMAIN call /\ (ListsNames(c) \/ CreatesTable(c) \/ OpenFails(c)))
       /\ WF_vectorVars(Resolves(c) \/ Rejects(c))

VectorSpec == VectorInit /\ [][VectorNext]_vectorVars

-----------------------------------------------------------------------------
(* "otherwise two of them race to createEmptyTable and Lance throws":      *)
(* callers that come at once, before there is a table, all get it.         *)
OneTable == \A c \in DOMAIN call : call[c].open # "raced"

(* "the daemon is the sole writer, so deleteUnverified is safe": no write, *)
(* of a pass that began after the gate was passed or of a watcher, is in   *)
(* the database while another, or a compaction, is.                        *)
OneWriter ==
  \A c, d \in lance : call[c].op # "query" /\ call[d].op # "query" => c = d

(* The writes take effect in the order in which they were asked for,       *)
(* whoever came before the table was open, and none is answered that has   *)
(* not taken effect: the rows are those of the upserts that are done, but  *)
(* for the ones that a later delete has taken away.                        *)
Did(cs, o) == {c \in DOMAIN cs : cs[c].op = o /\ cs[c].at = "done"}

Effect(cs) == {c \in Did(cs, "upsert") : \A d \in Did(cs, "delete") : d < c}

WritesInOrder == rows = Effect(call)

(* The status shows a compaction only while there is one.                  *)
BannerEnds == banner => \E c \in DOMAIN call : call[c].op = "compact" /\ Unsettled(c)

(* The loop goes on: after a failed pass, a pass in flight or a table that *)
(* cannot be opened there is another attempt, unless the interval is 0.    *)
CompactionGoesOn ==
  /\ schedule.timer = "off" => schedule.interval = 0
  /\ schedule.timer = "runs" => Unsettled(schedule.run)

VectorStoreIsSound == OneTable /\ OneWriter /\ WritesInOrder /\ BannerEnds /\ CompactionGoesOn

(* Every call is answered: a rejected write holds up none behind it, and   *)
(* after a failed opening, whose promise is kept, all are rejected.        *)
CallsAreAnswered ==
  \A c \in 1..MaxCalls :
    (c \in DOMAIN call /\ Unsettled(c)) ~> (c \in DOMAIN call /\ ~Unsettled(c))
=============================================================================
