----------------------------- MODULE MCServices -----------------------------
(***************************************************************************)
(* The services that know nothing of one another, checked in one run: a    *)
(* behaviour is of one part, chosen at the start.  The modules EXTENDED    *)
(* have their own variables, which stay at one initial state while another *)
(* part runs; the other parts have the first few of those below.           *)
(***************************************************************************)
EXTENDS EnrichmentQueue, HealthScheduler, StateStore, VectorTable

CONSTANTS Parts, lizard, quality,
          Caps, MaxRequests, MaxDeferred, Writer, Payload, HEALTH_HISTORY_KEEP,
          MaxClock, Hit, Size(_), MaxHits, MaxQueries,       \* of Ledgers
          Signature, MaxSignatures, RateLimit,               \* of ProcessFaults
          MaxFires,                     \* of UrlQuery
          Total, RETENTION, THROTTLE,   \* of ProjectsView
          MaxTicks                      \* bound: its ticks

TwoAnalyzers == <<lizard, quality>>

ASSUME PartsAssumption ==
  Parts \subseteq {"queue", "health", "tables", "log", "history", "usage", "vectors", "faults",
            "live", "fetch", "query", "view"}

(* None is no job, no progress, and no request of the query page.          *)
ASSUME PagesAssumption ==
  /\ Total \in Nat /\ THROTTLE \in Int /\ None \notin Int
  /\ None \notin [status : {"running", "done", "failed"}, indexed : Nat, total : Nat \cup {None},
                  started : Int, completed : Int \cup {None}]
  /\ None \notin [status : {"running", "done", "failed"}, indexed : Nat, total : Nat \cup {None}]
  /\ None \notin [q : {"a"}, limit : {5, 10}]

VARIABLES part, v1, v2, v3, v4, v5, v6, v7, v8, v9, v10,
          v11, v12, v13, v14, v15

own == <<v1, v2, v3, v4, v5, v6, v7, v8, v9, v10, v11, v12, v13, v14, v15>>
queueVars == vars
partVars == <<queueVars, healthVars, tableVars, vectorVars, own>>
allVars == <<part, partVars>>

(* What is left of the variables, and stays as it is.                      *)
Rest10 == <<v10, v11, v12, v13, v14, v15>>
Rest9 == <<v9, Rest10>>
Rest8 == <<v8, Rest9>>
Rest5 == <<v5, v6, v7, Rest8>>

Unused10 == /\ v10 = None /\ v11 = None /\ v12 = None
            /\ v13 = None /\ v14 = None /\ v15 = None
Unused9 == v9 = None /\ Unused10
Unused8 == v8 = None /\ Unused9
Unused5 == v5 = None /\ v6 = None /\ v7 = None /\ Unused8
Unused == /\ v1 = None /\ v2 = None /\ v3 = None /\ v4 = None
          /\ Unused5

-----------------------------------------------------------------------------
(* Two files and two contents: one has two definitions on a line and a     *)
(* link.                                                                   *)
Piece(l, s) == [line |-> l, symbol |-> s]
Contents == {{Piece(1, "a"), Piece(1, "b")}, {Piece(1, "b"), Piece(2, "a")}}
Goes(t) == IF Piece(1, "a") \in t THEN {"f2"} ELSE {}

TwoPaths == {"f1", "f2"}

(* A hit is larger than its file, and one is of a file that is gone.       *)
TheHits == {[project |-> "p", path |-> "a", snippet |-> 2],
            [project |-> "p", path |-> "b", snippet |-> 9],
            [project |-> "q", path |-> "c", snippet |-> 0]}
Bytes(f) == CASE f = "a" -> 10 [] f = "b" -> 3 [] OTHER -> 0

Books == INSTANCE Ledgers WITH
       log <- v1, lastId <- v2, cap <- v3, history <- v4, scoring <- v5,
       clock <- v6, usage <- v7, asked <- v8, deferred <- v9

(* A cap is not negative, at least one row of the history and one fault    *)
(* are kept, a fault is printed once in a tick, and sizes are those of     *)
(* finitely many files.                                                    *)
ASSUME LedgersAssumption ==
  /\ Caps \subseteq Nat /\ HEALTH_HISTORY_KEEP \in Nat \ {0}
  /\ IsFiniteSet(Hit) /\ \A h \in Hit : h.snippet \in Nat /\ Size(h.path) \in Nat
  /\ \A h \in Hit : h.project # Books!WorkspaceRow
  /\ MaxHits \in Nat
  /\ MaxSignatures \in Nat \ {0} /\ RateLimit \in Nat \ {0}

Faults == INSTANCE ProcessFaults WITH
       MaxClock <- MaxTicks,
       clock <- v1, bySig <- v2, seen <- v3, printed <- v4

(* The pages of a tab: one component whose connection is lost, and one     *)
(* that turns from one key to another.                                     *)
Stream == INSTANCE LiveRefresh WITH
       Key <- {"k1"}, Consumer <- {"page"}, MaxVersion <- 3, MaxLosses <- 2,
       version <- v1, pending <- v2, timer <- v3, feed <- v4, source <- v5, sources <- v6,
       retries <- v7, losses <- v8, conn <- v9, key <- v10, sent <- v11, waits <- v12,
       shown <- v13, due <- v14, asked <- v15

Fetch == INSTANCE LiveRefresh WITH
       Key <- {"k1", "k2"}, Consumer <- {"page"}, MaxVersion <- 2, MaxLosses <- 0,
       version <- v1, pending <- v2, timer <- v3, feed <- v4, source <- v5, sources <- v6,
       retries <- v7, losses <- v8, conn <- v9, key <- v10, sent <- v11, waits <- v12,
       shown <- v13, due <- v14, asked <- v15

Form == INSTANCE UrlQuery WITH
       url <- v1, stale <- v2, lastFired <- v3, seq <- v4, flying <- v5, phase <- v6,
       data <- v7, fired <- v8

View == INSTANCE ProjectsView WITH
       MaxClock <- MaxTicks,
       clock <- v1, job <- v2, lastEmit <- v3, told <- v4, marker <- v5, committed <- v6,
       run <- v7, loop <- v8

-----------------------------------------------------------------------------
(* A part that does not run has one initial state.                         *)
AllInit ==
  /\ part \in Parts
  /\ Init /\ (part # "queue" => concurrency = 1)
  /\ HealthInit /\ (part # "health" => timers = {})
  /\ TablesInit
  /\ VectorInit /\ (part # "vectors" => ~exists /\ schedule.interval = 0)
  /\ CASE part \in {"log", "history", "usage"} -> Books!Init /\ Unused10
       [] part = "faults" -> Faults!Init /\ Unused5
       [] part = "live" -> Stream!Init
       [] part = "fetch" -> Fetch!Init
       [] part = "query" -> Form!Init /\ Unused9
       [] part = "view" -> View!Init /\ Unused9
       [] OTHER -> Unused

AllNext ==
  /\ UNCHANGED part
  /\ \/ /\ part = "queue" /\ Next
        /\ UNCHANGED <<healthVars, tableVars, vectorVars, own>>
     \/ /\ part = "health" /\ HealthNext
        /\ UNCHANGED <<queueVars, tableVars, vectorVars, own>>
     \/ /\ part = "tables" /\ TablesNext
        /\ UNCHANGED <<queueVars, healthVars, vectorVars, own>>
     \/ /\ part = "vectors" /\ VectorNext
        /\ UNCHANGED <<queueVars, healthVars, tableVars, own>>
     \/ /\ UNCHANGED <<queueVars, healthVars, tableVars, vectorVars>>
        /\ \/ part = "log" /\ Books!LogNext /\ UNCHANGED Rest10
           \/ part = "history" /\ Books!HealthNext /\ UNCHANGED Rest10
           \/ part = "usage" /\ Books!UsageNext /\ UNCHANGED Rest10
           \/ part = "faults" /\ Faults!Next /\ UNCHANGED Rest5
           \/ part = "live" /\ Stream!Next
           \/ part = "fetch" /\ Fetch!Next
           \/ part = "query" /\ Form!Next /\ UNCHANGED Rest9
           \/ part = "view" /\ View!Next /\ UNCHANGED Rest9

liveVars == Stream!vars

LiveFairness ==
  /\ WF_liveVars(part = "live" /\ Stream!Flush)
  /\ WF_liveVars(part = "live" /\ Stream!Connects)

AllFairSpec ==
  AllInit /\ [][AllNext]_allVars /\ Fairness /\ HealthFairness /\ VectorFairness /\ LiveFairness

-----------------------------------------------------------------------------
(* Ledgers: the request log keeps the newest rows; the health history is a *)
(* bounded change log whose newest score is shown; the roll-up and the     *)
(* projects add up, a file counts once for a response, and no share is     *)
(* above 100.  ProcessFaults: a fault that goes on is printed, and the     *)
(* faults remembered are the latest.                                       *)
LedgersAreKept ==
  /\ [](part = "history" => Books!HistoryIsChangeLog)
  /\ [](part = "usage" => Books!TotalsAgree /\ Books!BaselineIsPerFile /\ Books!SharesAreShares)
  /\ [](part = "faults" => Faults!FaultsAreHeard /\ Faults!KeepsTheLatest)
  /\ [][part = "log" /\ Books!LogNext => Books!LogStep]_allVars
  /\ [][part = "history" => Books!ShownStep]_allVars

(* The pages.  LiveRefresh: an event or a connection that came back is     *)
(* shown, a tab has one EventSource, an answer is shown to those who want  *)
(* it and in order.  UrlQuery: the result shown is the URL's, a step of the*)
(* user fires one request.  ProjectsView: the end of a rebuild is told, one*)
(* that works is shown, and what a row offers is taken.                    *)
PagesAreTrue ==
  /\ [](part = "live" => Stream!ShowsWhatIsDue /\ Stream!OneSource)
  /\ [](part = "fetch" => Fetch!ShowsWhatIsDue)
  /\ [](part = "query" => Form!ShowsItsUrl /\ Form!FiresOnce)
  /\ [](part = "view" => View!EndsAreTold /\ View!WorkIsShown /\ View!OfferedIsTaken)
  /\ [][part = "fetch" => Fetch!ShownStep]_allVars

(* What was asked for ends.  EnrichmentQueue: every task settles.          *)
(* HealthScheduler: changes are scored, closing ends.  VectorTable: every  *)
(* call is answered.  LiveRefresh: what settled is announced, a lost       *)
(* connection comes back.                                                  *)
ServicesProgress ==
  /\ EveryTaskSettles
  /\ ChangesAreScored
  /\ CloseEnds
  /\ CallsAreAnswered
  /\ (part = "live" /\ Stream!Unannounced) ~> (part = "live" /\ ~Stream!Unannounced)
  /\ (part = "live" /\ Stream!Closed) ~> (part = "live" /\ ~Stream!Closed)
=============================================================================
