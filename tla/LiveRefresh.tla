----------------------------- MODULE LiveRefresh -----------------------------
(***************************************************************************)
(* How the admin UI keeps up with the daemon: settled analyzer tasks are   *)
(* collected (watcher/analyzer-events.ts) and published with the other     *)
(* changes on the bus, sent over one event stream (api/events.ts) to one   *)
(* EventSource of the tab (components/live-refresh.tsx), whose messages    *)
(* make useFetch fetch again through api.ts.                               *)
(***************************************************************************)
EXTENDS Naturals, Sequences, Functions, SequenceTheorems, TLAPS

CONSTANTS
  Key,          \* the keys of a page, each with the URL it is fetched from
  Consumer,     \* mounted components with a useFetch
  MaxVersion,   \* bound: changes of what the API returns
  MaxLosses,    \* bound: losses of the connection
  None

VARIABLES
  version,      \* of what the API returns
  pending,      \* tasks that settled since the last flush
  timer,        \* the coalescer's: "none", it "runs", or it has "fired"
  feed,         \* events on their way to the tab: the version each announces
  source,       \* the EventSource: "none", "connecting", "accepted", "open"
  sources,      \* history: the EventSources of the tab that are not closed
  retries,      \* timers that will call ensureSource
  losses,       \* history: losses of the connection
  conn,         \* connectionState
  key,          \* per consumer, the key it is rendered with
  sent,         \* inFlightGets: per URL None, 0 or the version it read
  waits,        \* per consumer, the URLs whose answers its effects await
  shown,        \* per consumer, its data: [key, version], and its error
  due,          \* history: the version a consumer has to show
  asked         \* history: the version its last operation made

server == <<version, pending, timer>>
link == <<source, sources, retries, losses, conn>>
view == <<key, sent, waits, shown, due, asked>>
vars == <<server, feed, link, view>>

Nothing == [key |-> None, version |-> 0, error |-> FALSE]

(* Every consumer mounts with its first fetch and a call of ensureSource.  *)
Init ==
  /\ version = 1 /\ pending = 0 /\ timer = "none"
  /\ feed = <<>>
  /\ source = "connecting" /\ sources = 1 /\ retries = 0 /\ losses = 0
  /\ conn = "connecting"
  /\ key \in [Consumer -> Key]
  /\ sent = [u \in Key |-> IF u \in Range(key) THEN 0 ELSE None]
  /\ waits = [c \in Consumer |-> {key[c]}]
  /\ shown = [c \in Consumer |-> Nothing]
  /\ due = [c \in Consumer |-> 0]
  /\ asked = [c \in Consumer |-> 0]

-----------------------------------------------------------------------------
(* The stream's send, a listener of the bus while the stream is attached.  *)
Sends(announced) == IF source \in {"accepted", "open"} THEN Append(feed, announced) ELSE feed

(* AnalyzerEventCoalescer.record: the sink has stored the result.          *)
Settles ==
  /\ version < MaxVersion /\ version' = version + 1
  /\ pending' = pending + 1
  /\ timer' = IF timer = "none" THEN "runs" ELSE timer
  /\ UNCHANGED <<feed, link, view>>

AfterFlush == "none"

(* flush, by its timer; without a batch nothing is published.              *)
Flush ==
  /\ timer = "runs" /\ pending > 0
  /\ timer' = AfterFlush /\ pending' = 0
  /\ feed' = Sends(version)
  /\ UNCHANGED <<version, link, view>>

(* A rebuild's progress and a score are published at once.                 *)
Publishes ==
  /\ version < MaxVersion /\ version' = version + 1
  /\ feed' = Sends(version + 1)
  /\ UNCHANGED <<pending, timer, link, view>>

-----------------------------------------------------------------------------
(* getJson: a request of the URL that is under way is shared.              *)
Gets(gone) == [u \in Key |-> IF u \in gone /\ sent[u] = None THEN 0 ELSE sent[u]]

(* The tick of useFetch: the effect of before is no longer live, and the   *)
(* new one fetches.                                                        *)
Ticks(cs) ==
  /\ sent' = Gets({key[c] : c \in cs})
  /\ waits' = [c \in Consumer |-> IF c \in cs THEN waits[c] \cup {key[c]} ELSE waits[c]]

(* What a consumer must show because of an event: not what it announces    *)
(* when a request that may be older is shared.                             *)
Owes(cs, announced) ==
  due' = [c \in Consumer |->
            IF c \in cs /\ sent[key[c]] = None /\ announced > due[c] THEN announced ELSE due[c]]

(* An operation of the page changes what it shows, and is answered: reload.*)
Operates(c) ==
  /\ shown[c].key = key[c]
  /\ version < MaxVersion /\ version' = version + 1
  /\ sent' = Gets({key[c]})
  /\ waits' = [waits EXCEPT ![c] = @ \cup {key[c]}]
  /\ asked' = [asked EXCEPT ![c] = version + 1]
  /\ UNCHANGED <<pending, timer, feed, link, key, shown, due>>

(* A poll, or the user's reload.                                           *)
Polls(c) ==
  /\ waits[c] = {}
  /\ Ticks({c})
  /\ UNCHANGED <<server, feed, link, key, shown, due, asked>>

(* The page is rendered with another key: another effect, of another URL.  *)
Turns(c, k) ==
  /\ key[c] # k /\ key' = [key EXCEPT ![c] = k]
  /\ sent' = Gets({k})
  /\ waits' = [waits EXCEPT ![c] = @ \cup {k}]
  /\ due' = [due EXCEPT ![c] = 0]
  /\ asked' = [asked EXCEPT ![c] = 0]
  /\ UNCHANGED <<server, feed, link, shown>>

Serves(u) ==
  /\ sent[u] = 0 /\ sent' = [sent EXCEPT ![u] = version]
  /\ UNCHANGED <<server, feed, link, key, waits, shown, due, asked>>

(* Slip: useFetch without its live flag.                                   *)
EveryEffect(c, u) == TRUE

Live(c, u) == u = key[c]

(* The request settles, with an answer or without, for all who share it.   *)
Settled(u, answer) ==
  /\ sent' = [sent EXCEPT ![u] = None]
  /\ shown' = [c \in Consumer |->
                 IF u \notin waits[c] \/ ~Live(c, u) THEN shown[c]
                 ELSE IF answer = None THEN [shown[c] EXCEPT !.error = TRUE]
                 ELSE [key |-> u, version |-> answer, error |-> FALSE]]
  /\ waits' = [c \in Consumer |-> waits[c] \ {u}]
  /\ UNCHANGED <<server, feed, link, key, due, asked>>

Responds(u) == sent[u] \notin {None, 0} /\ Settled(u, sent[u])
Fails(u) == sent[u] # None /\ Settled(u, None)

-----------------------------------------------------------------------------
NeedsSource == source = "none"

EnsureSource ==
  IF NeedsSource THEN source' = "connecting" /\ sources' = sources + 1
  ELSE UNCHANGED <<source, sources>>

(* Another component mounts.                                               *)
Mounts ==
  /\ EnsureSource
  /\ UNCHANGED <<server, feed, retries, losses, conn, view>>

Retries ==
  /\ retries > 0 /\ retries' = retries - 1
  /\ EnsureSource
  /\ UNCHANGED <<server, feed, losses, conn, view>>

(* The daemon's half of the connection: the stream subscribes to the bus.  *)
Accepts ==
  /\ source = "connecting" /\ source' = "accepted"
  /\ UNCHANGED <<server, feed, sources, retries, losses, conn, view>>

WasDisconnected == conn = "closed"

(* onopen.                                                                 *)
Opens ==
  /\ source = "accepted" /\ source' = "open" /\ conn' = "open"
  /\ IF WasDisconnected THEN Ticks(Consumer) ELSE UNCHANGED <<sent, waits>>
  /\ IF conn = "closed" THEN Owes(Consumer, version) ELSE UNCHANGED due
  /\ UNCHANGED <<server, feed, sources, retries, losses, key, shown, asked>>

(* onmessage.                                                              *)
Delivers ==
  /\ source = "open" /\ feed # <<>> /\ feed' = Tail(feed)
  /\ Ticks(Consumer) /\ Owes(Consumer, Head(feed))
  /\ UNCHANGED <<server, link, key, shown, asked>>

RetryTimer == 1

(* onerror: the browser connects again by itself, or has closed the source.*)
Lost ==
  /\ losses < MaxLosses /\ losses' = losses + 1
  /\ source # "none" /\ feed' = <<>> /\ conn' = "closed"
  /\ \/ source' = "connecting" /\ UNCHANGED <<sources, retries>>
     \/ source' = "none" /\ sources' = sources - 1 /\ retries' = retries + RetryTimer
  /\ UNCHANGED <<server, view>>

-----------------------------------------------------------------------------
Next ==
  \/ Settles \/ Flush \/ Publishes
  \/ \E c \in Consumer : Operates(c) \/ Polls(c) \/ \E k \in Key : Turns(c, k)
  \/ \E u \in Key : Serves(u) \/ Responds(u) \/ Fails(u)
  \/ Mounts \/ Retries \/ Accepts \/ Opens \/ Delivers \/ Lost

(* Timers fire, and a daemon that runs accepts the connection.             *)
Connects == Retries \/ Accepts \/ Opens

Spec == Init /\ [][Next]_vars
FairSpec == Spec /\ WF_vars(Flush) /\ WF_vars(Connects)

-----------------------------------------------------------------------------
(* After an event, or a connection that came back, a page that is neither  *)
(* loading nor in error shows what was announced, or what was there when   *)
(* the connection came back (live-refresh.tsx:36-47), if it did not share  *)
(* a request that was under way.                                           *)
Current(c) == shown[c].version >= due[c]

ShowsWhatIsDue ==
  \A c \in Consumer : waits[c] = {} /\ ~shown[c].error => Current(c)

(* An answer is shown by those only who still want it, and never after a   *)
(* newer one of the same URL.                                              *)
ShownStep ==
  \A c \in Consumer :
    shown[c]' # shown[c] /\ ~shown[c]'.error =>
      /\ shown[c]'.key = key[c]
      /\ shown[c].key = key[c] => shown[c]'.version >= shown[c].version

(* A tab has one EventSource, however often it was lost and retried: each  *)
(* one more takes a connection of the browser's six (live-refresh.tsx:101).*)
OneSource == sources <= 1

(* What settled is announced, and a connection that was lost comes back.   *)
Unannounced == pending > 0
Closed == conn = "closed"

SettledIsAnnounced == Unannounced ~> ~Unannounced
ConnectionReturns == Closed ~> ~Closed

(* `reload()` after a mutation always issues a fresh request (api.ts:41):  *)
(* what it brings is not older than the mutation.                          *)
ReloadIsFresh ==
  \A c \in Consumer : (waits[c] = {} /\ ~shown[c].error) => shown[c].version >= asked[c]

ShownInOrder == [][ShownStep]_vars

-----------------------------------------------------------------------------
(* The proofs, for any keys and any number of components: None is a value  *)
(* that is no version.                                                     *)
LinkType ==
  /\ version \in Nat
  /\ feed \in Seq(Nat)
  /\ source \in {"none", "connecting", "accepted", "open"}
  /\ sources = IF source = "none" THEN 0 ELSE 1

ViewType ==
  /\ key \in [Consumer -> Key]
  /\ sent \in [Key -> Nat \cup {None}]
  /\ waits \in [Consumer -> SUBSET Key]
  /\ shown \in [Consumer -> [key : Key \cup {None}, version : Nat, error : BOOLEAN]]
  /\ due \in [Consumer -> Nat]

(* Nothing is announced, read or shown that has not been there.            *)
NotAhead ==
  /\ \A i \in DOMAIN feed : feed[i] <= version
  /\ \A u \in Key : sent[u] # None => sent[u] <= version
  /\ \A c \in Consumer : due[c] <= version /\ shown[c].version <= version

(* A request that is awaited is under way.                                 *)
Awaited == \A c \in Consumer : \A u \in waits[c] : sent[u] # None

(* What a request has read is not older than what is due, nor than what is *)
(* shown of its URL.                                                       *)
ReadIsNew ==
  /\ \A c \in Consumer : sent[key[c]] \notin {None, 0} => due[c] <= sent[key[c]]
  /\ \A c \in Consumer, u \in Key :
       shown[c].key = u /\ sent[u] \notin {None, 0} => shown[c].version <= sent[u]

(* The last answer for the page's key has brought what is due.             *)
Brought ==
  \A c \in Consumer : key[c] \notin waits[c] /\ ~shown[c].error => due[c] <= shown[c].version

LiveInv == LinkType /\ ViewType /\ NotAhead /\ Awaited /\ ReadIsNew /\ Brought

LEMMA LiveInitInv ==
  ASSUME None \notin Nat, Init
  PROVE  LiveInv
<1>1. LinkType /\ ViewType
  BY DEF Init, LinkType, ViewType, Nothing
<1>2. NotAhead /\ ReadIsNew
  BY DEF Init, NotAhead, ReadIsNew, Nothing
<1>3. Awaited
  BY DEF Init, Awaited, Range
<1>4. Brought
  BY DEF Init, Brought
<1> QED
  BY <1>1, <1>2, <1>3, <1>4 DEF LiveInv

(* The version grows, and what is in the feed is at most it.               *)
LEMMA SendsKeeps ==
  ASSUME None \notin Nat, LiveInv, version' \in Nat, version <= version',
         feed' = feed \/ feed' = Append(feed, version') \/ feed' = Sends(version'),
         UNCHANGED <<link, view>>
  PROVE  LiveInv'
<1> USE DEF LiveInv
<1>1. feed' \in Seq(Nat) /\ \A i \in DOMAIN feed' : feed'[i] <= version'
  <2>1. feed' = feed \/ feed' = Append(feed, version')
    BY DEF Sends
  <2>2. CASE feed' = feed
    <3>1. \A i \in DOMAIN feed : feed[i] \in Nat
      BY ElementOfSeq DEF LinkType
    <3> QED
      BY <2>2, <3>1 DEF LinkType, NotAhead
  <2>3. CASE feed' = Append(feed, version')
    <3>1. /\ feed' \in Seq(Nat) /\ Len(feed') = Len(feed) + 1
          /\ \A i \in 1..Len(feed) : feed'[i] = feed[i] /\ feed[i] \in Nat
          /\ feed'[Len(feed) + 1] = version'
      BY <2>3, AppendProperties, ElementOfSeq DEF LinkType
    <3>2. DOMAIN feed = 1..Len(feed) /\ DOMAIN feed' = 1..(Len(feed) + 1) /\ Len(feed) \in Nat
      BY <3>1, LenProperties DEF LinkType
    <3> QED
      BY <3>1, <3>2 DEF LinkType, NotAhead
  <2> QED
    BY <2>1, <2>2, <2>3
<1>2. LinkType' /\ ViewType'
  BY <1>1 DEF LinkType, ViewType, link, view
<1>3. NotAhead'
  <2>1. \A u \in Key : sent[u] # None => sent[u] \in Nat
    BY DEF ViewType
  <2>2. \A c \in Consumer : due[c] \in Nat /\ shown[c].version \in Nat
    BY DEF ViewType
  <2> QED
    BY <1>1, <2>1, <2>2 DEF NotAhead, LinkType, view
<1>4. Awaited' /\ ReadIsNew' /\ Brought'
  BY DEF Awaited, ReadIsNew, Brought, view
<1> QED
  BY <1>2, <1>3, <1>4

(* Effects that run fetch for their keys: what a component owes is raised  *)
(* when its request is a new one.                                          *)
AsksFor(gone) ==
  /\ sent' = Gets(gone)
  /\ key' \in [Consumer -> Key] /\ due' \in [Consumer -> Nat]
  /\ waits' \in [Consumer -> SUBSET Key]
  /\ \A c \in Consumer :
       /\ waits'[c] = waits[c] \/ (waits'[c] = waits[c] \cup {key'[c]} /\ key'[c] \in gone)
       /\ key'[c] = key[c] \/ (key'[c] \in waits'[c] /\ due'[c] = 0)
       /\ \/ due'[c] \in {0, due[c]}
          \/ /\ sent[key[c]] = None /\ key'[c] = key[c] /\ key[c] \in gone
             /\ key[c] \in waits'[c] /\ due'[c] <= version'
  /\ UNCHANGED shown

LEMMA AsksKeeps ==
  ASSUME None \notin Nat, LiveInv, LinkType', version <= version',
         \A i \in DOMAIN feed' : feed'[i] <= version',
         NEW gone \in SUBSET Key, AsksFor(gone)
  PROVE  LiveInv'
<1> USE DEF LiveInv
<1>1. \A u \in Key : /\ sent[u] \in Nat \cup {None}
                     /\ sent'[u] = IF u \in gone /\ sent[u] = None THEN 0 ELSE sent[u]
  BY DEF AsksFor, Gets, ViewType
<1>2. ViewType'
  <2>1. sent' \in [Key -> Nat \cup {None}]
    BY <1>1 DEF AsksFor, Gets
  <2> QED
    BY <2>1 DEF AsksFor, ViewType
<1>3. \A c \in Consumer :
        /\ key[c] \in Key /\ key'[c] \in Key
        /\ due[c] \in Nat /\ due'[c] \in Nat /\ shown[c].version \in Nat
  BY DEF AsksFor, ViewType
<1>4. version \in Nat /\ version' \in Nat
  BY DEF LinkType
<1>5. NotAhead'
  BY <1>1, <1>3, <1>4 DEF NotAhead, AsksFor
<1>6. Awaited'
  BY <1>1, <1>2, <1>3 DEF Awaited, AsksFor, ViewType
<1>7. ReadIsNew'
  BY <1>1, <1>3 DEF ReadIsNew, AsksFor
<1>8. Brought'
  BY <1>1, <1>3 DEF Brought, AsksFor
<1> QED
  BY <1>2, <1>5, <1>6, <1>7, <1>8

(* Requests that settle, for all that await them.                          *)
LEMMA SettledKeeps ==
  ASSUME None \notin Nat, LiveInv, NEW u \in Key, NEW answer, answer \in {None, sent[u]},
         answer # 0, sent[u] # None, Settled(u, answer)
  PROVE  LiveInv' /\ ShownStep
<1> USE DEF LiveInv
<1>1. \A v \in Key : sent[v] \in Nat \cup {None} /\ sent'[v] = IF v = u THEN None ELSE sent[v]
  BY DEF Settled, ViewType
<1>2. \A c \in Consumer :
        /\ waits'[c] = waits[c] \ {u} /\ waits[c] \in SUBSET Key
        /\ key[c] \in Key /\ due[c] \in Nat
        /\ shown[c].key \in Key \cup {None} /\ shown[c].version \in Nat /\ shown[c].error \in BOOLEAN
  BY DEF Settled, ViewType
<1>3. answer # None => answer \in Nat /\ answer = sent[u] /\ answer <= version
  BY <1>1 DEF NotAhead
<1>4. ASSUME NEW c \in Consumer
      PROVE  /\ shown'[c] \in [key : Key \cup {None}, version : Nat, error : BOOLEAN]
             /\ \/ (u \notin waits[c] \/ u # key[c]) /\ shown'[c] = shown[c]
                \/ /\ u = key[c] /\ shown'[c].error
                   /\ shown'[c].key = shown[c].key /\ shown'[c].version = shown[c].version
                \/ /\ u = key[c] /\ answer # None /\ ~shown'[c].error
                   /\ shown'[c].key = u /\ shown'[c].version = answer
  <2>1. /\ shown[c] \in [key : Key \cup {None}, version : Nat, error : BOOLEAN]
        /\ shown'[c] = IF u \notin waits[c] \/ u # key[c] THEN shown[c]
                       ELSE IF answer = None THEN [shown[c] EXCEPT !.error = TRUE]
                       ELSE [key |-> u, version |-> answer, error |-> FALSE]
    BY DEF Settled, ViewType, Live
  <2>2. CASE u \notin waits[c] \/ u # key[c]
    BY <2>1, <2>2
  <2>3. CASE ~(u \notin waits[c] \/ u # key[c]) /\ answer = None
    BY <2>1, <2>3
  <2>4. CASE ~(u \notin waits[c] \/ u # key[c]) /\ answer # None
    BY <1>3, <2>1, <2>4
  <2> QED
    BY <2>2, <2>3, <2>4
<1>5. ViewType'
  <2>1. shown' \in [Consumer -> [key : Key \cup {None}, version : Nat, error : BOOLEAN]]
    BY <1>4 DEF Settled
  <2>2. sent' \in [Key -> Nat \cup {None}]
    BY DEF Settled, ViewType
  <2>3. waits' \in [Consumer -> SUBSET Key]
    BY <1>2 DEF Settled
  <2> QED
    BY <2>1, <2>2, <2>3 DEF Settled, ViewType
<1>6. LinkType' /\ UNCHANGED <<version, feed, key, due>>
  BY DEF Settled, LinkType, server, link
<1>7. NotAhead'
  <2>1. \A c \in Consumer : shown'[c].version <= version
    BY <1>2, <1>3, <1>4 DEF NotAhead
  <2> QED
    BY <1>1, <1>6, <2>1 DEF NotAhead
<1>8. Awaited'
  <2>1. \A c \in Consumer : \A v \in waits'[c] : v \in Key /\ v # u /\ v \in waits[c]
    BY <1>2
  <2> QED
    BY <1>1, <2>1 DEF Awaited
<1>9. ReadIsNew'
  <2>1. \A c \in Consumer : sent'[key[c]] \notin {None, 0} => due[c] <= sent'[key[c]]
    BY <1>1, <1>2 DEF ReadIsNew
  <2>2. ASSUME NEW c \in Consumer, NEW v \in Key, shown'[c].key = v, sent'[v] \notin {None, 0}
        PROVE  shown'[c].version <= sent'[v]
    <3>1. v # u /\ sent'[v] = sent[v]
      BY <1>1, <2>2
    <3>2. shown'[c].key = shown[c].key /\ shown'[c].version = shown[c].version
      BY <1>4, <2>2, <3>1
    <3> QED
      BY <2>2, <3>1, <3>2 DEF ReadIsNew
  <2> QED
    BY <1>6, <2>1, <2>2 DEF ReadIsNew
<1>10. Brought'
  <2> SUFFICES ASSUME NEW c \in Consumer, key[c] \notin waits'[c], ~shown'[c].error
               PROVE  due[c] <= shown'[c].version
    BY <1>6 DEF Brought
  <2>1. CASE answer # None /\ u = key[c] /\ shown'[c].version = answer
    BY <1>2, <1>3, <2>1 DEF ReadIsNew
  <2>2. CASE (u # key[c] \/ u \notin waits[c]) /\ shown'[c] = shown[c]
    BY <1>2, <2>2 DEF Brought
  <2> QED
    BY <1>4, <2>1, <2>2
<1>11. ShownStep
  <2> SUFFICES ASSUME NEW c \in Consumer, shown'[c] # shown[c], ~shown'[c].error
               PROVE  /\ shown'[c].key = key[c]
                      /\ shown[c].key = key[c] => shown'[c].version >= shown[c].version
    BY DEF ShownStep
  <2>1. /\ u = key[c] /\ answer # None
        /\ shown'[c].key = u /\ shown'[c].version = answer
    BY <1>4
  <2>2. shown[c].key = key[c] => shown[c].version <= answer
    BY <1>3, <2>1 DEF ReadIsNew
  <2> QED
    BY <1>2, <1>3, <2>1, <2>2
<1> QED
  BY <1>5, <1>6, <1>7, <1>8, <1>9, <1>10, <1>11

LEMMA LinkKeeps ==
  ASSUME None \notin Nat, LiveInv, Mounts \/ Retries \/ Accepts \/ Lost
  PROVE  LiveInv' /\ UNCHANGED shown
<1> USE DEF LiveInv
<1>1. UNCHANGED <<version, view>> /\ feed' \in {feed, <<>>}
  BY DEF Mounts, Retries, Accepts, Lost, server
<1>2. source' \in {"none", "connecting", "accepted", "open"}
      /\ sources' = IF source' = "none" THEN 0 ELSE 1
  <2>1. source \in {"none", "connecting", "accepted", "open"}
        /\ sources = IF source = "none" THEN 0 ELSE 1
    BY DEF LinkType
  <2>2. CASE EnsureSource
    BY <2>1, <2>2 DEF EnsureSource, NeedsSource
  <2>3. CASE Accepts \/ Lost
    BY <2>1, <2>3 DEF Accepts, Lost
  <2> QED
    BY <2>2, <2>3 DEF Mounts, Retries
<1>3. feed' \in Seq(Nat) /\ \A i \in DOMAIN feed' : feed'[i] <= version'
  <2>1. CASE feed' = feed
    BY <1>1, <2>1 DEF LinkType, NotAhead
  <2>2. CASE feed' = <<>>
    <3>1. feed' \in Seq(Nat) /\ DOMAIN feed' = {}
      BY <2>2
    <3> QED
      BY <3>1
  <2> QED
    BY <1>1, <2>1, <2>2
<1> QED
  BY <1>1, <1>2, <1>3 DEF LinkType, ViewType, NotAhead, Awaited, ReadIsNew, Brought, view

(* A message, or a connection that came back, makes all of them fetch.     *)
LEMMA TickAsks ==
  ASSUME ViewType, NEW announced \in Nat, announced <= version',
         Ticks(Consumer), Owes(Consumer, announced), UNCHANGED <<key, shown>>
  PROVE  AsksFor({key[c] : c \in Consumer}) /\ {key[c] : c \in Consumer} \in SUBSET Key
<1>1. \A c \in Consumer : key[c] \in Key /\ waits[c] \in SUBSET Key /\ due[c] \in Nat
  BY DEF ViewType
<1>2. \A c \in Consumer : waits'[c] = waits[c] \cup {key[c]} /\ key[c] \in {key[d] : d \in Consumer}
  BY DEF Ticks
<1>3. \A c \in Consumer : due'[c] = due[c] \/ (sent[key[c]] = None /\ due'[c] = announced)
  BY DEF Owes
<1>4. due' \in [Consumer -> Nat]
  BY <1>1, <1>3 DEF Owes
<1>5. waits' \in [Consumer -> SUBSET Key]
  BY <1>1, <1>2 DEF Ticks
<1> QED
  BY <1>1, <1>2, <1>3, <1>4, <1>5 DEF AsksFor, Ticks, ViewType

LEMMA LiveNextInv ==
  ASSUME None \notin Nat, LiveInv, [Next]_vars
  PROVE  LiveInv' /\ (ShownStep \/ UNCHANGED shown)
<1>1. LinkType /\ ViewType /\ NotAhead /\ Awaited /\ ReadIsNew /\ Brought
  BY DEF LiveInv
<1>2. CASE Settles \/ Flush \/ Publishes
  <2>1. version' \in Nat /\ version <= version' /\ UNCHANGED <<link, view>>
    BY <1>1, <1>2 DEF Settles, Flush, Publishes, LinkType
  <2>2. feed' = feed \/ feed' = Sends(version')
    BY <1>2 DEF Settles, Flush, Publishes
  <2> QED
    BY <2>1, <2>2, SendsKeeps DEF view
<1>3. ASSUME NEW c \in Consumer, Operates(c) PROVE LiveInv' /\ UNCHANGED shown
  <2>1. LinkType' /\ version <= version' /\ \A i \in DOMAIN feed' : feed'[i] <= version'
    <3>1. \A i \in DOMAIN feed : feed[i] \in Nat
      BY <1>1, ElementOfSeq DEF LinkType
    <3> QED
      BY <1>1, <1>3, <3>1 DEF Operates, LinkType, NotAhead, link
  <2>2. AsksFor({key[c]}) /\ {key[c]} \in SUBSET Key
    BY <1>1, <1>3 DEF Operates, AsksFor, ViewType
  <2> QED
    BY <1>3, <2>1, <2>2, AsksKeeps DEF Operates
<1>4. ASSUME UNCHANGED version, LinkType', \A i \in DOMAIN feed' : feed'[i] <= version',
             NEW gone \in SUBSET Key, AsksFor(gone)
      PROVE  LiveInv' /\ UNCHANGED shown
  <2>1. version <= version' /\ \A i \in DOMAIN feed' : feed'[i] <= version'
    BY <1>1, <1>4 DEF LinkType
  <2>2. LiveInv'
    BY <1>4, <2>1, AsksKeeps
  <2> QED
    BY <1>4, <2>2 DEF AsksFor
<1>5. ASSUME NEW c \in Consumer, Polls(c) PROVE LiveInv' /\ UNCHANGED shown
  <2>1. AsksFor({key[c]}) /\ {key[c]} \in SUBSET Key
    BY <1>1, <1>5 DEF Polls, Ticks, AsksFor, ViewType
  <2> QED
    BY <1>1, <1>4, <1>5, <2>1 DEF Polls, LinkType, NotAhead, server, link
<1>6. ASSUME NEW c \in Consumer, NEW k \in Key, Turns(c, k) PROVE LiveInv' /\ UNCHANGED shown
  <2>1. AsksFor({k})
    BY <1>1, <1>6 DEF Turns, AsksFor, ViewType
  <2> QED
    BY <1>1, <1>4, <1>6, <2>1 DEF Turns, LinkType, NotAhead, server, link
<1>7. ASSUME NEW u \in Key, Serves(u) PROVE LiveInv' /\ UNCHANGED shown
  <2>1. UNCHANGED <<version, feed, source, sources, key, waits, shown, due>>
        /\ sent[u] = 0 /\ sent' = [sent EXCEPT ![u] = version]
    BY <1>7 DEF Serves, server, link
  <2>2. LinkType' /\ ViewType' /\ version \in Nat
    BY <1>1, <2>1 DEF LinkType, ViewType
  <2>3. \A v \in Key : sent'[v] = IF v = u THEN version ELSE sent[v]
    BY <1>1, <2>1 DEF ViewType
  <2>4. \A c \in Consumer : key[c] \in Key
    BY <1>1 DEF ViewType
  <2>5. NotAhead' /\ Awaited' /\ Brought'
    BY <1>1, <2>1, <2>2, <2>3 DEF NotAhead, Awaited, Brought, ViewType
  <2>6. ReadIsNew'
    BY <1>1, <2>1, <2>3, <2>4 DEF ReadIsNew, NotAhead
  <2> QED
    BY <2>1, <2>2, <2>5, <2>6 DEF LiveInv
<1>8. ASSUME NEW u \in Key, Responds(u) \/ Fails(u) PROVE LiveInv' /\ ShownStep
  <2>1. PICK answer \in {None, sent[u]} : answer # 0 /\ sent[u] # None /\ Settled(u, answer)
    BY <1>8 DEF Responds, Fails
  <2> QED
    BY <2>1, SettledKeeps
<1>9. CASE Opens
  <2>1. UNCHANGED <<version, feed, key, shown>> /\ LinkType'
    BY <1>1, <1>9 DEF Opens, LinkType, server
  <2>2. CASE conn = "closed"
    <3>1. Ticks(Consumer) /\ Owes(Consumer, version) /\ version \in Nat
      BY <1>1, <1>9, <2>2 DEF Opens, WasDisconnected, LinkType
    <3>2. AsksFor({key[c] : c \in Consumer}) /\ {key[c] : c \in Consumer} \in SUBSET Key
      BY <1>1, <2>1, <3>1, TickAsks
    <3> QED
      BY <1>1, <1>4, <2>1, <3>1, <3>2 DEF NotAhead
  <2>3. CASE conn # "closed"
    <3>1. UNCHANGED <<sent, waits, due>>
      BY <1>9, <2>3 DEF Opens, WasDisconnected
    <3> QED
      BY <1>1, <2>1, <3>1 DEF LiveInv, ViewType, NotAhead, Awaited, ReadIsNew, Brought
  <2> QED
    BY <2>2, <2>3
<1>10. CASE Delivers
  <2>1. /\ UNCHANGED <<version, key, shown, source, sources>> /\ feed # <<>> /\ feed' = Tail(feed)
        /\ sent' = Gets({key[c] : c \in Consumer})
    BY <1>10 DEF Delivers, Ticks, server, link
  <2>2. /\ feed' \in Seq(Nat) /\ Head(feed) \in Nat /\ Head(feed) <= version
        /\ \A i \in DOMAIN feed' : feed'[i] <= version
    <3>1. Len(feed) \in Nat /\ Len(feed) # 0 /\ DOMAIN feed = 1..Len(feed)
      BY <1>1, <2>1, EmptySeq, LenProperties DEF LinkType
    <3>2. feed' \in Seq(Nat) /\ Len(feed') = Len(feed) - 1 /\ \A i \in 1..Len(feed') : feed'[i] = feed[i + 1]
      BY <1>1, <2>1, <3>1, HeadTailProperties DEF LinkType
    <3>3. Head(feed) = feed[1]
      BY <1>1, <2>1 DEF LinkType
    <3>4. feed[1] \in Nat
      BY <1>1, <3>1, ElementOfSeq DEF LinkType
    <3>5. DOMAIN feed' = 1..Len(feed')
      BY <3>2, LenProperties
    <3>6. \A i \in DOMAIN feed : feed[i] <= version
      BY <1>1 DEF NotAhead
    <3>7. ASSUME NEW i \in DOMAIN feed' PROVE feed'[i] <= version
      <4>1. i + 1 \in DOMAIN feed /\ feed'[i] = feed[i + 1]
        BY <3>1, <3>2, <3>5
      <4> QED
        BY <3>6, <4>1
    <3> QED
      BY <3>1, <3>2, <3>3, <3>4, <3>6, <3>7
  <2>3. LinkType'
    BY <1>1, <2>1, <2>2 DEF LinkType
  <2>4. AsksFor({key[c] : c \in Consumer}) /\ {key[c] : c \in Consumer} \in SUBSET Key
    BY <1>1, <1>10, <2>1, <2>2, TickAsks DEF Delivers
  <2> QED
    BY <1>4, <2>1, <2>2, <2>3, <2>4
<1>11. CASE UNCHANGED vars
  BY <1>1, <1>11 DEF LiveInv, LinkType, ViewType, NotAhead, Awaited, ReadIsNew, Brought,
                     vars, server, link, view
<1>12. CASE Mounts \/ Retries \/ Accepts \/ Lost
  BY <1>12, LinkKeeps
<1> QED
  BY <1>2, <1>3, <1>5, <1>6, <1>7, <1>8, <1>9, <1>10, <1>11, <1>12 DEF Next, view

LEMMA LiveInvSound ==
  ASSUME LiveInv
  PROVE  ShowsWhatIsDue /\ OneSource
BY DEF LiveInv, LinkType, ViewType, Brought, ShowsWhatIsDue, Current, OneSource

(* live-refresh.tsx, use-fetch.ts: what was announced, or was there when   *)
(* the connection came back, is shown by every page that neither loads nor *)
(* is in error, over one EventSource, for any pages and keys.              *)
THEOREM PagesAreCurrent ==
  ASSUME None \notin Nat
  PROVE  Spec => [](ShowsWhatIsDue /\ OneSource)
<1>1. Init => LiveInv
  BY LiveInitInv
<1>2. LiveInv /\ [Next]_vars => LiveInv'
  BY LiveNextInv
<1>3. LiveInv => ShowsWhatIsDue /\ OneSource
  BY LiveInvSound
<1> QED
  BY <1>1, <1>2, <1>3, PTL DEF Spec

(* An answer is shown by those only who still want it, and never after a   *)
(* newer one of the same URL.                                              *)
THEOREM AnswersInOrder ==
  ASSUME None \notin Nat
  PROVE  Spec => ShownInOrder
<1>1. Init => LiveInv
  BY LiveInitInv
<1>2. LiveInv /\ [Next]_vars => LiveInv'
  BY LiveNextInv
<1>3. LiveInv /\ [Next]_vars => [ShownStep]_vars
  <2>1. UNCHANGED shown => ShownStep
    BY DEF ShownStep
  <2> QED
    BY <2>1, LiveNextInv
<1> QED
  BY <1>1, <1>2, <1>3, PTL DEF Spec, ShownInOrder
=============================================================================
