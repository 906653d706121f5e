------------------------------- MODULE UrlQuery -------------------------------
(***************************************************************************)
(* The search page's query (client/lib/use-url-query.ts, query-codecs.ts): *)
(* a form that is submitted, a URL that mirrors it and may come from       *)
(* elsewhere, and requests whose answers may come in another order.  The   *)
(* pages of find-usages and find-literal differ in their fields alone.     *)
(***************************************************************************)
EXTENDS Integers, FiniteSets

CONSTANTS
  MaxFires,     \* bound: requests
  None

(* Words for the query, one with a blank to trim, and spellings of limit,  *)
(* one that parseInt reads and one that it does not.                       *)
Word == {"", "a", " a"}
Spelling == {"", "5x", "x"}

Url == [q : Word, limit : Spelling \cup {"5"}]
SEARCH_DEFAULT_LIMIT == 10

VARIABLES
  url,          \* the parameters of the location
  stale,        \* the effect on the parameters has not run yet
  lastFired,    \* the canonical parameters of the last request
  seq,
  flying,       \* requests that are not answered: [id, req]
  phase,        \* "idle", "busy", "done" or "error"
  data,         \* the request whose answer is shown, or None
  fired         \* history: requests since the user's last step

vars == <<url, stale, lastFired, seq, flying, phase, data, fired>>

-----------------------------------------------------------------------------
Trim(w) == IF w = " a" THEN "a" ELSE w
Parsed(limit) == IF limit \in {"5", "5x"} THEN 5 ELSE SEARCH_DEFAULT_LIMIT

decode(u) ==
  IF Trim(u.q) = "" THEN None ELSE [q |-> Trim(u.q), limit |-> Parsed(u.limit)]

(* Defaults are left out.                                                  *)
encode(req) ==
  [q |-> req.q, limit |-> IF req.limit = SEARCH_DEFAULT_LIMIT THEN "" ELSE "5"]

Init ==
  /\ url \in Url /\ stale = TRUE
  /\ lastFired = [q |-> "", limit |-> ""]
  /\ seq = 0 /\ flying = {} /\ phase = "idle" /\ data = None /\ fired = 0

-----------------------------------------------------------------------------
fire(req) ==
  /\ seq' = seq + 1 /\ flying' = flying \cup {[id |-> seq + 1, req |-> req]}
  /\ phase' = "busy" /\ UNCHANGED data

clear == seq' = seq + 1 /\ phase' = "idle" /\ data' = None /\ UNCHANGED flying

Handed(w) == Trim(w)

Submit(w, limit) ==
  LET req == [q |-> Handed(w), limit |-> Parsed(limit)]
      next == encode(req)
  IN /\ ~stale /\ seq < MaxFires
     /\ lastFired' = next
     /\ url' = next /\ stale' = (url # next)
     /\ IF decode(next) = None THEN clear /\ fired' = 0 ELSE fire(req) /\ fired' = 1

(* A bookmark, a link, back or forward.                                    *)
Navigates(u) ==
  /\ ~stale /\ u # url
  /\ url' = u /\ stale' = TRUE /\ fired' = 0
  /\ UNCHANGED <<lastFired, seq, flying, phase, data>>

(* The effect of useUrlQuery.                                              *)
AutoFires ==
  /\ stale /\ stale' = FALSE
  /\ LET req == decode(url) IN
       IF req = None \/ lastFired = encode(req)
       THEN UNCHANGED <<lastFired, seq, flying, phase, data, fired>>
       ELSE seq < MaxFires /\ lastFired' = encode(req) /\ fire(req) /\ fired' = fired + 1
  /\ UNCHANGED url

Latest(id) == seq = id

Answered(f) ==
  /\ f \in flying /\ flying' = flying \ {f}
  /\ \E ok \in BOOLEAN :
       IF ~Latest(f.id) THEN UNCHANGED <<phase, data>>
       ELSE /\ phase' = IF ok THEN "done" ELSE "error"
            /\ data' = IF ok THEN f.req ELSE None
  /\ UNCHANGED <<url, stale, lastFired, seq, fired>>

Next ==
  \/ \E w \in Word, limit \in Spelling : Submit(w, limit)
  \/ \E u \in Url : Navigates(u)
  \/ AutoFires
  \/ \E f \in flying : Answered(f)

Spec == Init /\ [][Next]_vars

-----------------------------------------------------------------------------
(* What is shown as the result of the URL is its result, in whatever order *)
(* the answers came, and however the URL is spelled.                       *)
ShowsItsUrl ==
  (phase = "done" /\ ~stale /\ decode(url) # None) => data = decode(url)

(* A step of the user leads to one request at most: the URL that a submit  *)
(* has written does not fire it again (use-url-query.ts:14-18).            *)
FiresOnce == fired <= 1
=============================================================================
