---------------------------- MODULE ModelConsent ----------------------------
(***************************************************************************)
(* The consent to fetch a model over the network: the outbound gate of a   *)
(* process (core/src/network.ts), the models the user has downloaded       *)
(* (trusted-models.ts), the provider that loads one (embeddings/local.ts)  *)
(* and who asks for it: the daemon when it boots, /api/models/download in  *)
(* the daemon, `loctx model download` and the wizard in a process of their *)
(* own.                                                                    *)
(***************************************************************************)
EXTENDS Naturals, Absence

CONSTANTS
  Model,
  Api,          \* calls of /api/models/download
  Cli           \* runs of `loctx model download` and `loctx init`

ASSUME ConsentAssumption == Api \cap Cli = {} /\ \A list \in SUBSET Model : list # None

Fetch == Api \cup Cli

VARIABLES
  trusted,      \* trusted-models.json, None when it cannot be parsed
  cached,       \* models whose files are complete in the cache of the library
  open,         \* allowedReasons of the daemon's process holds model-download
  runtime,      \* where the daemon is, and its model
  fetch,        \* per request: where it is, its model, what it read
  asked,        \* the models that a user asked for
  overwritten   \* consents another process has overwritten

consentVars == <<trusted, cached, open, runtime, fetch, asked, overwritten>>

NoFetch == [at |-> "idle", model |-> None, read |-> {}]

(* loadTrusted: a corrupt file is an empty one.                            *)
Trusted == IF trusted = None THEN {} ELSE trusted

ConsentInit ==
  /\ trusted = {} /\ cached = {} /\ open = FALSE
  /\ runtime = [at |-> "off", model |-> None]
  /\ fetch = [f \in Fetch |-> NoFetch]
  /\ asked = {} /\ overwritten = {}

At(f, at) == fetch' = [fetch EXCEPT ![f].at = at]

-----------------------------------------------------------------------------
(* ensureReady's two stages: a trusted model, or the gate of the process.  *)
Allowed(m) == m \in Trusted \/ open

(* buildRuntime; the gate of a new process is closed.  A trusted model     *)
(* that is in the cache is loaded from there.                              *)
Boots(m) ==
  /\ runtime.at = "off"
  /\ runtime' = IF Allowed(m) THEN [at |-> "loads", model |-> m] ELSE runtime
  /\ UNCHANGED <<trusted, cached, open, fetch, asked, overwritten>>

BootLoads ==
  /\ runtime.at = "loads"
  /\ \/ runtime' = [runtime EXCEPT !.at = "up"] /\ cached' = cached \cup {runtime.model}
     \/ runtime' = [at |-> "off", model |-> None] /\ UNCHANGED cached
  /\ UNCHANGED <<trusted, open, fetch, asked, overwritten>>

(* The daemon's process ends, at any point of its requests.                *)
DaemonExits ==
  /\ runtime.at = "up" /\ runtime' = [at |-> "off", model |-> None]
  /\ open' = FALSE
  /\ fetch' = [f \in Fetch |-> IF f \in Api /\ fetch[f].at # "idle"
                               THEN [fetch[f] EXCEPT !.at = "over"] ELSE fetch[f]]
  /\ UNCHANGED <<trusted, cached, asked, overwritten>>

-----------------------------------------------------------------------------
Process(f) == IF f \in Api THEN Api ELSE {f}

(* What a process does between two awaits, it does alone: it reads the     *)
(* list of trusted models and writes it in one go.                         *)
MayRun(f) == \A g \in Process(f) \ {f} : fetch[g].at # "writes"

(* The request opens the gate of its process and starts to load.           *)
Download(f, m) ==
  /\ fetch[f] = NoFetch /\ MayRun(f)
  /\ f \in Api => runtime.at = "up"
  /\ fetch' = [fetch EXCEPT ![f] = [at |-> "loads", model |-> m, read |-> {}]]
  /\ open' = (open \/ f \in Api)
  /\ asked' = asked \cup {m}
  /\ UNCHANGED <<trusted, cached, runtime, overwritten>>

(* The files are there and the probe has an embedding, or it fails.        *)
Loads(f) ==
  /\ fetch[f].at = "loads" /\ MayRun(f)
  /\ cached' = cached \cup {fetch[f].model}
  /\ fetch' = [fetch EXCEPT ![f].at = "writes", ![f].read = Trusted]
  /\ UNCHANGED <<trusted, open, runtime, asked, overwritten>>

(* The route answers in finally, whatever came of the load; the commands   *)
(* end with the error.                                                     *)
EndsAt(f) == IF f \in Api THEN "cleans" ELSE "over"

LoadFails(f) ==
  /\ fetch[f].at = "loads" /\ MayRun(f)
  /\ At(f, EndsAt(f))
  /\ UNCHANGED <<trusted, cached, open, runtime, asked, overwritten>>

WithModel(f) == fetch[f].read \cup {fetch[f].model}

(* markModelTrusted.  A model that is listed is not written again.         *)
Marks(f) ==
  /\ fetch[f].at = "writes"
  /\ IF fetch[f].model \in fetch[f].read THEN UNCHANGED <<trusted, overwritten>>
     ELSE /\ trusted' = WithModel(f)
          /\ overwritten' = (overwritten \cup (Trusted \ fetch[f].read)) \ WithModel(f)
  /\ At(f, IF f \in Api THEN "disposes" ELSE "done")
  /\ UNCHANGED <<cached, open, runtime, asked>>

(* Slip: the gate is closed only after a download that succeeded.          *)
StaysOpen(f) == open /\ fetch[f].at = "cleans"

Closed(f) == FALSE

(* dispose, at once or given up after its timeout; then the gate closes.   *)
Disposes(f) ==
  /\ fetch[f].at \in {"disposes", "cleans"} /\ MayRun(f)
  /\ open' = Closed(f)
  /\ At(f, IF fetch[f].at = "disposes" THEN "done" ELSE "over")
  /\ UNCHANGED <<trusted, cached, runtime, asked, overwritten>>

(* The file is damaged.                                                    *)
Corrupt ==
  /\ trusted # None /\ trusted # {} /\ trusted' = None
  /\ overwritten' = overwritten \cup trusted
  /\ UNCHANGED <<cached, open, runtime, fetch, asked>>

ConsentNext ==
  \/ \E m \in Model : Boots(m)
  \/ BootLoads \/ DaemonExits \/ Corrupt
  \/ \E f \in Fetch, m \in Model : Download(f, m)
  \/ \E f \in Fetch : Loads(f) \/ LoadFails(f) \/ Marks(f) \/ Disposes(f)

ConsentSpec == ConsentInit /\ [][ConsentNext]_consentVars

-----------------------------------------------------------------------------
(* "never leave outbound open past the explicit user-triggered download":  *)
(* the gate is open only while a download is in flight, however downloads  *)
(* overlap and whatever comes of them.                                     *)
OpenOnlyToDownload == open => \E f \in Api : fetch[f].at \in {"loads", "writes", "disposes", "cleans"}

(* Nothing is fetched that no user asked for, and what is trusted can be   *)
(* loaded with no network: it is complete in the cache.                    *)
NoUnaskedFetch == cached \subseteq asked
TrustedIsCached == Trusted \subseteq cached

(* "The earlier explicit consent stands": a model that was downloaded is   *)
(* trusted from then on, unless the file was damaged or another process    *)
(* wrote a list it had read before.                                        *)
ConsentStands ==
  \A f \in Fetch : fetch[f].at = "done" => fetch[f].model \in Trusted \cup overwritten

(* The gate is open only to download, nothing is fetched unasked, what is  *)
(* trusted needs no network, and a consent given stands.                   *)
ConsentHolds == OpenOnlyToDownload /\ NoUnaskedFetch /\ TrustedIsCached /\ ConsentStands
=============================================================================
