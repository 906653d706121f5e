----------------------------- MODULE Embeddings -----------------------------
(***************************************************************************)
(* LocalEmbeddingProvider (packages/core/src/embeddings/local.ts): one ONNX*)
(* session that is loaded when first needed, calls that overlap, and the   *)
(* dispose() of a runtime that closes.  A load is a position of session; a *)
(* vector is the text it was made of.                                      *)
(***************************************************************************)
EXTENDS Naturals, Sequences, Absence

CONSTANTS
  Call,         \* calls of the provider
  MaxTexts,     \* bound: texts of one call
  DefaultBatch  \* the size of a batch when the environment names none

ASSUME EmbedAssumption ==
  /\ MaxTexts \in Nat /\ DefaultBatch \in Nat \ {0}
  /\ None \notin Nat

VARIABLES
  consent,      \* the model is trusted, or the network open to download it
  size,         \* EMBED_BATCH_SIZE
  session,      \* per load "loading", "up", "failed" or "released"
  pipelineP,    \* the load the provider refers to, None for null
  identity,     \* cachedIdentity is known
  call,         \* per call what it was asked, where it is and what it has
  closing       \* dispose(): where it is and the load it holds

embedVars == <<consent, size, session, pipelineP, identity, call, closing>>

CallKind == {"ready", "query", "documents"}
Ended == {"done", "failed"}

Prefixed(kind, n) == [i \in 1..n |-> <<kind, i>>]

BatchSize(raw) == IF raw = None \/ raw = 0 THEN DefaultBatch ELSE raw

Idle == [at |-> "idle", kind |-> None, texts |-> <<>>, load |-> None, out |-> <<>>]

EmbedInit ==
  /\ consent \in BOOLEAN
  /\ size \in {BatchSize(raw) : raw \in {None, 0, 1}}
  /\ session = <<>>
  /\ pipelineP = None
  /\ identity = FALSE
  /\ call = [c \in Call |-> Idle]
  /\ closing = [at |-> "no", load |-> None]

Moves(c, at) == call' = [call EXCEPT ![c].at = at]

(* Slip: the promise is kept once it has resolved.                         *)
WhenResolved ==
  LET known == pipelineP # None /\ session[pipelineP] = "up" IN
  /\ pipelineP' = IF known THEN pipelineP ELSE Len(session) + 1
  /\ session' = IF known THEN session ELSE Append(session, "loading")

getPipeline ==
  /\ pipelineP' = IF pipelineP = None THEN Len(session) + 1 ELSE pipelineP
  /\ session' = IF pipelineP = None THEN Append(session, "loading") ELSE session

-----------------------------------------------------------------------------
(* ensureReady and what embedBatch does before it: one turn.               *)
Begins(c, kind, n) ==
  LET asked(at, load) ==
        [call EXCEPT ![c] = [at |-> at, kind |-> kind, texts |-> Prefixed(kind, n),
                             load |-> load, out |-> <<>>]]
      nothing == kind = "documents" /\ n = 0
  IN  /\ call[c].at = "idle"
      /\ (kind = "ready" => n = 0) /\ (kind = "query" => n = 1)
      /\ CASE nothing \/ (kind = "ready" /\ identity) ->
                 call' = asked("done", None) /\ UNCHANGED <<session, pipelineP>>
           [] ~nothing /\ identity /\ kind # "ready" ->
                 call' = asked("ready", None) /\ UNCHANGED <<session, pipelineP>>
           [] ~nothing /\ ~identity /\ ~consent ->
                 call' = asked("failed", None) /\ UNCHANGED <<session, pipelineP>>
           [] ~nothing /\ ~identity /\ consent ->
                 getPipeline /\ call' = asked("loading", pipelineP')
      /\ UNCHANGED <<consent, size, identity, closing>>

(* The awaited load settles: for the probe, or for the batches.            *)
Loaded(c) ==
  /\ call[c].at \in {"loading", "waiting"}
  /\ session[call[c].load] # "loading"
  /\ Moves(c, IF session[call[c].load] = "failed" THEN "failed"
              ELSE IF call[c].at = "loading" THEN "probing" ELSE "embedding")
  /\ UNCHANGED <<consent, size, session, pipelineP, identity, closing>>

(* A session that was released answers nothing.                            *)
Alive(c) == session[call[c].load] = "up"

Probed(c) ==
  /\ call[c].at = "probing"
  /\ IF Alive(c)
     THEN /\ identity' = TRUE
          /\ Moves(c, IF call[c].kind = "ready" THEN "done" ELSE "ready")
     ELSE Moves(c, "failed") /\ UNCHANGED identity
  /\ UNCHANGED <<consent, size, session, pipelineP, closing>>

(* embedBatch after ensureReady has resolved.                              *)
GetsPipeline(c) ==
  /\ call[c].at = "ready"
  /\ getPipeline
  /\ call' = [call EXCEPT ![c].at = "waiting", ![c].load = pipelineP']
  /\ UNCHANGED <<consent, size, identity, closing>>

End(texts, done) == IF done + size < Len(texts) THEN done + size ELSE Len(texts)

Slice(texts, done) == SubSeq(texts, done + 1, End(texts, done))

(* One batch; the call returns with the last.                              *)
Embeds(c) ==
  LET out == call[c].out \o Slice(call[c].texts, Len(call[c].out)) IN
  /\ call[c].at = "embedding"
  /\ IF Alive(c)
     THEN call' = [call EXCEPT ![c].out = out,
                    ![c].at = IF Len(out) < Len(call[c].texts) THEN @ ELSE "done"]
     ELSE Moves(c, "failed")
  /\ UNCHANGED <<consent, size, session, pipelineP, identity, closing>>

(* Of the model itself, at the probe or at a batch.                        *)
Rejects(c) ==
  /\ call[c].at \in {"probing", "embedding"}
  /\ Moves(c, "failed")
  /\ UNCHANGED <<consent, size, session, pipelineP, identity, closing>>

Loads(l) ==
  /\ session[l] = "loading"
  /\ \E outcome \in {"up", "failed"} : session' = [session EXCEPT ![l] = outcome]
  /\ UNCHANGED <<consent, size, pipelineP, identity, call, closing>>

Consents ==
  /\ ~consent /\ consent' = TRUE
  /\ UNCHANGED <<size, session, pipelineP, identity, call, closing>>

-----------------------------------------------------------------------------
(* close() of the runtime calls it once, whatever is under way.            *)
Disposes ==
  /\ closing.at = "no"
  /\ closing' = [at |-> IF pipelineP = None THEN "done" ELSE "waiting", load |-> pipelineP]
  /\ pipelineP' = None
  /\ identity' = IF pipelineP = None THEN identity ELSE FALSE
  /\ UNCHANGED <<consent, size, session, call>>

HasLoaded ==
  /\ closing.at = "waiting" /\ session[closing.load] # "loading"
  /\ closing' = [closing EXCEPT !.at = IF session[closing.load] = "failed" THEN "done" ELSE "releasing"]
  /\ UNCHANGED <<consent, size, session, pipelineP, identity, call>>

Releases ==
  /\ closing.at = "releasing"
  /\ \E outcome \in {"released", "up"} : session' = [session EXCEPT ![closing.load] = outcome]
  /\ closing' = [closing EXCEPT !.at = "done"]
  /\ UNCHANGED <<consent, size, pipelineP, identity, call>>

TimesOut ==
  /\ closing.at = "releasing"
  /\ closing' = [closing EXCEPT !.at = "done"]
  /\ UNCHANGED <<consent, size, session, pipelineP, identity, call>>

Proceeds(c) == Loaded(c) \/ Probed(c) \/ GetsPipeline(c) \/ Embeds(c)
Closes == HasLoaded \/ TimesOut

EmbedNext ==
  \/ \E c \in Call : (\E kind \in CallKind, n \in 0..MaxTexts : Begins(c, kind, n))
                     \/ Proceeds(c) \/ Rejects(c)
  \/ \E l \in DOMAIN session : Loads(l)
  \/ Consents \/ Disposes \/ Closes \/ Releases

LoadsEnd == \E l \in DOMAIN session : Loads(l)

(* A load ends, for better or worse; release() of a session may hang.      *)
EmbedFairness ==
  /\ WF_embedVars(LoadsEnd) /\ WF_embedVars(Closes)
  /\ \A c \in Call : WF_embedVars(Proceeds(c))

EmbedSpec == EmbedInit /\ [][EmbedNext]_embedVars

-----------------------------------------------------------------------------
(* However calls overlap with one another and with dispose(), no session is*)
(* loaded that the provider has lost sight of (local.ts:183-186): what is  *)
(* loading or up is the one new calls will use, or the one dispose() took. *)
OneSession ==
  \A l \in DOMAIN session : session[l] \in {"loading", "up"} => l \in {pipelineP, closing.load}

(* A call that succeeds has a vector per text, in the order of the texts   *)
(* and with its own prefix, whatever the batches are and whatever was      *)
(* disposed of meanwhile (local.ts:170-180).                               *)
VectorsInOrder ==
  \A c \in Call : call[c].at = "done" /\ call[c].kind # "ready" => call[c].out = call[c].texts

(* Both.                                                                   *)
EmbeddingsInOrder == OneSession /\ VectorsInOrder

(* Every call ends, for every value of LOCTX_EMBED_BATCH_SIZE, and so does *)
(* dispose(), though the release of the session hangs (local.ts:42-47,     *)
(* 231-239).                                                               *)
EmbeddingEnds ==
  /\ \A c \in Call : call[c].at # "idle" ~> call[c].at \in Ended
  /\ closing.at = "waiting" ~> closing.at = "done"
=============================================================================
