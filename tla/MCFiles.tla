------------------------------ MODULE MCFiles ------------------------------
(***************************************************************************)
(* The watcher, the embedding model and the files of coding agents, checked*)
(* in one run: a behaviour is of one part, chosen at the start.  Watcher   *)
(* and Embeddings have their own variables, which stay at one initial state*)
(* while another part runs; AgentSetup is an instance over those below.    *)
(***************************************************************************)
EXTENDS Watcher, Embeddings

CONSTANT Parts

ASSUME PartsAssumption == Parts \subseteq {"watcher", "agents", "embeddings"}

VARIABLES part, u1, u2, u3, u4, u5, u6

own == <<u1, u2, u3, u4, u5, u6>>
allVars == <<vars, embedVars, part, own>>

Unused == u1 = None /\ u2 = None /\ u3 = None /\ u4 = None /\ u5 = None /\ u6 = None

Setup == INSTANCE AgentSetup WITH
       Project <- {"p"}, Agent <- {"claude"}, MaxEdits <- 1, MaxText <- 6,
       file <- u1, version <- u2, command <- u3, stale <- u4, edits <- u5, unread <- u6

ASSUME AgentsAssumption == None \notin Seq(Setup!Piece) /\ None \notin Setup!Own

AllInit ==
  /\ part \in Parts
  /\ Init /\ (part # "watcher" => rules = {} /\ \A p \in Path : disk[p] = Absent /\ index[p] = Absent)
  /\ EmbedInit /\ (part # "embeddings" => ~consent /\ size = DefaultBatch)
  /\ IF part = "agents" THEN Setup!Init ELSE Unused

AllNext ==
  /\ UNCHANGED part
  /\ \/ part = "watcher" /\ Next /\ UNCHANGED <<embedVars, own>>
     \/ part = "embeddings" /\ EmbedNext /\ UNCHANGED <<vars, own>>
     \/ part = "agents" /\ Setup!Next /\ UNCHANGED <<vars, embedVars>>

AllFairSpec == AllInit /\ [][AllNext]_allVars /\ Fairness /\ EmbedFairness

-----------------------------------------------------------------------------
(* AgentSetup: what is the user's stays, and a refresh brings what is wired*)
(* up to date.                                                             *)
UserContentKept ==
  /\ [][part = "agents" => Setup!KeepsContent]_allVars
  /\ [](part = "agents" => Setup!Restamps)

(* Watcher and Embeddings: the index comes to rest on what the disk and the*)
(* rules say; every call of the provider ends, and so does dispose().      *)
FilesSettle == Converges /\ EmbeddingEnds
=============================================================================
