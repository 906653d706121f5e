---------------------------- MODULE StoresProofs ----------------------------
(***************************************************************************)
(* What MCStores composes.  The two queues and the commit marker of        *)
(* Indexer, for any number of files, calls and texts; and Migrations, for  *)
(* any ladder, any number of processes and stops: a current version tells  *)
(* the truth about the schema, and old projects stay active unless a       *)
(* process stopped right before the update.                                *)
(***************************************************************************)
EXTENDS Indexer, Migrations, SequenceTheorems, TLAPS

(* A call past its first await knows its file, and its text if it persists.*)
ArgsOK ==
  \A c \in Caller :
    /\ call[c].pc # "idle" => call[c].file \in File
    /\ call[c].pc \in {"embedding", "queued"} \cup Critical => call[c].text \in Text

(* A chain holds the calls waiting for its file, each once; only the first *)
(* may be in the critical section, and whoever is there is the first.      *)
Waits(c) == call[c].pc \in {"queued"} \cup Critical

ChainOK ==
  /\ \A f \in File : \A i \in 1..Len(chain[f]) :
       /\ Waits(chain[f][i])
       /\ call[chain[f][i]].file = f
       /\ i > 1 => call[chain[f][i]].pc = "queued"
  /\ \A f \in File : \A i, j \in 1..Len(chain[f]) : chain[f][i] = chain[f][j] => i = j
  /\ \A c \in Caller : call[c].pc \in Critical => Holds(c)

(* A persist and a delete of one file that overlap are both marked.        *)
OverlapOK ==
  \A c, d \in Caller :
    /\ call[c].pc \in Critical
    /\ call[d].pc \in Deleting
    /\ call[c].file = call[d].file
    => c \in raced /\ d \in raced

(* What a call has written so far is still there.                          *)
WritesOK ==
  \A c \in Caller :
    /\ call[c].pc \in Critical /\ c \notin raced => chunks[call[c].file] = call[c].text
    /\ call[c].pc \in {"cleared", "upserting"} => vecs[call[c].file] = {}
    /\ call[c].pc = "upserted" /\ c \notin raced => vecs[call[c].file] = {call[c].text}
    /\ call[c].pc = "vecGone" /\ c \notin raced => vecs[call[c].file] = {}

(* The two halves of StoresAgree; a delete disturbs only the second.       *)
Unwritten(f) == \A c \in Caller : call[c].file = f => call[c].pc \notin Critical
Undeleted(f) == \A c \in Caller : call[c].file = f => call[c].pc # "vecGone"

ChunksAgree ==
  \A f \in File : f \notin suspect /\ Unwritten(f) => chunks[f] = Sha(f)

VecsAgree ==
  \A f \in File : f \notin suspect /\ Unwritten(f) /\ Undeleted(f) =>
    /\ Sha(f) = None => vecs[f] = {}
    /\ Sha(f) # None => vecs[f] = {Sha(f)}

IndInv == TypeOK /\ ArgsOK /\ ChainOK /\ OverlapOK /\ WritesOK /\ ChunksAgree
          /\ VecsAgree /\ OneGeneration

-----------------------------------------------------------------------------
(* A row with a hash is a row, and never the absent one.                   *)
LEMMA RowFacts ==
  ASSUME NEW s \in Text \cup {None}, NEW b \in BOOLEAN
  PROVE  [sha |-> s, error |-> b] \in Row /\ [sha |-> s, error |-> b] # None
<1>1. [sha |-> s, error |-> b] \in Row
  BY DEF Row
<1> QED
  BY <1>1, RowAssumption

(* The invariant holds of empty stores and idle calls.                     *)
LEMMA InitInd == Init => IndInv
  BY ContentAssumption
  DEF Init, IndInv, TypeOK, ArgsOK, ChainOK, OverlapOK, WritesOK, ChunksAgree,
      VecsAgree, OneGeneration, Idle, Call, PC, Critical, Deleting, Sha, DiskState

(* What the three ways of updating call do to its fields.                  *)
LEMMA MoveFacts ==
  ASSUME call \in [Caller -> Call], NEW c \in Caller, NEW p \in PC, MovesTo(c, p)
  PROVE  /\ call' \in [Caller -> Call]
         /\ \A d \in Caller : d # c => call'[d] = call[d]
         /\ call'[c].pc = p
         /\ call'[c].file = call[c].file
         /\ call'[c].text = call[c].text
<1>1. [call[c] EXCEPT !.pc = p] \in Call
  BY DEF Call
<1> QED
  BY <1>1 DEF MovesTo, Call

(* A call that starts has the fields it was given.                         *)
LEMMA StartFacts ==
  ASSUME call \in [Caller -> Call], NEW c \in Caller, NEW p \in PC, NEW f \in File,
         NEW t \in Text \cup {None}, Starts(c, p, f, t)
  PROVE  /\ call' \in [Caller -> Call]
         /\ \A d \in Caller : d # c => call'[d] = call[d]
         /\ call'[c].pc = p
         /\ call'[c].file = f
         /\ call'[c].text = t
<1>1. [pc |-> p, file |-> f, text |-> t] \in Call
  BY DEF Call
<1> QED
  BY <1>1 DEF Starts

(* A call that ends is idle again.                                         *)
LEMMA EndFacts ==
  ASSUME call \in [Caller -> Call], NEW c \in Caller, Ends(c)
  PROVE  /\ call' \in [Caller -> Call]
         /\ \A d \in Caller : d # c => call'[d] = call[d]
         /\ call'[c].pc = "idle"
         /\ raced' = raced \ {c}
<1>1. Idle \in Call
  BY DEF Idle, Call, PC
<1> QED
  BY <1>1 DEF Ends, Idle

(* What a step of one call does to the chains: it leaves them alone,        *)
(* queues the call on its file, or takes it off the head.                  *)
LEMMA ChainElements ==
  ASSUME TypeOK
  PROVE  \A f \in File : \A i \in 1..Len(chain[f]) : chain[f][i] \in Caller
  BY ElementOfSeq DEF TypeOK

(* Holding the mutex of one's file is heading its chain.                   *)
LEMMA HoldsFirst ==
  ASSUME TypeOK, NEW c \in Caller, call[c].file \in File
  PROVE  Holds(c) <=> 1 \in 1..Len(chain[call[c].file]) /\ chain[call[c].file][1] = c
<1>1. chain[call[c].file] \in Seq(Caller)
  BY DEF TypeOK
<1> QED
  BY <1>1 DEF Holds

(* A step that leaves chains and files alone keeps the mutex in order.     *)
LEMMA ChainKept ==
  ASSUME TypeOK, ArgsOK, ChainOK, NEW c \in Caller, UNCHANGED chain,
         \A d \in Caller : d # c => call'[d] = call[d],
         \/ ~Waits(c) /\ call'[c].pc \notin Critical
         \/ Holds(c) /\ Waits(c) /\ Waits(c)' /\ call'[c].file = call[c].file
  PROVE  ChainOK'
<1>1. \A d \in Caller : d # c /\ Holds(d) => Holds(d)'
  BY DEF Holds
<1>2. \A f \in File : \A i, j \in 1..Len(chain'[f]) :
        chain'[f][i] = chain'[f][j] => i = j
  BY DEF ChainOK
<1>3. CASE ~Waits(c) /\ call'[c].pc \notin Critical
  <2>1. \A f \in File : \A i \in 1..Len(chain[f]) : call'[chain[f][i]] = call[chain[f][i]]
    BY <1>3, ChainElements DEF ChainOK
  <2>2. \A d \in Caller : call'[d].pc \in Critical => Holds(d)'
    BY <1>1, <1>3 DEF ChainOK
  <2> QED
    BY <1>2, <2>1, <2>2 DEF ChainOK, Waits
<1>4. CASE Holds(c) /\ Waits(c) /\ Waits(c)' /\ call'[c].file = call[c].file
  <2>1. call[c].file \in File
    BY <1>4 DEF ArgsOK, Waits, Critical
  <2>2. \A f \in File : \A i \in 1..Len(chain[f]) :
          chain[f][i] = c => f = call[c].file /\ i = 1
    BY <1>4, <2>1, HoldsFirst DEF ChainOK
  <2>3. \A f \in File : \A i \in 1..Len(chain[f]) :
          \/ call'[chain[f][i]] = call[chain[f][i]]
          \/ chain[f][i] = c /\ i = 1 /\ f = call'[c].file
    BY <1>4, <2>2, ChainElements
  <2>4. Holds(c)'
    BY <1>4 DEF Holds
  <2>5. \A d \in Caller : call'[d].pc \in Critical => Holds(d)'
    BY <1>1, <2>4 DEF ChainOK
  <2>6. \A f \in File : \A i \in 1..Len(chain'[f]) :
          /\ Waits(chain[f][i])'
          /\ call'[chain[f][i]].file = f
          /\ i > 1 => call'[chain[f][i]].pc = "queued"
    BY <1>4, <2>3 DEF ChainOK, Waits
  <2> QED
    BY <1>2, <2>5, <2>6 DEF ChainOK, Waits
<1> QED
  BY <1>3, <1>4

(* A call that asks for the mutex goes to the end of the chain.            *)
LEMMA ChainPushed ==
  ASSUME TypeOK, ChainOK, NEW c \in Caller, NEW f \in File,
         chain' = [chain EXCEPT ![f] = Append(@, c)],
         ~Waits(c), call'[c].pc = "queued", call'[c].file = f,
         \A d \in Caller : d # c => call'[d] = call[d]
  PROVE  ChainOK'
<1>1. \A g \in File : \A i \in 1..Len(chain[g]) :
        chain[g][i] # c /\ call'[chain[g][i]] = call[chain[g][i]]
  BY ChainElements DEF ChainOK
<1>2. /\ Len(chain'[f]) = Len(chain[f]) + 1
      /\ \A i \in 1..Len(chain[f]) : chain'[f][i] = chain[f][i]
      /\ chain'[f][Len(chain[f]) + 1] = c
      /\ Len(chain[f]) \in Nat
  BY AppendProperties DEF TypeOK
<1>3. \A g \in File : g # f => chain'[g] = chain[g]
  BY DEF TypeOK
<1>4. \A g \in File : \A i \in 1..Len(chain'[g]) :
        /\ Waits(chain[g][i])'
        /\ call'[chain'[g][i]].file = g
        /\ i > 1 => call'[chain'[g][i]].pc = "queued"
  <2>1. ASSUME NEW i \in 1..Len(chain'[f])
        PROVE  /\ Waits(chain[f][i])'
               /\ call'[chain'[f][i]].file = f
               /\ i > 1 => call'[chain'[f][i]].pc = "queued"
    <3>1. CASE i \in 1..Len(chain[f])
      BY <1>1, <1>2, <3>1 DEF ChainOK, Waits
    <3>2. CASE i = Len(chain[f]) + 1
      BY <1>2, <3>2 DEF Waits
    <3> QED
      BY <1>2, <3>1, <3>2
  <2>2. ASSUME NEW g \in File, g # f, NEW i \in 1..Len(chain'[g])
        PROVE  /\ Waits(chain[g][i])'
               /\ call'[chain'[g][i]].file = g
               /\ i > 1 => call'[chain'[g][i]].pc = "queued"
    BY <1>1, <1>3, <2>2 DEF ChainOK, Waits
  <2> QED
    BY <2>1, <2>2
<1>5. \A g \in File : \A i, j \in 1..Len(chain'[g]) :
        chain'[g][i] = chain'[g][j] => i = j
  <2>1. \A i, j \in 1..Len(chain'[f]) : chain'[f][i] = chain'[f][j] => i = j
    BY <1>1, <1>2 DEF ChainOK
  <2> QED
    BY <1>3, <2>1 DEF ChainOK
<1>6. ASSUME NEW d \in Caller, call'[d].pc \in Critical
      PROVE  Holds(d)'
  <2>1. d # c /\ call'[d] = call[d] /\ Holds(d)
    BY <1>6 DEF ChainOK, Critical
  <2>2. CASE call[d].file = f
    <3>2. 1 \in 1..Len(chain[f]) /\ chain[f][1] = d
      BY <2>1, <2>2, HoldsFirst
    <3>3. chain'[f] \in Seq(Caller) /\ 1 \in 1..Len(chain'[f]) /\ chain'[f][1] = d
      BY <1>2, <3>2, AppendProperties DEF TypeOK
    <3>4. chain'[f] # <<>> /\ Head(chain'[f]) = d
      BY <3>3
    <3> QED
      BY <2>1, <2>2, <3>4 DEF Holds
  <2>3. CASE call[d].file # f
    BY <2>1, <2>3 DEF Holds, TypeOK
  <2> QED
    BY <2>2, <2>3
<1> QED
  BY <1>4, <1>5, <1>6 DEF ChainOK

(* A call that releases it leaves the next one at the head.                *)
LEMMA ChainPopped ==
  ASSUME TypeOK, ArgsOK, ChainOK, NEW c \in Caller, NEW f \in File,
         call[c].file = f, Holds(c), chain' = Release(f), call'[c].pc = "idle",
         \A d \in Caller : d # c => call'[d] = call[d]
  PROVE  ChainOK'
<1>1. f \in File /\ chain[f] \in Seq(Caller) /\ 1 \in 1..Len(chain[f]) /\ chain[f][1] = c
  BY HoldsFirst DEF TypeOK
<1>2. chain[f] # <<>>
  BY <1>1
<1>3. /\ chain'[f] = Tail(chain[f])
      /\ \A g \in File : g # f => chain'[g] = chain[g]
  BY DEF TypeOK, Release
<1>4. /\ Len(chain'[f]) = Len(chain[f]) - 1
      /\ \A i \in 1..Len(chain'[f]) : chain'[f][i] = chain[f][i + 1]
      /\ Len(chain[f]) \in Nat
  BY <1>1, <1>2, <1>3, HeadTailProperties
<1>5. \A g \in File : \A i \in 1..Len(chain[g]) :
        chain[g][i] = c => g = f /\ i = 1
  BY <1>1 DEF ChainOK
<1>6. \A g \in File : \A i \in 1..Len(chain'[g]) :
        /\ Waits(chain[g][i])'
        /\ call'[chain'[g][i]].file = g
        /\ i > 1 => call'[chain'[g][i]].pc = "queued"
  <2>1. ASSUME NEW i \in 1..Len(chain'[f])
        PROVE  /\ Waits(chain[f][i])'
               /\ call'[chain'[f][i]].file = f
               /\ i > 1 => call'[chain'[f][i]].pc = "queued"
    <3>1. i + 1 \in 1..Len(chain[f]) /\ i + 1 > 1
      BY <1>4
    <3>2. chain[f][i + 1] \in Caller /\ chain[f][i + 1] # c
      BY <1>1, <1>5, <3>1, ChainElements
    <3>3. /\ Waits(chain[f][i + 1])
          /\ call[chain[f][i + 1]].file = f
          /\ call[chain[f][i + 1]].pc = "queued"
      BY <1>1, <3>1 DEF ChainOK
    <3>4. chain'[f][i] = chain[f][i + 1] /\ call'[chain[f][i + 1]] = call[chain[f][i + 1]]
      BY <1>4, <3>2
    <3> QED
      BY <3>3, <3>4 DEF Waits
  <2>2. ASSUME NEW g \in File, g # f, NEW i \in 1..Len(chain'[g])
        PROVE  /\ Waits(chain[g][i])'
               /\ call'[chain'[g][i]].file = g
               /\ i > 1 => call'[chain'[g][i]].pc = "queued"
    <3>1. chain[g][i] \in Caller /\ chain[g][i] # c /\ chain'[g] = chain[g]
      BY <1>3, <1>5, <2>2, ChainElements
    <3> QED
      BY <2>2, <3>1 DEF ChainOK, Waits
  <2> QED
    BY <2>1, <2>2
<1>7. \A g \in File : \A i, j \in 1..Len(chain'[g]) :
        chain'[g][i] = chain'[g][j] => i = j
  <2>1. ASSUME NEW i \in 1..Len(chain'[f]), NEW j \in 1..Len(chain'[f]),
               chain'[f][i] = chain'[f][j]
        PROVE  i = j
    <3>1. i + 1 \in 1..Len(chain[f]) /\ j + 1 \in 1..Len(chain[f])
      BY <1>4
    <3>2. chain[f][i + 1] = chain[f][j + 1]
      BY <1>4, <2>1
    <3>3. i + 1 = j + 1
      BY <1>1, <3>1, <3>2 DEF ChainOK
    <3> QED
      BY <3>3
  <2>2. ASSUME NEW g \in File, g # f, NEW i \in 1..Len(chain'[g]),
               NEW j \in 1..Len(chain'[g]), chain'[g][i] = chain'[g][j]
        PROVE  i = j
    BY <1>3, <2>2 DEF ChainOK
  <2> QED
    BY <2>1, <2>2
<1>8. ASSUME NEW d \in Caller, call'[d].pc \in Critical
      PROVE  Holds(d)'
  <2>1. d # c /\ call'[d] = call[d] /\ Holds(d) /\ call[d].file \in File
    BY <1>8 DEF ChainOK, Critical, ArgsOK
  <2>2. call[d].file # f
    BY <1>1, <2>1, HoldsFirst
  <2> QED
    BY <1>3, <2>1, <2>2 DEF Holds
<1> QED
  BY <1>6, <1>7, <1>8 DEF ChainOK

(* The head of a chain is one call: OneWriter.                             *)
LEMMA HeadIsOne == ChainOK => OneWriter
  BY DEF ChainOK, OneWriter, Holds

(* A call that goes on, or ends, overlaps nothing new.                     *)
LEMMA OverlapKept ==
  ASSUME OverlapOK, NEW c \in Caller, raced \ {c} \subseteq raced',
         \A d \in Caller : d # c => call'[d] = call[d],
         NEW S \in {Critical, Deleting}, call'[c].pc \in S => call[c].pc \in S,
         call'[c].pc \in Critical \cup Deleting =>
           call'[c].pc \in S /\ call'[c].file = call[c].file /\ raced \subseteq raced'
  PROVE  OverlapOK'
<1> SUFFICES ASSUME NEW d \in Caller, NEW e \in Caller, call'[d].pc \in Critical,
                    call'[e].pc \in Deleting, call'[d].file = call'[e].file
             PROVE  d \in raced' /\ e \in raced'
  BY DEF OverlapOK
<1>1. Critical \cap Deleting = {}
  BY DEF Critical, Deleting
<1>2. call[d].pc \in Critical /\ call[e].pc \in Deleting /\ call[d].file = call[e].file
  BY <1>1
<1>3. d \in raced /\ e \in raced
  BY <1>2 DEF OverlapOK
<1> QED
  BY <1>1, <1>3

(* A step of one call that leaves chunks and rows alone keeps them in      *)
(* agreement, if the call stays where it was or its file is suspect.       *)
LEMMA ChunksKept ==
  ASSUME ChunksAgree, NEW c \in Caller, UNCHANGED <<rows, chunks>>, suspect \subseteq suspect',
         \A d \in Caller : d # c => call'[d] = call[d],
         call[c].pc \in Critical =>
           \/ call[c].file \in suspect'
           \/ call'[c].pc \in Critical /\ call'[c].file = call[c].file
  PROVE  ChunksAgree'
<1>1. ASSUME NEW g \in File, g \notin suspect', Unwritten(g)'
      PROVE  Unwritten(g)
  <2> SUFFICES ASSUME NEW d \in Caller, call[d].file = g PROVE call[d].pc \notin Critical
    BY DEF Unwritten
  <2>1. CASE d # c
    BY <1>1, <2>1 DEF Unwritten
  <2>2. CASE d = c
    BY <1>1, <2>2 DEF Unwritten
  <2> QED
    BY <2>1, <2>2
<1>2. \A g \in File : Sha(g)' = Sha(g) /\ chunks'[g] = chunks[g]
  BY DEF Sha
<1> QED
  BY <1>1, <1>2 DEF ChunksAgree

(* One lemma per action: it preserves every part of the invariant.         *)
LEMMA IndexFileStep ==
  ASSUME IndInv, NEW c \in Caller, NEW f \in File, IndexFile(c, f)
  PROVE  IndInv'
<1> USE DEF IndInv, TypeOK
<1>1. /\ call' \in [Caller -> Call]
      /\ \A d \in Caller : d # c => call'[d] = call[d]
      /\ call[c].pc = "idle"
      /\ call'[c].pc = "embedding"
      /\ call'[c].file = f
      /\ call'[c].text = disk[f]
      /\ UNCHANGED <<disk, rows, chunks, vecs, chain, vecQ, raced, suspect>>
  BY StartFacts DEF IndexFile, Running, PC, Critical, Deleting, ArgsOK, stores, history
<1>3. TypeOK'
  BY <1>1
<1>4. ArgsOK'
  BY <1>1 DEF ArgsOK, Critical, IndexFile
<1>5. ChainOK'
  BY <1>1, ChainKept DEF Waits, Critical, Deleting
<1>6. OverlapOK'
  BY <1>1 DEF OverlapOK, Critical, Deleting, Persisting, Removing
<1>7. WritesOK'
  BY <1>1 DEF WritesOK, Critical, Deleting, Persisting, Removing
<1>8. ChunksAgree'
  BY <1>1, ChunksKept DEF Critical
<1>9. VecsAgree'
  <2>1. \A g \in File : Sha(g)' = Sha(g) /\ vecs'[g] = vecs[g]
    BY <1>1 DEF Sha
  <2>2. \A g \in File : Unwritten(g)' /\ Undeleted(g)' => Unwritten(g) /\ Undeleted(g)
    BY <1>1 DEF Unwritten, Undeleted, Critical
  <2> QED
    BY <1>1, <2>1, <2>2 DEF VecsAgree
<1>10. OneGeneration'
  BY <1>1 DEF OneGeneration
<1> QED
  BY <1>3, <1>4, <1>5, <1>6, <1>7, <1>8, <1>9, <1>10

(* A delete that begins joins no chain, and marks what it overlaps.        *)
LEMMA DeleteFileStep ==
  ASSUME IndInv, NEW c \in Caller, NEW f \in File, DeleteFile(c, f)
  PROVE  IndInv'
<1> USE DEF IndInv, TypeOK
<1>1. /\ call' \in [Caller -> Call]
      /\ \A d \in Caller : d # c => call'[d] = call[d]
      /\ call[c].pc = "idle"
      /\ call'[c].pc = "deleting"
      /\ call'[c].file = f
      /\ call'[c].text = None
      /\ UNCHANGED <<disk, rows, chunks, vecs, chain, suspect>>
      /\ raced' = IF Persisting(f) = {} THEN raced ELSE raced \cup {c} \cup Persisting(f)
      /\ vecQ' = Append(vecQ, c)
  BY StartFacts DEF DeleteFile, Running, PC, Critical, Deleting, ArgsOK, stores, history, Races
<1>3. TypeOK'
  BY <1>1 DEF Persisting
<1>4. ArgsOK'
  BY <1>1 DEF ArgsOK, Critical, Deleting
<1>5. ChainOK'
  BY <1>1, ChainKept DEF Waits, Critical, Deleting
<1>6. OverlapOK'
  BY <1>1 DEF OverlapOK, Critical, Deleting, Persisting, Removing
<1>7. WritesOK'
  BY <1>1 DEF WritesOK, Critical, Deleting, Persisting, Removing
<1>8. ChunksAgree'
  BY <1>1, ChunksKept DEF Critical
<1>9. VecsAgree'
  <2>1. \A g \in File : Sha(g)' = Sha(g) /\ vecs'[g] = vecs[g]
    BY <1>1 DEF Sha
  <2>2. \A g \in File : Unwritten(g)' /\ Undeleted(g)' => Unwritten(g) /\ Undeleted(g)
    BY <1>1 DEF Unwritten, Undeleted, Critical
  <2> QED
    BY <1>1, <2>1, <2>2 DEF VecsAgree
<1>10. OneGeneration'
  BY <1>1 DEF OneGeneration
<1> QED
  BY <1>3, <1>4, <1>5, <1>6, <1>7, <1>8, <1>9, <1>10

(* An embedded file queues for its mutex and writes nothing.               *)
LEMMA EmbeddedStep ==
  ASSUME IndInv, NEW c \in Caller, Embedded(c)
  PROVE  IndInv'
<1> USE DEF IndInv, TypeOK
<1>1. /\ call' \in [Caller -> Call]
      /\ \A d \in Caller : d # c => call'[d] = call[d]
      /\ call[c].pc = "embedding"
      /\ call'[c].pc = "queued"
      /\ call'[c].file = call[c].file
      /\ call'[c].text = call[c].text
      /\ UNCHANGED <<disk, rows, chunks, vecs, vecQ, raced, suspect>>
      /\ chain' = [chain EXCEPT ![call[c].file] = Append(@, c)]
  BY MoveFacts DEF Embedded, Running, PC, Critical, Deleting, ArgsOK, stores, history
<1>2. call[c].file \in File /\ call[c].text \in Text
  BY <1>1 DEF ArgsOK, Critical, Deleting
<1>3. TypeOK'
  BY <1>1, <1>2
<1>4. ArgsOK'
  BY <1>1, <1>2 DEF ArgsOK, Critical, Deleting
<1>5. ChainOK'
  BY <1>1, <1>2, ChainPushed DEF Waits, Critical, Deleting
<1>6. OverlapOK'
  BY <1>1, <1>2 DEF OverlapOK, Critical, Deleting, Persisting, Removing
<1>7. WritesOK'
  BY <1>1, <1>2 DEF WritesOK, Critical, Deleting, Persisting, Removing
<1>8. ChunksAgree'
  BY <1>1, ChunksKept DEF Critical, Deleting
<1>9. VecsAgree'
  <2>1. \A g \in File : Sha(g)' = Sha(g) /\ vecs'[g] = vecs[g]
    BY <1>1, <1>2 DEF Sha
  <2>2. \A g \in File : Unwritten(g)' /\ Undeleted(g)' => Unwritten(g) /\ Undeleted(g)
    BY <1>1, <1>2 DEF Unwritten, Undeleted, Critical
  <2> QED
    BY <1>1, <1>2, <2>1, <2>2 DEF VecsAgree
<1>10. OneGeneration'
  BY <1>1, <1>2 DEF OneGeneration
<1> QED
  BY <1>3, <1>4, <1>5, <1>6, <1>7, <1>8, <1>9, <1>10

(* The transaction leaves chunks of the call's own text.                   *)
LEMMA ReplaceChunksStep ==
  ASSUME IndInv, NEW c \in Caller, ReplaceChunks(c)
  PROVE  IndInv'
<1> USE DEF IndInv, TypeOK
<1>1. /\ call' \in [Caller -> Call]
      /\ \A d \in Caller : d # c => call'[d] = call[d]
      /\ call[c].pc = "queued"
      /\ Holds(c)
      /\ call'[c].pc = "clearing"
      /\ call'[c].file = call[c].file
      /\ call'[c].text = call[c].text
      /\ UNCHANGED <<disk, rows, vecs, chain, suspect>>
      /\ chunks' = [chunks EXCEPT ![call[c].file] = call[c].text]
      /\ raced' = IF Removing(call[c].file) = {} THEN raced
                  ELSE raced \cup {c} \cup Removing(call[c].file)
      /\ vecQ' = Append(vecQ, c)
  BY MoveFacts DEF ReplaceChunks, Running, PC, Critical, Deleting, ArgsOK, stores, history, Races
<1>2. call[c].file \in File /\ call[c].text \in Text
  BY <1>1 DEF ArgsOK, Critical, Deleting
<1>3. TypeOK'
  BY <1>1, <1>2 DEF Removing
<1>4. ArgsOK'
  BY <1>1, <1>2 DEF ArgsOK, Critical, Deleting
<1>5. ChainOK'
  BY <1>1, <1>2, ChainKept DEF Waits, Critical, Deleting
<1>6. OverlapOK'
  BY <1>1, <1>2 DEF OverlapOK, Critical, Deleting, Persisting, Removing
<1>7. WritesOK'
  <2>1. ASSUME NEW d \in Caller, d # c, call[d].pc \in Critical \cup {"vecGone"}
        PROVE  call[d].file \in File
    BY <2>1 DEF ArgsOK, Critical
  <2>2. ASSUME NEW d \in Caller, d # c, call[d].file = call[c].file
        PROVE  /\ call[d].pc \in Critical /\ d \notin raced' => chunks'[call[d].file] = call[d].text
               /\ call[d].pc \in {"cleared", "upserting"} => vecs'[call[d].file] = {}
               /\ call[d].pc = "upserted" /\ d \notin raced' => vecs'[call[d].file] = {call[d].text}
               /\ call[d].pc = "vecGone" /\ d \notin raced' => vecs'[call[d].file] = {}
    BY <1>1, <1>2, <2>2, HeadIsOne DEF WritesOK, OneWriter, Critical, Deleting, Removing, ChainOK, Holds
  <2>3. /\ call'[c].pc \in Critical /\ c \notin raced' => chunks'[call'[c].file] = call'[c].text
        /\ call'[c].pc \in {"cleared", "upserting"} => vecs'[call'[c].file] = {}
        /\ call'[c].pc = "upserted" /\ c \notin raced' => vecs'[call'[c].file] = {call'[c].text}
        /\ call'[c].pc = "vecGone" /\ c \notin raced' => vecs'[call'[c].file] = {}
    BY <1>1, <1>2 DEF Critical
  <2>9. ASSUME NEW d \in Caller, d # c, call[d].file # call[c].file
        PROVE  /\ call[d].pc \in Critical /\ d \notin raced' => chunks'[call[d].file] = call[d].text
               /\ call[d].pc \in {"cleared", "upserting"} => vecs'[call[d].file] = {}
               /\ call[d].pc = "upserted" /\ d \notin raced' => vecs'[call[d].file] = {call[d].text}
               /\ call[d].pc = "vecGone" /\ d \notin raced' => vecs'[call[d].file] = {}
    BY <1>1, <1>2, <2>1, <2>9 DEF WritesOK, Critical
  <2>10. ASSUME NEW d \in Caller
         PROVE  /\ call'[d].pc \in Critical /\ d \notin raced' =>
                     chunks'[call'[d].file] = call'[d].text
                /\ call'[d].pc \in {"cleared", "upserting"} => vecs'[call'[d].file] = {}
                /\ call'[d].pc = "upserted" /\ d \notin raced' =>
                     vecs'[call'[d].file] = {call'[d].text}
                /\ call'[d].pc = "vecGone" /\ d \notin raced' => vecs'[call'[d].file] = {}
    <3>1. CASE d = c
      BY <2>3, <3>1
    <3>2. CASE d # c
      <4>1. call'[d] = call[d]
        BY <1>1, <3>2
      <4> QED
        BY <2>2, <2>9, <3>2, <4>1
    <3> QED
      BY <3>1, <3>2
  <2> QED
    BY <2>10 DEF WritesOK
<1>8. ChunksAgree'
  <2>1. \A g \in File : Sha(g)' = Sha(g) /\ (g # call[c].file => chunks'[g] = chunks[g])
    BY <1>1, <1>2 DEF Sha
  <2>2. \A g \in File : Unwritten(g)' => Unwritten(g) /\ g # call[c].file
    BY <1>1, <1>2 DEF Unwritten, Critical
  <2> QED
    BY <1>1, <2>1, <2>2 DEF ChunksAgree
<1>9. VecsAgree'
  <2>1. \A g \in File : Sha(g)' = Sha(g) /\ vecs'[g] = vecs[g]
    BY <1>1, <1>2 DEF Sha
  <2>2. \A g \in File : Unwritten(g)' /\ Undeleted(g)' => Unwritten(g) /\ Undeleted(g)
    BY <1>1, <1>2 DEF Unwritten, Undeleted, Critical
  <2> QED
    BY <1>1, <1>2, <2>1, <2>2 DEF VecsAgree
<1>10. OneGeneration'
  BY <1>1, <1>2 DEF OneGeneration
<1> QED
  BY <1>3, <1>4, <1>5, <1>6, <1>7, <1>8, <1>9, <1>10

(* A call whose vectors were cleared goes on to insert its own.            *)
LEMMA ClearedStep ==
  ASSUME IndInv, NEW c \in Caller, Cleared(c)
  PROVE  IndInv'
<1> USE DEF IndInv, TypeOK
<1>1. /\ call' \in [Caller -> Call]
      /\ \A d \in Caller : d # c => call'[d] = call[d]
      /\ call[c].pc = "cleared"
      /\ call'[c].pc = "upserting"
      /\ call'[c].file = call[c].file
      /\ call'[c].text = call[c].text
      /\ UNCHANGED <<disk, rows, chunks, vecs, chain, raced, suspect>>
      /\ vecQ' = Append(Tail(vecQ), c)
      /\ vecQ # <<>>
  BY MoveFacts DEF Cleared, Running, PC, Critical, Deleting, ArgsOK, stores, history
<1>2. call[c].file \in File /\ call[c].text \in Text
  BY <1>1 DEF ArgsOK, Critical, Deleting
<1>3. TypeOK'
  BY <1>1, <1>2
<1>4. ArgsOK'
  BY <1>1, <1>2 DEF ArgsOK, Critical, Deleting
<1>5. ChainOK'
  BY <1>1, <1>2, ChainKept DEF Waits, Critical, Deleting, ChainOK
<1>6. OverlapOK'
  BY <1>1, OverlapKept DEF Critical, Deleting
<1>7. WritesOK'
  <2>1. \A d \in Caller : call'[d].file = call[d].file /\ call'[d].text = call[d].text
    BY <1>1
  <2>2. chunks' = chunks /\ vecs' = vecs /\ raced' = raced
    BY <1>1
  <2>3. WritesOK
    OBVIOUS
  <2> HIDE DEF IndInv, TypeOK
  <2> SUFFICES ASSUME NEW d \in Caller
               PROVE  /\ call'[d].pc \in Critical /\ d \notin raced' =>
                           chunks'[call'[d].file] = call'[d].text
                      /\ call'[d].pc \in {"cleared", "upserting"} => vecs'[call'[d].file] = {}
                      /\ call'[d].pc = "upserted" /\ d \notin raced' =>
                           vecs'[call'[d].file] = {call'[d].text}
                      /\ call'[d].pc = "vecGone" /\ d \notin raced' => vecs'[call'[d].file] = {}
    BY DEF WritesOK
  <2>4. /\ call'[d].pc \in Critical => call[d].pc \in Critical
        /\ call'[d].pc \in {"cleared", "upserting"} => call[d].pc \in {"cleared", "upserting"}
        /\ call'[d].pc \in {"upserted", "vecGone"} => call'[d].pc = call[d].pc
    <3>1. CASE d = c
      BY <1>1, <3>1 DEF Critical
    <3>2. CASE d # c
      BY <1>1, <3>2
    <3> QED
      BY <3>1, <3>2
  <2>5. /\ chunks'[call'[d].file] = chunks[call[d].file]
        /\ vecs'[call'[d].file] = vecs[call[d].file]
        /\ call'[d].text = call[d].text
    BY <2>1, <2>2
  <2>6. /\ call[d].pc \in Critical /\ d \notin raced => chunks[call[d].file] = call[d].text
        /\ call[d].pc \in {"cleared", "upserting"} => vecs[call[d].file] = {}
        /\ call[d].pc = "upserted" /\ d \notin raced => vecs[call[d].file] = {call[d].text}
        /\ call[d].pc = "vecGone" /\ d \notin raced => vecs[call[d].file] = {}
    BY <2>3 DEF WritesOK
  <2> QED
    BY <2>2, <2>4, <2>5, <2>6
<1>8. ChunksAgree'
  BY <1>1, ChunksKept DEF Critical, Deleting
<1>9. VecsAgree'
  <2>1. \A g \in File : Sha(g)' = Sha(g) /\ vecs'[g] = vecs[g]
    BY <1>1, <1>2 DEF Sha
  <2>2. \A g \in File : Unwritten(g)' /\ Undeleted(g)' => Unwritten(g) /\ Undeleted(g)
    BY <1>1, <1>2 DEF Unwritten, Undeleted, Critical
  <2> QED
    BY <1>1, <1>2, <2>1, <2>2 DEF VecsAgree
<1>10. OneGeneration'
  BY <1>1, <1>2 DEF OneGeneration
<1> QED
  BY <1>3, <1>4, <1>5, <1>6, <1>7, <1>8, <1>9, <1>10

(* The stamp finds chunks and vectors of the text it names.                *)
LEMMA UpsertFileStep ==
  ASSUME IndInv, NEW c \in Caller, UpsertFile(c)
  PROVE  IndInv'
<1> USE DEF IndInv, TypeOK
<1>1. /\ call' \in [Caller -> Call]
      /\ \A d \in Caller : d # c => call'[d] = call[d]
      /\ call[c].pc = "upserted"
      /\ call'[c].pc = "idle"
      /\ raced' = raced \ {c}
      /\ UNCHANGED <<disk, chunks, vecs>>
      /\ rows' = [rows EXCEPT ![call[c].file] = Stamp(c)]
      /\ suspect' = IF c \notin raced THEN suspect \ {call[c].file}
                    ELSE suspect \cup {call[c].file}
      /\ chain' = Release(call[c].file)
      /\ vecQ # <<>> /\ vecQ' = Tail(vecQ)
  BY EndFacts DEF UpsertFile, Running, PC, Critical, Deleting, ArgsOK, stores, history
<1>2. call[c].file \in File /\ call[c].text \in Text
  BY <1>1 DEF ArgsOK, Critical, Deleting
<1>3. TypeOK'
  BY <1>1, <1>2 DEF Stamp, Row, Release, ChainOK, Holds, Critical
<1>4. ArgsOK'
  BY <1>1, <1>2 DEF ArgsOK, Critical, Deleting
<1>5. ChainOK'
  BY <1>1, <1>2, ChainPopped DEF Waits, Critical, Deleting, ChainOK
<1>6. OverlapOK'
  BY <1>1, <1>2 DEF OverlapOK, Critical, Deleting, Persisting, Removing
<1>7. WritesOK'
  BY <1>1, <1>2 DEF WritesOK, Critical, Deleting, Persisting, Removing
<1>8. ChunksAgree'
  <2>1. \A g \in File : g # call[c].file => Sha(g)' = Sha(g) /\ chunks'[g] = chunks[g]
    BY <1>1, <1>2 DEF Sha
  <2>2. \A g \in File : g # call[c].file =>
          /\ Unwritten(g)' => Unwritten(g)
          /\ g \notin suspect' => g \notin suspect
    BY <1>1, <1>2 DEF Unwritten, Undeleted, Critical
  <2>3. ASSUME NEW f \in File, f = call[c].file, f \notin suspect', Unwritten(f)'
        PROVE  chunks'[f] = Sha(f)'
    <3>1. c \notin raced /\ rows'[f] = Stamp(c)
      BY <1>1, <1>2, <2>3
    <3>2. Stamp(c) # None
      BY <1>2, RowFacts DEF Stamp
    <3>3. Sha(f)' = call[c].text
      BY <3>1, <3>2 DEF Sha, Stamp
    <3> QED
      BY <1>1, <1>2, <2>3, <3>1, <3>3, ContentAssumption DEF WritesOK, Critical
  <2> QED
    BY <2>1, <2>2, <2>3 DEF ChunksAgree
<1>9. VecsAgree'
  <2>1. \A g \in File : g # call[c].file => Sha(g)' = Sha(g) /\ vecs'[g] = vecs[g]
    BY <1>1, <1>2 DEF Sha
  <2>2. \A g \in File : g # call[c].file =>
          /\ (Unwritten(g) /\ Undeleted(g))' => (Unwritten(g) /\ Undeleted(g))
          /\ g \notin suspect' => g \notin suspect
    BY <1>1, <1>2 DEF Unwritten, Undeleted, Critical
  <2>3. ASSUME NEW f \in File, f = call[c].file, f \notin suspect', (Unwritten(f) /\ Undeleted(f))'
        PROVE  /\ Sha(f)' = None => vecs'[f] = {}
               /\ Sha(f)' # None => vecs'[f] = {Sha(f)'}
    <3>1. c \notin raced /\ rows'[f] = Stamp(c)
      BY <1>1, <1>2, <2>3
    <3>2. Stamp(c) # None
      BY <1>2, RowFacts DEF Stamp
    <3>3. Sha(f)' = call[c].text
      BY <3>1, <3>2 DEF Sha, Stamp
    <3> QED
      BY <1>1, <1>2, <2>3, <3>1, <3>3, ContentAssumption DEF WritesOK, Critical
  <2> QED
    BY <2>1, <2>2, <2>3 DEF VecsAgree
<1>10. OneGeneration'
  BY <1>1, <1>2 DEF OneGeneration
<1> QED
  BY <1>3, <1>4, <1>5, <1>6, <1>7, <1>8, <1>9, <1>10

(* Clearing leaves no vectors of the file to disagree with.                *)
LEMMA ClearVectorsStep ==
  ASSUME IndInv, NEW c \in Caller, VectorWrite(c), call[c].pc = "clearing"
  PROVE  IndInv'
<1> USE DEF IndInv, TypeOK
<1>1. /\ call' \in [Caller -> Call]
      /\ \A d \in Caller : d # c => call'[d] = call[d]
      /\ call'[c].pc = "cleared"
      /\ call'[c].file = call[c].file
      /\ call'[c].text = call[c].text
      /\ UNCHANGED <<disk, rows, chunks, chain, vecQ, raced, suspect>>
      /\ vecs' = [vecs EXCEPT ![call[c].file] = {}]
  BY MoveFacts DEF VectorWrite, PC, Critical, Deleting, history, VectorsCleared
<1>2. call[c].file \in File /\ call[c].text \in Text
  BY DEF ArgsOK, Critical
<1>3. TypeOK'
  BY <1>1, <1>2
<1>4. ArgsOK'
  BY <1>1, <1>2 DEF ArgsOK, Critical, Deleting
<1>5. ChainOK'
  BY <1>1, <1>2, ChainKept DEF Waits, Critical, ChainOK
<1>6. OverlapOK'
  BY <1>1, OverlapKept DEF Critical, Deleting
<1>7. WritesOK'
  <2>1. ASSUME NEW d \in Caller, d # c, call[d].pc \in Critical \cup {"vecGone"}
        PROVE  call[d].file \in File
    BY <2>1 DEF ArgsOK, Critical
  <2>2. ASSUME NEW d \in Caller, d # c, call[d].file = call[c].file
        PROVE  /\ call[d].pc \in Critical /\ d \notin raced' => chunks'[call[d].file] = call[d].text
               /\ call[d].pc \in {"cleared", "upserting"} => vecs'[call[d].file] = {}
               /\ call[d].pc = "upserted" /\ d \notin raced' => vecs'[call[d].file] = {call[d].text}
               /\ call[d].pc = "vecGone" /\ d \notin raced' => vecs'[call[d].file] = {}
    BY <1>1, <1>2, <2>2, HeadIsOne DEF WritesOK, OverlapOK, OneWriter, Critical, Deleting
  <2>3. /\ call'[c].pc \in Critical /\ c \notin raced' => chunks'[call'[c].file] = call'[c].text
        /\ call'[c].pc \in {"cleared", "upserting"} => vecs'[call'[c].file] = {}
        /\ call'[c].pc = "upserted" /\ c \notin raced' => vecs'[call'[c].file] = {call'[c].text}
        /\ call'[c].pc = "vecGone" /\ c \notin raced' => vecs'[call'[c].file] = {}
    BY <1>1, <1>2 DEF WritesOK, Critical
  <2>9. ASSUME NEW d \in Caller, d # c, call[d].file # call[c].file
        PROVE  /\ call[d].pc \in Critical /\ d \notin raced' => chunks'[call[d].file] = call[d].text
               /\ call[d].pc \in {"cleared", "upserting"} => vecs'[call[d].file] = {}
               /\ call[d].pc = "upserted" /\ d \notin raced' => vecs'[call[d].file] = {call[d].text}
               /\ call[d].pc = "vecGone" /\ d \notin raced' => vecs'[call[d].file] = {}
    BY <1>1, <1>2, <2>1, <2>9 DEF WritesOK, Critical
  <2> QED
    BY <1>1, <1>2, <2>2, <2>3, <2>9 DEF WritesOK, Critical
<1>8. ChunksAgree'
  <2>1. \A g \in File : Sha(g)' = Sha(g) /\ chunks'[g] = chunks[g]
    BY <1>1 DEF Sha
  <2>2. \A g \in File : Unwritten(g)' => Unwritten(g)
    BY <1>1 DEF Unwritten, Critical
  <2> QED
    BY <1>1, <2>1, <2>2 DEF ChunksAgree
<1>9. VecsAgree'
  <2>1. \A g \in File : g # call[c].file => Sha(g)' = Sha(g) /\ vecs'[g] = vecs[g]
    BY <1>1 DEF Sha
  <2>2. \A g \in File :
          Unwritten(g)' /\ Undeleted(g)' => Unwritten(g) /\ Undeleted(g)
                                            /\ g # call[c].file
    BY <1>1 DEF Unwritten, Undeleted, Critical
  <2> QED
    BY <1>1, <2>1, <2>2 DEF VecsAgree
<1>10. OneGeneration'
  BY <1>1, <1>2 DEF OneGeneration, WritesOK
<1> QED
  BY <1>3, <1>4, <1>5, <1>6, <1>7, <1>8, <1>9, <1>10

(* Inserting leaves vectors of the text the chunks have.                   *)
LEMMA UpsertVectorsStep ==
  ASSUME IndInv, NEW c \in Caller, VectorWrite(c), call[c].pc = "upserting"
  PROVE  IndInv'
<1> USE DEF IndInv, TypeOK
<1>1. /\ call' \in [Caller -> Call]
      /\ \A d \in Caller : d # c => call'[d] = call[d]
      /\ call'[c].pc = "upserted"
      /\ call'[c].file = call[c].file
      /\ call'[c].text = call[c].text
      /\ UNCHANGED <<disk, rows, chunks, chain, vecQ, raced, suspect>>
      /\ vecs' = [vecs EXCEPT ![call[c].file] = @ \cup {call[c].text}]
  BY MoveFacts DEF VectorWrite, PC, Critical, Deleting, history, VectorsCleared
<1>2. call[c].file \in File /\ call[c].text \in Text
  BY DEF ArgsOK, Critical
<1>3. TypeOK'
  BY <1>1, <1>2
<1>4. ArgsOK'
  BY <1>1, <1>2 DEF ArgsOK, Critical, Deleting
<1>5. ChainOK'
  BY <1>1, <1>2, ChainKept DEF Waits, Critical, ChainOK
<1>6. OverlapOK'
  BY <1>1, OverlapKept DEF Critical, Deleting
<1>7. WritesOK'
  <2>1. ASSUME NEW d \in Caller, d # c, call[d].pc \in Critical \cup {"vecGone"}
        PROVE  call[d].file \in File
    BY <2>1 DEF ArgsOK, Critical
  <2>2. ASSUME NEW d \in Caller, d # c, call[d].file = call[c].file
        PROVE  /\ call[d].pc \in Critical /\ d \notin raced' => chunks'[call[d].file] = call[d].text
               /\ call[d].pc \in {"cleared", "upserting"} => vecs'[call[d].file] = {}
               /\ call[d].pc = "upserted" /\ d \notin raced' => vecs'[call[d].file] = {call[d].text}
               /\ call[d].pc = "vecGone" /\ d \notin raced' => vecs'[call[d].file] = {}
    BY <1>1, <1>2, <2>2, HeadIsOne DEF WritesOK, OverlapOK, OneWriter, Critical, Deleting
  <2>3. /\ call'[c].pc \in Critical /\ c \notin raced' => chunks'[call'[c].file] = call'[c].text
        /\ call'[c].pc \in {"cleared", "upserting"} => vecs'[call'[c].file] = {}
        /\ call'[c].pc = "upserted" /\ c \notin raced' => vecs'[call'[c].file] = {call'[c].text}
        /\ call'[c].pc = "vecGone" /\ c \notin raced' => vecs'[call'[c].file] = {}
    BY <1>1, <1>2 DEF WritesOK, Critical
  <2>9. ASSUME NEW d \in Caller, d # c, call[d].file # call[c].file
        PROVE  /\ call[d].pc \in Critical /\ d \notin raced' => chunks'[call[d].file] = call[d].text
               /\ call[d].pc \in {"cleared", "upserting"} => vecs'[call[d].file] = {}
               /\ call[d].pc = "upserted" /\ d \notin raced' => vecs'[call[d].file] = {call[d].text}
               /\ call[d].pc = "vecGone" /\ d \notin raced' => vecs'[call[d].file] = {}
    BY <1>1, <1>2, <2>1, <2>9 DEF WritesOK, Critical
  <2> QED
    BY <1>1, <1>2, <2>2, <2>3, <2>9 DEF WritesOK, Critical
<1>8. ChunksAgree'
  <2>1. \A g \in File : Sha(g)' = Sha(g) /\ chunks'[g] = chunks[g]
    BY <1>1 DEF Sha
  <2>2. \A g \in File : Unwritten(g)' => Unwritten(g)
    BY <1>1 DEF Unwritten, Critical
  <2> QED
    BY <1>1, <2>1, <2>2 DEF ChunksAgree
<1>9. VecsAgree'
  <2>1. \A g \in File : g # call[c].file => Sha(g)' = Sha(g) /\ vecs'[g] = vecs[g]
    BY <1>1 DEF Sha
  <2>2. \A g \in File :
          Unwritten(g)' /\ Undeleted(g)' => Unwritten(g) /\ Undeleted(g)
                                            /\ g # call[c].file
    BY <1>1 DEF Unwritten, Undeleted, Critical
  <2> QED
    BY <1>1, <2>1, <2>2 DEF VecsAgree
<1>10. OneGeneration'
  BY <1>1, <1>2 DEF OneGeneration, WritesOK
<1> QED
  BY <1>3, <1>4, <1>5, <1>6, <1>7, <1>8, <1>9, <1>10

(* A delete that takes the vectors disturbs only what is suspect.          *)
LEMMA DeleteVectorsStep ==
  ASSUME IndInv, NEW c \in Caller, VectorWrite(c), call[c].pc = "deleting"
  PROVE  IndInv'
<1> USE DEF IndInv, TypeOK
<1>1. /\ call' \in [Caller -> Call]
      /\ \A d \in Caller : d # c => call'[d] = call[d]
      /\ call'[c].pc = "vecGone"
      /\ call'[c].file = call[c].file
      /\ call'[c].text = call[c].text
      /\ UNCHANGED <<disk, rows, chunks, chain, vecQ, raced, suspect>>
      /\ vecs' = [vecs EXCEPT ![call[c].file] = {}]
  BY MoveFacts DEF VectorWrite, PC, Critical, Deleting, history, VectorsCleared
<1>2. call[c].file \in File
  BY DEF ArgsOK, Critical
<1>3. TypeOK'
  BY <1>1, <1>2
<1>4. ArgsOK'
  BY <1>1, <1>2 DEF ArgsOK, Critical, Deleting
<1>5. ChainOK'
  <2>1. ~Waits(c) /\ call'[c].pc \notin Critical
    BY <1>1 DEF Waits, Critical
  <2> QED
    BY <1>1, <2>1, ChainKept
<1>6. OverlapOK'
  BY <1>1, OverlapKept DEF Critical, Deleting
<1>7. WritesOK'
  <2>1. ASSUME NEW d \in Caller, d # c, call[d].pc \in Critical \cup {"vecGone"}
        PROVE  call[d].file \in File
    BY <2>1 DEF ArgsOK, Critical
  <2>2. ASSUME NEW d \in Caller, d # c, call[d].file = call[c].file
        PROVE  /\ call[d].pc \in Critical /\ d \notin raced' => chunks'[call[d].file] = call[d].text
               /\ call[d].pc \in {"cleared", "upserting"} => vecs'[call[d].file] = {}
               /\ call[d].pc = "upserted" /\ d \notin raced' => vecs'[call[d].file] = {call[d].text}
               /\ call[d].pc = "vecGone" /\ d \notin raced' => vecs'[call[d].file] = {}
    BY <1>1, <1>2, <2>2, HeadIsOne DEF WritesOK, OverlapOK, OneWriter, Critical, Deleting
  <2>3. /\ call'[c].pc \in Critical /\ c \notin raced' => chunks'[call'[c].file] = call'[c].text
        /\ call'[c].pc \in {"cleared", "upserting"} => vecs'[call'[c].file] = {}
        /\ call'[c].pc = "upserted" /\ c \notin raced' => vecs'[call'[c].file] = {call'[c].text}
        /\ call'[c].pc = "vecGone" /\ c \notin raced' => vecs'[call'[c].file] = {}
    BY <1>1, <1>2 DEF WritesOK, Critical
  <2>9. ASSUME NEW d \in Caller, d # c, call[d].file # call[c].file
        PROVE  /\ call[d].pc \in Critical /\ d \notin raced' => chunks'[call[d].file] = call[d].text
               /\ call[d].pc \in {"cleared", "upserting"} => vecs'[call[d].file] = {}
               /\ call[d].pc = "upserted" /\ d \notin raced' => vecs'[call[d].file] = {call[d].text}
               /\ call[d].pc = "vecGone" /\ d \notin raced' => vecs'[call[d].file] = {}
    BY <1>1, <1>2, <2>1, <2>9 DEF WritesOK, Critical
  <2> QED
    BY <1>1, <1>2, <2>2, <2>3, <2>9 DEF WritesOK, Critical
<1>8. ChunksAgree'
  <2>1. \A g \in File : Sha(g)' = Sha(g) /\ chunks'[g] = chunks[g]
    BY <1>1 DEF Sha
  <2>2. \A g \in File : Unwritten(g)' => Unwritten(g)
    BY <1>1 DEF Unwritten, Critical
  <2> QED
    BY <1>1, <2>1, <2>2 DEF ChunksAgree
<1>9. VecsAgree'
  <2>1. \A g \in File : g # call[c].file => Sha(g)' = Sha(g) /\ vecs'[g] = vecs[g]
    BY <1>1 DEF Sha
  <2>2. \A g \in File :
          Unwritten(g)' /\ Undeleted(g)' => Unwritten(g) /\ Undeleted(g)
                                            /\ g # call[c].file
    BY <1>1 DEF Unwritten, Undeleted, Critical
  <2> QED
    BY <1>1, <2>1, <2>2 DEF VecsAgree
<1>10. OneGeneration'
  BY <1>1, <1>2 DEF OneGeneration, WritesOK
<1> QED
  BY <1>3, <1>4, <1>5, <1>6, <1>7, <1>8, <1>9, <1>10

(* A delete that takes the rows leaves none to be backed.                  *)
LEMMA DeleteRowsStep ==
  ASSUME IndInv, NEW c \in Caller, DeleteRows(c)
  PROVE  IndInv'
<1> USE DEF IndInv, TypeOK
<1>1. /\ call' \in [Caller -> Call]
      /\ \A d \in Caller : d # c => call'[d] = call[d]
      /\ call[c].pc = "vecGone"
      /\ call'[c].pc = "idle"
      /\ raced' = raced \ {c}
      /\ UNCHANGED <<disk, vecs, chain>>
      /\ chunks' = Cascade(call[c].file)
      /\ rows' = [rows EXCEPT ![call[c].file] = None]
      /\ suspect' = IF c \in raced THEN suspect \cup {call[c].file}
                    ELSE IF rows[call[c].file] = None THEN suspect
                    ELSE suspect \ {call[c].file}
      /\ vecQ # <<>> /\ vecQ' = Tail(vecQ)
  BY EndFacts DEF DeleteRows, Running, PC, Critical, Deleting, ArgsOK, stores, history
<1>2. call[c].file \in File
  BY <1>1 DEF ArgsOK, Critical, Deleting
<1>3. TypeOK'
  BY <1>1, <1>2 DEF Cascade
<1>4. ArgsOK'
  BY <1>1, <1>2 DEF ArgsOK, Critical, Deleting
<1>5. ChainOK'
  BY <1>1, <1>2, ChainKept DEF Waits, Critical, Deleting
<1>6. OverlapOK'
  BY <1>1, <1>2 DEF OverlapOK, Critical, Deleting, Persisting, Removing
<1>7. WritesOK'
  <2>1. ASSUME NEW d \in Caller, d # c, call[d].pc \in Critical \cup {"vecGone"}
        PROVE  call[d].file \in File
    BY <2>1 DEF ArgsOK, Critical
  <2>2. ASSUME NEW d \in Caller, d # c, call[d].file = call[c].file
        PROVE  /\ call[d].pc \in Critical /\ d \notin raced' => chunks'[call[d].file] = call[d].text
               /\ call[d].pc \in {"cleared", "upserting"} => vecs'[call[d].file] = {}
               /\ call[d].pc = "upserted" /\ d \notin raced' => vecs'[call[d].file] = {call[d].text}
               /\ call[d].pc = "vecGone" /\ d \notin raced' => vecs'[call[d].file] = {}
    BY <1>1, <1>2, <2>2, HeadIsOne DEF WritesOK, OverlapOK, Cascade, Critical, Deleting
  <2>3. /\ call'[c].pc \in Critical /\ c \notin raced' => chunks'[call'[c].file] = call'[c].text
        /\ call'[c].pc \in {"cleared", "upserting"} => vecs'[call'[c].file] = {}
        /\ call'[c].pc = "upserted" /\ c \notin raced' => vecs'[call'[c].file] = {call'[c].text}
        /\ call'[c].pc = "vecGone" /\ c \notin raced' => vecs'[call'[c].file] = {}
    BY <1>1, <1>2 DEF Critical
  <2>9. ASSUME NEW d \in Caller, d # c, call[d].file # call[c].file
        PROVE  /\ call[d].pc \in Critical /\ d \notin raced' => chunks'[call[d].file] = call[d].text
               /\ call[d].pc \in {"cleared", "upserting"} => vecs'[call[d].file] = {}
               /\ call[d].pc = "upserted" /\ d \notin raced' => vecs'[call[d].file] = {call[d].text}
               /\ call[d].pc = "vecGone" /\ d \notin raced' => vecs'[call[d].file] = {}
    BY <1>1, <1>2, <2>1, <2>9 DEF WritesOK, Critical, Cascade
  <2> QED
    BY <1>1, <1>2, <2>2, <2>3, <2>9 DEF WritesOK, Critical
<1>8. ChunksAgree'
  <2>1. \A g \in File : g # call[c].file => Sha(g)' = Sha(g) /\ chunks'[g] = chunks[g]
    BY <1>1, <1>2 DEF Sha, Cascade
  <2>2. \A g \in File : g # call[c].file =>
          /\ Unwritten(g)' => Unwritten(g)
          /\ g \notin suspect' => g \notin suspect
    BY <1>1, <1>2 DEF Unwritten, Undeleted, Critical
  <2>3. ASSUME NEW f \in File, f = call[c].file, f \notin suspect', Unwritten(f)'
        PROVE  chunks'[f] = Sha(f)'
    <3>1. Sha(f)' = None
      BY <1>1, <1>2, <2>3 DEF Sha
    <3>2. CASE rows[f] = None
      <4>1. chunks' = chunks /\ suspect' = suspect
        BY <1>1, <2>3, <3>2 DEF Cascade
      <4>2. Unwritten(f)
        BY <1>1, <2>3 DEF Unwritten, Critical
      <4> QED
        BY <2>3, <3>1, <3>2, <4>1, <4>2 DEF ChunksAgree, Sha
    <3>3. CASE rows[f] # None
      BY <1>1, <1>2, <2>3, <3>1, <3>3 DEF Cascade
    <3> QED
      BY <3>2, <3>3
  <2> QED
    BY <2>1, <2>2, <2>3 DEF ChunksAgree
<1>9. VecsAgree'
  <2>1. \A g \in File : g # call[c].file => Sha(g)' = Sha(g) /\ vecs'[g] = vecs[g]
    BY <1>1, <1>2 DEF Sha
  <2>2. \A g \in File : g # call[c].file =>
          /\ (Unwritten(g) /\ Undeleted(g))' => (Unwritten(g) /\ Undeleted(g))
          /\ g \notin suspect' => g \notin suspect
    BY <1>1, <1>2 DEF Unwritten, Undeleted, Critical
  <2>3. ASSUME NEW f \in File, f = call[c].file, f \notin suspect', (Unwritten(f) /\ Undeleted(f))'
        PROVE  /\ Sha(f)' = None => vecs'[f] = {}
               /\ Sha(f)' # None => vecs'[f] = {Sha(f)'}
    <3>1. Sha(f)' = None /\ c \notin raced
      BY <1>1, <1>2, <2>3 DEF Sha
    <3> QED
      BY <1>1, <1>2, <2>3, <3>1 DEF WritesOK
  <2> QED
    BY <2>1, <2>2, <2>3 DEF VecsAgree
<1>10. OneGeneration'
  BY <1>1, <1>2 DEF OneGeneration
<1> QED
  BY <1>3, <1>4, <1>5, <1>6, <1>7, <1>8, <1>9, <1>10

(* A failed embedding writes nothing.                                      *)
LEMMA EmbedRejectsStep ==
  ASSUME IndInv, NEW c \in Caller, EmbedRejects(c)
  PROVE  IndInv'
<1> USE DEF IndInv, TypeOK
<1>1. /\ call' \in [Caller -> Call]
      /\ \A d \in Caller : d # c => call'[d] = call[d]
      /\ call[c].pc = "embedding"
      /\ call'[c].pc = "idle"
      /\ raced' = raced \ {c}
      /\ UNCHANGED <<disk, rows, chunks, vecs, chain, vecQ, suspect>>
  BY EndFacts DEF EmbedRejects, Running, PC, Critical, Deleting, ArgsOK, stores, history
<1>2. call[c].file \in File /\ call[c].text \in Text
  BY <1>1 DEF ArgsOK, Critical, Deleting
<1>3. TypeOK'
  BY <1>1, <1>2
<1>4. ArgsOK'
  BY <1>1, <1>2 DEF ArgsOK, Critical, Deleting
<1>5. ChainOK'
  BY <1>1, <1>2, ChainKept DEF Waits, Critical, Deleting
<1>6. OverlapOK'
  BY <1>1, <1>2 DEF OverlapOK, Critical, Deleting, Persisting, Removing
<1>7. WritesOK'
  BY <1>1, <1>2 DEF WritesOK, Critical, Deleting, Persisting, Removing
<1>8. ChunksAgree'
  BY <1>1, ChunksKept DEF Critical, Deleting
<1>9. VecsAgree'
  <2>1. \A g \in File : Sha(g)' = Sha(g) /\ vecs'[g] = vecs[g]
    BY <1>1, <1>2 DEF Sha
  <2>2. \A g \in File : Unwritten(g)' /\ Undeleted(g)' => Unwritten(g) /\ Undeleted(g)
    BY <1>1, <1>2 DEF Unwritten, Undeleted, Critical
  <2> QED
    BY <1>1, <1>2, <2>1, <2>2 DEF VecsAgree
<1>10. OneGeneration'
  BY <1>1, <1>2 DEF OneGeneration
<1> QED
  BY <1>3, <1>4, <1>5, <1>6, <1>7, <1>8, <1>9, <1>10

(* A transaction that fails leaves the chunks as they were.                *)
LEMMA ChunksRejectStep ==
  ASSUME IndInv, NEW c \in Caller, ChunksReject(c)
  PROVE  IndInv'
<1> USE DEF IndInv, TypeOK
<1>1. /\ call' \in [Caller -> Call]
      /\ \A d \in Caller : d # c => call'[d] = call[d]
      /\ call[c].pc = "queued"
      /\ Holds(c)
      /\ call'[c].pc = "idle"
      /\ raced' = raced \ {c}
      /\ UNCHANGED <<disk, rows, chunks, vecs, vecQ, suspect>>
      /\ chain' = Release(call[c].file)
  BY EndFacts DEF ChunksReject, Running, PC, Critical, Deleting, ArgsOK, stores, history
<1>2. call[c].file \in File /\ call[c].text \in Text
  BY <1>1 DEF ArgsOK, Critical, Deleting
<1>3. TypeOK'
  BY <1>1, <1>2 DEF Release, Holds
<1>4. ArgsOK'
  BY <1>1, <1>2 DEF ArgsOK, Critical, Deleting
<1>5. ChainOK'
  BY <1>1, <1>2, ChainPopped DEF Waits, Critical, Deleting
<1>6. OverlapOK'
  BY <1>1, <1>2 DEF OverlapOK, Critical, Deleting, Persisting, Removing
<1>7. WritesOK'
  BY <1>1, <1>2 DEF WritesOK, Critical, Deleting, Persisting, Removing
<1>8. ChunksAgree'
  BY <1>1, ChunksKept DEF Critical, Deleting
<1>9. VecsAgree'
  <2>1. \A g \in File : Sha(g)' = Sha(g) /\ vecs'[g] = vecs[g]
    BY <1>1, <1>2 DEF Sha
  <2>2. \A g \in File : Unwritten(g)' /\ Undeleted(g)' => Unwritten(g) /\ Undeleted(g)
    BY <1>1, <1>2 DEF Unwritten, Undeleted, Critical
  <2> QED
    BY <1>1, <1>2, <2>1, <2>2 DEF VecsAgree
<1>10. OneGeneration'
  BY <1>1, <1>2 DEF OneGeneration
<1> QED
  BY <1>3, <1>4, <1>5, <1>6, <1>7, <1>8, <1>9, <1>10

(* A vector write that fails leaves the file suspect.                      *)
LEMMA PersistRejectsStep ==
  ASSUME IndInv, NEW c \in Caller, PersistRejects(c)
  PROVE  IndInv'
<1> USE DEF IndInv, TypeOK
<1>1. /\ call' \in [Caller -> Call]
      /\ \A d \in Caller : d # c => call'[d] = call[d]
      /\ call[c].pc \in Critical
      /\ call'[c].pc = "idle"
      /\ raced' = raced \ {c}
      /\ UNCHANGED <<disk, rows, chunks, vecs>>
      /\ suspect' = suspect \cup {call[c].file}
      /\ chain' = Release(call[c].file)
      /\ vecQ # <<>> /\ vecQ' = Tail(vecQ)
  BY EndFacts DEF PersistRejects, Running, PC, Critical, Deleting, ArgsOK, stores, history
<1>2. call[c].file \in File /\ call[c].text \in Text
  BY <1>1 DEF ArgsOK, Critical, Deleting
<1>3. TypeOK'
  BY <1>1, <1>2 DEF Release, ChainOK, Holds, Critical
<1>4. ArgsOK'
  BY <1>1, <1>2 DEF ArgsOK, Critical, Deleting
<1>5. ChainOK'
  BY <1>1, <1>2, ChainPopped DEF Waits, Critical, Deleting, ChainOK
<1>6. OverlapOK'
  BY <1>1, <1>2 DEF OverlapOK, Critical, Deleting, Persisting, Removing
<1>7. WritesOK'
  BY <1>1, <1>2 DEF WritesOK, Critical, Deleting, Persisting, Removing
<1>8. ChunksAgree'
  BY <1>1, ChunksKept DEF Critical, Deleting
<1>9. VecsAgree'
  <2>1. \A g \in File : Sha(g)' = Sha(g) /\ vecs'[g] = vecs[g]
    BY <1>1, <1>2 DEF Sha
  <2>2. \A g \in File \ suspect' :
          Unwritten(g)' /\ Undeleted(g)' => Unwritten(g) /\ Undeleted(g)
    BY <1>1, <1>2 DEF Unwritten, Undeleted, Critical, Deleting
  <2> QED
    BY <1>1, <1>2, <2>1, <2>2 DEF VecsAgree
<1>10. OneGeneration'
  BY <1>1, <1>2 DEF OneGeneration
<1> QED
  BY <1>3, <1>4, <1>5, <1>6, <1>7, <1>8, <1>9, <1>10

(* A delete that fails once its vectors are gone leaves the file suspect.  *)
LEMMA DeleteRejectsStep ==
  ASSUME IndInv, NEW c \in Caller, DeleteRejects(c)
  PROVE  IndInv'
<1> USE DEF IndInv, TypeOK
<1>1. /\ call' \in [Caller -> Call]
      /\ \A d \in Caller : d # c => call'[d] = call[d]
      /\ call[c].pc \in Deleting
      /\ call'[c].pc = "idle"
      /\ raced' = raced \ {c}
      /\ UNCHANGED <<disk, rows, chunks, vecs, chain>>
      /\ suspect' = IF call[c].pc = "vecGone" THEN suspect \cup {call[c].file} ELSE suspect
      /\ vecQ # <<>> /\ vecQ' = Tail(vecQ)
  BY EndFacts DEF DeleteRejects, Running, PC, Critical, Deleting, ArgsOK, stores, history
<1>2. call[c].file \in File
  BY <1>1 DEF ArgsOK, Critical, Deleting
<1>3. TypeOK'
  BY <1>1, <1>2
<1>4. ArgsOK'
  BY <1>1, <1>2 DEF ArgsOK, Critical, Deleting
<1>5. ChainOK'
  BY <1>1, <1>2, ChainKept DEF Waits, Critical, Deleting
<1>6. OverlapOK'
  BY <1>1, <1>2 DEF OverlapOK, Critical, Deleting, Persisting, Removing
<1>7. WritesOK'
  BY <1>1, <1>2 DEF WritesOK, Critical, Deleting, Persisting, Removing
<1>8. ChunksAgree'
  BY <1>1, ChunksKept DEF Critical, Deleting
<1>9. VecsAgree'
  <2>1. \A g \in File : Sha(g)' = Sha(g) /\ vecs'[g] = vecs[g]
    BY <1>1, <1>2 DEF Sha
  <2>2. \A g \in File \ suspect' :
          Unwritten(g)' /\ Undeleted(g)' => Unwritten(g) /\ Undeleted(g)
    BY <1>1, <1>2 DEF Unwritten, Undeleted, Critical, Deleting
  <2> QED
    BY <1>1, <1>2, <2>1, <2>2 DEF VecsAgree
<1>10. OneGeneration'
  BY <1>1, <1>2 DEF OneGeneration
<1> QED
  BY <1>3, <1>4, <1>5, <1>6, <1>7, <1>8, <1>9, <1>10

(* A row for a read error claims nothing about the stores.                 *)
LEMMA RecordReadErrorStep ==
  ASSUME IndInv, NEW f \in File, RecordReadError(f)
  PROVE  IndInv'
<1> USE DEF IndInv, TypeOK
<1>1. /\ rows' = [rows EXCEPT ![f] = [sha |-> Sha(f), error |-> TRUE]]
      /\ UNCHANGED <<disk, chunks, vecs, call, chain, vecQ, raced, suspect>>
  BY DEF RecordReadError, Sha, history
<1>2. Sha(f) \in Text \cup {None}
  BY DEF Sha, Row
<1>3. TypeOK'
  BY <1>1, <1>2 DEF Row
<1>4. ArgsOK' /\ ChainOK' /\ OverlapOK' /\ WritesOK' /\ OneGeneration'
  BY <1>1 DEF ArgsOK, ChainOK, OverlapOK, WritesOK, OneGeneration, Waits, Holds
<1>5. [sha |-> Sha(f), error |-> TRUE] # None
  BY <1>2, RowFacts
<1>6. \A g \in File : Sha(g)' = Sha(g)
  BY <1>1, <1>5 DEF Sha
<1>7. ChunksAgree' /\ VecsAgree'
  BY <1>1, <1>6 DEF ChunksAgree, VecsAgree, Unwritten, Undeleted
<1> QED
  BY <1>3, <1>4, <1>7

(* The rest of the invariant does not look at the disk.                    *)
LEMMA SameButDisk ==
  ASSUME IndInv, UNCHANGED <<rows, chunks, vecs, call, chain, vecQ, raced, suspect>>
  PROVE  /\ ArgsOK' /\ ChainOK' /\ OverlapOK' /\ WritesOK'
         /\ ChunksAgree' /\ VecsAgree' /\ OneGeneration'
<1> USE DEF IndInv
<1>1. ArgsOK' /\ OverlapOK' /\ WritesOK' /\ OneGeneration'
  BY DEF ArgsOK, OverlapOK, WritesOK, OneGeneration
<1>2. ChainOK'
  BY DEF ChainOK, Waits, Holds
<1>3. \A g \in File : Sha(g)' = Sha(g) /\ Unwritten(g)' = Unwritten(g)
                      /\ Undeleted(g)' = Undeleted(g)
  BY DEF Sha, Unwritten, Undeleted
<1>4. ChunksAgree' /\ VecsAgree'
  BY <1>3 DEF ChunksAgree, VecsAgree
<1> QED
  BY <1>1, <1>2, <1>4

(* An edit of the disk touches no store.                                   *)
LEMMA EditStep ==
  ASSUME IndInv, NEW f \in File, Edit(f)
  PROVE  IndInv'
<1>1. TypeOK'
  BY DEF IndInv, TypeOK, Edit, stores, history
<1>2. UNCHANGED <<rows, chunks, vecs, call, chain, vecQ, raced, suspect>>
  BY DEF Edit, stores, history
<1> QED
  BY <1>1, <1>2, SameButDisk DEF IndInv

(* A crash makes suspect every file that was being written.                *)
LEMMA CrashStep ==
  ASSUME IndInv, Crash
  PROVE  IndInv'
<1> USE DEF IndInv, TypeOK
<1>1. /\ call' = [c \in Caller |-> Idle]
      /\ chain' = [f \in File |-> <<>>]
      /\ vecQ' = <<>>
      /\ raced' = {}
      /\ UNCHANGED <<disk, rows, chunks, vecs>>
      /\ \A f \in File : f \notin suspect' =>
           f \notin suspect /\ Unwritten(f) /\ Undeleted(f)
  BY DEF Crash, stores, Unwritten, Undeleted, Persisting, Removing, Critical, Deleting
<1>2. Idle \in Call /\ Idle.pc = "idle"
  BY DEF Idle, Call, PC
<1>3. TypeOK'
  BY <1>1, <1>2 DEF Crash
<1>4. ArgsOK' /\ ChainOK' /\ OverlapOK' /\ WritesOK' /\ OneGeneration'
  BY <1>1, <1>2
  DEF ArgsOK, ChainOK, OverlapOK, WritesOK, OneGeneration, Critical, Deleting
<1>5. ChunksAgree' /\ VecsAgree'
  BY <1>1 DEF ChunksAgree, VecsAgree, Sha
<1> QED
  BY <1>3, <1>4, <1>5

(* Every step preserves the invariant.                                     *)
LEMMA StepInd == IndInv /\ [Next]_vars => IndInv'
<1> SUFFICES ASSUME IndInv, [Next]_vars PROVE IndInv'
  OBVIOUS
<1>1. ASSUME NEW c \in Caller, Persist(c)
      PROVE  IndInv'
  BY <1>1, EmbeddedStep, ReplaceChunksStep, ClearedStep, UpsertFileStep DEF Persist
<1>2. ASSUME NEW c \in Caller, VectorWrite(c)
      PROVE  IndInv'
  <2>1. call[c].pc \in {"clearing", "upserting", "deleting"}
    BY <1>2 DEF VectorWrite
  <2> QED
    BY <1>2, <2>1, ClearVectorsStep, UpsertVectorsStep, DeleteVectorsStep
<1>3. ASSUME NEW c \in Caller, Rejects(c)
      PROVE  IndInv'
  BY <1>3, EmbedRejectsStep, ChunksRejectStep, PersistRejectsStep, DeleteRejectsStep
  DEF Rejects
<1>4. ASSUME NEW c \in Caller, Resume(c)
      PROVE  IndInv'
  BY <1>1, <1>2, <1>3, <1>4, DeleteRowsStep DEF Resume
<1>5. ASSUME NEW c \in Caller, NEW f \in File, IndexFile(c, f) \/ DeleteFile(c, f)
      PROVE  IndInv'
  BY <1>5, IndexFileStep, DeleteFileStep
<1>6. ASSUME NEW f \in File, RecordReadError(f) \/ Edit(f)
      PROVE  IndInv'
  BY <1>6, RecordReadErrorStep, EditStep
<1>7. CASE UNCHANGED vars
  <2>1. UNCHANGED <<disk, rows, chunks, vecs, call, chain, vecQ, raced, suspect>>
    BY <1>7 DEF vars
  <2>2. TypeOK'
    BY <2>1 DEF IndInv, TypeOK
  <2> QED
    BY <2>1, <2>2, SameButDisk DEF IndInv
<1> QED
  BY <1>4, <1>5, <1>6, <1>7, CrashStep DEF Next

(* The inductive invariant says all three.                                 *)
LEMMA IndImplies == IndInv => TypeOK /\ OneWriter /\ OneGeneration /\ StoresAgree
<1> SUFFICES ASSUME IndInv PROVE TypeOK /\ OneWriter /\ OneGeneration /\ StoresAgree
  OBVIOUS
<1>1. ASSUME NEW f \in File \ suspect, Settled(f)
      PROVE  /\ chunks[f] = Sha(f)
             /\ vecs[f] = (IF Sha(f) = None THEN {} ELSE {Sha(f)})
  <2>1. Unwritten(f)
    BY <1>1 DEF Settled, Persisting, Unwritten
  <2>2. Undeleted(f)
    BY <1>1 DEF Settled, Removing, Undeleted, Deleting
  <2>3. /\ Sha(f) = None => vecs[f] = {}
        /\ Sha(f) # None => vecs[f] = {Sha(f)}
    BY <2>1, <2>2 DEF IndInv, VecsAgree
  <2> QED
    BY <2>1, <2>3 DEF IndInv, ChunksAgree
<1> QED
  BY <1>1, HeadIsOne DEF IndInv, StoresAgree

(* The invariant holds of every behaviour.                                 *)
LEMMA Inductive == Spec => []IndInv
  BY InitInd, StepInd, PTL DEF Spec

(* Every variable keeps its type.                                          *)
THEOREM TypeCorrect == Spec => []TypeOK
  BY Inductive, IndImplies, PTL

(* PerKeyMutex lets at most one persist per file write, whatever fails.    *)
THEOREM MutualExclusion == Spec => []OneWriter
  BY Inductive, IndImplies, PTL

(* The vector store never holds two generations of a file.                 *)
THEOREM SingleGeneration == Spec => []OneGeneration
  BY Inductive, IndImplies, PTL

(* The files row tells what both stores hold, but for the files that a     *)
(* broken-off or overlapped write left.                                    *)
THEOREM CommitMarker == Spec => []StoresAgree
  BY Inductive, IndImplies, PTL

-----------------------------------------------------------------------------
(* Migrations.                                                             *)
(* What a process knows of the schema at its place on the ladder.          *)
Climbed(p) ==
  /\ proc[p].pc = "between" =>
       proc[p].rung >= 1 /\ SchemaOf(proc[p].rung - 1) \subseteq schema
  /\ proc[p].pc = "running" =>
       /\ proc[p].rung \in 1..SCHEMA_VERSION
       /\ SchemaOf(proc[p].rung - 1) \subseteq schema
       /\ proc[p].at < Len(Script(p))
       /\ \A k \in 1..proc[p].at : Script(p)[k].what \in schema
       /\ proc[p].text = "again" =>
            MIGRATIONS[proc[p].rung].adds \subseteq schema /\ MIGRATIONS[proc[p].rung].adds # {}

Reached == SchemaOf(IF version < SCHEMA_VERSION THEN version ELSE SCHEMA_VERSION) \subseteq schema

Inv == MigrationTypeOK /\ Reached /\ \A p \in Proc : Climbed(p)

-----------------------------------------------------------------------------
(* The rungs of the ladder are migrations.                                 *)
LEMMA RungType ==
  ASSUME NEW v \in 1..SCHEMA_VERSION
  PROVE  /\ MIGRATIONS[v].section \in Seq(Statement)
         /\ MIGRATIONS[v].again \in Seq(Statement)
         /\ MIGRATIONS[v].adds \subseteq Object
<1>1. MIGRATIONS[v] \in Migration BY LadderAssumption DEF SCHEMA_VERSION
<1> QED BY <1>1 DEF Migration

(* There is a last version.                                                *)
LEMMA Top == SCHEMA_VERSION \in Nat \ {0}
BY LadderAssumption DEF SCHEMA_VERSION

(* The schema of a version grows with the version, a section at a time.    *)
LEMMA SchemaGrows ==
  ASSUME NEW u \in Nat, NEW v \in Nat, u <= v
  PROVE  SchemaOf(u) \subseteq SchemaOf(v)
BY DEF SchemaOf

(* A version adds its own section's objects and no others.                 *)
LEMMA NextSchema ==
  ASSUME NEW v \in Nat, v >= 1, NEW S,
         SchemaOf(v - 1) \subseteq S, Made(MIGRATIONS[v].section) \subseteq S
  PROVE  SchemaOf(v) \subseteq S
<1>1. ASSUME NEW o \in SchemaOf(v) PROVE o \in S
  <2>1. PICK u \in 1..v : o \in Made(MIGRATIONS[u].section) BY DEF SchemaOf
  <2>2. CASE u = v BY <2>1, <2>2
  <2>3. CASE u # v
    <3>1. u \in 1..(v - 1) BY <2>3
    <3> QED BY <2>1, <3>1 DEF SchemaOf
  <2> QED BY <2>2, <2>3
<1> QED BY <1>1

(* A rung that is through has brought about what its section says, be it   *)
(* by the section or by the one for columns that are there.                *)
LEMMA RungDone ==
  ASSUME NEW v \in 1..SCHEMA_VERSION, NEW S, NEW text \in {"section", "again"},
         SchemaOf(v - 1) \subseteq S,
         \A k \in 1..Len(Statements(v, text)) : Statements(v, text)[k].what \in S,
         text = "again" => MIGRATIONS[v].adds \subseteq S /\ MIGRATIONS[v].adds # {}
  PROVE  SchemaOf(v) \subseteq S
<1>1. DOMAIN Statements(v, text) = 1..Len(Statements(v, text)) BY RungType DEF Statements
<1>2. Made(Statements(v, text)) \subseteq S BY <1>1 DEF Made
<1>3. Made(MIGRATIONS[v].section) \subseteq S
  BY <1>2, LadderAssumption DEF Statements
<1> QED BY <1>3, NextSchema, Top

-----------------------------------------------------------------------------
(* Both texts of a rung are sequences of statements.                       *)
LEMMA ScriptType ==
  ASSUME NEW v \in 1..SCHEMA_VERSION, NEW text \in {"section", "again"}
  PROVE  /\ Statements(v, text) \in Seq(Statement)
         /\ Len(Statements(v, text)) \in Nat
         /\ \A k \in 1..Len(Statements(v, text)) : Statements(v, text)[k] \in Statement
<1>1. Statements(v, text) \in Seq(Statement) BY RungType DEF Statements
<1> QED BY <1>1

(* Between two rungs a process has nothing left to run.                    *)
LEMMA BetweenField ==
  ASSUME NEW v \in 0..SCHEMA_VERSION + 1
  PROVE  Between(v) \in Fields /\ Between(v).pc = "between" /\ Between(v).rung = v
BY Top DEF Between, AtRest, Fields

(* An idle process is on no rung.                                          *)
LEMMA IdleField == AtRest \in Fields /\ AtRest.pc = "idle"
BY Top DEF AtRest, Fields

(* A process at its place on the ladder keeps what it knows while the      *)
(* schema grows.                                                           *)
LEMMA KeepsClimbed ==
  ASSUME NEW p \in Proc, Climbed(p), proc'[p] = proc[p], schema \subseteq schema'
  PROVE  Climbed(p)'
BY DEF Climbed, Script

(* A store whose schema only grows stays as complete as its version.       *)
LEMMA KeepsReached ==
  ASSUME Reached, version' = version, schema \subseteq schema'
  PROVE  Reached'
BY DEF Reached

(* The invariant holds of every store a build may find.                    *)
LEMMA InitInv == MigrationInit => Inv
<1> SUFFICES ASSUME MigrationInit PROVE Inv OBVIOUS
<1> USE Top
<1>1. PICK v \in 0..SCHEMA_VERSION :
        (version <= v \/ v = SCHEMA_VERSION) /\ schema = SchemaOf(v)
  BY DEF MigrationInit
<1>2. schema \subseteq Object
  <2>1. ASSUME NEW o \in schema PROVE o \in Object
    <3>1. PICK u \in 1..v : o \in Made(MIGRATIONS[u].section) BY <1>1, <2>1 DEF SchemaOf
    <3>2. PICK k \in DOMAIN MIGRATIONS[u].section : o = MIGRATIONS[u].section[k].what
      BY <3>1 DEF Made
    <3>3. MIGRATIONS[u].section \in Seq(Statement) BY RungType
    <3>4. MIGRATIONS[u].section[k] \in Statement BY <3>2, <3>3
    <3> QED BY <3>2, <3>4 DEF Statement
  <2> QED BY <2>1
<1>3. version \in 0..SCHEMA_VERSION + 1 BY DEF MigrationInit
<1>4. Reached
  <2>1. CASE version < SCHEMA_VERSION BY <1>1, <1>3, <2>1, SchemaGrows DEF Reached
  <2>2. CASE ~(version < SCHEMA_VERSION)
    <3>1. v = SCHEMA_VERSION BY <1>1, <1>3, <2>2
    <3> QED BY <1>1, <2>2, <3>1 DEF Reached
  <2> QED BY <2>1, <2>2
<1>5. proc \in [Proc -> Fields] /\ \A p \in Proc : proc[p] = AtRest
  BY IdleField DEF MigrationInit
<1>6. \A p \in Proc : Climbed(p) BY <1>5, IdleField DEF Climbed
<1>7. MigrationTypeOK BY <1>2, <1>3, <1>5, LadderAssumption DEF MigrationTypeOK, MigrationInit
<1> QED BY <1>4, <1>6, <1>7 DEF Inv

-----------------------------------------------------------------------------
(* What an action must show when it moves one process and lets the schema  *)
(* grow.                                                                   *)
LEMMA Moves ==
  ASSUME Inv, NEW p \in Proc, NEW f \in Fields, Becomes(p, f),
         schema \subseteq schema', schema' \subseteq Object,
         version' \in 0..SCHEMA_VERSION + 1, Reached', Climbed(p)',
         projects' \in {"none", "unflagged", "dormant", "active"},
         cut' \subseteq Statement, stops' \in 0..MaxStops
  PROVE  Inv'
<1>1. proc' \in [Proc -> Fields] BY DEF Inv, MigrationTypeOK, Becomes
<1>2. ASSUME NEW q \in Proc, q # p PROVE Climbed(q)'
  <2>1. proc'[q] = proc[q] BY <1>2 DEF Inv, MigrationTypeOK, Becomes
  <2> QED BY <1>2, <2>1, KeepsClimbed DEF Inv
<1>3. \A q \in Proc : Climbed(q)' BY <1>2
<1>4. MigrationTypeOK' BY <1>1 DEF MigrationTypeOK
<1> QED BY <1>3, <1>4 DEF Inv

(* A process that moves is where it was put.                               *)
LEMMA PointOf ==
  ASSUME Inv, NEW p \in Proc, NEW f \in Fields, Becomes(p, f)
  PROVE  proc'[p] = f /\ proc[p] \in Fields
BY DEF Inv, MigrationTypeOK, Becomes

(* Opening starts at the rung above the store's version.                   *)
LEMMA StepOpens == ASSUME Inv, NEW p \in Proc, Opens(p) PROVE Inv'
<1> USE Top
<1> DEFINE f == IF version = SCHEMA_VERSION THEN [AtRest EXCEPT !.pc = "open"]
                ELSE Between(NextRung(version))
<1>1. version \in 0..SCHEMA_VERSION BY DEF Opens, MayOpen, Inv, MigrationTypeOK
<1>2. CASE version = SCHEMA_VERSION
  <2>1. f \in Fields /\ f.pc = "open" BY <1>2 DEF AtRest, Fields
  <2>2. Becomes(p, f) BY DEF Opens
  <2>3. Climbed(p)' BY <2>1, <2>2, PointOf DEF Climbed
  <2> QED BY <2>1, <2>2, <2>3, Moves, KeepsReached DEF Opens, store, stopped, Inv, MigrationTypeOK
<1>3. CASE version # SCHEMA_VERSION
  <2>1. NextRung(version) \in 1..SCHEMA_VERSION BY <1>1, <1>3 DEF NextRung
  <2>2. f \in Fields /\ f.pc = "between" /\ f.rung = NextRung(version)
    BY <1>3, <2>1, BetweenField
  <2>3. Becomes(p, f) BY DEF Opens
  <2>4. SchemaOf(f.rung - 1) \subseteq schema'
    <3>1. f.rung - 1 = version BY <1>1, <2>2 DEF NextRung
    <3> QED BY <1>1, <1>3, <3>1 DEF Inv, Reached, Opens, store
  <2>5. Climbed(p)' BY <2>1, <2>2, <2>3, <2>4, PointOf DEF Climbed
  <2> QED BY <2>2, <2>3, <2>5, Moves, KeepsReached DEF Opens, store, stopped, Inv, MigrationTypeOK
<1> QED BY <1>2, <1>3

(* Looking at the columns chooses a text that can complete the rung.       *)
LEMMA StepLooks == ASSUME Inv, NEW p \in Proc, Looks(p) PROVE Inv'
<1> USE Top
<1> DEFINE v == proc[p].rung
           text == IF AlreadyApplied(v) THEN "again" ELSE "section"
           run == [pc |-> "running", rung |-> v, text |-> text, at |-> 0]
           f == IF Statements(v, text) = <<>> THEN Between(NextRung(v)) ELSE run
<1>1. v \in 1..SCHEMA_VERSION /\ SchemaOf(v - 1) \subseteq schema
  BY DEF Looks, Inv, MigrationTypeOK, Climbed, Fields
<1>2. text \in {"section", "again"}
      /\ (text = "again" => MIGRATIONS[v].adds \subseteq schema /\ MIGRATIONS[v].adds # {})
  BY DEF AlreadyApplied
<1>3. Becomes(p, f) BY DEF Looks
<1>0. /\ schema \subseteq schema' /\ schema' \subseteq Object
      /\ version' \in 0..SCHEMA_VERSION + 1 /\ Reached'
      /\ projects' \in {"none", "unflagged", "dormant", "active"}
      /\ cut' \subseteq Statement /\ stops' \in 0..MaxStops
  BY KeepsReached DEF Looks, store, stopped, Inv, MigrationTypeOK
<1> HIDE DEF text
<1>4. CASE Statements(v, text) = <<>>
  <2>1. NextRung(v) \in 1..SCHEMA_VERSION + 1 /\ NextRung(v) - 1 = v BY <1>1 DEF NextRung
  <2> DEFINE b == Between(NextRung(v))
  <2>2. f = b BY <1>4
  <2>3. NextRung(v) \in 0..SCHEMA_VERSION + 1 BY <2>1
  <2>4. b \in Fields /\ b.pc = "between" /\ b.rung = NextRung(v) BY <2>3, BetweenField
  <2>5. SchemaOf(v) \subseteq schema
    <3>1. \A k \in 1..Len(Statements(v, text)) : Statements(v, text)[k].what \in schema BY <1>4
    <3> QED BY <1>1, <1>2, <3>1, RungDone
  <2> HIDE DEF f, b
  <2>6. proc'[p] = b BY <1>3, <2>2, <2>4, PointOf
  <2>7. Climbed(p)' BY <2>1, <2>4, <2>5, <2>6 DEF Climbed, Looks, store
  <2> QED BY <1>0, <1>3, <2>2, <2>4, <2>7, Moves
<1>5. CASE Statements(v, text) # <<>>
  <2>1. run \in Fields BY <1>1, <1>2 DEF Fields
  <2>2. Becomes(p, run) BY <1>3, <1>5
  <2>3. proc'[p] = run BY <2>1, <2>2, PointOf
  <2>4. Script(p)' = Statements(v, text) /\ 0 < Len(Statements(v, text))
    <3>1. Script(p)' = Statements(v, text) BY <2>3 DEF Script, Statements
    <3>2. Statements(v, text) \in Seq(Statement) BY <1>1, <1>2, ScriptType
    <3> QED BY <1>5, <3>1, <3>2
  <2>5. Climbed(p)' BY <1>1, <1>2, <2>3, <2>4 DEF Climbed, Looks, store
  <2> HIDE DEF run
  <2> QED BY <1>0, <2>1, <2>2, <2>5, Moves
<1> QED BY <1>4, <1>5

(* A statement adds its object to what its process knows is there.         *)
LEMMA StepExecutes == ASSUME Inv, NEW p \in Proc, Executes(p) PROVE Inv'
<1> USE Top
<1> DEFINE v == proc[p].rung
           text == proc[p].text
           at == proc[p].at
           more == [proc[p] EXCEPT !.at = @ + 1]
<1>1. /\ v \in 1..SCHEMA_VERSION /\ SchemaOf(v - 1) \subseteq schema
      /\ text \in {"section", "again"} /\ at \in Nat /\ at < Len(Statements(v, text))
      /\ \A k \in 1..at : Statements(v, text)[k].what \in schema
      /\ text = "again" => MIGRATIONS[v].adds \subseteq schema /\ MIGRATIONS[v].adds # {}
  BY DEF Executes, Inv, MigrationTypeOK, Climbed, Fields, Script
<1>2. schema' = schema \cup {Statements(v, text)[at + 1].what} BY DEF Executes, Stmt, Script
<1>3. Statements(v, text)[at + 1] \in Statement
  <2> HIDE DEF v, text, at
  <2>1. /\ Len(Statements(v, text)) \in Nat
        /\ \A k \in 1..Len(Statements(v, text)) : Statements(v, text)[k] \in Statement
    BY <1>1, ScriptType
  <2>2. at + 1 \in 1..Len(Statements(v, text)) BY <1>1, <2>1
  <2> QED BY <2>1, <2>2
<1>4. schema \subseteq schema' /\ schema' \subseteq Object
  BY <1>2, <1>3 DEF Statement, Inv, MigrationTypeOK
<1>5. \A k \in 1..at + 1 : Statements(v, text)[k].what \in schema' BY <1>1, <1>2
<1>6. SchemaOf(v - 1) \subseteq schema' BY <1>1, <1>4
<1>7. projects' \in {"none", "unflagged", "dormant", "active"}
  BY DEF Executes, ProjectsAfter, Inv, MigrationTypeOK
<1>8. /\ version' \in 0..SCHEMA_VERSION + 1 /\ Reached'
      /\ cut' \subseteq Statement /\ stops' \in 0..MaxStops
  BY <1>4, KeepsReached DEF Executes, stopped, Inv, MigrationTypeOK
<1>9. text = "again" => MIGRATIONS[v].adds \subseteq schema' /\ MIGRATIONS[v].adds # {}
  BY <1>1, <1>4
<1>10. CASE at + 1 = Len(Statements(v, text))
  <2> DEFINE b == Between(NextRung(v))
  <2>1. Becomes(p, b) BY <1>10 DEF Executes, Script
  <2>2. NextRung(v) \in 0..SCHEMA_VERSION + 1 /\ NextRung(v) - 1 = v /\ NextRung(v) >= 1
    BY <1>1 DEF NextRung
  <2>3. b \in Fields /\ b.pc = "between" /\ b.rung = NextRung(v) BY <2>2, BetweenField
  <2>4. SchemaOf(v) \subseteq schema'
    BY <1>1, <1>5, <1>6, <1>9, <1>10, RungDone
  <2> HIDE DEF b
  <2>5. proc'[p] = b BY <2>1, <2>3, PointOf
  <2>6. Climbed(p)' BY <2>2, <2>3, <2>4, <2>5 DEF Climbed
  <2> QED BY <1>4, <1>7, <1>8, <2>1, <2>3, <2>6, Moves
<1>11. CASE at + 1 # Len(Statements(v, text))
  <2>1. Becomes(p, more) BY <1>11 DEF Executes, Script
  <2>2. proc[p] \in Fields /\ proc[p].pc = "running" BY DEF Inv, MigrationTypeOK, Executes
  <2>3. /\ more \in Fields /\ more.pc = "running" /\ more.rung = v
        /\ more.text = text /\ more.at = at + 1
    BY <1>1, <2>2 DEF Fields
  <2> HIDE DEF more
  <2>4. proc'[p] = more BY <2>1, <2>3, PointOf
  <2>5. at + 1 < Len(Statements(v, text)) BY <1>1, <1>11, ScriptType
  <2>6. Script(p)' = Statements(v, text) BY <2>3, <2>4 DEF Script, Statements
  <2>7. Climbed(p)' BY <1>1, <1>5, <1>6, <1>9, <2>3, <2>4, <2>5, <2>6 DEF Climbed
  <2> QED BY <1>4, <1>7, <1>8, <2>1, <2>3, <2>7, Moves
<1> QED BY <1>10, <1>11

(* A process that throws, stops or closes is idle again.                   *)
LEMMA BecomesIdle ==
  ASSUME Inv, NEW p \in Proc, Becomes(p, AtRest), UNCHANGED store,
         cut' \subseteq Statement, stops' \in 0..MaxStops
  PROVE  Inv'
<1>1. proc'[p] = AtRest BY IdleField, PointOf
<1>2. Climbed(p)' BY <1>1, IdleField DEF Climbed
<1> QED BY <1>2, IdleField, Moves, KeepsReached DEF store, Inv, MigrationTypeOK

(* A process that stops leaves the schema to the others.                   *)
LEMMA StepStops == ASSUME Inv, NEW p \in Proc, Stops(p) PROVE Inv'
<1> USE Top
<1>1. stops' \in 0..MaxStops BY LadderAssumption DEF Stops, Inv, MigrationTypeOK
<1>2. cut' \subseteq Statement
  <2>1. CASE proc[p].pc = "running"
    <3>1. proc[p].rung \in 1..SCHEMA_VERSION /\ proc[p].at < Len(Script(p))
      BY <2>1 DEF Inv, Climbed
    <3>2. proc[p].at \in Nat /\ proc[p].text \in {"section", "again"}
      BY DEF Inv, MigrationTypeOK, Fields
    <3>3. Stmt(p) \in Statement
      <4>1. \A k \in 1..Len(Script(p)) : Script(p)[k] \in Statement
        BY <3>1, <3>2, ScriptType DEF Script
      <4>2. Len(Script(p)) \in Nat BY <3>1, <3>2, ScriptType DEF Script
      <4>3. proc[p].at + 1 \in 1..Len(Script(p)) BY <3>1, <3>2, <4>2
      <4> QED BY <4>1, <4>3 DEF Stmt
    <3> QED BY <2>1, <3>3 DEF Stops, Inv, MigrationTypeOK
  <2>2. CASE proc[p].pc # "running" BY <2>2 DEF Stops, Inv, MigrationTypeOK
  <2> QED BY <2>1, <2>2
<1> QED BY <1>1, <1>2, BecomesIdle DEF Stops

(* The version is written by a process that has been through every rung.   *)
LEMMA StepSetsVersion == ASSUME Inv, NEW p \in Proc, SetsVersion(p) PROVE Inv'
<1> USE Top
<1> DEFINE f == [AtRest EXCEPT !.pc = "open"]
<1>1. f \in Fields /\ f.pc = "open" BY DEF AtRest, Fields
<1>2. proc[p].rung = SCHEMA_VERSION + 1 BY DEF SetsVersion, Inv, MigrationTypeOK, Fields
<1>3. proc[p].rung - 1 = SCHEMA_VERSION BY <1>2
<1>4. SchemaOf(SCHEMA_VERSION) \subseteq schema BY <1>3 DEF SetsVersion, Inv, Climbed
<1>5. Reached' BY <1>4 DEF SetsVersion, Reached
<1>6. Becomes(p, f) BY DEF SetsVersion
<1> HIDE DEF f
<1>7. proc'[p] = f BY <1>1, <1>6, PointOf
<1>8. Climbed(p)' BY <1>1, <1>7 DEF Climbed
<1> QED BY <1>1, <1>5, <1>6, <1>8, Moves DEF SetsVersion, stopped, Inv, MigrationTypeOK

(* Every step preserves the invariant.                                     *)
THEOREM InvStep == Inv /\ [MigrationNext]_migrationVars => Inv'
<1> SUFFICES ASSUME Inv, [MigrationNext]_migrationVars PROVE Inv' OBVIOUS
<1>1. CASE UNCHANGED migrationVars
  <2>1. UNCHANGED <<schema, version, projects, proc, cut, stops>>
    BY <1>1 DEF migrationVars, store, stopped
  <2>2. \A p \in Proc : Climbed(p)' BY <2>1 DEF Inv, Climbed, Script
  <2> QED BY <2>1, <2>2 DEF Inv, MigrationTypeOK, Reached
<1>2. ASSUME NEW p \in Proc, Opens(p) PROVE Inv' BY <1>2, StepOpens
<1>3. ASSUME NEW p \in Proc, Looks(p) PROVE Inv' BY <1>3, StepLooks
<1>4. ASSUME NEW p \in Proc, Executes(p) PROVE Inv' BY <1>4, StepExecutes
<1>5. ASSUME NEW p \in Proc, DuplicateColumn(p) \/ Closes(p) PROVE Inv'
  BY <1>5, BecomesIdle DEF DuplicateColumn, Closes, stopped, Inv, MigrationTypeOK
<1>6. ASSUME NEW p \in Proc, SetsVersion(p) PROVE Inv' BY <1>6, StepSetsVersion
<1>7. ASSUME NEW p \in Proc, Stops(p) PROVE Inv' BY <1>7, StepStops
<1> QED BY <1>1, <1>2, <1>3, <1>4, <1>5, <1>6, <1>7 DEF MigrationNext, Steps

(* Whatever runs the ladder keeps every variable to its type.              *)
THEOREM MigrationTypeCorrect == MigrationSpec => []MigrationTypeOK
<1>1. Inv => MigrationTypeOK BY DEF Inv
<1> QED BY <1>1, InitInv, InvStep, PTL DEF MigrationSpec

(* A store that says it is current has every object of every rung.         *)
THEOREM CurrentIsComplete == MigrationSpec => []VersionIsTrue
<1>1. Inv => VersionIsTrue
  <2> SUFFICES ASSUME Inv, version >= SCHEMA_VERSION
               PROVE  SchemaOf(SCHEMA_VERSION) \subseteq schema
    BY DEF VersionIsTrue
  <2>1. version \in Nat BY Top DEF Inv, MigrationTypeOK
  <2> QED BY <2>1, Top DEF Inv, Reached
<1> QED BY <1>1, InitInv, InvStep, PTL DEF MigrationSpec

-----------------------------------------------------------------------------
(* While the rows sleep, a process is about to wake them, or stopped then. *)
Wakes(p) == proc[p].pc = "running" /\ Stmt(p).does = "update"

Sleep == projects = "dormant" =>
  (\E p \in Proc : Wakes(p)) \/ (\E s \in cut : s.does = "update")

(* A process that is to update the rows stays so until it has.             *)
LEMMA KeepsWaking ==
  ASSUME Inv, Sleep, projects = "dormant", cut \subseteq cut',
         NEW p \in Proc, NEW f, Becomes(p, f),
         Wakes(p) => Wakes(p)' \/ \E s \in cut' : s.does = "update"
  PROVE  Sleep'
<1>1. CASE \E s \in cut : s.does = "update" BY <1>1 DEF Sleep
<1>2. ASSUME NEW q \in Proc, Wakes(q) PROVE Sleep'
  <2>1. CASE q = p BY <1>2, <2>1 DEF Sleep
  <2>2. CASE q # p
    <3>1. proc'[q] = proc[q] BY <2>2 DEF Inv, MigrationTypeOK, Becomes
    <3>2. Wakes(q)' BY <1>2, <3>1 DEF Wakes, Stmt, Script
    <3> QED BY <3>2 DEF Sleep
  <2> QED BY <2>1, <2>2
<1> QED BY <1>1, <1>2 DEF Sleep

(* Whoever makes the projects dormant updates them next.                   *)
LEMMA ExecutesSleep == ASSUME Inv, Sleep, NEW p \in Proc, Executes(p) PROVE Sleep'
<1> USE Top
<1>1. CASE projects' # "dormant" BY <1>1 DEF Sleep
<1>2. CASE projects' = "dormant" /\ projects = "dormant"
  <2>1. Stmt(p).does # "update" BY <1>2 DEF Executes, ProjectsAfter
  <2> QED BY <1>2, <2>1, KeepsWaking DEF Executes, stopped, Wakes
<1>3. CASE projects' = "dormant" /\ projects # "dormant"
  <2> DEFINE v == proc[p].rung
             at == proc[p].at
             more == [proc[p] EXCEPT !.at = @ + 1]
  <2>1. Stmt(p).does = "alter" /\ Stmt(p).what = Flag
    BY <1>3 DEF Executes, ProjectsAfter
  <2>2. v \in 1..SCHEMA_VERSION /\ at < Len(Script(p)) BY DEF Executes, Inv, Climbed
  <2>3. proc[p] \in Fields /\ at \in Nat /\ proc[p].text \in {"section", "again"}
    BY DEF Inv, MigrationTypeOK, Fields
  <2>4. proc[p].text = "section"
    <3>1. CASE proc[p].text = "again"
      <4>1. Script(p) = MIGRATIONS[v].again BY <3>1 DEF Script, Statements
      <4>2. at + 1 \in DOMAIN MIGRATIONS[v].again BY <2>2, <2>3, <4>1, RungType
      <4> QED BY <2>1, <2>2, <4>1, <4>2, FlagAssumption DEF Stmt
    <3> QED BY <2>3, <3>1
  <2>5. Script(p) = MIGRATIONS[v].section BY <2>4 DEF Script, Statements
  <2>6. at + 1 \in DOMAIN MIGRATIONS[v].section BY <2>2, <2>3, <2>5, RungType
  <2>7. /\ at + 1 < Len(MIGRATIONS[v].section)
        /\ MIGRATIONS[v].section[at + 2].does = "update"
    <3>1. MIGRATIONS[v].section[at + 1 + 1].does = "update"
          /\ at + 1 < Len(MIGRATIONS[v].section)
      BY <2>1, <2>2, <2>5, <2>6, FlagAssumption DEF Stmt
    <3>2. at + 1 + 1 = at + 2 BY <2>3
    <3> QED BY <3>1, <3>2
  <2>8. Becomes(p, more) BY <2>5, <2>7 DEF Executes
  <2>9. /\ more \in Fields /\ more.pc = "running" /\ more.rung = v
        /\ more.text = "section" /\ more.at = at + 1
    BY <2>3, <2>4 DEF Executes, Fields
  <2> HIDE DEF more
  <2>10. proc'[p] = more BY <2>8, <2>9, PointOf
  <2>11. Stmt(p)' = MIGRATIONS[v].section[at + 2]
    <3>1. Script(p)' = MIGRATIONS[v].section BY <2>9, <2>10 DEF Script, Statements
    <3>2. more.at + 1 = at + 2 BY <2>3, <2>9
    <3> QED BY <2>10, <3>1, <3>2 DEF Stmt
  <2>12. Wakes(p)' BY <2>7, <2>9, <2>10, <2>11 DEF Wakes
  <2> QED BY <2>12 DEF Sleep
<1> QED BY <1>1, <1>2, <1>3

(* Dormant projects always have somebody to wake them.                     *)
LEMMA SleepStep == Inv /\ Sleep /\ [MigrationNext]_migrationVars => Sleep'
<1> SUFFICES ASSUME Inv, Sleep, [MigrationNext]_migrationVars PROVE Sleep' OBVIOUS
<1>1. CASE UNCHANGED migrationVars
  BY <1>1 DEF migrationVars, store, stopped, Sleep, Wakes, Stmt, Script
<1>2. CASE projects' # "dormant" BY <1>2 DEF Sleep
<1>3. ASSUME NEW p \in Proc, Executes(p) PROVE Sleep' BY <1>3, ExecutesSleep
<1>4. ASSUME NEW p \in Proc, projects' = "dormant",
             Opens(p) \/ Looks(p) \/ SetsVersion(p) \/ Closes(p)
      PROVE  Sleep'
  <2>1. projects = "dormant" /\ cut' = cut /\ ~Wakes(p)
    BY <1>4 DEF Opens, Looks, SetsVersion, Closes, store, stopped, Wakes
  <2>2. PICK f : Becomes(p, f) BY <1>4 DEF Opens, Looks, SetsVersion, Closes
  <2> QED BY <2>1, <2>2, KeepsWaking
<1>5. ASSUME NEW p \in Proc, projects' = "dormant", DuplicateColumn(p) PROVE Sleep'
  <2>1. projects = "dormant" /\ cut' = cut /\ ~Wakes(p)
    BY <1>5 DEF DuplicateColumn, store, stopped, Wakes
  <2> QED BY <1>5, <2>1, KeepsWaking DEF DuplicateColumn
<1>6. ASSUME NEW p \in Proc, projects' = "dormant", Stops(p) PROVE Sleep'
  <2>1. projects = "dormant" /\ cut \subseteq cut' BY <1>6 DEF Stops, store
  <2>2. Wakes(p) => \E s \in cut' : s.does = "update" BY <1>6 DEF Stops, Wakes
  <2> QED BY <1>6, <2>1, <2>2, KeepsWaking DEF Stops
<1> QED BY <1>1, <1>2, <1>3, <1>4, <1>5, <1>6 DEF MigrationNext, Steps

(* Old projects are active once nobody migrates any more, unless a process *)
(* stopped right before the update.                                        *)
THEOREM OldProjectsAreActive == MigrationSpec => []OldProjectsStayActive
<1>1. MigrationInit => Sleep BY DEF MigrationInit, Sleep
<1>2. Sleep => OldProjectsStayActive
  BY DEF Sleep, OldProjectsStayActive, Migrating, Wakes
<1> QED BY <1>1, <1>2, InitInv, InvStep, SleepStep, PTL DEF MigrationSpec

(* What a migrated store says of itself is true: its version of the schema,*)
(* its rows of projects that were active before.                           *)
THEOREM MigratedIsTrue == MigrationSpec => []SchemaIsTrue
BY CurrentIsComplete, OldProjectsAreActive, PTL DEF SchemaIsTrue
===============================================================================
