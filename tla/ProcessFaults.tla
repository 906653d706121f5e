---------------------------- MODULE ProcessFaults ----------------------------
(***************************************************************************)
(* ProcessFaultTracker (apps/mcp/src/process-faults.ts): the faults that   *)
(* the stdio server swallows, MaxSignatures of them remembered and each    *)
(* printed once in a window of RateLimit ticks.                            *)
(***************************************************************************)
EXTENDS Integers, Sequences, SequencesExt

CONSTANTS
  Signature,        \* kind and first line of a fault
  MaxSignatures,    \* maxSignatures
  RateLimit,        \* rateLimitMs
  MaxClock          \* bound: ticks of the clock

VARIABLES
  clock,
  bySig,        \* the Map in its insertion order: [sig, lastAt, lastLoggedAt]
  seen,         \* history: per signature, when it was recorded last, or -1
  printed       \* history: per signature, when it was printed last, or -1

vars == <<clock, bySig, seen, printed>>

Init ==
  /\ clock = 0 /\ bySig = <<>>
  /\ seen = [s \in Signature |-> -1]
  /\ printed = [s \in Signature |-> -1]

Known(s) == \E i \in DOMAIN bySig : bySig[i].sig = s
At(s) == CHOOSE i \in DOMAIN bySig : bySig[i].sig = s
Of(s) == bySig[At(s)]

(* What recurs is deleted and set again, and so comes last.                *)
Inserted(e) == Append(IF Known(e.sig) THEN RemoveAt(bySig, At(e.sig)) ELSE bySig, e)

(* evictIfNeeded: the first key of the Map goes.                           *)
Evicted(map) == IF Len(map) > MaxSignatures THEN Tail(map) ELSE map

Printed(s) == Known(s) => clock - Of(s).lastLoggedAt >= RateLimit

(* record, and what the handler of the event prints on its answer.         *)
Record(s) ==
  /\ bySig' = Evicted(Inserted([sig |-> s, lastAt |-> clock,
                lastLoggedAt |-> IF Printed(s) THEN clock ELSE Of(s).lastLoggedAt]))
  /\ seen' = [seen EXCEPT ![s] = clock]
  /\ printed' = IF Printed(s) THEN [printed EXCEPT ![s] = clock] ELSE printed
  /\ UNCHANGED clock

Tick ==
  /\ clock < MaxClock /\ clock' = clock + 1
  /\ UNCHANGED <<bySig, seen, printed>>

Next == Tick \/ \E s \in Signature : Record(s)

-----------------------------------------------------------------------------
(* A fault that goes on is never swallowed unheard: of two faults of a     *)
(* signature a window apart, the later one or one between them is printed  *)
(* (process-faults.ts:8-10).                                               *)
FaultsAreHeard ==
  \A s \in Signature : seen[s] >= 0 => printed[s] >= 0 /\ seen[s] - printed[s] < RateLimit

(* What the snapshot tells is the latest there was: no signature that was  *)
(* forgotten has occurred after one that is remembered.                    *)
KeepsTheLatest ==
  \A s, t \in Signature : Known(s) /\ seen[t] > seen[s] => Known(t)
=============================================================================
