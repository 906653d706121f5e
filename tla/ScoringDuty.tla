---------------------------- MODULE ScoringDuty ----------------------------
(***************************************************************************)
(* What analyzers/health-scheduler.ts promises the rest of the runtime,    *)
(* with no timer and no mark of a project that changed during its run: a   *)
(* project that changes is owed a score, a score is of a project that is   *)
(* owed one and has none running, and the store is closed when no score    *)
(* runs and none will.                                                     *)
(***************************************************************************)
CONSTANT Project

VARIABLES
  owed,         \* projects that changed since a score looked at them
  scoring,      \* projects a score is reading the store for
  phase         \* of the store: "open", "disposing", "closed"

duty == <<owed, scoring, phase>>

Init ==
  /\ owed \in SUBSET Project
  /\ scoring = {}
  /\ phase = "open"

(* A change is owed a score from the moment it is told, even while the     *)
(* project is being scored.                                                *)
Changes(p) ==
  /\ owed' = owed \cup {p}
  /\ UNCHANGED <<scoring, phase>>

(* A score starts of what is owed, and owes no more what it will see.      *)
Starts(p) ==
  /\ phase = "open"
  /\ p \in owed \ scoring
  /\ owed' = owed \ {p}
  /\ scoring' = scoring \cup {p}
  /\ UNCHANGED phase

Ends(p) ==
  /\ p \in scoring
  /\ scoring' = scoring \ {p}
  /\ UNCHANGED <<owed, phase>>

(* From here on no score starts.                                           *)
Closing ==
  /\ phase = "open"
  /\ phase' = "disposing"
  /\ UNCHANGED <<owed, scoring>>

Closed ==
  /\ phase = "disposing"
  /\ scoring = {}
  /\ phase' = "closed"
  /\ UNCHANGED <<owed, scoring>>

Next ==
  \/ \E p \in Project : Changes(p) \/ Starts(p) \/ Ends(p)
  \/ Closing
  \/ Closed

Spec == Init /\ [][Next]_duty
=============================================================================
