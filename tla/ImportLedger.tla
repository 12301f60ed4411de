----------------------------- MODULE ImportLedger -----------------------------
(***************************************************************************)
(* What the "import" command promises, without batches, isolation or reads: *)
(* a run gives entries a verdict that is true of the stack when it is given *)
(* and is never revised, and it completes only when no entry is left open.  *)
(* A run may be abandoned at any time; resources only ever arrive.          *)
(***************************************************************************)
CONSTANTS Resources

VARIABLES
  present,  \* the resources in the stack
  verdict,  \* resource -> its verdict in the current run
  phase     \* "running", "complete" or "abandoned"

vars == <<present, verdict, phase>>

Open == [e \in Resources |-> "open"]

Init ==
  /\ present \in SUBSET Resources
  /\ verdict = Open
  /\ phase = "abandoned"

Begin ==
  /\ phase \in {"complete", "abandoned"}
  /\ phase' = "running"
  /\ verdict' = Open
  /\ UNCHANGED present

Land ==
  /\ phase = "running"
  /\ present \subseteq present' /\ present' \subseteq Resources
  /\ UNCHANGED <<verdict, phase>>

\* "in" covers both an entry imported by this run and one skipped by it.
Judge ==
  /\ phase = "running"
  /\ verdict' \in [Resources -> {"open", "in", "failed"}]
  /\ \A e \in Resources :
       /\ verdict[e] # "open" => verdict'[e] = verdict[e]
       /\ verdict[e] = "open" /\ verdict'[e] = "in" => e \in present
       /\ verdict[e] = "open" /\ verdict'[e] = "failed" => e \notin present
  /\ phase' \in {"running", "complete"}
  /\ phase' = "complete" => \A e \in Resources : verdict'[e] # "open"
  /\ UNCHANGED present

Abandon ==
  /\ phase = "running"
  /\ phase' = "abandoned"
  /\ present \subseteq present' /\ present' \subseteq Resources
  /\ verdict' \in {verdict, Open}

Next == Begin \/ Land \/ Judge \/ Abandon

Spec == Init /\ [][Next]_vars
=============================================================================
