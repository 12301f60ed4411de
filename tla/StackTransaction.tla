--------------------------- MODULE StackTransaction ---------------------------
(***************************************************************************)
(* What stack-mode patch-state promises of the state document it replaces, *)
(* without previews and files: the document is written only when a copy of *)
(* it is on disk, at most once per run, and the run then keeps the new     *)
(* document or puts the old one back.  A run that can do neither leaves    *)
(* the transaction "stuck": the operator has the copy and must act.        *)
(***************************************************************************)
CONSTANTS Docs

VARIABLES doc, copies, origin, phase

vars == <<doc, copies, origin, phase>>

Init ==
  /\ doc \in Docs /\ copies = {} /\ origin = doc /\ phase = "settled"

Begin ==
  /\ phase \in {"settled", "stuck"}
  /\ phase' = "open" /\ origin' = doc
  /\ UNCHANGED <<doc, copies>>

Copy ==
  /\ phase = "open"
  /\ copies' = copies \cup {doc}
  /\ phase' \in {"open", "settled"}
  /\ UNCHANGED <<doc, origin>>

\* The run gives up before it wrote anything.
Leave ==
  /\ phase = "open"
  /\ phase' = "settled"
  /\ UNCHANGED <<doc, copies, origin>>

Write ==
  /\ phase = "open" /\ doc \in copies
  /\ doc' \in Docs
  /\ phase' \in {"tentative", "stuck"}
  /\ UNCHANGED <<copies, origin>>

Keep ==
  /\ phase = "tentative"
  /\ phase' = "settled"
  /\ UNCHANGED <<doc, copies, origin>>

Undo ==
  /\ phase = "tentative"
  /\ doc' = origin
  /\ phase' = "settled"
  /\ UNCHANGED <<copies, origin>>

GetStuck ==
  /\ phase = "tentative"
  /\ doc' \in {doc, origin}
  /\ phase' = "stuck"
  /\ UNCHANGED <<copies, origin>>

Next == Begin \/ Copy \/ Leave \/ Write \/ Keep \/ Undo \/ GetStuck

Spec == Init /\ [][Next]_vars
=============================================================================
