----------------------------- MODULE PatchStackMC -----------------------------
(***************************************************************************)
(* The stack for the runs of PatchStack.  The operations are one of each   *)
(* rank that a plain resource can meet, and one that the gate's table does *)
(* not know.                                                               *)
(***************************************************************************)
EXTENDS PatchStack

MCOps == {"same", "update", "create", "replace", "mystery"}
=============================================================================
