---------------------------- MODULE BatchImportMC ----------------------------
(***************************************************************************)
(* Files for the runs of BatchImport.  Entry 2 is a component and the      *)
(* parent of entry 3, so the import of 3 depends on components being part  *)
(* of every payload.  With BatchSize 2 the last batch is a partial one.    *)
(***************************************************************************)
EXTENDS BatchImport

MCComponents == {2}
MCParent == [e \in 1..N |-> IF e = 3 THEN 2 ELSE NoParent]

\* Every entry has a slot and a ResourceKey of its own.
MCDistinct == [e \in 1..N |-> e]

\* Entries 1 and 4 have one type and name but different parents: two URNs, so
\* two slots in the stack, and a single ResourceKey.
MCSharedKey == [e \in 1..N |-> IF e = 4 THEN 1 ELSE e]
=============================================================================
