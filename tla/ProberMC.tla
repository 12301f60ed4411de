------------------------------- MODULE ProberMC -------------------------------
(***************************************************************************)
(* Types for the runs of Prober: four that crash their provider, one more  *)
(* than the restart budget, two of them importable and one curated, and an *)
(* importable and a curated type that do not crash.                        *)
(***************************************************************************)
EXTENDS Prober

MCTypes == {"c1", "c2", "c3", "c4", "bucket", "attachment"}
MCImportable == {"c1", "c2", "bucket"}
MCCrashTypes == {"c1", "c2", "c3", "c4"}
MCCurated == {"c3", "attachment"}

\* The same with one crash type: what a single flaky type can do.
MCOneCrashType == {"c3"}
=============================================================================
