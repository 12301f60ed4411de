-------------------------- MODULE BatchImportProofs --------------------------
(***************************************************************************)
(* Proofs about BatchImport, for every import file, batch size, engine and *)
(* operator: the report is sound and complete, whatever fails.             *)
(***************************************************************************)
EXTENDS BatchImport, FiniteSetTheorems, WellFoundedInduction, TLAPS

\* The planned entries that the batches before the current one held.
Decided == {e \in planned : Rank(e) <= start}

Isolating == pc \in {"isolate", "reread"}

\* The loop of Run: verdicts so far cover the batches read, and the part of
\* the current batch that was found when its isolation began.
LoopInv ==
  pc \in Running \ {"plan"} =>
    /\ ~dryRun
    /\ planned = Importable \ skipped
    /\ failed \subseteq Decided
    /\ imported \cup failed = Decided \cup (IF Isolating THEN Batch \ missing ELSE {})

\* What is still to be isolated belongs to the current batch.
IsolationInv ==
  /\ Isolating => missing \subseteq Batch
  /\ pc \in {"batch", "read"} => missing = {}
  /\ pc \in {"batch", "read", "reread"} => todo = {}
  /\ pc = "isolate" => todo # {}

\* A run that has not planned yet has reported nothing.
FreshInv ==
  pc = "plan" =>
    /\ planned = {} /\ skipped = {} /\ imported = {} /\ failed = {}
    /\ start = 0 /\ missing = {} /\ todo = {}

\* A resuming run has nothing ahead of it that is already in the stack.
AheadInv ==
  resume /\ UniqueKeys =>
    /\ pc = "batch" => (planned \ Decided) \cap stack = {}
    /\ pc \in {"read", "isolate", "reread"} => (planned \ (Decided \cup Batch)) \cap stack = {}
    /\ pc = "isolate" => todo \cap stack = {}

IInv ==
  /\ TypeOK /\ ReportSound /\ VerdictsPartition
  /\ LoopInv /\ IsolationInv /\ FreshInv /\ AheadInv

-----------------------------------------------------------------------------
\* A set of importable entries is finite, so the position of one of them is a
\* number from 1 to the size of the set.
LEMMA Position ==
  ASSUME NEW S \in SUBSET Importable
  PROVE  /\ Cardinality(S) \in Nat
         /\ \A e \in S : /\ Cardinality({d \in S : d <= e}) \in Nat
                         /\ 1 <= Cardinality({d \in S : d <= e})
                         /\ Cardinality({d \in S : d <= e}) <= Cardinality(S)
<1>1. IsFiniteSet(S)
  <2>1. IsFiniteSet(1..N)
    <3>1. N \in Int /\ 1 \in Int
      BY BatchImportAssumption
    <3>. QED BY <3>1, FS_Interval, Zenon
  <2>2. S \in SUBSET (1..N)
    BY DEF Importable, Entries
  <2>. QED BY <2>1, <2>2, FS_Subset
<1>2. ASSUME NEW e \in S
      PROVE  /\ Cardinality({d \in S : d <= e}) \in Nat
             /\ 1 <= Cardinality({d \in S : d <= e})
             /\ Cardinality({d \in S : d <= e}) <= Cardinality(S)
  <2>. DEFINE U == {d \in S : d <= e}
  <2>1. U \in SUBSET S
    OBVIOUS
  <2>2. IsFiniteSet(U) /\ Cardinality(U) <= Cardinality(S)
    BY <1>1, <2>1, FS_Subset
  <2>3. e \in U
    BY BatchImportAssumption DEF Importable, Entries
  <2>4. Cardinality(U) # 0
    BY <2>2, <2>3, FS_EmptySet
  <2>5. Cardinality(U) \in Nat
    BY <2>2, FS_CardinalityType
  <2>. QED BY <2>2, <2>4, <2>5
<1>. QED BY <1>1, <1>2, FS_CardinalityType

\* The batches before the current one, the current one, and both together.
LEMMA BatchWindow ==
  ASSUME TypeOK
  PROVE  /\ \A e \in planned : Rank(e) \in Nat /\ Rank(e) <= Cardinality(planned)
         /\ Cardinality(planned) \in Nat
         /\ Decided \cap Batch = {}
         /\ Decided \subseteq planned /\ Batch \subseteq planned
         /\ {e \in planned : Rank(e) <= start + BatchSize} = Decided \cup Batch
<1>1. planned \in SUBSET Importable /\ start \in Nat /\ BatchSize \in Nat
  BY BatchImportAssumption DEF TypeOK
<1>2. /\ Cardinality(planned) \in Nat
      /\ \A e \in planned : Rank(e) \in Nat /\ Rank(e) <= Cardinality(planned)
  BY <1>1, Position DEF Rank
<1>. QED BY <1>1, <1>2 DEF Decided, Batch

\* The entry isolated next is one that still has to be isolated.
LEMMA NextIsolatedInTodo ==
  ASSUME TypeOK, todo # {}
  PROVE  NextIsolated \in todo
<1>1. todo \subseteq Nat
  BY BatchImportAssumption DEF TypeOK, Importable, Entries
<1>2. PICK e \in todo : \A d \in todo : ~(<<d, e>> \in OpToRel(<, Nat))
  BY <1>1, NatLessThanWellFounded, WFMin
<1>3. \A d \in todo : e <= d
  <2>. SUFFICES ASSUME NEW d \in todo PROVE e <= d
    OBVIOUS
  <2>1. d \in Nat /\ e \in Nat
    BY <1>1, <1>2
  <2>2. ~(<<d, e>> \in {ss \in Nat \X Nat : ss[1] < ss[2]})
    BY <1>2 DEF OpToRel
  <2>. QED BY <2>1, <2>2
<1>. QED BY <1>3 DEF NextIsolated

\* An import call adds entries of its own payload only, and no component.
LEMMA LandingsInPayload ==
  ASSUME NEW P, NEW L \in Landings(P) \cup PartialLandings(P)
  PROVE  L \subseteq P \cap Importable
BY DEF Landings, PartialLandings, Landable

\* With unique keys a read finds exactly the entries that are in the stack.
LEMMA ReadIsExact ==
  ASSUME TypeOK, NEW e \in Importable
  PROVE  /\ e \in stack => InState(e)
         /\ UniqueKeys /\ InState(e) => e \in stack
BY DEF TypeOK, InState, ExistingResources, UniqueKeys

\* Resources only arrive, so what a read found once every later read finds.
LEMMA ReadsGrow ==
  ASSUME stack \subseteq stack', NEW e, InState(e)
  PROVE  InState(e)'
BY DEF InState, ExistingResources

\* While nothing of the plan, the loop variable or the file changes, the
\* windows of the batches do not move.
LEMMA WindowFixed ==
  ASSUME UNCHANGED <<planned, start>>
  PROVE  Decided' = Decided /\ Batch' = Batch
BY DEF Decided, Batch, Rank

\* The end of an iteration: all of the current batch becomes decided.
LEMMA NextBatchDecides ==
  ASSUME TypeOK, NextBatch, planned' = planned, pc \in Running, todo = {}
  PROVE  /\ Decided' = Decided \cup Batch
         /\ pc' \in {"batch", "finished"}
         /\ pc' = "finished" => Decided' = planned
         /\ start' \in Nat /\ missing' = {} /\ todo' = {}
<1>1. Decided' = {e \in planned : Rank(e) <= start + BatchSize}
  BY DEF NextBatch, Decided, Rank
<1>2. Decided' = Decided \cup Batch
  BY <1>1, BatchWindow
<1>3. pc' \in {"batch", "finished"}
  BY DEF NextBatch, LoopHead
<1>4. start \in Nat /\ BatchSize \in Nat /\ start' = start + BatchSize
  BY BatchImportAssumption DEF TypeOK, NextBatch
<1>5. ASSUME pc' = "finished" PROVE Decided' = planned
  <2>1. ~(start + BatchSize < Cardinality(planned))
    BY <1>4, <1>5 DEF NextBatch, LoopHead
  <2>2. \A e \in planned : Rank(e) <= start + BatchSize
    BY <1>4, <2>1, BatchWindow
  <2>. QED BY <1>1, <2>2
<1>. QED BY <1>2, <1>3, <1>4, <1>5 DEF NextBatch

-----------------------------------------------------------------------------
LEMMA InitInv == Init => IInv
<1>. SUFFICES ASSUME Init PROVE IInv
  OBVIOUS
<1>1. TypeOK
  <2>1. 0 \in 0..MaxFaults /\ 0 \in Nat
    BY BatchImportAssumption
  <2>2. stack \subseteq Importable /\ bad \subseteq Importable
    BY DEF Init
  <2>. QED BY <2>1, <2>2 DEF Init, TypeOK, world, Ended
<1>2. ReportSound
  BY DEF Init, ReportSound
<1>3. VerdictsPartition
  BY DEF Init, VerdictsPartition, Completed
<1>4. LoopInv /\ IsolationInv /\ FreshInv /\ AheadInv
  BY DEF Init, LoopInv, IsolationInv, FreshInv, AheadInv, Isolating, Running, Reading
<1>. QED BY <1>1, <1>2, <1>3, <1>4 DEF IInv

LEMMA RelaunchInv == IInv /\ Relaunch => IInv'
<1>. SUFFICES ASSUME IInv, NEW r \in BOOLEAN, NEW d \in BOOLEAN, NEW fixed \in SUBSET failed,
                     Launch(r, d, fixed)
              PROVE  IInv'
  BY DEF Relaunch
<1>. USE DEF IInv, Launch, ClearReport, ClearLoop
<1>1. TypeOK'
  BY DEF TypeOK, world, Ended, Running, Reading
<1>2. ReportSound'
  BY DEF ReportSound
<1>3. VerdictsPartition'
  BY DEF VerdictsPartition, Completed
<1>4. LoopInv' /\ IsolationInv' /\ FreshInv' /\ AheadInv'
  BY DEF LoopInv, IsolationInv, FreshInv, AheadInv, Isolating, Running, Reading
<1>. QED BY <1>1, <1>2, <1>3, <1>4

LEMMA PlanInv == IInv /\ Plan => IInv'
<1>. SUFFICES ASSUME IInv, Plan PROVE IInv'
  OBVIOUS
<1>1. TypeOK /\ FreshInv /\ IsolationInv /\ pc = "plan" /\ planned' = Importable \ skipped' /\ skipped' = ToSkip
      /\ UNCHANGED <<stack, bad, world, options, imported, failed, loop, faults>>
  BY DEF IInv, Plan
<1>2. imported' = {} /\ failed' = {} /\ start' = 0
  BY <1>1 DEF FreshInv, loop
<1>3. pc' \in {"batch", "finished"} /\ skipped' \subseteq Importable
  BY <1>1 DEF Plan, LoopHead, ToSkip
<1>4. /\ Cardinality(planned') \in Nat
      /\ \A e \in planned' : 1 <= Rank(e)' /\ Rank(e)' <= Cardinality(planned') /\ Rank(e)' \in Nat
  BY <1>1, Position DEF Rank
<1>5. Decided' = {}
  BY <1>2, <1>4 DEF Decided
<1>6. pc' = "finished" => dryRun \/ planned' = {}
  BY <1>2, <1>4 DEF Plan, LoopHead
<1>7. TypeOK'
  BY <1>1, <1>3 DEF TypeOK, world, Ended, Running, loop, options
<1>8. ReportSound'
  <2>1. \A e \in skipped' : InState(e)
    BY <1>1 DEF ToSkip
  <2>2. \A e \in skipped' : InState(e)'
    BY <1>1, <2>1, ReadsGrow
  <2>3. UniqueKeys => skipped' \subseteq stack
    BY <1>1, <1>3, <2>1, ReadIsExact
  <2>. QED BY <1>1, <1>2, <2>2, <2>3 DEF ReportSound, UniqueKeys
<1>9. VerdictsPartition'
  BY <1>1, <1>2, <1>3, <1>6 DEF VerdictsPartition, Completed, options
<1>10. LoopInv'
  <2>1. pc' = "batch" => ~dryRun'
    BY <1>1 DEF Plan, options
  <2>. QED BY <1>1, <1>2, <1>3, <1>5, <2>1 DEF LoopInv, Running, Reading, Isolating
<1>11. IsolationInv' /\ FreshInv'
  <2>1. FreshInv'
    BY <1>3 DEF FreshInv
  <2>2. missing' = {} /\ todo' = {}
    BY <1>1 DEF FreshInv, loop
  <2>. QED BY <1>3, <2>1, <2>2 DEF IsolationInv, Isolating
<1>12. AheadInv'
  BY <1>1, <1>3, ReadIsExact DEF AheadInv, ToSkip, UniqueKeys, options
<1>. QED BY <1>7, <1>8, <1>9, <1>10, <1>11, <1>12 DEF IInv

\* What an import call adds to the stack makes no verdict wrong, as long as it
\* adds no entry that was already reported as failed.
LEMMA LandingKeepsReport ==
  ASSUME TypeOK, ReportSound, UNCHANGED report,
         NEW L \in SUBSET (Importable \ failed), stack' = stack \cup L
  PROVE  ReportSound' /\ stack' \subseteq Importable
<1>1. \A e \in imported \cup skipped : InState(e)'
  BY ReadsGrow DEF ReportSound
<1>2. UniqueKeys' <=> UniqueKeys
  BY DEF UniqueKeys
<1>. QED BY <1>1, <1>2 DEF ReportSound, report, TypeOK

LEMMA ImportBatchInv == IInv /\ ImportBatch => IInv'
<1>. SUFFICES ASSUME IInv, ImportBatch PROVE IInv'
  OBVIOUS
<1>1. TypeOK /\ pc = "batch" /\ pc' = "read"
      /\ UNCHANGED <<bad, world, options, report, loop, faults>>
  BY DEF IInv, ImportBatch
<1>2. PICK L \in Landings(Payload(Batch)) : stack' = stack \cup L
  BY DEF ImportBatch
<1>3. L \subseteq Batch
  BY <1>2, LandingsInPayload DEF Payload, Importable
<1>4. /\ Decided' = Decided /\ Batch' = Batch
      /\ Decided \cap Batch = {} /\ Decided \subseteq planned /\ Batch \subseteq planned
  BY <1>1, WindowFixed, BatchWindow DEF report, loop
<1>5. failed \cap Batch = {} /\ missing = {} /\ todo = {}
  BY <1>1, <1>4 DEF IInv, LoopInv, IsolationInv, Running, Reading
<1>6. L \in SUBSET (Importable \ failed)
  BY <1>1, <1>3, <1>4, <1>5 DEF TypeOK
<1>7. ReportSound' /\ stack' \subseteq Importable
  BY <1>1, <1>2, <1>6, LandingKeepsReport DEF IInv
<1>8. TypeOK'
  BY <1>1, <1>7 DEF TypeOK, world, Running, Reading, options, report, loop
<1>9. VerdictsPartition'
  BY <1>1 DEF IInv, VerdictsPartition, Completed, report
<1>10. LoopInv'
  BY <1>1, <1>4 DEF IInv, LoopInv, Isolating, Running, Reading, options, report, loop
<1>11. IsolationInv' /\ FreshInv'
  BY <1>1, <1>5 DEF IsolationInv, FreshInv, Isolating, loop
<1>12. AheadInv'
  BY <1>1, <1>2, <1>3, <1>4 DEF IInv, AheadInv, UniqueKeys, options, report
<1>. QED BY <1>7, <1>8, <1>9, <1>10, <1>11, <1>12 DEF IInv

LEMMA ReadAfterBatchInv == IInv /\ ReadAfterBatch => IInv'
<1>. SUFFICES ASSUME IInv, ReadAfterBatch PROVE IInv'
  OBVIOUS
<1>. DEFINE found == {e \in Batch : InState(e)}
<1>1. /\ TypeOK /\ pc = "read" /\ imported' = imported \cup found
      /\ UNCHANGED <<stack, bad, world, options, planned, skipped, failed, faults>>
  BY DEF IInv, ReadAfterBatch
<1>2. /\ Decided \cap Batch = {} /\ Decided \subseteq planned /\ Batch \subseteq planned
      /\ planned \subseteq Importable /\ skipped \subseteq Importable
  BY <1>1, BatchWindow DEF TypeOK
<1>3. /\ planned = Importable \ skipped
      /\ failed \subseteq Decided /\ imported \cup failed = Decided
      /\ missing = {} /\ todo = {}
  BY <1>1 DEF IInv, LoopInv, IsolationInv, Isolating, Running, Reading
<1>4. ReportSound'
  <2>1. \A e \in found : UniqueKeys => e \in stack
    BY <1>1, <1>2, ReadIsExact
  <2>2. \A e \in imported' \cup skipped' : InState(e)'
    BY <1>1, ReadsGrow DEF IInv, ReportSound
  <2>3. UniqueKeys' <=> UniqueKeys
    BY DEF UniqueKeys
  <2>. QED BY <1>1, <2>1, <2>2, <2>3 DEF IInv, ReportSound
<1>5. CASE found = Batch /\ NextBatch
  <2>1. /\ Decided' = Decided \cup Batch /\ pc' \in {"batch", "finished"}
        /\ pc' = "finished" => Decided' = planned
        /\ start' \in Nat /\ missing' = {} /\ todo' = {}
    BY <1>1, <1>3, <1>5, NextBatchDecides DEF Running, Reading
  <2>2. TypeOK'
    BY <1>1, <1>2, <2>1 DEF TypeOK, world, Ended, Running, options
  <2>3. VerdictsPartition'
    BY <1>1, <1>2, <1>3, <1>5, <2>1 DEF IInv, VerdictsPartition, Completed, options
  <2>4. LoopInv'
    BY <1>1, <1>3, <1>5, <2>1 DEF IInv, LoopInv, Isolating, Running, Reading, options
  <2>5. IsolationInv' /\ FreshInv'
    BY <2>1 DEF IsolationInv, FreshInv, Isolating
  <2>6. AheadInv'
    BY <1>1, <2>1 DEF IInv, AheadInv, UniqueKeys, options
  <2>. QED BY <1>4, <2>2, <2>3, <2>4, <2>5, <2>6 DEF IInv
<1>6. CASE /\ found # Batch
           /\ missing' = Batch \ found /\ todo' = missing'
           /\ pc' = "isolate" /\ UNCHANGED start
  <2>1. Decided' = Decided /\ Batch' = Batch
    BY <1>1, <1>6, WindowFixed
  <2>2. todo' # {}
    BY <1>6
  <2>3. TypeOK'
    BY <1>1, <1>2, <1>6 DEF TypeOK, world, Running, options
  <2>4. VerdictsPartition'
    BY <1>1, <1>2, <1>3, <1>6 DEF IInv, VerdictsPartition, Completed
  <2>5. LoopInv'
    BY <1>1, <1>2, <1>3, <1>6, <2>1 DEF IInv, LoopInv, Isolating, Running, Reading, options
  <2>6. IsolationInv' /\ FreshInv'
    BY <1>6, <2>1, <2>2 DEF IsolationInv, FreshInv, Isolating
  <2>7. \A e \in todo' : e \notin stack
    BY <1>1, <1>2, <1>6, ReadIsExact
  <2>8. AheadInv'
    BY <1>1, <1>6, <2>1, <2>7 DEF IInv, AheadInv, UniqueKeys, options
  <2>. QED BY <1>4, <2>3, <2>4, <2>5, <2>6, <2>8 DEF IInv
<1>. QED BY <1>5, <1>6 DEF ReadAfterBatch

LEMMA IsolateOneInv == IInv /\ IsolateOne => IInv'
<1>. SUFFICES ASSUME IInv, IsolateOne PROVE IInv'
  OBVIOUS
<1>. DEFINE one == NextIsolated
<1>1. /\ TypeOK /\ pc = "isolate" /\ pc' \in {"isolate", "reread"}
      /\ todo' = todo \ {one} /\ (pc' = "reread" <=> todo' = {})
      /\ UNCHANGED <<bad, world, options, report, start, missing, faults>>
  BY DEF IInv, IsolateOne
<1>2. one \in todo /\ todo \subseteq missing /\ missing \subseteq Batch
  BY <1>1, NextIsolatedInTodo DEF IInv, IsolationInv, Isolating, TypeOK
<1>3. PICK L \in Landings(Payload({one})) : stack' = stack \cup L
  BY DEF IsolateOne
<1>4. L \subseteq {one}
  BY <1>3, LandingsInPayload DEF Payload, Importable
<1>5. /\ Decided' = Decided /\ Batch' = Batch
      /\ Decided \cap Batch = {} /\ Decided \subseteq planned /\ Batch \subseteq planned
  BY <1>1, WindowFixed, BatchWindow DEF report
<1>6. failed \subseteq Decided
  BY <1>1 DEF IInv, LoopInv, Running
<1>7. L \in SUBSET (Importable \ failed)
  BY <1>1, <1>2, <1>4, <1>5, <1>6 DEF TypeOK
<1>8. ReportSound' /\ stack' \subseteq Importable
  BY <1>1, <1>3, <1>7, LandingKeepsReport DEF IInv
<1>9. TypeOK'
  BY <1>1, <1>8 DEF TypeOK, world, Running, Reading, options, report
<1>10. VerdictsPartition'
  BY <1>1 DEF IInv, VerdictsPartition, Completed, report
<1>11. LoopInv'
  BY <1>1, <1>5 DEF IInv, LoopInv, Isolating, Running, Reading, options, report
<1>12. IsolationInv' /\ FreshInv'
  BY <1>1, <1>2, <1>5 DEF IsolationInv, FreshInv, Isolating
<1>13. AheadInv'
  BY <1>1, <1>2, <1>3, <1>4, <1>5 DEF IInv, AheadInv, UniqueKeys, options, report
<1>. QED BY <1>8, <1>9, <1>10, <1>11, <1>12, <1>13 DEF IInv

LEMMA ReadAfterIsolationInv == IInv /\ ReadAfterIsolation => IInv'
<1>. SUFFICES ASSUME IInv, ReadAfterIsolation PROVE IInv'
  OBVIOUS
<1>1. /\ TypeOK /\ pc = "reread" /\ NextBatch
      /\ imported' = imported \cup {e \in missing : InState(e)}
      /\ failed' = failed \cup {e \in missing : ~InState(e)}
      /\ UNCHANGED <<stack, bad, world, options, planned, skipped, faults>>
  BY DEF IInv, ReadAfterIsolation
<1>2. /\ Decided \cap Batch = {} /\ Decided \subseteq planned /\ Batch \subseteq planned
      /\ planned \subseteq Importable /\ skipped \subseteq Importable
  BY <1>1, BatchWindow DEF TypeOK
<1>3. /\ planned = Importable \ skipped /\ failed \subseteq Decided
      /\ imported \cup failed = Decided \cup (Batch \ missing)
      /\ missing \subseteq Batch /\ todo = {}
  BY <1>1 DEF IInv, LoopInv, IsolationInv, Isolating, Running, Reading
<1>4. /\ Decided' = Decided \cup Batch /\ pc' \in {"batch", "finished"}
      /\ pc' = "finished" => Decided' = planned
      /\ start' \in Nat /\ missing' = {} /\ todo' = {}
  BY <1>1, <1>3, NextBatchDecides DEF Running, Reading
<1>5. imported' \cup failed' = Decided' /\ imported' \cap failed' = {}
  BY <1>1, <1>2, <1>3, <1>4 DEF IInv, VerdictsPartition
<1>6. TypeOK'
  BY <1>1, <1>2, <1>3, <1>4 DEF TypeOK, world, Ended, Running, options
<1>7. ReportSound'
  <2>1. \A e \in missing : /\ UniqueKeys /\ InState(e) => e \in stack
                           /\ e \in stack => InState(e)
    BY <1>1, <1>2, <1>3, ReadIsExact
  <2>2. \A e \in imported' \cup skipped' : InState(e)'
    BY <1>1, ReadsGrow DEF IInv, ReportSound
  <2>3. UniqueKeys' <=> UniqueKeys
    BY DEF UniqueKeys
  <2>. QED BY <1>1, <2>1, <2>2, <2>3 DEF IInv, ReportSound
<1>8. VerdictsPartition'
  BY <1>1, <1>2, <1>3, <1>4, <1>5 DEF IInv, VerdictsPartition, Completed
<1>9. LoopInv'
  BY <1>1, <1>3, <1>4, <1>5 DEF IInv, LoopInv, Isolating, Running, Reading, options
<1>10. IsolationInv' /\ FreshInv'
  BY <1>4 DEF IsolationInv, FreshInv, Isolating
<1>11. AheadInv'
  BY <1>1, <1>4 DEF IInv, AheadInv, UniqueKeys, options
<1>. QED BY <1>6, <1>7, <1>8, <1>9, <1>10, <1>11 DEF IInv

LEMMA ReadFailsInv == IInv /\ ReadFails => IInv'
<1>. SUFFICES ASSUME IInv, ReadFails PROVE IInv'
  OBVIOUS
<1>1. /\ TypeOK /\ pc' = "error" /\ faults' \in 0..MaxFaults
      /\ UNCHANGED <<stack, bad, world, options, report, loop>>
  <2>1. MaxFaults \in Nat /\ faults \in 0..MaxFaults
    BY BatchImportAssumption DEF IInv, TypeOK
  <2>. QED BY <2>1 DEF IInv, ReadFails
<1>2. TypeOK'
  BY <1>1 DEF TypeOK, world, Ended, options, report, loop
<1>3. ReportSound'
  BY <1>1, ReadsGrow DEF IInv, ReportSound, UniqueKeys, report
<1>4. VerdictsPartition'
  BY <1>1 DEF IInv, VerdictsPartition, Completed, report
<1>5. LoopInv' /\ IsolationInv' /\ FreshInv' /\ AheadInv'
  BY <1>1 DEF LoopInv, IsolationInv, FreshInv, AheadInv, Isolating, Running, Reading
<1>. QED BY <1>2, <1>3, <1>4, <1>5 DEF IInv

LEMMA CrashInv == IInv /\ Crash => IInv'
<1>. SUFFICES ASSUME IInv, Crash PROVE IInv'
  OBVIOUS
<1>1. /\ TypeOK /\ pc' = "crashed" /\ faults' \in 0..MaxFaults
      /\ ClearReport /\ ClearLoop /\ UNCHANGED <<bad, world, options>>
  <2>1. MaxFaults \in Nat /\ faults \in 0..MaxFaults
    BY BatchImportAssumption DEF IInv, TypeOK
  <2>. QED BY <2>1 DEF IInv, Crash
<1>2. stack' \subseteq Importable
  <2>1. CASE pc \in Reading /\ UNCHANGED stack
    BY <1>1, <2>1 DEF TypeOK
  <2>2. CASE \E L \in PartialLandings(Payload(Batch)) : stack' = stack \cup L
    BY <1>1, <2>2, LandingsInPayload DEF TypeOK
  <2>3. CASE \E L \in PartialLandings(Payload({NextIsolated})) : stack' = stack \cup L
    BY <1>1, <2>3, LandingsInPayload DEF TypeOK
  <2>. QED BY <2>1, <2>2, <2>3 DEF Crash
<1>3. TypeOK'
  BY <1>1, <1>2 DEF TypeOK, world, Ended, options, ClearReport, ClearLoop
<1>4. ReportSound' /\ VerdictsPartition'
  BY <1>1 DEF ReportSound, VerdictsPartition, Completed, ClearReport
<1>5. LoopInv' /\ IsolationInv' /\ FreshInv' /\ AheadInv'
  BY <1>1 DEF LoopInv, IsolationInv, FreshInv, AheadInv, Isolating, Running, Reading
<1>. QED BY <1>3, <1>4, <1>5 DEF IInv

LEMMA StutterInv == IInv /\ UNCHANGED vars => IInv'
<1>. SUFFICES ASSUME IInv, UNCHANGED vars PROVE IInv'
  OBVIOUS
<1>1. UNCHANGED <<stack, bad, reliable, diligent, pc, resume, dryRun, planned, skipped, imported, failed,
                  start, missing, todo, faults>>
  BY DEF vars, world, options, report, loop
<1>2. TypeOK'
  BY <1>1 DEF IInv, TypeOK
<1>3. ReportSound'
  BY <1>1, ReadsGrow DEF IInv, ReportSound, UniqueKeys
<1>4. VerdictsPartition'
  BY <1>1 DEF IInv, VerdictsPartition, Completed
<1>5. Decided' = Decided /\ Batch' = Batch
  BY <1>1, WindowFixed
<1>6. LoopInv' /\ IsolationInv' /\ FreshInv' /\ AheadInv'
  BY <1>1, <1>5 DEF IInv, LoopInv, IsolationInv, FreshInv, AheadInv, UniqueKeys, Isolating
<1>. QED BY <1>2, <1>3, <1>4, <1>6 DEF IInv

-----------------------------------------------------------------------------
\* The inductive invariant holds throughout: in every run of "import", over
\* any sequence of launches, faults and partial landings.
THEOREM Invariance == Spec => []IInv
<1>1. Init => IInv
  BY InitInv
<1>2. IInv /\ [Next]_vars => IInv'
  BY RelaunchInv, PlanInv, ImportBatchInv, ReadAfterBatchInv, IsolateOneInv,
     ReadAfterIsolationInv, ReadFailsInv, CrashInv, StutterInv
     DEF Next, Run
<1>. QED BY <1>1, <1>2, PTL DEF Spec

\* Every reachable state of Run is well typed; in particular an isolation
\* import is only ever made for an entry of the current batch.
THEOREM TypeCorrect == Spec => []TypeOK
<1>1. IInv => TypeOK
  BY DEF IInv
<1>. QED BY <1>1, Invariance, PTL

\* What the report lists as imported or skipped is in the stack and what it
\* lists as failed is not, at every moment, whatever landed late or was lost.
THEOREM ReportIsSound == Spec => []ReportSound
<1>1. IInv => ReportSound
  BY DEF IInv
<1>. QED BY <1>1, Invariance, PTL

\* The batches cover the plan: a completed run has exactly one verdict for
\* each importable entry, for every file length and batch size.
THEOREM VerdictsCoverThePlan == Spec => []VerdictsPartition
<1>1. IInv => VerdictsPartition
  BY DEF IInv
<1>. QED BY <1>1, Invariance, PTL

\* A resuming run never hands the engine an entry that is already in state.
THEOREM ResumeNeverReimports == Spec => []NoReimport
<1>1. IInv => NoReimport
  <2>. SUFFICES ASSUME IInv, resume, UniqueKeys, pc = "batch" \/ pc = "isolate"
                PROVE  /\ pc = "batch" => Batch \cap stack = {}
                       /\ pc = "isolate" => todo \cap stack = {}
    BY DEF NoReimport
  <2>1. Batch \subseteq planned \ Decided
    BY BatchWindow DEF IInv
  <2>. QED BY <2>1 DEF IInv, AheadInv
<1>. QED BY <1>1, Invariance, PTL

-----------------------------------------------------------------------------
\* On a reliable engine only bad entries are reported as failed, and an entry
\* whose isolation import has been made is in the stack unless it is bad.
ExactInv ==
  reliable /\ UniqueKeys =>
    /\ bad \cap stack = {}
    /\ failed \subseteq bad
    /\ Isolating => (missing \ todo) \ bad \subseteq stack

\* Whatever lands had a good ID.
LEMMA LandingsAreGood ==
  ASSUME NEW P, NEW L \in Landings(P) \cup PartialLandings(P)
  PROVE  L \cap bad = {}
BY DEF Landings, PartialLandings, Landable

\* Alone with the components, a good entry always lands on a reliable engine.
LEMMA GoodEntryLandsAlone ==
  ASSUME TypeOK, reliable, UniqueKeys, NEW e \in Importable \ (bad \cup stack),
         NEW L \in Landings(Payload({e}))
  PROVE  e \in L
<1>. DEFINE P == Payload({e})
<1>1. P \cap Importable = {e}
  BY DEF Payload, Importable
<1>2. Parent[e] = NoParent \/ Parent[e] \in P
  BY BatchImportAssumption DEF Payload, Importable
<1>3. \A d \in stack : UrnOf[d] # UrnOf[e]
  BY BatchImportAssumption DEF TypeOK, UniqueKeys, Importable
<1>4. Landable(P) = {e}
  BY <1>1, <1>2, <1>3 DEF Landable
<1>5. Slots(Landable(P)) /\ (P \cap Importable) \ stack = Landable(P)
  BY <1>1, <1>4 DEF Slots
<1>. QED BY <1>4, <1>5 DEF Landings

\* An engine and an operator stay what they are.
LEMMA WorldFixed == [Next]_vars => UNCHANGED world
BY DEF Next, Run, Relaunch, Launch, Plan, ImportBatch, ReadAfterBatch, IsolateOne,
       ReadAfterIsolation, ReadFails, Crash, vars

LEMMA ExactStep == IInv /\ IInv' /\ ExactInv /\ [Next]_vars => ExactInv'
<1>. SUFFICES ASSUME IInv, IInv', ExactInv, [Next]_vars, reliable, UniqueKeys
              PROVE  /\ bad' \cap stack' = {} /\ failed' \subseteq bad'
                     /\ Isolating' => (missing' \ todo') \ bad' \subseteq stack'
  BY WorldFixed DEF ExactInv, UniqueKeys, world
<1>1. /\ bad \cap stack = {} /\ failed \subseteq bad
      /\ Isolating => (missing \ todo) \ bad \subseteq stack
  BY DEF ExactInv
<1>2. CASE Relaunch
  BY <1>1, <1>2 DEF Relaunch, Launch, ClearReport, Isolating
<1>3. CASE Plan
  BY <1>1, <1>3 DEF Plan, LoopHead, Isolating
<1>4. CASE ImportBatch
  BY <1>1, <1>4, LandingsAreGood DEF ImportBatch, Isolating, report
<1>5. CASE ReadAfterBatch
  BY <1>1, <1>5 DEF ReadAfterBatch, NextBatch, LoopHead, Isolating
<1>6. CASE IsolateOne
  <2>1. NextIsolated \in todo /\ NextIsolated \in Importable
    BY <1>6, NextIsolatedInTodo DEF IsolateOne, IInv, IsolationInv, TypeOK
  <2>2. PICK L \in Landings(Payload({NextIsolated})) : stack' = stack \cup L
    BY <1>6 DEF IsolateOne
  <2>3. NextIsolated \in stack' \cup bad
    BY <2>1, <2>2, GoodEntryLandsAlone DEF IInv
  <2>. QED BY <1>1, <1>6, <2>2, <2>3, LandingsAreGood DEF IsolateOne, Isolating, report
<1>7. CASE ReadAfterIsolation
  <2>1. \A e \in missing : ~InState(e) => e \notin stack
    BY ReadIsExact DEF IInv, TypeOK
  <2>2. missing \ bad \subseteq stack
    BY <1>1, <1>7 DEF ReadAfterIsolation, IInv, IsolationInv, Isolating
  <2>3. ~Isolating'
    BY <1>7 DEF ReadAfterIsolation, NextBatch, LoopHead, Isolating
  <2>. QED BY <1>1, <1>7, <2>1, <2>2, <2>3 DEF ReadAfterIsolation
<1>8. CASE ReadFails
  BY <1>1, <1>8 DEF ReadFails, Isolating, report
<1>9. CASE Crash
  <2>1. bad' \cap stack' = {}
    BY <1>1, <1>9, LandingsAreGood DEF Crash
  <2>. QED BY <1>9, <2>1 DEF Crash, ClearReport, Isolating
<1>10. CASE UNCHANGED vars
  BY <1>1, <1>10 DEF vars, report, loop, Isolating
<1>. QED BY <1>2, <1>3, <1>4, <1>5, <1>6, <1>7, <1>8, <1>9, <1>10 DEF Next, Run

\* On a reliable engine the failures of a completed run are exactly the
\* planned entries with a bad ID: isolation acquits every innocent neighbour.
THEOREM IsolationIsExact == Spec => []IsolationExact
<1>1. Init => ExactInv
  BY DEF Init, ExactInv, Isolating
<1>2. IInv /\ ExactInv => IsolationExact
  <2>. SUFFICES ASSUME IInv, ExactInv, reliable, UniqueKeys, Completed
                PROVE  failed = planned \cap bad
    BY DEF IsolationExact
  <2>1. bad \cap stack = {} /\ failed \subseteq bad
    BY DEF ExactInv
  <2>2. /\ failed \subseteq planned /\ skipped \cap planned = {}
        /\ skipped \cup imported \cup failed = Importable
    BY DEF IInv, VerdictsPartition
  <2>3. imported \subseteq stack /\ planned \subseteq Importable
    BY DEF IInv, ReportSound, TypeOK
  <2>. QED BY <2>1, <2>2, <2>3
<1>. QED BY <1>1, <1>2, Invariance, ExactStep, PTL DEF Spec

-----------------------------------------------------------------------------
(* BatchImport implements ImportLedger: batches, the isolation of missing   *)
(* entries and the single late read per batch never give a false verdict    *)
(* and never revise one, for every file whose keys are unique.              *)

\* How the verdict of an entry reads off the report.
LEMMA VerdictCases ==
  /\ Verdict \in [Importable -> {"open", "in", "failed"}]
  /\ \A e \in Importable :
       /\ dryRun => Verdict[e] = "open"
       /\ ~dryRun /\ e \in failed \ (imported \cup skipped) => Verdict[e] = "failed"
       /\ ~dryRun /\ e \in imported \cup skipped => Verdict[e] = "in"
       /\ e \notin failed \cup imported \cup skipped => Verdict[e] = "open"
BY DEF Verdict

\* An empty report leaves every entry open.
LEMMA EmptyReport ==
  ASSUME skipped = {}, imported = {}, failed = {}
  PROVE  Verdict = Ledger!Open
BY DEF Verdict, Ledger!Open

\* The verdicts depend on the report and the dry-run flag only.
LEMMA VerdictFixed ==
  ASSUME UNCHANGED <<dryRun, skipped, imported, failed>>
  PROVE  Verdict' = Verdict
BY DEF Verdict

\* What a step that adds to the report has to show to be a Judge step.
LEMMA JudgeStep ==
  ASSUME UniqueKeys, TypeOK, TypeOK', ReportSound', VerdictsPartition, VerdictsPartition',
         pc \in Running, pc' \in Running \cup {"finished"}, pc' = "finished" => ~dryRun,
         UNCHANGED <<stack, dryRun>>,
         skipped \subseteq skipped', imported \subseteq imported', failed \subseteq failed',
         \A e \in imported \cup skipped : e \notin failed'
  PROVE  Ledger!Judge
<1>1. Phase = "running" /\ Phase' \in {"running", "complete"}
  BY DEF Phase, Completed, Running, Reading
<1>2. /\ Verdict \in [Importable -> {"open", "in", "failed"}]
      /\ \A e \in Importable :
           /\ dryRun => Verdict[e] = "open"
           /\ ~dryRun /\ e \in failed \ (imported \cup skipped) => Verdict[e] = "failed"
           /\ ~dryRun /\ e \in imported \cup skipped => Verdict[e] = "in"
           /\ e \notin failed \cup imported \cup skipped => Verdict[e] = "open"
  BY VerdictCases
<1>3. /\ Verdict' \in [Importable -> {"open", "in", "failed"}]
      /\ \A e \in Importable :
           /\ dryRun' => Verdict'[e] = "open"
           /\ ~dryRun' /\ e \in failed' \ (imported' \cup skipped') => Verdict'[e] = "failed"
           /\ ~dryRun' /\ e \in imported' \cup skipped' => Verdict'[e] = "in"
           /\ e \notin failed' \cup imported' \cup skipped' => Verdict'[e] = "open"
  BY DEF Verdict
<1>4. imported' \cup skipped' \subseteq stack' /\ failed' \cap stack' = {}
  <2>1. UniqueKeys'
    BY DEF UniqueKeys
  <2>. QED BY <2>1 DEF ReportSound
<1>5. \A e \in Importable :
        /\ Verdict[e] # "open" => Verdict'[e] = Verdict[e]
        /\ Verdict[e] = "open" /\ Verdict'[e] = "in" => e \in stack
        /\ Verdict[e] = "open" /\ Verdict'[e] = "failed" => e \notin stack
  BY <1>2, <1>3, <1>4
<1>6. Phase' = "complete" => \A e \in Importable : Verdict'[e] # "open"
  <2>. SUFFICES ASSUME Phase' = "complete" PROVE \A e \in Importable : Verdict'[e] # "open"
    OBVIOUS
  <2>1. pc' = "finished" /\ ~dryRun'
    BY DEF Phase, Completed
  <2>2. skipped' \cup imported' \cup failed' = Importable
    BY <2>1 DEF VerdictsPartition, Completed
  <2>. QED BY <1>3, <2>1, <2>2
<1>. QED BY <1>1, <1>3, <1>5, <1>6 DEF Ledger!Judge

-----------------------------------------------------------------------------
LEMMA LedgerInit == Init => Ledger!Init
<1>. SUFFICES ASSUME Init PROVE Ledger!Init
  OBVIOUS
<1>1. Verdict = Ledger!Open
  BY EmptyReport DEF Init
<1>2. Phase = "abandoned" /\ stack \in SUBSET Importable
  BY DEF Init, Phase, Completed, Running, Reading
<1>. QED BY <1>1, <1>2 DEF Ledger!Init

LEMMA LedgerRelaunch == IInv /\ Relaunch => Ledger!Begin
<1>. SUFFICES ASSUME IInv, NEW r \in BOOLEAN, NEW d \in BOOLEAN, NEW fixed \in SUBSET failed,
                     Launch(r, d, fixed)
              PROVE  Ledger!Begin
  BY DEF Relaunch
<1>1. Phase \in {"complete", "abandoned"}
  BY DEF Launch, Phase, Ended, Running, Reading
<1>2. Phase' = "running" /\ UNCHANGED stack
  BY DEF Launch, Phase, Running, Reading
<1>3. skipped' = {} /\ imported' = {} /\ failed' = {}
  BY DEF Launch, ClearReport
<1>4. Verdict' = Ledger!Open
  BY <1>3 DEF Verdict, Ledger!Open
<1>. QED BY <1>1, <1>2, <1>4 DEF Ledger!Begin

\* A dry run that ends prints a plan and gives no verdict: it is abandoned.
LEMMA LedgerPlan == UniqueKeys /\ IInv /\ IInv' /\ Plan => Ledger!Judge \/ Ledger!Abandon
<1>. SUFFICES ASSUME UniqueKeys, IInv, IInv', Plan PROVE Ledger!Judge \/ Ledger!Abandon
  OBVIOUS
<1>1. pc = "plan" /\ skipped = {} /\ imported = {} /\ failed = {} /\ imported' = {} /\ failed' = {}
      /\ UNCHANGED <<stack, resume, dryRun>>
  BY DEF IInv, FreshInv, Plan, options
<1>2. CASE dryRun
  <2>1. pc' = "finished"
    BY <1>2 DEF Plan
  <2>2. Phase = "running" /\ Phase' = "abandoned"
    BY <1>1, <1>2, <2>1 DEF Phase, Completed, Running, Reading
  <2>3. Verdict' = Ledger!Open
    BY <1>1, <1>2 DEF Verdict, Ledger!Open
  <2>4. stack \subseteq stack' /\ stack' \subseteq Importable
    BY <1>1 DEF IInv, TypeOK
  <2>. QED BY <2>2, <2>3, <2>4 DEF Ledger!Abandon
<1>3. CASE ~dryRun
  <2>1. pc' \in Running \cup {"finished"}
    BY DEF Plan, LoopHead, Running
  <2>2. TypeOK /\ TypeOK' /\ ReportSound' /\ VerdictsPartition /\ VerdictsPartition'
    BY DEF IInv
  <2>3. pc \in Running
    BY <1>1 DEF Running, Reading
  <2>. QED BY <1>1, <1>3, <2>1, <2>2, <2>3, JudgeStep
<1>. QED BY <1>2, <1>3

\* An import call, of a batch or of one entry, is a Land step.
LEMMA LedgerLand == IInv /\ IInv' /\ (ImportBatch \/ IsolateOne) => Ledger!Land
<1>. SUFFICES ASSUME IInv, IInv', ImportBatch \/ IsolateOne PROVE Ledger!Land
  OBVIOUS
<1>1. /\ pc \in {"batch", "isolate"} /\ pc' \in {"read", "isolate", "reread"}
      /\ UNCHANGED <<dryRun, skipped, imported, failed>> /\ stack \subseteq stack'
  BY DEF ImportBatch, IsolateOne, options, report
<1>2. Phase = "running" /\ Phase' = "running" /\ Verdict' = Verdict
  BY <1>1, VerdictFixed DEF Phase, Running, Reading
<1>3. stack' \subseteq Importable
  BY DEF IInv, TypeOK
<1>. QED BY <1>1, <1>2, <1>3 DEF Ledger!Land

LEMMA LedgerReadAfterBatch == UniqueKeys /\ IInv /\ IInv' /\ ReadAfterBatch => Ledger!Judge
<1>. SUFFICES ASSUME UniqueKeys, IInv, IInv', ReadAfterBatch PROVE Ledger!Judge
  OBVIOUS
<1>1. /\ pc \in Running \ {"plan"} /\ UNCHANGED <<stack, dryRun, skipped, failed>>
      /\ imported \subseteq imported'
  BY DEF ReadAfterBatch, options, Running, Reading
<1>2. pc' \in Running \cup {"finished"} /\ ~dryRun
  BY <1>1 DEF ReadAfterBatch, NextBatch, LoopHead, Running, IInv, LoopInv
<1>3. TypeOK /\ TypeOK' /\ ReportSound' /\ VerdictsPartition /\ VerdictsPartition'
  BY DEF IInv
<1>4. \A e \in imported \cup skipped : e \notin failed'
  BY <1>1, <1>3 DEF VerdictsPartition
<1>. QED BY <1>1, <1>2, <1>3, <1>4, JudgeStep

LEMMA LedgerReadAfterIsolation ==
  UniqueKeys /\ IInv /\ IInv' /\ ReadAfterIsolation => Ledger!Judge
<1>. SUFFICES ASSUME UniqueKeys, IInv, IInv', ReadAfterIsolation PROVE Ledger!Judge
  OBVIOUS
<1>1. /\ pc \in Running \ {"plan"} /\ UNCHANGED <<stack, dryRun, planned, skipped>>
      /\ imported \subseteq imported' /\ failed \subseteq failed'
  BY DEF ReadAfterIsolation, options, Running, Reading
<1>2. pc' \in Running \cup {"finished"} /\ ~dryRun
  BY <1>1 DEF ReadAfterIsolation, NextBatch, LoopHead, Running, IInv, LoopInv
<1>3. TypeOK /\ TypeOK' /\ ReportSound' /\ VerdictsPartition /\ VerdictsPartition'
  BY DEF IInv
<1>4. \A e \in imported \cup skipped : e \notin failed'
  BY <1>1, <1>3 DEF VerdictsPartition
<1>. QED BY <1>1, <1>2, <1>3, <1>4, JudgeStep

\* A run that ends without completing, by an error or by a crash, abandons.
LEMMA LedgerAbandon == IInv /\ IInv' /\ (ReadFails \/ Crash) => Ledger!Abandon
<1>. SUFFICES ASSUME IInv, IInv', ReadFails \/ Crash PROVE Ledger!Abandon
  OBVIOUS
<1>1. pc \in Running /\ pc' \in {"error", "crashed"} /\ stack \subseteq stack'
  BY DEF ReadFails, Crash, Running
<1>2. Phase = "running" /\ Phase' = "abandoned"
  BY <1>1 DEF Phase, Completed, Running, Reading
<1>3. Verdict' \in {Verdict, Ledger!Open}
  <2>1. CASE ReadFails
    BY <2>1, VerdictFixed DEF ReadFails, options, report
  <2>2. CASE Crash
    BY <2>2 DEF Crash, ClearReport, Verdict, Ledger!Open
  <2>. QED BY <2>1, <2>2
<1>4. stack' \subseteq Importable
  BY DEF IInv, TypeOK
<1>. QED BY <1>1, <1>2, <1>3, <1>4 DEF Ledger!Abandon

LEMMA LedgerStutter == UNCHANGED vars => UNCHANGED Ledger!vars
<1>. SUFFICES ASSUME UNCHANGED vars PROVE UNCHANGED Ledger!vars
  OBVIOUS
<1>1. UNCHANGED <<stack, pc, dryRun, skipped, imported, failed>>
  BY DEF vars, options, report
<1>2. Verdict' = Verdict
  BY <1>1, VerdictFixed
<1>3. Phase' = Phase
  BY <1>1 DEF Phase, Completed
<1>. QED BY <1>1, <1>2, <1>3 DEF Ledger!vars

\* The command keeps the ledger's promise: verdicts are true when given, are
\* never revised, and a run completes only with no importable entry left open.
THEOREM RunImplementsLedger == UniqueKeys => (Spec => LedgerSpec)
<1>1. Init => Ledger!Init
  BY LedgerInit
<1>2. UniqueKeys /\ IInv /\ IInv' /\ [Next]_vars => [Ledger!Next]_(Ledger!vars)
  BY LedgerRelaunch, LedgerPlan, LedgerLand, LedgerReadAfterBatch, LedgerReadAfterIsolation,
     LedgerAbandon, LedgerStutter
     DEF Next, Run, Ledger!Next
<1>3. SUFFICES ASSUME UniqueKeys PROVE Spec => LedgerSpec
  OBVIOUS
<1>4. IInv /\ IInv' /\ [Next]_vars => [Ledger!Next]_(Ledger!vars)
  BY <1>2, <1>3
<1>. QED BY <1>1, <1>4, Invariance, PTL DEF Spec, LedgerSpec, Ledger!Spec
=============================================================================
