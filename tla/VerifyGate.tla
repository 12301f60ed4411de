------------------------------ MODULE VerifyGate ------------------------------
(***************************************************************************)
(* CheckInjectionVerification: the comparison of the previews taken before *)
(* and after patch-state replaced the stack state.  A preview is what      *)
(* OpsByURN makes of its steps: an operation for each URN, here NoStep for *)
(* a URN that has none.  An empty list of problems lets the new state      *)
(* stay; any problem reverts it.                                           *)
(***************************************************************************)
EXTENDS Integers, FiniteSets

CONSTANTS
  URNs,  \* the resources that occur in a preview
  Ops    \* the operations the engine may report, also ones the table lacks

NoStep == "no step"

ASSUME VerifyGateAssumption == IsFiniteSet(URNs) /\ "same" \in Ops /\ NoStep \notin Ops

Previews == [URNs -> Ops \cup {NoStep}]

\* opSeverity: how much of the live resource an operation destroys.  An
\* operation outside the table has no rank.
KnownOps ==
  {"same", "refresh", "read", "import", "update", "create",
   "replace", "create-replacement", "delete-replaced", "import-replacement",
   "delete", "discard", "remove-pending-replace"}

opSeverity ==
  [op \in KnownOps |->
     CASE op \in {"same", "refresh", "read"} -> 0
       [] op \in {"import", "update"} -> 1
       [] op = "create" -> 2
       [] op \in {"delete", "discard", "remove-pending-replace"} -> 4
       [] OTHER -> 3]

opGotWorse(before, after) ==
  /\ before # after
  /\ \/ before \notin KnownOps \/ after \notin KnownOps
     \/ opSeverity[after] > opSeverity[before]

\* CheckInjectedOps: injected resources whose step is missing or not "same".
InjectedProblems(verify, injected) == {u \in injected : verify[u] # "same"}

\* The resources outside the injected ones that report an operation.
NonSame(preview, injected) == {u \in URNs \ injected : preview[u] \notin {"same", NoStep}}

NewlyDirty(baseline, verify, injected) ==
  {u \in NonSame(verify, injected) : baseline[u] \in {"same", NoStep}}

Escalated(baseline, verify, injected) ==
  {u \in NonSame(verify, injected) \ NewlyDirty(baseline, verify, injected) :
     opGotWorse(baseline[u], verify[u])}

CountGrew(baseline, verify, injected) ==
  Cardinality(NonSame(verify, injected)) > Cardinality(NonSame(baseline, injected))

\* CheckInjectionVerification returns no problem.
GatePasses_mutant(baseline, verify, injected) == ~CountGrew(baseline, verify, injected)
GatePasses_clean(baseline, verify, injected) ==
  InjectedProblems(verify, injected) = {} /\ NonSame(verify, injected) = {}
GatePasses(baseline, verify, injected) ==
  /\ InjectedProblems(verify, injected) = {}
  /\ NewlyDirty(baseline, verify, injected) = {}
  /\ Escalated(baseline, verify, injected) = {}
  /\ ~CountGrew(baseline, verify, injected)

\* How close an operation brings a live resource to destruction: no step and
\* "same" leave it alone, an operation nobody ranked is as bad as can be.
Danger(op) ==
  IF op = NoStep THEN 0 ELSE IF op \in KnownOps THEN opSeverity[op] ELSE 5

\* No resource outside S is closer to destruction under preview q than under p.
NoCloserToDestruction(p, q, S) == \A u \in URNs \ S : Danger(q[u]) <= Danger(p[u])
=============================================================================
