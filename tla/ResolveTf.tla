------------------------------ MODULE ResolveTf ------------------------------
(***************************************************************************)
(* "resolve tf": FillImportFile gives the entries of an import file the    *)
(* IDs of the digest's resources, in three phases (explicit mappings,      *)
(* mapped modules, root), diverting what cannot be imported;               *)
(* TranslateImportIDs composes IDs; the import file and then the sidecar   *)
(* are written.  Mappings are Go maps, so their order is any order.        *)
(*                                                                         *)
(* Entries and resources are numbered in file and digest order.  The name  *)
(* of a child is what follows "<component>-" in the file; its full name is *)
(* the pair.  Component entries and data sources are never matched and are *)
(* left out; a resource that has no Pulumi type has one no entry has.      *)
(***************************************************************************)
EXTENDS Integers, FiniteSets

CONSTANTS
  N, M,          \* numbers of entries and of resources
  Files,         \* import files: entry -> [parent, type, name, id]
  Digests,       \* digests: resource -> [module, type, name, id, flagged]
  ModuleMaps,    \* mappings of module paths to component names
  ResourceMaps,  \* mappings of resources to <<parent, name>> of entries
  Composable,    \* the resources whose import ID the catalog composes
  MaxFaults      \* bound on kills and failed steps

Entries == 1..N
Resources == 1..M
None == 0
Root == "root"  \* the parent of orphans, the module of root resources
Placeholder == "<PLACEHOLDER>"
NoId == ""

\* A resource of a digest; no provider uses the placeholder as an ID.
IsResource(x) ==
  /\ x = [module |-> x.module, type |-> x.type, name |-> x.name, id |-> x.id, flagged |-> x.flagged]
  /\ x.flagged \in BOOLEAN /\ x.id # Placeholder

ASSUME ResolveAssumption ==
  /\ N \in Nat /\ M \in Nat
  /\ \A f \in Files : DOMAIN f = Entries
  /\ \A d \in Digests : DOMAIN d = Resources /\ \A r \in Resources : IsResource(d[r])
  /\ \A mm \in ModuleMaps : Root \notin DOMAIN mm
  /\ \A rm \in ResourceMaps : DOMAIN rm \subseteq Resources
  /\ Composable \subseteq Resources
  /\ MaxFaults \in Nat

VARIABLES
  file, digest, moduleMap, resourceMap,  \* the inputs
  pc,
  toMap,     \* the mapped resources phase 1 has not visited
  toPair,    \* the mapped modules phase 2 has not visited
  pending,   \* the entries grouped for matching: byParent and orphans
  queue,     \* the entries that the current matchChildren has not visited
  module,    \* the module it is matching, or Root
  used,      \* the resources it has used
  filled,    \* entry -> the resource whose ID it got, or None
  dropped,   \* entry -> the resource for which it was diverted, or None
  guessed,   \* history: the entries matched by type alone
  composed,  \* entry -> the resource from whose attributes its ID was made, or None
  out,       \* the output file: what state it is in and the entries it holds
  sidecar,   \* the sidecar, with the <<entry, resource>> pairs it holds
  exit, faults

inputs == <<file, digest, moduleMap, resourceMap>>
matching == <<toMap, toPair, pending, queue, module, used>>
result == <<filled, dropped, guessed>>
disk == <<out, sidecar>>
vars == <<inputs, pc, matching, result, composed, disk, exit, faults>>

Ended == {"idle", "ended", "crashed"}
Running == {"map", "pair", "match", "translate", "write", "sidecar"}
Nothing == [e \in Entries |-> None]

Absent == [state |-> "absent", holds |-> {}]
Torn == [state |-> "torn", holds |-> {}]
Whole(S) == [state |-> "whole", holds |-> S]

TypeOK ==
  /\ file \in Files /\ DOMAIN digest = Resources
  /\ pc \in Ended \cup Running
  /\ toMap \subseteq DOMAIN resourceMap /\ toPair \subseteq DOMAIN moduleMap
  /\ queue \subseteq Entries /\ pending \subseteq Entries
  /\ module \in DOMAIN moduleMap \cup {Root} /\ used \subseteq Resources
  /\ {filled, dropped, composed} \subseteq [Entries -> Resources \cup {None}]
  /\ guessed \subseteq Entries
  /\ out = Absent \/ out = Torn \/ out.holds \subseteq Entries
  /\ sidecar = Absent \/ sidecar = Torn \/ sidecar.holds \subseteq Entries \X Resources
  /\ exit \in {"none", "zero", "nonzero"}
  /\ faults \in 0..MaxFaults

-----------------------------------------------------------------------------
(* What the phases look up.                                                *)

Last(S) == CHOOSE x \in S : \A y \in S : y <= x
First(S) == CHOOSE x \in S : \A y \in S : x <= y

\* The ID an entry carries, before any is composed.
Id(e) == IF filled[e] # None THEN digest[filled[e]].id ELSE file[e].id

\* importByName: of entries with one full name the last is found.
Named(n) == {e \in Entries : <<file[e].parent, file[e].name>> = n}

\* The resources in the module that matchChildren has been given.
Members == {r \in Resources : digest[r].module = module}

Free(e) == {r \in Members \ used : digest[r].type = file[e].type}

\* byTypeName: of resources with one type and name the last is found.
Exact(e) ==
  {r \in Members : digest[r].type = file[e].type /\ digest[r].name = file[e].name}

HasExact(e) == Exact(e) # {} /\ Last(Exact(e)) \notin used

\* assign: an entry that was diverted stays so.
Assign_mutant(e, r) ==
  IF digest[r].flagged
  THEN dropped' = [dropped EXCEPT ![e] = r] /\ UNCHANGED filled
  ELSE filled' = [filled EXCEPT ![e] = r] /\ UNCHANGED dropped
Assign(e, r) ==
  IF dropped[e] # None THEN UNCHANGED <<filled, dropped>>
  ELSE IF digest[r].flagged
  THEN dropped' = [dropped EXCEPT ![e] = r] /\ UNCHANGED filled
  ELSE filled' = [filled EXCEPT ![e] = r] /\ UNCHANGED dropped

\* A match that matchChildren makes.
Use_mutant(e, r) == Assign(e, r) /\ UNCHANGED used
Use(e, r) == Assign(e, r) /\ used' = used \cup {r}

\* The entries phase 2 groups: those without an ID that were not diverted.
Unmatched == {e \in Entries : Id(e) = Placeholder /\ dropped[e] = None}

\* The entries left in the import file.
Kept == {e \in Entries : dropped[e] = None}

\* The resources that the ID of a state may mean.
Owners(id) == {r \in Resources : digest[r].id = id}

\* The IDs of which translation knows the resource.
Known_mutant(id) == id \notin {NoId, Placeholder} /\ Owners(id) # {}
Known(id) == id \notin {NoId, Placeholder} /\ Cardinality(Owners(id)) = 1

-----------------------------------------------------------------------------
(* The command.                                                            *)

Fault == faults < MaxFaults /\ faults' = faults + 1

Reset ==
  /\ toMap' = DOMAIN resourceMap /\ toPair' = DOMAIN moduleMap
  /\ pending' = {} /\ queue' = {} /\ module' = Root /\ used' = {}
  /\ filled' = Nothing /\ dropped' = Nothing /\ guessed' = {} /\ composed' = Nothing

\* The command is started; before it, the digest may have been taken again
\* without the check for import support.
Launch ==
  /\ pc \in Ended
  /\ digest' \in {digest, [r \in Resources |-> [digest[r] EXCEPT !.flagged = FALSE]]}
  /\ Reset
  /\ pc' = "map" /\ exit' = "none"
  /\ UNCHANGED <<file, moduleMap, resourceMap, disk, faults>>

\* Phase 1, one mapping.  One that names no entry, or one with an ID, is passed over.
MapResource ==
  /\ pc = "map"
  /\ \E r \in toMap :
       /\ toMap' = toMap \ {r}
       /\ LET found == Named(resourceMap[r]) IN
          IF found # {} /\ Id(Last(found)) = Placeholder
          THEN Assign(Last(found), r)
          ELSE UNCHANGED <<filled, dropped>>
  /\ UNCHANGED <<inputs, pc, toPair, pending, queue, module, used, guessed, composed, disk, exit, faults>>

Group ==
  /\ pc = "map" /\ toMap = {}
  /\ pending' = Unmatched
  /\ pc' = "pair"
  /\ UNCHANGED <<inputs, toMap, toPair, queue, module, used, result, composed, disk, exit, faults>>

\* matchChildren is called for one mapped module: its component's entries are
\* no longer pending.  A mapping without resources or entries is passed over.
Pair ==
  /\ pc = "pair"
  /\ \E m \in toPair :
       /\ toPair' = toPair \ {m}
       /\ LET children == {e \in pending : file[e].parent = moduleMap[m]} IN
          IF children # {} /\ \E r \in Resources : digest[r].module = m
          THEN /\ module' = m /\ queue' = children /\ pending' = pending \ children
               /\ used' = {} /\ pc' = "match"
          ELSE UNCHANGED <<module, queue, pending, used, pc>>
  /\ UNCHANGED <<inputs, toMap, result, composed, disk, exit, faults>>

\* Orphans are matched to the root resources when all modules are done.
PairRoot ==
  /\ pc = "pair" /\ toPair = {}
  /\ LET orphans == {e \in pending : file[e].parent = Root} IN
     IF orphans # {}
     THEN queue' = orphans /\ pending' = pending \ orphans /\ pc' = "match"
     ELSE pc' = "translate" /\ UNCHANGED <<queue, pending>>
  /\ module' = Root /\ used' = {}
  /\ UNCHANGED <<inputs, toMap, toPair, result, composed, disk, exit, faults>>

\* One turn of matchChildren's loop: the exact name, else the only candidate.
Match ==
  /\ pc = "match"
  /\ queue # {}
  /\ LET e == First(queue) IN
     /\ queue' = queue \ {e}
     /\ \/ HasExact(e) /\ Use(e, Last(Exact(e))) /\ UNCHANGED guessed
        \/ /\ ~HasExact(e) /\ Cardinality(Free(e)) = 1
           /\ Use(e, Last(Free(e))) /\ guessed' = guessed \cup {e}
        \/ ~HasExact(e) /\ Cardinality(Free(e)) # 1 /\ UNCHANGED <<used, result>>
  /\ UNCHANGED <<inputs, pc, toMap, toPair, pending, module, composed, disk, exit, faults>>

Matched ==
  /\ pc = "match" /\ queue = {}
  /\ pc' = IF module = Root THEN "translate" ELSE "pair"
  /\ UNCHANGED <<inputs, matching, result, composed, disk, exit, faults>>

\* TranslateImportIDs: an ID that one resource has is composed from its
\* attributes.  Before that the formats file may be refused.
Translate ==
  /\ pc = "translate"
  /\ \/ /\ composed' = [e \in Entries |->
              IF e \in Kept /\ Known(Id(e)) /\ Last(Owners(Id(e))) \in Composable
              THEN Last(Owners(Id(e))) ELSE None]
        /\ pc' = "write"
        /\ UNCHANGED <<exit, faults>>
     \/ Fault /\ pc' = "ended" /\ exit' = "nonzero" /\ UNCHANGED composed
  /\ UNCHANGED <<inputs, matching, result, disk>>

WriteOutput ==
  /\ pc = "write"
  /\ \/ out' = Whole(Kept) /\ pc' = "sidecar" /\ UNCHANGED <<exit, faults>>
     \/ Fault /\ out' \in {out, Torn} /\ pc' = "ended" /\ exit' = "nonzero"
  /\ UNCHANGED <<inputs, matching, result, composed, sidecar>>

\* writeNonImportable: with nothing to record an old sidecar is removed.
Diverted == {<<e, dropped[e]>> : e \in Entries \ Kept}
Sidecar_mutant == IF Diverted = {} THEN sidecar ELSE Whole(Diverted)
Sidecar == IF Diverted = {} THEN Absent ELSE Whole(Diverted)

WriteSidecar ==
  /\ pc = "sidecar"
  /\ \/ sidecar' = Sidecar /\ exit' = "zero" /\ UNCHANGED faults
     \/ Fault /\ sidecar' \in {sidecar, Torn} /\ exit' = "nonzero"
  /\ pc' = "ended"
  /\ UNCHANGED <<inputs, matching, result, composed, out>>

\* The process is killed while it writes; the file is whole, torn or untouched.
\* A kill before that leaves no more behind than a refusal in Translate does.
Crash ==
  /\ pc \in {"write", "sidecar"} /\ Fault
  /\ out' \in (IF pc = "write" THEN {out, Torn, Whole(Kept)} ELSE {out})
  /\ sidecar' \in (IF pc = "sidecar" THEN {sidecar, Torn, Sidecar} ELSE {sidecar})
  /\ pc' = "crashed"
  /\ UNCHANGED <<inputs, matching, result, composed, exit>>

Init ==
  /\ file \in Files /\ digest \in Digests
  /\ moduleMap \in ModuleMaps /\ resourceMap \in ResourceMaps
  /\ pc = "idle"
  /\ toMap = {} /\ toPair = {} /\ pending = {} /\ queue = {} /\ module = Root /\ used = {}
  /\ filled = Nothing /\ dropped = Nothing /\ guessed = {} /\ composed = Nothing
  /\ out = Absent /\ sidecar = Absent
  /\ exit = "none" /\ faults = 0

Next ==
  \/ Launch \/ MapResource \/ Group \/ Pair \/ PairRoot \/ Match \/ Matched
  \/ Translate \/ WriteOutput \/ WriteSidecar \/ Crash

Spec == Init /\ [][Next]_vars

-----------------------------------------------------------------------------
(* Properties.                                                             *)

Done == pc = "ended" /\ exit = "zero"

\* The resource an entry was matched with.
Got(e) == IF filled[e] # None THEN filled[e] ELSE dropped[e]

\* After a run that succeeds, whatever runs before it left behind, the two
\* files share the entries out: an entry is in the import file or, when its
\* resource cannot be imported, in the sidecar, and a stale sidecar is gone.
FilesPartition ==
  Done =>
    /\ out.state = "whole" /\ sidecar.state \in {"whole", "absent"}
    /\ \A e \in Entries :
         \/ e \in out.holds /\ \A r \in Resources : <<e, r>> \notin sidecar.holds
         \/ /\ e \notin out.holds
            /\ \E r \in Resources : digest[r].flagged /\ <<e, r>> \in sidecar.holds
    /\ \A e \in out.holds : filled[e] # None => ~digest[filled[e]].flagged

\* "First mapping wins, as it does for filled entries": what an entry was
\* matched with is never revised within a run, by any phase.
FirstMappingWins ==
  [][\A e \in Entries : pc \in Running /\ Got(e) # None =>
       filled'[e] = filled[e] /\ dropped'[e] = dropped[e]]_vars

\* The entry was matched by an explicit mapping.
ByMapping(e) ==
  Got(e) \in DOMAIN resourceMap /\ e \in Named(resourceMap[Got(e)])

\* A resource goes to a second entry only if a mapping gave it to one of the
\* two: matching by name and by type alone never uses a resource twice.
SharedOnlyByMapping ==
  \A d, e \in Entries :
    d # e /\ Got(d) = Got(e) /\ Got(d) # None => ByMapping(d) \/ ByMapping(e)

\* Where a component keeps to the naming convention nothing is guessed: an
\* entry matched by type alone has a sibling of its type, or is one itself,
\* whose name no resource of the module has.
GuessOnlyOffConvention ==
  \A e \in guessed : \E d \in Entries :
    /\ file[d].parent = file[e].parent /\ file[d].type = file[e].type
    /\ ~\E r \in Resources :
         /\ digest[r].module = digest[Got(e)].module
         /\ digest[r].type = file[d].type /\ digest[r].name = file[d].name

\* An import ID is composed from the attributes of the resource the entry was
\* matched with, although it is found again by its state ID.
ComposedFromOwn ==
  \A e \in Entries : composed[e] # None /\ filled[e] # None => composed[e] = filled[e]

\* "Exact Pulumi type and name, never by the fallback guess": a resource that
\* is handed over for injection was matched by name or by a mapping.
InjectionNeverGuessed == \A e \in guessed : dropped[e] = None
=============================================================================
