-------------------------- MODULE ResolveTfProofs --------------------------
(***************************************************************************)
(* Proofs about ResolveTf, for every import file, digest and mapping, and  *)
(* every sequence of runs, failures and kills.                             *)
(***************************************************************************)
EXTENDS ResolveTf, FiniteSetTheorems, WellFoundedInduction, TLAPS

\* The inputs are of the kind the command is given.
InputInv ==
  /\ file \in Files /\ moduleMap \in ModuleMaps /\ resourceMap \in ResourceMaps
  /\ DOMAIN digest = Resources /\ \A r \in Resources : IsResource(digest[r])

\* An entry is filled or diverted, never both, and by the kind of its resource.
MatchedInv ==
  \A e \in Entries :
    /\ filled[e] # None => ~digest[filled[e]].flagged
    /\ dropped[e] # None => digest[dropped[e]].flagged
    /\ filled[e] = None \/ dropped[e] = None

\* What phases 2 and 3 have not visited is unmatched.
QueueInv ==
  /\ pc \in {"map", "pair"} => queue = {}
  /\ pc \in {"pair", "match"} =>
       /\ \A e \in pending \cup queue : filled[e] = None /\ dropped[e] = None
       /\ queue \cap pending = {}

\* What the files hold once they are written.
DiskInv ==
  /\ pc \in Running => exit = "none"
  /\ pc = "sidecar" => out = Whole(Kept)
  /\ Done => out = Whole(Kept) /\ sidecar = Sidecar

-----------------------------------------------------------------------------
(* First and Last choose members.                                          *)

\* The first of a set of entries is one of them.
LEMMA FirstIsMember ==
  ASSUME NEW S, S \subseteq Nat, S # {}
  PROVE  First(S) \in S /\ \A y \in S : First(S) <= y
<1>1. PICK x \in S : \A y \in S : ~(<<y, x>> \in OpToRel(<, Nat))
  BY NatLessThanWellFounded, WFMin
<1>2. \A y \in S : x <= y
  <2>. SUFFICES ASSUME NEW y \in S PROVE x <= y
    OBVIOUS
  <2>1. y \in Nat /\ x \in Nat
    OBVIOUS
  <2>2. ~(<<y, x>> \in {ss \in Nat \X Nat : ss[1] < ss[2]})
    BY <1>1 DEF OpToRel
  <2>. QED BY <2>1, <2>2
<1>. QED BY <1>2 DEF First

\* The last of a bounded set of numbers is one of them.
LEMMA LastIsMember ==
  ASSUME NEW K \in Nat, NEW S, S \subseteq 1..K, S # {}
  PROVE  Last(S) \in S /\ \A y \in S : y <= Last(S)
<1>. DEFINE R == {K - x : x \in S}
<1>1. R \subseteq Nat /\ R # {}
  OBVIOUS
<1>2. First(R) \in R /\ \A y \in R : First(R) <= y
  BY <1>1, FirstIsMember
<1>3. PICK x \in S : First(R) = K - x
  BY <1>2
<1>4. \A y \in S : y <= x
  <2>. SUFFICES ASSUME NEW y \in S PROVE y <= x
    OBVIOUS
  <2>1. K - x <= K - y
    BY <1>2, <1>3
  <2>. QED BY <2>1
<1>. QED BY <1>4 DEF Last

\* The matched entry of a mapping is one of those it names.
LEMMA NamedIsEntry ==
  ASSUME NEW n, Named(n) # {}
  PROVE  Last(Named(n)) \in Named(n) /\ Last(Named(n)) \in Entries
BY LastIsMember, ResolveAssumption DEF Named, Entries

\* The candidates of an entry are resources.
LEMMA CandidateIsMember ==
  ASSUME NEW e
  PROVE  /\ HasExact(e) => Last(Exact(e)) \in Exact(e) \ used
         /\ Cardinality(Free(e)) = 1 => Last(Free(e)) \in Free(e)
<1>1. Exact(e) \subseteq Resources /\ Free(e) \subseteq Resources
  BY DEF Exact, Free, Members
<1>2. HasExact(e) => Last(Exact(e)) \in Exact(e) \ used
  BY <1>1, LastIsMember, ResolveAssumption DEF HasExact, Resources
<1>3. Cardinality(Free(e)) = 1 => Free(e) # {}
  BY FS_EmptySet
<1>. QED BY <1>1, <1>2, <1>3, LastIsMember, ResolveAssumption DEF Resources

-----------------------------------------------------------------------------
(* The invariant.                                                          *)

RInv == TypeOK /\ InputInv /\ MatchedInv /\ QueueInv /\ DiskInv

\* An assignment touches one entry, keeps what it was matched with before,
\* and diverts it exactly when its resource is flagged.
LEMMA AssignEffect ==
  ASSUME TypeOK, InputInv, MatchedInv, UNCHANGED digest,
         NEW e \in Entries, NEW r \in Resources, filled[e] = None, Assign(e, r)
  PROVE  /\ filled' \in [Entries -> Resources \cup {None}]
         /\ dropped' \in [Entries -> Resources \cup {None}]
         /\ \A d \in Entries \ {e} : filled'[d] = filled[d] /\ dropped'[d] = dropped[d]
         /\ dropped[e] # None => UNCHANGED <<filled, dropped>>
         /\ dropped[e] = None => \/ filled'[e] = r /\ dropped'[e] = None
                                 \/ filled'[e] = None /\ dropped'[e] = r
         /\ MatchedInv'
<1>1. /\ filled \in [Entries -> Resources \cup {None}]
      /\ dropped \in [Entries -> Resources \cup {None}]
  BY DEF TypeOK
<1>2. CASE dropped[e] # None
  BY <1>1, <1>2 DEF Assign, MatchedInv
<1>3. CASE dropped[e] = None /\ digest[r].flagged
  <2>1. dropped' = [dropped EXCEPT ![e] = r] /\ filled' = filled
    BY <1>3 DEF Assign
  <2>. QED BY <1>1, <1>3, <2>1 DEF MatchedInv
<1>4. CASE dropped[e] = None /\ ~digest[r].flagged
  <2>1. filled' = [filled EXCEPT ![e] = r] /\ dropped' = dropped
    BY <1>4 DEF Assign
  <2>. QED BY <1>1, <1>4, <2>1 DEF MatchedInv
<1>. QED BY <1>2, <1>3, <1>4

\* An entry that has the placeholder for an ID has not been filled.
LEMMA PlaceholderIsUnfilled ==
  ASSUME TypeOK, InputInv, NEW e \in Entries, Id(e) = Placeholder
  PROVE  filled[e] = None
BY DEF TypeOK, InputInv, IsResource, Id

\* A member of the digest may be marked importable by taking it again.
LEMMA UncheckedDigest ==
  ASSUME InputInv,
         digest' \in {digest, [r \in Resources |-> [digest[r] EXCEPT !.flagged = FALSE]]}
  PROVE  DOMAIN digest' = Resources /\ \A r \in Resources : IsResource(digest'[r])
<1>1. CASE digest' = digest
  BY <1>1 DEF InputInv
<1>2. CASE digest' = [r \in Resources |-> [digest[r] EXCEPT !.flagged = FALSE]]
  <2>. SUFFICES ASSUME NEW r \in Resources PROVE IsResource(digest'[r])
    BY <1>2
  <2>. DEFINE x == digest[r]
  <2>1. x = [module |-> x.module, type |-> x.type, name |-> x.name, id |-> x.id,
             flagged |-> x.flagged] /\ x.id # Placeholder
    BY DEF InputInv, IsResource
  <2>2. digest'[r] = [x EXCEPT !.flagged = FALSE]
    BY <1>2
  <2>3. digest'[r] = [module |-> x.module, type |-> x.type, name |-> x.name, id |-> x.id,
                      flagged |-> FALSE]
    <3>. HIDE DEF x
    <3>. QED BY <2>1, <2>2
  <2>. QED BY <2>1, <2>3 DEF IsResource
<1>. QED BY <1>1, <1>2

\* What an entry was matched with is kept.
Keeps == \A e \in Entries : Got(e) # None => filled'[e] = filled[e] /\ dropped'[e] = dropped[e]

\* Phase 1: a mapped entry is assigned to only while it has the placeholder.
LEMMA MapResourceStep ==
  ASSUME RInv, MapResource
  PROVE  RInv' /\ Keeps
<1>. USE DEF RInv
<1>1. PICK r \in toMap :
        /\ toMap' = toMap \ {r}
        /\ LET found == Named(resourceMap[r]) IN
           IF found # {} /\ Id(Last(found)) = Placeholder
           THEN Assign(Last(found), r)
           ELSE UNCHANGED <<filled, dropped>>
  BY DEF MapResource
<1>2. UNCHANGED <<inputs, pc, toPair, pending, queue, module, used, guessed, composed, disk, exit, faults>>
      /\ pc = "map"
  BY DEF MapResource
<1>3. r \in Resources
  BY ResolveAssumption DEF TypeOK, InputInv
<1>. DEFINE e == Last(Named(resourceMap[r]))
<1>4. /\ filled' \in [Entries -> Resources \cup {None}]
      /\ dropped' \in [Entries -> Resources \cup {None}]
      /\ MatchedInv' /\ Keeps
  <2>1. CASE Named(resourceMap[r]) # {} /\ Id(e) = Placeholder
    <3>1. e \in Entries
      BY <2>1, NamedIsEntry
    <3>2. filled[e] = None
      BY <2>1, <3>1, PlaceholderIsUnfilled
    <3>3. Assign(e, r)
      BY <1>1, <2>1
    <3>. HIDE DEF e
    <3>4. UNCHANGED digest
      BY <1>2 DEF inputs
    <3>. QED BY <1>3, <3>1, <3>2, <3>3, <3>4, AssignEffect DEF Keeps, Got
  <2>2. CASE ~(Named(resourceMap[r]) # {} /\ Id(e) = Placeholder)
    <3>1. UNCHANGED <<filled, dropped>>
      BY <1>1, <2>2
    <3>. QED BY <1>2, <3>1 DEF TypeOK, MatchedInv, Keeps, inputs
  <2>. QED BY <2>1, <2>2
<1>5. TypeOK'
  BY <1>1, <1>2, <1>4 DEF TypeOK, inputs, disk
<1>6. InputInv' /\ QueueInv' /\ DiskInv'
  BY <1>2 DEF InputInv, QueueInv, DiskInv, Done, Running, inputs, disk
<1>. QED BY <1>4, <1>5, <1>6

\* Phases 2 and 3: an entry that is visited has not been matched.
LEMMA MatchStep ==
  ASSUME RInv, Match
  PROVE  RInv' /\ Keeps
<1>. USE DEF RInv
<1>. DEFINE e == First(queue)
<1>1. /\ pc = "match" /\ queue # {} /\ queue' = queue \ {e}
      /\ UNCHANGED <<inputs, pc, toMap, toPair, pending, module, composed, disk, exit, faults>>
  BY DEF Match
<1>2. e \in queue /\ e \in Entries
  <2>1. queue \subseteq Nat /\ queue \subseteq Entries
    BY ResolveAssumption DEF TypeOK, Entries
  <2>. QED BY <1>1, <2>1, FirstIsMember
<1>3. filled[e] = None /\ dropped[e] = None
  BY <1>1, <1>2 DEF QueueInv
<1>4. \/ \E r \in Resources : Use(e, r) /\ guessed' \in {guessed, guessed \cup {e}}
      \/ UNCHANGED <<used, result>>
  <2>1. CASE HasExact(e) /\ Use(e, Last(Exact(e))) /\ UNCHANGED guessed
    BY <2>1, CandidateIsMember DEF Exact, Members
  <2>2. CASE Cardinality(Free(e)) = 1 /\ Use(e, Last(Free(e))) /\ guessed' = guessed \cup {e}
    BY <2>2, CandidateIsMember DEF Free, Members
  <2>. QED BY <2>1, <2>2 DEF Match
<1>. HIDE DEF e
<1>. DEFINE Effect ==
       /\ filled' \in [Entries -> Resources \cup {None}]
       /\ dropped' \in [Entries -> Resources \cup {None}]
       /\ \A d \in Entries \ {e} : filled'[d] = filled[d] /\ dropped'[d] = dropped[d]
       /\ MatchedInv' /\ used' \subseteq Resources /\ guessed' \subseteq Entries
<1>5. Effect
  <2>1. ASSUME NEW r \in Resources, Use(e, r), guessed' \in {guessed, guessed \cup {e}}
        PROVE  Effect
    <3>1. Assign(e, r) /\ used' = used \cup {r}
      BY <2>1 DEF Use
    <3>2. UNCHANGED digest
      BY <1>1 DEF inputs
    <3>3. used' \subseteq Resources /\ guessed' \subseteq Entries
      BY <1>2, <2>1, <3>1 DEF TypeOK
    <3>. QED BY <1>2, <1>3, <3>1, <3>2, <3>3, AssignEffect
  <2>2. CASE UNCHANGED <<used, result>>
    BY <1>1, <2>2 DEF TypeOK, MatchedInv, result, inputs
  <2>. QED BY <1>4, <2>1, <2>2
<1>6. Keeps
  BY <1>2, <1>3, <1>5 DEF Keeps, Got
<1>7. TypeOK'
  BY <1>1, <1>5 DEF TypeOK, inputs, disk
<1>8. InputInv' /\ DiskInv'
  BY <1>1 DEF InputInv, DiskInv, Done, Running, inputs, disk
<1>9. QueueInv'
  BY <1>1, <1>2, <1>5 DEF QueueInv, TypeOK
<1>. QED BY <1>5, <1>6, <1>7, <1>8, <1>9

\* The other steps of the matching phases change no match.
LEMMA PhaseStep ==
  ASSUME RInv, Group \/ Pair \/ PairRoot \/ Matched
  PROVE  RInv' /\ UNCHANGED <<filled, dropped>>
<1>. USE DEF RInv
<1>1. UNCHANGED <<inputs, toMap, result, composed, disk, exit, faults>>
  BY DEF Group, Pair, PairRoot, Matched, matching
<1>2. /\ pc \in {"map", "pair", "match"} /\ pc' \in {"pair", "match", "translate"}
      /\ queue' \subseteq Entries /\ pending' \subseteq Entries /\ used' \subseteq Resources
      /\ module' \in DOMAIN moduleMap \cup {Root} /\ toPair' \subseteq toPair
  BY DEF Group, Pair, PairRoot, Matched, matching, TypeOK, Unmatched
<1>3. TypeOK'
  BY <1>1, <1>2 DEF TypeOK, inputs, result, disk, Running
<1>4. InputInv' /\ MatchedInv' /\ DiskInv'
  BY <1>1, <1>2 DEF InputInv, MatchedInv, DiskInv, Done, Running, inputs, result, disk
<1>5. QueueInv'
  <2>1. CASE Group
    <3>1. \A e \in Unmatched : filled[e] = None /\ dropped[e] = None
      BY PlaceholderIsUnfilled DEF Unmatched
    <3>2. queue = {}
      BY <2>1 DEF Group, QueueInv
    <3>. QED BY <2>1, <3>1, <3>2 DEF Group, QueueInv, result
  <2>2. CASE Pair
    BY <1>1, <2>2 DEF Pair, QueueInv, result
  <2>3. CASE PairRoot
    BY <1>1, <2>3 DEF PairRoot, QueueInv, result
  <2>4. CASE Matched
    BY <1>1, <2>4 DEF Matched, QueueInv, result, matching
  <2>. QED BY <2>1, <2>2, <2>3, <2>4
<1>. QED BY <1>1, <1>3, <1>4, <1>5 DEF result

\* The end of the command: IDs are composed and the files are written.
LEMMA FinishStep ==
  ASSUME RInv, Translate \/ WriteOutput \/ WriteSidecar \/ Crash
  PROVE  RInv' /\ UNCHANGED <<filled, dropped>>
<1>. USE DEF RInv
<1>1. UNCHANGED <<inputs, matching, result>>
  BY DEF Translate, WriteOutput, WriteSidecar, Crash
<1>2. /\ pc \in {"translate", "write", "sidecar"} /\ pc' \in {"write", "sidecar", "ended", "crashed"}
      /\ exit' \in {exit, "zero", "nonzero"} /\ (exit' = "zero" => pc = "sidecar" \/ exit = "zero")
  BY DEF Translate, WriteOutput, WriteSidecar, Crash
<1>3. faults' \in 0..MaxFaults
  BY ResolveAssumption DEF Translate, WriteOutput, WriteSidecar, Crash, Fault, TypeOK
<1>4. composed' \in [Entries -> Resources \cup {None}]
  <2>1. CASE Translate
    <3>1. \A e \in Entries : Known(Id(e)) => Last(Owners(Id(e))) \in Resources
      <4>. SUFFICES ASSUME NEW e \in Entries, Known(Id(e))
                    PROVE  Last(Owners(Id(e))) \in Resources
        OBVIOUS
      <4>1. Owners(Id(e)) \subseteq Resources /\ Owners(Id(e)) # {}
        BY FS_EmptySet DEF Owners, Known
      <4>. QED BY <4>1, LastIsMember, ResolveAssumption DEF Resources
    <3>. QED BY <2>1, <3>1 DEF Translate, TypeOK
  <2>2. CASE UNCHANGED composed
    BY <2>2 DEF TypeOK
  <2>. QED BY <2>1, <2>2 DEF WriteOutput, WriteSidecar, Crash
<1>5. /\ out' = Absent \/ out' = Torn \/ out'.holds \subseteq Entries
      /\ sidecar' = Absent \/ sidecar' = Torn \/ sidecar'.holds \subseteq Entries \X Resources
  <2>1. Kept \subseteq Entries /\ Whole(Kept).holds = Kept
    BY DEF Kept, Whole
  <2>2. Diverted \subseteq Entries \X Resources /\ Whole(Diverted).holds = Diverted
    BY DEF Diverted, Kept, Whole, TypeOK
  <2>. QED BY <2>1, <2>2 DEF Translate, WriteOutput, WriteSidecar, Crash, Sidecar, disk, TypeOK
<1>6. TypeOK'
  BY <1>1, <1>2, <1>3, <1>4, <1>5 DEF TypeOK, inputs, matching, result, Running, Ended
<1>7. InputInv' /\ MatchedInv' /\ QueueInv'
  BY <1>1, <1>2 DEF InputInv, MatchedInv, QueueInv, inputs, matching, result
<1>8. Kept' = Kept /\ Sidecar' = Sidecar
  BY <1>1 DEF Kept, Sidecar, Diverted, result
<1>9. DiskInv'
  <2>1. exit = "none"
    BY <1>2 DEF DiskInv, Running
  <2>2. CASE Translate
    BY <2>1, <2>2 DEF Translate, DiskInv, Done, Running
  <2>3. CASE WriteOutput
    BY <1>8, <2>1, <2>3 DEF WriteOutput, DiskInv, Done, Running, Whole
  <2>4. CASE WriteSidecar
    BY <1>8, <2>1, <2>4 DEF WriteSidecar, DiskInv, Done, Running, Whole
  <2>5. CASE Crash
    BY <2>1, <2>5 DEF Crash, DiskInv, Done, Running
  <2>. QED BY <2>2, <2>3, <2>4, <2>5
<1>. QED BY <1>1, <1>6, <1>7, <1>9 DEF result

\* A run starts with nothing matched, and with the files as they are.
LEMMA LaunchStep ==
  ASSUME RInv, Launch
  PROVE  RInv' /\ pc \notin Running
<1>. USE DEF RInv
<1>1. /\ DOMAIN digest' = Resources /\ \A r \in Resources : IsResource(digest'[r])
  BY UncheckedDigest DEF Launch
<1>2. /\ filled' = Nothing /\ dropped' = Nothing /\ composed' = Nothing
      /\ pending' = {} /\ queue' = {} /\ pc' = "map" /\ exit' = "none"
      /\ UNCHANGED <<file, moduleMap, resourceMap, disk, faults>>
      /\ toMap' = DOMAIN resourceMap /\ toPair' = DOMAIN moduleMap
      /\ module' = Root /\ used' = {} /\ guessed' = {} /\ pc \in Ended
  BY DEF Launch, Reset
<1>3. TypeOK'
  BY <1>1, <1>2 DEF TypeOK, Running, disk, Nothing
<1>4. InputInv' /\ MatchedInv' /\ QueueInv' /\ DiskInv'
  BY <1>1, <1>2 DEF InputInv, MatchedInv, QueueInv, DiskInv, Done, Nothing
<1>. QED BY <1>2, <1>3, <1>4 DEF Ended, Running

\* Every reachable state satisfies the invariant.
THEOREM RInvHolds == Spec => []RInv
<1>1. Init => RInv
  BY ResolveAssumption DEF Init, RInv, TypeOK, InputInv, MatchedInv, QueueInv, DiskInv,
     Done, Ended, Running, Nothing, Absent
<1>2. RInv /\ [Next]_vars => RInv'
  <2>. SUFFICES ASSUME RInv, [Next]_vars PROVE RInv'
    OBVIOUS
  <2>1. CASE UNCHANGED vars
    BY <2>1 DEF vars, inputs, matching, result, disk, RInv, TypeOK, InputInv, MatchedInv,
       QueueInv, DiskInv, Done, Kept, Sidecar, Diverted
  <2>. QED BY <2>1, LaunchStep, MapResourceStep, MatchStep, PhaseStep, FinishStep DEF Next
<1>. QED BY <1>1, <1>2, PTL DEF Spec

-----------------------------------------------------------------------------
(* The theorems.                                                           *)

\* Every reachable state of "resolve tf" is well typed.
THEOREM TypeCorrect == Spec => []TypeOK
BY RInvHolds, PTL DEF RInv

\* After a run that succeeds, the import file and the sidecar share the
\* entries out by whether their resource can be imported, whatever earlier
\* runs, failed writes and kills left in the two files.
THEOREM FilesPartitionEntries == Spec => []FilesPartition
<1>1. RInv => FilesPartition
  <2>. SUFFICES ASSUME RInv, Done PROVE FilesPartition
    BY DEF FilesPartition
  <2>1. /\ out.state = "whole" /\ out.holds = Kept
        /\ sidecar.state \in {"whole", "absent"} /\ sidecar.holds = Diverted
    BY DEF RInv, DiskInv, Sidecar, Whole, Absent
  <2>2. \A e \in Entries : e \notin Kept =>
          \E r \in Resources : digest[r].flagged /\ <<e, r>> \in Diverted
    <3>. SUFFICES ASSUME NEW e \in Entries, e \notin Kept
                  PROVE  dropped[e] \in Resources /\ digest[dropped[e]].flagged
                         /\ <<e, dropped[e]>> \in Diverted
      OBVIOUS
    <3>. QED BY DEF RInv, TypeOK, MatchedInv, Kept, Diverted
  <2>3. \A e \in Kept : \A r \in Resources : <<e, r>> \notin Diverted
    BY DEF Diverted
  <2>4. \A e \in Kept : filled[e] # None => ~digest[filled[e]].flagged
    BY DEF RInv, MatchedInv, Kept
  <2>. QED BY <2>1, <2>2, <2>3, <2>4 DEF FilesPartition
<1>. QED BY RInvHolds, <1>1, PTL

\* No phase revises a match that an earlier phase, or a turn of the same, made.
THEOREM MatchesAreFinal == Spec => FirstMappingWins
<1>. DEFINE A == \A e \in Entries : pc \in Running /\ Got(e) # None =>
                   filled'[e] = filled[e] /\ dropped'[e] = dropped[e]
<1>1. RInv /\ [Next]_vars => [A]_vars
  <2>. SUFFICES ASSUME RInv, Next PROVE A
    OBVIOUS
  <2>1. CASE Launch
    BY <2>1, LaunchStep
  <2>2. CASE MapResource \/ Match
    BY <2>2, MapResourceStep, MatchStep DEF Keeps
  <2>3. CASE Group \/ Pair \/ PairRoot \/ Matched
    BY <2>3, PhaseStep
  <2>4. CASE Translate \/ WriteOutput \/ WriteSidecar \/ Crash
    BY <2>4, FinishStep
  <2>. QED BY <2>1, <2>2, <2>3, <2>4 DEF Next
<1>. QED BY RInvHolds, <1>1, PTL DEF Spec, FirstMappingWins

-----------------------------------------------------------------------------
(* Sharing of resources.                                                   *)

\* Of the resources given out by name or type: the module of each is done
\* with or the current one, and then the resource is used.
SharedInv ==
  /\ pc = "match" => module \notin toPair
  /\ pc = "match" /\ module = Root => toPair = {}
  /\ \A e \in Entries : Got(e) # None /\ ~ByMapping(e) =>
       /\ pc # "map"
       /\ pc \in {"pair", "match"} => digest[Got(e)].module \notin toPair
       /\ pc = "pair" => digest[Got(e)].module # Root
       /\ pc = "match" /\ module # Root => digest[Got(e)].module # Root
       /\ pc = "match" /\ digest[Got(e)].module = module => Got(e) \in used

\* A step other than a match leaves who got what as it is.
LEMMA SharingKept ==
  ASSUME UNCHANGED inputs, UNCHANGED <<filled, dropped>>
  PROVE  /\ \A e \in Entries : Got(e)' = Got(e) /\ ByMapping(e)' = ByMapping(e)
         /\ SharedOnlyByMapping' = SharedOnlyByMapping
BY DEF Got, ByMapping, Named, SharedOnlyByMapping, inputs

\* Matching takes no resource that an earlier match has taken.
LEMMA MatchShares ==
  ASSUME RInv, SharedInv, SharedOnlyByMapping, Match
  PROVE  SharedInv' /\ SharedOnlyByMapping'
<1>1. /\ pc = "match" /\ queue # {}
      /\ UNCHANGED <<inputs, pc, toMap, toPair, module>>
  BY DEF Match
<1>2. PICK e \in Entries : e \in queue /\ e = First(queue)
  <2>1. queue \subseteq Nat /\ queue \subseteq Entries
    BY ResolveAssumption DEF RInv, TypeOK, Entries
  <2>. QED BY <1>1, <2>1, FirstIsMember
<1>3. filled[e] = None /\ dropped[e] = None
  BY <1>1, <1>2 DEF RInv, QueueInv
<1>4. CASE UNCHANGED <<used, result>>
  BY <1>1, <1>4, SharingKept DEF SharedInv, result, inputs
<1>5. ASSUME NEW r \in Resources \ used, Use(e, r), digest[r].module = module
      PROVE  SharedInv' /\ SharedOnlyByMapping'
  <2>1. Assign(e, r) /\ used' = used \cup {r}
    BY <1>5 DEF Use
  <2>2. UNCHANGED digest
    BY <1>1 DEF inputs
  <2>3. /\ \A d \in Entries \ {e} : filled'[d] = filled[d] /\ dropped'[d] = dropped[d]
        /\ \/ filled'[e] = r /\ dropped'[e] = None
           \/ filled'[e] = None /\ dropped'[e] = r
    BY <1>2, <1>3, <1>5, <2>1, <2>2, AssignEffect DEF RInv
  <2>4. Got(e)' = r /\ \A d \in Entries \ {e} : Got(d)' = Got(d)
    BY <2>3 DEF Got
  <2>5. \A d \in Entries \ {e} : ByMapping(d)' = ByMapping(d)
    BY <1>1, <2>4 DEF ByMapping, Named, inputs
  <2>6. SharedInv'
    BY <1>1, <1>5, <2>1, <2>2, <2>4, <2>5 DEF SharedInv
  <2>7. \A d \in Entries \ {e} : Got(d) = r => ByMapping(d)
    <3>. SUFFICES ASSUME NEW d \in Entries \ {e}, Got(d) = r, ~ByMapping(d) PROVE FALSE
      OBVIOUS
    <3>1. Got(d) # None
      BY DEF Resources, None
    <3>. QED BY <1>1, <1>5, <3>1 DEF SharedInv
  <2>8. SharedOnlyByMapping'
    BY <1>2, <2>4, <2>5, <2>7 DEF SharedOnlyByMapping
  <2>. QED BY <2>6, <2>8
<1>6. CASE HasExact(e) /\ Use(e, Last(Exact(e)))
  <2>1. Last(Exact(e)) \in Resources \ used /\ digest[Last(Exact(e))].module = module
    BY <1>6, CandidateIsMember DEF Exact, Members
  <2>. QED BY <1>5, <1>6, <2>1
<1>7. CASE Cardinality(Free(e)) = 1 /\ Use(e, Last(Free(e)))
  <2>1. Last(Free(e)) \in Resources \ used /\ digest[Last(Free(e))].module = module
    BY <1>7, CandidateIsMember DEF Free, Members
  <2>. QED BY <1>5, <1>7, <2>1
<1>. QED BY <1>2, <1>4, <1>6, <1>7 DEF Match

\* What phase 1 gives out is given out by a mapping.
LEMMA MapResourceShares ==
  ASSUME RInv, SharedInv, SharedOnlyByMapping, MapResource
  PROVE  SharedInv' /\ SharedOnlyByMapping'
<1>1. PICK r \in toMap :
        LET found == Named(resourceMap[r]) IN
        IF found # {} /\ Id(Last(found)) = Placeholder
        THEN Assign(Last(found), r)
        ELSE UNCHANGED <<filled, dropped>>
  BY DEF MapResource
<1>2. UNCHANGED inputs /\ pc = "map" /\ pc' = "map"
  BY DEF MapResource
<1>3. r \in Resources /\ r \in DOMAIN resourceMap
  BY ResolveAssumption DEF RInv, TypeOK, InputInv
<1>4. CASE UNCHANGED <<filled, dropped>>
  BY <1>2, <1>4, SharingKept DEF SharedInv
<1>5. CASE /\ Named(resourceMap[r]) # {} /\ Id(Last(Named(resourceMap[r]))) = Placeholder
           /\ Assign(Last(Named(resourceMap[r])), r)
  <2>1. PICK e \in Entries : e = Last(Named(resourceMap[r])) /\ e \in Named(resourceMap[r])
    BY <1>5, NamedIsEntry
  <2>2. filled[e] = None
    BY <1>5, <2>1, PlaceholderIsUnfilled DEF RInv
  <2>3. UNCHANGED digest /\ Assign(e, r)
    BY <1>2, <1>5, <2>1 DEF inputs
  <2>4. \A d \in Entries \ {e} : filled'[d] = filled[d] /\ dropped'[d] = dropped[d]
    BY <1>3, <2>1, <2>2, <2>3, AssignEffect DEF RInv
  <2>5. \A d \in Entries : Got(d) # None => ByMapping(d)
    BY <1>2 DEF SharedInv
  <2>6. Got(e)' = r \/ (Got(e)' = Got(e) /\ Got(e) # None)
    <3>1. CASE dropped[e] # None
      BY <1>3, <2>1, <2>2, <2>3, <3>1, AssignEffect DEF RInv, Got
    <3>2. CASE dropped[e] = None
      BY <1>3, <2>1, <2>2, <2>3, <3>2, AssignEffect DEF RInv, Got
    <3>. QED BY <3>1, <3>2
  <2>7. \A d \in Entries : Got(d)' # None => ByMapping(d)'
    <3>1. ByMapping(e)'
      BY <1>2, <1>3, <2>1, <2>5, <2>6 DEF ByMapping, Named, inputs
    <3>2. ASSUME NEW d \in Entries \ {e}, Got(d)' # None PROVE ByMapping(d)'
      BY <1>2, <2>4, <2>5, <3>2 DEF ByMapping, Named, Got, inputs
    <3>. QED BY <3>1, <3>2
  <2>. QED BY <1>2, <2>7 DEF SharedInv, SharedOnlyByMapping
<1>. QED BY <1>1, <1>4, <1>5

\* The other steps give nothing out.
LEMMA OthersShare ==
  ASSUME RInv, SharedInv, SharedOnlyByMapping, Next, ~Match, ~MapResource
  PROVE  SharedInv' /\ SharedOnlyByMapping'
<1>1. CASE Launch
  BY <1>1, LaunchStep DEF Launch, Reset, Nothing, SharedInv, SharedOnlyByMapping, Got
<1>2. CASE Group
  BY <1>2, SharingKept DEF Group, SharedInv, inputs, result
<1>3. CASE Pair
  <2>1. UNCHANGED inputs /\ UNCHANGED <<filled, dropped>> /\ pc = "pair"
    BY <1>3 DEF Pair, result
  <2>2. PICK m \in toPair :
          /\ toPair' = toPair \ {m}
          /\ \/ module' = m /\ used' = {} /\ pc' = "match"
             \/ UNCHANGED <<module, used, pc>>
    BY <1>3 DEF Pair
  <2>3. m # Root
    BY ResolveAssumption DEF RInv, TypeOK, InputInv
  <2>. QED BY <2>1, <2>2, <2>3, SharingKept DEF SharedInv, inputs
<1>4. CASE PairRoot
  <2>1. UNCHANGED inputs /\ UNCHANGED <<filled, dropped>> /\ pc = "pair"
    BY <1>4 DEF PairRoot, result
  <2>2. /\ toPair = {} /\ toPair' = {} /\ module' = Root /\ used' = {}
        /\ pc' \in {"match", "translate"}
    BY <1>4 DEF PairRoot
  <2>. QED BY <2>1, <2>2, SharingKept DEF SharedInv, inputs
<1>5. CASE Matched
  BY <1>5, SharingKept DEF Matched, SharedInv, inputs, result, matching
<1>6. CASE Translate \/ WriteOutput \/ WriteSidecar \/ Crash
  <2>1. /\ UNCHANGED inputs /\ UNCHANGED <<filled, dropped>>
        /\ pc' \in {"write", "sidecar", "ended", "crashed"}
    BY <1>6 DEF Translate, WriteOutput, WriteSidecar, Crash, result
  <2>. QED BY <2>1, SharingKept DEF SharedInv, inputs
<1>. QED BY <1>1, <1>2, <1>3, <1>4, <1>5, <1>6 DEF Next

\* Matching by name and by type never gives a resource to a second entry.
THEOREM SharingIsExplicit == Spec => []SharedOnlyByMapping
<1>1. Init => SharedInv /\ SharedOnlyByMapping
  BY DEF Init, Nothing, SharedInv, SharedOnlyByMapping, Got
<1>2. RInv /\ SharedInv /\ SharedOnlyByMapping /\ [Next]_vars => SharedInv' /\ SharedOnlyByMapping'
  <2>. SUFFICES ASSUME RInv, SharedInv, SharedOnlyByMapping, [Next]_vars
                PROVE  SharedInv' /\ SharedOnlyByMapping'
    OBVIOUS
  <2>1. CASE UNCHANGED vars
    BY <2>1, SharingKept DEF vars, matching, result, SharedInv, inputs
  <2>. QED BY <2>1, MatchShares, MapResourceShares, OthersShare
<1>. QED BY RInvHolds, <1>1, <1>2, PTL DEF Spec

-----------------------------------------------------------------------------
(* Composition of IDs.                                                     *)

\* Nothing is composed before translation.
ComposedInv == pc \in {"map", "pair", "match", "translate"} => composed = Nothing

\* Translation composes an entry's ID from the resource it was filled from:
\* that resource owns the ID, so where one resource owns it they are the same.
LEMMA TranslateComposes ==
  ASSUME RInv, Translate, UNCHANGED filled, ComposedFromOwn
  PROVE  ComposedFromOwn'
<1>1. CASE UNCHANGED composed
  BY <1>1 DEF ComposedFromOwn
<1>2. CASE composed' = [e \in Entries |->
                          IF e \in Kept /\ Known(Id(e)) /\ Last(Owners(Id(e))) \in Composable
                          THEN Last(Owners(Id(e))) ELSE None]
  <2>. SUFFICES ASSUME NEW e \in Entries, composed'[e] # None, filled[e] # None
                PROVE  composed'[e] = filled[e]
    BY DEF ComposedFromOwn
  <2>1. Known(Id(e)) /\ composed'[e] = Last(Owners(Id(e)))
    BY <1>2
  <2>2. filled[e] \in Owners(Id(e))
    BY DEF Owners, Id, RInv, TypeOK
  <2>3. PICK r : Owners(Id(e)) = {r}
    <3>1. IsFiniteSet(Owners(Id(e)))
      <4>1. IsFiniteSet(1..M)
        BY FS_Interval, ResolveAssumption
      <4>2. Owners(Id(e)) \in SUBSET (1..M)
        BY DEF Owners, Resources
      <4>. QED BY <4>1, <4>2, FS_Subset
    <3>. QED BY <2>1, <3>1, FS_Singleton DEF Known
  <2>4. Last(Owners(Id(e))) \in Owners(Id(e))
    <3>1. Owners(Id(e)) \subseteq 1..M
      BY DEF Owners, Resources
    <3>. QED BY <2>2, <3>1, LastIsMember, ResolveAssumption
  <2>. QED BY <2>1, <2>2, <2>3, <2>4
<1>. QED BY <1>1, <1>2 DEF Translate

\* An import ID is composed from the attributes of the entry's own resource.
THEOREM CompositionIsOwn == Spec => []ComposedFromOwn
<1>1. Init => ComposedInv /\ ComposedFromOwn
  BY DEF Init, ComposedInv, ComposedFromOwn, Nothing
<1>2. RInv /\ ComposedInv /\ ComposedFromOwn /\ [Next]_vars => ComposedInv' /\ ComposedFromOwn'
  <2>. SUFFICES ASSUME RInv, ComposedInv, ComposedFromOwn, [Next]_vars
                PROVE  ComposedInv' /\ ComposedFromOwn'
    OBVIOUS
  <2>1. CASE UNCHANGED vars
    BY <2>1 DEF vars, result, ComposedInv, ComposedFromOwn
  <2>2. CASE Launch
    BY <2>2 DEF Launch, Reset, Nothing, ComposedInv, ComposedFromOwn
  <2>3. CASE MapResource \/ Match \/ Group \/ Pair \/ PairRoot \/ Matched
    <3>1. UNCHANGED composed /\ pc \in {"map", "pair", "match"}
      BY <2>3 DEF MapResource, Match, Group, Pair, PairRoot, Matched
    <3>. QED BY <3>1 DEF ComposedInv, ComposedFromOwn, Nothing
  <2>4. CASE Translate
    <3>1. pc' \in {"write", "ended"} /\ UNCHANGED filled
      BY <2>4 DEF Translate, result
    <3>. QED BY <2>4, <3>1, TranslateComposes DEF ComposedInv
  <2>5. CASE WriteOutput \/ WriteSidecar \/ Crash
    BY <2>5 DEF WriteOutput, WriteSidecar, Crash, result, ComposedInv, ComposedFromOwn
  <2>. QED BY <2>1, <2>2, <2>3, <2>4, <2>5 DEF Next
<1>. QED BY RInvHolds, <1>1, <1>2, PTL DEF Spec

=============================================================================
