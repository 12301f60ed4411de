------------------------------- MODULE NameMap -------------------------------
(***************************************************************************)
(* BuildDigestNameMap: which digest resource the values of a state resource *)
(* come from.  The state's resources are known by their names alone.  The   *)
(* phases run one after the other, but inside a module the passes are made  *)
(* per child, in the order of a Go map: a child that is reached early may   *)
(* take, by elimination, the candidate that a later child names.            *)
(***************************************************************************)
EXTENDS Naturals, FiniteSets

CONSTANTS
  Res,      \* positions of the custom resources in the exported state
  Dig,      \* managed resources of the digest
  Root,     \* the parent of a resource outside every component
  NoDig,    \* no digest resource
  Inputs    \* what the runs may be given; see NameMapAssumption

\* A name is what the URN ends with, a suffix what is left of it after the
\* parent's prefix.  An address is unique, so in a module a type and a Terraform
\* name are; the key of an instance is not.
ASSUME NameMapAssumption ==
  /\ Res \subseteq Nat \ {0} /\ IsFiniteSet(Res)
  /\ IsFiniteSet(Dig) /\ NoDig \notin Dig
  /\ \A w \in Inputs :
       /\ DOMAIN w.state = Res /\ DOMAIN w.digest = Dig
       /\ \A g \in DOMAIN w.module : w.module[g] # Root
       /\ ({Root} \cup DOMAIN w.module) \cap {"explicit", "downloaded", "next", "mapped", "failed"} = {}
       /\ Root \notin DOMAIN w.module
       /\ \A d, e \in Dig :
            /\ w.digest[d].module = w.digest[e].module
            /\ w.digest[d].type = w.digest[e].type
            /\ w.digest[d].name = w.digest[e].name
            => d = e
       /\ w.explicit \in [DOMAIN w.explicit -> {w.state[i].name : i \in Res}]
       /\ DOMAIN w.explicit \subseteq Dig

VARIABLES
  in,       \* the state, the digest and the mapping files
  nameMap,  \* result: the digest resource of a name, or NoDig
  phase,    \* "explicit", then a module path or Root, then "mapped"
  groups,   \* the module paths that are still to be visited
  left,     \* the names still to be matched in this group
  used      \* the digest resources this group has given away

mapVars == <<nameMap, phase, groups, left, used>>

Names == {in.state[i].name : i \in Res}

\* stateInfos: of the resources with one name, the last in the state.
Info(n) == in.state[CHOOSE i \in Res :
  in.state[i].name = n /\ \A j \in Res : in.state[j].name = n => j <= i]

\* The names under a component, or outside every component.
Under(parent) == {n \in Names : Info(n).parent = parent}

\* The digest resources a group may still give to a name.
Candidates_mutant(n, group) == {d \in Dig :
  in.digest[d].module = group /\ in.digest[d].type = Info(n).type}
Candidates_untyped(n, group) == {d \in Dig : in.digest[d].module = group /\ d \notin used}
Candidates(n, group) == {d \in Dig :
  /\ in.digest[d].module = group
  /\ in.digest[d].type = Info(n).type
  /\ d \notin used}

\* Exact name, then the bare instance key (not at the root), then the only one.
Choices(n, group) ==
  LET candidates == Candidates(n, group)
      exact == {d \in candidates : in.digest[d].name = Info(n).suffix}
      normalized == {d \in candidates : in.digest[d].key = Info(n).suffix}
  IN IF exact # {} THEN exact
     ELSE IF group # Root /\ normalized # {} THEN normalized
     ELSE IF Cardinality(candidates) = 1 THEN candidates
     ELSE {}

-----------------------------------------------------------------------------

MapStart ==
  /\ nameMap = [n \in Names |-> NoDig]
  /\ phase = "explicit"
  /\ groups = DOMAIN in.module
  /\ left = {} /\ used = {}

\* Resource mappings.  Two that name one resource: the last one visited stays.
MapExplicit ==
  /\ phase = "explicit"
  /\ nameMap' \in {m \in [Names -> Dig \cup {NoDig}] :
       \A n \in Names :
         LET given == {d \in DOMAIN in.explicit : in.explicit[d] = n}
         IN IF given = {} THEN m[n] = NoDig ELSE m[n] \in given}
  /\ phase' = "next"
  /\ UNCHANGED <<in, groups, left, used>>

\* The next module of the mapping, in any order, and the root after them.
MapGroup ==
  /\ phase = "next"
  /\ \/ \E g \in groups :
          /\ phase' = g /\ groups' = groups \ {g}
          /\ left' = Under(in.module[g])
     \/ groups = {} /\ phase' = Root /\ left' = Under(Root) /\ UNCHANGED groups
  /\ used' = {}
  /\ UNCHANGED <<in, nameMap>>

\* One child, in any order.  A name that has its digest resource keeps it.
MapChild ==
  /\ phase \in DOMAIN in.module \cup {Root}
  /\ \E n \in left :
       /\ left' = left \ {n}
       /\ IF nameMap[n] # NoDig \/ Choices(n, phase) = {}
          THEN UNCHANGED <<nameMap, used>>
          ELSE \E d \in Choices(n, phase) :
                 /\ nameMap' = [nameMap EXCEPT ![n] = d]
                 /\ used' = used \cup {d}
  /\ UNCHANGED <<in, phase, groups>>

MapGroupEnd ==
  /\ phase \in DOMAIN in.module \cup {Root} /\ left = {}
  /\ phase' = IF phase = Root THEN "mapped" ELSE "next"
  /\ UNCHANGED <<in, nameMap, groups, left, used>>

\* patch-state cfn: the map is made from the digest alone, by logical ID, and a
\* name is looked up by what follows its last dash.  No type is compared.
MapByLogicalID ==
  /\ nameMap' = [n \in Names |->
       IF \E d \in Dig : in.digest[d].name = Info(n).suffix
       THEN CHOOSE d \in Dig : in.digest[d].name = Info(n).suffix
       ELSE NoDig]
  /\ phase' = "mapped"
  /\ UNCHANGED <<in, groups, left, used>>

MapStep == MapExplicit \/ MapGroup \/ MapChild \/ MapGroupEnd

-----------------------------------------------------------------------------
(* Properties.                                                             *)

MapTypeOK ==
  /\ nameMap \in [Names -> Dig \cup {NoDig}]
  /\ phase \in {"explicit", "downloaded", "next", "mapped", "failed", Root} \cup DOMAIN in.module
  /\ groups \subseteq DOMAIN in.module
  /\ left \subseteq Names
  /\ used \subseteq Dig

\* A digest resource is given to two names only when a mapping file names one
\* of them: the guesses never hand one out twice.  (patch-state cfn gives one to
\* every name that ends in its logical ID.)
GivenOnce ==
  ~in.cfn => \A m, n \in Names :
    nameMap[m] = nameMap[n] /\ nameMap[m] # NoDig /\ m # n
    => nameMap[m] \in DOMAIN in.explicit

\* Unless a mapping file says so, what a name is given has the type of the
\* resource that the map knows by that name.
GivenItsType ==
  ~in.cfn => \A n \in Names :
    nameMap[n] # NoDig /\ (nameMap[n] \notin DOMAIN in.explicit \/ in.explicit[nameMap[n]] # n)
    => in.digest[nameMap[n]].type = Info(n).type
=============================================================================
