------------------------------ MODULE StatePatch ------------------------------
(***************************************************************************)
(* PatchState and PatchStateFromCFN: the name map is made, then every custom *)
(* resource that the fields file lists is patched in place, field by field  *)
(* in the order of a Go map, validated against its raw-state delta and put  *)
(* back when the delta no longer recovers.  A run may be followed by another *)
(* on the state it left, as after a kill or an import that was refused.      *)
(***************************************************************************)
EXTENDS NameMap

CONSTANTS
  Field,     \* the fields of the fields file
  Reruns     \* bound: how many runs follow the first

\* What a field holds: nothing (null or empty text), two simple values of which
\* one is falsy, a collection, an empty one, secret envelopes, an asset, and the
\* path that Terraform has for an asset.  In a digest also the redacted form.
Simple == {"x", "off", "path"}
Enveloped == {"secret(x)", "secret()", "asset"}
StateValues == {"nil", "list", "[]"} \cup Simple \cup Enveloped
DigestValues == {"nil", "x", "off", "list", "[]", "path", "(sensitive)"}

ASSUME StatePatchAssumption ==
  /\ Reruns \in Nat
  /\ IsFiniteSet(Field)
  /\ \A w \in Inputs :
       /\ w.cfn \in BOOLEAN
       /\ w.byFull \in [DOMAIN w.byFull -> SUBSET Field]
       /\ w.byShort \in [DOMAIN w.byShort -> SUBSET Field]
       /\ w.default \in [Field -> {"nil", "x", "off"}]
       /\ w.assets \subseteq Field
       /\ w.secrets \subseteq Dig \X Field
       /\ w.artifacts \subseteq Dig \X Field
       /\ \A i \in Res :
            /\ w.state[i].inputs \in [Field -> StateValues]
            /\ w.state[i].outputs \in [Field -> StateValues]
            /\ w.state[i].version \in Nat
            /\ w.state[i].delta \in BOOLEAN
            /\ w.state[i].refuses \subseteq Field
       /\ w.suppression \in Nat
       /\ \A d \in Dig : w.digest[d].attributes \in [Field -> DigestValues]

VARIABLES
  inputs,    \* of each resource, as patched so far
  outputs,
  deltas,    \* the asset entries in a resource's raw-state delta
  at,        \* the resources that are still to be visited
  current,   \* the resource being patched, or 0
  todo,      \* its fields that are still to be visited
  patched,   \* res.patched: an input of it has been filled
  assets,    \* res.patchedAssetFields
  snapshot,  \* inputs and outputs before it was patched, the delta copied
  verdict,   \* what the result counts each resource as
  fetched,   \* the asset files that are there for sure in this run
  runs,      \* runs begun
  received,  \* history: inputs, outputs and deltas that this run was given
  last       \* history: the name map and the verdicts of the run received this one

resourceVars == <<inputs, outputs, deltas>>
fieldVars == <<current, todo, patched, assets, snapshot>>
history == <<runs, received, last>>
patcherVars == <<in, mapVars, resourceVars, at, fieldVars, verdict, fetched, history>>

-----------------------------------------------------------------------------
(* The helpers of a resource and of a field.                               *)

\* A full type token in the fields file matches that type only; a key that was
\* written short matches every type that ends so.
ListedFields(i) ==
  LET s == in.state[i]
  IN IF s.type \in DOMAIN in.byFull THEN in.byFull[s.type]
     ELSE IF s.short \in DOMAIN in.byShort THEN in.byShort[s.short]
     ELSE {}

\* The provider is new enough to leave falsy defaults out.  Version 0 stands
\* for one that is missing or malformed, suppression 0 for a package not listed.
SuppressesFalsy(i) ==
  in.suppression # 0 /\ in.state[i].version # 0 /\ in.state[i].version >= in.suppression

Suppressed(i, f) == SuppressesFalsy(i) /\ in.default[f] = "off"

Default(i, f) == IF Suppressed(i, f) THEN "nil" ELSE in.default[f]

Empty(v) == v \in {"nil", "[]"}

Raw(d, f) == IF d = NoDig THEN "nil" ELSE in.digest[d].attributes[f]

\* buildAssetSentinel: an asset for the path of a file that is found.
BuildsAsset(d, f, found) == Raw(d, f) = "path" /\ f \in in.assets /\ found

\* The digest's value in the form the state takes it: an asset field whose file
\* is found, or downloaded, becomes an asset and otherwise stays the path; a
\* redacted value becomes a secret when the stack's config has one.
Resolved(d, f, found) ==
  LET raw == Raw(d, f)
  IN IF BuildsAsset(d, f, found) THEN "asset"
     ELSE IF raw = "(sensitive)" THEN IF <<d, f>> \in in.secrets THEN "secret(x)" ELSE "nil"
     ELSE raw

Unwrap(v) == IF v = "secret(x)" THEN "x" ELSE v

\* An existing value that is the wrong shape for an enveloped one.
BadShape_mutant(v, new) == new \in Enveloped /\ v # "nil"
BadShape(v, new) ==
  \/ new \in Enveloped /\ v # "nil" /\ v \notin Enveloped
  \/ new = "asset" /\ v # "nil" /\ v # "asset"

\* What the input of a field is filled with, or "nil" when it is left alone.
\* An unresolved secret is not replaced by the default, nor is a digest value
\* used that only repeats a suppressed default.
Filling(i, f, new) ==
  IF ~(Empty(inputs[i][f]) \/ BadShape(inputs[i][f], new)) THEN "nil"
  ELSE IF new # "nil" THEN IF Suppressed(i, f) /\ new = in.default[f] THEN "nil" ELSE new
  ELSE IF Raw(nameMap[in.state[i].name], f) = "(sensitive)" THEN "nil"
  ELSE Default(i, f)

\* The output of a field after its visit; a stale one is replaced only once
\* some input of the resource, of this field or an earlier one, was filled.
NewOutput(i, f, new, isPatched) ==
  LET old == outputs[i][f]
      stale == isPatched /\ new # "nil" /\ ~Empty(old) /\ old # new
      write == IF new # "nil" THEN new ELSE Default(i, f)
      raw == Unwrap(write)
  IN IF /\ \/ Empty(old)
           \/ new \in Enveloped /\ old # "nil" /\ old \notin Enveloped
           \/ new \in Enveloped /\ old = "secret()"
           \/ stale
        /\ raw \in Simple \cup {"asset"}
     THEN raw ELSE old

\* Whether the file of an asset may be found: in Terraform's case one that is
\* not there is the code of a function, and downloading it may fail.
MayBeFound(d, f) ==
  IF <<d, f>> \in fetched THEN {TRUE} ELSE IF in.cfn THEN {FALSE} ELSE BOOLEAN

\* injectAssetDeltas: a delta gets an entry for every asset that was filled in.
WithAssets(i) == IF in.state[i].delta THEN deltas[i] \cup assets ELSE deltas[i]

\* The bridge's Recover: an asset needs its entry, and a delta may have no room
\* for a value that was not there when it was computed.
Recovers(i, entries) ==
  /\ \A f \in Field : outputs[i][f] = "asset" => f \in entries
  /\ \A f \in in.state[i].refuses : outputs[i][f] = in.state[i].outputs[f]

\* What the result counts a resource as.  (A reverted one without a digest
\* resource is a "no match" too.)
Verdict(i, failed) ==
  IF failed THEN "reverted"
  ELSE IF patched THEN "patched"
  ELSE IF nameMap[in.state[i].name] = NoDig THEN "no match"
  ELSE "unchanged"

\* What a failed validation puts back.  The asset entries went into the map
\* that the live outputs hold, so the snapshot has a copy of that map.
PutBack_mutant(i, entries) == [snapshot EXCEPT !.delta = entries]
PutBack(i, entries) == snapshot

-----------------------------------------------------------------------------

NoSnapshot == [inputs |-> [f \in Field |-> "nil"], outputs |-> [f \in Field |-> "nil"], delta |-> {}]
Contents == [inputs |-> inputs, outputs |-> outputs, deltas |-> deltas]

PatcherInit ==
  /\ in \in Inputs
  /\ MapStart
  /\ inputs = [i \in Res |-> in.state[i].inputs]
  /\ outputs = [i \in Res |-> in.state[i].outputs]
  /\ deltas = [i \in Res |-> {f \in Field : in.state[i].outputs[f] = "asset"}]
  /\ at = Res
  /\ current = 0 /\ todo = {} /\ patched = FALSE /\ assets = {}
  /\ snapshot = NoSnapshot
  /\ verdict = [i \in Res |-> "unvisited"]
  /\ fetched = IF in.cfn THEN {} ELSE in.artifacts
  /\ runs = 1 /\ received = Contents /\ last = [map |-> nameMap, verdict |-> verdict]

\* The functions whose code patch-state cfn downloads: those of the digest that
\* the state has.
Downloads ==
  {code \in Dig \X in.assets :
     LET d == code[1]
     IN /\ Raw(d, code[2]) = "path"
        /\ \E i \in Res : in.state[i].suffix = in.digest[d].name /\ in.state[i].type = in.digest[d].type}

\* They are downloaded before anything is patched.  An error ends the command
\* with nothing written; an answer that is no archive is saved as one.
Download ==
  /\ in.cfn /\ phase = "explicit"
  /\ \/ \E good \in SUBSET Downloads :
          /\ Downloads \cap in.artifacts \subseteq good
          /\ fetched' = good /\ phase' = "downloaded"
     \/ Downloads # {} /\ phase' = "failed" /\ UNCHANGED fetched
  /\ UNCHANGED <<in, nameMap, groups, left, used, resourceVars, at, fieldVars, verdict, history>>

Map ==
  /\ IF in.cfn THEN phase = "downloaded" /\ MapByLogicalID ELSE MapStep
  /\ UNCHANGED <<resourceVars, at, fieldVars, verdict, fetched, history>>

\* The next resource of the state; one that the fields file does not list is
\* only counted.
Visit ==
  /\ phase = "mapped" /\ current = 0 /\ at # {}
  /\ LET i == CHOOSE i \in at : \A j \in at : i <= j
     IN /\ at' = at \ {i}
        /\ IF ListedFields(i) = {}
           THEN /\ verdict' = [verdict EXCEPT ![i] = "no fields"]
                /\ UNCHANGED fieldVars
           ELSE /\ current' = i /\ todo' = ListedFields(i)
                /\ patched' = FALSE /\ assets' = {}
                /\ snapshot' = [inputs |-> inputs[i], outputs |-> outputs[i], delta |-> deltas[i]]
                /\ UNCHANGED verdict
  /\ UNCHANGED <<in, mapVars, resourceVars, fetched, history>>

\* One field.
PatchField ==
  /\ current # 0
  /\ \E f \in todo : \E found \in MayBeFound(nameMap[in.state[current].name], f) :
       LET i == current
           new == Resolved(nameMap[in.state[i].name], f, found)
           filling == Filling(i, f, new)
       IN /\ todo' = todo \ {f}
          /\ inputs' = IF filling = "nil" THEN inputs ELSE [inputs EXCEPT ![i][f] = filling]
          /\ patched' = (patched \/ filling # "nil")
          /\ assets' = IF filling = "asset" THEN assets \cup {f} ELSE assets
          /\ outputs' = [outputs EXCEPT ![i][f] = NewOutput(i, f, new, patched')]
  /\ UNCHANGED <<in, mapVars, deltas, at, current, snapshot, verdict, fetched, history>>

\* The asset entries go into the delta, and a resource with a filled input is
\* validated.
Validate ==
  /\ current # 0 /\ todo = {}
  /\ LET i == current
         entries == WithAssets(i)
         failed == in.state[i].delta /\ patched /\ ~Recovers(i, entries)
         back == PutBack(i, entries)
     IN /\ verdict' = [verdict EXCEPT ![i] = Verdict(i, failed)]
        /\ inputs' = IF failed THEN [inputs EXCEPT ![i] = back.inputs] ELSE inputs
        /\ outputs' = IF failed THEN [outputs EXCEPT ![i] = back.outputs] ELSE outputs
        /\ deltas' = [deltas EXCEPT ![i] = IF failed THEN back.delta ELSE entries]
  /\ current' = 0 /\ patched' = FALSE /\ assets' = {}
  /\ UNCHANGED <<in, mapVars, at, todo, snapshot, fetched, history>>

Done == phase = "failed" \/ (phase = "mapped" /\ current = 0 /\ at = {})

\* Another run, on the state that this one left.
Rerun ==
  /\ Done /\ runs <= Reruns
  /\ runs' = runs + 1
  /\ nameMap' = [n \in Names |-> NoDig]
  /\ phase' = "explicit" /\ groups' = DOMAIN in.module
  /\ left' = {} /\ used' = {}
  /\ at' = Res /\ verdict' = [i \in Res |-> "unvisited"]
  /\ received' = Contents
  /\ last' = [map |-> nameMap, verdict |-> verdict]
  /\ UNCHANGED <<in, resourceVars, fieldVars, fetched>>

PatcherNext == Download \/ Map \/ Visit \/ PatchField \/ Validate \/ Rerun

PatcherSpec == PatcherInit /\ [][PatcherNext]_patcherVars

-----------------------------------------------------------------------------
(* Properties.                                                             *)

PatcherTypeOK ==
  /\ MapTypeOK
  /\ inputs \in [Res -> [Field -> StateValues]]
  /\ outputs \in [Res -> [Field -> StateValues]]
  /\ deltas \in [Res -> SUBSET Field]
  /\ at \subseteq Res /\ current \in Res \cup {0}
  /\ todo \subseteq Field /\ assets \subseteq Field /\ patched \in BOOLEAN
  /\ verdict \in [Res -> {"unvisited", "no fields", "patched", "reverted", "no match", "unchanged"}]
  /\ fetched \subseteq Dig \X Field
  /\ runs \in 1..(Reruns + 1)

\* A resource whose delta no longer recovers is put back as a whole: inputs,
\* outputs and the delta are those that the run was given.
RevertedWhole ==
  \A i \in Res : verdict[i] = "reverted" =>
    /\ inputs[i] = received.inputs[i]
    /\ outputs[i] = received.outputs[i]
    /\ deltas[i] = received.deltas[i]

\* A second run over the state that the first one left changes nothing more, in
\* whatever order the fields are visited: unless the first did not come to the
\* resource, or reverted it, or it is given another digest resource, or has a file
\* that is fetched or an empty collection in the digest, which counts as a value
\* and not as filled.
RerunSettled ==
  \A i \in Res :
    LET n == in.state[i].name
        d == nameMap[n]
    IN /\ runs > 1 /\ phase = "mapped" /\ verdict[i] # "unvisited"
       /\ d = last.map[n] /\ last.verdict[i] \notin {"unvisited", "reverted"}
       /\ d # NoDig => \A f \in ListedFields(i) :
            /\ Raw(d, f) # "[]"
            /\ Raw(d, f) = "path" => <<d, f>> \in in.artifacts
       => /\ inputs[i] = received.inputs[i]
          /\ outputs[i] = received.outputs[i]
          /\ deltas[i] = received.deltas[i]

\* Values come from a digest resource of the resource's own type, unless a
\* mapping file says otherwise or another resource of the state has its name.
OwnTypeUnlessNamesake ==
  \A i \in Res :
    LET n == in.state[i].name
        d == nameMap[n]
    IN /\ ~in.cfn /\ verdict[i] = "patched" /\ d # NoDig
       /\ d \in DOMAIN in.explicit => in.explicit[d] # n
       /\ \A j \in Res : in.state[j].name = n => j = i
       => in.digest[d].type = in.state[i].type

\* "Exact type+name within a mapped module, ... exactly one unused candidate of
\* this type": values come from a digest resource of the resource's own type.
ValuesOfOwnType ==
  \A i \in Res :
    LET n == in.state[i].name
        d == nameMap[n]
    IN /\ ~in.cfn /\ verdict[i] = "patched" /\ d # NoDig
       /\ d \in DOMAIN in.explicit => in.explicit[d] # n
       => in.digest[d].type = in.state[i].type

\* "runs Recover over the patched outputs, and on failure reverts inputs and
\* outputs wholesale": what a run leaves in the outputs, the delta accounts for.
PatchedOutputsRecover ==
  \A i \in Res :
    in.state[i].delta /\ verdict[i] # "unvisited" /\ outputs[i] # received.outputs[i]
    => Recovers(i, deltas[i])
=============================================================================
