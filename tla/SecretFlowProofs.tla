---------------------------- MODULE SecretFlowProofs ----------------------------
(***************************************************************************)
(* Proofs about SecretFlow, for any attributes, marks, schemas and keys:   *)
(* what is in the files and what is injected; and, where no key of an      *)
(* attribute is taken by a variable or shared with a composite one, that   *)
(* what is injected is the attribute's own.                                *)
(***************************************************************************)
EXTENDS SecretFlow, TLAPS

\* Redaction is complete before anything is written.
LeakFree == pc = "write" => Leaks(state) = {}

\* Only keys with an entry are set.
EntriesInv == pc = "set" => entries \subseteq EntryKeys(state)

NoClear == NoClearSecret /\ LeakFree

-----------------------------------------------------------------------------
\* Values and placeholders are apart, and text does not hide one.
LEMMA ValueFacts ==
  /\ Null \in Values /\ Empty \in Values
  /\ \A v \in Values : /\ v.kind # "placeholder" /\ v # Placeholder
                       /\ Text(v) \in Values
                       /\ Text(v) \in {Null, Empty} => Text(v) = v
  /\ Placeholder.kind = "placeholder" /\ Masked.kind = "placeholder"
  /\ Unknown.kind = "placeholder" /\ Null.kind = "null"
<1>1. /\ Null \in Values /\ Empty \in Values
      /\ Placeholder.kind = "placeholder" /\ Masked.kind = "placeholder"
      /\ Unknown.kind = "placeholder" /\ Null.kind = "null"
  BY DEF Values, Null, Empty, Placeholder, Masked, Unknown, Value
<1>2. ASSUME NEW v \in Values
      PROVE  /\ v.kind # "placeholder" /\ v # Placeholder
             /\ Text(v) \in Values
             /\ Text(v) \in {Null, Empty} => Text(v) = v
  <2>1. CASE v \in AttrValues
    <3>1. PICK a \in Attrs, n \in 0..MaxApplies, k \in {"composite", "number", "text"} :
            v = [of |-> a, n |-> n, kind |-> k]
      BY <2>1 DEF AttrValues, Value
    <3>2. v.kind = k /\ v.kind # "placeholder" /\ v # Placeholder
      BY <3>1 DEF Placeholder, Value
    <3>3. CASE k = "number"
      <4>1. Text(v) = [of |-> a, n |-> n, kind |-> "text"]
        BY <3>1, <3>3 DEF Text
      <4>2. Text(v) \in AttrValues
        BY <4>1 DEF AttrValues, Value
      <4>. QED BY <3>2, <4>1, <4>2 DEF Values, Null, Empty, Value
    <3>4. CASE k # "number"
      BY <2>1, <3>2, <3>4 DEF Values, Text
    <3>. QED BY <3>3, <3>4
  <2>2. CASE v \in VarValues
    BY <2>2 DEF VarValues, Values, Text, Placeholder, Value
  <2>3. CASE v \in {Null, Empty}
    BY <2>3 DEF Values, Text, Null, Empty, Placeholder, Value
  <2>. QED BY <2>1, <2>2, <2>3 DEF Values
<1>. QED BY <1>1, <1>2

\* What redaction leaves of a value.
LEMMA RedactedTyped ==
  ASSUME NEW a \in Attrs, NEW v \in Values
  PROVE  Redacted(a, v) \in Cells
BY DEF Redacted, Cells

\* What is set under a key that has an entry.
LEMMA EntryTyped ==
  ASSUME TypeOK, NEW k \in EntryKeys(state)
  PROVE  Entry(state, k) \in [value : Values, secret : BOOLEAN]
<1>1. CASE k \in TfVars \cup Workspace
  <2>1. k \in Keys
    BY <1>1, SecretAssumption DEF SecretAssumption
  <2>2. Value(k, 0, "text") \in Values
    BY <2>1 DEF Values, VarValues
  <2>3. CASE k \in Workspace
    BY <2>2, <2>3 DEF Entry
  <2>4. CASE k \notin Workspace
    BY <1>1, <2>2, <2>4 DEF Entry
  <2>. QED BY <2>3, <2>4
<1>2. CASE k \notin TfVars \cup Workspace
  <2>1. \E a \in Discovered(state) : KeyOf[a] = k
    BY <1>2 DEF EntryKeys
  <2>2. (CHOOSE a \in Discovered(state) : KeyOf[a] = k) \in Discovered(state)
    BY <2>1
  <2>3. Discovered(state) \subseteq Attrs
    BY SecretAssumption DEF SecretAssumption, Discovered, BySchema
  <2>4. Text(state[CHOOSE a \in Discovered(state) : KeyOf[a] = k]) \in Values
    BY <2>2, <2>3, ValueFacts DEF TypeOK
  <2>. QED BY <1>2, <2>4 DEF Entry
<1>. QED BY <1>1, <1>2

\* What an injection that finds no placeholder writes.
LEMMA InjectedTyped ==
  ASSUME TypeOK, sidecar # None, Survivors = {}, NEW a \in Attrs
  PROVE  Output(a) \in Values /\ Input(a) \in Values
<1>1. Output(a).kind # "placeholder" /\ Input(a).kind # "placeholder"
  BY DEF Survivors
<1>2. /\ sidecar[a] \in Values \cup {Placeholder}
      /\ config[KeyOf[a]].value \in Values
      /\ program[a] \in {"none", "masked", "unknown"}
  BY SecretAssumption DEF SecretAssumption, TypeOK, Cells, InputKinds
<1>3. Output(a) \in Values
  BY <1>1, <1>2, ValueFacts DEF Output
<1>4. CASE program[a] = "none"
  BY <1>3, <1>4, ValueFacts DEF Input, MaskedTop
<1>5. CASE program[a] = "masked" /\ a \notin Nested
  BY <1>2, <1>3, <1>5, ValueFacts DEF Input, MaskedTop
<1>6. CASE program[a] = "masked" /\ a \in Nested
  BY <1>1, <1>6, ValueFacts DEF Input, MaskedTop
<1>7. CASE program[a] = "unknown"
  BY <1>1, <1>3, <1>7, ValueFacts DEF Input, MaskedTop
<1>. QED BY <1>2, <1>3, <1>4, <1>5, <1>6, <1>7

-----------------------------------------------------------------------------
LEMMA TypeInit == Init => TypeOK
<1>. SUFFICES ASSUME Init PROVE TypeOK
  OBVIOUS
<1>1. state \in [Attrs -> Values]
  <2>1. PICK present \in SUBSET Attrs :
          state = [a \in Attrs |-> IF a \in present THEN Value(a, 0, Kind(a)) ELSE Null]
    BY DEF Init
  <2>2. \A a \in Attrs : Value(a, 0, Kind(a)) \in Values
    <3>1. 0 \in 0..MaxApplies
      BY SecretAssumption DEF SecretAssumption
    <3>. QED BY <3>1 DEF Values, AttrValues, Kind
  <2>. QED BY <2>1, <2>2, ValueFacts
<1>2. config \in [Keys -> [value : Values, secret : BOOLEAN]]
  BY ValueFacts DEF Init, Unset
<1>3. /\ applies = 0 /\ program \in Programs /\ pc = "idle" /\ skip = FALSE
      /\ entries = {} /\ digest = None /\ sidecar = None /\ injected = None
      /\ truth = state /\ settled = "no"
  BY DEF Init
<1>4. applies \in 0..MaxApplies
  BY <1>3, SecretAssumption DEF SecretAssumption
<1>. QED BY <1>1, <1>2, <1>3, <1>4 DEF TypeOK

\* An apply leaves a value of the Terraform state.
LEMMA ApplyTyped ==
  ASSUME TypeOK, NEW a \in Attrs, Apply(a)
  PROVE  state' \in [Attrs -> Values] /\ applies' \in 0..MaxApplies
<1>1. applies' = applies + 1 /\ applies' \in 0..MaxApplies
  BY SecretAssumption DEF Apply, TypeOK, SecretAssumption
<1>2. Value(a, applies + 1, Kind(a)) \in Values
  BY <1>1 DEF Values, AttrValues, Kind
<1>. QED BY <1>1, <1>2, ValueFacts DEF Apply, TypeOK

LEMMA TypeStep == TypeOK /\ EntriesInv /\ [Next]_vars => TypeOK' /\ EntriesInv'
<1>. SUFFICES ASSUME TypeOK, EntriesInv, [Next]_vars PROVE TypeOK' /\ EntriesInv'
  OBVIOUS
<1>. USE DEF EntriesInv
<1>1. ASSUME NEW a \in Attrs, Apply(a) PROVE TypeOK' /\ EntriesInv'
  BY <1>1, ApplyTyped DEF Apply, TypeOK
<1>2. CASE Digest
  BY <1>2 DEF Digest, TypeOK
<1>3. CASE WriteDigest
  BY <1>3, RedactedTyped DEF WriteDigest, TypeOK
<1>4. CASE Discover
  <2>1. EntryKeys(state) \subseteq Keys
    BY SecretAssumption DEF SecretAssumption, EntryKeys, Discovered, BySchema
  <2>2. EntryKeys(state)' = EntryKeys(state)
    BY <1>4 DEF Discover, EntryKeys, Discovered
  <2>. QED BY <1>4, <2>1, <2>2 DEF Discover, TypeOK
<1>5. ASSUME NEW k \in Keys, SetKey(k) PROVE TypeOK' /\ EntriesInv'
  <2>1. Entry(state, k) \in [value : Values, secret : BOOLEAN]
    BY <1>5, EntryTyped DEF SetKey
  <2>2. EntryKeys(state)' = EntryKeys(state)
    BY <1>5 DEF SetKey, EntryKeys, Discovered
  <2>. QED BY <1>5, <2>1, <2>2 DEF SetKey, TypeOK
<1>6. CASE DigestDone
  BY <1>6 DEF DigestDone, TypeOK
<1>7. CASE Abort
  BY <1>7 DEF Abort, TypeOK
<1>8. CASE Resolve
  BY <1>8 DEF Resolve, TypeOK
<1>9. CASE Inject
  BY <1>9, InjectedTyped DEF Inject, TypeOK
<1>10. CASE UNCHANGED vars
  <2>1. EntryKeys(state)' = EntryKeys(state)
    BY <1>10 DEF vars, EntryKeys, Discovered
  <2>. QED BY <1>10, <2>1 DEF vars, TypeOK
<1>. QED BY <1>1, <1>2, <1>3, <1>4, <1>5, <1>6, <1>7, <1>8, <1>9, <1>10 DEF Next

\* Every reachable state is well typed, for any attributes, keys and programs.
THEOREM TypeCorrect == Spec => []TypeOK
<1>1. Init => TypeOK /\ EntriesInv
  BY TypeInit DEF Init, EntriesInv
<1>. QED BY <1>1, TypeStep, PTL DEF Spec

\* A value that the state or a schema marks as sensitive is in no file.
THEOREM SecretsStayOut == Spec => []NoClearSecret
<1>1. Init => NoClear
  BY DEF Init, NoClear, NoClearSecret, LeakFree
<1>2. NoClear /\ [Next]_vars => NoClear'
  <2>. SUFFICES ASSUME NoClear, [Next]_vars PROVE NoClear'
    OBVIOUS
  <2>. USE DEF NoClear, NoClearSecret, LeakFree
  <2>1. ASSUME NEW a \in Attrs, Apply(a) PROVE NoClear'
    BY <2>1 DEF Apply
  <2>2. CASE Digest
    <3>1. Leaks(state)' = Leaks(state)
      BY <2>2 DEF Digest, Leaks, Redacted
    <3>. QED BY <2>2, <3>1 DEF Digest
  <2>3. CASE WriteDigest
    <3>1. ASSUME NEW a \in Marked \cup InSchema
          PROVE  digest'[a].kind \in {"null", "placeholder"}
      <4>1. digest'[a] = Redacted(a, state[a])
        BY <2>3, <3>1, SecretAssumption DEF WriteDigest, SecretAssumption
      <4>2. Redacted(a, state[a]) \in {Null, Placeholder}
        BY <2>3, <3>1 DEF WriteDigest, Redacted, Leaks
      <4>. QED BY <4>1, <4>2, ValueFacts
    <3>. QED BY <2>3, <3>1 DEF WriteDigest
  <2>4. CASE Discover \/ DigestDone \/ Resolve \/ Inject
    BY <2>4 DEF Discover, DigestDone, Resolve, Inject
  <2>5. ASSUME NEW k \in Keys, SetKey(k) PROVE NoClear'
    BY <2>5 DEF SetKey
  <2>6. CASE Abort
    BY <2>6 DEF Abort
  <2>7. CASE UNCHANGED vars
    <3>1. Leaks(state)' = Leaks(state)
      BY <2>7 DEF vars, Leaks, Redacted
    <3>. QED BY <2>7, <3>1 DEF vars
  <2>. QED BY <2>1, <2>2, <2>3, <2>4, <2>5, <2>6, <2>7 DEF Next
<1>. QED BY <1>1, <1>2, PTL DEF Spec, NoClear

\* No placeholder is written to the state, whatever the digest, the config and
\* the program look like.
THEOREM PlaceholdersStayOut == Spec => []NoPlaceholderInState
<1>1. TypeOK => NoPlaceholderInState
  BY ValueFacts DEF TypeOK, NoPlaceholderInState
<1>. QED BY <1>1, TypeCorrect, PTL

-----------------------------------------------------------------------------
(* What is injected is the attribute's own, when its key is.               *)

Redactable == Marked \cup BySchema

\* No variable has the key of an attribute that may be redacted, and a composite
\* one shares its key with none of them.
OwnKeys ==
  \A a \in Redactable :
    /\ KeyOf[a] \notin TfVars \cup Workspace
    /\ a \in Composite => \A b \in Redactable : KeyOf[b] = KeyOf[a] => b = a

\* The config has the secret of every attribute of s that it can hold.
Holds(s, a) == config[KeyOf[a]] = [value |-> Text(s[a]), secret |-> TRUE]

\* The digest is that of the state it was taken from.
TakenFrom(s) == digest = [a \in Attrs |-> Redacted(a, s[a])]

\* A composite attribute never gets a secret of its own.
CompositeInv == \A a \in Redactable \cap Composite : ~config[KeyOf[a]].secret

\* digest tf between its write and its exit.
RunningInv ==
  /\ pc \in {"discover", "set"} => truth = state /\ TakenFrom(state)
  /\ pc = "set" =>
       /\ ~Collide(state) /\ entries \subseteq EntryKeys(state)
       /\ \A a \in Discovered(state) : KeyOf[a] \in entries \/ Holds(state, a)

\* After it has exited zero.
SettledInv ==
  settled # "no" =>
    /\ pc = "idle" /\ TakenFrom(truth)
    /\ \A a \in Discovered(truth) : Holds(truth, a)
    /\ settled \in {"sidecar", "injected"} => sidecar = digest

SecretInv == TypeOK /\ CompositeInv /\ RunningInv /\ SettledInv /\ InjectedIsOwn

\* The attributes that are redacted are attributes; those discovered of a state
\* depend on that state only.
LEMMA RedactableFacts ==
  /\ Redactable \subseteq Attrs
  /\ \A s : Discovered(s) = {a \in Redactable \ Composite : s[a] # Null}
BY SecretAssumption DEF SecretAssumption, Redactable, BySchema, Discovered

\* The key of an attribute that may be redacted has an entry only if it was
\* discovered under it, and then the entry is its own.
LEMMA OwnEntry ==
  ASSUME OwnKeys, NEW s, ~Collide(s), NEW a \in Redactable, KeyOf[a] \in EntryKeys(s)
  PROVE  /\ a \notin Composite
         /\ a \in Discovered(s) => Entry(s, KeyOf[a]) = [value |-> Text(s[a]), secret |-> TRUE]
<1>1. KeyOf[a] \notin TfVars \cup Workspace
  BY DEF OwnKeys
<1>2. PICK b \in Discovered(s) : KeyOf[b] = KeyOf[a]
  BY <1>1 DEF EntryKeys
<1>3. a \notin Composite
  BY <1>2, RedactableFacts DEF OwnKeys
<1>4. ASSUME a \in Discovered(s)
      PROVE  Entry(s, KeyOf[a]) = [value |-> Text(s[a]), secret |-> TRUE]
  <2>1. \A c \in Discovered(s) : KeyOf[c] = KeyOf[a] => c = a
    BY <1>4 DEF Collide
  <2>2. (CHOOSE c \in Discovered(s) : KeyOf[c] = KeyOf[a]) = a
    BY <1>4, <2>1
  <2>. QED BY <1>1, <2>2 DEF Entry
<1>. QED BY <1>3, <1>4

\* What an injection after a digest that exited zero writes.
LEMMA InjectsOwn ==
  ASSUME OwnKeys, TypeOK, CompositeInv, SettledInv, settled \in {"sidecar", "injected"},
         sidecar # None, ~\E a \in Attrs : OutputError(a) \/ InputError(a), Survivors = {},
         NEW a \in Attrs
  PROVE  /\ Output(a) \in {truth[a], Text(truth[a])}
         /\ Input(a) \in {Null, truth[a], Text(truth[a])}
<1>1. sidecar[a] = Redacted(a, truth[a]) /\ truth[a] # Placeholder
  BY ValueFacts DEF SettledInv, TakenFrom, TypeOK
<1>2. ASSUME Redacts(a), Usable(KeyOf[a]) PROVE config[KeyOf[a]].value = Text(truth[a])
  <2>1. a \in Redactable /\ truth[a] # Null
    BY <1>1, <1>2 DEF Redacts, Redacted, Redactable
  <2>2. a \notin Composite
    BY <1>2, <2>1 DEF CompositeInv, Usable
  <2>3. a \in Discovered(truth)
    BY <2>1, <2>2, RedactableFacts
  <2>4. Holds(truth, a)
    BY <2>3 DEF SettledInv
  <2>. QED BY <2>4 DEF Holds
<1>3. ~Redacts(a) => sidecar[a] = truth[a]
  BY <1>1 DEF Redacts, Redacted
<1>4. Output(a).kind # "placeholder" /\ Input(a).kind # "placeholder"
  BY DEF Survivors
<1>5. ~OutputError(a) /\ ~InputError(a) /\ program[a] \in {"none", "masked", "unknown"}
  BY SecretAssumption DEF SecretAssumption, TypeOK, InputKinds
<1>6. Output(a) \in {truth[a], Text(truth[a])}
  BY <1>2, <1>3, <1>4, <1>5, ValueFacts DEF Output, OutputError, Redacts
<1>7. Input(a) \in {Null, truth[a], Text(truth[a])}
  <2>1. CASE program[a] = "none"
    BY <2>1 DEF Input, MaskedTop
  <2>2. CASE MaskedTop(a)
    <3>1. Redacts(a) => Usable(KeyOf[a])
      BY <1>5, <2>2 DEF InputError
    <3>. QED BY <1>2, <2>2, <3>1 DEF Input, MaskedTop
  <2>3. CASE program[a] = "masked" /\ a \in Nested
    BY <1>4, <2>3, ValueFacts DEF Input, MaskedTop
  <2>4. CASE program[a] = "unknown"
    BY <1>4, <1>6, <2>4, ValueFacts DEF Input, MaskedTop
  <2>. QED BY <1>5, <2>1, <2>2, <2>3, <2>4 DEF MaskedTop
<1>. QED BY <1>6, <1>7

LEMMA SecretInit == Init => CompositeInv /\ RunningInv /\ SettledInv /\ InjectedIsOwn
BY SecretAssumption DEF SecretAssumption, Init, CompositeInv, RunningInv, SettledInv,
   InjectedIsOwn, Redactable, BySchema, Unset

LEMMA SecretStep ==
  ASSUME OwnKeys, SecretInv, [Next]_vars, TypeOK'
  PROVE  CompositeInv' /\ RunningInv' /\ SettledInv' /\ InjectedIsOwn'
<1>. USE DEF SecretInv
<1>1. ASSUME NEW a \in Attrs, Apply(a) PROVE CompositeInv' /\ RunningInv' /\ SettledInv' /\ InjectedIsOwn'
  BY <1>1 DEF Apply, CompositeInv, RunningInv, SettledInv, InjectedIsOwn, TakenFrom, Holds
<1>2. CASE Digest
  BY <1>2 DEF Digest, CompositeInv, RunningInv, SettledInv, InjectedIsOwn
<1>3. CASE WriteDigest
  BY <1>3 DEF WriteDigest, CompositeInv, RunningInv, SettledInv, InjectedIsOwn, TakenFrom
<1>4. CASE Discover
  <2>1. /\ Collide(state)' = Collide(state) /\ EntryKeys(state)' = EntryKeys(state)
        /\ Discovered(state)' = Discovered(state)
    BY <1>4 DEF Discover, Collide, EntryKeys, Discovered
  <2>2. ASSUME NEW a \in Discovered(state) PROVE KeyOf[a] \in EntryKeys(state)
    BY <2>2 DEF EntryKeys
  <2>3. RunningInv'
    BY <1>4, <2>1, <2>2 DEF Discover, RunningInv, TakenFrom
  <2>. QED BY <1>4, <2>3 DEF Discover, CompositeInv, SettledInv, InjectedIsOwn
<1>5. ASSUME NEW k \in Keys, SetKey(k)
      PROVE  CompositeInv' /\ RunningInv' /\ SettledInv' /\ InjectedIsOwn'
  <2>1. /\ Collide(state)' = Collide(state) /\ EntryKeys(state)' = EntryKeys(state)
        /\ Discovered(state)' = Discovered(state)
    BY <1>5 DEF SetKey, Collide, EntryKeys, Discovered
  <2>2. /\ pc = "set" /\ settled = "no" /\ k \in EntryKeys(state) /\ ~Collide(state)
    BY <1>5 DEF SetKey, RunningInv, SettledInv
  <2>3. config' = [config EXCEPT ![k] = Entry(state, k)]
    BY <1>5 DEF SetKey
  <2>4. CompositeInv'
    <3>1. ASSUME NEW a \in Redactable \cap Composite PROVE ~config'[KeyOf[a]].secret
      <4>1. KeyOf[a] # k
        BY <2>2, <3>1, OwnEntry
      <4>. QED BY <2>3, <3>1, <4>1, RedactableFacts, SecretAssumption
               DEF SecretAssumption, CompositeInv, TypeOK
    <3>. QED BY <3>1 DEF CompositeInv, Redactable, BySchema
  <2>5. ASSUME NEW a \in Discovered(state)
        PROVE  KeyOf[a] \in entries' \/ Holds(state, a)'
    <3>1. a \in Redactable /\ KeyOf[a] \in Keys
      BY <2>5, RedactableFacts, SecretAssumption DEF SecretAssumption
    <3>2. CASE KeyOf[a] = k
      <4>1. Entry(state, k) = [value |-> Text(state[a]), secret |-> TRUE]
        BY <2>2, <2>5, <3>1, <3>2, OwnEntry
      <4>. QED BY <1>5, <2>3, <3>1, <3>2, <4>1 DEF SetKey, Holds, TypeOK
    <3>3. CASE KeyOf[a] # k
      <4>1. KeyOf[a] \in entries \/ Holds(state, a)
        BY <2>2, <2>5 DEF RunningInv
      <4>. QED BY <1>5, <2>3, <3>1, <3>3, <4>1 DEF SetKey, Holds, TypeOK
    <3>. QED BY <3>2, <3>3
  <2>6. RunningInv'
    BY <1>5, <2>1, <2>5 DEF SetKey, RunningInv, TakenFrom
  <2>. QED BY <1>5, <2>2, <2>4, <2>6 DEF SetKey, SettledInv, InjectedIsOwn
<1>6. CASE DigestDone
  BY <1>6 DEF DigestDone, CompositeInv, RunningInv, SettledInv, InjectedIsOwn, TakenFrom, Holds
<1>7. CASE Abort
  BY <1>7 DEF Abort, CompositeInv, RunningInv, SettledInv, InjectedIsOwn
<1>8. CASE Resolve
  BY <1>8 DEF Resolve, CompositeInv, RunningInv, SettledInv, InjectedIsOwn, TakenFrom, Holds, TypeOK
<1>9. CASE Inject
  <2>1. ASSUME settled' = "injected", NEW a \in Attrs
        PROVE  /\ injected'.output[a] \in {truth[a], Text(truth[a])}
               /\ injected'.input[a] \in {Null, truth[a], Text(truth[a])}
    <3>1. settled \in {"sidecar", "injected"}
      BY <1>9, <2>1 DEF Inject
    <3>2. /\ Output(a) \in {truth[a], Text(truth[a])}
          /\ Input(a) \in {Null, truth[a], Text(truth[a])}
      BY <1>9, <3>1, InjectsOwn DEF Inject
    <3>. QED BY <1>9, <3>2 DEF Inject
  <2>2. InjectedIsOwn'
    BY <1>9, <2>1 DEF Inject, InjectedIsOwn
  <2>. QED BY <1>9, <2>2 DEF Inject, CompositeInv, RunningInv, SettledInv, TakenFrom, Holds
<1>10. CASE UNCHANGED vars
  BY <1>10 DEF vars, CompositeInv, RunningInv, SettledInv, InjectedIsOwn, TakenFrom, Holds,
     Collide, EntryKeys, Discovered
<1>. QED BY <1>1, <1>2, <1>3, <1>4, <1>5, <1>6, <1>7, <1>8, <1>9, <1>10 DEF Next

\* After a digest that exited zero, what injection writes is the attribute's own,
\* whatever failed or was killed before and whatever changed since.
THEOREM OwnIsInjected == ASSUME OwnKeys PROVE Spec => []InjectedIsOwn
<1>1. Init => SecretInv
  BY TypeInit, SecretInit DEF SecretInv
<1>2. SecretInv /\ TypeOK' /\ [Next]_vars => SecretInv'
  BY SecretStep DEF SecretInv
<1>3. SecretInv => InjectedIsOwn
  BY DEF SecretInv
<1>. QED BY <1>1, <1>2, <1>3, TypeCorrect, PTL DEF Spec

\* After a digest that exited zero, the config can give back what was replaced by
\* a placeholder, unless it is composite or empty.
THEOREM SecretsAreRecoverable == ASSUME OwnKeys PROVE Spec => []Recoverable
<1>1. Init => SecretInv
  BY TypeInit, SecretInit DEF SecretInv
<1>2. SecretInv /\ TypeOK' /\ [Next]_vars => SecretInv'
  BY SecretStep DEF SecretInv
<1>3. SecretInv => Recoverable
  <2>. SUFFICES ASSUME SecretInv, settled \in {"sidecar", "injected"},
                       NEW a \in Attrs \ Composite, Redacts(a), truth[a] # Empty
                PROVE  Usable(KeyOf[a])
    BY DEF Recoverable
  <2>1. truth[a] \in Values /\ truth[a] # Placeholder /\ sidecar[a] = Redacted(a, truth[a])
    BY ValueFacts DEF SecretInv, TypeOK, SettledInv, TakenFrom
  <2>2. a \in Redactable /\ truth[a] # Null
    BY <2>1 DEF Redacts, Redacted, Redactable
  <2>3. Holds(truth, a)
    BY <2>2, RedactableFacts DEF SecretInv, SettledInv
  <2>4. Text(truth[a]) \notin {Null, Empty}
    BY <2>1, <2>2, ValueFacts
  <2>. QED BY <2>3, <2>4 DEF Holds, Usable
<1>. QED BY <1>1, <1>2, <1>3, TypeCorrect, PTL DEF Spec
=============================================================================
