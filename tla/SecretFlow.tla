------------------------------ MODULE SecretFlow ------------------------------
(***************************************************************************)
(* The way of a sensitive value: from the Terraform state, through the     *)
(* digest and the sidecar, where a placeholder stands for it, and through  *)
(* the config of the stack, which keeps it encrypted, into the resource    *)
(* that patch-state injects.  Nothing records which config key belongs to  *)
(* which attribute: digest tf and resolve tf each derive it by flattening  *)
(* the address and the path of the attribute, and two can share one.       *)
(*                                                                         *)
(* The commands share files and the stack only.  Terraform may be applied  *)
(* between any two of them, and digest tf, which writes the digest first   *)
(* and the config key by key after it, may fail or be killed in between.   *)
(***************************************************************************)
EXTENDS Integers, FiniteSets

CONSTANTS
  Attrs,      \* the attributes of the resources that cannot be imported
  Marked,     \* those the Terraform state marks as sensitive
  InSchema,   \* those the schema of a loaded provider marks as sensitive
  Nested,     \* those below the top level of their resource
  Composite,  \* those whose value is no scalar
  Numbers,    \* those whose value is a scalar but no text: a number, a boolean
  Misnamed,   \* those whose Pulumi name injection does not find, and vice versa
  Keys,       \* config keys
  KeyOf,      \* attribute -> flattenAddressPath of its address and path
  TooLong,    \* the keys that are longer than the stack allows
  TfVars,     \* the keys of the variables that the tfvars files set
  Workspace,  \* the keys of the readable variables of the remote workspace
  Sensitive,  \* those of Workspace that the workspace keeps as sensitive
  Programs,   \* what a preview may show of an attribute as an input
  MaxApplies  \* bound on changes of the Terraform state

InputKinds == {"none", "masked", "unknown"}

ASSUME SecretAssumption ==
  /\ Marked \subseteq Attrs /\ InSchema \subseteq Attrs /\ Nested \subseteq Attrs
  /\ Composite \subseteq Attrs /\ Numbers \subseteq Attrs \ Composite
  /\ Misnamed \subseteq Attrs
  /\ KeyOf \in [Attrs -> Keys] /\ TooLong \subseteq Keys
  /\ TfVars \subseteq Keys /\ Workspace \subseteq Keys /\ Sensitive \subseteq Workspace
  /\ Programs \subseteq [Attrs -> InputKinds]
  /\ MaxApplies \in Nat

VARIABLES
  state,    \* attribute -> its value in the Terraform state
  applies,  \* changes of the Terraform state so far
  program,  \* attribute -> how the preview shows it as an input
  pc,       \* where digest tf is, or "idle"
  skip,     \* its --skip-secrets
  entries,  \* the keys it has yet to set
  digest,   \* the file: attribute -> what stands there
  sidecar,  \* the file: attribute -> what stands there
  config,   \* key -> the value the stack has for it, and whether as a secret
  injected, \* attribute -> what the last injection wrote as output and as input
  \* history:
  truth,    \* the Terraform state that the digest on disk was taken from
  settled   \* how far the outcome of a digest tf that exited zero has come

vars == <<state, applies, program, pc, skip, entries, digest, sidecar,
          config, injected, truth, settled>>

\* A value: whose it is, its version, and what becomes of it.
Value(o, n, k) == [of |-> o, n |-> n, kind |-> k]
Null == Value("null", 0, "null")
Empty == Value("empty", 0, "empty")
Placeholder == Value("(sensitive)", 0, "placeholder")
Masked == Value("[secret]", 0, "placeholder")
Unknown == Value("unknown", 0, "placeholder")

Kind(a) ==
  CASE a \in Composite -> "composite"
    [] a \in Numbers -> "number"
    [] OTHER -> "text"

\* fmt.Sprintf("%v"): what is set in the config is text, and stays text.
Text(v) == IF v.kind = "number" THEN [v EXCEPT !.kind = "text"] ELSE v

AttrValues == {Value(a, n, k) : a \in Attrs, n \in 0..MaxApplies, k \in {"composite", "number", "text"}}
VarValues == {Value(k, 0, "text") : k \in Keys}
Values == AttrValues \cup VarValues \cup {Null, Empty}
Cells == Values \cup {Placeholder}

None == <<>>
Unset == [value |-> Null, secret |-> FALSE]

TypeOK ==
  /\ state \in [Attrs -> Values]
  /\ applies \in 0..MaxApplies
  /\ program \in Programs
  /\ pc \in {"idle", "write", "discover", "set"}
  /\ skip \in BOOLEAN
  /\ entries \subseteq Keys
  /\ digest = None \/ digest \in [Attrs -> Cells]
  /\ sidecar = None \/ sidecar \in [Attrs -> Cells]
  /\ config \in [Keys -> [value : Values, secret : BOOLEAN]]
  /\ injected = None \/ injected \in [output : [Attrs -> Values], input : [Attrs -> Values]]
  /\ truth \in [Attrs -> Values]
  /\ settled \in {"no", "digest", "sidecar", "injected"}

-----------------------------------------------------------------------------
(* Redaction, by the marks of the state and then by the provider schema.   *)

\* What redactSchemaSensitive reaches; below the top level it has no path.
BySchema == InSchema \ Nested

Redacted(a, v) ==
  IF v # Null /\ a \in Marked \cup BySchema THEN Placeholder ELSE v

\* schemaSensitiveLeaks: what the schema marks and no placeholder covers.
Leaks_mutant(s) == {}
Leaks(s) == {a \in InSchema : Redacted(a, s[a]) \notin {Null, Placeholder}}

-----------------------------------------------------------------------------
(* DiscoverSensitiveSecrets, and what is set in the config with them.      *)

\* The same leaves as redaction replaces, as far as a config can hold them.
Discovered_mutant(s) == {a \in Marked \ Composite : s[a] # Null}
Discovered(s) == {a \in (Marked \cup BySchema) \ Composite : s[a] # Null}

Collide_mutant(s) == FALSE
Collide(s) == \E a, b \in Discovered(s) : a # b /\ KeyOf[a] = KeyOf[b]

EntryKeys(s) == {KeyOf[a] : a \in Discovered(s)} \cup TfVars \cup Workspace

\* Of the entries with one key the last wins: a variable of the workspace, then
\* one of the tfvars files, then the secret of the state.
Entry(s, k) ==
  CASE k \in Workspace -> [value |-> Value(k, 0, "text"), secret |-> k \in Sensitive]
    [] k \in TfVars \ Workspace -> [value |-> Value(k, 0, "text"), secret |-> FALSE]
    [] OTHER -> [value |-> Text(s[CHOOSE a \in Discovered(s) : KeyOf[a] = k]), secret |-> TRUE]

-----------------------------------------------------------------------------
(* buildInjectedResource.                                                  *)

\* configSecrets has the secret entries only, and an empty one counts as none.
Usable(k) == config[k].secret /\ config[k].value \notin {Null, Empty}

Redacts(a) == sidecar[a] = Placeholder

\* A bare placeholder is looked for under its Pulumi name, a tagged one by its path.
Found(a) == a \in Nested \/ a \notin Misnamed

OutputError(a) == Redacts(a) /\ Found(a) /\ ~Usable(KeyOf[a])
Output(a) == IF Redacts(a) /\ Found(a) THEN config[KeyOf[a]].value ELSE sidecar[a]

\* resolveSecretInputs looks at the top level only.
MaskedTop(a) == program[a] = "masked" /\ a \notin Nested

InputError(a) ==
  /\ MaskedTop(a)
  /\ \/ a \in Misnamed
     \/ Redacts(a) /\ ~Usable(KeyOf[a])
     \/ ~Redacts(a) /\ sidecar[a] # Null

\* resolveSecretInputs, then resolveUnknownInputs, which takes the output.
Input(a) ==
  CASE program[a] = "none" -> Null
    [] MaskedTop(a) -> IF Redacts(a) THEN config[KeyOf[a]].value ELSE Null
    [] program[a] = "masked" /\ a \in Nested -> Masked
    [] program[a] = "unknown" -> IF a \in Nested \/ Output(a) = Null THEN Unknown ELSE Output(a)

\* checkNoPlaceholders, on the inputs and on the outputs.
Survivors_mutant == {a \in Attrs : Input(a).kind = "placeholder"}
Survivors == {a \in Attrs : "placeholder" \in {Input(a).kind, Output(a).kind}}

-----------------------------------------------------------------------------
Init ==
  /\ \E present \in SUBSET Attrs :
       state = [a \in Attrs |-> IF a \in present THEN Value(a, 0, Kind(a)) ELSE Null]
  /\ applies = 0
  /\ program \in Programs
  /\ pc = "idle" /\ skip = FALSE /\ entries = {}
  /\ digest = None /\ sidecar = None /\ injected = None
  /\ config = [k \in Keys |-> Unset]
  /\ truth = state /\ settled = "no"

\* terraform apply changes, sets or clears an attribute.  digest tf reads the
\* state once, so one during its run is one after it.
Apply(a) ==
  /\ pc = "idle" /\ applies < MaxApplies
  /\ applies' = applies + 1
  /\ \E v \in {Null, Value(a, applies + 1, Kind(a))} \cup (IF Kind(a) = "text" THEN {Empty} ELSE {}) :
       state' = [state EXCEPT ![a] = v]
  /\ UNCHANGED <<program, pc, skip, entries, digest, sidecar, config, injected,
                 truth, settled>>

\* digest tf reads the state and redacts; a leak ends it before it has written.
Digest ==
  /\ pc = "idle" /\ Leaks(state) = {}
  /\ skip' \in BOOLEAN
  /\ pc' = "write"
  /\ settled' = "no"
  /\ UNCHANGED <<state, applies, program, entries, digest, sidecar, config, injected, truth>>

\* Step 7: the digest is written, before anything is known of its secrets.
WriteDigest ==
  /\ pc = "write"
  /\ digest' = [a \in Attrs |-> Redacted(a, state[a])]
  /\ truth' = state
  /\ pc' = IF skip THEN "idle" ELSE "discover"
  /\ UNCHANGED <<state, applies, program, skip, entries, sidecar, config, injected,
                 settled>>

\* Step 8: keys that collide or are too long end the run with an error.
Discover ==
  /\ pc = "discover"
  /\ IF Collide(state) \/ \E a \in Discovered(state) : KeyOf[a] \in TooLong
     THEN pc' = "idle" /\ UNCHANGED entries
     ELSE pc' = "set" /\ entries' = EntryKeys(state)
  /\ UNCHANGED <<state, applies, program, skip, digest, sidecar, config, injected,
                 truth, settled>>

\* writeConfigValues sets key by key, in the order of a Go map.
SetKey(k) ==
  /\ pc = "set" /\ k \in entries
  /\ config' = [config EXCEPT ![k] = Entry(state, k)]
  /\ entries' = entries \ {k}
  /\ UNCHANGED <<state, applies, program, pc, skip, digest, sidecar, injected,
                 truth, settled>>

\* Every key is set: exit zero.
DigestDone ==
  /\ pc = "set" /\ entries = {}
  /\ pc' = "idle"
  /\ settled' = "digest"
  /\ UNCHANGED <<state, applies, program, skip, entries, digest, sidecar, config,
                 injected, truth>>

\* digest tf fails or is killed; what it was writing may be torn, and then no
\* command reads it.
Abort ==
  /\ pc # "idle"
  /\ pc' = "idle" /\ entries' = {}
  /\ digest' \in {digest} \cup (IF pc = "write" THEN {None} ELSE {})
  /\ UNCHANGED <<state, applies, program, skip, sidecar, config, injected, truth, settled>>

\* resolve tf copies what the digest has of the attributes, with their keys.
Resolve ==
  /\ pc = "idle" /\ digest # None
  /\ sidecar' = digest
  /\ settled' = IF settled = "no" THEN "no" ELSE "sidecar"
  /\ UNCHANGED <<state, applies, program, pc, skip, entries, digest, config, injected,
                 truth>>

\* patch-state injects, unless there is anything it cannot resolve.
Inject ==
  /\ pc = "idle" /\ sidecar # None
  /\ ~\E a \in Attrs : OutputError(a) \/ InputError(a)
  /\ Survivors = {}
  /\ injected' = [output |-> [a \in Attrs |-> Output(a)], input |-> [a \in Attrs |-> Input(a)]]
  /\ settled' = IF settled \in {"sidecar", "injected"} THEN "injected" ELSE settled
  /\ UNCHANGED <<state, applies, program, pc, skip, entries, digest, sidecar, config,
                 truth>>

Next ==
  \/ \E a \in Attrs : Apply(a)
  \/ Digest \/ WriteDigest \/ Discover \/ (\E k \in Keys : SetKey(k)) \/ DigestDone
  \/ Abort
  \/ Resolve
  \/ Inject

Spec == Init /\ [][Next]_vars

-----------------------------------------------------------------------------
\* A value that the state or a provider schema marks as sensitive is in no file.
NoClearSecret ==
  \A file \in {digest, sidecar} : file # None =>
    \A a \in Marked \cup InSchema : file[a].kind \in {"null", "placeholder"}

\* "Nothing may be written to state that a later operation could not distinguish
\* from a real value", whatever digest, config and program look like.
NoPlaceholderInState ==
  injected # None =>
    \A a \in Attrs : "placeholder" \notin {injected.output[a].kind, injected.input[a].kind}

\* After a digest that exited zero, injection gives every attribute the value
\* that the Terraform state had for this attribute when the digest was taken, a
\* number as its text if it went through the config.
InjectedIsOwn ==
  settled = "injected" =>
    \A a \in Attrs : /\ injected.output[a] \in {truth[a], Text(truth[a])}
                     /\ injected.input[a] \in {Null, truth[a], Text(truth[a])}

\* Redaction and discovery agree: what a digest that exited zero replaced by a
\* placeholder, the config can give back, unless it is composite or empty.
Recoverable ==
  settled \in {"sidecar", "injected"} =>
    \A a \in Attrs \ Composite : Redacts(a) /\ truth[a] # Empty => Usable(KeyOf[a])
=============================================================================
