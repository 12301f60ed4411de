# A verification model of pulumi-tool-import

`pulumi-tool-import` moves infrastructure that Terraform or CloudFormation
manages into Pulumi stacks. The TLA+ modules in this directory model the parts of
it where order, failure and repetition decide whether the result is right. TLC
checks them on small instances; TLAPS proves the main results for every size.

## 1. The system

A migration is a pipeline of commands. They share no process: everything that passes
from one to the next is a file, or the state of the stack in the backend.

    digest tf|cfn --> digest.json --> resolve tf|cfn --> import.json + sidecar
                                                           |              |
                        preview of the Pulumi program -----+              |
                                                           v              v
                                  import  (pulumi import, in batches)     |
                                                           |              |
                                                           v              v
                                  patch-state tf|cfn (patch fields, inject the sidecar's
                                                      resources, verify, keep or revert)

| Component | State it keeps | Operations | What is hard | What makes it correct |
|---|---|---|---|---|
| Batch import (`cmd/import.go`, `pkg/batchimport`) | the report of a run; the stack outlives it | plan, import a batch, read the state, isolate the missing ones, re-read | a failing step takes neighbours down; reads fail; runs are killed and repeated; one late read judges many entries | the report is true, complete, exact, and repetition converges |
| Stack-mode patch-state (`cmd/patch_state_tf.go`, `pkg/state_stack.go`) | the stack's document, backups, the `--out` file | export, back up, patch, inject, baseline preview, import, verify, restore, write | any call may fail or lose its answer; kills; two previews must be of the right documents | a run is a transaction, whose old document can always be recovered |
| Verification gate (`pkg/state_stack.go`, `pkg/preview.go`) | none | compare two previews | operations without a rank; counts that hide escalations | what passes is no closer to destruction; what was dirty before does not revert a good run |
| Import-support prober (`pkg/importsupport`, `pkg/provider_pair.go`) | verdicts, live provider processes, addresses given up on, crash counts | probe a type, fetch the live provider, close | providers die while they are asked; three names for one provider | one flaky type spoils no other; restarts are bounded; no dead handle is kept |
| Sensitive values (`pkg/module_map.go`, `schema_sensitivity.go`, `secret_paths.go`, `import_filler.go`, `state_injector.go`) | a placeholder in digest and sidecar, the value in the stack config | redact, discover, set key by key, recompute the key, look up, inject | three derivations of one key; the digest is written before the config; keys are shared; commands repeat | no secret in a file, no placeholder in a state, the right secret in the right attribute |
| State injection (`pkg/state_injector.go`, `state_verify.go`) | none | order the sidecar's resources, resolve their inputs, append them to a deployment | dependency cycles, secrets, parents and providers that must precede | the deployment stays well-formed |
| State patcher (`pkg/state_patcher*.go`, `cmd/patch_state_cfn.go`) | the name map and what a module has given away; the resource being patched | match state resources to digest resources, patch fields, validate, revert | a pass depends on what the earlier ones claimed; children come in map order; snapshots share maps with the live document | nothing is given twice by a guess; a revert is complete; a second run has nothing left to do |
| Resolve (`cmd/import_id_match.go`, `pkg/import_filler.go`, `cmd/resolve_cfn.go`) | two output files | fill IDs in passes, divert what cannot be imported | two files are not written as one | each entry is filled at most once, none lost between the files |
| Digest: configuration, variables and evaluation (`pkg/generate_module_map.go`, `root_variables.go`, `eval_scope.go`, `tofu_eval.go`) | the digest, the config of the stack | install modules, pull, list variables, evaluate, write, set config | one set of variables is used twice, with different rules; steps fail and are tolerated | the config has what the digest was evaluated with |
| Provider resolution, installation and processes (`pkg/pulumi_providers.go`, `digest_provenance.go`, `pkg/bridgedproviders`) | pins in the digest, the mapping cache, installed plugins, child processes | resolve, pin, install, load a mapping, bridge dynamically, reap orphans | several tools and builds at once; torn caches; orphans on their way to process 1 | injection uses the mappings of the digest; a reap takes all of its own and nothing that lives |
| update-providermap and the recommendation (`cmd/update_providermap.go`, `pkg/providermap`) | the table of releases, clones of provider repositories | a pool of workers infers versions; saves; recommend a release | infer outside the lock, add inside it; saves cut off | no known version is lost; the best release is recommended |
| Remote backend client (`pkg/tfc`) | none | pull a state, list the variables of a workspace page by page | the list changes between two pages; precedence of scopes | nothing that was there all along is missed |
| CloudFormation digest and resolve (`pkg/cfn`) | none | resolve intrinsics and physical IDs | references among resources | a reference resolves as CloudFormation does |
| Stack config secrets (`cmd/set_secrets.go`, `pkg/set_secrets.go`) | the stack config | set config values as secrets | it writes the same keys as `digest tf` | every secret set, or reported |
| State loading (`pkg/tofu/loader.go`, `cmd/show_state.go`) | the operator's `.terraform` and lock file, put aside | run `tofu init`, select a workspace, show, undo | deferred calls; kills; failing renames | the directory is left as it was found; what is shown is what was asked for |
| Catalogs (`importids`, `pkg/importid`), migration check, refresh report, scraper | none of note | pure functions, generated tables, printing | little | |

`PROJECT.json` lists every component with its files and status, and every hazard at
its line.

## 2. The modules

| Module | What it is |
|---|---|
| `BatchImport` | `batchimport.Run` and its repetition by an operator |
| `ImportLedger` | the abstract promise of `import`: verdicts that are true and final |
| `BatchImportMC` | the import files TLC uses |
| `BatchImportProofs` | inductive invariant and safety theorems of `BatchImport`, and that it implements `ImportLedger` |
| `VerifyGate` | `CheckInjectionVerification` and what it calls, as operators |
| `PatchStack` | stack-mode `patch-state tf`, with faults and kills (extends `VerifyGate`) |
| `StackTransaction` | the abstract promise of `patch-state`: a transaction on a document |
| `PatchStackMC` | the operations and fault sets TLC uses |
| `ResolveTf` | `resolve tf`: matching entries to resources, and the two output files |
| `ResolveTfMC` | the import files, digests and mappings TLC uses |
| `ResolveTfProofs` | inductive invariant and safety theorems of `ResolveTf` |
| `Prober` | `importsupport.Prober` with the live-provider lookups of the digest |
| `ProberMC` | the resource types TLC uses |
| `SecretFlow` | a sensitive value from the Terraform state through digest, config and sidecar to injection |
| `SecretFlowMC` | the attributes, keys and previews TLC uses |
| `SecretFlowProofs` | what is in the files, and that an attribute gets its own value |
| `NameMap` | `BuildDigestNameMap`: which digest resource a state resource gets its values from |
| `StatePatch` | `PatchState` and `PatchStateFromCFN` over that map, field by field (extends `NameMap`) |
| `StatePatchMC` | the states, digests, mappings and fields TLC uses |
| `PatchStateProofs` | `PatchStack`: the gate, the inductive invariant, the refinement; `NameMap` and `StatePatch`: the theorems about guesses, reverts and further runs |
| `TofuLoad` | `LoadTerraformState` in the operator's directory, with failures and kills |
| `TofuLoadProofs` | inductive invariant and safety theorems of `TofuLoad` |
| `VersionMap` | a row of the table of bridged releases, and `RecommendPulumiProvider`, as operators |
| `ProviderMap` | `update-providermap`: workers, the table, its saves (extends `VersionMap`) |
| `ProviderMapMC` | the tables and upstream versions TLC uses |
| `ProviderMapProofs` | inductive invariant and theorems of `ProviderMap`, for any number of workers |
| `Providers` | resolution, pins, mapping cache, installation, bridging and reaping, by several tools (extends `VersionMap`) |
| `ProvidersMC` | the tools, builds and lock files TLC uses |
| `ProvidersProofs` | that injections follow the digest, and what a reap takes |
| `TfDigest` | `digest tf` against a remote backend, from the installation of modules to the config |
| `TfDigestMC` | the variables, backends and tfvars files TLC uses |
| `DigestProofs` | `Prober`: what holds for any number of addresses, and what holds with one; `TfDigest`: the listing and the config |

Operators named `..._mutant`, `..._retry`, `..._clean` and `..._untyped` are broken
variants of the definition that follows them. No specification uses them;
`PROJECT.json` ("mutants") says which property notices which one.

### 2.1 BatchImport

One step of the model is one call of the process to the engine or the backend, with
the code around it:

| Action | Code (`pkg/batchimport/run.go` unless said) |
|---|---|
| `Launch` | the operator corrects reported IDs and starts the command (`cmd/import.go`) |
| `Plan` | lines 81-114: leave out components, leave out what `--resume` finds, end if it is a dry run |
| `ImportBatch` | 116-126: one `pulumi import` of `Payload(Batch)` = all components + the batch |
| `ReadAfterBatch` | 128-144: read the state; found entries are imported, the others missing |
| `IsolateOne` | 146-153: import one missing entry alone, with the components |
| `ReadAfterIsolation` | 155-171: one read decides on all missing entries; next batch |
| `ReadFails` | the error returns of 91-94, 129-132, 156-159 |
| `Crash` | the process is killed: its report is lost, the import under way has landed in part |

The stack is the set of entries whose resource is in it. An entry has a slot (`UrnOf`)
and a lookup key (`KeyOf`): the code looks resources up by leaf type and name
(`key.go`), which does not contain the parent, so two entries can share a key and
not a slot. What an import leaves behind (`Landings`) is the engine's choice:
any part of what can land when a step fails, since a failing step stops
the steps not yet started; everything when all IDs are good and the engine is `reliable`.
One that is not may also lose entries for no reason at all (throttling, timeouts). `reliable` and
`diligent` (the operator fixes every reported ID and never asks for a dry run) are chosen once, in the initial state.
A killed `import` ends its engine too.

### 2.2 PatchStack and VerifyGate

The backend replaces whole documents. There are two: the one before any run, and its
patched form; patching a patched document changes nothing, so a second run writes the same
one. The program is deterministic and a document fixes its preview: `program` maps
each document to an operation per URN, and TLC starts from every such map that
`Programs` allows. Whether a sidecar is given (`sidecar`) is chosen once; `Listed` are the resources it has. Every call of `RunE` is an action in the order of the code
(`probe, export, backup, prepare, inject, baseline, import, verify, restore, write`)
with a fault for each way it can fail, including an answer lost after the backend
acted (`importLost`, `restoreLost`). `Crash` may strike in any of them; a write under
way is made, not made, or torn. `AfterVerify`, `Restored`, `AfterExport` name the
decisions of the code, which the mutants change.

`prepare` stands for everything that works in memory only and can refuse: the digest,
the mapping, config secrets, the fields file, `PatchState` itself. Each backup has a file name of its
own: the name carries the second, and two runs within one second are
not modelled.

A run that was killed between import and verification leaves an unverified
document, and the next run takes its baseline from it, so it compares the
document with itself. The code does not promise more; `Recoverable` says what still holds: the
first backup has the old document.

### 2.3 Prober

A provider of the official registries is known by three addresses (`provideraddr`), one of
a third-party registry (`ThirdParty`) by one; `FormsOf` is that set, `asked` the form `Check` is called with.
`Held` is the lookup of `Prober.provider` (all forms of the provider), `discard` what a crash drops (the
asked form only), `Check` the memoised probe, `Resolve`/`Fetch` the loop of
`resolveInjectionProviders` that fetches the live provider for a type that cannot be
imported, `Close` the deferred shutdown. The mutex makes each call one step. Only
import probes are assumed to kill a provider; Classify appears as its three outcomes.

### 2.4 ResolveTf

Entries of the import file and resources of the digest are numbered in file and digest
order; which orders matter is then visible: `First` where the code takes file order,
`Last` where a Go map keeps the last of equal keys, `\E` where it ranges over a map.

| Action | Code (`pkg/import_filler.go` unless said) |
|---|---|
| `Launch` | the command is started, on the digest as it was or taken again without the import check |
| `MapResource` | phase 1: one explicit mapping, in any order |
| `Group` | what is left is grouped by component |
| `Pair`, `PairRoot` | phases 2 and 3: `matchChildren` is called for one mapped module, in any order, then for the root |
| `Match`, `Matched` | one turn of the loop of `matchChildren`, its end: the exact name, else the only candidate of the type |
| `Translate` | `TranslateImportIDs`, or its refusal of a formats file |
| `WriteOutput`, `WriteSidecar` | `cmd/import_id_match.go`: the import file, then the sidecar or its removal |
| `Crash` | a kill during a write |

`Assign` is `fillState.assign`: it fills an entry or diverts it. A diverted entry keeps its
placeholder, which is why the code guards it a second time. Matching is by
Pulumi type and by the name that follows `<component>-`; component entries are never
matched. An entry's ID is that of its resource: the ID catalog is one fact per
resource (`Composable`), because only which resource it reads matters. `guessed` is a
history variable: the entries matched by type alone.

### 2.5 SecretFlow

A value is known by whose it is (an attribute or a variable), its version, and what kind it is; that is
what tells a secret from a placeholder and one attribute's secret from another's. The state is
one function from attributes to values for all resources together, because config keys are shared by all of them.

| Action | Code |
|---|---|
| `Apply` | `terraform apply` between two commands: an attribute is set, changed or cleared |
| `Digest` | `matchResources` (`pkg/module_map.go`): redaction by the state's marks, then by the schema, then the check for leaks, which ends the command |
| `WriteDigest` | step 7 of `GenerateModuleMap`; `--skip-secrets` ends here |
| `Discover` | `DiscoverSensitiveSecrets`: colliding or overlong keys end the command |
| `SetKey`, `DigestDone` | `writeConfigValues`, one key of a Go map at a time; exit zero |
| `Abort` | an error or a kill anywhere in `digest tf`; a torn digest is read by no command |
| `Resolve` | `resolve tf` copies the attributes and derives their keys (`redactedAttributeKeys`) |
| `Inject` | `buildInjectedResource` for every resource, or its refusal: `OutputError`, `InputError`, `Survivors` are the ways to refuse |

`KeyOf` is `flattenAddressPath`, a parameter that may map two attributes to one key, as the flattening may.
`Composite`, `Numbers`, `Nested`, `Misnamed` are facts about an attribute that the code branches on; `Text` is the
conversion a value undergoes on its way into the config: a number comes back as text. `program` is
what a preview shows of an attribute as an input: nothing, a masked secret, an unknown. `truth` and `settled` are history:
the Terraform state the digest on disk was taken from, and whether the `digest tf` that wrote it exited zero. The
promises about recovery are made only then, since a digest whose secrets were not set is what a failed run leaves.
A plain input is not modelled (it comes from the program), nor are the raw-state delta and outputs that are
filled from inputs.

### 2.6 NameMap and StatePatch

The resources of the state are known by their names alone, as in the code: `Info` is the entry
of `stateInfos`, in which the last resource of a name stays.

| Action | Code (`pkg/state_patcher.go` unless said) |
|---|---|
| `Download` | `pkg/state_patcher_cfn.go`: the code of the functions that state and digest share, before anything is patched |
| `MapExplicit` | resource mappings; of two that name one resource the last visited stays |
| `MapGroup`, `MapChild`, `MapGroupEnd` | the modules of the mapping in map order, the root last; in each its children in map order: exact name, instance key (not at the root), the only candidate left of the type |
| `MapByLogicalID` | the map of `patch-state cfn` |
| `Visit` | the loop over the resources of the state; one that the fields file does not list is only counted |
| `PatchField` | `patchResourceFields`, one field: the input (`Filling`), then the output (`NewOutput`) |
| `Validate` | `injectAssetDeltas`, `Recover` over the raw-state delta, the revert |
| `Rerun` | the command once more, on what it left |

A field holds one of nine shapes of value, and a digest also the redacted form: these are the cases that `isEmptyValue`,
`isBadShape`, `resolveDigestValue` and the suppression of falsy defaults tell apart. `refuses` are the fields for which a delta has no
room. The asset entries go into a map that the live outputs hold as well; the snapshot has a copy, and `PutBack_mutant` is
what would happen without it.

`GivenOnce` is about `patch-state tf`: `patch-state cfn` gives one digest resource to every name that ends in its logical ID, as the code
means it to. `RerunSettled` is about resources that the run before came to: if that run failed before it, in the download of an asset's file,
nothing of it is settled yet.

### 2.7 TofuLoad

| Action | Code (`pkg/tofu/loader.go`) |
|---|---|
| `Launch`, `Operator` | the command is started, for a workspace, the current one or a state file; between two commands the operator may select a workspace |
| `ReadLock`, `Stash`, `Init_` | the lock file is read, `.terraform` renamed to the first free name, `tofu init` run |
| `Choose`, `Select`, `Show` | the workspace is asked for and selected, the state shown, or pulled, rewritten and shown |
| `Deselect`, `Remove`, `Restore`, `WriteLock` | the deferred calls, in reverse order |
| `Kill` | the process is killed; nothing deferred runs, and the next run finds what is there |

A directory is its owner (Terraform or OpenTofu) and its selected workspace; `own` is the operator's, `found` what this run found.

### 2.8 VersionMap and ProviderMap

A version is a number with its major in the tens, a release its rank; a row maps releases to versions, errors
or nothing, and a row that was cut off may have half an entry. `torn` is history: the last save of the run was cut off.

| Action | Code (`cmd/update_providermap.go`, `pkg/providermap`) |
|---|---|
| `Start` | the file is read: all its providers, or one that is named and may be new; one worker or several; `--recompute` |
| `FetchReleases` | a worker takes a provider; one whose releases cannot be listed is left as it is |
| `Skip`, `Infer`, `Add` | newest release first: `HasPulumiVersion`; `InferUpstreamVersion` outside the lock; `AddVersion` or `AddError` inside it, and the save of a single worker |
| `Leave`, `Finish` | the end of a provider; `wg.Wait` and the save at the end |
| `Kill`, `SaveFails` | a kill anywhere, which may leave half a clone; a save that fails before the file is touched, or is cut off anywhere (`CutOff`), since `os.WriteFile` empties the file and then writes it |

`Recommended` is a set: the sort by version does not keep the order of equals.

### 2.9 Providers

Tools run side by side. Each has a project with a lock file and a digest; they share the mapping cache, the plugins and
the table of processes.

| Action | Code |
|---|---|
| `Begin`, `Resolve`, `Settle`, `Fails`, `End` | `pkg/pulumi_providers.go`, `digest_provenance.go`: the loop over the providers, `RecommendPulumiProvider`, `applyProviderPin`, the errors that end it, the pins of the digest |
| `ReadCache`, `Store` | the mapping cache; a file is emptied, then written, and one that does not parse is loaded again |
| `Ensure`, `BeginInstall`, `Install` | `pkg/bridgedproviders/install.go`: the check for the binary, then its installation; the binary is there while another process installs it, and two that check first both install it |
| `Load`, `Ask` | `mapping.go`, `dynamic.go`: a plugin is started and asked; a dynamic one starts the Terraform provider |
| `List`, `Terminate` | `reap.go`: list until no provider awaits a new parent, or three seconds; then end what was listed |
| `Kill`, `Reparent`, `PluginEnds`, `Release` | a tool is killed and its plugin lives on; the kernel gives a new parent; a deserted plugin ends; a Terraform provider is released |

A mapping is what it was made from: `<<"static", name, release>>`, or the Terraform provider and the version that was bridged, the newest
(`latest`) if none was asked for. `origin` is history: the mappings that a digest was made with. The code matches a
process by its executable and by parent 1. A process number is not used again while a reap remembers it (`Unused`), and the
tool is not process 1 itself.

### 2.10 TfDigest

| Action | Code |
|---|---|
| `LoadConfig`, `OperatorInit` | `pkg/tofu_eval.go`: a manifest counts as installed modules; `tofu init`; or the operator's `terraform init` |
| `Pull`, `Lookup`, `Locate`, `Download`, `Parse` | `pkg/tfc/client.go`, `StatePull`: discovery, workspace, URL, state; the format of the state |
| `Discover`, `Workspace`, `ReadPage` | `ListVariables`: both are found again, then the pages are read until one says it is the last; order of scopes, `dedupeByKey` |
| `Build`, `Write`, `Collect`, `SetConfig` | `pkg/generate_module_map.go`: evaluation over `BuildRootVariables`, the digest, the tfvars files read again, one config key at a time |
| `SetSecrets` | `set-secrets`, with which the operator sets what was left out |
| `AddVariable`, `EditVariable`, `DeleteVariable`, `EditFiles` | others change the backend and the files meanwhile |
| `Kill` | in `tofu init` or a write it leaves what their failure leaves |

The backend's order is a set of places, some of them free, so that a variable can be added between two others; a page is those of the listed variables
whose `Index` is in its range, and what is read is kept with its page. Of two entries of a key `Ahead` says which one `dedupeByKey` meets first; two of one key and
one scope can only be on different pages, because the backend has one of each at a time.
The model has the same page twice: how the client computes its next page, and what the backend answers at that moment.
`steady` is history: the variables that have been there since the listing began.

## 3. What the runs check

| Run | Question | Instance |
|---|---|---|
| `BatchImport_runs` | is the report true and complete, does a resume re-import nothing, is isolation exact on a reliable engine, does the run refine the ledger, does it end, does repetition bring everything in? | 6 entries, batches of 2, every engine and operator, 2 faults; 142,942 states |
| `PatchStack_runs` | explained exits, recoverability, `--out`, the gate's safety, legitimate runs, the transaction, a verdict on every tentative document | 2 URNs, one listed in the sidecar, with and without sidecar, 5 operations, every fault, 2 of them; 214,990 states |
| `ResolveTf_fill` | are matches final and resources not shared, do the two files share the entries out, is an ID composed from the entry's own resource? | 3 entries, 3 resources, all orders of file and maps, 1 fault and any number of runs; 687,486 states |
| `Prober_probes` | containment of crashes, no second process without a crash in between, restart budget with one address | 2 providers, with three addresses and with one, 2 failed loads; 742,221 states |
| `Prober_forms` | no dead handle with three addresses | **violated**: finding 1 |
| `SecretFlow_disjoint` | no secret in a file, no placeholder in a state, each attribute its own value, everything replaced is recoverable | 5 attributes, 5 keys, 3 programs, 2 changes of the Terraform state, any number of runs, failures and kills; 1,011,194 states |
| `SecretFlow_override` | does each attribute get its own value when a workspace variable has its key? | **violated**: finding 2 |
| `StatePatch_values` | does a guess give nothing twice, and only the right type, is a revert complete, has a second run nothing left to do? | two families of inputs: every kind of match among 3 resources and 3 digest resources; every shape of value in two fields, from both commands; 599,714 states |
| `TofuLoad_kills` | is the operator's directory never lost, left as found by a run without an error, and the right workspace shown? | 3 workspaces, 3 runs, 2 faults; 50,445 states |
| `ProviderMap_runs` | does a run keep every version, is a run that ended complete, what can a single worker that stops have lost? | 2 providers, 3 releases, 1 or 2 workers, 2 runs, 1 fault; 105,406 states |
| `Providers_pins` | does an injection use the mappings of the digest, does a reap spare what lives and miss nothing of its own? | 2 tools, 3 builds, 2 providers, 3 sessions, a release, 1 fault; 3,806,265 states |
| `TfDigest_listing` | does a listing miss nothing, has the config what the digest was evaluated with? | 8 possible variables, 3 listings, pages of 2, 1 change, 1 fault, 2 runs; 1,105,737 states |

Deadlock is not checked in any run: the operator may stop launching a command, and
a closed prober does nothing.

**Why the bounds are enough.** In the file of `BatchImportMC` entry 2 is a component and
the parent of entry 3, so 3 lands only if components are part of every payload; the
five other entries make two full batches of 2 and a partial one, so both ends of the loop condition occur, a batch may fail in
part after one that did not, and a kill in any batch is followed by a resume. Two faults allow a
kill in the run that recovers from a kill. One URN suffices for the gate's per-resource
comparison and two for the interplay of an injected resource with a plain one (the
count comparison is redundant for any number of URNs: `CountCheckIsRedundant`).
The operations have one member per rank that a plain resource can meet. Two faults
make a failed restore after a failed preview, or a kill after a failed import.
In `ResolveTfMC` three entries of one type, two at one place and one at
the other, with three resources, give a guess that a later exact name would have claimed, two mapped
modules of one component, an entry named by two mappings and one by none, and shared or missing
IDs; one fault, between two runs, leaves a torn or a stale file for the next one to repair.
The crashing types of `ProberMC` are one more than the restart budget of 3, and
`MaxLoadFailures` bounds only spontaneous failures to start. A provider without a locked version behaves like one
that was given up on; the theorems hold for any `Locked`.
The attributes of `SecretFlowMC` have one of each kind the code branches on: marked by the state and the schema, by the schema alone, nested,
composite, nested and marked by the schema alone (which `digest tf` must refuse once it is set). Two of them have one key,
so `digest tf` succeeds only while one of the two is absent, and Terraform may swap which one it is: the key then
still has the secret of the other. Two changes allow that swap.
In `StatePatchMC` a component has two children, one of which may share its name with another resource, and a resource is outside it, so that a child
can take by elimination what a later one names, and a name can stand for two types; the second family has one match and every combination of an input, an
output and a digest value in one field, beside an asset field, so that a stale output, a revert after an asset and a suppressed default meet.
Three runs of `TofuLoad` with two faults are one that is killed, one that finds its leftovers and one after that.
Two runs of `ProviderMap` are one that leaves a cut-off or half-filled file and one that reads it; the rows have versions, errors and equal majors, and three releases put an
inferred version before, between and after known ones.
In `ProvidersMC` the release that is recommended for the locked version is not the newest, so that a pin that is ignored shows; one build maps to another
provider and records no pins; one session may be a digest, the next its injection, while the other tool uses the same cache, plugins and processes.
In `TfDigestMC` a listing has up to two pages and a half, so that an insertion moves a variable across a page, and workspace, environment and another workspace set one key.

**Fairness.** `BatchImport` and `PatchStack` assume weak fairness of `Run`: every call the code
makes through the automation API returns, and the code between two calls is a straight
line or a bounded loop. `Converges` also assumes that the operator repeats the command
(`Relaunch`), as the documentation asks. Faults and kills are never forced, and a kill is
always possible within the bound.

## 4. Findings

1. `Prober_forms`: `discard` deletes the handle under the asked address, while the
   handle that died can be one that `resolveInjectionProviders` started under an equivalent
   address after the asked one had failed to load. The dead handle is asked for every later
   type, and each falls back to the curated list. For the same reason the budget
   marks only the asked address: a provider given up on can be started once more under another
   (`GivenUpForGood` does not hold with three addresses either).
2. `SecretFlow_override`: the values of tfvars files and of workspace variables are appended to the secrets of the state under their own names, and
   the last entry of a key wins. The collision check sees only the secrets of the state. An attribute that flattens to the
   name of a sensitive variable is injected with the variable's value and no command fails; a plain variable makes the
   injection refuse. The same happens to a composite attribute whose key is also that of a scalar one: composites are skipped
   before the check, while the sidecar records a key for them (`InjectedIsOwn` is violated when `"user"` is added to `Composite`).

### Known divergences that no run of the project repeats

The modules also state what a comment or a doc says where the code does something narrower. TLC refutes each when it is
added to the configuration that is named:

| Property | What it says | Why it fails |
|---|---|---|
| `EveryBadIdSurfaced` (`BatchImport`, `KeyOf <- MCSharedKey`) | `cmd/import.go:48`: bad import IDs do not block the rest and are reported | a lookup is by type and name (`run.go:135`): with two entries of one type and name under different parents the good one's landing is taken for the bad one's |
| `NonZeroMeansUntouched` (`PatchStack_runs`) | `cmd/patch_state_tf.go:146`: a non-zero exit means untouched or reverted | `--out` that cannot be written after the verification (382) exits non-zero with the change kept, and says so; a lost answer of the import exits with the import's own error, of a document that is in the stack after all. `ExitExplained` and its theorem cover both: "kept" and "failed" count as explanations, so they do not tell a lost answer from a refusal |
| `InjectionNeverGuessed` (`ResolveTf_fill`) | `pkg/state_injector.go:64`: matched by exact type and name, never by a guess | the guess of `matchChildren` (`import_filler.go:401`) decides which entry is diverted, and injection then finds that name |
| `CurrentShown` (`TofuLoad_kills`) | `pkg/tofu/loader.go:48`: without a workspace, the state of the current one | the workspace is asked for after `.terraform` was put aside: it is always the default one |
| `LatestExists` (`ProviderMap_runs`) | `providermap.go:713`: a latest version is always found | a provider whose every release is an error is in the file |
| `PatchedOutputsRecover` (`StatePatch_values`) | `docs/pipeline-schema-and-state.md:381`: patched outputs that do not recover are reverted | the check is made only if an input was filled (`state_patcher.go:760`); an output alone may be filled |
| `ValuesOfOwnType` (`StatePatch_values`) | values come from a resource of the same type | two resources of different types with one name share a match |

Read while modelling, and not stated as a property: a variable that is deleted between two pages lets the client skip another; an empty plain variable
of the workspace, or an empty or null value of a later tfvars file, leaves an earlier text in the config while the evaluation used the empty value (`generate_module_map.go:226`), and the former is
warned of as redacted; the variables of the workspace are not set at all, without a message, when the state is not raw or no evaluation context can be made;
errors of `BuildEvalScopes` are dropped; a partial modules manifest makes `LoadConfig` fail until `terraform init`; a malformed HCL variable is skipped by the evaluation and set in
the config; a deposed instance overwrites the current one's secrets. A kill of `LoadTerraformState` loses the lock file, and two loads in one directory are not guarded against each other.
`--recompute` puts an error over a version that was known, and an error once recorded is not tried again without it; a save that was cut off may not parse, and half a clone
fails until it is removed by hand. A pin without a version is an unpinned provider, as documented; in a container whose process 1 is the tool or a
subreaper an orphan is not recognised; one static provider that fails drops the pins of the whole digest. A fields-file value that is an empty collection counts as a value in every run;
a `(sensitive)` below the top level is copied; an asset that is not found leaves Terraform's path.

## 5. What is proved

A module of proofs extends the one or two modules it is about. For every value of the constants that satisfies the named assumptions:

* `BatchImportProofs`, from `BatchImportAssumption`. The properties are not inductive
  as they stand; `IInv` adds `LoopInv` (where the process is in the loop, and that entries up to `start`, and
  only those, have a verdict), `FreshInv` (a resuming run's plan has nothing of the
  stack it started from), `AheadInv` (nothing of a later batch has landed) and
  `IsolationInv` (what an isolation import on a reliable engine must have brought). From it:
  `TypeCorrect`, `ReportIsSound`, `VerdictsCoverThePlan`, `ResumeNeverReimports`, `IsolationIsExact`. `RunImplementsLedger` is a
  step simulation under `UniqueKeys`; with shared keys the ledger is not implemented (`EveryBadIdSurfaced`, section 4).
* `PatchStateProofs`, on `PatchStack`, from `PatchStackAssumption` and `VerifyGateAssumption`. First the gate as an
  operator: `CountCheckIsRedundant` (the count comparison rejects nothing that the
  comparison by resource accepts: the newly dirty set would be non-empty) and
  `GateIsSafe`. Then the invariant (`RunInv`: what memory, backups and stack hold at each `pc`;
  `EndInv`: what an exit implies; `OutInv`), and from it `TypeCorrect`, `AlwaysRecoverable`,
  `OutIsNeverReverted`, `ZeroIsSafe`, `LegitimateRunsAreKept`, `ExitsAreExplained` (for every set of
  faults: the error of the import itself counts as an explanation, also when only its answer was lost) and the refinement `RunsAreTransactions`.
* `PatchStateProofs`, on `NameMap` and `StatePatch`, from `NameMapAssumption` and `StatePatchAssumption`, for any state, digest, mapping files, fields file,
  order of children and fields, and any number of runs. `PatcherTypeCorrect`. `GuessesAreGivenOnce` and `ValuesKeepTheType`, from `GroupInv`: what was guessed
  belongs to the module at hand, which remembers it in `used`, or to one that is not visited again; that the code forgets `used` between modules is
  harmless because a digest resource is in one module. `RevertsAreWhole`, from `VisitInv`: what has not been visited, and the snapshot of what is being visited, are as
  the run received them. `RerunsAreSettled`, the idempotence that `PatchStack` takes for granted of a patched document (section 2.2): `SettledInv` says of each visited field that another
  visit with the same digest value would fill nothing, whatever the order of the visits, and `RepeatInv` that a run that repeats settled visits has changed nothing so far. Two
  of the properties were too strong when their proofs were first tried (section 2.6): TLC then found the counterexamples on inputs of `patch-state cfn` that the instance did not have, and has now.
* `ResolveTfProofs`, from `ResolveAssumption` (its only assumption about data is that no provider uses
  the placeholder `<PLACEHOLDER>` as an ID; without it a filled entry could be filled again). `RInv`: what the phases have not
  visited is unmatched (`QueueInv`), an entry is filled or diverted but not both (`MatchedInv`), and what the files
  hold at the end (`DiskInv`); `SharedInv` tells which modules are done with. From it:
  `TypeCorrect`, `FilesPartitionEntries`, `MatchesAreFinal`, `SharingIsExplicit`, `CompositionIsOwn`.
* `DigestProofs`, on `Prober`, from `ProberAssumption`. With any number of addresses: `TypeCorrect`; `StartsFollowCrashes`, from `StartInv`
  (while nothing is held, every process that was started has been lost to a counted crash); and
  `FlakyTypesAreContained`, from `OtherInv` (a process is held under another address only when the asked one was given
  up on). Of the providers with one address (`ThirdParty`): `DeadHandlesAreDropped`, `RestartsAreBounded` and `GivingUpIsFinal`, from
  `BudgetInv` (a provider whose restarts are used up is given up on); all three fail with three addresses
  (finding 1).
* `DigestProofs`, on `TfDigest`, from `TfDigestAssumption` (of the backend it assumes that at first no two variables have one key and one scope). `DigestTypeCorrect`. `ListingsAreComplete`, for
  any page size and number of changes: while the listing goes on, a variable that stayed has been read or its `Index` is not below the pages read (`CoverInv`; an addition only
  moves it back, so it may be read twice and never missed), what was read of it is what it still is (`Reading`), and once there is no next page there is no index above the last
  (`LastPage`, integer division by the page size). `FirstIsKept` and `DedupedIsUnique` are what `dedupeByKey` promises.
  `ConfigFollows`: the evaluation and the later collection see the same files and variables (`EvaluationInv`), what is pending or set is what would be collected (`SettingInv`), and
  `set-secrets` touches only keys for which the workspace has no text (`SetInv`); the lemma `TextIsCollected` compares the two precedence rules of
  the code, that of `BuildRootVariables` and that of the config entries.
* `SecretFlowProofs`, from `SecretAssumption`: `TypeCorrect` (with `EntriesInv`: only keys with an entry are set), `SecretsStayOut` (with `LeakFree`:
  what is about to be written has no leak) and `PlaceholdersStayOut` hold for any attributes and keys. `OwnIsInjected` and
  `SecretsAreRecoverable` assume `OwnKeys`: no variable has the key of an attribute that may be redacted, and a composite one shares its key
  with none; finding 2 shows that both halves are needed. Their invariant follows `digest tf`: while it runs, each discovered attribute's key is yet to be set or
  holds its secret (`RunningInv`); after it has exited zero the digest, the config and the sidecar agree (`SettledInv`); a composite attribute never
  has a secret (`CompositeInv`).
* `TofuLoadProofs`, from `TofuLoadAssumption`: `TypeCorrect`, `OperatorsDirectorySurvives`, `DirectoryLeftAsFound`, `WhatWasAskedIsShown`, for any workspaces, backup
  names, runs and faults. `SavedInv` says where the operator's directory is between the rename and its reversal, `FoundInv` the same of a run that has met no
  error, `ShownInv` that `show` is reached in the workspace that was asked for.
* `ProviderMapProofs`, from `ProviderMapAssumption`: `KnownVersionsAreKept`, `NothingInferredIsLost`, `EndedRunsAreComplete` and `TypeCorrect`, for any number of workers. The argument:
  two workers are never at one provider (`ApartInv`), so what a worker inferred outside the lock is still the first word on its release when it is
  added (`InferInv`), and the file's versions are in the table (`KeptInv`); each release of a listed provider has an entry or is left to a worker (`DoneInv`).
  `NothingInferredIsLost` says what stopping costs a run of one worker: at most the version whose save failed. It excludes the save that is cut off (`TornInv`:
  a run that goes on has had none), which may cost any version of the file; `KnownVersionsAreKept` excludes that step too, and nothing in the code repairs it but a
  later run that infers the lost versions again, which `EndedRunsAreComplete` is about.
  `TheBestIsRecommended` holds for every table the file may ever hold. It rests on `FiniteMax`: a finite set of numbers has the maximum that the library's `Max` chooses,
  proved by well-foundedness of the strict subset order, since induction over sets is out of reach.
* `ProvidersProofs`, from `ProvidersAssumption`: `NoReapHitsTheLiving` (what a reap has listed stays an orphan or is gone: `HitsInv`), `ReapsAreThorough` (`OwnInv`: what is left of a
  tool's own providers, by where it is) and `InjectionsFollowTheDigest`: a mapping under a key is the key's (`CacheInv`, with torn entries), what is asked for is the pin
  (`DoingInv`, `InjectInv`), every provider has the mapping of what was asked for (`UsedInv`), and a pin with a version stands for the mapping of the digest (`OriginInv`).

Model-checked only: the liveness properties `RunEnds`, `Converges`,
`VerdictReached` (fairness is outside the prover); the violations. Every safety property of a passing run is also the statement of a theorem. `GuessOnlyOffConvention` of `ResolveTf` holds on its instance, where
the names of a component are distinct, and is neither proved nor part of a run. `GivenUpForGood` and `RecommendBest` are proved and not part of a run (the latter holds when
added to `ProviderMap_runs`), and so are the type invariants.

## 6. What is not modelled, and the plan

Left out, with the reason:

* the CloudFormation digest and resolve: one pass over a template, whose results are string data and AWS answers;
* the import-ID catalogs and rules: string formats generated from provider sources (`ResolveTf` has one fact per resource for them), and the
  scraper that makes them, a maintainer's tool;
* the walk of `BuildModuleMap` over modules and schemas, the raw-state delta and its precision: sequential traversals with no state of their own;
  what they redact is in `SecretFlow`, whom they probe in `Prober`;
* the order in which resources are injected: `VerifyDeploymentIntegrity` refuses a wrong one before anything is written;
* the refresh report, which gates nothing, and the migration check, which no command calls;
* rendering, HTTP, credentials, flags; file mode of `patch-state`.

What would come next: `Pipeline` (`ResolveTf`, `BatchImport` and `PatchStack` over one stack, with a second writer and a surviving child of a killed
import), the injection order as an operator with the integrity check as its specification, and the CloudFormation physical IDs.
