-------------------------------- MODULE TfDigest --------------------------------
(***************************************************************************)
(* digest tf against a remote backend, up to the variables: the modules are *)
(* installed in the operator's directory, the state is pulled, and then, in *)
(* requests of their own, the variables of the workspace are listed page by  *)
(* page.  The root module is evaluated with them, over the tfvars files, and *)
(* after the digest is written they are set in the config of the stack, over *)
(* the tfvars files read once more.  Meanwhile variables may be added, edited *)
(* and deleted in the backend, and the files edited.                         *)
(* The state's own secrets, which go to the same config, are in SecretFlow.  *)
(***************************************************************************)
EXTENDS Naturals, FiniteSets

CONSTANTS
  Items,      \* the variables that the backend may have
  Places,     \* places in the order in which the backend lists them
  Listings,   \* the variables at some of the places, to begin with
  PageSize,   \* how many a page has (100 in the code)
  Backends,   \* what the backend serves; see Backend
  Declared,   \* the variables that the root module declares
  Defaults,   \* those with a default
  TfVars,     \* what the tfvars files may say, by the order in which they are read
  MaxChanges, \* bound on the changes during a run
  MaxFaults,  \* bound on the failing steps, and on the kills
  MaxRuns

\* Values of variables; a malformed one is no HCL expression.
Empty == "empty"     \* the empty string
Null == "null"
Malformed == "malformed"
Unknown == "unknown" \* cty.UnknownVal
Default == "default" \* cty.NilVal for a variable with a default
Unset == "unset"
ByHand == "by hand"  \* an attribute of the state
Texts == {"a", "b"}

Keys == {v.key : v \in Items}

Item == [key : STRING, value : Texts \cup {Empty, Malformed}, hcl : BOOLEAN,
         sensitive : BOOLEAN, category : {"terraform", "env"},
         scope : {"workspace", "environment", "sibling"}]

\* iacp: there is a Scalr API; redacts: the value of a sensitive variable is
\* left out; named: the organization is given by its name and not its ID.
Backend == [iacp : BOOLEAN, redacts : BOOLEAN, named : BOOLEAN]

Clash(v, w) == v.key = w.key /\ v.scope = w.scope

ASSUME TfDigestAssumption ==
  /\ Items \subseteq Item /\ Places \subseteq Nat
  /\ \A list \in Listings :
       /\ list \in [DOMAIN list -> Items]
       /\ DOMAIN list \subseteq Places /\ IsFiniteSet(DOMAIN list)
       /\ \A q, r \in DOMAIN list : Clash(list[q], list[r]) => q = r
  /\ Backends \subseteq Backend
  /\ Defaults \subseteq Declared
  /\ PageSize \in Nat \ {0} /\ MaxChanges \in Nat /\ MaxFaults \in Nat /\ MaxRuns \in Nat
  /\ \A said \in TfVars :
       /\ DOMAIN said \subseteq Nat /\ IsFiniteSet(DOMAIN said)
       /\ \A i \in DOMAIN said : said[i] \in [DOMAIN said[i] -> Texts \cup {Empty, Null}]

VARIABLES
  server,    \* the variables of the backend, each at its place
  backend,
  files,     \* the tfvars files, terraform.tfvars first
  modules,   \* .terraform/modules: "none", "some" or "all" of those that are called,
             \* or "hidden": none, and the calls are not in a form that is looked for
  pc,
  source,    \* "remote", a "raw" state file, or one that tofu "show" wrote
  skip,      \* --skip-secrets
  context,   \* whether the evaluation context could be made
  page,      \* the page to read
  entries,   \* the variables read so far, each with its page
  remote,    \* remoteVars: none, too, when they could not be listed
  evaluated, \* declared variable -> the value the root module is evaluated with
  pending,   \* config entries that are to be set
  digest,    \* the file: the values it was evaluated with, or None
  config,    \* key -> what the config of the stack has
  listed,    \* history: whether they could be listed in this run
  steady,    \* history: the variables that the backend has had since the listing began
  deleted,   \* history: whether one was deleted or replaced since then
  edited,    \* history: whether the files changed in this run
  changes, faults, runs

world == <<server, backend, files, modules>>
options == <<source, skip>>
listing == <<page, entries, remote>>
history == <<listed, steady, deleted, edited>>
bounds == <<changes, faults, runs>>
digestVars == <<world, pc, options, context, listing, evaluated, pending, digest,
                config, history, bounds>>

None == <<>>
Ended == {"idle", "failed", "done"}

Fails == faults < MaxFaults /\ faults' = faults + 1 /\ UNCHANGED <<changes, runs>>
Succeeds == UNCHANGED bounds

-----------------------------------------------------------------------------
(* The variables of the backend, as the client reads them.                 *)

Present == {server[r] : r \in DOMAIN server}

\* What the route answers: the Scalr API has every variable of the environment,
\* those of other workspaces in it too; the other one has the workspace's own.
Served == {r \in DOMAIN server : backend.iacp \/ server[r].scope = "workspace"}

\* How many variables the route lists before the one at r.
Index(r) == Cardinality({q \in Served : q < r})

PageCount == (Cardinality(Served) + PageSize - 1) \div PageSize
NextPage == IF page < PageCount THEN page + 1 ELSE 0
Page == {r \in Served : (page - 1) * PageSize <= Index(r) /\ Index(r) < page * PageSize}

\* fetchVarsPages goes on; it judges each page by that page's own pagination.
MorePages_mutant == page + 1 < PageCount
MorePages == NextPage # 0 /\ page < PageCount

Redacted(v) == IF v.sensitive /\ backend.redacts THEN [v EXCEPT !.value = Empty] ELSE v
Read == {[page |-> page, var |-> Redacted(server[r])] :
          r \in {r \in Page : server[r].category = "terraform"}}

\* listScalrVars: the workspace's before the environment's; others' are left out.
\* Two of one key and scope are never on one page.
Kept(read) == {e \in read : e.var.scope # "sibling"}
Ahead(e, f) ==
  \/ e.var.scope = "workspace" /\ f.var.scope = "environment"
  \/ e.var.scope = f.var.scope /\ e.page < f.page

\* dedupeByKey: the first of each key.
Deduped(read) ==
  {e.var : e \in {e \in Kept(read) :
                    \A f \in Kept(read) : f.var.key = e.var.key => ~Ahead(f, e)}}

RemoteOf(list, k) == {v \in list : v.key = k}

-----------------------------------------------------------------------------
(* BuildRootVariables, and the entries of the config.                      *)

\* The last file that has k, of those in which its value satisfies P.
LastWith(k, values) ==
  LET having == {i \in DOMAIN files : k \in DOMAIN files[i] /\ files[i][k] \in values}
  IN  IF having = {} THEN Unset
      ELSE files[CHOOSE i \in having : \A j \in having : j <= i][k]

FromFiles(k) ==
  LET value == LastWith(k, Texts \cup {Empty, Null})
  IN  IF value # Unset THEN value ELSE IF k \in Defaults THEN Default ELSE Unknown

\* parseHCLExpression refuses a malformed expression, and an empty one.
Unparsable(v) == v.hcl /\ v.value \in {Malformed, Empty}

RootVariables ==
  [k \in Declared |->
     LET own == RemoteOf(remote, k)
     IN  IF \E v \in own : v.sensitive THEN Unknown
         ELSE IF \E v \in own : ~Unparsable(v) THEN (CHOOSE v \in own : TRUE).value
         ELSE FromFiles(k)]

\* The later of two entries of one key is set.  An entry with no text is left
\* out: of a file silently, of the workspace with a warning that it is redacted.
Entry_mutant(k) ==
  LET own == {v \in RemoteOf(remote, k) : v.value # Empty}
  IN  IF own # {} /\ (k \in Declared => LastWith(k, Texts) = Unset)
      THEN [value |-> (CHOOSE v \in own : TRUE).value, secret |-> \E v \in own : v.sensitive]
      ELSE [value |-> IF k \in Declared THEN LastWith(k, Texts) ELSE Unset, secret |-> FALSE]
Entry(k) ==
  LET own == {v \in RemoteOf(remote, k) : v.value # Empty}
  IN  IF own # {}
      THEN [value |-> (CHOOSE v \in own : TRUE).value, secret |-> \E v \in own : v.sensitive]
      ELSE [value |-> IF k \in Declared THEN LastWith(k, Texts) ELSE Unset, secret |-> FALSE]

Entries == {k \in Keys \cup Declared : Entry(k).value # Unset}

-----------------------------------------------------------------------------

Start ==
  /\ pc \in Ended /\ runs < MaxRuns
  /\ pc' = "load"
  /\ source' \in {"remote", "raw", "show"} /\ skip' \in BOOLEAN
  /\ context' = FALSE /\ page' = 1 /\ entries' = {} /\ remote' = {}
  /\ evaluated' = None /\ pending' = {}
  /\ listed' = FALSE /\ steady' = {} /\ deleted' = FALSE /\ edited' = FALSE
  /\ runs' = runs + 1
  /\ UNCHANGED <<world, digest, config, changes, faults>>

\* Nothing but pc and the bounds.
OnlyMove == UNCHANGED <<world, options, context, listing, evaluated, pending, digest,
                        config, history>>

\* A step that may fail and changes nothing, and where its failure leads.
Step(from, to, otherwise) ==
  /\ pc = from
  /\ \/ pc' = to /\ Succeeds
     \/ pc' = otherwise /\ Fails
  /\ OnlyMove

\* configHasModules looks for a line of a .tf file of the root that is a module block.
HasModules == modules # "hidden"

\* runTofuInit: what a failing one leaves, which may be a manifest.
Installing == {"none", "some"}

\* LoadConfig.  A manifest counts as installed modules, whatever it lacks;
\* without one tofu init is run, whose failure is tolerated if there is one then.
LoadConfig ==
  /\ pc = "load"
  /\ \/ /\ modules = "none" /\ HasModules /\ Fails
        /\ modules' \in Installing /\ pc' = "failed"
     \/ modules = "none" /\ HasModules /\ Succeeds /\ modules' = "all" /\ pc' = "pull"
     \/ modules \in {"some", "hidden"} /\ Succeeds /\ UNCHANGED modules /\ pc' = "failed"
     \/ modules = "all" /\ Succeeds /\ UNCHANGED modules /\ pc' = "pull"
  /\ UNCHANGED <<server, backend, files, options, context, listing, evaluated, pending,
                 digest, config, history>>

\* StatePull: discovery, the workspace's ID, the URL of its state, the state.  Or
\* the state file is read.
Pull ==
  \/ /\ source # "remote" /\ Step("pull", "parse", "failed")
  \/ /\ source = "remote" /\ Step("pull", "lookup", "failed")
Lookup == Step("lookup", "locate", "failed")
Locate == Step("locate", "download", "failed")
Download == Step("download", "parse", "failed")

\* DetectStateFormatBytes: what tofu show wrote has a format_version.
IsRaw == source # "show"

\* Only a raw state is evaluated, and it goes on if no context can be made.
Parse ==
  /\ pc = "parse"
  /\ \/ /\ \/ Succeeds /\ context' = IsRaw
           \/ IsRaw /\ Fails /\ context' = FALSE
        /\ pc' = IF source = "remote" /\ context' THEN "discover" ELSE "build"
     \/ Fails /\ pc' = "failed" /\ UNCHANGED context
  /\ UNCHANGED <<world, options, listing, evaluated, pending, digest, config, history>>

\* ListVariables finds the API and the workspace again.  Its failure is a warning.
Discover == Step("discover", "workspace", "build")
Workspace ==
  /\ pc = "workspace"
  /\ \/ pc' = "page" /\ Succeeds /\ ~(backend.iacp /\ backend.named)
     \/ pc' = "build" /\ Succeeds /\ backend.iacp /\ backend.named
     \/ pc' = "build" /\ Fails
  /\ steady' = IF pc' = "page" THEN Present ELSE steady
  /\ UNCHANGED <<world, options, context, listing, evaluated, pending, digest, config,
                 listed, deleted, edited>>

ReadPage ==
  /\ pc = "page"
  /\ \/ /\ Succeeds
        /\ entries' = entries \cup Read
        /\ IF MorePages
           THEN page' = page + 1 /\ UNCHANGED <<remote, listed, pc>>
           ELSE /\ remote' = Deduped(entries') /\ listed' = TRUE
                /\ pc' = "build" /\ UNCHANGED page
     \/ Fails /\ pc' = "build" /\ UNCHANGED <<listing, listed>>
  /\ UNCHANGED <<world, options, context, evaluated, pending, digest, config, steady,
                 deleted, edited>>

\* BuildEvalScopes walks the graph of the root module once; its errors are dropped.
Evaluation == IF context THEN RootVariables ELSE None

\* The module map that is made with the evaluation.
Build ==
  /\ pc = "build"
  /\ \/ /\ Succeeds /\ pc' = "write"
        /\ evaluated' = Evaluation
     \/ Fails /\ pc' \in {"write", "failed"} /\ evaluated' = None
  /\ UNCHANGED <<world, options, context, listing, pending, digest, config, history>>

Write ==
  /\ pc = "write"
  /\ \/ Succeeds /\ digest' = evaluated /\ pc' = IF skip THEN "done" ELSE "collect"
     \/ Fails /\ digest' \in {digest, None} /\ pc' = "failed"
  /\ UNCHANGED <<world, options, context, listing, evaluated, pending, config, history>>

\* The files are read again.  Of a map with these entries, each is set.
Collect ==
  /\ pc = "collect"
  /\ \/ /\ Succeeds /\ pc' = "set"
        /\ pending' = {[key |-> k, entry |-> Entry(k)] : k \in Entries}
     \/ Fails /\ pc' = "failed" /\ UNCHANGED pending
  /\ UNCHANGED <<world, options, context, listing, evaluated, digest, config, history>>

SetConfig ==
  /\ pc = "set"
  /\ \/ \E p \in pending :
          /\ Succeeds
          /\ config' = [config EXCEPT ![p.key] = p.entry]
          /\ pending' = pending \ {p}
          /\ UNCHANGED pc
     \/ /\ Succeeds /\ pending = {} /\ pc' = "done" /\ UNCHANGED <<config, pending>>
     \/ /\ Fails /\ pc' = "failed" /\ UNCHANGED <<config, pending>>
  /\ UNCHANGED <<world, options, context, listing, evaluated, digest, history>>

\* set-secrets, with which the operator sets a variable that digest tf warned of,
\* from an attribute of the state.
SetSecrets ==
  /\ pc \in Ended
  /\ \E v \in remote :
       /\ v.value = Empty
       /\ config' = [config EXCEPT ![v.key] = [value |-> ByHand, secret |-> TRUE]]
  /\ UNCHANGED <<world, pc, options, context, listing, evaluated, pending, digest,
                 history, bounds>>

\* A kill during tofu init or a write leaves what a failure of it leaves.
Kill ==
  /\ pc \notin Ended /\ Fails
  /\ pc' = "failed"
  /\ modules' \in IF pc = "load" /\ modules = "none" THEN Installing ELSE {modules}
  /\ digest' \in IF pc = "write" THEN {digest, None} ELSE {digest}
  /\ UNCHANGED <<server, backend, files, options, context, listing, evaluated, pending,
                 config, history>>

-----------------------------------------------------------------------------
(* What others do meanwhile.                                               *)

Change ==
  /\ changes < MaxChanges /\ changes' = changes + 1
  /\ UNCHANGED <<backend, modules, pc, options, context, listing, evaluated, pending,
                 digest, config, faults, runs>>

AddVariable ==
  /\ Change
  /\ \E v \in Items, n \in Places \ DOMAIN server :
       /\ \A w \in Present : ~Clash(v, w)
       /\ server' = [r \in DOMAIN server \cup {n} |-> IF r = n THEN v ELSE server[r]]
  /\ UNCHANGED <<files, history>>

EditVariable ==
  /\ Change
  /\ \E n \in DOMAIN server, v \in Items :
       /\ v # server[n] /\ Clash(v, server[n])
       /\ server' = [server EXCEPT ![n] = v]
       /\ steady' = steady \ {server[n]}
  /\ UNCHANGED <<files, listed, deleted, edited>>

DeleteVariable ==
  /\ Change
  /\ \E n \in DOMAIN server :
       /\ server' = [r \in DOMAIN server \ {n} |-> server[r]]
       /\ steady' = steady \ {server[n]}
  /\ deleted' = TRUE
  /\ UNCHANGED <<files, listed, edited>>

EditFiles ==
  /\ Change
  /\ files' \in TfVars \ {files}
  /\ edited' = TRUE
  /\ UNCHANGED <<server, listed, steady, deleted>>

\* terraform init, which installs the modules.
OperatorInit ==
  /\ pc \in Ended /\ modules # "all"
  /\ modules' = "all"
  /\ UNCHANGED <<server, backend, files, pc, options, context, listing, evaluated, pending,
                 digest, config, history, bounds>>

DigestInit ==
  /\ server \in Listings /\ backend \in Backends /\ files \in TfVars
  /\ modules \in {"none", "all", "hidden"}
  /\ pc = "idle" /\ source = "remote" /\ skip = FALSE
  /\ context = FALSE /\ page = 1 /\ entries = {} /\ remote = {}
  /\ evaluated = None /\ pending = {} /\ digest = None
  /\ config = [k \in Keys \cup Declared |-> [value |-> Unset, secret |-> FALSE]]
  /\ listed = FALSE /\ steady = {} /\ deleted = FALSE /\ edited = FALSE
  /\ changes = 0 /\ faults = 0 /\ runs = 0

DigestNext ==
  \/ Start \/ LoadConfig \/ Pull \/ Lookup \/ Locate \/ Download \/ Parse
  \/ Discover \/ Workspace \/ ReadPage
  \/ Build \/ Write \/ Collect \/ SetConfig \/ SetSecrets \/ Kill
  \/ AddVariable \/ EditVariable \/ DeleteVariable \/ EditFiles \/ OperatorInit

DigestSpec == DigestInit /\ [][DigestNext]_digestVars

-----------------------------------------------------------------------------
(* Properties.                                                             *)

Shown == Texts \cup {Empty, Malformed, Null, Unknown, Default, Unset, ByHand}
Setting == [value : Shown, secret : BOOLEAN]

DigestTypeOK ==
  /\ server \in [DOMAIN server -> Items]
  /\ DOMAIN server \subseteq Places /\ IsFiniteSet(DOMAIN server)
  /\ backend \in Backends /\ files \in TfVars
  /\ modules \in {"none", "some", "all", "hidden"}
  /\ pc \in Ended \cup {"load", "pull", "lookup", "locate", "download", "parse", "discover",
                        "workspace", "page", "build", "write", "collect", "set"}
  /\ source \in {"remote", "raw", "show"} /\ skip \in BOOLEAN /\ context \in BOOLEAN
  /\ page \in Nat \ {0}
  /\ entries \subseteq [page : Nat, var : Item] /\ remote \subseteq Item
  /\ evaluated \in {None} \cup [Declared -> Shown]
  /\ digest \in {None} \cup [Declared -> Shown]
  /\ pending \subseteq [key : Keys \cup Declared, entry : Setting]
  /\ config \in [Keys \cup Declared -> Setting]
  /\ listed \in BOOLEAN /\ deleted \in BOOLEAN /\ edited \in BOOLEAN
  /\ steady \subseteq Present
  /\ changes \in 0..MaxChanges /\ faults \in 0..MaxFaults /\ runs \in 0..MaxRuns

\* A listing that was made while nothing was deleted misses no variable that was
\* there all along: of the workspace it has the variable itself, of the
\* environment at least its key, and of other workspaces nothing.
ListingComplete ==
  listed /\ ~deleted =>
    /\ \A v \in steady :
         v.category = "terraform" /\ v.scope = "workspace" => Redacted(v) \in remote
    /\ backend.iacp =>
         \A v \in steady :
           v.category = "terraform" /\ v.scope = "environment" => RemoteOf(remote, v.key) # {}
    /\ \A v \in remote : v.scope # "sibling" /\ Cardinality(RemoteOf(remote, v.key)) = 1

\* The program that is written against the digest reads its variables from the
\* config of the stack: after a run that exits zero, and unless the files were
\* edited during it, a variable that the digest was evaluated with a text has this
\* text there, whatever earlier and failed runs left.
ConfigFollowsDigest ==
  pc = "done" /\ ~skip /\ ~edited /\ evaluated # None =>
    \A k \in Declared :
      /\ evaluated[k] \in Texts
      /\ ~\E v \in RemoteOf(remote, k) : Unparsable(v)
      => config[k].value = evaluated[k]
=============================================================================
