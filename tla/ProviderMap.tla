------------------------------ MODULE ProviderMap ------------------------------
(***************************************************************************)
(* update-providermap: workers infer the upstream version of every release  *)
(* that the table does not list, and the table is saved, after each version  *)
(* when there is one worker and at the end.  Runs may be killed, and calls   *)
(* of git and of GitHub may fail.                                            *)
(***************************************************************************)
EXTENDS VersionMap

CONSTANTS
  Providers,  \* the bridged providers
  Releases,   \* the releases of each, by rank
  Workers,    \* the workers of a parallel run
  Tables,     \* what the file may hold at first
  Truth,      \* what the submodule, the commit message and the notes say
  TfVersions, \* the versions a state may ask for; 0 is none
  MaxRuns, MaxFaults \* bounds on the runs, and on the failing calls and kills

Sources == {"submodule", "message", "notes"}

ASSUME ProviderMapAssumption ==
  /\ Releases \subseteq Nat \ {0} /\ IsFiniteSet(Releases)
  /\ "none" \notin Providers
  /\ \A t \in Tables : DOMAIN t \subseteq Providers
                       /\ \A p \in DOMAIN t : t[p] \in [Releases -> {Unlisted, Error} \cup {n \in Nat : n >= 10}]
  /\ Truth \in [Providers -> [Releases -> [Sources -> {0} \cup {n \in Nat : n >= 10}]]]
  /\ TfVersions \subseteq {0} \cup {n \in Nat : n >= 10}
  /\ MaxRuns \in Nat /\ MaxFaults \in Nat

VARIABLES
  disk,     \* the file: a row per provider that it lists
  parses,   \* FALSE when the file was cut off where it does not parse
  torn,     \* history: the last save of the run was cut off
  repo,     \* the clone that is kept for each provider
  pc,
  vm,       \* the table in memory
  options,  \* of the run: recompute, parallel
  queue,    \* providers that no worker has taken
  at,       \* what each worker is at: provider, releases left, what was inferred
  fetched,  \* history: the providers whose releases this run could list
  runs, faults

vars == <<disk, parses, torn, repo, pc, vm, options, queue, at, fetched, runs, faults>>

Free == [provider |-> "none", left |-> {}, inferred |-> Unlisted]
Busy(w) == at[w].provider # "none"
Fault == faults < MaxFaults /\ faults' = faults + 1
NoFault == UNCHANGED faults

\* The workers of this run; one when it is sequential.
Active == IF options.parallel THEN Workers ELSE {CHOOSE w \in Workers : TRUE}

\* The releases are visited newest first.
Next_(w) == Max(at[w].left)

\* HasPulumiVersion: an entry with an error counts.
Skipped_mutant(row, r) == row[r] = Error /\ ~options.recompute
Skipped(row, r) == row[r] # Unlisted /\ ~options.recompute

\* wg.Wait, or the end of the loop over the providers.
AllDone_mutant == queue = {}
AllDone == queue = {} /\ \A w \in Workers : ~Busy(w)

\* Whether the table is saved when an entry has been added.
SavedNow_mutant(entry) == FALSE
SavedNow(entry) == ~options.parallel /\ IsVersion(entry)

WithEntry(p, r, entry) == [vm EXCEPT ![p][r] = entry]

\* A file that was being written when the process was killed: rows in order,
\* newest release first, up to some place.
CutAt(table, gone, cut, last) ==
  [p \in (DOMAIN table) \ gone |->
     IF p # cut THEN table[p]
     ELSE [r \in Releases |-> IF r > last THEN table[p][r]
                              ELSE IF r = last /\ table[p][r] # Unlisted THEN Half
                              ELSE Unlisted]]
CutOff(table) ==
  {CutAt(table, gone, cut, last) : gone \in SUBSET DOMAIN table, cut \in DOMAIN table, last \in Releases}

-----------------------------------------------------------------------------

\* All the providers of the file, or one that is named and may be new.
Start ==
  /\ pc \in {"idle", "ended"} /\ runs < MaxRuns
  /\ runs' = runs + 1
  /\ options' \in [recompute : BOOLEAN, parallel : BOOLEAN]
  /\ IF ~parses
     THEN pc' = "idle" /\ UNCHANGED <<vm, queue, torn>>
     ELSE /\ pc' = "running" /\ torn' = FALSE
          /\ \/ vm' = disk /\ queue' = DOMAIN disk
             \/ \E p \in Providers :
                  /\ queue' = {p}
                  /\ vm' = [q \in DOMAIN disk \cup {p} |->
                              IF q \in DOMAIN disk THEN disk[q] ELSE [r \in Releases |-> Unlisted]]
  /\ at' = [w \in Workers |-> Free] /\ fetched' = {}
  /\ UNCHANGED <<disk, parses, repo, faults>>

\* A provider whose releases cannot be listed is left as it is.
FetchReleases(w) ==
  /\ pc = "running" /\ w \in Active /\ ~Busy(w)
  /\ \E p \in queue :
       /\ queue' = queue \ {p}
       /\ \/ /\ NoFault /\ fetched' = fetched \cup {p}
             /\ at' = [at EXCEPT ![w] = [provider |-> p, left |-> Releases, inferred |-> Unlisted]]
          \/ Fault /\ UNCHANGED <<at, fetched>>
  /\ UNCHANGED <<disk, parses, torn, repo, pc, vm, options, runs>>

Skip(w) ==
  /\ pc = "running" /\ Busy(w) /\ at[w].inferred = Unlisted
  /\ at[w].left # {} /\ Skipped(vm[at[w].provider], Next_(w))
  /\ at' = [at EXCEPT ![w].left = @ \ {Next_(w)}]
  /\ UNCHANGED <<disk, parses, torn, repo, pc, vm, options, queue, fetched, runs, faults>>

\* The first of the sources that says anything; each call may fail.
Inferred(p, r, failing) ==
  LET source == Truth[p][r]
      saying(s) == s \notin failing /\ source[s] # 0
  IN IF saying("submodule") THEN source["submodule"]
     ELSE IF saying("message") THEN source["message"]
     ELSE IF saying("notes") THEN source["notes"]
     ELSE Error

\* InferUpstreamVersion, outside the lock.  The release is cloned, or fetched
\* into the clone that is there.
Infer(w) ==
  /\ pc = "running" /\ Busy(w) /\ at[w].inferred = Unlisted
  /\ at[w].left # {} /\ ~Skipped(vm[at[w].provider], Next_(w))
  /\ LET p == at[w].provider
         r == Next_(w)
         found(entry) == at' = [at EXCEPT ![w].inferred = entry]
     IN \/ repo[p] = "broken" /\ NoFault /\ found(Error) /\ UNCHANGED repo
        \/ repo[p] # "broken" /\ NoFault /\ found(Inferred(p, r, {})) /\ repo' = [repo EXCEPT ![p] = "whole"]
        \/ repo[p] # "broken" /\ Fault /\ found(Error) /\ UNCHANGED repo
        \/ /\ repo[p] # "broken" /\ Fault /\ repo' = [repo EXCEPT ![p] = "whole"]
           /\ \E s \in {"submodule", "notes"} : found(Inferred(p, r, {s}))
  /\ UNCHANGED <<disk, parses, torn, pc, vm, options, queue, fetched, runs>>

\* The file cannot be opened, or the process is killed before it is; or either
\* happens while it is written.
SaveFails(table) ==
  /\ Fault /\ pc' = "idle"
  /\ \/ UNCHANGED <<disk, parses, torn>>
     \/ disk' \in CutOff(table) /\ parses' \in BOOLEAN /\ torn' = TRUE

\* AddVersion or AddError, under the lock: the last word on the release.  A save
\* that fails ends the process.
Add(w) ==
  /\ pc = "running" /\ Busy(w) /\ at[w].inferred # Unlisted
  /\ LET entry == at[w].inferred
         table == WithEntry(at[w].provider, Next_(w), entry)
     IN /\ vm' = table
        /\ \/ /\ NoFault /\ UNCHANGED <<pc, parses, torn>>
              /\ disk' = IF SavedNow(entry) THEN table ELSE disk
           \/ SavedNow(entry) /\ SaveFails(table)
  /\ at' = [at EXCEPT ![w].left = @ \ {Next_(w)}, ![w].inferred = Unlisted]
  /\ UNCHANGED <<repo, options, queue, fetched, runs>>

Leave(w) ==
  /\ pc = "running" /\ Busy(w) /\ at[w].left = {}
  /\ at' = [at EXCEPT ![w] = Free]
  /\ UNCHANGED <<disk, parses, torn, repo, pc, vm, options, queue, fetched, runs, faults>>

Finish ==
  /\ pc = "running" /\ AllDone
  /\ \/ NoFault /\ disk' = vm /\ pc' = "ended" /\ UNCHANGED <<parses, torn>>
     \/ SaveFails(vm)
  /\ UNCHANGED <<repo, vm, options, queue, at, fetched, runs>>

\* Killed anywhere; a kill while a release is cloned leaves half a clone.
Kill ==
  /\ pc = "running" /\ Fault /\ pc' = "idle"
  /\ repo' \in {repo} \cup {[repo EXCEPT ![at[w].provider] = "broken"] :
       w \in {w \in Workers : Busy(w) /\ at[w].inferred = Unlisted /\ repo[at[w].provider] = "none"}}
  /\ UNCHANGED <<disk, parses, torn, vm, options, queue, at, fetched, runs>>

Init ==
  /\ disk \in Tables /\ vm = disk /\ parses = TRUE /\ torn = FALSE
  /\ repo = [p \in Providers |-> "none"]
  /\ pc = "idle" /\ options = [recompute |-> FALSE, parallel |-> FALSE]
  /\ queue = {} /\ at = [w \in Workers |-> Free] /\ fetched = {}
  /\ runs = 0 /\ faults = 0

Next ==
  \/ Start \/ Finish \/ Kill
  \/ \E w \in Workers : FetchReleases(w) \/ Skip(w) \/ Infer(w) \/ Add(w) \/ Leave(w)

Spec == Init /\ [][Next]_vars

-----------------------------------------------------------------------------
(* Properties.                                                             *)

\* A version that the file has is never lost and never changed, unless it is
\* computed anew or the file is cut off: not by the errors of a later run, and
\* not by workers that add to one table.
VersionsKept ==
  [][(pc' # "idle" /\ ~options'.recompute) =>
       \A p \in DOMAIN disk, r \in Releases :
         IsVersion(disk[p][r]) => p \in DOMAIN disk' /\ disk'[p][r] = disk[p][r]]_vars

\* A run that ended has an entry in the file for every release of a provider
\* whose releases it could list: the save waits for every worker, and makes up
\* for what an earlier save that was cut off had lost.
EndedComplete ==
  pc = "ended" => \A p \in fetched, r \in Releases : p \in DOMAIN disk /\ disk[p][r] # Unlisted

\* The versions of the table that the file does not have.
Unsaved ==
  {a \in (DOMAIN vm) \X Releases :
     /\ IsVersion(vm[a[1]][a[2]])
     /\ a[1] \notin DOMAIN disk \/ disk[a[1]][a[2]] # vm[a[1]][a[2]]}

\* A run of one worker, while it runs and wherever it is killed or fails, has
\* every version that it added in the file, but the one whose save failed; unless
\* that save was cut off, which may cost any version of the file.
SequentialSaved ==
  ~options.parallel /\ ~torn =>
    /\ pc = "running" => Unsaved = {}
    /\ \A a, b \in Unsaved : a = b

\* The release that is recommended bridges the largest version that is not newer
\* than the one in the state, of its major, whenever the table has one of it.
RecommendBest ==
  \A p \in DOMAIN disk, v \in TfVersions \ {0} :
    LET row == disk[p]
        fitting == {row[r] : r \in {r \in Releases : IsVersion(row[r]) /\ Major(row[r]) = Major(v) /\ row[r] <= v}}
    IN Readable(row) /\ fitting # {}
       => \A r \in Recommended(row, v) : row[r] = Max(fitting)

\* "Expected to always find the latest version in data".
LatestExists ==
  pc = "ended" => \A p \in DOMAIN disk : Bridging(disk[p]) # {}
=============================================================================
