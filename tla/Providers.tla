------------------------------- MODULE Providers -------------------------------
(***************************************************************************)
(* Where property names come from: digest tf resolves each Terraform        *)
(* provider to a mapping and pins it in the digest, patch-state tf loads the  *)
(* mappings that are pinned.  Tools run side by side on projects of their    *)
(* own; they share the mapping cache, the installed plugins and the table of  *)
(* processes, in which a dynamically bridged provider outlives its plugin.   *)
(***************************************************************************)
EXTENDS VersionMap

CONSTANTS
  Tools,      \* processes of the tool, each with a project
  TF,         \* Terraform providers of a state
  Builds,     \* builds that each tool is run from: what maps a provider to which Pulumi provider
  Bridged,    \* names of the statically bridged providers
  Dynamic,    \* stands for dynamic bridging, and for its plugin
  Locks,      \* what the lock files of the projects may say; 0 is nothing
  Releases,   \* the releases of a bridged provider, by rank
  MaxSessions, \* bound on the sessions of each tool
  MaxProcs, MaxReleases, MaxFaults \* further bounds

ASSUME ProvidersAssumption ==
  /\ Dynamic \notin Bridged \cup Tools
  /\ Releases \subseteq Nat /\ IsFiniteSet(Releases)
  /\ \A t \in Tools : Builds[t] # {}
  /\ MaxSessions \in [Tools -> Nat]
  /\ \A b \in UNION {Builds[t] : t \in Tools} :
       /\ b.row \in [Bridged -> [Releases -> Nat]]
       /\ b.maps \in [TF -> Bridged \cup {Dynamic}]
       /\ b.pins \in BOOLEAN
       /\ \A n \in Bridged : Readable(b.row[n])
  /\ \A l \in Locks : l \in [Tools -> [TF -> {0} \cup {n \in Nat : n >= 10}]]

VARIABLES
  pc, mode, build,
  todo,     \* providers still to be resolved in this session
  doing,    \* the one being resolved: what it is resolved to, with which pin
  used,     \* what each provider was resolved to, and the mapping it has
  lock,     \* the lock file of each project
  digest,   \* the digest of each project: the pins of its providers, or NoDigest
  hits,     \* the orphans a reap has listed
  late,     \* history: a reap of the tool has run out of time or could not list
  cache,    \* what is under a key of the mapping cache
  plugins,  \* the plugins that are installed
  procs,    \* the Terraform providers started by plugins
  latest,   \* the newest release of the Terraform providers
  origin,   \* history: the mappings that the digest of a project was made with
  sessions, faults

session == <<mode, build, todo, doing, used, hits, late>>
shared == <<cache, plugins, procs>>
vars == <<pc, session, lock, digest, shared, latest, origin, sessions, faults>>

NoDigest == [p \in {} |-> 0]
Nothing == <<>>
Torn == <<"torn">>
Pids == 1..MaxProcs
Fault == faults < MaxFaults /\ faults' = faults + 1
NoFault == UNCHANGED faults
Goto(t, step) == pc' = [pc EXCEPT ![t] = step]

\* A pin: the static provider and its release, or Dynamic and the version of the
\* Terraform provider, 0 when there was none; NoPin in the digest of an old build.
NoPin == <<"unrecorded", 0>>
Idle == [provider |-> Dynamic, want |-> NoPin, pin |-> NoPin]

\* What a build resolves a provider to: <<name, release>> or <<Dynamic, version>>.
Recommendation(b, p, v) ==
  IF b.maps[p] = Dynamic THEN {<<Dynamic, v>>}
  ELSE {<<b.maps[p], r>> : r \in Recommended(b.row[b.maps[p]], v)}

\* applyProviderPin: the pinned version of the provider that is recommended;
\* nothing when the pin is of another one.
Pinned(rec, pin) ==
  IF pin = NoPin THEN {rec} ELSE IF pin[1] = rec[1] THEN {pin} ELSE {}

\* The mapping that a plugin gives; without a version it is of the newest one.
Mapping(p, want) ==
  IF want[1] = Dynamic THEN <<Dynamic, p, IF want[2] = 0 THEN latest ELSE want[2]>>
  ELSE <<"static", want[1], want[2]>>

CacheKey_mutant(want) == want[1]
CacheKey(want) == want

Plugin(want) == IF want[1] = Dynamic THEN <<Dynamic, 0>> ELSE want

State(state) == {i \in Pids : procs[i].state = state}

\* A number is given again when nothing remembers it.
Unused(i) ==
  procs[i].state \in {"none", "gone", "closed"} /\ \A t \in Tools : i \notin hits[t]

\* Reparented to process 1.  The plugin of a live caller is not.
Orphans_mutant == State("orphan") \cup State("child") \cup State("deserted")
Orphans == State("orphan")

\* Some provider's parent has gone and it has no new one yet.
Awaiting_mutant == FALSE
Awaiting == State("unparented") # {}

-----------------------------------------------------------------------------

Begin(t) ==
  /\ pc[t] \in {"idle", "ended", "refused"} /\ sessions[t] < MaxSessions[t]
  /\ sessions' = [sessions EXCEPT ![t] = @ + 1]
  /\ \E b \in Builds[t], m \in {"digest", "inject"} :
       /\ m = "inject" => digest[t] # NoDigest
       /\ build' = [build EXCEPT ![t] = b] /\ mode' = [mode EXCEPT ![t] = m]
       /\ todo' = [todo EXCEPT ![t] = IF m = "digest" THEN TF ELSE DOMAIN digest[t]]
  /\ used' = [used EXCEPT ![t] = NoDigest]
  /\ Goto(t, "next")
  /\ UNCHANGED <<doing, hits, late, lock, digest, shared, latest, origin, faults>>

\* An injection takes no notice of the lock file.
Resolve(t) ==
  /\ pc[t] = "next"
  /\ \E p \in todo[t] :
       LET v == IF mode[t] = "digest" THEN lock[t][p] ELSE 0
           pin == IF mode[t] = "digest" THEN NoPin ELSE digest[t][p]
       IN /\ todo' = [todo EXCEPT ![t] = @ \ {p}]
          /\ \E rec \in Recommendation(build[t], p, v) :
               IF Pinned(rec, pin) = {}
               THEN Goto(t, "refused") /\ UNCHANGED doing
               ELSE \E want \in Pinned(rec, pin) :
                      /\ doing' = [doing EXCEPT ![t] = [provider |-> p, want |-> want, pin |-> pin]]
                      /\ Goto(t, IF want[1] = Dynamic THEN "install" ELSE "cache")
  /\ UNCHANGED <<mode, build, used, hits, late, lock, digest, shared, latest, origin, sessions, faults>>

\* On to the next provider.
Settle(t) == Goto(t, "next") /\ doing' = [doing EXCEPT ![t] = Idle]

\* The provider has its mapping.
Take(t, mapping) ==
  used' = [used EXCEPT ![t] = [p \in DOMAIN used[t] \cup {doing[t].provider} |->
             IF p = doing[t].provider THEN [want |-> doing[t].want, mapping |-> mapping]
             ELSE used[t][p]]]

\* A static provider that fails ends the resolving: a digest is then written
\* without any, an injection refuses.  A dynamic one that is not pinned is left
\* out.
Fails(t) ==
  IF doing[t].want[1] = Dynamic /\ doing[t].pin = NoPin
  THEN Settle(t) /\ UNCHANGED <<todo, used>>
  ELSE IF mode[t] = "digest"
  THEN Settle(t) /\ todo' = [todo EXCEPT ![t] = {}] /\ used' = [used EXCEPT ![t] = NoDigest]
  ELSE Goto(t, "refused") /\ UNCHANGED <<todo, used, doing>>

\* A mapping that does not parse is loaded again.
ReadCache(t) ==
  /\ pc[t] = "cache"
  /\ LET found == cache[CacheKey(doing[t].want)]
     IN IF found \in {Nothing, Torn}
        THEN Goto(t, "install") /\ UNCHANGED <<used, doing>>
        ELSE Take(t, found) /\ Settle(t)
  /\ UNCHANGED <<mode, build, todo, hits, late, lock, digest, shared, latest, origin, sessions, faults>>

\* EnsureProviderInstalled asks whether the binary is there, which it is while
\* another process is installing it.  Two that ask before either installs it both
\* find it missing.
Ensure(t) ==
  /\ pc[t] = "install"
  /\ Goto(t, IF plugins[Plugin(doing[t].want)] = "absent" THEN "missing" ELSE "load")
  /\ UNCHANGED <<session, lock, digest, shared, latest, origin, sessions, faults>>

\* The installation begins, or joins one of another process.
BeginInstall(t) ==
  /\ pc[t] = "missing"
  /\ LET q == Plugin(doing[t].want)
     IN plugins' = IF plugins[q] = "absent" THEN [plugins EXCEPT ![q] = "partial"] ELSE plugins
  /\ Goto(t, "installing")
  /\ UNCHANGED <<session, lock, digest, cache, procs, latest, origin, sessions, faults>>

Install(t) ==
  /\ pc[t] = "installing"
  /\ LET q == Plugin(doing[t].want)
     IN \/ /\ NoFault /\ Goto(t, "load") /\ UNCHANGED <<todo, used, doing>>
           /\ plugins' = [plugins EXCEPT ![q] = "installed"]
        \/ /\ Fault /\ Fails(t)
           /\ plugins' \in {plugins, [plugins EXCEPT ![q] = "absent"]}
  /\ UNCHANGED <<mode, build, hits, late, lock, digest, cache, procs, latest, origin, sessions>>

\* The plugin is started.  A partial one fails, and it may be asked in vain; a
\* dynamic one starts the Terraform provider, whether or not it then answers.
Load(t) ==
  /\ pc[t] = "load"
  /\ LET want == doing[t].want
         whole == plugins[Plugin(want)] = "installed"
     IN \/ /\ whole /\ want[1] # Dynamic /\ NoFault
           /\ Take(t, Mapping(doing[t].provider, want)) /\ Goto(t, "store")
           /\ UNCHANGED <<todo, doing, procs>>
        \/ /\ whole /\ want[1] = Dynamic /\ NoFault
           /\ \E i \in Pids :
                /\ Unused(i) /\ \A j \in 1..(i - 1) : ~Unused(j)
                /\ procs' = [procs EXCEPT ![i] = [owner |-> t, state |-> "child"]]
           /\ Goto(t, "ask") /\ UNCHANGED <<todo, used, doing>>
        \/ whole /\ Fault /\ Fails(t) /\ UNCHANGED procs
        \/ ~whole /\ NoFault /\ Fails(t) /\ UNCHANGED procs
  /\ UNCHANGED <<mode, build, hits, late, lock, digest, cache, plugins, latest, origin, sessions>>

\* The file is emptied and then written; that it cannot be is only a warning.
Store(t) ==
  /\ pc[t] \in {"store", "storing"}
  /\ LET key == CacheKey(doing[t].want)
         put(content) == cache' = [cache EXCEPT ![key] = content]
     IN \/ pc[t] = "store" /\ put(Torn) /\ Goto(t, "storing") /\ NoFault /\ UNCHANGED doing
        \/ pc[t] = "storing" /\ put(used[t][doing[t].provider].mapping) /\ Settle(t) /\ NoFault
        \/ Settle(t) /\ Fault /\ UNCHANGED cache
  /\ UNCHANGED <<mode, build, todo, used, hits, late, lock, digest, plugins, procs, latest, origin, sessions>>

\* The answer is kept, or its absence, until the plugin is closed and reaped.
Ask(t) ==
  /\ pc[t] = "ask"
  /\ \/ NoFault /\ Take(t, Mapping(doing[t].provider, doing[t].want))
     \/ Fault /\ UNCHANGED used
  /\ Goto(t, "reap")
  /\ procs' = [i \in Pids |-> IF procs[i].owner = t /\ procs[i].state = "child"
                              THEN [procs[i] EXCEPT !.state = "unparented"] ELSE procs[i]]
  /\ UNCHANGED <<mode, build, todo, doing, hits, late, lock, digest, cache, plugins, latest, origin, sessions>>

\* The processes are listed until none awaits a new parent, for three seconds.
\* The list may not be had.
List(t) ==
  /\ pc[t] = "reap"
  /\ \/ ~Awaiting /\ NoFault /\ hits' = [hits EXCEPT ![t] = Orphans] /\ UNCHANGED late
     \/ /\ Fault /\ late' = [late EXCEPT ![t] = TRUE]
        /\ hits' \in {[hits EXCEPT ![t] = Orphans], [hits EXCEPT ![t] = {}]}
  /\ Goto(t, "kill")
  /\ UNCHANGED <<mode, build, todo, doing, used, lock, digest, shared, latest, origin, sessions>>

\* Asked to end and, after two seconds, killed.
Terminate(t) ==
  /\ pc[t] = "kill"
  /\ procs' = [i \in Pids |-> IF i \in hits[t] THEN [procs[i] EXCEPT !.state = "gone"] ELSE procs[i]]
  /\ hits' = [hits EXCEPT ![t] = {}]
  /\ IF doing[t].provider \in DOMAIN used[t]
     THEN Settle(t) /\ UNCHANGED <<todo, used>>
     ELSE Fails(t)
  /\ UNCHANGED <<mode, build, late, lock, digest, cache, plugins, latest, origin, sessions, faults>>

\* What the digest records of a provider: what was asked for.
Pin(t, p) == IF build[t].pins THEN used[t][p].want ELSE NoPin

End(t) ==
  /\ pc[t] = "next" /\ todo[t] = {}
  /\ Goto(t, "ended")
  /\ IF mode[t] = "digest"
     THEN /\ digest' = [digest EXCEPT ![t] = [p \in DOMAIN used[t] |-> Pin(t, p)]]
          /\ origin' = [origin EXCEPT ![t] = used[t]]
     ELSE UNCHANGED <<digest, origin>>
  /\ UNCHANGED <<session, lock, shared, latest, sessions, faults>>

\* A tool is killed: its plugin lives on without it.
Kill(t) ==
  /\ pc[t] \notin {"idle", "ended", "refused"} /\ Fault
  /\ Goto(t, "idle")
  /\ todo' = [todo EXCEPT ![t] = {}] /\ doing' = [doing EXCEPT ![t] = Idle]
  /\ used' = [used EXCEPT ![t] = NoDigest] /\ hits' = [hits EXCEPT ![t] = {}]
  /\ procs' = [i \in Pids |->
       IF procs[i].owner # t THEN procs[i]
       ELSE [owner |-> Dynamic, state |-> IF procs[i].state = "child" THEN "deserted" ELSE procs[i].state]]
  /\ UNCHANGED <<mode, build, late, lock, digest, cache, plugins, latest, origin, sessions>>

\* The system: a provider gets a new parent, a deserted plugin ends, with or
\* without its provider, and a Terraform provider is released.
Reparent(i) ==
  /\ procs[i].state = "unparented"
  /\ procs' = [procs EXCEPT ![i].state = "orphan"]
  /\ UNCHANGED <<pc, session, lock, digest, cache, plugins, latest, origin, sessions, faults>>

PluginEnds(i) ==
  /\ procs[i].state = "deserted"
  /\ \E state \in {"closed", "unparented"} : procs' = [procs EXCEPT ![i].state = state]
  /\ UNCHANGED <<pc, session, lock, digest, cache, plugins, latest, origin, sessions, faults>>

Release ==
  /\ latest < 10 + MaxReleases
  /\ latest' = latest + 1
  /\ UNCHANGED <<pc, session, lock, digest, shared, origin, sessions, faults>>

Init ==
  /\ pc = [t \in Tools |-> "idle"] /\ mode = [t \in Tools |-> "digest"]
  /\ build = [t \in Tools |-> CHOOSE b \in Builds[t] : TRUE]
  /\ todo = [t \in Tools |-> {}] /\ used = [t \in Tools |-> NoDigest]
  /\ doing = [t \in Tools |-> Idle]
  /\ hits = [t \in Tools |-> {}] /\ late = [t \in Tools |-> FALSE]
  /\ lock \in Locks
  /\ digest = [t \in Tools |-> NoDigest] /\ origin = digest
  /\ cache = [key \in {CacheKey(want) : want \in Bridged \X Releases} |-> Nothing]
  /\ plugins = [q \in (Bridged \X Releases) \cup {<<Dynamic, 0>>} |-> "absent"]
  /\ procs = [i \in Pids |-> [owner |-> Dynamic, state |-> "none"]]
  /\ latest = 10
  /\ sessions = [t \in Tools |-> 0] /\ faults = 0

Next ==
  \/ \E t \in Tools :
       \/ Begin(t) \/ Resolve(t) \/ ReadCache(t) \/ Ensure(t) \/ BeginInstall(t) \/ Install(t) \/ Load(t)
       \/ Store(t) \/ Ask(t) \/ List(t) \/ Terminate(t) \/ End(t) \/ Kill(t)
  \/ \E i \in Pids : Reparent(i) \/ PluginEnds(i)
  \/ Release

Spec == Init /\ [][Next]_vars

-----------------------------------------------------------------------------
(* Properties.                                                             *)

\* "So injection can load the same version": an injection that is not refused
\* has, for every provider that is pinned with a version, the mapping that the
\* digest was made with, whatever build runs it, whatever has been released and
\* whatever others have left in the cache.
InjectsAsDigested ==
  \A t \in Tools : pc[t] = "ended" /\ mode[t] = "inject" =>
    \A p \in DOMAIN digest[t] :
      digest[t][p] # NoPin /\ digest[t][p][2] # 0
      => p \in DOMAIN used[t] /\ used[t][p].mapping = origin[t][p].mapping

\* "A provider whose parent is still alive belongs to a live caller and is left
\* alone": no reap ends the provider of a plugin that lives.
LiveLeftAlone ==
  [][\A i \in Pids : procs[i].state \in {"child", "deserted"} => procs'[i].state # "gone"]_procs

\* A reap that could list and did not run out of time has missed no provider of
\* its own: none outlives the bridging that started it.
OwnOrphansGone ==
  \A t \in Tools, i \in Pids :
    pc[t] \in {"next", "ended", "refused"} /\ ~late[t] /\ procs[i].owner = t
    => procs[i].state \in {"none", "gone"}
=============================================================================
