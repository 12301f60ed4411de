---------------------------- MODULE ProvidersProofs ----------------------------
(***************************************************************************)
(* Proofs about Providers, for any tools, builds, providers and releases,   *)
(* and any number of sessions and faults.                                   *)
(***************************************************************************)
EXTENDS Providers, FiniteSetTheorems, WellFoundedInduction, TLAPS

Steps == {"idle", "next", "cache", "install", "missing", "installing", "load", "store", "storing",
          "ask", "reap", "kill", "ended", "refused"}
States == {"none", "child", "deserted", "unparented", "orphan", "gone", "closed"}

ProcTypes ==
  /\ pc \in [Tools -> Steps]
  /\ hits \in [Tools -> SUBSET Pids]
  /\ late \in [Tools -> BOOLEAN]
  /\ procs \in [Pids -> [owner : Tools \cup {Dynamic}, state : States]]

\* What a reap has listed is still an orphan, or another reap has ended it.
HitsInv == \A t \in Tools : \A i \in hits[t] : procs[i].state \in {"orphan", "gone"}

\* A tool that was killed owns nothing.
DesertedInv == \A i \in Pids : procs[i].state = "deserted" => procs[i].owner = Dynamic

\* What may be left of the Terraform providers of a tool, by what it is doing.
OwnInv ==
  \A t \in Tools, i \in Pids :
    procs[i].owner = t /\ ~late[t] =>
      \/ procs[i].state \in {"none", "gone"}
      \/ pc[t] = "ask" /\ procs[i].state = "child"
      \/ pc[t] = "reap" /\ procs[i].state \in {"unparented", "orphan"}
      \/ pc[t] = "kill" /\ i \in hits[t]

ProcInv == ProcTypes /\ HitsInv /\ DesertedInv /\ OwnInv

-----------------------------------------------------------------------------
(* The processes, step by step.                                            *)

\* A step that starts, lists and ends nothing, of a tool that has no provider.
LEMMA QuietStep ==
  ASSUME ProcInv, NEW t \in Tools, NEW step \in Steps, Goto(t, step),
         pc[t] \notin {"ask", "reap", "kill"},
         UNCHANGED <<hits, late, procs>>
  PROVE  ProcInv'
<1>1. pc' \in [Tools -> Steps] /\ \A u \in Tools \ {t} : pc'[u] = pc[u]
  BY DEF Goto, ProcInv, ProcTypes
<1>2. ProcTypes' /\ HitsInv' /\ DesertedInv'
  BY <1>1 DEF ProcInv, ProcTypes, HitsInv, DesertedInv
<1>3. OwnInv'
  BY <1>1 DEF ProcInv, OwnInv
<1> QED BY <1>2, <1>3 DEF ProcInv

\* What a failure does to the step of a tool.
LEMMA FailsGoes ==
  ASSUME NEW t \in Tools, Fails(t)
  PROVE  \E step \in {"next", "refused"} : Goto(t, step)
BY DEF Fails, Settle

LEMMA InitProcs == Init => ProcInv
BY DEF Init, ProcInv, ProcTypes, HitsInv, DesertedInv, OwnInv, Steps, States

\* A digest or an injection that resolves its providers, but for the processes.
LEMMA QuietActions ==
  ASSUME ProcInv, NEW t \in Tools,
         Begin(t) \/ Resolve(t) \/ ReadCache(t) \/ Ensure(t) \/ BeginInstall(t) \/ Install(t) \/ Store(t) \/ End(t)
  PROVE  ProcInv'
<1>1. \E step \in Steps : Goto(t, step)
  <2>1. CASE Begin(t)
    BY <2>1 DEF Begin, Steps
  <2>2. CASE Resolve(t)
    <3>1. \E step \in {"refused", "install", "cache"} : Goto(t, step)
      BY <2>2 DEF Resolve
    <3> QED BY <3>1 DEF Steps
  <2>3. CASE ReadCache(t) \/ Ensure(t) \/ BeginInstall(t) \/ Store(t) \/ End(t)
    BY <2>3 DEF ReadCache, Ensure, BeginInstall, Store, End, Settle, Steps
  <2>4. CASE Install(t)
    BY <2>4, FailsGoes DEF Install, Steps
  <2> QED BY <2>1, <2>2, <2>3, <2>4
<1>2. UNCHANGED <<hits, late, procs>> /\ pc[t] \notin {"ask", "reap", "kill"}
  BY DEF Begin, Resolve, ReadCache, Ensure, BeginInstall, Install, Store, End, session, shared
<1> QED BY <1>1, <1>2, QuietStep

LEMMA LoadProcs == ASSUME ProcInv, NEW t \in Tools, Load(t) PROVE ProcInv'
<1>1. pc[t] = "load" /\ UNCHANGED <<hits, late>>
  BY DEF Load
<1>2. CASE UNCHANGED procs
  <2>1. \E step \in Steps : Goto(t, step)
    BY FailsGoes DEF Load, Steps
  <2> QED BY <1>1, <1>2, <2>1, QuietStep
<1>3. ASSUME NEW i \in Pids, Unused(i), procs' = [procs EXCEPT ![i] = [owner |-> t, state |-> "child"]], Goto(t, "ask")
      PROVE  ProcInv'
  <2>1. pc' \in [Tools -> Steps] /\ pc'[t] = "ask" /\ \A u \in Tools \ {t} : pc'[u] = pc[u]
    BY <1>3 DEF Goto, ProcInv, ProcTypes, Steps
  <2>2. /\ procs' \in [Pids -> [owner : Tools \cup {Dynamic}, state : States]]
        /\ procs'[i].owner = t /\ procs'[i].state = "child"
        /\ \A j \in Pids \ {i} : procs'[j] = procs[j]
    BY <1>3 DEF ProcInv, ProcTypes, States
  <2>3. \A u \in Tools : i \notin hits[u]
    BY <1>3 DEF Unused
  <2>4. t # Dynamic
    BY ProvidersAssumption
  <2>5. ProcTypes' /\ DesertedInv'
    BY <1>1, <2>1, <2>2 DEF ProcInv, ProcTypes, DesertedInv
  <2>6. HitsInv'
    BY <1>1, <2>2, <2>3 DEF ProcInv, ProcTypes, HitsInv
  <2>7. OwnInv'
    BY <1>1, <2>1, <2>2 DEF ProcInv, OwnInv
  <2> QED BY <2>5, <2>6, <2>7 DEF ProcInv
<1> QED BY <1>2, <1>3 DEF Load

\* Closing the plugin leaves its providers without a parent.
LEMMA AskProcs == ASSUME ProcInv, NEW t \in Tools, Ask(t) PROVE ProcInv'
<1>1. /\ pc[t] = "ask" /\ Goto(t, "reap") /\ UNCHANGED <<hits, late>>
      /\ procs' = [i \in Pids |-> IF procs[i].owner = t /\ procs[i].state = "child"
                                  THEN [procs[i] EXCEPT !.state = "unparented"] ELSE procs[i]]
  BY DEF Ask
<1>2. pc' \in [Tools -> Steps] /\ pc'[t] = "reap" /\ \A u \in Tools \ {t} : pc'[u] = pc[u]
  BY <1>1 DEF Goto, ProcInv, ProcTypes, Steps
<1>3. procs' \in [Pids -> [owner : Tools \cup {Dynamic}, state : States]]
  BY <1>1 DEF ProcInv, ProcTypes, States
<1>4. \A i \in Pids : /\ procs'[i].owner = procs[i].owner
                      /\ procs'[i].state = IF procs[i].owner = t /\ procs[i].state = "child"
                                           THEN "unparented" ELSE procs[i].state
  BY <1>1 DEF ProcInv, ProcTypes
<1>5. ProcTypes'
  BY <1>1, <1>2, <1>3 DEF ProcInv, ProcTypes
<1>6. HitsInv' /\ DesertedInv'
  BY <1>1, <1>4 DEF ProcInv, ProcTypes, HitsInv, DesertedInv
<1>7. OwnInv'
  BY <1>1, <1>2, <1>4 DEF ProcInv, OwnInv
<1> QED BY <1>5, <1>6, <1>7 DEF ProcInv

\* A reap that finds no provider on its way to process 1 has all of its own.
LEMMA ListProcs == ASSUME ProcInv, NEW t \in Tools, List(t) PROVE ProcInv'
<1>1. /\ pc[t] = "reap" /\ Goto(t, "kill") /\ UNCHANGED procs
      /\ \/ ~Awaiting /\ hits' = [hits EXCEPT ![t] = Orphans] /\ UNCHANGED late
         \/ /\ late' = [late EXCEPT ![t] = TRUE]
            /\ hits' = [hits EXCEPT ![t] = Orphans] \/ hits' = [hits EXCEPT ![t] = {}]
  BY DEF List, shared
<1>2. pc' \in [Tools -> Steps] /\ pc'[t] = "kill" /\ \A u \in Tools \ {t} : pc'[u] = pc[u]
  BY <1>1 DEF Goto, ProcInv, ProcTypes, Steps
<1>3. \A i \in Pids : i \in Orphans <=> procs[i].state = "orphan"
  BY DEF Orphans, State
<1>4. Orphans \subseteq Pids
  BY DEF Orphans, State
<1>5. /\ hits' \in [Tools -> SUBSET Pids] /\ hits'[t] \in {Orphans, {}} /\ \A u \in Tools \ {t} : hits'[u] = hits[u]
      /\ late' \in [Tools -> BOOLEAN] /\ \A u \in Tools \ {t} : late'[u] = late[u]
      /\ late'[t] \/ (~Awaiting /\ hits'[t] = Orphans /\ late'[t] = late[t])
  BY <1>1, <1>4 DEF ProcInv, ProcTypes
<1>6. ProcTypes' /\ DesertedInv'
  BY <1>1, <1>2, <1>5 DEF ProcInv, ProcTypes, DesertedInv
<1>7. HitsInv'
  BY <1>1, <1>3, <1>5 DEF ProcInv, ProcTypes, HitsInv
<1>8. OwnInv'
  <2>1. ~Awaiting => \A i \in Pids : procs[i].state # "unparented"
    BY DEF Awaiting, State
  <2>2. ASSUME NEW u \in Tools, NEW i \in Pids, procs[i].owner = u, ~late'[u]
        PROVE  \/ procs[i].state \in {"none", "gone"}
               \/ pc'[u] = "ask" /\ procs[i].state = "child"
               \/ pc'[u] = "reap" /\ procs[i].state \in {"unparented", "orphan"}
               \/ pc'[u] = "kill" /\ i \in hits'[u]
    <3>1. CASE u = t
      BY <1>1, <1>2, <1>3, <1>5, <2>1, <2>2, <3>1 DEF ProcInv, OwnInv
    <3>2. CASE u # t
      BY <1>2, <1>5, <2>2, <3>2 DEF ProcInv, OwnInv
    <3> QED BY <3>1, <3>2
  <2> QED BY <1>1, <2>2 DEF OwnInv
<1> QED BY <1>6, <1>7, <1>8 DEF ProcInv

LEMMA TerminateProcs == ASSUME ProcInv, NEW t \in Tools, Terminate(t) PROVE ProcInv'
<1>1. /\ pc[t] = "kill" /\ UNCHANGED late /\ hits' = [hits EXCEPT ![t] = {}]
      /\ procs' = [i \in Pids |-> IF i \in hits[t] THEN [procs[i] EXCEPT !.state = "gone"] ELSE procs[i]]
  BY DEF Terminate
<1>2. PICK step \in {"next", "refused"} : Goto(t, step)
  BY FailsGoes DEF Terminate, Settle
<1>3. pc' \in [Tools -> Steps] /\ pc'[t] = step /\ \A u \in Tools \ {t} : pc'[u] = pc[u]
  BY <1>2 DEF Goto, ProcInv, ProcTypes, Steps
<1>4. hits' \in [Tools -> SUBSET Pids] /\ hits'[t] = {} /\ \A u \in Tools \ {t} : hits'[u] = hits[u]
  BY <1>1 DEF ProcInv, ProcTypes
<1>5. /\ procs' \in [Pids -> [owner : Tools \cup {Dynamic}, state : States]]
      /\ \A i \in Pids : /\ procs'[i].owner = procs[i].owner
                         /\ procs'[i].state = IF i \in hits[t] THEN "gone" ELSE procs[i].state
  BY <1>1 DEF ProcInv, ProcTypes, States
<1>6. ProcTypes' /\ HitsInv' /\ DesertedInv'
  BY <1>1, <1>3, <1>4, <1>5 DEF ProcInv, ProcTypes, HitsInv, DesertedInv
<1>7. OwnInv'
  BY <1>1, <1>3, <1>4, <1>5 DEF ProcInv, OwnInv
<1> QED BY <1>6, <1>7 DEF ProcInv

LEMMA KillProcs == ASSUME ProcInv, NEW t \in Tools, Kill(t) PROVE ProcInv'
<1>1. /\ Goto(t, "idle") /\ UNCHANGED late /\ hits' = [hits EXCEPT ![t] = {}]
      /\ procs' = [i \in Pids |->
           IF procs[i].owner # t THEN procs[i]
           ELSE [owner |-> Dynamic, state |-> IF procs[i].state = "child" THEN "deserted" ELSE procs[i].state]]
  BY DEF Kill
<1>2. pc' \in [Tools -> Steps] /\ \A u \in Tools \ {t} : pc'[u] = pc[u]
  BY <1>1 DEF Goto, ProcInv, ProcTypes, Steps
<1>3. hits' \in [Tools -> SUBSET Pids] /\ hits'[t] = {} /\ \A u \in Tools \ {t} : hits'[u] = hits[u]
  BY <1>1 DEF ProcInv, ProcTypes
<1>4. /\ procs' \in [Pids -> [owner : Tools \cup {Dynamic}, state : States]]
      /\ \A i \in Pids :
           IF procs[i].owner # t THEN procs'[i] = procs[i]
           ELSE /\ procs'[i].owner = Dynamic
                /\ procs'[i].state = IF procs[i].state = "child" THEN "deserted" ELSE procs[i].state
  BY <1>1 DEF ProcInv, ProcTypes, States
<1>5. ProcTypes'
  BY <1>1, <1>2, <1>3, <1>4 DEF ProcInv, ProcTypes
<1>6. HitsInv' /\ DesertedInv'
  BY <1>3, <1>4 DEF ProcInv, ProcTypes, HitsInv, DesertedInv
<1>7. OwnInv'
  BY <1>1, <1>2, <1>3, <1>4, ProvidersAssumption DEF ProcInv, OwnInv
<1> QED BY <1>5, <1>6, <1>7 DEF ProcInv

\* What the system does to the processes.
LEMMA SystemProcs == ASSUME ProcInv, NEW i \in Pids, Reparent(i) \/ PluginEnds(i) PROVE ProcInv'
<1>1. UNCHANGED <<pc, hits, late>>
  BY DEF Reparent, PluginEnds, session
<1>2. /\ procs' \in [Pids -> [owner : Tools \cup {Dynamic}, state : States]]
      /\ procs'[i].owner = procs[i].owner
      /\ \A j \in Pids \ {i} : procs'[j] = procs[j]
      /\ \/ procs[i].state = "unparented" /\ procs'[i].state = "orphan"
         \/ procs[i].state = "deserted" /\ procs'[i].state \in {"closed", "unparented"}
  BY DEF Reparent, PluginEnds, ProcInv, ProcTypes, States
<1>3. ProcTypes' /\ DesertedInv'
  BY <1>1, <1>2 DEF ProcInv, ProcTypes, DesertedInv
<1>4. HitsInv'
  BY <1>1, <1>2 DEF ProcInv, ProcTypes, HitsInv
<1>5. OwnInv'
  BY <1>1, <1>2, ProvidersAssumption DEF ProcInv, HitsInv, DesertedInv, OwnInv
<1> QED BY <1>3, <1>4, <1>5 DEF ProcInv

LEMMA StepProcs == ProcInv /\ [Next]_vars => ProcInv'
<1> SUFFICES ASSUME ProcInv, [Next]_vars PROVE ProcInv'
  OBVIOUS
<1>1. CASE UNCHANGED <<pc, hits, late, procs>>
  BY <1>1 DEF ProcInv, ProcTypes, HitsInv, DesertedInv, OwnInv
<1>2. UNCHANGED vars \/ Release => UNCHANGED <<pc, hits, late, procs>>
  BY DEF vars, session, shared, Release
<1> QED BY <1>1, <1>2, QuietActions, LoadProcs, AskProcs, ListProcs, TerminateProcs, KillProcs, SystemProcs DEF Next

\* Whatever tools run side by side, no reap ends the provider of a plugin that
\* lives (reap.go: a provider whose parent is alive is left alone).
THEOREM NoReapHitsTheLiving == Spec => LiveLeftAlone
<1> DEFINE Spared == \A i \in Pids : procs[i].state \in {"child", "deserted"} => procs'[i].state # "gone"
<1>1. ProcInv /\ [Next]_vars => [Spared]_procs
  <2> SUFFICES ASSUME ProcInv, Next, NEW i \in Pids, procs[i].state \in {"child", "deserted"}
               PROVE  procs' = procs \/ procs'[i].state # "gone"
    BY DEF vars, shared
  <2>1. procs \in [Pids -> [owner : Tools \cup {Dynamic}, state : States]]
    BY DEF ProcInv, ProcTypes
  <2>2. ASSUME NEW t \in Tools, Terminate(t) PROVE procs'[i].state # "gone"
    <3>1. i \notin hits[t]
      BY DEF ProcInv, HitsInv
    <3> QED BY <2>1, <2>2, <3>1 DEF Terminate
  <2>3. ASSUME NEW t \in Tools, Load(t) \/ Ask(t) \/ Kill(t)
        PROVE  procs' = procs \/ procs'[i].state # "gone"
    BY <2>1, <2>3 DEF Load, Ask, Kill
  <2>4. ASSUME NEW j \in Pids, Reparent(j) \/ PluginEnds(j) PROVE procs'[i].state # "gone"
    BY <2>1, <2>4 DEF Reparent, PluginEnds
  <2>5. ASSUME NEW t \in Tools,
               Begin(t) \/ Resolve(t) \/ ReadCache(t) \/ Ensure(t) \/ BeginInstall(t) \/ Install(t) \/ Store(t) \/ List(t) \/ End(t)
        PROVE  procs' = procs
    BY <2>5 DEF Begin, Resolve, ReadCache, Ensure, BeginInstall, Install, Store, List, End, shared
  <2>6. Release => procs' = procs
    BY DEF Release, shared
  <2> QED BY <2>2, <2>3, <2>4, <2>5, <2>6 DEF Next
<1>2. Spec => [][Spared]_procs
  BY <1>1, InitProcs, StepProcs, PTL DEF Spec
<1> QED BY <1>2 DEF LiveLeftAlone

\* A reap that could list the processes and did not run out of time leaves none
\* of its own, for any number of tools and of bridgings.
THEOREM ReapsAreThorough == Spec => []OwnOrphansGone
<1>1. ProcInv => OwnOrphansGone
  BY DEF ProcInv, OwnInv, OwnOrphansGone
<1> QED BY <1>1, InitProcs, StepProcs, PTL DEF Spec

-----------------------------------------------------------------------------
(* The mappings.                                                           *)

\* What a provider can be resolved to.
Wants == (Bridged \X Releases) \cup {<<Dynamic, v>> : v \in Nat}

\* The mapping of a provider, but for a dynamic one without a version.
Named(want) == want[1] # Dynamic \/ want[2] # 0
Fixed(p, want) == IF want[1] = Dynamic THEN <<Dynamic, p, want[2]>> ELSE <<"static", want[1], want[2]>>

Resolving == {"cache", "install", "missing", "installing", "load", "store", "storing", "ask", "reap", "kill"}

Domains ==
  /\ DOMAIN pc = Tools /\ DOMAIN mode = Tools /\ DOMAIN build = Tools /\ DOMAIN todo = Tools
  /\ DOMAIN doing = Tools /\ DOMAIN used = Tools /\ DOMAIN digest = Tools /\ DOMAIN origin = Tools
  /\ DOMAIN cache = Bridged \X Releases
  /\ lock \in Locks

\* A mapping under a key is the mapping of that key.
CacheInv == \A key \in DOMAIN cache : cache[key] \in {Nothing, Torn, <<"static", key[1], key[2]>>}

ToolTypes(t) ==
  /\ mode[t] \in {"digest", "inject"}
  /\ build[t] \in Builds[t]
  /\ todo[t] \subseteq TF
  /\ DOMAIN used[t] \subseteq TF /\ \A p \in DOMAIN used[t] : used[t][p].want \in Wants
  /\ DOMAIN digest[t] \subseteq TF /\ \A p \in DOMAIN digest[t] : digest[t][p] \in Wants \cup {NoPin}

\* What a tool is resolving: the pin of the provider, if it has one.
DoingInv(t) ==
  pc[t] \in Resolving =>
    /\ doing[t].provider \in TF /\ doing[t].want \in Wants
    /\ pc[t] \in {"cache", "store", "storing"} => doing[t].want[1] # Dynamic
    /\ doing[t].pin # NoPin => doing[t].want = doing[t].pin
    /\ mode[t] = "inject" => doing[t].provider \in DOMAIN digest[t] /\ doing[t].pin = digest[t][doing[t].provider]
    /\ pc[t] \in {"store", "storing"} =>
         doing[t].provider \in DOMAIN used[t] /\ used[t][doing[t].provider].want = doing[t].want

\* A provider has the mapping that was asked for.
UsedInv(t) ==
  \A p \in DOMAIN used[t] : Named(used[t][p].want) => used[t][p].mapping = Fixed(p, used[t][p].want)

\* An injection asks for what is pinned, and leaves no pin out.
InjectInv(t) ==
  mode[t] = "inject" /\ pc[t] \notin {"idle", "refused"} =>
    /\ todo[t] \subseteq DOMAIN digest[t]
    /\ pc[t] = "ended" => todo[t] = {}
    /\ \A p \in DOMAIN digest[t] : digest[t][p] # NoPin =>
         /\ p \in DOMAIN used[t] => used[t][p].want = digest[t][p]
         /\ p \in todo[t] \cup DOMAIN used[t] \/ (pc[t] \in Resolving /\ doing[t].provider = p)

\* A pin that names a version stands for the mapping the digest was made with.
OriginInv(t) ==
  \A p \in DOMAIN digest[t] : digest[t][p] # NoPin /\ digest[t][p][2] # 0 =>
    p \in DOMAIN origin[t] /\ origin[t][p].mapping = Fixed(p, digest[t][p])

ToolInv(t) == ToolTypes(t) /\ DoingInv(t) /\ UsedInv(t) /\ InjectInv(t) /\ OriginInv(t)

MapInv == Domains /\ CacheInv /\ \A t \in Tools : ToolInv(t)

-----------------------------------------------------------------------------

\* A finite set of numbers that is not empty has the maximum that Max chooses.
LEMMA FiniteMax ==
  ASSUME NEW S, S \subseteq Nat, IsFiniteSet(S), S # {}
  PROVE  Max(S) \in S /\ \A y \in S : Max(S) >= y
<1> DEFINE T == {U \in FiniteSubsetsOf(S) : U # {} /\ ~\E x \in U : \A y \in U : x >= y}
<1>1. T = {}
  <2> SUFFICES ASSUME T # {} PROVE FALSE
    OBVIOUS
  <2>1. PICK U \in T : \A V \in T : ~(<<V, U>> \in StrictSubsetOrdering(S))
    <3>1. IsWellFoundedOn(StrictSubsetOrdering(S), FiniteSubsetsOf(S))
      BY FS_StrictSubsetOrderingWellFounded
    <3>2. T \subseteq FiniteSubsetsOf(S)
      OBVIOUS
    <3> HIDE DEF T
    <3> QED BY <3>1, <3>2, WFMin
  <2>2. U \subseteq S /\ IsFiniteSet(U) /\ U # {} /\ ~\E x \in U : \A y \in U : x >= y
    BY DEF FiniteSubsetsOf
  <2>3. PICK x \in U : TRUE
    BY <2>2
  <2> DEFINE V == U \ {x}
  <2>4. IsFiniteSet(V) /\ V \subseteq S
    BY <2>2, FS_RemoveElement
  <2>5. V # {}
    BY <2>2, <2>3
  <2>6. <<V, U>> \in StrictSubsetOrdering(S)
    BY <2>2, <2>3, <2>4 DEF StrictSubsetOrdering, FiniteSubsetsOf
  <2>7. V \notin T
    BY <2>1, <2>6
  <2>8. PICK m \in V : \A y \in V : m >= y
    BY <2>4, <2>5, <2>7 DEF FiniteSubsetsOf
  <2>9. m \in Nat /\ x \in Nat /\ U = V \cup {x} /\ \A y \in U : y \in Nat
    BY <2>2, <2>3
  <2>10. CASE m >= x
    BY <2>2, <2>8, <2>9, <2>10
  <2>11. CASE x >= m
    <3>1. \A y \in U : x >= y
      BY <2>8, <2>9, <2>11
    <3> QED BY <2>2, <2>3, <3>1
  <2> QED BY <2>9, <2>10, <2>11
<1>2. S \in FiniteSubsetsOf(S)
  BY DEF FiniteSubsetsOf
<1>3. \E x \in S : \A y \in S : x >= y
  BY <1>1, <1>2
<1> QED BY <1>3 DEF Max

\* Every build recommends a release that there is.
LEMMA RecommendedIsReleased ==
  ASSUME NEW t \in Tools, NEW b \in Builds[t], NEW n \in Bridged, NEW v,
         NEW r \in Recommended(b.row[n], v)
  PROVE  r \in Releases
<1> DEFINE row == b.row[n]
           all == Bridging(row)
<1>1. row \in [Releases -> Nat] /\ Readable(row)
  BY ProvidersAssumption
<1>2. all \subseteq Releases /\ all # {}
  BY <1>1 DEF Bridging, Readable
<1>3. ASSUME NEW S, S \subseteq all, S # {} PROVE Max(S) \in Releases
  <2>1. S \subseteq Nat /\ IsFiniteSet(S)
    BY <1>2, <1>3, ProvidersAssumption, FS_Subset
  <2> QED BY <1>2, <1>3, <2>1, FiniteMax
<1> DEFINE exact == {s \in all : row[s] = v}
           major == OfMajor(row, all, Major(v))
           older == {s \in major : row[s] <= v}
<1>4. exact \subseteq all /\ major \subseteq all /\ older \subseteq all
  BY DEF OfMajor
<1>5. \/ r = Max(all)
      \/ exact # {} /\ r = Max(exact)
      \/ r \in older
      \/ major # {} /\ r = Max(major)
  <2> HIDE DEF major
  <2> QED BY DEF Recommended, Latest, major
<1> HIDE DEF all, exact, major, older
<1> QED BY <1>2, <1>3, <1>4, <1>5

LEMMA MappingIsFixed ==
  ASSUME NEW p, NEW want, Named(want)
  PROVE  Mapping(p, want) = Fixed(p, want)
BY DEF Named, Mapping, Fixed

-----------------------------------------------------------------------------
(* The mappings, step by step.                                             *)

\* What a tool does leaves the others as they are.
Same(u) ==
  /\ pc'[u] = pc[u] /\ mode'[u] = mode[u] /\ build'[u] = build[u] /\ todo'[u] = todo[u]
  /\ doing'[u] = doing[u] /\ used'[u] = used[u] /\ digest'[u] = digest[u] /\ origin'[u] = origin[u]

LEMMA SameInv == ASSUME NEW u \in Tools, ToolInv(u), Same(u) PROVE ToolInv(u)'
BY DEF Same, ToolInv, ToolTypes, DoingInv, UsedInv, InjectInv, OriginInv

LEMMA InitMap == Init => MapInv
<1> SUFFICES ASSUME Init PROVE MapInv
  OBVIOUS
<1>1. Domains
  BY DEF Init, Domains, CacheKey
<1>2. CacheInv
  BY DEF Init, CacheInv
<1>3. ASSUME NEW t \in Tools PROVE ToolInv(t)
  <2>1. pc[t] = "idle" /\ mode[t] = "digest" /\ todo[t] = {} /\ used[t] = NoDigest /\ digest[t] = NoDigest /\ build[t] \in Builds[t]
    BY ProvidersAssumption DEF Init
  <2>2. DOMAIN NoDigest = {}
    BY DEF NoDigest
  <2> QED BY <2>1, <2>2 DEF ToolInv, ToolTypes, DoingInv, UsedInv, InjectInv, OriginInv, Resolving
<1> QED BY <1>1, <1>2, <1>3 DEF MapInv

LEMMA BeginMap == ASSUME MapInv, NEW t \in Tools, Begin(t) PROVE MapInv'
<1>1. PICK b \in Builds[t], m \in {"digest", "inject"} :
        /\ build' = [build EXCEPT ![t] = b] /\ mode' = [mode EXCEPT ![t] = m]
        /\ todo' = [todo EXCEPT ![t] = IF m = "digest" THEN TF ELSE DOMAIN digest[t]]
  BY DEF Begin
<1>2. /\ used' = [used EXCEPT ![t] = NoDigest] /\ pc' = [pc EXCEPT ![t] = "next"]
      /\ UNCHANGED <<doing, lock, digest, cache, origin>>
  BY DEF Begin, Goto, shared
<1>3. /\ Domains' /\ CacheInv' /\ \A u \in Tools \ {t} : Same(u)
      /\ pc'[t] = "next" /\ mode'[t] = m /\ build'[t] = b /\ used'[t] = NoDigest
      /\ todo'[t] = IF m = "digest" THEN TF ELSE DOMAIN digest[t]
  BY <1>1, <1>2 DEF MapInv, Domains, CacheInv, Same
<1>4. DOMAIN NoDigest = {}
  BY DEF NoDigest
<1>5. ToolInv(t)'
  BY <1>2, <1>3, <1>4 DEF MapInv, ToolInv, ToolTypes, DoingInv, UsedInv, InjectInv, OriginInv, Resolving
<1> QED BY <1>3, <1>5, SameInv DEF MapInv

LEMMA ResolveMap == ASSUME MapInv, NEW t \in Tools, Resolve(t) PROVE MapInv'
<1>1. PICK p \in todo[t] :
        LET v == IF mode[t] = "digest" THEN lock[t][p] ELSE 0
            pin == IF mode[t] = "digest" THEN NoPin ELSE digest[t][p]
        IN /\ todo' = [todo EXCEPT ![t] = @ \ {p}]
           /\ \E rec \in Recommendation(build[t], p, v) :
                IF Pinned(rec, pin) = {}
                THEN Goto(t, "refused") /\ UNCHANGED doing
                ELSE \E want \in Pinned(rec, pin) :
                       /\ doing' = [doing EXCEPT ![t] = [provider |-> p, want |-> want, pin |-> pin]]
                       /\ Goto(t, IF want[1] = Dynamic THEN "install" ELSE "cache")
  BY DEF Resolve
<1>2. pc[t] = "next" /\ UNCHANGED <<mode, build, used, lock, digest, cache, origin>>
  BY DEF Resolve, shared
<1> DEFINE v == IF mode[t] = "digest" THEN lock[t][p] ELSE 0
           pin == IF mode[t] = "digest" THEN NoPin ELSE digest[t][p]
<1>3. ToolInv(t) /\ Domains /\ p \in TF
  BY DEF MapInv, ToolInv, ToolTypes
<1>4. CacheInv'
  BY <1>2 DEF MapInv, CacheInv
<1>5. CASE Goto(t, "refused") /\ UNCHANGED doing
  <2>1. Domains' /\ (\A u \in Tools \ {t} : Same(u)) /\ pc'[t] = "refused" /\ todo'[t] = todo[t] \ {p}
    BY <1>1, <1>2, <1>3, <1>5 DEF Domains, Same, Goto
  <2>2. ToolInv(t)'
    BY <1>2, <1>3, <2>1 DEF ToolInv, ToolTypes, DoingInv, UsedInv, InjectInv, OriginInv, Resolving
  <2> QED BY <1>4, <2>1, <2>2, SameInv DEF MapInv
<1>6. ASSUME NEW rec \in Recommendation(build[t], p, v), NEW want \in Pinned(rec, pin),
             doing' = [doing EXCEPT ![t] = [provider |-> p, want |-> want, pin |-> pin]],
             Goto(t, IF want[1] = Dynamic THEN "install" ELSE "cache")
      PROVE  MapInv'
  <2>1. v \in Nat
    BY <1>3, ProvidersAssumption DEF Domains
  <2>2. rec \in Wants
    <3>1. build[t] \in Builds[t] /\ build[t].maps \in [TF -> Bridged \cup {Dynamic}]
      BY <1>3, ProvidersAssumption DEF ToolInv, ToolTypes
    <3>2. CASE build[t].maps[p] = Dynamic
      BY <1>6, <2>1, <3>2 DEF Recommendation, Wants
    <3>3. CASE build[t].maps[p] # Dynamic
      <4>1. build[t].maps[p] \in Bridged
        BY <1>3, <3>1, <3>3
      <4>2. PICK r \in Recommended(build[t].row[build[t].maps[p]], v) : rec = <<build[t].maps[p], r>>
        BY <1>6, <3>3 DEF Recommendation
      <4>3. r \in Releases
        BY <3>1, <4>1, <4>2, RecommendedIsReleased
      <4> QED BY <4>1, <4>2, <4>3 DEF Wants
    <3> QED BY <3>2, <3>3
  <2>4. pin \in Wants \cup {NoPin}
    <3>1. mode[t] # "digest" => p \in DOMAIN digest[t]
      BY <1>2, <1>3 DEF ToolInv, ToolTypes, InjectInv
    <3> QED BY <1>3, <3>1 DEF ToolInv, ToolTypes
  <2>5. want \in Wants /\ (pin # NoPin => want = pin)
    BY <1>6, <2>2, <2>4 DEF Pinned
  <2> HIDE DEF v, pin
  <2>6. /\ Domains' /\ \A u \in Tools \ {t} : Same(u)
        /\ todo'[t] = todo[t] \ {p} /\ pc'[t] = IF want[1] = Dynamic THEN "install" ELSE "cache"
        /\ doing'[t].provider = p /\ doing'[t].want = want /\ doing'[t].pin = pin
    BY <1>1, <1>2, <1>3, <1>6 DEF Domains, Same, Goto
  <2>7. mode[t] = "inject" => p \in DOMAIN digest[t] /\ pin = digest[t][p]
    BY <1>2, <1>3 DEF ToolInv, InjectInv, pin
  <2>8. DoingInv(t)'
    BY <1>2, <1>3, <2>5, <2>6, <2>7 DEF DoingInv
  <2>9. InjectInv(t)'
    BY <1>2, <1>3, <2>6 DEF ToolInv, InjectInv, Resolving
  <2>10. ToolTypes(t)' /\ UsedInv(t)' /\ OriginInv(t)'
    BY <1>2, <1>3, <2>6 DEF ToolInv, ToolTypes, UsedInv, OriginInv
  <2> QED BY <1>4, <2>6, <2>8, <2>9, <2>10, SameInv DEF MapInv, ToolInv
<1> QED BY <1>1, <1>5, <1>6

\* A provider has got its mapping.
LEMMA TakeMap ==
  ASSUME Domains, NEW t \in Tools, ToolInv(t), pc[t] \in Resolving, NEW m, Take(t, m),
         Named(doing[t].want) => m = Fixed(doing[t].provider, doing[t].want)
  PROVE  /\ DOMAIN used' = Tools /\ \A u \in Tools \ {t} : used'[u] = used[u]
         /\ DOMAIN used'[t] = DOMAIN used[t] \cup {doing[t].provider}
         /\ used'[t][doing[t].provider].want = doing[t].want
         /\ \A p \in DOMAIN used[t] \ {doing[t].provider} : used'[t][p].want = used[t][p].want
         /\ DOMAIN used'[t] \subseteq TF /\ \A p \in DOMAIN used'[t] : used'[t][p].want \in Wants
         /\ UsedInv(t)'
<1> DEFINE q == doing[t].provider
           f == [p \in DOMAIN used[t] \cup {q} |->
                   IF p = q THEN [want |-> doing[t].want, mapping |-> m] ELSE used[t][p]]
<1>1. used' = [used EXCEPT ![t] = f]
  BY DEF Take
<1>2. /\ DOMAIN f = DOMAIN used[t] \cup {q} /\ f[q].want = doing[t].want /\ f[q].mapping = m
      /\ \A p \in DOMAIN used[t] \ {q} : f[p] = used[t][p]
  OBVIOUS
<1> HIDE DEF f
<1>3. used'[t] = f /\ DOMAIN used' = Tools /\ \A u \in Tools \ {t} : used'[u] = used[u]
  BY <1>1 DEF Domains
<1>4. q \in TF /\ doing[t].want \in Wants
  BY DEF ToolInv, DoingInv
<1>5. DOMAIN f \subseteq TF /\ \A p \in DOMAIN f : f[p].want \in Wants
  BY <1>2, <1>4 DEF ToolInv, ToolTypes
<1>6. \A p \in DOMAIN f : Named(f[p].want) => f[p].mapping = Fixed(p, f[p].want)
  BY <1>2 DEF ToolInv, UsedInv
<1>7. UsedInv(t)'
  BY <1>3, <1>6 DEF UsedInv, Named, Fixed
<1> QED BY <1>2, <1>3, <1>5, <1>7

\* On to the next provider, with the mapping of this one or without when it has
\* no pin.
LEMMA SettleMap ==
  ASSUME MapInv, NEW t \in Tools, pc[t] \in Resolving, Settle(t),
         UNCHANGED <<mode, build, todo, lock, digest, origin>>,
         \/ /\ UNCHANGED used
            /\ doing[t].provider \in DOMAIN used[t] \/ doing[t].pin = NoPin
         \/ \E m : /\ Take(t, m)
                   /\ Named(doing[t].want) => m = Fixed(doing[t].provider, doing[t].want),
         DOMAIN cache' = DOMAIN cache, CacheInv'
  PROVE  MapInv'
<1>1. Domains /\ ToolInv(t)
  BY DEF MapInv
<1>2. /\ DOMAIN used' = Tools /\ \A u \in Tools \ {t} : used'[u] = used[u]
      /\ DOMAIN used[t] \subseteq DOMAIN used'[t]
      /\ \A p \in DOMAIN used'[t] :
           \/ p \in DOMAIN used[t] /\ used'[t][p].want = used[t][p].want
           \/ p = doing[t].provider /\ used'[t][p].want = doing[t].want
      /\ doing[t].provider \in DOMAIN used'[t] \/ doing[t].pin = NoPin
      /\ DOMAIN used'[t] \subseteq TF /\ \A p \in DOMAIN used'[t] : used'[t][p].want \in Wants
      /\ UsedInv(t)'
  <2>1. CASE UNCHANGED used /\ (doing[t].provider \in DOMAIN used[t] \/ doing[t].pin = NoPin)
    BY <1>1, <2>1 DEF Domains, ToolInv, ToolTypes, UsedInv
  <2>2. ASSUME NEW m, Take(t, m), Named(doing[t].want) => m = Fixed(doing[t].provider, doing[t].want)
        PROVE  <1>2!1 /\ <1>2!2 /\ <1>2!3 /\ <1>2!4 /\ <1>2!5 /\ <1>2!6
    BY <1>1, <2>2, TakeMap
  <2> QED BY <2>1, <2>2
<1>3. Domains' /\ (\A u \in Tools \ {t} : Same(u)) /\ pc'[t] = "next"
  BY <1>1, <1>2 DEF Domains, Same, Settle, Goto
<1>4. ToolTypes(t)' /\ DoingInv(t)' /\ OriginInv(t)'
  BY <1>1, <1>2, <1>3 DEF ToolInv, ToolTypes, DoingInv, OriginInv, Resolving
<1>5. InjectInv(t)'
  <2>1. mode[t] = "inject" => pc[t] \notin {"idle", "refused", "ended"}
    BY DEF Resolving
  <2>2. mode[t] = "inject" => doing[t].provider \in DOMAIN digest[t] /\ doing[t].pin = digest[t][doing[t].provider]
                              /\ (doing[t].pin # NoPin => doing[t].want = doing[t].pin)
    BY <1>1 DEF ToolInv, DoingInv
  <2>3. ASSUME mode[t] = "inject", NEW p \in DOMAIN digest[t], digest[t][p] # NoPin
        PROVE  /\ p \in DOMAIN used'[t] => used'[t][p].want = digest[t][p]
               /\ p \in todo[t] \cup DOMAIN used'[t]
    BY <1>1, <1>2, <2>1, <2>2, <2>3 DEF ToolInv, InjectInv
  <2>4. mode[t] = "inject" => todo[t] \subseteq DOMAIN digest[t]
    BY <1>1, <2>1 DEF ToolInv, InjectInv
  <2> QED BY <1>3, <2>3, <2>4 DEF InjectInv
<1> QED BY <1>1, <1>2, <1>3, <1>4, <1>5, SameInv DEF MapInv, ToolInv

\* A provider that fails.
LEMMA FailsMap ==
  ASSUME MapInv, NEW t \in Tools, pc[t] \in Resolving, Fails(t),
         UNCHANGED <<mode, build, lock, digest, origin, cache>>
  PROVE  MapInv'
<1>1. Domains /\ ToolInv(t) /\ CacheInv'
  BY DEF MapInv, CacheInv
<1>2. CASE doing[t].pin = NoPin /\ Settle(t) /\ UNCHANGED <<todo, used>>
  BY <1>1, <1>2, SettleMap
<1>3. CASE mode[t] = "digest" /\ Settle(t) /\ todo' = [todo EXCEPT ![t] = {}] /\ used' = [used EXCEPT ![t] = NoDigest]
  <2>1. /\ Domains' /\ (\A u \in Tools \ {t} : Same(u)) /\ pc'[t] = "next"
        /\ todo'[t] = {} /\ used'[t] = NoDigest
    BY <1>1, <1>3 DEF Domains, Same, Settle, Goto
  <2>2. DOMAIN NoDigest = {}
    BY DEF NoDigest
  <2>3. ToolInv(t)'
    BY <1>1, <1>3, <2>1, <2>2 DEF ToolInv, ToolTypes, DoingInv, UsedInv, InjectInv, OriginInv, Resolving
  <2> QED BY <1>1, <2>1, <2>3, SameInv DEF MapInv
<1>4. CASE Goto(t, "refused") /\ UNCHANGED <<todo, used, doing>>
  <2>1. Domains' /\ (\A u \in Tools \ {t} : Same(u)) /\ pc'[t] = "refused"
    BY <1>1, <1>4 DEF Domains, Same, Goto
  <2>2. ToolInv(t)'
    BY <1>1, <1>4, <2>1 DEF ToolInv, ToolTypes, DoingInv, UsedInv, InjectInv, OriginInv, Resolving
  <2> QED BY <1>1, <2>1, <2>2, SameInv DEF MapInv
<1> QED BY <1>1, <1>2, <1>3, <1>4 DEF Fails, ToolInv, ToolTypes

\* A step on the way to the mapping of a provider.
LEMMA OnTheWay ==
  ASSUME MapInv, NEW t \in Tools, pc[t] \in Resolving,
         NEW step \in Resolving \ {"cache", "store", "storing"}, Goto(t, step),
         UNCHANGED <<mode, build, todo, doing, used, lock, digest, origin, cache>>
  PROVE  MapInv'
<1>1. Domains /\ ToolInv(t) /\ CacheInv'
  BY DEF MapInv, CacheInv
<1>2. Domains' /\ (\A u \in Tools \ {t} : Same(u)) /\ pc'[t] = step
  BY <1>1 DEF Domains, Same, Goto
<1>3. ToolTypes(t)' /\ UsedInv(t)' /\ OriginInv(t)' /\ DoingInv(t)'
  BY <1>1, <1>2 DEF ToolInv, ToolTypes, UsedInv, OriginInv, DoingInv
<1>4. InjectInv(t)'
  BY <1>1, <1>2 DEF ToolInv, InjectInv, Resolving
<1> QED BY <1>1, <1>2, <1>3, <1>4, SameInv DEF MapInv, ToolInv

\* A mapping from the cache is the one under its key.
LEMMA ReadCacheMap == ASSUME MapInv, NEW t \in Tools, ReadCache(t) PROVE MapInv'
<1> DEFINE want == doing[t].want
<1>1. pc[t] = "cache" /\ pc[t] \in Resolving /\ UNCHANGED <<mode, build, todo, lock, digest, cache, origin>>
  BY DEF ReadCache, Resolving, shared
<1>2. Domains /\ ToolInv(t) /\ CacheInv'
  BY <1>1 DEF MapInv, CacheInv
<1>3. CASE Goto(t, "install") /\ UNCHANGED <<used, doing>>
  BY <1>1, <1>3, OnTheWay DEF Resolving
<1>4. CASE cache[want] \notin {Nothing, Torn} /\ Take(t, cache[want]) /\ Settle(t)
  <2>1. want \in Bridged \X Releases /\ want[1] # Dynamic
    BY <1>1, <1>2, ProvidersAssumption DEF ToolInv, DoingInv, Wants
  <2>2. cache[want] = Fixed(doing[t].provider, want)
    BY <1>2, <1>4, <2>1 DEF MapInv, CacheInv, Domains, Fixed
  <2> QED BY <1>1, <1>2, <1>4, <2>2, SettleMap
<1> QED BY <1>3, <1>4 DEF ReadCache, CacheKey

LEMMA EnsureMap == ASSUME MapInv, NEW t \in Tools, Ensure(t) \/ BeginInstall(t) \/ List(t) PROVE MapInv'
<1>1. /\ pc[t] \in Resolving /\ \E step \in {"missing", "installing", "load", "kill"} : Goto(t, step)
      /\ UNCHANGED <<mode, build, todo, doing, used, lock, digest, origin, cache>>
  BY DEF Ensure, BeginInstall, List, session, shared, Resolving
<1> QED BY <1>1, OnTheWay DEF Resolving

LEMMA InstallMap == ASSUME MapInv, NEW t \in Tools, Install(t) PROVE MapInv'
<1>1. /\ pc[t] \in Resolving /\ UNCHANGED <<mode, build, lock, digest, origin, cache>>
      /\ Fails(t) \/ (Goto(t, "load") /\ UNCHANGED <<todo, used, doing>>)
  BY DEF Install, Resolving
<1> QED BY <1>1, FailsMap, OnTheWay DEF Resolving

\* The plugin has given the mapping, which is stored if it is of a static one.
LEMMA MappedMap ==
  ASSUME MapInv, NEW t \in Tools, pc[t] \in Resolving,
         Take(t, Mapping(doing[t].provider, doing[t].want)),
         NEW step \in {"store", "reap"}, Goto(t, step), step = "store" => doing[t].want[1] # Dynamic,
         UNCHANGED <<mode, build, todo, doing, lock, digest, origin, cache>>
  PROVE  MapInv'
<1>1. Domains /\ ToolInv(t) /\ CacheInv'
  BY DEF MapInv, CacheInv
<1>2. Named(doing[t].want) => Mapping(doing[t].provider, doing[t].want) = Fixed(doing[t].provider, doing[t].want)
  BY MappingIsFixed
<1>3. /\ DOMAIN used' = Tools /\ \A u \in Tools \ {t} : used'[u] = used[u]
      /\ DOMAIN used'[t] = DOMAIN used[t] \cup {doing[t].provider}
      /\ used'[t][doing[t].provider].want = doing[t].want
      /\ \A p \in DOMAIN used[t] \ {doing[t].provider} : used'[t][p].want = used[t][p].want
      /\ DOMAIN used'[t] \subseteq TF /\ \A p \in DOMAIN used'[t] : used'[t][p].want \in Wants
      /\ UsedInv(t)'
  BY <1>1, <1>2, TakeMap
<1>4. Domains' /\ (\A u \in Tools \ {t} : Same(u)) /\ pc'[t] = step
  BY <1>1, <1>3 DEF Domains, Same, Goto
<1>5. ToolTypes(t)' /\ OriginInv(t)' /\ DoingInv(t)'
  BY <1>1, <1>3, <1>4 DEF ToolInv, ToolTypes, OriginInv, DoingInv
<1>6. InjectInv(t)'
  <2>1. mode[t] = "inject" => pc[t] \notin {"idle", "refused", "ended"}
    BY DEF Resolving
  <2>2. mode[t] = "inject" => /\ doing[t].pin = digest[t][doing[t].provider]
                              /\ doing[t].pin # NoPin => doing[t].want = doing[t].pin
    BY <1>1 DEF ToolInv, DoingInv
  <2>3. ASSUME mode[t] = "inject", NEW p \in DOMAIN digest[t], digest[t][p] # NoPin
        PROVE  /\ p \in DOMAIN used'[t] => used'[t][p].want = digest[t][p]
               /\ p \in todo[t] \cup DOMAIN used'[t]
    BY <1>1, <1>3, <2>1, <2>2, <2>3 DEF ToolInv, InjectInv
  <2>4. mode[t] = "inject" => todo[t] \subseteq DOMAIN digest[t]
    BY <1>1, <2>1 DEF ToolInv, InjectInv
  <2> QED BY <1>4, <2>3, <2>4 DEF InjectInv
<1> QED BY <1>1, <1>3, <1>4, <1>5, <1>6, SameInv DEF MapInv, ToolInv

LEMMA LoadMap == ASSUME MapInv, NEW t \in Tools, Load(t) PROVE MapInv'
<1>1. pc[t] \in Resolving /\ UNCHANGED <<mode, build, lock, digest, origin, cache>>
  BY DEF Load, Resolving
<1>2. CASE Fails(t)
  BY <1>1, <1>2, FailsMap
<1>3. CASE Goto(t, "ask") /\ UNCHANGED <<todo, used, doing>>
  BY <1>1, <1>3, OnTheWay DEF Resolving
<1>4. CASE /\ doing[t].want[1] # Dynamic /\ Take(t, Mapping(doing[t].provider, doing[t].want)) /\ Goto(t, "store")
           /\ UNCHANGED <<todo, doing>>
  BY <1>1, <1>4, MappedMap
<1> QED BY <1>2, <1>3, <1>4 DEF Load

LEMMA AskMap == ASSUME MapInv, NEW t \in Tools, Ask(t) PROVE MapInv'
<1>1. /\ pc[t] \in Resolving /\ Goto(t, "reap")
      /\ UNCHANGED <<mode, build, todo, doing, lock, digest, origin, cache>>
      /\ UNCHANGED used \/ Take(t, Mapping(doing[t].provider, doing[t].want))
  BY DEF Ask, Resolving
<1>2. CASE UNCHANGED used
  BY <1>1, <1>2, OnTheWay DEF Resolving
<1>3. CASE Take(t, Mapping(doing[t].provider, doing[t].want))
  BY <1>1, <1>3, MappedMap
<1> QED BY <1>1, <1>2, <1>3

LEMMA TerminateMap == ASSUME MapInv, NEW t \in Tools, Terminate(t) PROVE MapInv'
<1>1. pc[t] \in Resolving /\ UNCHANGED <<mode, build, lock, digest, origin, cache>>
  BY DEF Terminate, Resolving
<1>2. CacheInv' /\ DOMAIN cache' = DOMAIN cache
  BY <1>1 DEF MapInv, CacheInv
<1>3. CASE doing[t].provider \in DOMAIN used[t] /\ Settle(t) /\ UNCHANGED <<todo, used>>
  BY <1>1, <1>2, <1>3, SettleMap
<1>4. CASE Fails(t)
  BY <1>1, <1>4, FailsMap
<1> QED BY <1>3, <1>4 DEF Terminate

LEMMA StoreMap == ASSUME MapInv, NEW t \in Tools, Store(t) PROVE MapInv'
<1> DEFINE want == doing[t].want
<1>1. /\ pc[t] \in {"store", "storing"} /\ pc[t] \in Resolving
      /\ UNCHANGED <<mode, build, todo, used, lock, digest, origin>>
  BY DEF Store, Resolving
<1>2. Domains /\ CacheInv /\ ToolInv(t)
  BY DEF MapInv
<1>3. /\ want \in Bridged \X Releases /\ want[1] # Dynamic
      /\ doing[t].provider \in DOMAIN used[t] /\ used[t][doing[t].provider].want = want
  BY <1>1, <1>2, ProvidersAssumption DEF ToolInv, DoingInv, Wants
<1>4. CASE pc[t] = "store" /\ cache' = [cache EXCEPT ![want] = Torn] /\ Goto(t, "storing") /\ UNCHANGED doing
  <2>1. DOMAIN cache' = DOMAIN cache /\ CacheInv'
    BY <1>2, <1>4 DEF CacheInv
  <2>2. Domains' /\ (\A u \in Tools \ {t} : Same(u)) /\ pc'[t] = "storing"
    BY <1>1, <1>2, <1>4, <2>1 DEF Domains, Same, Goto
  <2>3. ToolTypes(t)' /\ UsedInv(t)' /\ OriginInv(t)' /\ DoingInv(t)'
    BY <1>1, <1>2, <1>4, <2>2 DEF ToolInv, ToolTypes, UsedInv, OriginInv, DoingInv
  <2>4. InjectInv(t)'
    BY <1>1, <1>2, <1>4, <2>2 DEF ToolInv, InjectInv, Resolving
  <2> QED BY <1>2, <2>1, <2>2, <2>3, <2>4, SameInv DEF MapInv, ToolInv
<1>5. CASE Settle(t) /\ cache' = [cache EXCEPT ![want] = used[t][doing[t].provider].mapping]
  <2>1. used[t][doing[t].provider].mapping = <<"static", want[1], want[2]>>
    BY <1>2, <1>3 DEF ToolInv, UsedInv, Named, Fixed
  <2>2. DOMAIN cache' = DOMAIN cache /\ CacheInv'
    BY <1>2, <1>5, <2>1 DEF CacheInv
  <2> QED BY <1>1, <1>3, <1>5, <2>2, SettleMap
<1>6. CASE Settle(t) /\ UNCHANGED cache
  <2>1. CacheInv'
    BY <1>2, <1>6 DEF CacheInv
  <2> QED BY <1>1, <1>3, <1>6, <2>1, SettleMap
<1> QED BY <1>4, <1>5, <1>6 DEF Store, CacheKey

\* The digest records what was asked for, beside the mapping that was had.
LEMMA EndMap == ASSUME MapInv, NEW t \in Tools, End(t) PROVE MapInv'
<1>1. /\ pc[t] = "next" /\ todo[t] = {} /\ pc' = [pc EXCEPT ![t] = "ended"]
      /\ UNCHANGED <<mode, build, todo, doing, used, lock, cache>>
  BY DEF End, Goto, session, shared
<1>2. Domains /\ ToolInv(t) /\ CacheInv'
  BY <1>1 DEF MapInv, CacheInv
<1>3. CASE UNCHANGED <<digest, origin>> /\ mode[t] # "digest"
  <2>1. Domains' /\ (\A u \in Tools \ {t} : Same(u)) /\ pc'[t] = "ended"
    BY <1>1, <1>2, <1>3 DEF Domains, Same
  <2>2. ToolInv(t)'
    BY <1>1, <1>2, <1>3, <2>1 DEF ToolInv, ToolTypes, DoingInv, UsedInv, InjectInv, OriginInv, Resolving
  <2> QED BY <1>2, <2>1, <2>2, SameInv DEF MapInv
<1>4. CASE /\ mode[t] = "digest"
           /\ digest' = [digest EXCEPT ![t] = [p \in DOMAIN used[t] |-> Pin(t, p)]]
           /\ origin' = [origin EXCEPT ![t] = used[t]]
  <2> DEFINE d == [p \in DOMAIN used[t] |-> Pin(t, p)]
  <2>1. DOMAIN d = DOMAIN used[t] /\ \A p \in DOMAIN d : d[p] \in {used[t][p].want, NoPin}
    BY DEF Pin
  <2>2. digest' = [digest EXCEPT ![t] = d]
    BY <1>4
  <2> HIDE DEF d
  <2>3. Domains' /\ (\A u \in Tools \ {t} : Same(u)) /\ pc'[t] = "ended" /\ digest'[t] = d /\ origin'[t] = used[t]
    BY <1>1, <1>2, <1>4, <2>2 DEF Domains, Same
  <2>4. ToolTypes(t)' /\ DoingInv(t)' /\ UsedInv(t)' /\ InjectInv(t)'
    BY <1>1, <1>2, <1>4, <2>1, <2>3 DEF ToolInv, ToolTypes, DoingInv, UsedInv, InjectInv, Resolving
  <2>5. OriginInv(t)'
    <3>1. ASSUME NEW p \in DOMAIN d, d[p] # NoPin, d[p][2] # 0
          PROVE  p \in DOMAIN used[t] /\ used[t][p].mapping = Fixed(p, d[p])
      BY <1>2, <2>1, <3>1 DEF ToolInv, UsedInv, Named
    <3>2. ASSUME NEW p \in DOMAIN digest'[t], digest'[t][p] # NoPin, digest'[t][p][2] # 0
          PROVE  p \in DOMAIN origin'[t] /\ origin'[t][p].mapping = Fixed(p, digest'[t][p])
      BY <2>3, <3>1, <3>2
    <3> QED BY <3>2 DEF OriginInv, Fixed
  <2> QED BY <1>2, <2>3, <2>4, <2>5, SameInv DEF MapInv, ToolInv
<1> QED BY <1>3, <1>4 DEF End

LEMMA KillMap == ASSUME MapInv, NEW t \in Tools, Kill(t) PROVE MapInv'
<1>1. /\ pc' = [pc EXCEPT ![t] = "idle"] /\ todo' = [todo EXCEPT ![t] = {}]
      /\ doing' = [doing EXCEPT ![t] = Idle] /\ used' = [used EXCEPT ![t] = NoDigest]
      /\ UNCHANGED <<mode, build, lock, digest, origin, cache>>
  BY DEF Kill, Goto
<1>2. Domains /\ ToolInv(t) /\ CacheInv'
  BY <1>1 DEF MapInv, CacheInv
<1>3. Domains' /\ (\A u \in Tools \ {t} : Same(u)) /\ pc'[t] = "idle" /\ todo'[t] = {} /\ used'[t] = NoDigest
  BY <1>1, <1>2 DEF Domains, Same
<1>4. DOMAIN NoDigest = {}
  BY DEF NoDigest
<1>5. ToolInv(t)'
  BY <1>1, <1>2, <1>3, <1>4 DEF ToolInv, ToolTypes, DoingInv, UsedInv, InjectInv, OriginInv, Resolving
<1> QED BY <1>2, <1>3, <1>5, SameInv DEF MapInv

LEMMA StepMap == MapInv /\ [Next]_vars => MapInv'
<1> SUFFICES ASSUME MapInv, [Next]_vars PROVE MapInv'
  OBVIOUS
<1>1. CASE UNCHANGED <<pc, mode, build, todo, doing, used, lock, digest, origin, cache>>
  <2>1. \A u \in Tools : Same(u)
    BY <1>1 DEF Same
  <2>2. Domains' /\ CacheInv'
    BY <1>1 DEF MapInv, Domains, CacheInv
  <2> QED BY <2>1, <2>2, SameInv DEF MapInv
<1>2. UNCHANGED vars \/ Release \/ (\E i \in Pids : Reparent(i) \/ PluginEnds(i))
      => UNCHANGED <<pc, mode, build, todo, doing, used, lock, digest, origin, cache>>
  BY DEF vars, session, shared, Release, Reparent, PluginEnds
<1> QED BY <1>1, <1>2, BeginMap, ResolveMap, ReadCacheMap, EnsureMap, InstallMap, LoadMap, StoreMap, AskMap,
           TerminateMap, EndMap, KillMap DEF Next

\* An injection that is not refused has the mappings that its digest was made
\* with, of every provider that is pinned with a version: for any builds with any
\* tables, whatever is released, cached, installed or killed in between
\* (applyProviderPin and the mapping cache).
THEOREM InjectionsFollowTheDigest == Spec => []InjectsAsDigested
<1>1. MapInv => InjectsAsDigested
  <2> SUFFICES ASSUME MapInv, NEW t \in Tools, pc[t] = "ended", mode[t] = "inject",
                      NEW p \in DOMAIN digest[t], digest[t][p] # NoPin, digest[t][p][2] # 0
               PROVE  p \in DOMAIN used[t] /\ used[t][p].mapping = origin[t][p].mapping
    BY DEF InjectsAsDigested
  <2>1. ToolInv(t)
    BY DEF MapInv
  <2>2. p \in DOMAIN used[t] /\ used[t][p].want = digest[t][p]
    BY <2>1 DEF ToolInv, InjectInv, Resolving
  <2>3. used[t][p].mapping = Fixed(p, digest[t][p])
    BY <2>1, <2>2 DEF ToolInv, UsedInv, Named
  <2> QED BY <2>1, <2>2, <2>3 DEF ToolInv, OriginInv
<1> QED BY <1>1, InitMap, StepMap, PTL DEF Spec
=============================================================================
