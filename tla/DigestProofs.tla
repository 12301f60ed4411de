----------------------------- MODULE DigestProofs -----------------------------
(***************************************************************************)
(* Proofs about digest tf.  First Prober, for any providers, types and lock *)
(* file: what holds however many addresses a provider has, and what holds of *)
(* those of the third-party registries, which have one.  Then TfDigest, for *)
(* any variables, files and backends: what a listing has that is made while *)
(* the variables change, and that the config follows the evaluation.        *)
(***************************************************************************)
EXTENDS Prober, TfDigest, FiniteSetTheorems, WellFoundedInduction, TLAPS

-----------------------------------------------------------------------------
(* The prober.                                                             *)

\* A process is started when none is held, and none is lost but to a crash.
StartInv ==
  \A p \in Providers :
    /\ loads[p] <= crashes[p] + 1
    /\ ~closed /\ Held(p) = {} => loads[p] <= crashes[p]

\* With one address: a provider that used its restarts up is given up on.
BudgetInv ==
  \A p \in ThirdParty : crashes[p] >= maxProviderRestarts => <<p, asked>> \in failed

\* The invariant for any number of addresses.
PInv == TypeOK /\ StartInv

\* A process is held under another address than the asked one only when that
\* one was given up on; under the asked one no dead process is kept.
OtherInv ==
  \A p \in Providers :
    /\ procs[<<p, asked>>] # "dead"
    /\ \A f \in Forms \ {asked} : procs[<<p, f>>] # "none" => <<p, asked>> \in failed

\* Why one type does not spoil another, for any number of addresses.
ContainedInv == PInv /\ OtherInv /\ NotPoisoned

\* What holds besides of the providers with one address.
SingleInv == ContainedInv /\ BudgetInv /\ RestartBudget

-----------------------------------------------------------------------------
\* The asked address is one of the forms.
LEMMA AskedIsForm ==
  /\ asked \in Forms /\ ThirdParty \subseteq Providers
  /\ \A p : FormsOf(p) \subseteq Forms /\ asked \in FormsOf(p)
BY ProberAssumption DEF asked, Forms, FormsOf

\* The fallback and the truth about a type are answers.
LEMMA Answering == \A t : fallback(t) \in Answers /\ Truth(t) \in Answers
BY DEF fallback, Truth, Answers

\* A probe touches one provider; its process stays held, unless a crash is
\* counted.
Probed(p, f, ps) ==
  /\ procs' \in [Providers \X Forms -> {"none", "alive", "dead"}]
  /\ \A q \in Providers \ {p}, g \in Forms : procs'[<<q, g>>] = ps[<<q, g>>]
  /\ verdicts' \in [Providers \X Types -> Answers \cup {"none"}]
  /\ failed' \subseteq Providers \X Forms
  /\ crashes' \in [Providers -> Nat]
  /\ \A q \in Providers : crashes'[q] >= crashes[q]
  /\ procs'[<<p, f>>] = "none" => crashes'[p] = crashes[p] + 1

LEMMA AskHeld ==
  ASSUME NEW p \in Providers, NEW t \in Types, NEW f \in Forms,
         procs[<<p, f>>] # "none", TypeOK, Ask(p, t, f, procs)
  PROVE  Probed(p, f, procs)
<1>1. CASE /\ Judge(p, t, Truth(t)) /\ procs' = procs
           /\ UNCHANGED <<failed, crashes>>
  BY <1>1, Answering DEF TypeOK, Judge, Probed
<1>2. CASE /\ Judge(p, t, fallback(t))
           /\ procs' = discard([procs EXCEPT ![<<p, f>>] = "dead"], p)
           /\ crashes' = [crashes EXCEPT ![p] = @ + 1]
           /\ failed' = IF Exhausted(crashes'[p]) THEN failed \cup {<<p, asked>>} ELSE failed
  <2>1. asked \in Forms
    BY AskedIsForm
  <2>2. /\ procs' = [[procs EXCEPT ![<<p, f>>] = "dead"] EXCEPT ![<<p, asked>>] = "none"]
        /\ procs' \in [Providers \X Forms -> {"none", "alive", "dead"}]
    BY <1>2, <2>1 DEF TypeOK, discard
  <2>3. \A q \in Providers \ {p}, g \in Forms : procs'[<<q, g>>] = procs[<<q, g>>]
    BY <2>1, <2>2 DEF TypeOK
  <2>4. /\ verdicts' \in [Providers \X Types -> Answers \cup {"none"}]
        /\ failed' \subseteq Providers \X Forms
    BY <1>2, <2>1, Answering DEF TypeOK, Judge
  <2>5. /\ crashes' \in [Providers -> Nat]
        /\ \A q \in Providers : crashes'[q] >= crashes[q]
        /\ crashes'[p] = crashes[p] + 1
    BY <1>2 DEF TypeOK
  <2>. QED BY <2>2, <2>3, <2>4, <2>5 DEF Probed
<1>. QED BY <1>1, <1>2 DEF Ask

\* The same of a process that was started for the probe.
LEMMA AskStarted ==
  ASSUME NEW p \in Providers, NEW t \in Types, TypeOK,
         Ask(p, t, asked, [procs EXCEPT ![<<p, asked>>] = "alive"])
  PROVE  Probed(p, asked, procs)
<1>1. CASE /\ Judge(p, t, Truth(t)) /\ procs' = [procs EXCEPT ![<<p, asked>>] = "alive"]
           /\ UNCHANGED <<failed, crashes>>
  BY <1>1, AskedIsForm, Answering DEF TypeOK, Judge, Probed
<1>2. CASE /\ Judge(p, t, fallback(t))
           /\ procs' = discard([[procs EXCEPT ![<<p, asked>>] = "alive"]
                                  EXCEPT ![<<p, asked>>] = "dead"], p)
           /\ crashes' = [crashes EXCEPT ![p] = @ + 1]
           /\ failed' = IF Exhausted(crashes'[p]) THEN failed \cup {<<p, asked>>} ELSE failed
  BY <1>2, AskedIsForm, Answering DEF TypeOK, Judge, discard, Probed
<1>. QED BY <1>1, <1>2 DEF Ask

\* A step of the model, by what the provider lookup did.
LEMMA PInvStep == PInv /\ [Next]_vars => PInv'
<1>. SUFFICES ASSUME PInv, [Next]_vars PROVE PInv'
  OBVIOUS
<1>. USE AskedIsForm DEF PInv
<1>1. ASSUME NEW p \in Providers, NEW t \in Types, NEW f \in Held(p),
             NoLoad, Ask(p, t, f, procs), UNCHANGED closed
      PROVE  PInv'
  <2>1. f \in Forms /\ procs[<<p, f>>] # "none"
    BY <1>1 DEF Held
  <2>2. Probed(p, f, procs)
    BY <1>1, <2>1, AskHeld
  <2>3. UNCHANGED <<closed, loads, loadFailures>>
    BY <1>1 DEF NoLoad
  <2>4. TypeOK'
    BY <2>2, <2>3 DEF TypeOK, Probed
  <2>5. \A q \in Providers \ {p} : Held(q)' = Held(q)
    BY <2>2 DEF Held, Probed
  <2>6. Held(p)' = {} => crashes'[p] = crashes[p] + 1
    BY <2>1, <2>2 DEF Held, Probed
  <2>7. StartInv'
    BY <2>2, <2>3, <2>4, <2>5, <2>6 DEF StartInv, TypeOK, Probed
  <2>. QED BY <2>4, <2>7
<1>2. ASSUME NEW p \in Providers, NEW t \in Types, ~closed, MayStart(p, asked), LoadWorks(p),
             Ask(p, t, asked, [procs EXCEPT ![<<p, asked>>] = "alive"]),
             UNCHANGED loadFailures, UNCHANGED closed
      PROVE  PInv'
  <2>2. Probed(p, asked, procs)
    BY <1>2, AskStarted
  <2>3. loads' = [loads EXCEPT ![p] = @ + 1]
    BY <1>2 DEF LoadWorks
  <2>4. TypeOK'
    BY <1>2, <2>2, <2>3 DEF TypeOK, Probed
  <2>5. \A q \in Providers \ {p} : Held(q)' = Held(q)
    BY <2>2 DEF Held, Probed
  <2>6. loads[p] <= crashes[p]
    BY <1>2 DEF StartInv, MayStart
  <2>7. Held(p)' = {} => crashes'[p] = crashes[p] + 1
    BY <2>2 DEF Held, Probed
  <2>8. StartInv'
    BY <1>2, <2>2, <2>3, <2>4, <2>5, <2>6, <2>7 DEF StartInv, TypeOK, Probed
  <2>. QED BY <2>4, <2>8
<1>3. ASSUME NEW p \in Providers, NEW t \in Types, Judge(p, t, fallback(t)),
             NoLoad \/ (LoadFails /\ UNCHANGED loads),
             failed' = failed \cup {<<p, asked>>}, UNCHANGED <<procs, crashes, closed>>
      PROVE  PInv'
  <2>1. TypeOK'
    BY <1>3, Answering, ProberAssumption DEF TypeOK, Judge, NoLoad, LoadFails
  <2>2. UNCHANGED loads /\ \A q \in Providers : Held(q)' = Held(q)
    BY <1>3 DEF NoLoad, LoadFails, Held
  <2>. QED BY <1>3, <2>1, <2>2 DEF StartInv
<1>4. ASSUME NEW p \in Providers, NEW f \in FormsOf(p), Resolve(p, f)
      PROVE  PInv'
  <2>1. UNCHANGED <<verdicts, crashes, closed>> /\ ~closed
    BY <1>4 DEF Resolve
  <2>2. CASE /\ MayStart(p, f) /\ LoadWorks(p)
             /\ procs' = [procs EXCEPT ![<<p, f>>] = "alive"]
             /\ UNCHANGED <<failed, loadFailures>>
    <3>1. loads' = [loads EXCEPT ![p] = @ + 1] /\ loads[p] <= crashes[p]
      BY <2>1, <2>2 DEF LoadWorks, MayStart, StartInv
    <3>2. TypeOK'
      BY <2>1, <2>2, <3>1 DEF TypeOK
    <3>3. Held(p)' # {} /\ \A q \in Providers \ {p} : Held(q)' = Held(q)
      BY <2>2 DEF Held, TypeOK
    <3>. QED BY <2>1, <3>1, <3>2, <3>3 DEF StartInv, TypeOK
  <2>3. CASE /\ NoLoad \/ (LoadFails /\ UNCHANGED loads)
             /\ failed' = failed \cup {<<p, f>>}
             /\ UNCHANGED procs
    <3>1. TypeOK'
      BY <2>1, <2>3, ProberAssumption DEF TypeOK, NoLoad, LoadFails
    <3>2. UNCHANGED loads /\ \A q \in Providers : Held(q)' = Held(q)
      BY <2>3 DEF NoLoad, LoadFails, Held
    <3>. QED BY <2>1, <3>1, <3>2 DEF StartInv
  <2>. QED BY <1>4, <2>2, <2>3 DEF Resolve, Fetch
<1>5. CASE Close
  BY <1>5 DEF Close, TypeOK, StartInv
<1>6. CASE UNCHANGED vars
  BY <1>6 DEF vars, TypeOK, StartInv, Held
<1>7. ASSUME NEW p \in Providers, NEW t \in Types, Check(p, t)
      PROVE  PInv'
  BY <1>1, <1>2, <1>3, <1>7 DEF Check
<1>. QED BY <1>4, <1>5, <1>6, <1>7 DEF Next

\* No process has been started and no verdict given at the start.
LEMMA InitPInv == Init => PInv
<1>1. Init => TypeOK
  <2>. SUFFICES ASSUME Init PROVE TypeOK
    OBVIOUS
  <2>1. 0 \in 0..MaxLoadFailures
    BY ProberAssumption
  <2>2. /\ verdicts \in [Providers \X Types -> Answers \cup {"none"}]
        /\ procs \in [Providers \X Forms -> {"none", "alive", "dead"}]
    BY DEF Init
  <2>3. crashes \in [Providers -> Nat] /\ loads \in [Providers -> Nat]
    BY DEF Init
  <2>. QED BY <2>1, <2>2, <2>3 DEF Init, TypeOK
<1>2. Init => StartInv
  BY DEF Init, StartInv
<1>. QED BY <1>1, <1>2 DEF PInv

\* Every reachable state satisfies the invariant, for any number of addresses.
THEOREM PInvHolds == Spec => []PInv
BY InitPInv, PInvStep, PTL DEF Spec

-----------------------------------------------------------------------------
\* Every reachable state of the prober is well typed.
THEOREM TypeCorrect == Spec => []TypeOK
BY PInvHolds, PTL DEF PInv

\* A second process of a provider is started only after a probe lost the one
\* before it, however many addresses the provider has and whoever asks.
THEOREM StartsFollowCrashes == Spec => []StartedOncePerCrash
<1>1. PInv => StartedOncePerCrash
  BY DEF PInv, StartInv, StartedOncePerCrash
<1>. QED BY PInvHolds, <1>1, PTL

-----------------------------------------------------------------------------
\* A probe of a process: a type that does not crash it gets the truth, unless
\* the process was dead, and then the asked address had been given up on.
LEMMA AskContained ==
  ASSUME NEW p \in Providers, NEW t \in Types, NEW f \in Forms,
         verdicts \in [Providers \X Types -> Answers \cup {"none"}], NotPoisoned,
         NEW ps \in [Providers \X Forms -> {"none", "alive", "dead"}],
         \A q \in Providers :
           /\ ps[<<q, asked>>] # "dead"
           /\ \A g \in Forms \ {asked} : ps[<<q, g>>] # "none" => <<q, asked>> \in failed,
         Ask(p, t, f, ps),
         ps[<<p, f>>] # "none"
  PROVE  OtherInv' /\ NotPoisoned'
<1>1. CASE /\ t \notin CrashTypes /\ Judge(p, t, Truth(t))
           /\ procs' = ps /\ UNCHANGED <<failed, crashes>>
  BY <1>1, Answering DEF OtherInv, NotPoisoned, Judge
<1>2. CASE /\ ps[<<p, f>>] = "dead" \/ t \in CrashTypes
           /\ Judge(p, t, fallback(t))
           /\ procs' = discard([ps EXCEPT ![<<p, f>>] = "dead"], p)
           /\ crashes' = [crashes EXCEPT ![p] = @ + 1]
           /\ failed' = IF Exhausted(crashes'[p]) THEN failed \cup {<<p, asked>>} ELSE failed
  <2>1. failed \subseteq failed'
    BY <1>2
  <2>2. OtherInv'
    BY <1>2, <2>1, AskedIsForm DEF OtherInv, discard
  <2>3. t \in CrashTypes \/ <<p, asked>> \in failed
    BY <1>2
  <2>4. NotPoisoned'
    BY <1>2, <2>1, <2>3, Answering DEF NotPoisoned, Judge
  <2>. QED BY <2>2, <2>4
<1>. QED BY <1>1, <1>2 DEF Ask

\* No step lets one type spoil another.
LEMMA ContainedStep == ContainedInv /\ [Next]_vars => ContainedInv'
<1>. SUFFICES ASSUME ContainedInv, [Next]_vars PROVE ContainedInv'
  OBVIOUS
<1>. USE AskedIsForm
<1>0. PInv /\ PInv' /\ TypeOK /\ TypeOK' /\ OtherInv /\ NotPoisoned
  BY PInvStep DEF ContainedInv, PInv
<1>1. ASSUME NEW p \in Providers, NEW t \in Types, NEW f \in Held(p),
             Ask(p, t, f, procs)
      PROVE  OtherInv' /\ NotPoisoned'
  <2>1. f \in Forms /\ procs[<<p, f>>] # "none"
    BY DEF Held
  <2>. PICK ps : ps = procs
    OBVIOUS
  <2>2. /\ ps \in [Providers \X Forms -> {"none", "alive", "dead"}]
        /\ \A q \in Providers :
             /\ ps[<<q, asked>>] # "dead"
             /\ \A g \in Forms \ {asked} : ps[<<q, g>>] # "none" => <<q, asked>> \in failed
    BY <1>0 DEF OtherInv, TypeOK
  <2>3. verdicts \in [Providers \X Types -> Answers \cup {"none"}] /\ ps[<<p, f>>] # "none"
    BY <1>0, <2>1 DEF TypeOK
  <2>4. Ask(p, t, f, ps)
    BY <1>1
  <2>. QED BY <1>0, <2>1, <2>2, <2>3, <2>4, AskContained
<1>2. ASSUME NEW p \in Providers, NEW t \in Types,
             Ask(p, t, asked, [procs EXCEPT ![<<p, asked>>] = "alive"])
      PROVE  OtherInv' /\ NotPoisoned'
  <2>0. PICK ps : ps = [procs EXCEPT ![<<p, asked>>] = "alive"]
    OBVIOUS
  <2>1. /\ ps \in [Providers \X Forms -> {"none", "alive", "dead"}]
        /\ ps[<<p, asked>>] # "none"
    BY <1>0, <2>0 DEF TypeOK
  <2>2. \A q \in Providers :
          /\ ps[<<q, asked>>] # "dead"
          /\ \A g \in Forms \ {asked} : ps[<<q, g>>] # "none" => <<q, asked>> \in failed
    BY <1>0, <2>0 DEF OtherInv, TypeOK
  <2>3. PICK f \in Forms : f = asked
    OBVIOUS
  <2>4. Ask(p, t, f, ps) /\ ps[<<p, f>>] # "none"
    BY <1>2, <2>0, <2>1, <2>3
  <2>5. verdicts \in [Providers \X Types -> Answers \cup {"none"}]
    BY <1>0 DEF TypeOK
  <2>. QED BY <1>0, <2>1, <2>2, <2>3, <2>4, <2>5, AskContained
<1>3. ASSUME NEW p \in Providers, NEW t \in Types, Judge(p, t, fallback(t)),
             failed' = failed \cup {<<p, asked>>}, UNCHANGED <<procs, crashes>>
      PROVE  OtherInv' /\ NotPoisoned'
  <2>1. OtherInv'
    BY <1>0, <1>3 DEF OtherInv
  <2>2. NotPoisoned'
    BY <1>0, <1>3 DEF NotPoisoned, Judge, TypeOK, Truth
  <2>. QED BY <2>1, <2>2
<1>4. ASSUME NEW p \in Providers, NEW f \in FormsOf(p), Resolve(p, f)
      PROVE  OtherInv' /\ NotPoisoned'
  <2>1. UNCHANGED verdicts
    BY <1>4 DEF Resolve
  <2>2. f = asked \/ <<p, asked>> \in failed
    BY <1>4 DEF Resolve, Fetch, asked, Forms, FormsOf
  <2>3. CASE procs' = [procs EXCEPT ![<<p, f>>] = "alive"] /\ UNCHANGED failed
    <3>1. OtherInv'
      BY <1>0, <2>2, <2>3 DEF OtherInv, TypeOK
    <3>2. NotPoisoned'
      BY <1>0, <2>1, <2>3 DEF NotPoisoned, Truth
    <3>. QED BY <3>1, <3>2
  <2>4. CASE failed' = failed \cup {<<p, f>>} /\ UNCHANGED procs
    BY <1>0, <2>1, <2>4 DEF OtherInv, NotPoisoned
  <2>. QED BY <1>4, <2>3, <2>4 DEF Resolve, Fetch
<1>5. CASE Close
  <2>1. OtherInv'
    BY <1>5 DEF Close, OtherInv
  <2>3. UNCHANGED verdicts /\ failed \subseteq failed'
    BY <1>5 DEF Close
  <2>2. NotPoisoned'
    BY <1>0, <2>3 DEF NotPoisoned
  <2>. QED BY <1>0, <2>1, <2>2 DEF ContainedInv
<1>6. CASE UNCHANGED vars
  <2>1. OtherInv'
    BY <1>0, <1>6 DEF vars, OtherInv
  <2>3. UNCHANGED <<verdicts, failed>>
    BY <1>6 DEF vars
  <2>2. NotPoisoned'
    BY <1>0, <2>3 DEF NotPoisoned
  <2>. QED BY <1>0, <2>1, <2>2 DEF ContainedInv
<1>7. ASSUME NEW p \in Providers, NEW t \in Types, Check(p, t)
      PROVE  OtherInv' /\ NotPoisoned'
  BY <1>1, <1>2, <1>3, <1>7 DEF Check
<1>. QED BY <1>0, <1>4, <1>5, <1>6, <1>7 DEF Next, ContainedInv

\* No verdict has been given at the start.
LEMMA InitContained == Init => ContainedInv
<1>. SUFFICES ASSUME Init PROVE ContainedInv
  OBVIOUS
<1>1. PInv
  BY InitPInv
<1>2. OtherInv /\ NotPoisoned
  BY AskedIsForm DEF Init, OtherInv, NotPoisoned
<1>. QED BY <1>1, <1>2 DEF ContainedInv

\* A type that its provider can answer for gets that answer, whatever types are
\* probed before it and under whatever address its provider was started, unless
\* the asked address was given up on.
THEOREM FlakyTypesAreContained == Spec => []NotPoisoned
<1>1. ContainedInv => NotPoisoned
  BY DEF ContainedInv
<1>. QED BY <1>1, InitContained, ContainedStep, PTL DEF Spec

-----------------------------------------------------------------------------
(* With a single address, as the providers of third-party registries have. *)

\* A probe that is not answered is counted, and counted out in time.
LEMMA AskSingle ==
  ASSUME NEW p \in Providers, NEW t \in Types, NEW f \in Forms, NEW ps,
         crashes \in [Providers -> Nat], BudgetInv, Ask(p, t, f, ps)
  PROVE  BudgetInv'
<1>1. CASE UNCHANGED <<failed, crashes>>
  BY <1>1 DEF BudgetInv
<1>2. CASE /\ crashes' = [crashes EXCEPT ![p] = @ + 1]
           /\ failed' = IF Exhausted(crashes'[p]) THEN failed \cup {<<p, asked>>} ELSE failed
  BY <1>2, AskedIsForm DEF BudgetInv, Exhausted
<1>. QED BY <1>1, <1>2 DEF Ask

\* No step breaks the budget of a provider with a single address, and none
\* starts a process of one that was given up on.
LEMMA SingleStep ==
  SingleInv /\ [Next]_vars =>
    /\ SingleInv'
    /\ [\A p \in ThirdParty : <<p, asked>> \in failed => loads'[p] = loads[p]]_vars
<1>. DEFINE Final == \A p \in ThirdParty : <<p, asked>> \in failed => loads'[p] = loads[p]
<1>. SUFFICES ASSUME SingleInv, [Next]_vars
              PROVE  SingleInv' /\ [Final]_vars
  OBVIOUS
<1>. USE AskedIsForm
<1>0. PInv /\ ContainedInv' /\ TypeOK /\ TypeOK' /\ BudgetInv /\ RestartBudget
  BY ContainedStep DEF SingleInv, ContainedInv, PInv
<1>1. ASSUME BudgetInv', UNCHANGED loads
      PROVE  SingleInv' /\ Final
  BY <1>0, <1>1 DEF SingleInv, RestartBudget
<1>2. ASSUME NEW p \in Providers, NEW f \in FormsOf(p), MayStart(p, f), ~closed,
             LoadWorks(p), BudgetInv'
      PROVE  SingleInv' /\ Final
  <2>1. loads' = [loads EXCEPT ![p] = @ + 1] /\ <<p, f>> \notin failed
    BY <1>2 DEF LoadWorks, MayStart
  <2>2. loads[p] <= crashes[p]
    BY <1>0, <1>2 DEF PInv, StartInv, MayStart
  <2>3. p \in ThirdParty => f = asked
    BY DEF FormsOf
  <2>4. p \in ThirdParty => crashes[p] < maxProviderRestarts
    BY <1>0, <2>1, <2>3 DEF BudgetInv, TypeOK, maxProviderRestarts
  <2>5. RestartBudget'
    BY <1>0, <2>1, <2>2, <2>4 DEF RestartBudget, TypeOK, maxProviderRestarts
  <2>6. Final
    BY <1>0, <2>1, <2>3 DEF TypeOK
  <2>. QED BY <1>0, <1>2, <2>5, <2>6 DEF SingleInv
<1>3. ASSUME NEW p \in Providers, NEW t \in Types, Check(p, t)
      PROVE  SingleInv' /\ Final
  <2>1. ASSUME NEW f \in Held(p), NoLoad, Ask(p, t, f, procs)
        PROVE  SingleInv' /\ Final
    <3>. PICK ps : ps = procs
      OBVIOUS
    <3>1. f \in Forms /\ Ask(p, t, f, ps) /\ crashes \in [Providers -> Nat]
      BY <1>0, <2>1 DEF Held, TypeOK
    <3>2. BudgetInv'
      BY <1>0, <3>1, AskSingle
    <3>. QED BY <1>1, <2>1, <3>2 DEF NoLoad
  <2>2. ASSUME MayStart(p, asked), LoadWorks(p), ~closed,
               Ask(p, t, asked, [procs EXCEPT ![<<p, asked>>] = "alive"])
        PROVE  SingleInv' /\ Final
    <3>0. PICK ps : ps = [procs EXCEPT ![<<p, asked>>] = "alive"]
      OBVIOUS
    <3>1. Ask(p, t, asked, ps) /\ crashes \in [Providers -> Nat]
      BY <1>0, <2>2, <3>0 DEF TypeOK
    <3>2. BudgetInv'
      BY <1>0, <3>1, AskSingle
    <3>. QED BY <1>2, <2>2, <3>2
  <2>3. ASSUME NoLoad \/ (LoadFails /\ UNCHANGED loads),
               failed' = failed \cup {<<p, asked>>}, UNCHANGED crashes
        PROVE  SingleInv' /\ Final
    <3>1. BudgetInv' /\ UNCHANGED loads
      BY <1>0, <2>3 DEF BudgetInv, NoLoad
    <3>. QED BY <1>1, <3>1
  <2>. QED BY <1>3, <2>1, <2>2, <2>3 DEF Check
<1>4. ASSUME NEW p \in Providers, NEW f \in FormsOf(p), Resolve(p, f)
      PROVE  SingleInv' /\ Final
  <2>1. UNCHANGED crashes /\ ~closed
    BY <1>4 DEF Resolve
  <2>2. CASE MayStart(p, f) /\ LoadWorks(p) /\ UNCHANGED failed
    <3>1. BudgetInv'
      BY <1>0, <2>1, <2>2 DEF BudgetInv
    <3>. QED BY <1>2, <2>1, <2>2, <3>1
  <2>3. CASE /\ NoLoad \/ (LoadFails /\ UNCHANGED loads)
             /\ failed' = failed \cup {<<p, f>>}
    <3>1. BudgetInv' /\ UNCHANGED loads
      BY <1>0, <2>1, <2>3 DEF BudgetInv, NoLoad
    <3>. QED BY <1>1, <3>1
  <2>. QED BY <1>4, <2>2, <2>3 DEF Resolve, Fetch
<1>5. CASE Close
  <2>1. BudgetInv' /\ UNCHANGED loads
    BY <1>0, <1>5 DEF Close, BudgetInv
  <2>. QED BY <1>1, <2>1
<1>6. CASE UNCHANGED vars
  <2>1. BudgetInv' /\ UNCHANGED loads
    BY <1>0, <1>6 DEF vars, BudgetInv
  <2>. QED BY <1>1, <2>1
<1>. QED BY <1>3, <1>4, <1>5, <1>6 DEF Next

\* In every reachable state the budgets of these providers are kept.
THEOREM SingleInvHolds == Spec => []SingleInv
<1>1. Init => SingleInv
  <2>. SUFFICES ASSUME Init PROVE SingleInv
    OBVIOUS
  <2>1. BudgetInv /\ RestartBudget
    BY AskedIsForm DEF Init, BudgetInv, RestartBudget, maxProviderRestarts
  <2>. QED BY <2>1, InitContained DEF SingleInv
<1>2. SingleInv /\ [Next]_vars => SingleInv'
  BY SingleStep
<1>. QED BY <1>1, <1>2, PTL DEF Spec

\* Of a provider with a single address no dead process is held between calls.
THEOREM DeadHandlesAreDropped == Spec => []ThirdPartyHandles
<1>1. SingleInv => ThirdPartyHandles
  BY AskedIsForm DEF SingleInv, ContainedInv, OtherInv, ThirdPartyHandles
<1>. QED BY <1>1, SingleInvHolds, PTL

\* A provider with a single address is started at most three times.
THEOREM RestartsAreBounded == Spec => []RestartBudget
BY SingleInvHolds, PTL DEF SingleInv

\* A provider with a single address is not started again once it is given up on.
THEOREM GivingUpIsFinal == Spec => GivenUpForGood
<1>1. SingleInv /\ [Next]_vars =>
        [\A p \in ThirdParty : <<p, asked>> \in failed => loads'[p] = loads[p]]_vars
  BY SingleStep
<1>. QED BY SingleInvHolds, <1>1, PTL DEF Spec, GivenUpForGood

-----------------------------------------------------------------------------
(* The digest: its operators.                                              *)

\* A finite set of numbers has a last one.
LEMMA HasLast ==
  ASSUME NEW S, S \subseteq Nat, S # {}, IsFiniteSet(S)
  PROVE  \E x \in S : \A y \in S : y <= x
<1>. DEFINE After(x) == {y \in S : y > x}
            Sizes == {Cardinality(After(x)) : x \in S}
<1>1. \A x \in S : IsFiniteSet(After(x)) /\ Cardinality(After(x)) \in Nat
  BY FS_Subset, FS_CardinalityType
<1>2. Sizes \subseteq Nat /\ Sizes # {}
  BY <1>1
<1>3. PICK least \in Sizes : \A n \in Sizes : ~(<<n, least>> \in OpToRel(<, Nat))
  BY <1>2, NatLessThanWellFounded, WFMin
<1>4. PICK x \in S : least = Cardinality(After(x))
  OBVIOUS
<1>5. SUFFICES ASSUME NEW y \in S, ~(y <= x) PROVE FALSE
  OBVIOUS
<1>6. y > x /\ x \in Nat /\ y \in Nat
  BY <1>5
<1>7. After(y) \in SUBSET After(x) /\ y \in After(x) /\ y \notin After(y)
  <2>1. \A z \in S : z > y => z > x
    BY <1>6
  <2>2. After(y) \in SUBSET After(x)
    BY <2>1
  <2>3. y \in After(x)
    BY <1>6
  <2>4. ~(y > y)
    BY <1>6
  <2> QED BY <2>2, <2>3, <2>4
<1>8. IsFiniteSet(After(x)) /\ Cardinality(After(x)) \in Nat /\ Cardinality(After(y)) \in Nat
  BY <1>1
<1>9. Cardinality(After(y)) <= Cardinality(After(x)) /\ Cardinality(After(y)) # Cardinality(After(x))
  <2>. HIDE DEF After
  <2> QED BY <1>7, <1>8, FS_Subset
<1>10. Cardinality(After(y)) < least
  BY <1>4, <1>8, <1>9
<1>11. Cardinality(After(y)) \in Sizes
  OBVIOUS
<1>12. ~(<<Cardinality(After(y)), least>> \in {ss \in Nat \X Nat : ss[1] < ss[2]})
  BY <1>3, <1>11 DEF OpToRel
<1> QED BY <1>10, <1>12, <1>8, <1>4

\* What files say of a variable, in the last of those that say one of some values.
LEMMA LastWithIsSaid ==
  ASSUME files \in TfVars, NEW k, NEW values \in SUBSET (Texts \cup {Empty, Null})
  PROVE  LET having == {i \in DOMAIN files : k \in DOMAIN files[i] /\ files[i][k] \in values}
         IN  \/ having = {} /\ LastWith(k, values) = Unset
             \/ \E i \in having : (\A j \in having : j <= i) /\ LastWith(k, values) = files[i][k]
<1>. DEFINE having == {i \in DOMAIN files : k \in DOMAIN files[i] /\ files[i][k] \in values}
<1>1. CASE having = {}
  BY <1>1 DEF LastWith
<1>2. CASE having # {}
  <2>1. having \subseteq Nat /\ having \in SUBSET DOMAIN files /\ IsFiniteSet(DOMAIN files)
    BY TfDigestAssumption
  <2>2. IsFiniteSet(having)
    BY <2>1, FS_Subset
  <2>3. \E x \in having : \A y \in having : y <= x
    BY <1>2, <2>1, <2>2, HasLast
  <2>4. LastWith(k, values) = files[CHOOSE i \in having : \A j \in having : j <= i][k]
    BY <1>2 DEF LastWith
  <2>. HIDE DEF having
  <2>5. \E i \in having : (\A j \in having : j <= i) /\ LastWith(k, values) = files[i][k]
    BY <2>3, <2>4
  <2> QED BY <2>5 DEF having
<1> QED BY <1>1, <1>2

LEMMA LastWithType ==
  ASSUME files \in TfVars, NEW k, NEW values \in SUBSET (Texts \cup {Empty, Null})
  PROVE  LastWith(k, values) \in values \cup {Unset}
BY LastWithIsSaid

\* A text that is the last said of all values is the last of the texts, too.
LEMMA LastTextIsLast ==
  ASSUME files \in TfVars, NEW k, LastWith(k, Texts \cup {Empty, Null}) \in Texts
  PROVE  LastWith(k, Texts) = LastWith(k, Texts \cup {Empty, Null})
<1>. DEFINE all == {i \in DOMAIN files : k \in DOMAIN files[i] /\ files[i][k] \in Texts \cup {Empty, Null}}
            texts == {i \in DOMAIN files : k \in DOMAIN files[i] /\ files[i][k] \in Texts}
<1>1. PICK i \in all : (\A j \in all : j <= i) /\ LastWith(k, Texts \cup {Empty, Null}) = files[i][k]
  BY LastWithIsSaid DEF Unset, Texts
<1>2. i \in texts /\ texts \subseteq all
  BY <1>1
<1>3. PICK j \in texts : (\A m \in texts : m <= j) /\ LastWith(k, Texts) = files[j][k]
  BY <1>2, LastWithIsSaid
<1>4. i \in Nat /\ j \in Nat
  BY TfDigestAssumption
<1>5. i <= j /\ j <= i
  BY <1>1, <1>2, <1>3
<1> QED BY <1>1, <1>3, <1>4, <1>5

LEMMA RedactedKeeps ==
  ASSUME NEW v \in Item
  PROVE  /\ Redacted(v) \in Item
         /\ Redacted(v).key = v.key /\ Redacted(v).scope = v.scope
BY DEF Redacted, Item

LEMMA RootVariablesType ==
  ASSUME files \in TfVars, remote \subseteq Item
  PROVE  RootVariables \in [Declared -> Shown]
<1>1. \A k : FromFiles(k) \in Shown
  BY LastWithType DEF FromFiles, Shown
<1>2. \A k : RemoteOf(remote, k) \subseteq Item
  BY DEF RemoteOf
<1>3. \A v \in Item : v.value \in Shown
  BY DEF Item, Shown
<1>4. SUFFICES ASSUME NEW k \in Declared PROVE RootVariables[k] \in Shown
  BY DEF RootVariables
<1>. DEFINE own == RemoteOf(remote, k)
<1>5. CASE \E v \in own : v.sensitive
  BY <1>5 DEF RootVariables, Shown
<1>6. CASE ~(\E v \in own : v.sensitive) /\ \E v \in own : ~Unparsable(v)
  <2>1. RootVariables[k] = (CHOOSE v \in own : TRUE).value
    BY <1>6 DEF RootVariables
  <2>2. (CHOOSE v \in own : TRUE) \in own
    BY <1>6
  <2> QED BY <2>1, <2>2, <1>2, <1>3
<1>7. CASE ~(\E v \in own : v.sensitive) /\ ~\E v \in own : ~Unparsable(v)
  BY <1>1, <1>7 DEF RootVariables
<1> QED BY <1>5, <1>6, <1>7

LEMMA EntryType ==
  ASSUME files \in TfVars, remote \subseteq Item, NEW k
  PROVE  Entry(k) \in Setting
<1>. DEFINE own == {v \in RemoteOf(remote, k) : v.value # Empty}
<1>1. own \subseteq Item
  BY DEF RemoteOf
<1>2. CASE own # {}
  <2>1. (CHOOSE v \in own : TRUE) \in Item
    BY <1>1, <1>2
  <2>2. (CHOOSE v \in own : TRUE).value \in Shown
    BY <2>1 DEF Item, Shown
  <2> QED BY <1>2, <2>2 DEF Entry, Setting
<1>3. CASE own = {}
  <2>1. LastWith(k, Texts) \in Shown
    BY LastWithType DEF Shown
  <2> QED BY <1>3, <2>1 DEF Entry, Setting, Shown
<1> QED BY <1>2, <1>3

LEMMA ReadType ==
  ASSUME DigestTypeOK
  PROVE  Read \subseteq [page : Nat, var : Item]
<1>1. \A r \in Page : server[r] \in Item
  BY TfDigestAssumption DEF Page, Served, DigestTypeOK
<1> QED BY <1>1, RedactedKeeps DEF Read, DigestTypeOK

LEMMA DedupedType ==
  ASSUME NEW read, read \subseteq [page : Nat, var : Item]
  PROVE  Deduped(read) \subseteq Item
BY DEF Deduped, Kept

-----------------------------------------------------------------------------
(* The digest: its types.                                                  *)

\* The variables of the backend stay, and with them whether they are typed.
WorldOK ==
  /\ server \in [DOMAIN server -> Items]
  /\ DOMAIN server \subseteq Places /\ IsFiniteSet(DOMAIN server)
  /\ steady \subseteq Present

LEMMA InitDigestType == DigestInit => DigestTypeOK
<1>. SUFFICES ASSUME DigestInit PROVE DigestTypeOK
  OBVIOUS
<1>1. server \in [DOMAIN server -> Items] /\ DOMAIN server \subseteq Places /\ IsFiniteSet(DOMAIN server)
  BY TfDigestAssumption DEF DigestInit
<1>2. config \in [Keys \cup Declared -> Setting]
  BY DEF DigestInit, Setting, Shown
<1>3. /\ skip \in BOOLEAN /\ context \in BOOLEAN
      /\ listed \in BOOLEAN /\ deleted \in BOOLEAN /\ edited \in BOOLEAN
  BY DEF DigestInit
<1>4. /\ steady \subseteq Present /\ entries \subseteq [page : Nat, var : Item] /\ remote \subseteq Item
      /\ pending \subseteq [key : Keys \cup Declared, entry : Setting]
      /\ evaluated \in {None} \cup [Declared -> Shown] /\ digest \in {None} \cup [Declared -> Shown]
  BY DEF DigestInit
<1>5. /\ changes \in 0..MaxChanges /\ faults \in 0..MaxFaults /\ runs \in 0..MaxRuns
      /\ page \in Nat \ {0}
  BY TfDigestAssumption DEF DigestInit
<1>6. /\ backend \in Backends /\ files \in TfVars /\ modules \in {"none", "some", "all", "hidden"}
      /\ pc = "idle" /\ source \in {"remote", "raw", "show"}
  BY DEF DigestInit
<1> QED BY <1>1, <1>2, <1>3, <1>4, <1>5, <1>6 DEF DigestTypeOK, Ended

\* The steps that leave the backend's variables alone.
LEMMA WorldStays ==
  ASSUME DigestTypeOK, UNCHANGED server, steady' \subseteq steady \/ steady' = Present
  PROVE  /\ server' \in [DOMAIN server' -> Items]
         /\ DOMAIN server' \subseteq Places /\ IsFiniteSet(DOMAIN server')
         /\ steady' \subseteq Present'
BY DEF DigestTypeOK, Present

\* Moving on is all that most steps do.
LEMMA MoveType ==
  ASSUME DigestTypeOK, OnlyMove, Succeeds \/ Fails,
         pc' \in {"failed", "parse", "lookup", "locate", "download", "workspace", "build"}
  PROVE  DigestTypeOK'
<1>1. /\ UNCHANGED <<server, backend, files, modules, source, skip, context, page, entries, remote,
                     evaluated, pending, digest, config, listed, steady, deleted, edited>>
      /\ changes' \in 0..MaxChanges /\ faults' \in 0..MaxFaults /\ runs' \in 0..MaxRuns
  BY TfDigestAssumption DEF DigestTypeOK, OnlyMove, Succeeds, Fails, world, options, listing, history, bounds
<1>2. WorldOK'
  BY <1>1, WorldStays DEF WorldOK
<1> QED BY <1>1, <1>2 DEF DigestTypeOK, WorldOK, Ended

LEMMA StartType ==
  ASSUME DigestTypeOK, Start
  PROVE  DigestTypeOK'
<1>1. /\ UNCHANGED <<server, backend, files, modules, digest, config, changes, faults>>
      /\ runs' \in 0..MaxRuns /\ steady' = {}
  BY TfDigestAssumption DEF DigestTypeOK, Start, world
<1>2. WorldOK'
  BY <1>1, WorldStays DEF WorldOK
<1>3. /\ pc' = "load" /\ source' \in {"remote", "raw", "show"} /\ skip' \in BOOLEAN
      /\ page' = 1 /\ entries' = {} /\ remote' = {} /\ evaluated' = None /\ pending' = {}
  BY DEF Start
<1>4. /\ context' \in BOOLEAN /\ listed' \in BOOLEAN /\ deleted' \in BOOLEAN /\ edited' \in BOOLEAN
  BY DEF Start
<1> QED BY <1>1, <1>2, <1>3, <1>4 DEF DigestTypeOK, WorldOK

LEMMA LoadConfigType ==
  ASSUME DigestTypeOK, LoadConfig
  PROVE  DigestTypeOK'
<1>1. /\ UNCHANGED <<server, backend, files, source, skip, context, page, entries, remote, evaluated,
                     pending, digest, config, listed, steady, deleted, edited>>
      /\ modules' \in {"none", "some", "all", "hidden"} /\ pc' \in {"failed", "pull"}
      /\ changes' \in 0..MaxChanges /\ faults' \in 0..MaxFaults /\ runs' \in 0..MaxRuns
  BY TfDigestAssumption
     DEF DigestTypeOK, LoadConfig, Succeeds, Fails, options, listing, history, bounds, Installing
<1>2. WorldOK'
  BY <1>1, WorldStays DEF WorldOK
<1> QED BY <1>1, <1>2 DEF DigestTypeOK, WorldOK, Ended

LEMMA ParseType ==
  ASSUME DigestTypeOK, Parse
  PROVE  DigestTypeOK'
<1>1. /\ UNCHANGED <<server, backend, files, modules, source, skip, page, entries, remote, evaluated,
                     pending, digest, config, listed, steady, deleted, edited>>
      /\ pc' \in {"failed", "build", "discover"}
      /\ changes' \in 0..MaxChanges /\ faults' \in 0..MaxFaults /\ runs' \in 0..MaxRuns
  BY TfDigestAssumption
     DEF DigestTypeOK, Parse, Succeeds, Fails, world, options, listing, history, bounds
<1>2. WorldOK'
  BY <1>1, WorldStays DEF WorldOK
<1>3. context' \in BOOLEAN
  BY Zenon DEF Parse, IsRaw, DigestTypeOK
<1> QED BY <1>1, <1>2, <1>3 DEF DigestTypeOK, WorldOK, Ended

LEMMA WorkspaceType ==
  ASSUME DigestTypeOK, Workspace
  PROVE  DigestTypeOK'
<1>1. /\ UNCHANGED <<server, backend, files, modules, source, skip, context, page, entries, remote,
                     evaluated, pending, digest, config, listed, deleted, edited>>
      /\ pc' \in {"page", "build"} /\ steady' \in {steady, Present}
      /\ changes' \in 0..MaxChanges /\ faults' \in 0..MaxFaults /\ runs' \in 0..MaxRuns
  BY TfDigestAssumption
     DEF DigestTypeOK, Workspace, Succeeds, Fails, world, options, listing, bounds
<1>2. WorldOK'
  BY <1>1, WorldStays DEF WorldOK
<1> QED BY <1>1, <1>2 DEF DigestTypeOK, WorldOK

LEMMA ReadPageType ==
  ASSUME DigestTypeOK, ReadPage
  PROVE  DigestTypeOK'
<1>1. /\ UNCHANGED <<server, backend, files, modules, source, skip, context, evaluated, pending,
                     digest, config, steady, deleted, edited>>
      /\ changes' \in 0..MaxChanges /\ faults' \in 0..MaxFaults /\ runs' \in 0..MaxRuns
  BY TfDigestAssumption DEF DigestTypeOK, ReadPage, Succeeds, Fails, world, options, bounds
<1>2. WorldOK'
  BY <1>1, WorldStays DEF WorldOK
<1>3. /\ entries' \in {entries, entries \cup Read} /\ page' \in {page, page + 1}
      /\ pc' \in {"page", "build"} /\ listed' \in BOOLEAN
      /\ remote' = remote \/ remote' = Deduped(entries')
  BY DEF ReadPage, listing, DigestTypeOK
<1>4. entries' \subseteq [page : Nat, var : Item]
  BY <1>3, ReadType DEF DigestTypeOK
<1>5. remote' \subseteq Item
  BY <1>3, <1>4, DedupedType DEF DigestTypeOK
<1>6. page' \in Nat \ {0}
  BY <1>3 DEF DigestTypeOK
<1> QED BY <1>1, <1>2, <1>3, <1>4, <1>5, <1>6 DEF DigestTypeOK, WorldOK

\* From the evaluation on, the listing stays as it is.
LEMMA BuildType ==
  ASSUME DigestTypeOK, Build
  PROVE  DigestTypeOK'
<1>1. /\ UNCHANGED <<server, backend, files, modules, source, skip, context, page, entries, remote,
                     pending, digest, config, listed, steady, deleted, edited>>
      /\ pc' \in {"write", "failed"} /\ evaluated' \in {Evaluation, None}
      /\ changes' \in 0..MaxChanges /\ faults' \in 0..MaxFaults /\ runs' \in 0..MaxRuns
  BY TfDigestAssumption
     DEF DigestTypeOK, Build, Succeeds, Fails, world, options, listing, history, bounds
<1>2. WorldOK'
  BY <1>1, WorldStays DEF WorldOK
<1>3. RootVariables \in [Declared -> Shown]
  BY RootVariablesType DEF DigestTypeOK
<1>4. evaluated' \in {None} \cup [Declared -> Shown]
  BY <1>1, <1>3 DEF Evaluation
<1> QED BY <1>1, <1>2, <1>4 DEF DigestTypeOK, WorldOK, Ended

LEMMA WriteType ==
  ASSUME DigestTypeOK, Write
  PROVE  DigestTypeOK'
<1>1. /\ UNCHANGED <<server, backend, files, modules, source, skip, context, page, entries, remote,
                     evaluated, pending, config, listed, steady, deleted, edited>>
      /\ pc' \in {"done", "collect", "failed"} /\ digest' \in {evaluated, digest, None}
      /\ changes' \in 0..MaxChanges /\ faults' \in 0..MaxFaults /\ runs' \in 0..MaxRuns
  BY TfDigestAssumption
     DEF DigestTypeOK, Write, Succeeds, Fails, world, options, listing, history, bounds
<1>2. WorldOK'
  BY <1>1, WorldStays DEF WorldOK
<1> QED BY <1>1, <1>2 DEF DigestTypeOK, WorldOK, Ended

LEMMA CollectType ==
  ASSUME DigestTypeOK, Collect
  PROVE  DigestTypeOK'
<1>1. /\ UNCHANGED <<server, backend, files, modules, source, skip, context, page, entries, remote,
                     evaluated, digest, config, listed, steady, deleted, edited>>
      /\ pc' \in {"set", "failed"}
      /\ pending' \in {pending, {[key |-> k, entry |-> Entry(k)] : k \in Entries}}
      /\ changes' \in 0..MaxChanges /\ faults' \in 0..MaxFaults /\ runs' \in 0..MaxRuns
  BY TfDigestAssumption
     DEF DigestTypeOK, Collect, Succeeds, Fails, world, options, listing, history, bounds
<1>2. WorldOK'
  BY <1>1, WorldStays DEF WorldOK
<1>3. \A k : Entry(k) \in Setting
  BY EntryType DEF DigestTypeOK
<1>4. {[key |-> k, entry |-> Entry(k)] : k \in Entries} \subseteq [key : Keys \cup Declared, entry : Setting]
  BY <1>3 DEF Entries
<1> QED BY <1>1, <1>2, <1>4 DEF DigestTypeOK, WorldOK, Ended

LEMMA SetConfigType ==
  ASSUME DigestTypeOK, SetConfig
  PROVE  DigestTypeOK'
<1>1. /\ UNCHANGED <<server, backend, files, modules, source, skip, context, page, entries, remote,
                     evaluated, digest, listed, steady, deleted, edited>>
      /\ pc' \in {"set", "done", "failed"}
      /\ changes' \in 0..MaxChanges /\ faults' \in 0..MaxFaults /\ runs' \in 0..MaxRuns
  BY TfDigestAssumption
     DEF DigestTypeOK, SetConfig, Succeeds, Fails, world, options, listing, history, bounds
<1>2. WorldOK'
  BY <1>1, WorldStays DEF WorldOK
<1>3. /\ pending' \subseteq [key : Keys \cup Declared, entry : Setting]
      /\ config' \in [Keys \cup Declared -> Setting]
  BY DEF DigestTypeOK, SetConfig
<1> QED BY <1>1, <1>2, <1>3 DEF DigestTypeOK, WorldOK, Ended

LEMMA SetSecretsType ==
  ASSUME DigestTypeOK, SetSecrets
  PROVE  DigestTypeOK'
<1>1. /\ UNCHANGED <<server, backend, files, modules, pc, source, skip, context, page, entries, remote,
                     evaluated, pending, digest, listed, steady, deleted, edited, changes, faults, runs>>
  BY DEF SetSecrets, world, options, listing, history, bounds
<1>2. WorldOK'
  BY <1>1, WorldStays DEF WorldOK
<1>3. [value |-> ByHand, secret |-> TRUE] \in Setting
  BY DEF Setting, Shown
<1>4. config' \in [Keys \cup Declared -> Setting]
  BY <1>3 DEF DigestTypeOK, SetSecrets
<1> QED BY <1>1, <1>2, <1>4 DEF DigestTypeOK, WorldOK

LEMMA KillType ==
  ASSUME DigestTypeOK, Kill
  PROVE  DigestTypeOK'
<1>1. /\ UNCHANGED <<server, backend, files, source, skip, context, page, entries, remote, evaluated,
                     pending, config, listed, steady, deleted, edited>>
      /\ modules' \in {"none", "some", "all", "hidden"} /\ pc' = "failed"
      /\ digest' \in {digest, None}
      /\ changes' \in 0..MaxChanges /\ faults' \in 0..MaxFaults /\ runs' \in 0..MaxRuns
  BY TfDigestAssumption
     DEF DigestTypeOK, Kill, Fails, options, listing, history, bounds, Installing
<1>2. WorldOK'
  BY <1>1, WorldStays DEF WorldOK
<1> QED BY <1>1, <1>2 DEF DigestTypeOK, WorldOK, Ended

LEMMA OperatorInitType ==
  ASSUME DigestTypeOK, OperatorInit
  PROVE  DigestTypeOK'
<1>1. /\ UNCHANGED <<server, backend, files, pc, source, skip, context, page, entries, remote, evaluated,
                     pending, digest, config, listed, steady, deleted, edited, changes, faults, runs>>
      /\ modules' = "all"
  BY DEF OperatorInit, options, listing, history, bounds
<1>2. WorldOK'
  BY <1>1, WorldStays DEF WorldOK
<1> QED BY <1>1, <1>2 DEF DigestTypeOK, WorldOK

\* What another writer leaves.
LEMMA ChangeType ==
  ASSUME DigestTypeOK, Change, WorldOK', files' \in TfVars, UNCHANGED listed,
         deleted' \in BOOLEAN, edited' \in BOOLEAN
  PROVE  DigestTypeOK'
<1>1. /\ UNCHANGED <<backend, modules, pc, source, skip, context, page, entries, remote, evaluated,
                     pending, digest, config, listed>>
      /\ changes' \in 0..MaxChanges /\ faults' \in 0..MaxFaults /\ runs' \in 0..MaxRuns
  BY TfDigestAssumption DEF DigestTypeOK, Change, options, listing
<1> QED BY <1>1 DEF DigestTypeOK, WorldOK

LEMMA AddType ==
  ASSUME DigestTypeOK, AddVariable
  PROVE  DigestTypeOK'
<1>1. PICK v \in Items, n \in Places \ DOMAIN server :
         server' = [r \in DOMAIN server \cup {n} |-> IF r = n THEN v ELSE server[r]]
  BY DEF AddVariable
<1>2. DOMAIN server' = DOMAIN server \cup {n}
  BY <1>1
<1>3. /\ server' \in [DOMAIN server' -> Items] /\ DOMAIN server' \subseteq Places
      /\ IsFiniteSet(DOMAIN server')
  BY <1>1, <1>2, FS_AddElement DEF DigestTypeOK
<1>4. UNCHANGED <<files, listed, steady, deleted, edited>>
  BY DEF AddVariable, history
<1>5. Present \subseteq Present'
  BY <1>1, <1>2 DEF Present
<1>6. WorldOK'
  BY <1>3, <1>4, <1>5 DEF WorldOK, DigestTypeOK
<1> QED BY <1>4, <1>6, ChangeType DEF AddVariable, DigestTypeOK

LEMMA EditType ==
  ASSUME DigestTypeOK, EditVariable
  PROVE  DigestTypeOK'
<1>1. PICK n \in DOMAIN server, v \in Items :
         server' = [server EXCEPT ![n] = v] /\ steady' = steady \ {server[n]}
  BY DEF EditVariable
<1>2. DOMAIN server' = DOMAIN server
  BY <1>1
<1>3. /\ server' \in [DOMAIN server' -> Items] /\ DOMAIN server' \subseteq Places
      /\ IsFiniteSet(DOMAIN server')
  BY <1>1, <1>2 DEF DigestTypeOK
<1>4. UNCHANGED <<files, listed, deleted, edited>>
  BY DEF EditVariable
<1>5. Present \ {server[n]} \subseteq Present'
  BY <1>1, <1>2 DEF Present
<1>6. WorldOK'
  BY <1>1, <1>3, <1>5 DEF WorldOK, DigestTypeOK
<1> QED BY <1>4, <1>6, ChangeType DEF EditVariable, DigestTypeOK

LEMMA DeleteType ==
  ASSUME DigestTypeOK, DeleteVariable
  PROVE  DigestTypeOK'
<1>1. PICK n \in DOMAIN server :
         server' = [r \in DOMAIN server \ {n} |-> server[r]] /\ steady' = steady \ {server[n]}
  BY DEF DeleteVariable
<1>2. DOMAIN server' = DOMAIN server \ {n}
  BY <1>1
<1>3. /\ server' \in [DOMAIN server' -> Items] /\ DOMAIN server' \subseteq Places
      /\ IsFiniteSet(DOMAIN server')
  BY <1>1, <1>2, FS_RemoveElement DEF DigestTypeOK
<1>4. UNCHANGED <<files, listed, edited>> /\ deleted' = TRUE
  BY DEF DeleteVariable
<1>5. Present \ {server[n]} \subseteq Present'
  BY <1>1, <1>2 DEF Present
<1>6. WorldOK'
  BY <1>1, <1>3, <1>5 DEF WorldOK, DigestTypeOK
<1> QED BY <1>4, <1>6, ChangeType DEF DeleteVariable, DigestTypeOK

LEMMA EditFilesType ==
  ASSUME DigestTypeOK, EditFiles
  PROVE  DigestTypeOK'
<1>1. /\ UNCHANGED <<server, steady, listed, deleted>> /\ files' \in TfVars /\ edited' = TRUE
  BY DEF EditFiles
<1>2. WorldOK'
  BY <1>1, WorldStays DEF WorldOK
<1> QED BY <1>1, <1>2, ChangeType DEF EditFiles, DigestTypeOK

LEMMA DigestTypeStep == DigestTypeOK /\ [DigestNext]_digestVars => DigestTypeOK'
<1>. SUFFICES ASSUME DigestTypeOK, [DigestNext]_digestVars PROVE DigestTypeOK'
  OBVIOUS
<1>1. CASE Pull \/ Lookup \/ Locate \/ Download \/ Discover
  <2>1. /\ Succeeds \/ Fails
        /\ pc' \in {"failed", "parse", "lookup", "locate", "download", "workspace", "build"}
    BY <1>1 DEF Pull, Lookup, Locate, Download, Discover, Step
  <2>2. OnlyMove
    BY <1>1 DEF Pull, Lookup, Locate, Download, Discover, Step
  <2> QED BY <2>1, <2>2, MoveType
<1>2. CASE UNCHANGED digestVars
  <2>1. UNCHANGED <<server, backend, files, modules, pc, source, skip, context, page, entries, remote,
                    evaluated, pending, digest, config, listed, steady, deleted, edited, changes, faults, runs>>
    BY <1>2 DEF digestVars, world, options, listing, history, bounds
  <2>2. WorldOK'
    BY <2>1, WorldStays DEF WorldOK
  <2> QED BY <2>1, <2>2 DEF DigestTypeOK, WorldOK
<1> QED BY <1>1, <1>2, StartType, LoadConfigType, ParseType, WorkspaceType, ReadPageType, BuildType,
           WriteType, CollectType, SetConfigType, SetSecretsType, KillType, OperatorInitType, AddType,
           EditType, DeleteType, EditFilesType DEF DigestNext

\* Every reachable state of digest tf is well typed, for any variables, files and
\* backends, and any number of changes.
THEOREM DigestTypeCorrect == DigestSpec => []DigestTypeOK
BY InitDigestType, DigestTypeStep, PTL DEF DigestSpec

-----------------------------------------------------------------------------
(* The digest: its listing.                                                *)

\* Before the first page is asked for.
Before == {"load", "pull", "lookup", "locate", "download", "parse", "discover", "workspace"}

\* No two variables have one key and one scope.
Distinct == \A q, r \in DOMAIN server : Clash(server[q], server[r]) => q = r

\* What has been read of a variable that stayed is that variable.
Reading ==
  /\ \A e \in entries : e.page < page
  /\ \A e \in entries, v \in steady : Clash(e.var, v) => e.var = Redacted(v)

ReadInv ==
  /\ Distinct
  /\ pc \in Before => page = 1 /\ entries = {}
  /\ pc \in Before \cup {"page"} => ~listed
  /\ \A e, f \in entries : e.page = f.page /\ Clash(e.var, f.var) => e = f
  /\ pc = "page" => Reading

\* A variable that stayed has been read, or is on a page that is still to come.
Seen(v) == \E e \in entries : e.var = Redacted(v)
Covered ==
  \A r \in Served : server[r] \in steady /\ server[r].category = "terraform" =>
    Seen(server[r]) \/ (page - 1) * PageSize <= Index(r)
CoverInv == pc = "page" /\ ~deleted => Covered

RemoteInv ==
  /\ \A v, w \in remote : v.key = w.key => v = w
  /\ \A v \in remote : v.scope # "sibling"

Complete ==
  /\ \A v \in steady :
       v.category = "terraform" /\ v.scope = "workspace" => Redacted(v) \in remote
  /\ backend.iacp =>
       \A v \in steady :
         v.category = "terraform" /\ v.scope = "environment" => RemoteOf(remote, v.key) # {}
ResultInv == listed /\ ~deleted => Complete

ListInv == DigestTypeOK /\ ReadInv /\ CoverInv /\ RemoteInv /\ ResultInv

LEMMA PagesEnd ==
  ASSUME NEW n \in Nat, NEW s \in Nat \ {0}, NEW p \in Nat, ~(p < (n + s - 1) \div s)
  PROVE  n <= p * s
<1>. DEFINE q == (n + s - 1) \div s
<1>1. n + s - 1 \in Int /\ s > 0 /\ s \in Int
  OBVIOUS
<1>2. q \in Int /\ n + s - 1 < s * q + s
  BY <1>1
<1>3. q <= p
  BY <1>2
<1>4. s * q <= s * p
  BY <1>2, <1>3
<1> QED BY <1>2, <1>4

LEMMA IndexType ==
  ASSUME DigestTypeOK, NEW r \in Served
  PROVE  /\ IsFiniteSet(Served) /\ Cardinality(Served) \in Nat
         /\ IsFiniteSet({q \in Served : q < r})
         /\ Index(r) \in Nat /\ Index(r) < Cardinality(Served)
<1>. DEFINE T == {q \in Served : q < r}
<1>1. Served \in SUBSET DOMAIN server /\ IsFiniteSet(DOMAIN server)
  BY DEF Served, DigestTypeOK
<1>2. IsFiniteSet(Served) /\ Cardinality(Served) \in Nat
  BY <1>1, FS_Subset, FS_CardinalityType
<1>3. T \in SUBSET Served
  OBVIOUS
<1>4. r \in Nat
  BY <1>1, TfDigestAssumption DEF DigestTypeOK
<1>5. r \notin T
  BY <1>4
<1>. HIDE DEF T
<1>6. IsFiniteSet(T) /\ Cardinality(T) \in Nat
  BY <1>2, <1>3, FS_Subset, FS_CardinalityType
<1>7. Cardinality(T) <= Cardinality(Served) /\ Cardinality(T) # Cardinality(Served)
  BY <1>2, <1>3, <1>5, FS_Subset
<1>8. Cardinality(T) < Cardinality(Served)
  BY <1>2, <1>6, <1>7
<1> QED BY <1>2, <1>6, <1>8 DEF Index, T

\* When there are no more pages, every variable is on this one or an earlier one.
LEMMA LastPage ==
  ASSUME DigestTypeOK, ~MorePages, NEW r \in Served
  PROVE  Index(r) < page * PageSize
<1>1. Cardinality(Served) \in Nat /\ Index(r) \in Nat /\ Index(r) < Cardinality(Served)
  BY IndexType
<1>2. page \in Nat \ {0} /\ PageSize \in Nat \ {0}
  BY TfDigestAssumption DEF DigestTypeOK
<1>3. ~(page < PageCount)
  BY <1>2 DEF MorePages, NextPage
<1>4. Cardinality(Served) <= page * PageSize
  BY <1>1, <1>2, <1>3, PagesEnd DEF PageCount
<1>5. page * PageSize \in Nat
  BY <1>2
<1> QED BY <1>1, <1>4, <1>5

\* The first of the entries of a key stays, and one of the workspace before others.
LEMMA FirstIsKept ==
  ASSUME NEW read, read \subseteq [page : Nat, var : Item], NEW e \in read,
         e.var.scope # "sibling"
  PROVE  \E f \in read :
           /\ f.var \in Deduped(read) /\ f.var.key = e.var.key
           /\ e.var.scope = "workspace" => f.var.scope = "workspace"
<1>. DEFINE Same(scope) == {f \in Kept(read) : f.var.key = e.var.key /\ f.var.scope = scope}
            scope == IF Same("workspace") # {} THEN "workspace" ELSE "environment"
            Pages == {f.page : f \in Same(scope)}
<1>1. e \in Kept(read) /\ e.var \in Item
  BY DEF Kept
<1>2. e.var.scope \in {"workspace", "environment"}
  BY <1>1 DEF Item
<1>3. Same(scope) # {}
  BY <1>1, <1>2
<1>4. Same(scope) \subseteq [page : Nat, var : Item]
  BY DEF Kept
<1>5. Pages \subseteq Nat /\ Pages # {}
  BY <1>3, <1>4
<1>6. PICK first \in Pages : \A n \in Pages : ~(<<n, first>> \in OpToRel(<, Nat))
  BY <1>5, NatLessThanWellFounded, WFMin
<1>7. PICK f \in Same(scope) : f.page = first
  OBVIOUS
<1>8. \A g \in Same(scope) : ~(g.page < f.page)
  <2>. SUFFICES ASSUME NEW g \in Same(scope) PROVE ~(g.page < f.page)
    OBVIOUS
  <2>1. g.page \in Pages /\ g.page \in Nat /\ f.page \in Nat
    BY <1>4
  <2>2. ~(<<g.page, f.page>> \in {ss \in Nat \X Nat : ss[1] < ss[2]})
    BY <1>6, <1>7, <2>1 DEF OpToRel
  <2> QED BY <2>1, <2>2
<1>9. f \in Kept(read) /\ f.var.key = e.var.key /\ f.var.scope = scope
  OBVIOUS
<1>10. ASSUME NEW g \in Kept(read), g.var.key = f.var.key PROVE ~Ahead(g, f)
  <2>1. CASE g.var.scope = f.var.scope
    <3>1. g \in Same(scope)
      BY <1>9, <1>10, <2>1
    <3>2. ~(g.page < f.page)
      BY <3>1, <1>8
    <3>3. scope \in {"workspace", "environment"}
      OBVIOUS
    <3> QED BY <2>1, <3>2 DEF Ahead
  <2>2. CASE g.var.scope # f.var.scope
    <3>1. SUFFICES ASSUME g.var.scope = "workspace", f.var.scope = "environment" PROVE FALSE
      BY <2>2 DEF Ahead
    <3>2. g \in Same("workspace")
      BY <3>1, <1>9, <1>10
    <3> QED BY <3>1, <3>2, <1>9
  <2> QED BY <2>1, <2>2
<1>11. f.var \in Deduped(read) /\ f \in read
  BY <1>9, <1>10 DEF Deduped, Kept
<1>12. e.var.scope = "workspace" => scope = "workspace"
  BY <1>1
<1> QED BY <1>9, <1>11, <1>12

\* Of each key there is one.
LEMMA DedupedIsUnique ==
  ASSUME NEW read, read \subseteq [page : Nat, var : Item],
         \A e, f \in read : e.page = f.page /\ Clash(e.var, f.var) => e = f,
         NEW v \in Deduped(read), NEW w \in Deduped(read)
  PROVE  /\ v.scope # "sibling"
         /\ v.key = w.key => v = w
<1>1. PICK e \in Kept(read) : v = e.var /\ \A g \in Kept(read) : g.var.key = e.var.key => ~Ahead(g, e)
  BY DEF Deduped
<1>2. PICK f \in Kept(read) : w = f.var /\ \A g \in Kept(read) : g.var.key = f.var.key => ~Ahead(g, f)
  BY DEF Deduped
<1>3. /\ e \in read /\ f \in read /\ e.page \in Nat /\ f.page \in Nat
      /\ e.var.scope \in {"workspace", "environment"} /\ f.var.scope \in {"workspace", "environment"}
  BY DEF Kept, Item
<1>4. ASSUME v.key = w.key PROVE v = w
  <2>1. ~Ahead(e, f) /\ ~Ahead(f, e)
    BY <1>1, <1>2, <1>4
  <2>2. e.var.scope = f.var.scope
    BY <2>1, <1>3 DEF Ahead
  <2>3. e.page = f.page
    BY <2>1, <2>2, <1>3 DEF Ahead
  <2>4. e = f
    BY <2>2, <2>3, <1>1, <1>2, <1>3, <1>4 DEF Clash
  <2> QED BY <2>4, <1>1, <1>2
<1> QED BY <1>1, <1>3, <1>4

\* What was read is as it was, where the listing is not at work.
LEMMA QuietKeeps ==
  ASSUME ListInv, DigestTypeOK',
         UNCHANGED <<server, backend, page, entries, remote, listed, steady, deleted>>,
         pc' \in Before => pc \in Before, pc' = "page" => pc = "page"
  PROVE  ListInv'
<1>1. /\ Served' = Served /\ Distinct' = Distinct
      /\ \A v : Redacted(v)' = Redacted(v)
  BY DEF Served, Distinct, Redacted
<1>2. \A r : Index(r)' = Index(r)
  BY <1>1 DEF Index
<1>3. \A v : Seen(v)' = Seen(v)
  BY <1>1 DEF Seen
<1>4. (Reading' = Reading) /\ (Covered' = Covered)
  BY <1>1, <1>2, <1>3 DEF Reading, Covered
<1>5. ReadInv' /\ CoverInv'
  BY <1>1, <1>4 DEF ListInv, ReadInv, CoverInv
<1>6. Complete' = Complete /\ RemoteInv' = RemoteInv
  BY <1>1 DEF Complete, RemoteInv, RemoteOf
<1> QED BY <1>5, <1>6 DEF ListInv, ResultInv

LEMMA StartLists ==
  ASSUME ListInv, DigestTypeOK', Start
  PROVE  ListInv'
<1>1. /\ server' = server /\ pc' = "load" /\ page' = 1 /\ entries' = {} /\ remote' = {} /\ ~listed'
  BY DEF Start, world
<1>2. Distinct'
  BY <1>1 DEF ListInv, ReadInv, Distinct
<1>3. ReadInv' /\ CoverInv'
  BY <1>1, <1>2 DEF ReadInv, CoverInv, Before
<1> QED BY <1>1, <1>3 DEF ListInv, RemoteInv, ResultInv

LEMMA WorkspaceLists ==
  ASSUME ListInv, DigestTypeOK', Workspace
  PROVE  ListInv'
<1>1. /\ pc = "workspace" /\ pc' \in {"page", "build"}
      /\ UNCHANGED <<server, backend, page, entries, remote, listed>>
  BY DEF Workspace, world, listing
<1>2. page = 1 /\ entries = {} /\ ~listed /\ Distinct
  BY <1>1 DEF ListInv, ReadInv, Before
<1>3. Distinct'
  BY <1>1, <1>2 DEF Distinct
<1>4. Reading'
  BY <1>1, <1>2 DEF Reading
<1>5. ReadInv'
  BY <1>1, <1>2, <1>3, <1>4 DEF ReadInv, Before
<1>6. Covered'
  <2>1. ASSUME NEW r, r \in Served' PROVE Index(r)' \in Nat
    <3>1. r \in Served /\ Index(r)' = Index(r)
      BY <1>1, <2>1 DEF Served, Index
    <3> QED BY <3>1, IndexType DEF ListInv
  <2>2. page' - 1 = 0 /\ 0 * PageSize = 0
    BY <1>1, <1>2, TfDigestAssumption
  <2>3. (page' - 1) * PageSize = 0
    BY <2>2
  <2> QED BY <2>1, <2>3 DEF Covered
<1>7. RemoteInv' = RemoteInv
  BY <1>1 DEF RemoteInv
<1> QED BY <1>1, <1>2, <1>5, <1>6, <1>7 DEF ListInv, CoverInv, ResultInv

\* Where an item that is read stands.
LEMMA ReadIsServed ==
  ASSUME DigestTypeOK, NEW e \in Read
  PROVE  /\ e.page = page
         /\ \E r \in DOMAIN server : server[r] \in Item /\ e.var = Redacted(server[r])
                 /\ e.var.key = server[r].key /\ e.var.scope = server[r].scope
<1>1. PICK r \in Page : e = [page |-> page, var |-> Redacted(server[r])]
  BY DEF Read
<1>2. r \in DOMAIN server /\ server[r] \in Item
  BY TfDigestAssumption DEF Page, Served, DigestTypeOK
<1> QED BY <1>1, <1>2, RedactedKeeps

LEMMA ReadDistinct ==
  ASSUME ListInv, pc = "page"
  PROVE  \A e, f \in entries \cup Read : e.page = f.page /\ Clash(e.var, f.var) => e = f
<1>. SUFFICES ASSUME NEW e \in entries \cup Read, NEW f \in entries \cup Read,
                     e.page = f.page, Clash(e.var, f.var)
              PROVE  e = f
  OBVIOUS
<1>1. CASE e \in entries /\ f \in entries
  BY <1>1 DEF ListInv, ReadInv
<1>2. CASE e \in Read /\ f \in Read
  <2>1. PICK q \in DOMAIN server : e.var = Redacted(server[q]) /\ e.var.key = server[q].key
                                   /\ e.var.scope = server[q].scope
    BY <1>2, ReadIsServed DEF ListInv
  <2>2. PICK r \in DOMAIN server : f.var = Redacted(server[r]) /\ f.var.key = server[r].key
                                   /\ f.var.scope = server[r].scope
    BY <1>2, ReadIsServed DEF ListInv
  <2>3. q = r
    BY <2>1, <2>2 DEF ListInv, ReadInv, Distinct, Clash
  <2>4. e.var = f.var
    BY <2>1, <2>2, <2>3
  <2>5. e \in [page : Nat, var : Item] /\ f \in [page : Nat, var : Item]
    BY <1>2, ReadType DEF ListInv
  <2> QED BY <2>4, <2>5
<1>3. ASSUME NEW g \in entries, NEW h \in Read PROVE g.page # h.page
  <2>1. g.page < page /\ h.page = page
    BY ReadIsServed DEF ListInv, ReadInv, Reading
  <2>2. g.page \in Nat /\ page \in Nat
    BY DEF ListInv, DigestTypeOK
  <2> QED BY <2>1, <2>2
<1> QED BY <1>1, <1>2, <1>3

LEMMA ReadAgrees ==
  ASSUME ListInv, pc = "page", NEW e \in entries \cup Read, NEW v \in steady, Clash(e.var, v)
  PROVE  e.var = Redacted(v)
<1>1. CASE e \in entries
  BY <1>1 DEF ListInv, ReadInv, Reading
<1>2. CASE e \in Read
  <2>1. PICK r \in DOMAIN server : e.var = Redacted(server[r]) /\ e.var.key = server[r].key
                                   /\ e.var.scope = server[r].scope
    BY <1>2, ReadIsServed DEF ListInv
  <2>2. PICK q \in DOMAIN server : v = server[q]
    BY DEF ListInv, DigestTypeOK, Present
  <2>3. q = r
    BY <2>1, <2>2 DEF ListInv, ReadInv, Distinct, Clash
  <2> QED BY <2>1, <2>2, <2>3
<1> QED BY <1>1, <1>2

LEMMA PageEndType == DigestTypeOK => page * PageSize \in Nat
<1>1. DigestTypeOK => page \in Nat /\ PageSize \in Nat
  BY TfDigestAssumption DEF DigestTypeOK
<1> QED BY <1>1

\* After a page, a variable that stayed has been read or is on a later one.
LEMMA PageCovers ==
  ASSUME ListInv, pc = "page", ~deleted, NEW r \in Served,
         server[r] \in steady, server[r].category = "terraform"
  PROVE  \/ \E e \in entries \cup Read : e.var = Redacted(server[r])
         \/ page * PageSize <= Index(r)
<1>1. Seen(server[r]) \/ (page - 1) * PageSize <= Index(r)
  BY DEF ListInv, CoverInv, Covered
<1>2. CASE Seen(server[r])
  BY <1>2 DEF Seen
<1>3. CASE (page - 1) * PageSize <= Index(r) /\ Index(r) < page * PageSize
  <2>1. r \in Page
    BY <1>3 DEF Page
  <2>2. [page |-> page, var |-> Redacted(server[r])] \in Read
    BY <2>1 DEF Read
  <2> QED BY <2>2
<1>4. Index(r) \in Nat /\ page * PageSize \in Nat
  BY IndexType, PageEndType DEF ListInv
<1> QED BY <1>1, <1>2, <1>3, <1>4

\* The list that is made of the pages has what stayed.
LEMMA ListIsComplete ==
  ASSUME ListInv, pc = "page", ~MorePages, ~deleted, NEW v \in steady, v.category = "terraform"
  PROVE  /\ v.scope = "workspace" => Redacted(v) \in Deduped(entries \cup Read)
         /\ backend.iacp /\ v.scope = "environment"
              => \E w \in Deduped(entries \cup Read) : w.key = v.key
<1>. DEFINE read == entries \cup Read
<1>1. PICK r \in DOMAIN server : v = server[r]
  BY DEF ListInv, DigestTypeOK, Present
<1>2. v \in Item
  BY <1>1, TfDigestAssumption DEF ListInv, DigestTypeOK
<1>3. read \subseteq [page : Nat, var : Item]
  BY ReadType DEF ListInv, DigestTypeOK
<1>4. ASSUME backend.iacp \/ v.scope = "workspace", v.scope # "sibling"
      PROVE  \E f \in read : /\ f.var \in Deduped(read) /\ f.var.key = v.key
                             /\ v.scope = "workspace" => f.var.scope = "workspace"
  <2>1. r \in Served
    BY <1>1, <1>4 DEF Served
  <2>2. Index(r) \in Nat /\ page * PageSize \in Nat /\ Index(r) < page * PageSize
    BY <2>1, IndexType, LastPage, PageEndType DEF ListInv
  <2>3. PICK e \in read : e.var = Redacted(v)
    BY <1>1, <2>1, <2>2, PageCovers
  <2>4. e.var.key = v.key /\ e.var.scope = v.scope
    BY <1>2, <2>3, RedactedKeeps
  <2>. HIDE DEF read
  <2> QED BY <1>3, <1>4, <2>4, FirstIsKept
<1>5. ASSUME v.scope = "workspace" PROVE Redacted(v) \in Deduped(read)
  <2>1. PICK f \in read : f.var \in Deduped(read) /\ f.var.key = v.key /\ f.var.scope = "workspace"
    BY <1>4, <1>5
  <2>2. f.var = Redacted(v)
    BY <2>1, <1>5, ReadAgrees DEF Clash
  <2> QED BY <2>1, <2>2
<1>6. ASSUME backend.iacp, v.scope = "environment" PROVE \E w \in Deduped(read) : w.key = v.key
  BY <1>4, <1>6
<1> QED BY <1>5, <1>6

LEMMA ReadPageLists ==
  ASSUME ListInv, DigestTypeOK', ReadPage
  PROVE  ListInv'
<1>1. /\ pc = "page" /\ UNCHANGED <<server, backend, steady, deleted>>
  BY DEF ReadPage, world
<1>2. /\ Served' = Served /\ (Distinct' <=> Distinct)
      /\ \A v : Redacted(v)' = Redacted(v)
  BY <1>1 DEF Served, Distinct, Redacted
<1>3. \A r : Index(r)' = Index(r)
  BY <1>2 DEF Index
<1>4. CASE pc' = "build" /\ UNCHANGED <<listing, listed>>
  <2>1. UNCHANGED <<page, entries, remote, listed>>
    BY <1>4 DEF listing
  <2> QED BY <1>1, <1>4, <2>1, QuietKeeps DEF Before
<1>5. CASE /\ entries' = entries \cup Read /\ MorePages /\ page' = page + 1
           /\ UNCHANGED <<remote, listed, pc>>
  <2>1. \A e, f \in entries' : e.page = f.page /\ Clash(e.var, f.var) => e = f
    BY <1>1, <1>5, ReadDistinct
  <2>2. \A e \in entries' : e.page < page'
    <3>1. \A e \in entries : e.page \in Nat /\ e.page < page
      BY <1>1 DEF ListInv, ReadInv, Reading, DigestTypeOK
    <3>2. \A e \in Read : e.page = page
      BY ReadIsServed DEF ListInv
    <3>3. page \in Nat
      BY DEF ListInv, DigestTypeOK
    <3> QED BY <1>5, <3>1, <3>2, <3>3
  <2>3. \A e \in entries', v \in steady' : Clash(e.var, v) => e.var = Redacted(v)'
    BY <1>1, <1>2, <1>5, ReadAgrees
  <2>4. Reading'
    BY <2>2, <2>3 DEF Reading
  <2>5. ReadInv'
    BY <1>1, <1>2, <1>5, <2>1, <2>4 DEF ListInv, ReadInv, Before
  <2>6. CoverInv'
    <3>1. SUFFICES ASSUME ~deleted PROVE Covered'
      BY <1>1 DEF CoverInv
    <3>2. page' - 1 = page
      BY <1>5 DEF ListInv, DigestTypeOK
    <3>3. \A r \in Served : server[r] \in steady /\ server[r].category = "terraform" =>
            \/ \E e \in entries' : e.var = Redacted(server[r])
            \/ page * PageSize <= Index(r)
      BY <1>1, <1>5, <3>1, PageCovers
    <3> QED BY <1>1, <1>2, <1>3, <3>2, <3>3 DEF Covered, Seen
  <2>7. RemoteInv' /\ ~listed'
    BY <1>1, <1>5 DEF ListInv, RemoteInv, ReadInv
  <2> QED BY <2>5, <2>6, <2>7 DEF ListInv, ResultInv
<1>6. CASE /\ entries' = entries \cup Read /\ ~MorePages /\ remote' = Deduped(entries \cup Read)
           /\ listed' = TRUE /\ pc' = "build"
  <2>1. entries \cup Read \subseteq [page : Nat, var : Item]
    BY ReadType DEF ListInv, DigestTypeOK
  <2>2. \A e, f \in entries \cup Read : e.page = f.page /\ Clash(e.var, f.var) => e = f
    BY <1>1, ReadDistinct
  <2>3. ReadInv' /\ CoverInv'
    BY <1>2, <1>6, <2>2 DEF ListInv, ReadInv, CoverInv, Before
  <2>4. RemoteInv'
    BY <1>6, <2>1, <2>2, DedupedIsUnique DEF RemoteInv
  <2>5. ASSUME ~deleted PROVE Complete'
    <3>1. \A v \in steady : v.category = "terraform" /\ v.scope = "workspace" => Redacted(v) \in remote'
      BY <1>1, <1>6, <2>5, ListIsComplete
    <3>2. backend.iacp => \A v \in steady : v.category = "terraform" /\ v.scope = "environment"
             => \E w \in remote' : w.key = v.key
      BY <1>1, <1>6, <2>5, ListIsComplete
    <3> QED BY <1>1, <1>2, <3>1, <3>2 DEF Complete, RemoteOf
  <2> QED BY <1>1, <2>3, <2>4, <2>5 DEF ListInv, ResultInv
<1>7. Deduped(entries') = Deduped(entries \cup Read) \/ entries' # entries \cup Read
  OBVIOUS
<1> QED BY <1>4, <1>5, <1>6, <1>7 DEF ReadPage

LEMMA AddLists ==
  ASSUME ListInv, DigestTypeOK', AddVariable
  PROVE  ListInv'
<1>1. PICK v \in Items, n \in Places \ DOMAIN server :
         /\ \A w \in Present : ~Clash(v, w)
         /\ server' = [r \in DOMAIN server \cup {n} |-> IF r = n THEN v ELSE server[r]]
  BY DEF AddVariable
<1>2. /\ DOMAIN server' = DOMAIN server \cup {n} /\ server'[n] = v
      /\ \A r \in DOMAIN server : server'[r] = server[r]
  BY <1>1
<1>3. UNCHANGED <<backend, pc, page, entries, remote, listed, steady, deleted>>
  BY DEF AddVariable, Change, listing, history
<1>4. \A r \in DOMAIN server : ~Clash(v, server[r]) /\ ~Clash(server[r], v)
  BY <1>1 DEF Present, Clash
<1>5. Distinct'
  BY <1>2, <1>4 DEF ListInv, ReadInv, Distinct
<1>6. \A w : Redacted(w)' = Redacted(w)
  BY <1>3 DEF Redacted
<1>7. Reading' = Reading
  BY <1>3, <1>6 DEF Reading
<1>8. ReadInv'
  BY <1>3, <1>5, <1>7 DEF ListInv, ReadInv
<1>9. v \notin steady
  BY <1>1 DEF ListInv, DigestTypeOK, Clash
<1>10. Served \in SUBSET Served'
  BY <1>2, <1>3 DEF Served
<1>11. \A w : Seen(w)' = Seen(w)
  BY <1>3, <1>6 DEF Seen
<1>12. ASSUME NEW r, r \in Served', server'[r] \in steady
       PROVE  /\ r \in Served /\ server'[r] = server[r]
              /\ Index(r) \in Nat /\ Index(r)' \in Nat /\ Index(r) <= Index(r)'
  <2>1. r \in Served /\ server'[r] = server[r]
    BY <1>2, <1>3, <1>9, <1>12 DEF Served
  <2>2. IsFiniteSet({q \in Served' : q < r})
    <3>1. {q \in Served' : q < r} \in SUBSET DOMAIN server' /\ IsFiniteSet(DOMAIN server')
      BY DEF DigestTypeOK, Served
    <3> QED BY <3>1, FS_Subset
  <2>3. {q \in Served : q < r} \in SUBSET {q \in Served' : q < r}
    BY <1>10
  <2>4. /\ Cardinality({q \in Served : q < r}) <= Cardinality({q \in Served' : q < r})
        /\ Cardinality({q \in Served' : q < r}) \in Nat
    BY <2>2, <2>3, FS_Subset, FS_CardinalityType
  <2>5. Index(r) \in Nat
    BY <2>1, IndexType DEF ListInv
  <2> QED BY <2>1, <2>4, <2>5 DEF Index
<1>13. CoverInv'
  <2>1. SUFFICES ASSUME pc = "page", ~deleted,
                        NEW r, r \in Served', server'[r] \in steady, server'[r].category = "terraform"
                 PROVE  Seen(server'[r]) \/ (page - 1) * PageSize <= Index(r)'
    BY <1>3, <1>11 DEF CoverInv, Covered
  <2>2. /\ r \in Served /\ server'[r] = server[r]
        /\ Index(r) \in Nat /\ Index(r)' \in Nat /\ Index(r) <= Index(r)'
    BY <1>12, <2>1
  <2>3. Seen(server[r]) \/ (page - 1) * PageSize <= Index(r)
    BY <2>1, <2>2 DEF ListInv, CoverInv, Covered
  <2>4. page \in Nat /\ PageSize \in Nat
    BY TfDigestAssumption DEF ListInv, DigestTypeOK
  <2>5. (page - 1) * PageSize \in Int
    BY <2>4
  <2> QED BY <2>2, <2>3, <2>5
<1>14. RemoteInv' = RemoteInv /\ Complete' = Complete
  BY <1>3, <1>6 DEF RemoteInv, Complete, RemoteOf
<1> QED BY <1>3, <1>8, <1>13, <1>14 DEF ListInv, ResultInv

LEMMA EditLists ==
  ASSUME ListInv, DigestTypeOK', EditVariable
  PROVE  ListInv'
<1>1. PICK n \in DOMAIN server, v \in Items :
         /\ v # server[n] /\ Clash(v, server[n])
         /\ server' = [server EXCEPT ![n] = v] /\ steady' = steady \ {server[n]}
  BY DEF EditVariable
<1>2. /\ DOMAIN server' = DOMAIN server /\ server'[n] = v
      /\ \A r \in DOMAIN server : r # n => server'[r] = server[r]
  BY <1>1
<1>3. UNCHANGED <<backend, pc, page, entries, remote, listed, deleted>>
  BY DEF EditVariable, Change, listing
<1>4. \A r \in DOMAIN server : server'[r].key = server[r].key /\ server'[r].scope = server[r].scope
  BY <1>1, <1>2 DEF Clash
<1>5. Distinct'
  BY <1>2, <1>4 DEF ListInv, ReadInv, Distinct, Clash
<1>6. \A w : Redacted(w)' = Redacted(w)
  BY <1>3 DEF Redacted
<1>7. Reading => Reading'
  BY <1>1, <1>3, <1>6 DEF Reading
<1>8. ReadInv'
  BY <1>3, <1>5, <1>7 DEF ListInv, ReadInv
<1>9. v \notin steady
  <2>1. \A q \in DOMAIN server : v = server[q] => q = n
    BY <1>1 DEF ListInv, ReadInv, Distinct
  <2> QED BY <1>1, <2>1 DEF ListInv, DigestTypeOK, Present
<1>10. Served' = Served
  BY <1>2, <1>3, <1>4 DEF Served
<1>11. \A r : Index(r)' = Index(r)
  BY <1>10 DEF Index
<1>12. \A w : Seen(w)' = Seen(w)
  BY <1>3, <1>6 DEF Seen
<1>13. \A r \in Served : server'[r] \in steady' => server'[r] = server[r] /\ server[r] \in steady
  BY <1>1, <1>2, <1>9 DEF Served
<1>14. CoverInv'
  BY <1>3, <1>10, <1>11, <1>12, <1>13 DEF ListInv, CoverInv, Covered
<1>15. RemoteInv' = RemoteInv /\ (Complete => Complete')
  BY <1>1, <1>3, <1>6 DEF RemoteInv, Complete, RemoteOf
<1> QED BY <1>3, <1>8, <1>14, <1>15 DEF ListInv, ResultInv

LEMMA DeleteLists ==
  ASSUME ListInv, DigestTypeOK', DeleteVariable
  PROVE  ListInv'
<1>1. PICK n \in DOMAIN server :
         server' = [r \in DOMAIN server \ {n} |-> server[r]] /\ steady' = steady \ {server[n]}
  BY DEF DeleteVariable
<1>2. DOMAIN server' \subseteq DOMAIN server /\ \A r \in DOMAIN server' : server'[r] = server[r]
  BY <1>1
<1>3. UNCHANGED <<backend, pc, page, entries, remote, listed>> /\ deleted' = TRUE
  BY DEF DeleteVariable, Change, listing
<1>4. Distinct'
  BY <1>2 DEF ListInv, ReadInv, Distinct
<1>5. \A w : Redacted(w)' = Redacted(w)
  BY <1>3 DEF Redacted
<1>6. Reading => Reading'
  BY <1>1, <1>3, <1>5 DEF Reading
<1>7. ReadInv'
  BY <1>3, <1>4, <1>6 DEF ListInv, ReadInv
<1>8. RemoteInv' = RemoteInv
  BY <1>3 DEF RemoteInv
<1> QED BY <1>3, <1>7, <1>8 DEF ListInv, CoverInv, ResultInv

LEMMA InitLists == DigestInit => ListInv
<1>. SUFFICES ASSUME DigestInit PROVE ListInv
  OBVIOUS
<1>1. DigestTypeOK
  BY InitDigestType
<1>2. Distinct
  BY TfDigestAssumption DEF DigestInit, Distinct
<1>3. pc = "idle" /\ entries = {} /\ remote = {} /\ ~listed
  BY DEF DigestInit
<1> QED BY <1>1, <1>2, <1>3 DEF ListInv, ReadInv, CoverInv, RemoteInv, ResultInv, Before

LEMMA ListStep == ListInv /\ [DigestNext]_digestVars => ListInv'
<1>. SUFFICES ASSUME ListInv, [DigestNext]_digestVars PROVE ListInv'
  OBVIOUS
<1>1. DigestTypeOK'
  BY DigestTypeStep DEF ListInv
<1>. DEFINE Quiet == UNCHANGED <<server, backend, page, entries, remote, listed, steady, deleted>>
<1>2. CASE LoadConfig \/ Pull \/ Lookup \/ Locate \/ Download \/ Parse \/ Discover
  <2>1. Quiet /\ pc \in Before /\ pc' # "page"
    BY <1>2 DEF LoadConfig, Pull, Lookup, Locate, Download, Parse, Discover, Step, OnlyMove, world,
                options, listing, history, Before
  <2> QED BY <1>1, <2>1, QuietKeeps
<1>3. CASE Build \/ Write \/ Collect \/ SetConfig \/ Kill
  <2>1. Quiet /\ pc' \notin Before \cup {"page"}
    BY <1>3 DEF Build, Write, Collect, SetConfig, Kill, world, listing, history, Before
  <2> QED BY <1>1, <2>1, QuietKeeps
<1>4. CASE SetSecrets \/ EditFiles \/ OperatorInit \/ UNCHANGED digestVars
  <2>1. Quiet /\ pc' = pc
    BY <1>4 DEF SetSecrets, EditFiles, OperatorInit, Change, digestVars, world, listing, history
  <2> QED BY <1>1, <2>1, QuietKeeps
<1> QED BY <1>1, <1>2, <1>3, <1>4, StartLists, WorkspaceLists, ReadPageLists, AddLists, EditLists,
           DeleteLists DEF DigestNext

LEMMA ListInvHolds == DigestSpec => []ListInv
BY InitLists, ListStep, PTL DEF DigestSpec

\* However the variables are spread over the pages and whatever is added and
\* edited between two requests, a listing during which nothing is deleted has
\* every variable that was there all along.
THEOREM ListingsAreComplete == DigestSpec => []ListingComplete
<1>1. ListInv => ListingComplete
  <2>. SUFFICES ASSUME ListInv, listed, ~deleted PROVE ListingComplete
    BY DEF ListingComplete
  <2>1. Complete
    BY DEF ListInv, ResultInv
  <2>2. ASSUME NEW v \in remote PROVE Cardinality(RemoteOf(remote, v.key)) = 1
    <3>1. RemoteOf(remote, v.key) = {v}
      BY DEF ListInv, RemoteInv, RemoteOf
    <3> QED BY <3>1, FS_Singleton
  <2> QED BY <2>1, <2>2 DEF ListingComplete, Complete, ListInv, RemoteInv
<1> QED BY <1>1, ListInvHolds, PTL

-----------------------------------------------------------------------------
(* The digest: its evaluation and the config.                              *)

\* From the evaluation on.
After == {"write", "collect", "set", "done"}

\* What was evaluated is what would be evaluated now.
EvaluationInv ==
  pc \in After /\ ~edited /\ evaluated # None => evaluated = RootVariables

\* What is pending or set is what would be collected now.
Collected(k) == [key |-> k, entry |-> Entry(k)]
SettingInv ==
  pc = "set" /\ ~edited =>
    /\ pending \subseteq {Collected(k) : k \in Entries}
    /\ \A k \in Entries : Collected(k) \in pending \/ config[k] = Entry(k)

\* The operator sets only what the workspace has no text for.
Redo(k) == \E v \in remote : v.key = k /\ v.value = Empty
SetInv ==
  pc = "done" /\ ~skip /\ ~edited => \A k \in Entries : config[k] = Entry(k) \/ Redo(k)

FollowInv == ListInv /\ EvaluationInv /\ SettingInv /\ SetInv

\* What is evaluated and collected depends on the files and the variables alone.
LEMMA SourcesKeep ==
  ASSUME UNCHANGED <<files, remote>>
  PROVE  /\ RootVariables' = RootVariables /\ Entries' = Entries
         /\ \A k : Entry(k)' = Entry(k)
         /\ \A k : Collected(k)' = Collected(k)
         /\ \A k : Redo(k)' = Redo(k)
<1>1. \A k, values : LastWith(k, values)' = LastWith(k, values)
  BY DEF LastWith
<1>2. \A k : FromFiles(k)' = FromFiles(k)
  BY <1>1 DEF FromFiles
<1>3. RootVariables' = RootVariables
  BY <1>2 DEF RootVariables
<1>4. \A k : Entry(k)' = Entry(k)
  BY <1>1 DEF Entry
<1> QED BY <1>3, <1>4 DEF Entries, Collected, Redo

LEMMA FollowKeeps ==
  ASSUME FollowInv, UNCHANGED <<files, remote, evaluated, pending, config, edited, skip>>,
         pc' = pc \/ pc' \notin After
  PROVE  EvaluationInv' /\ SettingInv' /\ SetInv'
<1>1. CASE pc' \notin After
  BY <1>1 DEF EvaluationInv, SettingInv, SetInv, After
<1>2. CASE pc' = pc
  <2>1. EvaluationInv'
    BY <1>2, SourcesKeep DEF FollowInv, EvaluationInv
  <2>2. SettingInv'
    BY <1>2, SourcesKeep DEF FollowInv, SettingInv
  <2>3. SetInv'
    BY <1>2, SourcesKeep DEF FollowInv, SetInv
  <2> QED BY <2>1, <2>2, <2>3
<1> QED BY <1>1, <1>2

LEMMA BuildFollows ==
  ASSUME FollowInv, Build
  PROVE  EvaluationInv' /\ SettingInv' /\ SetInv'
<1>1. UNCHANGED <<files, remote>> /\ pc' \in {"write", "failed"} /\ evaluated' \in {Evaluation, None}
  BY DEF Build, world, listing
<1>2. evaluated' \in {RootVariables, None}
  BY <1>1 DEF Evaluation
<1>3. EvaluationInv'
  BY <1>1, <1>2, SourcesKeep DEF EvaluationInv
<1> QED BY <1>1, <1>3 DEF SettingInv, SetInv

LEMMA WriteFollows ==
  ASSUME FollowInv, Write
  PROVE  EvaluationInv' /\ SettingInv' /\ SetInv'
<1>1. /\ UNCHANGED <<files, remote, evaluated, edited, skip>>
      /\ pc = "write" /\ pc' \in {"done", "collect", "failed"} /\ (pc' = "done" => skip)
  BY DEF Write, world, options, listing, history
<1>2. EvaluationInv'
  BY <1>1, SourcesKeep DEF FollowInv, EvaluationInv, After
<1> QED BY <1>1, <1>2 DEF SettingInv, SetInv

LEMMA CollectFollows ==
  ASSUME FollowInv, Collect
  PROVE  EvaluationInv' /\ SettingInv' /\ SetInv'
<1>1. /\ UNCHANGED <<files, remote, evaluated, edited, skip>> /\ pc = "collect"
      /\ \/ pc' = "set" /\ pending' = {[key |-> k, entry |-> Entry(k)] : k \in Entries}
         \/ pc' = "failed"
  BY DEF Collect, world, options, listing, history
<1>2. EvaluationInv'
  BY <1>1, SourcesKeep DEF FollowInv, EvaluationInv, After
<1>3. pc' = "set" => pending' = {Collected(k) : k \in Entries}
  BY <1>1 DEF Collected
<1>4. SettingInv'
  BY <1>1, <1>3, SourcesKeep DEF SettingInv
<1> QED BY <1>1, <1>2, <1>4 DEF SetInv

LEMMA SetConfigFollows ==
  ASSUME FollowInv, SetConfig
  PROVE  EvaluationInv' /\ SettingInv' /\ SetInv'
<1>1. UNCHANGED <<files, remote, evaluated, edited, skip>> /\ pc = "set"
  BY DEF SetConfig, world, options, listing, history
<1>2. EvaluationInv'
  BY <1>1, SourcesKeep DEF FollowInv, EvaluationInv, SetConfig, After
<1>3. CASE pc' = "failed"
  BY <1>1, <1>2, <1>3 DEF SettingInv, SetInv
<1>4. CASE pending = {} /\ pc' = "done" /\ config' = config
  <2>1. ~edited => \A k \in Entries : config[k] = Entry(k)
    BY <1>1, <1>4 DEF FollowInv, SettingInv
  <2>2. SetInv'
    BY <1>1, <1>4, <2>1, SourcesKeep DEF SetInv
  <2> QED BY <1>2, <1>4, <2>2 DEF SettingInv
<1>5. ASSUME NEW p \in pending, config' = [config EXCEPT ![p.key] = p.entry],
             pending' = pending \ {p}, pc' = pc
      PROVE  SettingInv' /\ SetInv'
  <2>1. SUFFICES ASSUME ~edited PROVE SettingInv'
    BY <1>1, <1>5 DEF SettingInv, SetInv
  <2>2. PICK k \in Entries : p = Collected(k)
    BY <1>1, <2>1 DEF FollowInv, SettingInv
  <2>3. p.key = k /\ p.entry = Entry(k)
    BY <2>2 DEF Collected
  <2>4. /\ config' = [config EXCEPT ![k] = Entry(k)]
        /\ Entries \subseteq Keys \cup Declared /\ DOMAIN config = Keys \cup Declared
    BY <1>5, <2>3 DEF FollowInv, ListInv, DigestTypeOK, Entries
  <2>5. config'[k] = Entry(k) /\ \A j \in Entries : j # k => config'[j] = config[j]
    BY <2>4
  <2>6. \A j \in Entries : Collected(j) = p => j = k
    BY <2>3 DEF Collected
  <2>7. pending' \subseteq {Collected(j) : j \in Entries}
    BY <1>1, <1>5, <2>1 DEF FollowInv, SettingInv
  <2>8. \A j \in Entries : Collected(j) \in pending' \/ config'[j] = Entry(j)
    BY <1>1, <1>5, <2>1, <2>5, <2>6 DEF FollowInv, SettingInv
  <2> QED BY <1>1, <2>7, <2>8, SourcesKeep DEF SettingInv
<1> QED BY <1>2, <1>3, <1>4, <1>5 DEF SetConfig

LEMMA SetSecretsFollows ==
  ASSUME FollowInv, SetSecrets
  PROVE  EvaluationInv' /\ SettingInv' /\ SetInv'
<1>1. UNCHANGED <<files, remote, evaluated, edited, skip, pc>> /\ pc \in Ended
  BY DEF SetSecrets, world, options, listing, history
<1>2. PICK v \in remote :
        v.value = Empty /\ config' = [config EXCEPT ![v.key] = [value |-> ByHand, secret |-> TRUE]]
  BY DEF SetSecrets
<1>3. EvaluationInv'
  BY <1>1, SourcesKeep DEF FollowInv, EvaluationInv
<1>4. \A k \in Entries : k # v.key => config'[k] = config[k]
  BY <1>2 DEF FollowInv, ListInv, DigestTypeOK, Entries
<1>5. \A k : k = v.key => Redo(k)
  BY <1>2 DEF Redo
<1>6. SetInv'
  BY <1>1, <1>4, <1>5, SourcesKeep DEF FollowInv, SetInv
<1> QED BY <1>1, <1>3, <1>6 DEF SettingInv, Ended

LEMMA InitFollows == DigestInit => FollowInv
<1>1. DigestInit => EvaluationInv /\ SettingInv /\ SetInv
  BY DEF DigestInit, EvaluationInv, SettingInv, SetInv, After
<1> QED BY <1>1, InitLists DEF FollowInv

LEMMA FollowStep == FollowInv /\ [DigestNext]_digestVars => FollowInv'
<1>. SUFFICES ASSUME FollowInv, [DigestNext]_digestVars PROVE FollowInv'
  OBVIOUS
<1>1. ListInv'
  BY ListStep DEF FollowInv
<1>. DEFINE Same == UNCHANGED <<files, remote, evaluated, pending, config, edited, skip>>
<1>2. CASE Start \/ LoadConfig \/ Pull \/ Lookup \/ Locate \/ Download \/ Parse \/ Discover \/ Workspace
           \/ ReadPage \/ Kill
  <2>1. pc' \notin After
    BY <1>2 DEF Start, LoadConfig, Pull, Lookup, Locate, Download, Parse, Discover, Workspace, ReadPage,
                Kill, Step, After
  <2>2. EvaluationInv' /\ SettingInv' /\ SetInv'
    BY <2>1 DEF EvaluationInv, SettingInv, SetInv, After
  <2> QED BY <1>1, <2>2 DEF FollowInv
<1>3. CASE AddVariable \/ EditVariable \/ DeleteVariable \/ OperatorInit \/ UNCHANGED digestVars
  <2>1. Same /\ pc' = pc
    BY <1>3 DEF AddVariable, EditVariable, DeleteVariable, OperatorInit, Change, digestVars, world,
                options, listing, history
  <2> QED BY <1>1, <2>1, FollowKeeps DEF FollowInv
<1>4. CASE EditFiles
  <2>1. edited' = TRUE
    BY <1>4 DEF EditFiles
  <2> QED BY <1>1, <2>1 DEF FollowInv, EvaluationInv, SettingInv, SetInv
<1> QED BY <1>1, <1>2, <1>3, <1>4, BuildFollows, WriteFollows, CollectFollows, SetConfigFollows,
           SetSecretsFollows DEF FollowInv, DigestNext

LEMMA FollowInvHolds == DigestSpec => []FollowInv
BY InitFollows, FollowStep, PTL DEF DigestSpec

\* A text that is evaluated is the entry that is collected, and not of a
\* variable that the operator sets.
LEMMA TextIsCollected ==
  ASSUME FollowInv, NEW k \in Declared, RootVariables[k] \in Texts,
         ~\E v \in RemoteOf(remote, k) : Unparsable(v)
  PROVE  Entry(k).value = RootVariables[k] /\ ~Redo(k)
<1>. DEFINE own == RemoteOf(remote, k)
            texts == {v \in own : v.value # Empty}
<1>1. \A v, w \in own : v = w
  BY DEF FollowInv, ListInv, RemoteInv, RemoteOf
<1>2. ~\E v \in own : v.sensitive
  BY DEF RootVariables, Unknown, Texts
<1>3. CASE own = {}
  <2>1. RootVariables[k] = FromFiles(k)
    BY <1>3 DEF RootVariables
  <2>2. FromFiles(k) = LastWith(k, Texts \cup {Empty, Null})
    BY <2>1 DEF FromFiles, Unknown, Default, Texts
  <2>3. LastWith(k, Texts) = RootVariables[k]
    BY <2>1, <2>2, LastTextIsLast DEF FollowInv, ListInv, DigestTypeOK
  <2>4. Entry(k).value = LastWith(k, Texts)
    BY <1>3 DEF Entry
  <2>5. ~Redo(k)
    BY <1>3 DEF Redo, RemoteOf
  <2> QED BY <2>3, <2>4, <2>5
<1>4. CASE own # {}
  <2>1. PICK v \in own : TRUE
    BY <1>4
  <2>2. own = {v}
    BY <1>1, <2>1
  <2>3. RootVariables[k] = v.value
    BY <1>2, <2>1, <2>2 DEF RootVariables
  <2>4. v.value # Empty
    BY <2>3 DEF Texts, Empty
  <2>5. texts = {v}
    BY <2>2, <2>4
  <2>6. Entry(k).value = v.value
    BY <2>5 DEF Entry
  <2>7. ~Redo(k)
    BY <2>2, <2>4 DEF Redo, RemoteOf
  <2> QED BY <2>3, <2>6, <2>7
<1> QED BY <1>3, <1>4

\* Whatever is set, edited or lost in between and whatever earlier runs left, after
\* a run that exits zero the config has every text that the digest was evaluated
\* with, for any files and variables.
THEOREM ConfigFollows == DigestSpec => []ConfigFollowsDigest
<1>1. FollowInv => ConfigFollowsDigest
  <2>. SUFFICES ASSUME FollowInv, pc = "done", ~skip, ~edited, evaluated # None, NEW k \in Declared,
                       evaluated[k] \in Texts, ~\E v \in RemoteOf(remote, k) : Unparsable(v)
                PROVE  config[k].value = evaluated[k]
    BY DEF ConfigFollowsDigest
  <2>1. evaluated = RootVariables
    BY DEF FollowInv, EvaluationInv, After
  <2>2. Entry(k).value = RootVariables[k] /\ ~Redo(k)
    BY <2>1, TextIsCollected
  <2>3. k \in Entries
    BY <2>1, <2>2 DEF Entries, Texts, Unset
  <2>4. config[k] = Entry(k)
    BY <2>2, <2>3 DEF FollowInv, SetInv
  <2> QED BY <2>1, <2>2, <2>4
<1> QED BY <1>1, FollowInvHolds, PTL
=============================================================================
