-------------------------------- MODULE Prober --------------------------------
(***************************************************************************)
(* importsupport.Prober: asks a Terraform provider, run as a child         *)
(* process, whether a resource type supports import.  A provider is loaded *)
(* on first use and kept; one that dies while it is asked is dropped and   *)
(* loaded again up to a budget; one that cannot be used leaves the answer  *)
(* to a curated list.  The digest probes the types of the state and, for a *)
(* type that cannot be imported, fetches the live provider as well.  Every *)
(* method holds the mutex, so each lookup and each probe is one step.      *)
(*                                                                         *)
(* Equivalents: a provider of the official registries has three addresses, *)
(* the forms, numbered in the order they are tried, 1 being the one that   *)
(* the state names it by; one of a third-party registry has only that.     *)
(***************************************************************************)
EXTENDS Integers, FiniteSets

CONSTANTS
  Providers,  \* the providers, as the state names them
  ThirdParty, \* those of a third-party registry
  Types,      \* the resource types
  Importable, \* the types whose importer exists
  CrashTypes, \* the types whose importer takes the provider process down
  Curated,    \* fallbackTypes: the list of types known not to be importable
  Locked,     \* the providers that the lock file has a version for
  MaxLoadFailures \* bound on loads that fail

maxProviderRestarts == 3

Forms == 1..3

\* The form of the address that Check is called with.
asked == 1

FormsOf(p) == IF p \in ThirdParty THEN {asked} ELSE Forms

ASSUME ProberAssumption ==
  /\ ThirdParty \subseteq Providers
  /\ Importable \subseteq Types /\ CrashTypes \subseteq Types
  /\ Curated \subseteq Types \ Importable
  /\ Locked \subseteq Providers
  /\ MaxLoadFailures \in Nat

VARIABLES
  verdicts,  \* provider, type -> the memoized answer, or "none"
  procs,     \* provider, form -> "none", or the state of the process held there
  failed,    \* the provider addresses given up on
  crashes,   \* provider -> probes that brought no answer
  closed,    \* Close has been called
  loads,     \* history: provider -> processes started for it
  loadFailures

vars == <<verdicts, procs, failed, crashes, closed, loads, loadFailures>>

Answers == {"Supported", "Unsupported", "Unknown"}

TypeOK ==
  /\ verdicts \in [Providers \X Types -> Answers \cup {"none"}]
  /\ procs \in [Providers \X Forms -> {"none", "alive", "dead"}]
  /\ failed \subseteq Providers \X Forms
  /\ crashes \in [Providers -> Nat]
  /\ closed \in BOOLEAN
  /\ loads \in [Providers -> Nat]
  /\ loadFailures \in 0..MaxLoadFailures

-----------------------------------------------------------------------------
(* provider(addr), as what it finds or does.                               *)

\* The forms under which a process of p is held: every lookup tries them all.
Held_mutant(p) == IF procs[<<p, asked>>] # "none" THEN {asked} ELSE {}
Held(p) == {f \in FormsOf(p) : procs[<<p, f>>] # "none"}

\* Nothing is held, and nothing may be started under the address.
GivesUp(p, f) == Held(p) = {} /\ (<<p, f>> \in failed \/ p \notin Locked)

MayStart(p, f) == Held(p) = {} /\ <<p, f>> \notin failed /\ p \in Locked

LoadFails == loadFailures < MaxLoadFailures /\ loadFailures' = loadFailures + 1
LoadWorks(p) == loads' = [loads EXCEPT ![p] = @ + 1]
NoLoad == UNCHANGED <<loads, loadFailures>>

-----------------------------------------------------------------------------
(* check.                                                                  *)

fallback(t) == IF t \in Curated THEN "Unsupported" ELSE "Unknown"

\* What a provider that is alive says of a type.
Truth(t) == IF t \in Importable THEN "Supported" ELSE "Unsupported"

\* discard: the process held under the asked address is dropped, no other.
discard_mutant(ps, p) == ps
discard(ps, p) == [ps EXCEPT ![<<p, asked>>] = "none"]

\* The crashes after which an address is given up on.
Exhausted_mutant(n) == n > maxProviderRestarts
Exhausted(n) == n >= maxProviderRestarts

Judge(p, t, verdict) == verdicts' = [verdicts EXCEPT ![<<p, t>>] = verdict]

\* The probe of the process that the lookup found under f or started there.
\* Without an answer the handle is discarded and the crash counted.
Ask(p, t, f, ps) ==
  \/ /\ ps[<<p, f>>] = "alive" /\ t \notin CrashTypes
     /\ Judge(p, t, Truth(t))
     /\ procs' = ps
     /\ UNCHANGED <<failed, crashes>>
  \/ /\ ps[<<p, f>>] = "dead" \/ t \in CrashTypes
     /\ Judge(p, t, fallback(t))
     /\ procs' = discard([ps EXCEPT ![<<p, f>>] = "dead"], p)
     /\ crashes' = [crashes EXCEPT ![p] = @ + 1]
     /\ failed' = IF Exhausted(crashes'[p]) THEN failed \cup {<<p, asked>>} ELSE failed

\* A memoized verdict is returned as it is; this is the call that has none.
Check(p, t) ==
  /\ ~closed /\ verdicts[<<p, t>>] = "none"
  /\ \/ NoLoad /\ \E f \in Held(p) : Ask(p, t, f, procs)
     \/ /\ MayStart(p, asked) /\ LoadWorks(p)
        /\ Ask(p, t, asked, [procs EXCEPT ![<<p, asked>>] = "alive"])
        /\ UNCHANGED loadFailures
     \/ /\ \/ GivesUp(p, asked) /\ NoLoad
           \/ MayStart(p, asked) /\ LoadFails /\ UNCHANGED loads
        /\ Judge(p, t, fallback(t))
        /\ failed' = failed \cup {<<p, asked>>}
        /\ UNCHANGED <<procs, crashes>>
  /\ UNCHANGED closed

-----------------------------------------------------------------------------
(* resolveInjectionProviders: Provider for each form, until one is found.  *)

\* The lookup under one form; the loop goes on to a form only once those
\* before it have been given up on.  A lookup that finds a process changes
\* nothing.
Fetch(p, f) ==
  /\ \A g \in FormsOf(p) : g < f => Held(p) = {} /\ <<p, g>> \in failed
  /\ \/ /\ MayStart(p, f) /\ LoadWorks(p)
        /\ procs' = [procs EXCEPT ![<<p, f>>] = "alive"]
        /\ UNCHANGED <<failed, loadFailures>>
     \/ /\ \/ GivesUp(p, f) /\ NoLoad
           \/ MayStart(p, f) /\ LoadFails /\ UNCHANGED loads
        /\ failed' = failed \cup {<<p, f>>}
        /\ UNCHANGED procs

\* It is made for a resource whose type was judged not importable.
Resolve(p, f) ==
  /\ ~closed
  /\ \E t \in Types : verdicts[<<p, t>>] = "Unsupported"
  /\ Fetch(p, f)
  /\ UNCHANGED <<verdicts, crashes, closed>>

-----------------------------------------------------------------------------
\* Close shuts down what is running and gives up on the addresses it was under.
\* GenerateModuleMap defers it, so no method is called afterwards.
Close ==
  /\ ~closed
  /\ closed' = TRUE
  /\ procs' = [a \in Providers \X Forms |-> "none"]
  /\ failed' = failed \cup {a \in Providers \X Forms : procs[a] # "none"}
  /\ UNCHANGED <<verdicts, crashes, loads, loadFailures>>

Init ==
  /\ verdicts = [x \in Providers \X Types |-> "none"]
  /\ procs = [a \in Providers \X Forms |-> "none"]
  /\ failed = {}
  /\ crashes = [p \in Providers |-> 0]
  /\ closed = FALSE
  /\ loads = [p \in Providers |-> 0]
  /\ loadFailures = 0

Next ==
  \/ \E p \in Providers, t \in Types : Check(p, t)
  \/ \E p \in Providers : \E f \in FormsOf(p) : Resolve(p, f)
  \/ Close

Spec == Init /\ [][Next]_vars

-----------------------------------------------------------------------------
\* "A single flaky type should not poison every other type behind it": a type
\* that its provider can answer for gets that answer, in whatever order types
\* are probed and providers fetched, unless the provider was given up on.
NotPoisoned ==
  \A p \in Providers, t \in Types \ CrashTypes :
    verdicts[<<p, t>>] \in {"none", Truth(t)} \/ <<p, asked>> \in failed

\* "Discard the dead handle and let the next probe reload the provider fresh":
\* between calls no dead process is held.
NoDeadHandle == \A a \in Providers \X Forms : procs[a] # "dead"

\* That much holds of the providers that have a single address.
ThirdPartyHandles == \A p \in ThirdParty : procs[<<p, asked>>] # "dead"

\* A provider with a single address is "loaded once per crash up to the restart
\* budget, then never again", however probes and fetches are interleaved.
RestartBudget == \A p \in ThirdParty : loads[p] <= maxProviderRestarts

\* However many names a provider goes by and whoever asks for it, a second
\* process is started only after a probe lost the one before.
StartedOncePerCrash == \A p \in Providers : loads[p] <= crashes[p] + 1

\* Giving up on a provider with a single address is final: it is not started
\* again.
GivenUpForGood ==
  [][\A p \in ThirdParty : <<p, asked>> \in failed => loads'[p] = loads[p]]_vars
=============================================================================
