--------------------------- MODULE ProviderMapProofs ---------------------------
(***************************************************************************)
(* Proofs about ProviderMap, for any providers, releases, tables and number *)
(* of workers, and about the recommendation that is read from the table.    *)
(***************************************************************************)
EXTENDS ProviderMap, FiniteSetTheorems, WellFoundedInduction, TLAPS

Entry == {Unlisted, Error, Half} \cup {n \in Nat : n >= 10}

IsTable(t) == DOMAIN t \subseteq Providers /\ \A p \in DOMAIN t : t[p] \in [Releases -> Entry]

\* Every worker is at a provider of the table, with what is left of it.
Posts == [provider : Providers \cup {"none"}, left : SUBSET Releases, inferred : Entry \ {Half}]

TypeInv ==
  /\ IsTable(disk) /\ IsTable(vm)
  /\ options \in [recompute : BOOLEAN, parallel : BOOLEAN]
  /\ at \in [Workers -> Posts]
  /\ parses \in BOOLEAN /\ torn \in BOOLEAN
  /\ pc = "running" => queue \subseteq DOMAIN vm
  /\ \A w \in Workers : Busy(w) => at[w].provider \in DOMAIN vm

\* Two workers are never at one provider: it has been taken from the queue.
ApartInv ==
  /\ \A w \in Workers : Busy(w) => at[w].provider \notin queue
  /\ \A v, w \in Workers : Busy(v) /\ at[v].provider = at[w].provider => v = w

\* What is inferred is inferred of the newest release that is left, and unless
\* everything is recomputed the table has nothing of it.
InferInv ==
  pc = "running" =>
    \A w \in Workers : Busy(w) /\ at[w].inferred # Unlisted =>
      /\ at[w].left # {}
      /\ ~options.recompute => vm[at[w].provider][Next_(w)] = Unlisted

\* The versions of the file are in the table.
KeptInv ==
  pc = "running" /\ ~options.recompute =>
    \A p \in DOMAIN disk, r \in Releases :
      IsVersion(disk[p][r]) => p \in DOMAIN vm /\ vm[p][r] = disk[p][r]

\* Of a provider whose releases could be listed, each has an entry or is left.
DoneInv ==
  /\ EndedComplete
  /\ pc = "running" =>
       \A p \in fetched : p \in DOMAIN vm /\ \A r \in Releases :
         vm[p][r] # Unlisted \/ \E w \in Workers : at[w].provider = p /\ r \in at[w].left

\* A file that does not parse was cut off by the last save; a run that goes on has
\* had no save that failed.
TornInv == (parses \/ torn) /\ (pc = "running" => ~torn)

MInv == TornInv /\ TypeInv /\ ApartInv /\ InferInv /\ KeptInv /\ DoneInv /\ SequentialSaved

-----------------------------------------------------------------------------
\* A finite set of numbers that is not empty has the maximum that Max chooses.
LEMMA FiniteMax ==
  ASSUME NEW S, S \subseteq Nat, IsFiniteSet(S), S # {}
  PROVE  Max(S) \in S /\ \A y \in S : Max(S) >= y
<1> DEFINE T == {U \in FiniteSubsetsOf(S) : U # {} /\ ~\E x \in U : \A y \in U : x >= y}
<1>1. T = {}
  <2> SUFFICES ASSUME T # {} PROVE FALSE
    OBVIOUS
  <2>1. PICK U \in T : \A V \in T : ~(<<V, U>> \in StrictSubsetOrdering(S))
    <3>1. IsWellFoundedOn(StrictSubsetOrdering(S), FiniteSubsetsOf(S))
      BY FS_StrictSubsetOrderingWellFounded
    <3>2. T \subseteq FiniteSubsetsOf(S)
      OBVIOUS
    <3> HIDE DEF T
    <3> QED BY <3>1, <3>2, WFMin
  <2>2. U \subseteq S /\ IsFiniteSet(U) /\ U # {} /\ ~\E x \in U : \A y \in U : x >= y
    BY DEF FiniteSubsetsOf
  <2>3. PICK x \in U : TRUE
    BY <2>2
  <2> DEFINE V == U \ {x}
  <2>4. IsFiniteSet(V) /\ V \subseteq S
    BY <2>2, FS_RemoveElement
  <2>5. V # {}
    BY <2>2, <2>3
  <2>6. <<V, U>> \in StrictSubsetOrdering(S)
    BY <2>2, <2>3, <2>4 DEF StrictSubsetOrdering, FiniteSubsetsOf
  <2>7. V \notin T
    BY <2>1, <2>6
  <2>8. PICK m \in V : \A y \in V : m >= y
    BY <2>4, <2>5, <2>7 DEF FiniteSubsetsOf
  <2>9. m \in Nat /\ x \in Nat /\ U = V \cup {x} /\ \A y \in U : y \in Nat
    BY <2>2, <2>3
  <2>10. CASE m >= x
    BY <2>2, <2>8, <2>9, <2>10
  <2>11. CASE x >= m
    <3>1. \A y \in U : x >= y
      BY <2>8, <2>9, <2>11
    <3> QED BY <2>2, <2>3, <3>1
  <2> QED BY <2>9, <2>10, <2>11
<1>2. S \in FiniteSubsetsOf(S)
  BY DEF FiniteSubsetsOf
<1>3. \E x \in S : \A y \in S : x >= y
  BY <1>1, <1>2
<1> QED BY <1>3 DEF Max

\* The maximum of a set that has a bound of its own in it.
LEMMA MaxIs ==
  ASSUME NEW S, S \subseteq Nat, NEW m \in S, \A y \in S : m >= y
  PROVE  Max(S) = m
<1>1. \A x \in S : (\A y \in S : x >= y) => x = m
  OBVIOUS
<1> QED BY <1>1 DEF Max

\* The newest release that is left is left.
LEMMA NewestLeft ==
  ASSUME TypeInv, NEW w \in Workers, at[w].left # {}
  PROVE  Next_(w) \in at[w].left /\ Next_(w) \in Releases
<1>1. at[w].left \subseteq Releases
  BY DEF TypeInv, Posts
<1>2. IsFiniteSet(at[w].left) /\ at[w].left \subseteq Nat
  BY <1>1, ProviderMapAssumption, FS_Subset
<1> QED BY <1>1, <1>2, FiniteMax DEF Next_

\* What is inferred is a version or an error.
LEMMA InferredEntry ==
  ASSUME NEW p \in Providers, NEW r \in Releases, NEW failing
  PROVE  Inferred(p, r, failing) \in {n \in Nat : n >= 10} \cup {Error}
<1>1. \A s \in Sources : Truth[p][r][s] \in {0} \cup {n \in Nat : n >= 10}
  BY ProviderMapAssumption
<1> QED BY <1>1 DEF Inferred, Sources

\* A table that was cut off is one.
LEMMA CutOffIsTable ==
  ASSUME NEW t, IsTable(t), NEW u \in CutOff(t)
  PROVE  IsTable(u)
<1>1. PICK gone \in SUBSET DOMAIN t, cut \in DOMAIN t, last \in Releases : u = CutAt(t, gone, cut, last)
  BY DEF CutOff
<1>2. DOMAIN u \subseteq Providers
  BY <1>1 DEF IsTable, CutAt
<1>3. ASSUME NEW p \in DOMAIN u PROVE u[p] \in [Releases -> Entry]
  BY <1>1 DEF IsTable, Entry, CutAt
<1> QED BY <1>2, <1>3 DEF IsTable

\* An entry that is added to a table.
LEMMA WithEntryIsTable ==
  ASSUME IsTable(vm), NEW p \in DOMAIN vm, NEW r \in Releases, NEW entry \in Entry
  PROVE  /\ IsTable(WithEntry(p, r, entry))
         /\ DOMAIN WithEntry(p, r, entry) = DOMAIN vm
         /\ WithEntry(p, r, entry)[p][r] = entry
         /\ \A q \in DOMAIN vm, s \in Releases :
              q # p \/ s # r => WithEntry(p, r, entry)[q][s] = vm[q][s]
<1> DEFINE t == WithEntry(p, r, entry)
<1>1. t = [vm EXCEPT ![p] = [vm[p] EXCEPT ![r] = entry]]
  BY DEF WithEntry
<1>2. vm[p] \in [Releases -> Entry]
  BY DEF IsTable
<1>3. DOMAIN t = DOMAIN vm /\ t[p] = [vm[p] EXCEPT ![r] = entry] /\ \A q \in DOMAIN vm \ {p} : t[q] = vm[q]
  BY <1>1
<1>4. t[p] \in [Releases -> Entry] /\ t[p][r] = entry /\ \A s \in Releases \ {r} : t[p][s] = vm[p][s]
  BY <1>2, <1>3
<1> HIDE DEF t
<1>5. IsTable(t)
  BY <1>3, <1>4 DEF IsTable
<1> QED BY <1>3, <1>4, <1>5 DEF t

-----------------------------------------------------------------------------
(* One lemma per step.                                                     *)

LEMMA InitInv == Init => MInv
<1> SUFFICES ASSUME Init PROVE MInv
  OBVIOUS
<1>1. TypeInv
  <2>1. IsTable(disk) /\ vm = disk
    <3>1. PICK t \in Tables : disk = t
      BY DEF Init
    <3>2. DOMAIN t \subseteq Providers /\ \A p \in DOMAIN t : t[p] \in [Releases -> {Unlisted, Error} \cup {n \in Nat : n >= 10}]
      BY ProviderMapAssumption
    <3> QED BY <3>1, <3>2 DEF Init, IsTable, Entry
  <2>2. Free \in Posts /\ Free.provider = "none"
    BY DEF Free, Posts, Entry, Unlisted, Half, Error
  <2> QED BY <2>1, <2>2 DEF Init, TypeInv, Busy
<1>2. \A w \in Workers : ~Busy(w)
  BY DEF Init, Busy, Free
<1> QED BY <1>1, <1>2 DEF Init, MInv, ApartInv, InferInv, KeptInv, DoneInv, EndedComplete, SequentialSaved, Unsaved, TornInv

LEMMA StartInv == MInv /\ Start => MInv'
<1> SUFFICES ASSUME MInv, Start PROVE MInv'
  OBVIOUS
<1>1. \A w \in Workers : at'[w] = Free /\ ~Busy(w)'
  BY DEF Start, Busy, Free
<1>2. Free \in Posts
  BY DEF Free, Posts, Entry, Unlisted, Half, Error
<1>3. at' \in [Workers -> Posts] /\ UNCHANGED <<disk, parses>> /\ fetched' = {} /\ pc' \in {"idle", "running"}
      /\ options' \in [recompute : BOOLEAN, parallel : BOOLEAN]
  BY <1>2 DEF Start
<1>9. /\ torn' \in BOOLEAN /\ (parses \/ torn')
      /\ pc' = "running" => torn' = FALSE
      /\ pc' = "idle" => torn'
  BY DEF Start, MInv, TypeInv, TornInv
<1>4. /\ IsTable(vm')
      /\ pc' = "running" =>
           /\ queue' \subseteq DOMAIN vm' /\ DOMAIN disk \subseteq DOMAIN vm'
           /\ \A p \in DOMAIN disk : vm'[p] = disk[p]
           /\ \A p \in DOMAIN vm' \ DOMAIN disk : vm'[p] = [r \in Releases |-> Unlisted]
  <2>1. IsTable(disk) /\ IsTable(vm)
    BY DEF MInv, TypeInv
  <2>2. CASE pc' = "idle"
    BY <2>1, <2>2 DEF Start
  <2>3. CASE pc' = "running" /\ vm' = disk /\ queue' = DOMAIN disk
    BY <2>1, <2>3
  <2>4. ASSUME NEW p \in Providers, pc' = "running", queue' = {p},
               vm' = [q \in DOMAIN disk \cup {p} |->
                       IF q \in DOMAIN disk THEN disk[q] ELSE [r \in Releases |-> Unlisted]]
        PROVE  <1>4!2 /\ IsTable(vm')
    BY <2>1, <2>4 DEF IsTable, Entry
  <2> QED BY <2>2, <2>3, <2>4 DEF Start
<1>5. TypeInv'
  BY <1>1, <1>3, <1>4, <1>9 DEF MInv, TypeInv
<1>6. ApartInv' /\ InferInv'
  BY <1>1 DEF ApartInv, InferInv
<1>7. KeptInv' /\ SequentialSaved' /\ TornInv'
  BY <1>3, <1>4, <1>9 DEF MInv, KeptInv, SequentialSaved, Unsaved, TornInv, IsVersion, Unlisted
<1>8. DoneInv'
  BY <1>3 DEF DoneInv, EndedComplete
<1> QED BY <1>5, <1>6, <1>7, <1>8 DEF MInv

LEMMA FetchReleasesInv == ASSUME MInv, NEW w \in Workers, FetchReleases(w) PROVE MInv'
<1>1. PICK p \in queue :
        /\ queue' = queue \ {p}
        /\ \/ /\ fetched' = fetched \cup {p}
              /\ at' = [at EXCEPT ![w] = [provider |-> p, left |-> Releases, inferred |-> Unlisted]]
           \/ UNCHANGED <<at, fetched>>
  BY DEF FetchReleases
<1>2. UNCHANGED <<disk, parses, torn, pc, vm, options>> /\ pc = "running" /\ at[w].provider = "none"
  BY DEF FetchReleases, Busy
<1>3. p \in DOMAIN vm /\ p \in Providers /\ p # "none" /\ at \in [Workers -> Posts]
  BY <1>2, ProviderMapAssumption DEF MInv, TypeInv, IsTable
<1>4. KeptInv' /\ SequentialSaved' /\ TornInv'
  BY <1>2 DEF MInv, KeptInv, SequentialSaved, Unsaved, TornInv
<1>5. CASE UNCHANGED <<at, fetched>>
  <2>1. TypeInv'
    BY <1>1, <1>2, <1>5 DEF MInv, TypeInv, IsTable, Busy
  <2>2. ApartInv' /\ InferInv' /\ DoneInv'
    BY <1>1, <1>2, <1>5 DEF MInv, ApartInv, InferInv, DoneInv, EndedComplete, Busy, Next_
  <2> QED BY <1>4, <2>1, <2>2 DEF MInv
<1>6. CASE /\ fetched' = fetched \cup {p}
           /\ at' = [at EXCEPT ![w] = [provider |-> p, left |-> Releases, inferred |-> Unlisted]]
  <2> DEFINE post == [provider |-> p, left |-> Releases, inferred |-> Unlisted]
  <2>1. post \in Posts /\ post.provider = p /\ post.left = Releases /\ post.inferred = Unlisted
    BY <1>3 DEF Posts, Entry, Unlisted, Half, Error
  <2> HIDE DEF post
  <2>2. at' \in [Workers -> Posts] /\ at'[w] = post /\ \A v \in Workers \ {w} : at'[v] = at[v]
    BY <1>3, <1>6, <2>1 DEF post
  <2>3. TypeInv'
    BY <1>1, <1>2, <1>3, <2>1, <2>2 DEF MInv, TypeInv, IsTable, Busy
  <2>4. ApartInv'
    BY <1>1, <1>2, <1>3, <2>1, <2>2 DEF MInv, ApartInv, Busy
  <2>5. InferInv'
    BY <1>2, <2>1, <2>2 DEF MInv, InferInv, Busy, Next_
  <2>6. DoneInv'
    <3>1. EndedComplete'
      BY <1>2 DEF EndedComplete
    <3>2. ASSUME NEW q \in fetched', NEW r \in Releases
          PROVE  q \in DOMAIN vm /\ (vm[q][r] # Unlisted \/ \E v \in Workers : at'[v].provider = q /\ r \in at'[v].left)
      <4>1. CASE q = p
        BY <1>3, <2>1, <2>2, <4>1
      <4>2. CASE q \in fetched
        <5>1. q \in DOMAIN vm /\ q # "none"
          BY <1>2, <4>2, ProviderMapAssumption DEF MInv, DoneInv, TypeInv, IsTable
        <5>2. vm[q][r] # Unlisted \/ \E v \in Workers : at[v].provider = q /\ r \in at[v].left
          BY <1>2, <4>2 DEF MInv, DoneInv
        <5> QED BY <1>2, <2>2, <5>1, <5>2
      <4> QED BY <1>6, <4>1, <4>2
    <3>3. \A q \in fetched' : q \in DOMAIN vm
      BY <1>2, <1>3, <1>6 DEF MInv, DoneInv
    <3> QED BY <1>2, <3>1, <3>2, <3>3 DEF DoneInv
  <2> QED BY <1>4, <2>3, <2>4, <2>5, <2>6 DEF MInv
<1> QED BY <1>1, <1>5, <1>6

\* A worker that has done its newest release, one way or the other: what is left,
\* and what the other workers are at.
LEMMA Advance ==
  ASSUME MInv, NEW w \in Workers, Busy(w), at[w].left # {},
         at' = [at EXCEPT ![w].left = @ \ {Next_(w)}, ![w].inferred = Unlisted]
  PROVE  /\ at' \in [Workers -> Posts] /\ at[w].provider \in DOMAIN vm
         /\ at'[w].provider = at[w].provider /\ at'[w].left = at[w].left \ {Next_(w)}
         /\ at'[w].inferred = Unlisted
         /\ \A v \in Workers \ {w} : at'[v] = at[v] /\ (Busy(v) => at[v].provider # at[w].provider)
<1>1. at \in [Workers -> Posts]
  BY DEF MInv, TypeInv
<1>2. at[w] \in Posts
  BY <1>1
<1> DEFINE post == [[at[w] EXCEPT !.left = @ \ {Next_(w)}] EXCEPT !.inferred = Unlisted]
<1>3. at' = [at EXCEPT ![w] = post]
  BY <1>1, <1>2
<1>4. post \in Posts /\ post.provider = at[w].provider /\ post.left = at[w].left \ {Next_(w)} /\ post.inferred = Unlisted
  <2> DEFINE rest == at[w].left \ {Next_(w)}
  <2>1. rest \in SUBSET Releases /\ Unlisted \in Entry \ {Half}
    BY <1>2 DEF Posts, Entry, Unlisted, Half
  <2>2. post = [[at[w] EXCEPT !.left = rest] EXCEPT !.inferred = Unlisted]
    OBVIOUS
  <2> HIDE DEF rest
  <2>3. post \in Posts /\ post.provider = at[w].provider /\ post.left = rest /\ post.inferred = Unlisted
    BY <1>2, <2>1, <2>2 DEF Posts
  <2> QED BY <2>3 DEF rest
<1> HIDE DEF post
<1>5. at'[w] = post /\ \A v \in Workers \ {w} : at'[v] = at[v]
  BY <1>1, <1>3
<1>6. at' \in [Workers -> Posts]
  BY <1>1, <1>3, <1>4
<1>7. at[w].provider \in DOMAIN vm
  BY DEF MInv, TypeInv
<1> QED BY <1>4, <1>5, <1>6, <1>7 DEF MInv, ApartInv

LEMMA SkipInv == ASSUME MInv, NEW w \in Workers, Skip(w) PROVE MInv'
<1>1. /\ UNCHANGED <<disk, parses, torn, pc, vm, options, queue, fetched>> /\ pc = "running" /\ Busy(w)
      /\ at[w].left # {} /\ at[w].inferred = Unlisted
      /\ vm[at[w].provider][Next_(w)] # Unlisted
      /\ at' = [at EXCEPT ![w].left = @ \ {Next_(w)}]
  BY DEF Skip, Skipped
<1>2. at' = [at EXCEPT ![w].left = @ \ {Next_(w)}, ![w].inferred = Unlisted]
  <2>1. at \in [Workers -> Posts] /\ at[w] \in Posts
    BY DEF MInv, TypeInv
  <2>2. [at[w] EXCEPT !.left = @ \ {Next_(w)}]
        = [[at[w] EXCEPT !.left = @ \ {Next_(w)}] EXCEPT !.inferred = Unlisted]
    BY <1>1, <2>1 DEF Posts
  <2> QED BY <1>1, <2>1, <2>2
<1>3. /\ at' \in [Workers -> Posts] /\ at[w].provider \in DOMAIN vm
      /\ at'[w].provider = at[w].provider /\ at'[w].left = at[w].left \ {Next_(w)}
      /\ at'[w].inferred = Unlisted
      /\ \A v \in Workers \ {w} : at'[v] = at[v] /\ (Busy(v) => at[v].provider # at[w].provider)
  BY <1>1, <1>2, Advance
<1>4. TypeInv'
  BY <1>1, <1>3 DEF MInv, TypeInv, IsTable, Busy
<1>5. ApartInv'
  BY <1>1, <1>3 DEF MInv, ApartInv, Busy
<1>6. InferInv'
  BY <1>1, <1>3 DEF MInv, InferInv, Busy, Next_
<1>7. KeptInv' /\ SequentialSaved' /\ TornInv'
  BY <1>1 DEF MInv, KeptInv, SequentialSaved, Unsaved, TornInv
<1>8. DoneInv'
  <2>1. ASSUME NEW q \in fetched, NEW r \in Releases
        PROVE  q \in DOMAIN vm /\ (vm[q][r] # Unlisted \/ \E v \in Workers : at'[v].provider = q /\ r \in at'[v].left)
    BY <1>1, <1>3 DEF MInv, DoneInv
  <2>2. \A q \in fetched : q \in DOMAIN vm
    BY <1>1 DEF MInv, DoneInv
  <2> QED BY <1>1, <2>1, <2>2 DEF DoneInv, EndedComplete
<1> QED BY <1>4, <1>5, <1>6, <1>7, <1>8 DEF MInv

LEMMA InferStepInv == ASSUME MInv, NEW w \in Workers, Infer(w) PROVE MInv'
<1>1. /\ UNCHANGED <<disk, parses, torn, pc, vm, options, queue, fetched>> /\ pc = "running" /\ Busy(w)
      /\ at[w].left # {} /\ ~Skipped(vm[at[w].provider], Next_(w))
  BY DEF Infer
<1>2. at \in [Workers -> Posts] /\ at[w] \in Posts /\ at[w].provider \in DOMAIN vm /\ at[w].provider \in Providers
  BY <1>1 DEF MInv, TypeInv, IsTable
<1>3. Next_(w) \in Releases
  BY <1>1, NewestLeft DEF MInv
<1>4. PICK entry \in {n \in Nat : n >= 10} \cup {Error} : at' = [at EXCEPT ![w].inferred = entry]
  BY <1>2, <1>3, InferredEntry DEF Infer
<1>5. entry # Unlisted /\ entry \in Entry \ {Half}
  BY DEF Entry, Unlisted, Error, Half
<1> DEFINE post == [at[w] EXCEPT !.inferred = entry]
<1>6. post \in Posts /\ post.provider = at[w].provider /\ post.left = at[w].left /\ post.inferred = entry
  BY <1>2, <1>5 DEF Posts
<1>7. at' = [at EXCEPT ![w] = post]
  BY <1>4
<1> HIDE DEF post
<1>8. at' \in [Workers -> Posts] /\ at'[w] = post /\ \A v \in Workers \ {w} : at'[v] = at[v]
  BY <1>2, <1>6, <1>7
<1>9. \A v \in Workers : at'[v].provider = at[v].provider /\ at'[v].left = at[v].left /\ (Busy(v)' <=> Busy(v))
  BY <1>6, <1>8 DEF Busy
<1>10. TypeInv'
  BY <1>1, <1>8, <1>9 DEF MInv, TypeInv, IsTable
<1>11. ApartInv'
  BY <1>1, <1>9 DEF MInv, ApartInv
<1>12. InferInv'
  <2>1. \A v \in Workers : Next_(v)' = Next_(v)
    BY <1>9 DEF Next_
  <2>2. ~options.recompute => vm[at[w].provider][Next_(w)] = Unlisted
    BY <1>1 DEF Skipped
  <2> QED BY <1>1, <1>8, <1>9, <2>1, <2>2 DEF MInv, InferInv
<1>13. KeptInv' /\ SequentialSaved' /\ TornInv'
  BY <1>1 DEF MInv, KeptInv, SequentialSaved, Unsaved, TornInv
<1>14. DoneInv'
  BY <1>1, <1>9 DEF MInv, DoneInv, EndedComplete
<1> QED BY <1>10, <1>11, <1>12, <1>13, <1>14 DEF MInv

\* The entry that is added is the first of its release, unless everything is
\* recomputed.
LEMMA AddStep ==
  ASSUME MInv, NEW w \in Workers, Add(w)
  PROVE  LET p == at[w].provider
             r == Next_(w)
             entry == at[w].inferred
         IN /\ p \in DOMAIN vm /\ r \in at[w].left /\ r \in Releases
            /\ entry \in Entry /\ entry # Unlisted
            /\ ~options.recompute => vm[p][r] = Unlisted
            /\ IsTable(vm') /\ DOMAIN vm' = DOMAIN vm /\ vm'[p][r] = entry
            /\ \A q \in DOMAIN vm, s \in Releases : q # p \/ s # r => vm'[q][s] = vm[q][s]
<1>1. Busy(w) /\ pc = "running" /\ at[w].inferred # Unlisted /\ vm' = WithEntry(at[w].provider, Next_(w), at[w].inferred)
  BY DEF Add
<1>2. at[w] \in Posts /\ at[w].provider \in DOMAIN vm /\ IsTable(vm)
  BY <1>1 DEF MInv, TypeInv
<1>3. at[w].left # {} /\ (~options.recompute => vm[at[w].provider][Next_(w)] = Unlisted)
  BY <1>1 DEF MInv, InferInv
<1>4. Next_(w) \in at[w].left /\ Next_(w) \in Releases
  BY <1>3, NewestLeft DEF MInv
<1>5. at[w].inferred \in Entry
  BY <1>2 DEF Posts
<1> QED BY <1>1, <1>2, <1>3, <1>4, <1>5, WithEntryIsTable

\* What is on disk after a save, whether it fails or not.
LEMMA SaveFailsTable ==
  ASSUME NEW t, IsTable(t), IsTable(disk), SaveFails(t)
  PROVE  /\ IsTable(disk') /\ pc' = "idle"
         /\ UNCHANGED <<disk, parses, torn>> \/ (parses' \in BOOLEAN /\ torn' = TRUE)
<1>1. disk' = disk \/ disk' \in CutOff(t)
  BY DEF SaveFails
<1>2. IsTable(disk')
  BY <1>1, CutOffIsTable
<1> QED BY <1>2 DEF SaveFails

LEMMA AddInv == ASSUME MInv, NEW w \in Workers, Add(w) PROVE MInv'
<1> DEFINE p == at[w].provider
           r == Next_(w)
           entry == at[w].inferred
<1>1. /\ p \in DOMAIN vm /\ r \in at[w].left /\ r \in Releases
      /\ entry \in Entry /\ entry # Unlisted
      /\ ~options.recompute => vm[p][r] = Unlisted
      /\ IsTable(vm') /\ DOMAIN vm' = DOMAIN vm /\ vm'[p][r] = entry
      /\ \A q \in DOMAIN vm, s \in Releases : q # p \/ s # r => vm'[q][s] = vm[q][s]
  BY AddStep
<1>2. /\ Busy(w) /\ pc = "running" /\ UNCHANGED <<options, queue, fetched>>
      /\ at' = [at EXCEPT ![w].left = @ \ {Next_(w)}, ![w].inferred = Unlisted]
      /\ \/ UNCHANGED <<pc, parses, torn>> /\ disk' = IF SavedNow(entry) THEN vm' ELSE disk
         \/ SaveFails(vm')
  BY DEF Add
<1>3. /\ at' \in [Workers -> Posts]
      /\ at'[w].provider = at[w].provider /\ at'[w].left = at[w].left \ {Next_(w)}
      /\ at'[w].inferred = Unlisted
      /\ \A v \in Workers \ {w} : at'[v] = at[v] /\ (Busy(v) => at[v].provider # at[w].provider)
  BY <1>1, <1>2, Advance
<1> HIDE DEF p, r, entry
<1>4. /\ IsTable(disk') /\ parses' \in BOOLEAN /\ torn' \in BOOLEAN /\ TornInv'
      /\ \/ pc' = "running" /\ disk' = IF SavedNow(entry) THEN vm' ELSE disk
         \/ pc' = "idle" /\ (torn' \/ disk' = disk)
  <2>1. IsTable(disk) /\ parses \in BOOLEAN /\ torn \in BOOLEAN /\ TornInv
    BY DEF MInv, TypeInv
  <2>2. CASE UNCHANGED <<pc, parses, torn>> /\ disk' = IF SavedNow(entry) THEN vm' ELSE disk
    BY <1>1, <1>2, <2>1, <2>2 DEF TornInv
  <2>3. CASE SaveFails(vm')
    <3>1. /\ IsTable(disk') /\ pc' = "idle"
          /\ UNCHANGED <<disk, parses, torn>> \/ (parses' \in BOOLEAN /\ torn' = TRUE)
      BY <1>1, <2>1, <2>3, SaveFailsTable
    <3>2. CASE UNCHANGED <<disk, parses, torn>>
      BY <2>1, <3>1, <3>2 DEF TornInv
    <3>3. CASE parses' \in BOOLEAN /\ torn' = TRUE
      <4>1. torn' /\ torn' \in BOOLEAN
        BY <3>3
      <4> QED BY <3>1, <3>3, <4>1 DEF TornInv
    <3> QED BY <3>1, <3>2, <3>3
  <2> QED BY <1>2, <2>2, <2>3
<1>5. TypeInv'
  BY <1>1, <1>2, <1>3, <1>4 DEF MInv, TypeInv, Busy, p
<1>6. ApartInv'
  BY <1>2, <1>3 DEF MInv, ApartInv, Busy
<1>7. InferInv'
  <2>1. ASSUME pc' = "running", NEW v \in Workers, Busy(v)', at'[v].inferred # Unlisted
        PROVE  at'[v].left # {} /\ (~options'.recompute => vm'[at'[v].provider][Next_(v)'] = Unlisted)
    <3>1. v # w /\ at'[v] = at[v] /\ at[v].provider # p /\ Busy(v)
      BY <1>3, <2>1 DEF Busy, p
    <3>2. Next_(v)' = Next_(v)
      BY <3>1 DEF Next_
    <3>3. at[v].left # {} /\ (~options.recompute => vm[at[v].provider][Next_(v)] = Unlisted)
      BY <1>2, <2>1, <3>1 DEF MInv, InferInv
    <3>4. at[v].provider \in DOMAIN vm /\ Next_(v) \in Releases
      BY <3>1, <3>3, NewestLeft DEF MInv, TypeInv
    <3> QED BY <1>1, <1>2, <3>1, <3>2, <3>3, <3>4
  <2> QED BY <2>1 DEF InferInv
<1>8. KeptInv'
  <2>1. ASSUME pc' = "running", ~options'.recompute, NEW q \in DOMAIN disk', NEW s \in Releases, IsVersion(disk'[q][s])
        PROVE  q \in DOMAIN vm' /\ vm'[q][s] = disk'[q][s]
    <3>1. UNCHANGED pc /\ disk' = IF SavedNow(entry) THEN vm' ELSE disk
      BY <1>2, <2>1 DEF SaveFails
    <3>2. CASE disk' = disk
      <4>1. q \in DOMAIN vm /\ vm[q][s] = disk[q][s]
        BY <1>2, <2>1, <3>2 DEF MInv, KeptInv
      <4>2. ~IsVersion(Unlisted)
        BY DEF IsVersion, Unlisted
      <4>3. q # p \/ s # r
        BY <1>1, <1>2, <2>1, <3>2, <4>1, <4>2
      <4> QED BY <1>1, <3>2, <4>1, <4>3
    <3> QED BY <2>1, <3>1, <3>2
  <2> QED BY <2>1 DEF KeptInv
<1>9. SequentialSaved'
  <2> SUFFICES ASSUME ~options'.parallel, ~torn'
               PROVE  (pc' = "running" => Unsaved' = {}) /\ \A a, b \in Unsaved' : a = b
    BY DEF SequentialSaved
  <2>1. ~options.parallel /\ Unsaved = {}
    BY <1>2 DEF MInv, SequentialSaved, TornInv
  <2>2. ASSUME disk' = disk, NEW a \in Unsaved' PROVE a = <<p, r>>
    <3>1. /\ a[1] \in DOMAIN vm /\ a[2] \in Releases /\ a = <<a[1], a[2]>>
          /\ IsVersion(vm'[a[1]][a[2]])
          /\ a[1] \notin DOMAIN disk \/ disk[a[1]][a[2]] # vm'[a[1]][a[2]]
      BY <1>1, <2>2 DEF Unsaved
    <3>2. CASE a[1] # p \/ a[2] # r
      <4>1. vm'[a[1]][a[2]] = vm[a[1]][a[2]]
        BY <1>1, <3>1, <3>2
      <4>2. a \in Unsaved
        BY <3>1, <4>1 DEF Unsaved
      <4> QED BY <2>1, <4>2
    <3> QED BY <3>1, <3>2
  <2>3. CASE pc' = "running" /\ SavedNow(entry)
    <3>1. disk' = vm'
      BY <1>4, <2>3
    <3> QED BY <3>1 DEF Unsaved
  <2>4. CASE pc' = "running" /\ ~SavedNow(entry)
    <3>1. disk' = disk /\ ~IsVersion(entry)
      BY <1>4, <2>1, <2>4 DEF SavedNow
    <3>2. <<p, r>> \notin Unsaved'
      BY <1>1, <3>1 DEF Unsaved
    <3> QED BY <2>2, <3>1, <3>2
  <2>5. CASE pc' = "idle"
    BY <1>4, <2>2, <2>5
  <2> QED BY <1>4, <2>3, <2>4, <2>5
<1>10. DoneInv'
  <2>1. EndedComplete'
    BY <1>4 DEF EndedComplete
  <2>2. ASSUME NEW q \in fetched, NEW s \in Releases
        PROVE  vm'[q][s] # Unlisted \/ \E v \in Workers : at'[v].provider = q /\ s \in at'[v].left
    <3>1. q \in DOMAIN vm /\ (vm[q][s] # Unlisted \/ \E v \in Workers : at[v].provider = q /\ s \in at[v].left)
      BY <1>2 DEF MInv, DoneInv
    <3>2. CASE q = p /\ s = r
      BY <1>1, <3>2
    <3>3. CASE q # p \/ s # r
      <4>1. vm'[q][s] = vm[q][s]
        BY <1>1, <3>1, <3>3
      <4>2. ASSUME NEW v \in Workers, at[v].provider = q, s \in at[v].left
            PROVE  at'[v].provider = q /\ s \in at'[v].left
        BY <1>3, <3>3, <4>2 DEF p, r
      <4> QED BY <3>1, <4>1, <4>2
    <3> QED BY <3>2, <3>3
  <2>3. \A q \in fetched : q \in DOMAIN vm'
    BY <1>1, <1>2 DEF MInv, DoneInv
  <2> QED BY <1>2, <2>1, <2>2, <2>3 DEF DoneInv
<1> QED BY <1>4, <1>5, <1>6, <1>7, <1>8, <1>9, <1>10 DEF MInv

LEMMA LeaveInv == ASSUME MInv, NEW w \in Workers, Leave(w) PROVE MInv'
<1>1. /\ UNCHANGED <<disk, parses, torn, pc, vm, options, queue, fetched>> /\ pc = "running" /\ Busy(w)
      /\ at[w].left = {} /\ at' = [at EXCEPT ![w] = Free]
  BY DEF Leave
<1>2. Free \in Posts /\ Free.provider = "none"
  BY DEF Free, Posts, Entry, Unlisted, Half, Error
<1>3. at' \in [Workers -> Posts] /\ at'[w].provider = "none" /\ \A v \in Workers \ {w} : at'[v] = at[v]
  <2>1. at \in [Workers -> Posts]
    BY DEF MInv, TypeInv
  <2> QED BY <1>1, <1>2, <2>1
<1>4. TypeInv'
  BY <1>1, <1>3 DEF MInv, TypeInv, IsTable, Busy
<1>5. ApartInv' /\ InferInv'
  BY <1>1, <1>3 DEF MInv, ApartInv, InferInv, Busy, Next_
<1>6. KeptInv' /\ SequentialSaved' /\ TornInv'
  BY <1>1 DEF MInv, KeptInv, SequentialSaved, Unsaved, TornInv
<1>7. DoneInv'
  <2>1. ASSUME NEW q \in fetched, NEW s \in Releases
        PROVE  vm[q][s] # Unlisted \/ \E v \in Workers : at'[v].provider = q /\ s \in at'[v].left
    <3>1. vm[q][s] # Unlisted \/ \E v \in Workers \ {w} : at[v].provider = q /\ s \in at[v].left
      BY <1>1 DEF MInv, DoneInv
    <3> QED BY <1>3, <3>1
  <2> QED BY <1>1, <2>1 DEF MInv, DoneInv, EndedComplete
<1> QED BY <1>4, <1>5, <1>6, <1>7 DEF MInv

LEMMA FinishInv == MInv /\ Finish => MInv'
<1> SUFFICES ASSUME MInv, Finish PROVE MInv'
  OBVIOUS
<1>1. /\ UNCHANGED <<vm, options, queue, at, fetched>> /\ pc = "running" /\ AllDone
      /\ \/ disk' = vm /\ pc' = "ended" /\ UNCHANGED <<parses, torn>>
         \/ SaveFails(vm)
  BY DEF Finish
<1>2. IsTable(vm) /\ IsTable(disk) /\ parses \in BOOLEAN
  BY DEF MInv, TypeInv
<1>3. /\ IsTable(disk') /\ parses' \in BOOLEAN /\ torn' \in BOOLEAN /\ TornInv'
      /\ \/ pc' = "ended" /\ disk' = vm
         \/ pc' = "idle" /\ (torn' \/ (disk' = disk /\ torn' = torn))
  <2>1. torn \in BOOLEAN /\ TornInv
    BY DEF MInv, TypeInv
  <2>2. CASE disk' = vm /\ pc' = "ended" /\ UNCHANGED <<parses, torn>>
    BY <1>2, <2>1, <2>2 DEF TornInv
  <2>3. CASE SaveFails(vm)
    <3>1. /\ IsTable(disk') /\ pc' = "idle"
          /\ UNCHANGED <<disk, parses, torn>> \/ (parses' \in BOOLEAN /\ torn' = TRUE)
      BY <1>2, <2>3, SaveFailsTable
    <3>2. CASE UNCHANGED <<disk, parses, torn>>
      BY <1>2, <2>1, <3>1, <3>2 DEF TornInv
    <3>3. CASE parses' \in BOOLEAN /\ torn' = TRUE
      <4>1. torn' /\ torn' \in BOOLEAN
        BY <3>3
      <4> QED BY <3>1, <3>3, <4>1 DEF TornInv
    <3> QED BY <3>1, <3>2, <3>3
  <2> QED BY <1>1, <2>2, <2>3
<1>4. TypeInv' /\ ApartInv' /\ InferInv' /\ KeptInv'
  BY <1>1, <1>3 DEF MInv, TypeInv, IsTable, ApartInv, InferInv, KeptInv, Busy
<1>6. SequentialSaved'
  <2>1. CASE pc' = "ended" /\ disk' = vm
    BY <1>1, <2>1 DEF SequentialSaved, Unsaved
  <2>2. CASE pc' = "idle" /\ disk' = disk /\ torn' = torn
    BY <1>1, <2>2 DEF MInv, SequentialSaved, Unsaved
  <2> QED BY <1>3, <2>1, <2>2 DEF SequentialSaved
<1>5. EndedComplete'
  <2>1. ASSUME NEW q \in fetched, NEW s \in Releases PROVE q \in DOMAIN vm /\ vm[q][s] # Unlisted
    <3>1. q \in DOMAIN vm /\ (vm[q][s] # Unlisted \/ \E v \in Workers : at[v].provider = q /\ s \in at[v].left)
      BY <1>1 DEF MInv, DoneInv
    <3>2. q # "none" /\ \A v \in Workers : at[v].provider = "none"
      BY <1>1, <1>2, <3>1, ProviderMapAssumption DEF AllDone, Busy, IsTable
    <3> QED BY <3>1, <3>2
  <2> QED BY <1>1, <1>3, <2>1 DEF EndedComplete
<1> QED BY <1>3, <1>4, <1>5, <1>6 DEF MInv, DoneInv

LEMMA KillInv == MInv /\ Kill => MInv'
<1> SUFFICES ASSUME MInv, Kill PROVE MInv'
  OBVIOUS
<1>1. UNCHANGED <<disk, parses, torn, vm, options, queue, at, fetched>> /\ pc' = "idle"
  BY DEF Kill
<1> QED BY <1>1 DEF MInv, TypeInv, IsTable, ApartInv, InferInv, KeptInv, DoneInv, EndedComplete, SequentialSaved, Unsaved, TornInv, Busy

\* Every step keeps the invariant.
LEMMA StepInv == MInv /\ [Next]_vars => MInv'
<1> SUFFICES ASSUME MInv, [Next]_vars PROVE MInv'
  OBVIOUS
<1>1. CASE UNCHANGED vars
  <2>1. UNCHANGED <<disk, parses, torn, pc, vm, options, queue, at, fetched>>
    BY <1>1 DEF vars
  <2> QED BY <2>1 DEF MInv, TypeInv, IsTable, ApartInv, InferInv, KeptInv, DoneInv, EndedComplete, SequentialSaved, Unsaved, TornInv, Busy, Next_
<1>2. ASSUME NEW w \in Workers, FetchReleases(w) \/ Skip(w) \/ Infer(w) \/ Add(w) \/ Leave(w)
      PROVE  MInv'
  BY <1>2, FetchReleasesInv, SkipInv, InferStepInv, AddInv, LeaveInv
<1> QED BY <1>1, <1>2, StartInv, FinishInv, KillInv DEF Next

-----------------------------------------------------------------------------
(* The theorems.                                                           *)

\* The tables on disk and in memory are tables, and every worker is at a provider
\* of the one in memory (FetchReleases, Infer and Add of the source's workers).
THEOREM TypeCorrect == Spec => []TypeInv
<1>1. MInv => TypeInv
  BY DEF MInv
<1> QED BY <1>1, InitInv, StepInv, PTL DEF Spec

\* A run of one worker has every version that it added in the file, but for the
\* one whose save failed, wherever it is killed, unless that save is cut off
\* (SaveToYAML after each AddVersion), for any providers and releases.
THEOREM NothingInferredIsLost == Spec => []SequentialSaved
<1>1. MInv => SequentialSaved
  BY DEF MInv
<1> QED BY <1>1, InitInv, StepInv, PTL DEF Spec

\* A run that ended has an entry in the file for every release of a provider whose
\* releases it could list, for any number of workers (wg.Wait before the save).
THEOREM EndedRunsAreComplete == Spec => []EndedComplete
<1>1. MInv => EndedComplete
  BY DEF MInv, DoneInv
<1> QED BY <1>1, InitInv, StepInv, PTL DEF Spec

\* Without --recompute no step but one that fails or is killed loses or changes a
\* version of the file, for any number of workers on one table.
THEOREM KnownVersionsAreKept == Spec => VersionsKept
<1> DEFINE Kept ==
      (pc' # "idle" /\ ~options'.recompute) =>
         \A p \in DOMAIN disk, r \in Releases :
           IsVersion(disk[p][r]) => p \in DOMAIN disk' /\ disk'[p][r] = disk[p][r]
<1>1. MInv /\ [Next]_vars => [Kept]_vars
  <2> SUFFICES ASSUME MInv, Next, pc' # "idle", ~options'.recompute,
                      NEW p \in DOMAIN disk, NEW r \in Releases, IsVersion(disk[p][r])
               PROVE  p \in DOMAIN disk' /\ disk'[p][r] = disk[p][r]
    OBVIOUS
  <2>1. ASSUME NEW w \in Workers, Add(w)
        PROVE  p \in DOMAIN disk' /\ disk'[p][r] = disk[p][r]
    <3>1. /\ pc = "running" /\ UNCHANGED options
          /\ disk' = vm' \/ disk' = disk
      BY <2>1 DEF Add, SaveFails
    <3>2. p \in DOMAIN vm /\ vm[p][r] = disk[p][r]
      BY <3>1 DEF MInv, KeptInv
    <3>3. ~IsVersion(Unlisted)
      BY DEF IsVersion, Unlisted
    <3>4. /\ DOMAIN vm' = DOMAIN vm
          /\ vm[at[w].provider][Next_(w)] = Unlisted
          /\ \A q \in DOMAIN vm, s \in Releases :
               q # at[w].provider \/ s # Next_(w) => vm'[q][s] = vm[q][s]
      BY <2>1, <3>1, AddStep
    <3> QED BY <3>1, <3>2, <3>3, <3>4
  <2>2. CASE Finish
    <3>1. pc = "running" /\ UNCHANGED options /\ disk' = vm
      BY <2>2 DEF Finish, SaveFails
    <3> QED BY <3>1 DEF MInv, KeptInv
  <2>3. CASE UNCHANGED disk
    BY <2>3
  <2>4. Start \/ Kill => UNCHANGED disk
    BY DEF Start, Kill
  <2>5. \A w \in Workers : FetchReleases(w) \/ Skip(w) \/ Infer(w) \/ Leave(w) => UNCHANGED disk
    BY DEF FetchReleases, Skip, Infer, Leave
  <2> QED BY <2>1, <2>2, <2>3, <2>4, <2>5 DEF Next
<1>2. Spec => [][Kept]_vars
  BY <1>1, InitInv, StepInv, PTL DEF Spec
<1> QED BY <1>2 DEF VersionsKept

\* RecommendPulumiProvider picks the best that a table has, for every table the
\* file may ever hold: the largest version of the major that is not newer.
THEOREM TheBestIsRecommended == Spec => []RecommendBest
<1>1. TypeInv => RecommendBest
  <2> SUFFICES ASSUME TypeInv, NEW p \in DOMAIN disk, NEW v \in TfVersions \ {0},
                      Readable(disk[p]),
                      {disk[p][r] : r \in {r \in Releases : IsVersion(disk[p][r]) /\ Major(disk[p][r]) = Major(v) /\ disk[p][r] <= v}} # {},
                      NEW rec \in Recommended(disk[p], v)
               PROVE  disk[p][rec] = Max({disk[p][r] : r \in {r \in Releases : IsVersion(disk[p][r]) /\ Major(disk[p][r]) = Major(v) /\ disk[p][r] <= v}})
    BY DEF RecommendBest
  <2> DEFINE row == disk[p]
             fit == {r \in Releases : IsVersion(row[r]) /\ Major(row[r]) = Major(v) /\ row[r] <= v}
             fitting == {row[r] : r \in fit}
             exact == {r \in Bridging(row) : row[r] = v}
             older == {r \in OfMajor(row, Bridging(row), Major(v)) : row[r] <= v}
  <2>1. row \in [Releases -> Entry] /\ DOMAIN row = Releases /\ \A r \in Releases : row[r] \in Nat
    BY DEF TypeInv, IsTable, Entry, Unlisted, Error, Half
  <2>2. v \in Nat /\ v >= 10 /\ v # 0 /\ Releases \subseteq Nat /\ IsFiniteSet(Releases)
    BY ProviderMapAssumption
  <2>3. fitting \subseteq Nat /\ older = fit
    BY <2>1 DEF Bridging, OfMajor
  <2>4. CASE exact # {}
    <3>1. exact \subseteq Nat /\ IsFiniteSet(exact)
      BY <2>1, <2>2, FS_Subset DEF Bridging
    <3>2. rec = Max(exact)
      BY <2>2, <2>4 DEF Recommended
    <3>3. rec \in exact
      BY <2>4, <3>1, <3>2, FiniteMax
    <3>4. row[rec] = v /\ rec \in Releases /\ IsVersion(row[rec])
      BY <2>1, <3>3 DEF Bridging
    <3>5. v \in fitting
      BY <2>2, <3>4
    <3>6. \A y \in fitting : v >= y
      BY <2>1, <2>2
    <3> HIDE DEF fitting, row
    <3>7. Max(fitting) = v
      BY <2>3, <3>5, <3>6, MaxIs
    <3> QED BY <3>4, <3>7 DEF fitting, row
  <2>5. CASE exact = {}
    <3>1. older # {}
      BY <2>3
    <3>2. Recommended(row, v) = {r \in older : row[r] = Max({row[s] : s \in older})}
      BY <2>2, <2>5, <3>1 DEF Recommended
    <3>3. row[rec] = Max({row[s] : s \in older})
      BY <3>2
    <3> QED BY <2>3, <3>3
  <2> QED BY <2>4, <2>5
<1> QED BY <1>1, TypeCorrect, PTL
=============================================================================
