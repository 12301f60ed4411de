------------------------------ MODULE ProvidersMC ------------------------------
(***************************************************************************)
(* One provider that has a bridged release for two of its versions, one that *)
(* has none.  Another build, which records no pins, bridges both dynamically. *)
(***************************************************************************)
EXTENDS Providers, TLC

MCTools == {"t1", "t2"}
MCTF == {"aws", "time"}
MCBridged == {"aws"}
Build(first, second, row, pins) ==
  [maps |-> "aws" :> first @@ "time" :> second, row |-> "aws" :> row, pins |-> pins]
\* The release that is recommended for version 12 is not the newest one, which is
\* what an injection without a pin would take.
Static == Build("aws", "dynamic", <<11, 21>>, TRUE)
MCBuilds == "t1" :> {Static, Build("dynamic", "dynamic", <<11, 21>>, FALSE)} 
  @@ "t2" :> {Build("aws", "dynamic", <<11, 12>>, TRUE)}
MCReleases == 1..2
MCMaxSessions == "t1" :> 2 @@ "t2" :> 1
MCLocks == {[t \in MCTools |-> "aws" :> 12 @@ "time" :> v] : v \in {0, 10}}
=============================================================================
