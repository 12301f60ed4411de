------------------------------- MODULE TfDigestMC -------------------------------
(***************************************************************************)
(* A region and a size, which the environment, the workspace and another    *)
(* workspace of the environment set, and a flag that no module declares.    *)
(***************************************************************************)
EXTENDS TfDigest, TLC

Var(key, value, scope) ==
  [key |-> key, value |-> value, hcl |-> FALSE, sensitive |-> FALSE,
   category |-> "terraform", scope |-> scope]

Ours == Var("region", "a", "workspace")
OursEmpty == [Ours EXCEPT !.value = Empty]
Secret == [Var("size", "b", "workspace") EXCEPT !.sensitive = TRUE]
Expression == [Var("size", Malformed, "workspace") EXCEPT !.hcl = TRUE]
Shared == Var("region", "b", "environment")
Sibling == Var("size", "a", "sibling")
Flag == Var("flag", "a", "environment")
Shell == [Var("shell", "a", "workspace") EXCEPT !.category = "env"]

MCItems == {Ours, OursEmpty, Secret, Expression, Shared, Sibling, Flag, Shell}
\* Every other place is free at first.
MCPlaces == 1..9
Spaced(list) == [r \in {2 * i : i \in DOMAIN list} |-> list[r \div 2]]
MCListings == {Spaced(list) : list \in
  {<<Shared, Secret, Ours>>, <<Ours, Shell, Flag, Secret>>, <<Sibling, Flag, Shared>>}}

MCBackends == {[iacp |-> FALSE, redacts |-> TRUE, named |-> TRUE],
               [iacp |-> TRUE, redacts |-> FALSE, named |-> FALSE],
               [iacp |-> TRUE, redacts |-> TRUE, named |-> TRUE]}

MCTfVars == {<<"region" :> "b", "size" :> "a">>,
             <<"region" :> "a" @@ "size" :> "b", "region" :> Null>>}
=============================================================================
