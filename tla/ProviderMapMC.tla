----------------------------- MODULE ProviderMapMC -----------------------------
EXTENDS ProviderMap, TLC

MCProviders == {"aws", "null"}
MCReleases == 1..3
MCWorkers == {"w1", "w2"}
Says(submodule, message, notes) ==
  "submodule" :> submodule @@ "message" :> message @@ "notes" :> notes
\* In each row: a version from the submodule, one that only the message or the
\* notes have, and one that nothing has.
MCTruth ==
  "aws" :> <<Says(11, 12, 0), Says(12, 0, 0), Says(21, 0, 13)>>
  @@ "null" :> <<Says(0, 0, 11), Says(0, 0, 0), Says(0, 12, 0)>>
Rows == {<<11, 1, 0>>, <<11, 13, 0>>, <<12, 11, 21>>}
MCTables == {"aws" :> row : row \in Rows} \cup {"aws" :> <<11, 0, 0>> @@ "null" :> row : row \in Rows}
MCTfVersions == {0, 10, 11, 12, 13, 20, 21, 22, 31}
=============================================================================
