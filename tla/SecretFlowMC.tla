----------------------------- MODULE SecretFlowMC -----------------------------
(***************************************************************************)
(* Attributes of resources whose address and path flatten to a config key. *)
(***************************************************************************)
EXTENDS SecretFlow, TLC

\* A password that the state and the schema mark, a token that only the schema
\* marks, a nested secret, a marked value that is a list, and a nested value that
\* only the schema marks.
MCAttrs == {"password", "token", "user", "list", "options"}
MCMarked == {"password", "user", "list"}
MCInSchema == {"password", "token", "options"}
MCNested == {"user", "options"}

\* The nested secret and the token flatten to one key.
MCKeyOf == "password" :> "db_password" @@ "token" :> "db_token" @@ "user" :> "db_token"
           @@ "list" :> "db_list" @@ "options" :> "db_options"
MCKeys == {"db_password", "db_token", "db_list", "db_options", "region"}

\* Programs that declare a secret, refer to one, or nest one.
MCProgram(kinds) == [a \in MCAttrs |-> IF a \in DOMAIN kinds THEN kinds[a] ELSE "none"]
MCPrograms == {MCProgram("password" :> "masked"),
               MCProgram("password" :> "unknown" @@ "token" :> "masked"),
               MCProgram("user" :> "masked")}
=============================================================================
