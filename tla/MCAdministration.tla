--------------------------- MODULE MCAdministration ---------------------------
(***************************************************************************)
(* Two wizard pages and a settings page over three small scripts.          *)
(***************************************************************************)
EXTENDS Administration, TLC

CONSTANTS p1, p2, e1, n1, n2, k1, k2

MCWizards == {p1, p2}
MCEditors == {e1}
MCNames == {n1, n2}
MCPasswords == {k1, k2}

\* user_group, users and config with its first seed row
MCScripts == <<<<"user_group", "group rows">>, <<"users">>, <<"config", "flag">>>>
MCStatements == {"user_group", "group rows", "users", "config", "flag"}
MCDdl == {"user_group", "users", "config"}
MCNeeds == [s \in MCStatements |->
              CASE s \in {"users", "group rows"} -> {"user_group"}
                [] s = "flag" -> {"config"}
                [] OTHER -> {}]

MCKeyOrder == <<"app.name", "genai.model", "oci.user", "oci.bucket_name", "wizard.completed">>
\* Reading makes a number of " 7", and the key file has it trimmed.
MCDefaults == "app.name" :> "7"
MCValues == {"true", "false", "7", " 7", "8"}
MCScalar == [v \in MCValues |-> IF v = " 7" THEN "7" ELSE v]
MCInFile == [k \in {"oci.user"} |-> MCScalar]

\* Two users of OCI and a bucket
MCOciForms == {[k \in {"oci.user", "oci.bucket_name"} |-> IF k = "oci.user" THEN u ELSE "7"] :
                 u \in {" 7", "8"}}
MCSymmetry == Permutations(MCWizards) \cup Permutations(MCNames)
                \cup Permutations(MCPasswords)
===============================================================================
