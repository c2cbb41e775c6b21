----------------------------- MODULE MCIngestJobs -----------------------------
(* Three jobs: a plan of two documents that share a file name but not a      *)
(* files row (two archives that hold a PDF of the same name), a plan and a   *)
(* retry of one document.                                                    *)
EXTENDS IngestJobs, TLC

MCJobs == {"batch", "plan", "retry"}
MCItems == {"a", "b", "c"}
MCKindOf == ("batch" :> "plan") @@ ("plan" :> "plan") @@ ("retry" :> "single")
MCItemsOf == ("batch" :> <<"a", "b">>) @@ ("plan" :> <<"c">>) @@ ("retry" :> <<"a">>)
MCNameOf == ("a" :> "report") @@ ("b" :> "report") @@ ("c" :> "annex")
MCFileOf == ("a" :> 1) @@ ("b" :> 2) @@ ("c" :> 3)
=============================================================================
