------------------------------- MODULE MC_Jobs -------------------------------
(* Two jobs: eleven matches to quote make two batches, and of three matches  *)
(* to settle the provider never answers about the first.                     *)
EXTENDS Jobs, TLC

MCListed == ("settlement" :> 3) @@ ("odds-sync" :> 11)
MCHung   == {<<"settlement", 1>>}
=============================================================================
