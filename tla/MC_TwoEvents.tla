---------------------------- MODULE MC_TwoEvents ----------------------------
(***************************************************************************)
(* A custom event and a manual match, settled and cancelled by two         *)
(* administrators while two bettors bet on both: wallets shared by two     *)
(* settlements, winning outcomes that belong to the other event, faults.   *)
(***************************************************************************)
EXTENDS BetSettlementRefinement, TLC

CONSTANTS poll, derby, yes, homeWin

MCSourceOf == poll :> "custom" @@ derby :> "manual"
MCEventOf  == 1 :> poll @@ 2 :> derby
MCTypeOf   == 1 :> "CUSTOM" @@ 2 :> "ML"
MCLineOf   == [m \in 1..2 |-> NULL]
MCMarketOf == yes :> 1 @@ homeWin :> 2
MCCodeOf   == yes :> "opt" @@ homeWin :> "home"
MCOddsOf   == yes :> 2500 @@ homeWin :> 1500
MCScores   == {<<1, 0>>, <<1, 1>>}

Symmetric == Permutations(Users) \cup Permutations(Requests)
=============================================================================
