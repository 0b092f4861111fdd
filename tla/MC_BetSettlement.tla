-------------------------- MODULE MC_BetSettlement --------------------------
(***************************************************************************)
(* One provider match with a winner market and a totals market: the score  *)
(* makes a bet on the guests lose and one on over win, a cancellation      *)
(* voids both.  A manual match without markets, one bettor, two concurrent *)
(* HTTP requests and the settlement worker.                                *)
(***************************************************************************)
EXTENDS BetSettlementRefinement, TLC

CONSTANTS match, derby, awayWin, over

MCSourceOf == match :> "oddsapi" @@ derby :> "manual"
MCEventOf  == [m \in 1..2 |-> match]
MCTypeOf   == 1 :> "ML" @@ 2 :> "TOTALS"
MCLineOf   == 1 :> NULL @@ 2 :> <<200>>
MCMarketOf == awayWin :> 1 @@ over :> 2
MCCodeOf   == awayWin :> "away" @@ over :> "over"
MCOddsOf   == awayWin :> 2000 @@ over :> 1900
MCScores   == {<<2, 1>>}
MCAmounts  == {-2}

Symmetric == Permutations(Users) \cup Permutations(Requests)
=============================================================================
