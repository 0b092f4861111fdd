--------------------------- MODULE MC_Leaderboard ---------------------------
(***************************************************************************)
(* Two users and three bets, pages of one row, a page of the leaderboard   *)
(* that lives for one tick.                                                *)
(***************************************************************************)
EXTENDS Leaderboard, TLC

Bet(user, stake, payout) == [user |-> user, stake |-> stake, payout |-> payout]

MCBetOf == <<Bet(1, 2, 3), Bet(2, 2, 6), Bet(1, 1, 4)>>

Query(period, metric, page) == [period |-> period, metric |-> metric, page |-> page]

MCQueries == {Query("", "roi", 0), Query("all", "roi", 1), Query("year", "roi", 1)}

Symmetric == Permutations(Readers)
=============================================================================
