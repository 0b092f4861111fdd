------------------------------ MODULE MC_Rules ------------------------------
(***************************************************************************)
(* Scores: two-way, three-way, totals (whole, half, quarter and missing    *)
(* line) and custom markets; goals 0..3 with negative and absent numbers;  *)
(* stakes and odds around the points where floor(stake * odds) rounds.     *)
(* Answers: winner markets with and without a draw, one-sided, and with a  *)
(* price that rounds to 1.000; up to two totals lines out of two that are  *)
(* equally far from 1.90/1.90, a perfect one, one without a line, one with *)
(* a price that is not above 1; a totals market of corners listed first.   *)
(***************************************************************************)
EXTENDS Rules

MCBoards ==
  {[type |-> "ML", line |-> NULL, codes |-> cs] :
     cs \in {{"home", "away"}, {"home", "draw", "away"}}}
  \cup {[type |-> "TOTALS", line |-> l, codes |-> {"over", "under"}] :
     l \in {NULL, <<200>>, <<250>>, <<225>>}}
  \cup {[type |-> "CUSTOM", line |-> NULL, codes |-> {"opt"}]}

Numbers == {NULL, <<-1>>, <<0>>, <<1>>, <<2>>, <<3>>}

MCPayloads ==
  {[kind |-> "object", home |-> h, away |-> a] : h \in Numbers, a \in Numbers}
  \cup {[kind |-> k, home |-> NULL, away |-> NULL] : k \in {"empty", "malformed", "null"}}

MCSlips == {[stake |-> s, odds |-> o] : s \in {1, 10, 999}, o \in {1001, 1105, 2500}}

-----------------------------------------------------------------------------
ML(h, d, a) == [home |-> h, draw |-> d, away |-> a]

MLOffers ==
  {<<[name |-> "1x2", lines |-> ls]>> :
     ls \in {<<ML(<<18000>>, <<40000>>, <<21000>>)>>,
             <<ML(<<18000>>, <<>>, <<>>), ML(<<18000>>, <<>>, <<21000>>)>>,
             <<ML(<<10004>>, <<>>, <<90000>>)>>}}

TL(hdp, over, under) == [hdp |-> hdp, over |-> <<over>>, under |-> <<under>>]

Even  == TL(<<250>>, 19000, 19000)
Lower == TL(<<200>>, 18500, 19500)

TotalsLines == {Even, Lower, TL(<<250>>, 19500, 18500), TL(<<>>, 19000, 19000),
                TL(<<200>>, 10000, 19000)}

Totals(ls) == [name |-> "totals", lines |-> ls]
Corners    == [name |-> "corners totals", lines |-> <<TL(<<950>>, 19000, 19000)>>]

\* Every list of up to two lines alone, and some lists beside every winner market.
MCAnswers ==
  {<<>>, <<<<>>>>, <<<<Totals(<<>>)>>>>, <<<<Corners, Totals(<<Even>>)>>>>}
  \cup {<<<<Totals(<<l, k>>)>>>> : l \in TotalsLines, k \in TotalsLines}
  \cup {<<ml \o totals>> : ml \in MLOffers, totals \in {<<>>, <<Totals(<<Lower>>)>>}}
=============================================================================
