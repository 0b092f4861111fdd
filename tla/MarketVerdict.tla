---------------------------- MODULE MarketVerdict ----------------------------
(***************************************************************************)
(* One market of a finished match and one bet on it: buildPlan and payout  *)
(* seen as a function of what the provider (or the administrator) sent.    *)
(* The worker asks again for as long as the scores are unusable, and       *)
(* decides once.  The properties compare the operators of SettlementRules, *)
(* which follow the code branch by branch, with what the market means.     *)
(***************************************************************************)
EXTENDS SettlementRules, FiniteSets

CONSTANTS
  Boards,      \* markets on offer: type, line and the codes of their outcomes
  Payloads,    \* what the scores column may be fed with
  Slips        \* bets: stake and odds

\* The columns' types: a line is NULL or a number, a bet has odds above 1; only
\* an object carries numbers.
ASSUME VerdictConstantsOK ==
  /\ \A b \in Boards : /\ b.type \in MarketTypes
                       /\ b.line # NULL => b.line[1] \in Int
                       /\ b.codes \subseteq OutcomeCodes
  /\ \A p \in Payloads : /\ p.kind \in PayloadKinds
                         /\ p.home # NULL => p.kind = "object" /\ p.home[1] \in Int
                         /\ p.away # NULL => p.kind = "object" /\ p.away[1] \in Int
  /\ \A s \in Slips : s.stake \in Nat /\ s.odds \in Nat /\ s.odds > 1000

VARIABLES board, payload, slip, pick, results, credit

vars == <<board, payload, slip, pick, results, credit>>

Undecided == [c \in board.codes |-> "none"]

Init ==
  /\ board \in Boards
  /\ payload \in Payloads
  /\ slip \in Slips
  /\ pick \in board.codes
  /\ results = Undecided
  /\ credit = 0

payout == computePotentialPayout(slip.stake, slip.odds)

\* ErrScoresUnavailable: nothing is written, the next run asks again.
ScoresUnavailable ==
  /\ results = Undecided
  /\ ~parseScores(payload).ok
  /\ payload' \in Payloads \ {payload}
  /\ UNCHANGED <<board, slip, pick, results, credit>>

\* buildPlan with usable scores, and the credit of the bet that follows.
Settle ==
  LET score == parseScores(payload)
  IN  /\ results = Undecided
      /\ score.ok
      /\ results' = [c \in board.codes |->
                       ScoredResult(board.type, board.line, c, score.home, score.away)]
      /\ credit' = Credit(betStatusFromResult(results'[pick]), slip.stake, payout)
      /\ UNCHANGED <<board, payload, slip, pick>>

Next == ScoresUnavailable \/ Settle

Spec == Init /\ [][Next]_vars

Decided == results # Undecided
Won     == {c \in board.codes : results[c] = "won"}

\* The score as anyone reads it: an absent number counts as zero.
Reading == [side \in {"home", "away"} |-> IF payload[side] = NULL THEN 0 ELSE payload[side][1]]

\* Two bettors on two outcomes of a market never both win, and a winner market
\* that offers home, draw and away always has a winner (buildPlan, applyMLPlan,
\* applyTotalsPlan).
AtMostOneWinner ==
  Decided => /\ Cardinality(Won) <= 1
             /\ {"home", "draw", "away"} \subseteq board.codes /\ board.type = "ML" => Won # {}

\* Over and under split at the line whatever the line's fraction: more than the
\* line is over, less is under, exactly the line returns both stakes.
TotalsSplitAtTheLine ==
  Decided /\ board.type = "TOTALS" /\ board.line # NULL =>
    LET goals == 100 * (Reading["home"] + Reading["away"])
        line  == board.line[1]
    IN  /\ "over"  \in Won <=> "over"  \in board.codes /\ goals > line
        /\ "under" \in Won <=> "under" \in board.codes /\ goals < line
        /\ goals = line => \A c \in board.codes : results[c] = "void"

\* What a decided market says of its outcomes follows the score, for every line
\* and for winner markets with and without a draw (buildPlan).
WinnersFollowTheScore == AtMostOneWinner /\ TotalsSplitAtTheLine

\* A bet brings its owner the largest whole sum not above stake * odds, the
\* stake, or nothing, and a winner never gets less than was staked.
CreditIsExact ==
  Decided =>
    CASE results[pick] = "won"  -> /\ 1000 * credit <= slip.stake * slip.odds
                                   /\ slip.stake * slip.odds < 1000 * (credit + 1)
                                   /\ credit >= slip.stake
      [] results[pick] = "void" -> credit = slip.stake
      [] results[pick] = "lost" -> credit = 0

\* A run of the worker decides the market exactly when it got usable scores: a
\* negative or unreadable score never decides, and is asked for again; an object
\* without its keys does decide, as nil-nil (settlement_test.go:64).
Usable == /\ payload.kind \in {"null", "object"}
          /\ Reading["home"] >= 0 /\ Reading["away"] >= 0

UsableScoresDecide == [][Decided' <=> Usable]_vars
=============================================================================
