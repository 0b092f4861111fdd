-------------------------------- MODULE Rules --------------------------------
(***************************************************************************)
(* What a score decides (MarketVerdict) and what an answer of the provider *)
(* does to the markets of a match (OddsVerdict), side by side: subject     *)
(* says which of the two a behaviour is about, the other one rests.        *)
(***************************************************************************)
EXTENDS MarketVerdict

CONSTANT Answers     \* what the provider may answer, see OddsVerdict

VARIABLES subject, market, price, answer, todo, run

Quotes == INSTANCE OddsVerdict

\* What json.Unmarshal can make of a body (internal/oddsapi/odds.go).
ASSUME AnswersAreDecoded == Quotes!AnswersOK

quoted == <<market, price, answer, todo, run>>

ScoresRest ==
  /\ board = CHOOSE b \in Boards : TRUE
  /\ payload = CHOOSE p \in Payloads : TRUE
  /\ slip = CHOOSE s \in Slips : TRUE
  /\ pick = CHOOSE c \in board.codes : TRUE
  /\ results = Undecided /\ credit = 0

QuotesRest == Quotes!Init /\ market = [t \in Quotes!Types |-> <<>>]

RulesInit == \/ subject = "scores" /\ Init /\ QuotesRest
             \/ subject = "quotes" /\ Quotes!Init /\ ScoresRest

RulesNext ==
  /\ \/ subject = "scores" /\ Next /\ UNCHANGED quoted
     \/ subject = "quotes" /\ Quotes!Next /\ UNCHANGED vars
  /\ UNCHANGED subject

RulesSpec == RulesInit /\ [][RulesNext]_<<vars, quoted, subject>>

\* The properties of OddsVerdict, stated there: a totals price never stands
\* without a line (applyTotals),
PricedTotalsHaveALine == Quotes!PricedTotalsHaveALine

\* line and prices are those of the main line (pickMainTotalsLine),
TotalsShowTheMainLine == Quotes!TotalsShowTheMainLine

\* and open means quoted on both sides (ensureStatus, suspendMarkets).
OpenMeansQuoted == Quotes!OpenMeansQuoted
=============================================================================
