---------------------------- MODULE Rules_proofs ----------------------------
(***************************************************************************)
(* Theorems about MarketVerdict, for any markets, lines, scores, stakes    *)
(* and odds, and about OddsVerdict, for any answers of the provider.  The  *)
(* invariant of the first says that whatever is decided was decided by the *)
(* payload that is still there; the rest of it is about the operators of   *)
(* SettlementRules.                                                        *)
(*                                                                         *)
(* The invariant of the second (QuotesInv) says what a run that has not    *)
(* ended still owes: all that the answer wants of a market is in the       *)
(* tables or among the statements to come, and totals without a line get   *)
(* it before their prices.  It rests on what the two loops of              *)
(* odds_sync.go pick (pickMLLineFinds, pickMainTotalsLineFinds).           *)
(***************************************************************************)
EXTENDS Rules, FoldLemmas

-----------------------------------------------------------------------------
\* What MarketVerdict keeps.
Chosen == board \in Boards /\ payload \in Payloads /\ slip \in Slips /\ pick \in board.codes

Score == parseScores(payload)

DecidedByTheScore ==
  Decided =>
    /\ Score.ok
    /\ results = [c \in board.codes |->
                    ScoredResult(board.type, board.line, c, Score.home, Score.away)]
    /\ credit = Credit(betStatusFromResult(results[pick]), slip.stake, payout)

VerdictInv == Chosen /\ DecidedByTheScore

-----------------------------------------------------------------------------
\* The verdict on an outcome is a result, whatever the market and the score.
LEMMA VerdictIsResult ==
  ASSUME NEW type, NEW line, NEW code, NEW home, NEW away
  PROVE  ScoredResult(type, line, code, home, away) \in Results
BY DEF ScoredResult, applyMLPlan, applyTotalsPlan, Results

\* parseScores accepts exactly the usable payloads and reads them as anyone does.
LEMMA ScoresAreRead ==
  ASSUME payload \in Payloads
  PROVE  /\ Reading["home"] \in Int /\ Reading["away"] \in Int
         /\ Score.ok <=> Usable
         /\ Score.ok => /\ Score.home = Reading["home"] /\ Score.away = Reading["away"]
                        /\ Score.home \in Nat /\ Score.away \in Nat
<1>1. /\ Reading["home"] = IF payload.home = NULL THEN 0 ELSE payload.home[1]
      /\ Reading["away"] = IF payload.away = NULL THEN 0 ELSE payload.away[1]
  BY DEF Reading
<1>2. Reading["home"] \in Int /\ Reading["away"] \in Int
  BY <1>1, VerdictConstantsOK
<1>3. CASE payload.kind = "object"
  BY <1>1, <1>2, <1>3 DEF Score, parseScores, OrZero, Usable
<1>4. CASE payload.kind # "object"
  <2>1. payload.home = NULL /\ payload.away = NULL
    BY <1>4, VerdictConstantsOK
  <2> QED
    BY <1>1, <1>4, <2>1 DEF Score, parseScores, Usable
<1> QED
  BY <1>2, <1>3, <1>4

-----------------------------------------------------------------------------
\* Nothing is decided at the beginning.
LEMMA InitVerdictInv == Init => VerdictInv
  BY DEF Init, VerdictInv, Chosen, DecidedByTheScore, Decided

\* Every run of the worker keeps the invariant, and decides exactly when the
\* payload is usable.
LEMMA StepVerdict ==
  ASSUME VerdictInv, [Next]_vars
  PROVE  VerdictInv' /\ [Decided' <=> Usable]_vars
<1>1. CASE ScoresUnavailable
  <2>1. VerdictInv'
    BY <1>1 DEF ScoresUnavailable, VerdictInv, Chosen, DecidedByTheScore, Decided, Undecided
  <2>2. ~Decided'
    BY <1>1 DEF ScoresUnavailable, Decided, Undecided
  <2>3. ~Usable
    BY <1>1, ScoresAreRead DEF ScoresUnavailable, VerdictInv, Chosen, Score
  <2> QED
    BY <2>1, <2>2, <2>3
<1>2. CASE Settle
  <2>1. Usable
    BY <1>2, ScoresAreRead DEF Settle, VerdictInv, Chosen, Score
  <2>2. pick \in board.codes /\ board' = board /\ pick' = pick /\ payload' = payload /\ slip' = slip
    BY <1>2 DEF Settle, VerdictInv, Chosen
  <2>3. results' = [c \in board.codes |->
                      ScoredResult(board.type, board.line, c, Score.home, Score.away)]
    BY <1>2 DEF Settle, Score
  <2>4. results'[pick] \in Results
    BY <2>2, <2>3, VerdictIsResult
  <2>5. Decided'
    BY <2>2, <2>4 DEF Decided, Undecided, Results
  <2>6. credit' = Credit(betStatusFromResult(results'[pick]), slip.stake, payout)
    BY <1>2 DEF Settle
  <2>7. VerdictInv'
    BY <1>2, <2>2, <2>3, <2>6 DEF Settle, Score, VerdictInv, Chosen, DecidedByTheScore, payout
  <2> QED
    BY <2>1, <2>5, <2>7
<1>3. CASE UNCHANGED vars
  BY <1>3 DEF vars, VerdictInv, Chosen, DecidedByTheScore, Decided, Undecided, Score, payout
<1> QED
  BY <1>1, <1>2, <1>3 DEF Next

-----------------------------------------------------------------------------
\* All winners of a decided market are one and the same outcome.
LEMMA OneWinner ==
  ASSUME VerdictInv, Decided
  PROVE  AtMostOneWinner
<1> DEFINE winner == IF board.type = "ML" THEN settleML(Score.home, Score.away)
                     ELSE IF board.line = NULL THEN "under"
                     ELSE IF settleTotals(Score.home, Score.away, board.line[1]).overWon
                            THEN "over" ELSE "under"
<1>1. results = [c \in board.codes |->
                   ScoredResult(board.type, board.line, c, Score.home, Score.away)]
  BY DEF VerdictInv, DecidedByTheScore
<1>2. Won \subseteq {winner}
  <2> SUFFICES ASSUME NEW c \in board.codes, results[c] = "won" PROVE c = winner
    BY DEF Won
  <2>1. ScoredResult(board.type, board.line, c, Score.home, Score.away) = "won"
    BY <1>1
  <2>2. CASE board.type = "ML"
    BY <2>1, <2>2 DEF ScoredResult, applyMLPlan
  <2>3. CASE board.type = "TOTALS"
    BY <2>1, <2>3 DEF ScoredResult, applyTotalsPlan
  <2>4. CASE board.type \notin {"ML", "TOTALS"}
    BY <2>1, <2>4 DEF ScoredResult
  <2> QED
    BY <2>2, <2>3, <2>4
<1>3. Cardinality(Won) <= 1
  <2> HIDE DEF winner
  <2>1. IsFiniteSet({winner}) /\ Cardinality({winner}) = 1
    BY FS_Singleton
  <2>2. Cardinality(Won) <= Cardinality({winner})
    BY <1>2, <2>1, FS_Subset
  <2>3. IsFiniteSet(Won)
    BY <1>2, <2>1, FS_Subset
  <2>4. Cardinality(Won) \in Nat
    BY <2>3, FS_CardinalityType
  <2> QED
    BY <2>1, <2>2, <2>4
<1>4. ASSUME {"home", "draw", "away"} \subseteq board.codes, board.type = "ML"
      PROVE  Won # {}
  <2>1. winner \in {"home", "draw", "away"}
    BY <1>4 DEF settleML
  <2>2. results[winner] = "won"
    BY <1>1, <1>4, <2>1 DEF ScoredResult, applyMLPlan
  <2> QED
    BY <1>4, <2>1, <2>2 DEF Won
<1> QED
  BY <1>3, <1>4 DEF AtMostOneWinner

\* Over, under and push follow the score for whole, half and quarter lines alike.
LEMMA LineSplits ==
  ASSUME VerdictInv, Decided
  PROVE  TotalsSplitAtTheLine
<1> SUFFICES ASSUME board.type = "TOTALS", board.line # NULL
             PROVE  LET goals == 100 * (Reading["home"] + Reading["away"])
                        line  == board.line[1]
                    IN  /\ "over"  \in Won <=> "over"  \in board.codes /\ goals > line
                        /\ "under" \in Won <=> "under" \in board.codes /\ goals < line
                        /\ goals = line => \A c \in board.codes : results[c] = "void"
  BY DEF TotalsSplitAtTheLine
<1> DEFINE goals == 100 * (Reading["home"] + Reading["away"])
           line  == board.line[1]
<1>1. line \in Int /\ goals \in Int
  BY ScoresAreRead, VerdictConstantsOK DEF VerdictInv, Chosen
<1>2. LET verdict == settleTotals(Score.home, Score.away, board.line[1])
      IN  verdict.overWon = (goals > line) /\ verdict.isPush = (goals = line)
  BY ScoresAreRead, SMT DEF settleTotals, VerdictInv, Chosen, DecidedByTheScore
<1> HIDE DEF goals, line
<1>3. \A c \in board.codes :
        results[c] = IF goals = line THEN "void"
                     ELSE IF c = (IF goals > line THEN "over" ELSE "under") THEN "won" ELSE "lost"
  <2> SUFFICES ASSUME NEW c \in board.codes
               PROVE  results[c] = IF goals = line THEN "void"
                        ELSE IF c = (IF goals > line THEN "over" ELSE "under") THEN "won" ELSE "lost"
    OBVIOUS
  <2>1. results[c] = applyTotalsPlan(c, Score.home, Score.away, board.line)
    BY DEF VerdictInv, DecidedByTheScore, ScoredResult
  <2> DEFINE verdict == settleTotals(Score.home, Score.away, board.line[1])
  <2>2. /\ verdict.isPush <=> goals = line
        /\ verdict.overWon <=> goals > line
    BY <1>2, Zenon
  <2>3. applyTotalsPlan(c, Score.home, Score.away, board.line) =
          IF verdict.isPush THEN "void"
          ELSE IF c = (IF verdict.overWon THEN "over" ELSE "under") THEN "won" ELSE "lost"
    <3> HIDE DEF verdict
    <3>1. (IF board.line = NULL THEN [overWon |-> FALSE, isPush |-> FALSE]
                                ELSE settleTotals(Score.home, Score.away, board.line[1])) = verdict
      BY DEF verdict
    <3> QED
      BY <3>1 DEF applyTotalsPlan
  <2> HIDE DEF verdict
  <2> QED
    BY <2>1, <2>2, <2>3
<1>4. /\ "over"  \in Won <=> "over"  \in board.codes /\ goals > line
      /\ "under" \in Won <=> "under" \in board.codes /\ goals < line
  BY <1>1, <1>3 DEF Won
<1> QED
  BY <1>3, <1>4 DEF goals, line

-----------------------------------------------------------------------------
\* computePotentialPayout rounds down to a whole fantic.
LEMMA PayoutIsFloor ==
  ASSUME NEW stake \in Nat, NEW odds \in Nat, odds > 1000
  PROVE  LET payoff == computePotentialPayout(stake, odds)
         IN  /\ payoff \in Nat
             /\ 1000 * payoff <= stake * odds
             /\ stake * odds < 1000 * (payoff + 1)
             /\ payoff >= stake
<1> DEFINE product == stake * odds
<1>1. product \in Nat
  OBVIOUS
<1>2. product >= 1000 * stake
  OBVIOUS
<1> HIDE DEF product
<1>3. /\ product \div 1000 \in Nat
      /\ 1000 * (product \div 1000) <= product
      /\ product < 1000 * ((product \div 1000) + 1)
  BY <1>1
<1>4. product \div 1000 >= stake
  BY <1>1, <1>2, <1>3
<1> QED
  BY <1>3, <1>4 DEF product, computePotentialPayout

\* The credit of a bet is the payout, the stake or nothing, as the result says.
LEMMA CreditFollows ==
  ASSUME VerdictInv, Decided
  PROVE  CreditIsExact
<1>1. slip.stake \in Nat /\ slip.odds \in Nat /\ slip.odds > 1000
  BY VerdictConstantsOK DEF VerdictInv, Chosen
<1>2. results[pick] \in Results
  BY VerdictIsResult DEF VerdictInv, Chosen, DecidedByTheScore
<1>3. credit = Credit(betStatusFromResult(results[pick]), slip.stake, payout)
  BY DEF VerdictInv, DecidedByTheScore
<1>4. CASE results[pick] = "won"
  <2>1. credit = computePotentialPayout(slip.stake, slip.odds)
    BY <1>3, <1>4 DEF Credit, betStatusFromResult, payout
  <2> QED
    BY <1>1, <1>4, <2>1, PayoutIsFloor DEF CreditIsExact
<1>5. CASE results[pick] = "void"
  BY <1>3, <1>5 DEF Credit, betStatusFromResult, CreditIsExact
<1>6. CASE results[pick] = "lost"
  BY <1>3, <1>6 DEF Credit, betStatusFromResult, CreditIsExact
<1> QED
  BY <1>2, <1>4, <1>5, <1>6 DEF Results

-----------------------------------------------------------------------------
\* MarketVerdict.WinnersFollowTheScore for every market, line and score.
THEOREM WinnersCorrect == Spec => []WinnersFollowTheScore
<1>1. VerdictInv => WinnersFollowTheScore
  BY OneWinner, LineSplits DEF WinnersFollowTheScore, AtMostOneWinner, TotalsSplitAtTheLine
<1>2. VerdictInv /\ [Next]_vars => VerdictInv'
  BY StepVerdict
<1> QED
  BY InitVerdictInv, <1>1, <1>2, PTL DEF Spec

\* MarketVerdict.CreditIsExact for every stake and all odds above 1: rounding
\* neither loses nor invents a fantic, and a winner gets at least the stake.
THEOREM CreditCorrect == Spec => []CreditIsExact
<1>1. VerdictInv => CreditIsExact
  BY CreditFollows DEF CreditIsExact
<1>2. VerdictInv /\ [Next]_vars => VerdictInv'
  BY StepVerdict
<1> QED
  BY InitVerdictInv, <1>1, <1>2, PTL DEF Spec

\* MarketVerdict.UsableScoresDecide for every payload: a market is decided
\* exactly when the scores can be read and are not negative.
THEOREM UsableScoresDecideAlways == Spec => UsableScoresDecide
<1>1. VerdictInv /\ [Next]_vars => VerdictInv'
  BY StepVerdict
<1>2. VerdictInv /\ [Next]_vars => [Decided' <=> Usable]_vars
  BY StepVerdict
<1> QED
  BY InitVerdictInv, <1>1, <1>2, PTL DEF Spec, UsableScoresDecide

-----------------------------------------------------------------------------
\* The loops of the code as FoldLeft unfolds: w is the table of the best line of
\* each part of the list.
MLWalk(lines, w) ==
  w = [s \in SUBSET (DOMAIN [i \in 1..Len(lines) |-> i]) |->
         IF s = {} THEN 0
         ELSE LET i == [j \in 1..Len(lines) |-> j][Last(s)]
                  best == w[Rest(s)]
              IN  IF best = 0 /\ Quotes!parseOdds(lines[i].home) /\ Quotes!parseOdds(lines[i].away)
                    THEN i ELSE best]

TotalsWalk(lines, w) ==
  w = [s \in SUBSET (DOMAIN [i \in 1..Len(lines) |-> i]) |->
         IF s = {} THEN 0
         ELSE LET i == [j \in 1..Len(lines) |-> j][Last(s)]
                  best == w[Rest(s)]
              IN  IF /\ Quotes!UsableTotals(lines[i])
                     /\ best = 0 \/ Quotes!Cost(lines[i]) < Quotes!Cost(lines[best])
                    THEN i ELSE best]

\* Both loops are read off their tables.
LEMMA Loops ==
  ASSUME NEW lines
  PROVE  /\ Quotes!pickMLLine(lines) =
              (CHOOSE w : MLWalk(lines, w))[DOMAIN [i \in 1..Len(lines) |-> i]]
         /\ Quotes!pickMainTotalsLine(lines) =
              (CHOOSE w : TotalsWalk(lines, w))[DOMAIN [i \in 1..Len(lines) |-> i]]
BY Zenon DEF Quotes!pickMLLine, Quotes!pickMainTotalsLine, Quotes!FoldLeft, Quotes!MapThenFoldSet,
             Quotes!Max, MLWalk, TotalsWalk, Last, Rest

-----------------------------------------------------------------------------
\* The lines of an offer a market can be priced by.
BothQuoted(lines) ==
  {i \in 1..Len(lines) : Quotes!parseOdds(lines[i].home) /\ Quotes!parseOdds(lines[i].away)}

\* pickMLLine finds a line with both sides if there is one.
LEMMA pickMLLineFinds ==
  ASSUME NEW lines, Len(lines) \in Nat
  PROVE  IF BothQuoted(lines) = {} THEN Quotes!pickMLLine(lines) = 0
                                   ELSE Quotes!pickMLLine(lines) \in BothQuoted(lines)
<1>0. PICK n \in Nat : n = Len(lines)
  OBVIOUS
<1> DEFINE D == DOMAIN [i \in 1..Len(lines) |-> i]
<1>1. D = 1..n /\ \A i \in 1..n : [j \in 1..Len(lines) |-> j][i] = i
  BY <1>0
<1>2. PICK G \in SUBSET (1..n) : G = BothQuoted(lines)
  BY <1>0 DEF BothQuoted
<1>3. \A i \in 1..n : i \in G <=> Quotes!parseOdds(lines[i].home) /\ Quotes!parseOdds(lines[i].away)
  BY <1>0, <1>2 DEF BothQuoted
<1>4. PICK free \in [1..n -> Int] : \A i \in 1..n : free[i] = 0
  <2>1. [i \in 1..n |-> 0] \in [1..n -> Int] /\ \A i \in 1..n : [j \in 1..n |-> 0][i] = 0
    OBVIOUS
  <2> QED
    BY <2>1
<1>5. ASSUME NEW s \in SUBSET (1..n), s # {}, NEW best, best = Pick(G, free, Rest(s))
      PROVE  /\ Last(s) \in 1..n
             /\ Better(G, free, Last(s), best) =
                  IF /\ best = 0
                     /\ Quotes!parseOdds(lines[Last(s)].home)
                     /\ Quotes!parseOdds(lines[Last(s)].away)
                    THEN Last(s) ELSE best
  <2>1. Last(s) \in 1..n /\ best \in G \cup {0}
    BY <1>5, PickNext
  <2>2. best # 0 => ~(free[Last(s)] < free[best])
    BY <1>4, <2>1
  <2> QED
    BY <1>3, <2>1, <2>2 DEF Better
<1> DEFINE t == [s \in SUBSET D |-> Pick(G, free, s)]
<1> HIDE DEF D
<1>6. MLWalk(lines, t)
  <2>1. ASSUME NEW s \in SUBSET D, s # {}
        PROVE  Pick(G, free, s) =
                 LET i == [j \in 1..Len(lines) |-> j][Last(s)]
                     best == t[Rest(s)]
                 IN  IF best = 0 /\ Quotes!parseOdds(lines[i].home) /\ Quotes!parseOdds(lines[i].away)
                       THEN i ELSE best
    <3>1. Rest(s) \in SUBSET D /\ Pick(G, free, s) = Better(G, free, Last(s), Pick(G, free, Rest(s)))
      BY <1>1, <2>1, PickNext
    <3>2. t[Rest(s)] = Pick(G, free, Rest(s))
      BY <3>1
    <3> HIDE DEF t
    <3> QED
      BY <1>1, <1>5, <2>1, <3>1, <3>2
  <2>2. Pick(G, free, {}) = 0
    BY DEF Pick
  <2>3. PICK v : v = t
    OBVIOUS
  <2>4. \A s \in SUBSET D :
          Pick(G, free, s) =
            IF s = {} THEN 0
            ELSE LET i == [j \in 1..Len(lines) |-> j][Last(s)]
                     best == v[Rest(s)]
                 IN  IF best = 0 /\ Quotes!parseOdds(lines[i].home) /\ Quotes!parseOdds(lines[i].away)
                       THEN i ELSE best
    <3> HIDE DEF t
    <3> QED
      BY <2>1, <2>2, <2>3
  <2>5. MLWalk(lines, v)
    BY <2>3, <2>4 DEF MLWalk, D
  <2> QED
    BY <2>3, <2>5
<1> HIDE DEF t
<1>7. PICK w : w = (CHOOSE x : MLWalk(lines, x)) /\ MLWalk(lines, w)
  BY <1>6, Zenon
<1>8. \A s \in SUBSET (1..n) :
        w[s] = IF s = {} THEN 0
               ELSE LET i == [j \in 1..Len(lines) |-> j][Last(s)]
                        best == w[Rest(s)]
                    IN  IF best = 0 /\ Quotes!parseOdds(lines[i].home) /\ Quotes!parseOdds(lines[i].away)
                          THEN i ELSE best
  BY <1>1, <1>7 DEF MLWalk, D
<1>9. \A s \in SUBSET (1..n) : w[s] = Pick(G, free, s)
  <2>1. w[{}] = 0
    BY <1>8
  <2>2. ASSUME NEW s \in SUBSET (1..n), s # {}, w[Rest(s)] = Pick(G, free, Rest(s))
        PROVE  w[s] = Better(G, free, Last(s), Pick(G, free, Rest(s)))
    BY <1>1, <1>5, <1>8, <2>2
  <2>3. Walks(n, G, free, w)
    BY <2>1, <2>2 DEF Walks
  <2> QED
    BY <1>2, <1>4, <2>3, TableOfPicks
<1>10. Quotes!pickMLLine(lines) = Pick(G, free, 1..n)
  BY <1>1, <1>7, <1>9, Loops DEF D
<1>11. IF G = {} THEN Pick(G, free, 1..n) = 0 ELSE Pick(G, free, 1..n) \in G
  <2>1. (1..n) \cap G = G
    OBVIOUS
  <2>2. IF G = {} THEN Pick(G, free, 1..n) = 0 ELSE Cheapest(G, free, 1..n, Pick(G, free, 1..n))
    BY <2>1, CheapestExists
  <2> QED
    BY <2>2 DEF Cheapest
<1> QED
  BY <1>2, <1>10, <1>11

\* The quotes of these lines are numbers.
Numeric(lines) ==
  \A i \in 1..Len(lines) : \A raw \in {lines[i].over, lines[i].under} : raw # <<>> => raw[1] \in Int

\* The distance of a usable line is a number.
LEMMA CostIsNumber ==
  ASSUME NEW lines, Numeric(lines), NEW i \in 1..Len(lines), Quotes!UsableTotals(lines[i])
  PROVE  Quotes!Cost(lines[i]) \in Int
<1>1. lines[i].over[1] \in Int /\ lines[i].under[1] \in Int
  BY DEF Numeric, Quotes!UsableTotals, Quotes!parseOdds
<1>2. \A a \in Int : Quotes!Distance(a, Quotes!totalsTarget) \in Int
  BY DEF Quotes!Distance, Quotes!totalsTarget
<1>3. PICK a \in Int, b \in Int : a = Quotes!Distance(lines[i].over[1], Quotes!totalsTarget)
                               /\ b = Quotes!Distance(lines[i].under[1], Quotes!totalsTarget)
  BY <1>1, <1>2
<1> QED
  BY <1>3 DEF Quotes!Cost

\* pickMainTotalsLine finds the main line, the only one, if any line is usable.
LEMMA pickMainTotalsLineFinds ==
  ASSUME NEW lines, Len(lines) \in Nat, DOMAIN lines = 1..Len(lines), Numeric(lines)
  PROVE  IF Quotes!Quoted(lines) = {} THEN Quotes!pickMainTotalsLine(lines) = 0
         ELSE /\ Quotes!pickMainTotalsLine(lines) \in Quotes!Quoted(lines)
              /\ \A i \in 1..Len(lines) :
                   Quotes!IsMain(lines, i) => i = Quotes!pickMainTotalsLine(lines)
<1>0. PICK n \in Nat : n = Len(lines)
  OBVIOUS
<1> DEFINE D == DOMAIN [i \in 1..Len(lines) |-> i]
<1>1. D = 1..n /\ \A i \in 1..n : [j \in 1..Len(lines) |-> j][i] = i
  BY <1>0
<1>2. PICK G \in SUBSET (1..n) : G = Quotes!Quoted(lines)
  BY <1>0 DEF Quotes!Quoted
<1>3. \A i \in 1..n : i \in G <=> Quotes!UsableTotals(lines[i])
  BY <1>0, <1>2 DEF Quotes!Quoted
<1>4. PICK cost \in [1..n -> Int] : \A i \in G : cost[i] = Quotes!Cost(lines[i])
  <2>1. \A i \in G : Quotes!Cost(lines[i]) \in Int
    BY <1>0, <1>2, <1>3, CostIsNumber
  <2> DEFINE f == [i \in 1..n |-> IF i \in G THEN Quotes!Cost(lines[i]) ELSE 0]
  <2>2. f \in [1..n -> Int] /\ \A i \in G : f[i] = Quotes!Cost(lines[i])
    BY <1>2, <2>1
  <2> QED
    BY <2>2
<1>5. ASSUME NEW s \in SUBSET (1..n), s # {}, NEW best, best = Pick(G, cost, Rest(s))
      PROVE  /\ Last(s) \in 1..n
             /\ Better(G, cost, Last(s), best) =
                  IF /\ Quotes!UsableTotals(lines[Last(s)])
                     /\ best = 0 \/ Quotes!Cost(lines[Last(s)]) < Quotes!Cost(lines[best])
                    THEN Last(s) ELSE best
  <2>1. Last(s) \in 1..n /\ best \in G \cup {0}
    BY <1>2, <1>4, <1>5, PickNext
  <2>2. Last(s) \in G => cost[Last(s)] = Quotes!Cost(lines[Last(s)])
    BY <1>4
  <2>3. best # 0 => cost[best] = Quotes!Cost(lines[best])
    BY <1>4, <2>1
  <2> QED
    BY <1>3, <2>1, <2>2, <2>3 DEF Better
<1> DEFINE t == [s \in SUBSET D |-> Pick(G, cost, s)]
<1> HIDE DEF D
<1>6. TotalsWalk(lines, t)
  <2>1. ASSUME NEW s \in SUBSET D, s # {}
        PROVE  Pick(G, cost, s) =
                 LET i == [j \in 1..Len(lines) |-> j][Last(s)]
                     best == t[Rest(s)]
                 IN  IF /\ Quotes!UsableTotals(lines[i])
                        /\ best = 0 \/ Quotes!Cost(lines[i]) < Quotes!Cost(lines[best])
                       THEN i ELSE best
    <3>1. Rest(s) \in SUBSET D /\ Pick(G, cost, s) = Better(G, cost, Last(s), Pick(G, cost, Rest(s)))
      <4>1. s \in SUBSET (1..n)
        BY <1>1
      <4>2. /\ Rest(s) \in SUBSET (1..n)
            /\ Pick(G, cost, s) = Better(G, cost, Last(s), Pick(G, cost, Rest(s)))
        BY <1>2, <1>4, <2>1, <4>1, PickNext
      <4> QED
        BY <1>1, <4>2
    <3>2. t[Rest(s)] = Pick(G, cost, Rest(s))
      BY <3>1
    <3> HIDE DEF t
    <3> QED
      BY <1>1, <1>5, <2>1, <3>1, <3>2
  <2>2. Pick(G, cost, {}) = 0
    BY DEF Pick
  <2>3. PICK v : v = t
    OBVIOUS
  <2>4. \A s \in SUBSET D :
          Pick(G, cost, s) =
            IF s = {} THEN 0
            ELSE LET i == [j \in 1..Len(lines) |-> j][Last(s)]
                     best == v[Rest(s)]
                 IN  IF /\ Quotes!UsableTotals(lines[i])
                        /\ best = 0 \/ Quotes!Cost(lines[i]) < Quotes!Cost(lines[best])
                       THEN i ELSE best
    <3> HIDE DEF t
    <3> QED
      BY <2>1, <2>2, <2>3
  <2>5. TotalsWalk(lines, v)
    BY <2>3, <2>4 DEF TotalsWalk, D
  <2> QED
    BY <2>3, <2>5
<1> HIDE DEF t
<1>7. PICK w : w = (CHOOSE x : TotalsWalk(lines, x)) /\ TotalsWalk(lines, w)
  BY <1>6, Zenon
<1>8. \A s \in SUBSET (1..n) :
        w[s] = IF s = {} THEN 0
               ELSE LET i == [j \in 1..Len(lines) |-> j][Last(s)]
                        best == w[Rest(s)]
                    IN  IF /\ Quotes!UsableTotals(lines[i])
                           /\ best = 0 \/ Quotes!Cost(lines[i]) < Quotes!Cost(lines[best])
                          THEN i ELSE best
  BY <1>1, <1>7, ZenonT(60) DEF TotalsWalk, D
<1>9. \A s \in SUBSET (1..n) : w[s] = Pick(G, cost, s)
  <2>1. w[{}] = 0
    BY <1>8
  <2>2. ASSUME NEW s \in SUBSET (1..n), s # {}, w[Rest(s)] = Pick(G, cost, Rest(s))
        PROVE  w[s] = Better(G, cost, Last(s), Pick(G, cost, Rest(s)))
    BY <1>1, <1>5, <1>8, <2>2
  <2>3. Walks(n, G, cost, w)
    BY <2>1, <2>2 DEF Walks
  <2> QED
    BY <1>2, <1>4, <2>3, TableOfPicks
<1>10. PICK p : p = Pick(G, cost, 1..n) /\ p = Quotes!pickMainTotalsLine(lines)
  BY <1>1, <1>7, <1>9, Loops DEF D
<1>11. IF G = {} THEN p = 0 ELSE Cheapest(G, cost, 1..n, p)
  <2>1. PICK all : all = 1..n /\ all \in SUBSET (1..n) /\ all \cap G = G
    BY <1>2
  <2>2. \A s \in SUBSET (1..n) :
          IF s \cap G = {} THEN Pick(G, cost, s) = 0 ELSE Cheapest(G, cost, s, Pick(G, cost, s))
    BY <1>2, <1>4, CheapestExists
  <2>3. IF all \cap G = {} THEN Pick(G, cost, all) = 0 ELSE Cheapest(G, cost, all, Pick(G, cost, all))
    BY <2>1, <2>2
  <2> QED
    BY <1>10, <2>1, <2>3
<1>12. ASSUME NEW i \in 1..n, Quotes!IsMain(lines, i) PROVE i = p
  <2>1. i \in G /\ \A j \in G : Quotes!Cost(lines[i]) <= Quotes!Cost(lines[j])
                             /\ (j < i => Quotes!Cost(lines[i]) < Quotes!Cost(lines[j]))
    BY <1>2, <1>12 DEF Quotes!IsMain
  <2>2. \A j \in G : cost[i] <= cost[j] /\ (j < i => cost[i] < cost[j])
    BY <1>4, <2>1
  <2>3. \A j \in G : cost[j] \in Int /\ j \in 1..n
    BY <1>4
  <2>4. Cheapest(G, cost, 1..n, i)
    BY <1>4, <2>1, <2>2, <2>3 DEF Cheapest
  <2> QED
    BY <1>2, <1>4, <1>10, <2>4, OneCheapest
<1>13. G # {} => p \in G
  BY <1>11 DEF Cheapest
<1> QED
  BY <1>0, <1>2, <1>10, <1>11, <1>12, <1>13

-----------------------------------------------------------------------------
\* The offer of an answer that a market is priced by, if there is one.
Offer(a, t) == Quotes!findMarket(a, IF t = "ML" THEN Quotes!isMLName ELSE Quotes!isTotalsName)

Lines(a, t) == Offer(a, t)[1].lines

\* The line it is priced by, 0 if it is to be suspended.
Best(a, t) ==
  IF Offer(a, t) = <<>> THEN 0
  ELSE IF t = "ML" THEN Quotes!pickMLLine(Lines(a, t)) ELSE Quotes!pickMainTotalsLine(Lines(a, t))

BestLine(a, t) == Lines(a, t)[Best(a, t)]

Want(a, t) == IF Best(a, t) = 0 THEN "suspended" ELSE "open"

Raw(l, c) == CASE c = "home"  -> l.home
               [] c = "draw"  -> l.draw
               [] c = "away"  -> l.away
               [] c = "over"  -> l.over
               [] c = "under" -> l.under

Price(a, t, c) == Raw(BestLine(a, t), c)[1]

Offered(a, t) ==
  IF t = "ML" THEN {c \in {"home", "draw", "away"} : Quotes!parseOdds(Raw(BestLine(a, t), c))}
              ELSE {"over", "under"}

\* What a run may say of a market of its match.
Statements(a, t) ==
  {Quotes!SetStatus(t, Want(a, t))}
  \cup (IF Best(a, t) = 0 THEN {} ELSE {Quotes!Upsert(t, c, Price(a, t, c)) : c \in Offered(a, t)})
  \cup (IF Best(a, t) = 0 \/ t = "ML" THEN {} ELSE {Quotes!SetLine(BestLine(a, t).hdp)})

\* The first offer with one of the names is one of the answer's.
LEMMA findMarketFinds ==
  ASSUME Quotes!AnswersOK, NEW a \in Answers, NEW names
  PROVE  \/ Quotes!findMarket(a, names) = <<>>
         \/ /\ a # <<>>
            /\ \E o \in Quotes!Range(a[1]) : o.name \in names /\ Quotes!findMarket(a, names) = <<o>>
<1>1. CASE a = <<>>
  BY <1>1 DEF Quotes!findMarket
<1>2. CASE a # <<>>
  <2>1. PICK n \in Nat : DOMAIN a[1] = 1..n
    <3>1. a[1] \in Seq(Quotes!Range(a[1]))
      BY <1>2 DEF Quotes!AnswersOK
    <3>2. Len(a[1]) \in Nat /\ DOMAIN a[1] = 1..Len(a[1])
      BY <3>1
    <3> QED
      BY <3>2
  <2>2. PICK found \in SUBSET (1..n) : found = {i \in DOMAIN a[1] : a[1][i].name \in names}
    BY <2>1
  <2>3. Quotes!findMarket(a, names) = IF found = {} THEN <<>> ELSE <<a[1][Quotes!Min(found)]>>
    BY <1>2, <2>2 DEF Quotes!findMarket
  <2>4. found # {} => Quotes!Min(found) \in found
    <3> SUFFICES ASSUME found # {} PROVE Quotes!Min(found) \in found
      OBVIOUS
    <3>1. PICK free \in [1..n -> Int] : \A i \in 1..n : free[i] = 0
      <4>1. [i \in 1..n |-> 0] \in [1..n -> Int] /\ \A i \in 1..n : [j \in 1..n |-> 0][i] = 0
        OBVIOUS
      <4> QED
        BY <4>1
    <3>2. \A s \in SUBSET (1..n) :
            IF s \cap found = {} THEN Pick(found, free, s) = 0 ELSE Cheapest(found, free, s, Pick(found, free, s))
      BY <2>2, <3>1, CheapestExists
    <3>3. found \cap found # {}
      OBVIOUS
    <3>4. Cheapest(found, free, found, Pick(found, free, found))
      BY <2>2, <3>2, <3>3
    <3>5. \E i \in found : \A j \in found : i <= j
      <4>1. PICK i : i = Pick(found, free, found)
        OBVIOUS
      <4>2. i \in found /\ \A j \in found : free[i] < free[j] \/ (free[i] = free[j] /\ i <= j)
        BY <3>4, <4>1 DEF Cheapest
      <4>3. \A j \in found : free[j] = 0
        BY <3>1
      <4> QED
        BY <4>2, <4>3
    <3> QED
      BY <3>5 DEF Quotes!Min
  <2> QED
    BY <1>2, <2>2, <2>3, <2>4 DEF Quotes!Range
<1> QED
  BY <1>1, <1>2

\* The lines of an offer are a list, and its quotes are numbers.
LEMMA OffersAreLists ==
  ASSUME Quotes!AnswersOK, NEW a \in Answers, NEW t \in Quotes!Types, Offer(a, t) # <<>>
  PROVE  \E o : /\ Offer(a, t) = <<o>> /\ Lines(a, t) = o.lines
                /\ Len(o.lines) \in Nat /\ DOMAIN o.lines = 1..Len(o.lines)
                /\ \A i \in 1..Len(o.lines) :
                     \A c \in IF t = "ML" THEN {"home", "draw", "away"} ELSE {"over", "under"} :
                       Raw(o.lines[i], c) # <<>> => Raw(o.lines[i], c)[1] \in Int
<1>1. PICK o : /\ a # <<>> /\ o \in Quotes!Range(a[1]) /\ Offer(a, t) = <<o>>
               /\ o.name \in IF t = "ML" THEN Quotes!isMLName ELSE Quotes!isTotalsName
  BY findMarketFinds DEF Offer
<1>2. o.lines \in Seq(Quotes!Range(o.lines))
  BY <1>1 DEF Quotes!AnswersOK
<1>3. Len(o.lines) \in Nat /\ DOMAIN o.lines = 1..Len(o.lines)
  BY <1>2
<1>4. \A i \in 1..Len(o.lines) : o.lines[i] \in Quotes!Range(o.lines)
  BY <1>3 DEF Quotes!Range
<1>5. ASSUME NEW l \in Quotes!Range(o.lines),
             NEW c \in IF t = "ML" THEN {"home", "draw", "away"} ELSE {"over", "under"}, Raw(l, c) # <<>>
      PROVE  Raw(l, c)[1] \in Int
  <2>1. CASE t = "ML"
    <3>1. Quotes!Numbers({l.home, l.draw, l.away})
      BY <1>1, <2>1 DEF Quotes!AnswersOK
    <3> QED
      BY <1>5, <2>1, <3>1 DEF Raw, Quotes!Numbers
  <2>2. CASE t # "ML"
    <3>1. Quotes!Numbers({l.over, l.under})
      BY <1>1, <2>2 DEF Quotes!AnswersOK
    <3> QED
      BY <1>5, <2>2, <3>1 DEF Raw, Quotes!Numbers
  <2> QED
    BY <2>1, <2>2
<1> QED
  BY <1>1, <1>3, <1>4, <1>5 DEF Lines

\* The line a market is priced by is quoted on both sides, and there is one if
\* any line is; of the totals it is the main line.
LEMMA BestIsQuoted ==
  ASSUME Quotes!AnswersOK, NEW a \in Answers, NEW t \in Quotes!Types
  PROVE  /\ Best(a, t) # 0 =>
              /\ Offer(a, t) # <<>>
              /\ Best(a, t) \in DOMAIN Lines(a, t)
              /\ t = "ML" => /\ Quotes!parseOdds(BestLine(a, t).home)
                             /\ Quotes!parseOdds(BestLine(a, t).away)
              /\ t = "TOTALS" => Quotes!UsableTotals(BestLine(a, t))
              /\ \A c \in Offered(a, t) : Price(a, t, c) \in Int /\ Price(a, t, c) > 10000
         /\ Offer(a, t) # <<>> => \A i \in DOMAIN Lines(a, t) :
              /\ t = "ML" /\ Quotes!parseOdds(Lines(a, t)[i].home)
                 /\ Quotes!parseOdds(Lines(a, t)[i].away) => Best(a, t) # 0
              /\ t = "TOTALS" /\ Quotes!UsableTotals(Lines(a, t)[i]) => Best(a, t) # 0
              /\ t = "TOTALS" /\ Quotes!IsMain(Lines(a, t), i) => i = Best(a, t)
<1>1. CASE Offer(a, t) = <<>>
  BY <1>1 DEF Best
<1>2. CASE Offer(a, t) # <<>>
  <2>1. PICK o : /\ Offer(a, t) = <<o>> /\ Lines(a, t) = o.lines
                 /\ Len(o.lines) \in Nat /\ DOMAIN o.lines = 1..Len(o.lines)
                 /\ \A i \in 1..Len(o.lines) :
                     \A c \in IF t = "ML" THEN {"home", "draw", "away"} ELSE {"over", "under"} :
                       Raw(o.lines[i], c) # <<>> => Raw(o.lines[i], c)[1] \in Int
    BY <1>2, OffersAreLists
  <2>2. PICK lines : lines = Lines(a, t) /\ lines = o.lines
    BY <2>1
  <2>3. PICK best : best = Best(a, t)
    OBVIOUS
  <2>4. CASE t = "ML"
    <3>1. IF BothQuoted(lines) = {} THEN best = 0 ELSE best \in BothQuoted(lines)
      BY <1>2, <2>1, <2>2, <2>3, <2>4, pickMLLineFinds DEF Best
    <3>2. 0 \notin BothQuoted(lines)
      BY <2>1, <2>2 DEF BothQuoted
    <3>3. best # 0 => /\ best \in DOMAIN lines
                      /\ Quotes!parseOdds(lines[best].home) /\ Quotes!parseOdds(lines[best].away)
      BY <2>1, <2>2, <3>1 DEF BothQuoted
    <3>4. \A i \in DOMAIN lines :
            Quotes!parseOdds(lines[i].home) /\ Quotes!parseOdds(lines[i].away) => best # 0
      BY <2>1, <2>2, <3>1, <3>2 DEF BothQuoted
    <3>5. ASSUME best # 0, NEW c \in Offered(a, t)
          PROVE  Price(a, t, c) \in Int /\ Price(a, t, c) > 10000
      <4>1. c \in {"home", "draw", "away"} /\ Quotes!parseOdds(Raw(lines[best], c))
        BY <2>2, <2>3, <2>4 DEF Offered, BestLine
      <4>2. Raw(lines[best], c)[1] \in Int /\ Raw(lines[best], c)[1] > 10000
        BY <2>1, <2>2, <2>4, <3>3, <3>5, <4>1 DEF Quotes!parseOdds
      <4> QED
        BY <2>2, <2>3, <4>2 DEF Price, BestLine
    <3> QED
      BY <1>2, <2>2, <2>3, <2>4, <3>3, <3>4, <3>5 DEF BestLine
  <2>5. CASE t = "TOTALS"
    <3>1. Numeric(lines)
      BY <2>1, <2>2, <2>5 DEF Numeric, Raw
    <3>2. IF Quotes!Quoted(lines) = {} THEN best = 0
          ELSE /\ best \in Quotes!Quoted(lines)
               /\ \A i \in 1..Len(lines) : Quotes!IsMain(lines, i) => i = best
      BY <1>2, <2>1, <2>2, <2>3, <2>5, <3>1, pickMainTotalsLineFinds DEF Best
    <3>3. best # 0 => best \in DOMAIN lines /\ Quotes!UsableTotals(lines[best])
      BY <3>2 DEF Quotes!Quoted
    <3>4. \A i \in DOMAIN lines : /\ Quotes!UsableTotals(lines[i]) => best # 0
                                  /\ Quotes!IsMain(lines, i) => i = best
      BY <2>1, <2>2, <3>2 DEF Quotes!Quoted, Quotes!IsMain
    <3>5. ASSUME best # 0, NEW c \in Offered(a, t)
          PROVE  Price(a, t, c) \in Int /\ Price(a, t, c) > 10000
      <4>1. c \in {"over", "under"}
        BY <2>5 DEF Offered
      <4>2. Quotes!parseOdds(Raw(lines[best], c))
        BY <3>3, <3>5, <4>1 DEF Quotes!UsableTotals, Raw
      <4>3. Raw(lines[best], c)[1] \in Int /\ Raw(lines[best], c)[1] > 10000
        BY <2>1, <2>2, <2>5, <3>3, <3>5, <4>1, <4>2, SMTT(30) DEF Quotes!parseOdds
      <4> QED
        BY <2>2, <2>3, <4>3 DEF Price, BestLine
    <3> QED
      BY <1>2, <2>2, <2>3, <2>5, <3>3, <3>4, <3>5 DEF BestLine
  <2> QED
    BY <2>4, <2>5 DEF Quotes!Types
<1> QED
  BY <1>1, <1>2

Says(list, s) == \E i \in 1..Len(list) : list[i] = s

\* Before it prices the totals the list sets their line.
LineFirst(list) ==
  \A i \in 1..Len(list) :
    list[i].op = "upsert" /\ list[i].market = "TOTALS" => \E j \in 1..(i - 1) : list[j].op = "line"

\* A list of some of the statements is one of all of them.
LEMMA SeqGrows ==
  ASSUME NEW S, NEW T, S \subseteq T, NEW x \in Seq(S)
  PROVE  x \in Seq(T)
OBVIOUS

\* A joined list says what its parts say.
LEMMA Joined ==
  ASSUME NEW S, NEW x \in Seq(S), NEW y \in Seq(S), NEW z, z = x \o y
  PROVE  /\ z \in Seq(S)
         /\ \A s : Says(x, s) \/ Says(y, s) => Says(z, s)
         /\ \A i \in 1..Len(x) : i \in 1..Len(z) /\ z[i] = x[i]
<1>1. /\ z \in Seq(S) /\ Len(z) = Len(x) + Len(y)
      /\ Len(x) \in Nat /\ Len(y) \in Nat
      /\ \A i \in 1..Len(x) : z[i] = x[i]
      /\ \A i \in 1..Len(y) : z[Len(x) + i] = y[i]
  OBVIOUS
<1>2. ASSUME NEW s, Says(x, s) PROVE Says(z, s)
  <2>1. PICK i \in 1..Len(x) : x[i] = s
    BY <1>2 DEF Says
  <2>2. i \in 1..Len(z) /\ z[i] = s
    BY <1>1, <2>1
  <2> QED
    BY <2>2 DEF Says
<1>3. ASSUME NEW s, Says(y, s) PROVE Says(z, s)
  <2>1. PICK i \in 1..Len(y) : y[i] = s
    BY <1>3 DEF Says
  <2>2. Len(x) + i \in 1..Len(z) /\ z[Len(x) + i] = s
    BY <1>1, <2>1
  <2> QED
    BY <2>2 DEF Says
<1> QED
  BY <1>1, <1>2, <1>3

\* ensureStatus says the status if it is not the row's.
LEMMA StatusSaid ==
  ASSUME NEW t, NEW row, NEW want, NEW S, Quotes!SetStatus(t, want) \in S
  PROVE  /\ Quotes!ensureStatus(t, row, want) \in Seq(S)
         /\ row.status # want => Says(Quotes!ensureStatus(t, row, want), Quotes!SetStatus(t, want))
<1>1. CASE row.status = want
  BY <1>1 DEF Quotes!ensureStatus
<1>2. CASE row.status # want
  <2>1. PICK s \in S : s = Quotes!SetStatus(t, want)
    OBVIOUS
  <2>2. Quotes!ensureStatus(t, row, want) = <<s>>
    BY <1>2, <2>1 DEF Quotes!ensureStatus
  <2>3. <<s>> \in Seq(S) /\ Len(<<s>>) = 1 /\ <<s>>[1] = s
    BY <2>1
  <2> QED
    BY <2>1, <2>2, <2>3 DEF Says
<1> QED
  BY <1>1, <1>2

\* upsertIfQuoted says the price of a quoted side.
LEMMA PriceSaid ==
  ASSUME NEW t, NEW c, NEW raw, NEW S,
         Quotes!parseOdds(raw) => Quotes!Upsert(t, c, raw[1]) \in S
  PROVE  /\ Quotes!upsertIfQuoted(t, c, raw) \in Seq(S)
         /\ Quotes!parseOdds(raw) =>
              Says(Quotes!upsertIfQuoted(t, c, raw), Quotes!Upsert(t, c, raw[1]))
<1>1. CASE ~Quotes!parseOdds(raw)
  BY <1>1 DEF Quotes!upsertIfQuoted
<1>2. CASE Quotes!parseOdds(raw)
  <2>1. PICK s \in S : s = Quotes!Upsert(t, c, raw[1])
    BY <1>2
  <2>2. Quotes!upsertIfQuoted(t, c, raw) = <<s>>
    BY <1>2, <2>1 DEF Quotes!upsertIfQuoted
  <2>3. <<s>> \in Seq(S) /\ Len(<<s>>) = 1 /\ <<s>>[1] = s
    BY <2>1
  <2> QED
    BY <2>1, <2>2, <2>3 DEF Says
<1> QED
  BY <1>1, <1>2

\* The statements for the winner market.
LEMMA WinnerList ==
  ASSUME NEW a, NEW row, Offer(a, "ML") # <<>>,
         Best(a, "ML") # 0 => /\ Quotes!parseOdds(BestLine(a, "ML").home)
                              /\ Quotes!parseOdds(BestLine(a, "ML").away)
  PROVE  /\ Quotes!applyML(row, Lines(a, "ML")) \in Seq(Statements(a, "ML"))
         /\ row.status # Want(a, "ML") =>
              Says(Quotes!applyML(row, Lines(a, "ML")), Quotes!SetStatus("ML", Want(a, "ML")))
         /\ Best(a, "ML") # 0 => \A c \in {"home", "away"} :
              Says(Quotes!applyML(row, Lines(a, "ML")), Quotes!Upsert("ML", c, Price(a, "ML", c)))
<1>1. PICK best : best = Best(a, "ML") /\ best = Quotes!pickMLLine(Lines(a, "ML"))
  BY DEF Best
<1>2. PICK S : S = Statements(a, "ML")
  OBVIOUS
<1>3. CASE best = 0
  <2>1. /\ Quotes!applyML(row, Lines(a, "ML")) = Quotes!ensureStatus("ML", row, "suspended")
        /\ Want(a, "ML") = "suspended"
    BY <1>1, <1>3 DEF Quotes!applyML, Want
  <2>2. Quotes!SetStatus("ML", "suspended") \in S
    BY <1>2, <2>1 DEF Statements
  <2>3. Quotes!ensureStatus("ML", row, "suspended") \in Seq(S)
    BY <2>2, StatusSaid
  <2>4. row.status # "suspended" =>
          Says(Quotes!ensureStatus("ML", row, "suspended"), Quotes!SetStatus("ML", "suspended"))
    BY <2>2, StatusSaid
  <2> QED
    BY <1>1, <1>2, <1>3, <2>1, <2>3, <2>4
<1>4. CASE best # 0
  <2>1. PICK l : l = BestLine(a, "ML") /\ l = Lines(a, "ML")[best]
    BY <1>1 DEF BestLine
  <2>2. PICK h, d, v, e :
          /\ h = Quotes!upsertIfQuoted("ML", "home", l.home)
          /\ d = Quotes!upsertIfQuoted("ML", "draw", l.draw)
          /\ v = Quotes!upsertIfQuoted("ML", "away", l.away)
          /\ e = Quotes!ensureStatus("ML", row, "open")
    OBVIOUS
  <2>3. Quotes!applyML(row, Lines(a, "ML")) = h \o d \o v \o e
    BY <1>1, <1>4, <2>1, <2>2 DEF Quotes!applyML
  <2>4. Want(a, "ML") = "open"
    BY <1>1, <1>4 DEF Want
  <2>5. Quotes!parseOdds(l.home) /\ Quotes!parseOdds(l.away)
    BY <1>1, <1>4, <2>1
  <2>6. \A c \in {"home", "draw", "away"} : Quotes!parseOdds(Raw(l, c)) =>
          Quotes!Upsert("ML", c, Raw(l, c)[1]) \in S
    BY <1>1, <1>2, <1>4, <2>1 DEF Statements, Offered, Price
  <2>7. /\ Raw(l, "home") = l.home /\ Raw(l, "draw") = l.draw /\ Raw(l, "away") = l.away
        /\ Quotes!Upsert("ML", "home", l.home[1]) \in S
        /\ Quotes!Upsert("ML", "away", l.away[1]) \in S
        /\ Quotes!parseOdds(l.draw) => Quotes!Upsert("ML", "draw", l.draw[1]) \in S
    BY <2>5, <2>6 DEF Raw
  <2>8. h \in Seq(S) /\ Says(h, Quotes!Upsert("ML", "home", l.home[1]))
    BY <2>2, <2>5, <2>7, PriceSaid
  <2>9. v \in Seq(S) /\ Says(v, Quotes!Upsert("ML", "away", l.away[1]))
    BY <2>2, <2>5, <2>7, PriceSaid
  <2>10. d \in Seq(S)
    BY <2>2, <2>7, PriceSaid
  <2>11. e \in Seq(S) /\ (row.status # "open" => Says(e, Quotes!SetStatus("ML", "open")))
    <3>1. Quotes!SetStatus("ML", "open") \in S
      BY <1>2, <2>4 DEF Statements
    <3> QED
      BY <2>2, <3>1, StatusSaid
  <2>12. PICK hd, hdv, all : hd = h \o d /\ hdv = hd \o v /\ all = hdv \o e
    OBVIOUS
  <2>13. hd \in Seq(S) /\ \A s : Says(h, s) => Says(hd, s)
    BY <2>8, <2>10, <2>12, Joined
  <2>14. hdv \in Seq(S) /\ \A s : Says(hd, s) \/ Says(v, s) => Says(hdv, s)
    BY <2>9, <2>12, <2>13, Joined
  <2>15. all \in Seq(S) /\ \A s : Says(hdv, s) \/ Says(e, s) => Says(all, s)
    BY <2>11, <2>12, <2>14, Joined
  <2>16. /\ Price(a, "ML", "home") = l.home[1] /\ Price(a, "ML", "away") = l.away[1]
    BY <2>1, <2>7 DEF Price
  <2>17. /\ Says(all, Quotes!Upsert("ML", "home", l.home[1]))
         /\ Says(all, Quotes!Upsert("ML", "away", l.away[1]))
         /\ row.status # "open" => Says(all, Quotes!SetStatus("ML", "open"))
    BY <2>8, <2>9, <2>11, <2>13, <2>14, <2>15
  <2> QED
    BY <1>2, <2>3, <2>4, <2>12, <2>15, <2>16, <2>17
<1> QED
  BY <1>3, <1>4

\* The statements for the totals: the line comes before the prices.
LEMMA TotalsList ==
  ASSUME NEW a, NEW row, Offer(a, "TOTALS") # <<>>,
         Best(a, "TOTALS") # 0 => Quotes!UsableTotals(BestLine(a, "TOTALS"))
  PROVE  /\ Quotes!applyTotals(row, Lines(a, "TOTALS")) \in Seq(Statements(a, "TOTALS"))
         /\ row.status # Want(a, "TOTALS") =>
              Says(Quotes!applyTotals(row, Lines(a, "TOTALS")),
                   Quotes!SetStatus("TOTALS", Want(a, "TOTALS")))
         /\ Best(a, "TOTALS") # 0 =>
              /\ \A c \in {"over", "under"} :
                   Says(Quotes!applyTotals(row, Lines(a, "TOTALS")),
                        Quotes!Upsert("TOTALS", c, Price(a, "TOTALS", c)))
              /\ row.line # BestLine(a, "TOTALS").hdp =>
                   Says(Quotes!applyTotals(row, Lines(a, "TOTALS")),
                        Quotes!SetLine(BestLine(a, "TOTALS").hdp))
         /\ row.line # <<>> \/ LineFirst(Quotes!applyTotals(row, Lines(a, "TOTALS")))
<1>1. PICK best : best = Best(a, "TOTALS") /\ best = Quotes!pickMainTotalsLine(Lines(a, "TOTALS"))
  BY DEF Best
<1>2. PICK S : S = Statements(a, "TOTALS")
  OBVIOUS
<1>3. CASE best = 0
  <2>1. PICK list : list = Quotes!ensureStatus("TOTALS", row, "suspended")
    OBVIOUS
  <2>2. Quotes!applyTotals(row, Lines(a, "TOTALS")) = list /\ Want(a, "TOTALS") = "suspended"
    BY <1>1, <1>3, <2>1 DEF Quotes!applyTotals, Want
  <2>0. PICK s : s = Quotes!SetStatus("TOTALS", "suspended")
    OBVIOUS
  <2>3. s = Quotes!SetStatus("TOTALS", "suspended") /\ s.op = "status"
    BY <2>0 DEF Quotes!SetStatus
  <2>4. list \in Seq(S) /\ list \in Seq({s}) /\ (row.status # "suspended" => Says(list, s))
    <3>1. s \in S
      BY <1>2, <2>2, <2>3 DEF Statements
    <3> QED
      BY <2>1, <2>3, <3>1, StatusSaid
  <2>5. LineFirst(list)
    BY <2>3, <2>4 DEF LineFirst
  <2> QED
    BY <1>1, <1>2, <1>3, <2>2, <2>3, <2>4, <2>5
<1>4. CASE best # 0
  <2>1. PICK l : l = BestLine(a, "TOTALS") /\ l = Lines(a, "TOTALS")[best]
    BY <1>1 DEF BestLine
  <2>2. PICK o, u, k, s :
          /\ o = Quotes!Upsert("TOTALS", "over", l.over[1])
          /\ u = Quotes!Upsert("TOTALS", "under", l.under[1])
          /\ k = Quotes!SetLine(l.hdp)
          /\ s = Quotes!SetStatus("TOTALS", "open")
    OBVIOUS
  <2>3. PICK e : e = Quotes!ensureStatus("TOTALS", row, "open")
    OBVIOUS
  <2>4. Quotes!applyTotals(row, Lines(a, "TOTALS")) =
          (IF row.line = l.hdp THEN <<>> ELSE <<k>>) \o <<o, u>> \o e
    BY <1>1, <1>4, <2>1, <2>2, <2>3 DEF Quotes!applyTotals
  <2>5. Want(a, "TOTALS") = "open"
    BY <1>1, <1>4 DEF Want
  <2>6. {o, u, k, s} \subseteq S
    <3>1. Raw(l, "over") = l.over /\ Raw(l, "under") = l.under
      BY DEF Raw
    <3>2. /\ Quotes!Upsert("TOTALS", "over", Raw(l, "over")[1]) \in S
          /\ Quotes!Upsert("TOTALS", "under", Raw(l, "under")[1]) \in S
      BY <1>1, <1>2, <1>4, <2>1 DEF Statements, Offered, Price
    <3>3. Quotes!SetLine(l.hdp) \in S
      BY <1>1, <1>2, <1>4, <2>1 DEF Statements
    <3>4. Quotes!SetStatus("TOTALS", "open") \in S
      BY <1>2, <2>5 DEF Statements
    <3> QED
      BY <2>2, <3>1, <3>2, <3>3, <3>4
  <2>7. /\ e \in Seq(S) /\ e \in Seq({s})
        /\ row.status # "open" => Says(e, s)
    BY <2>2, <2>3, <2>6, StatusSaid
  <2>8. o.op = "upsert" /\ u.op = "upsert" /\ k.op = "line" /\ s.op = "status"
    BY <2>2 DEF Quotes!Upsert, Quotes!SetLine, Quotes!SetStatus
  <2>20. PICK pair, x : pair = <<o, u>> /\ x = IF row.line = l.hdp THEN <<>> ELSE <<k>>
    OBVIOUS
  <2>9. pair \in Seq(S) /\ Len(pair) = 2 /\ pair[1] = o /\ pair[2] = u
    BY <2>6, <2>20
  <2>10. Says(pair, o) /\ Says(pair, u)
    BY <2>9 DEF Says
  <2>11. /\ x \in Seq(S) /\ Len(x) \in {0, 1}
         /\ row.line # l.hdp => Len(x) = 1 /\ x[1] = k /\ Says(x, k)
    <3>1. CASE row.line = l.hdp
      BY <2>20, <3>1
    <3>2. CASE row.line # l.hdp
      <4>1. <<k>> \in Seq(S) /\ Len(<<k>>) = 1 /\ <<k>>[1] = k
        BY <2>6
      <4>2. Says(<<k>>, k)
        BY <4>1 DEF Says
      <4> QED
        BY <2>20, <3>2, <4>1, <4>2
    <3> QED
      BY <3>1, <3>2
  <2>12. PICK xp, all : xp = x \o pair /\ all = xp \o e
    OBVIOUS
  <2>13. xp \in Seq(S) /\ \A m : Says(x, m) \/ Says(pair, m) => Says(xp, m)
    BY <2>9, <2>11, <2>12, Joined
  <2>21. \A i \in 1..Len(x) : i \in 1..Len(xp) /\ xp[i] = x[i]
    BY <2>9, <2>11, <2>12, Joined
  <2>22. \A i \in 1..Len(xp) : i \in 1..Len(all) /\ all[i] = xp[i]
    BY <2>7, <2>12, <2>13, Joined
  <2>14. all \in Seq(S) /\ \A m : Says(xp, m) \/ Says(e, m) => Says(all, m)
    BY <2>7, <2>12, <2>13, Joined
  <2>15. Says(all, o) /\ Says(all, u) /\ (row.line # l.hdp => Says(all, k))
         /\ (row.status # "open" => Says(all, s))
    BY <2>7, <2>10, <2>11, <2>13, <2>14
  <2>16. row.line # l.hdp => LineFirst(all)
    <3> SUFFICES ASSUME row.line # l.hdp PROVE LineFirst(all)
      OBVIOUS
    <3>1. Len(x) = 1 /\ x[1] = k
      BY <2>11
    <3>2. all[1] = k
      BY <2>21, <2>22, <3>1
    <3>3. \A i \in 1..Len(all) : i # 1 => 1 \in 1..(i - 1)
      BY <2>14
    <3>4. ASSUME NEW i \in 1..Len(all), all[i].op = "upsert" PROVE \E j \in 1..(i - 1) : all[j].op = "line"
      <4>1. i # 1
        BY <2>8, <3>2, <3>4
      <4> QED
        BY <2>8, <3>2, <3>3, <4>1
    <3> QED
      BY <3>4 DEF LineFirst
  <2>17. l.hdp # <<>>
    BY <1>1, <1>4, <2>1 DEF Quotes!UsableTotals
  <2>18. Price(a, "TOTALS", "over") = l.over[1] /\ Price(a, "TOTALS", "under") = l.under[1]
    BY <2>1 DEF Price, Raw
  <2>19. Quotes!applyTotals(row, Lines(a, "TOTALS")) = all
    BY <2>4, <2>12, <2>20
  <2> QED
    BY <1>1, <1>2, <1>4, <2>1, <2>2, <2>5, <2>14, <2>15, <2>16, <2>17, <2>18, <2>19
<1> QED
  BY <1>3, <1>4

\* What a run has to say of one market that exists.
MarketSaid(a, t, row, list) ==
  /\ list \in Seq(Statements(a, t))
  /\ row.status # Want(a, t) => Says(list, Quotes!SetStatus(t, Want(a, t)))
  /\ Best(a, t) # 0 =>
       /\ \A c \in Quotes!Sides(t) : Says(list, Quotes!Upsert(t, c, Price(a, t, c)))
       /\ t = "TOTALS" /\ row.line # BestLine(a, t).hdp => Says(list, Quotes!SetLine(BestLine(a, t).hdp))
  /\ t = "TOTALS" => row.line # <<>> \/ LineFirst(list)

\* applyMarket says all of that.
LEMMA MarketList ==
  ASSUME Quotes!AnswersOK, NEW a \in Answers, NEW t \in Quotes!Types, NEW row, row # <<>>
  PROVE  MarketSaid(a, t, row[1], Quotes!applyMarket(t, row, Offer(a, t)))
<1>1. PICK list : list = Quotes!applyMarket(t, row, Offer(a, t))
  OBVIOUS
<1>2. CASE Offer(a, t) = <<>>
  <2>1. list = Quotes!ensureStatus(t, row[1], "suspended") /\ Best(a, t) = 0 /\ Want(a, t) = "suspended"
    BY <1>1, <1>2 DEF Quotes!applyMarket, Best, Want
  <2>0. PICK s : s = Quotes!SetStatus(t, "suspended")
    OBVIOUS
  <2>2. s = Quotes!SetStatus(t, "suspended") /\ s.op = "status"
    BY <2>0 DEF Quotes!SetStatus
  <2>3. list \in Seq(Statements(a, t)) /\ list \in Seq({s})
        /\ (row[1].status # "suspended" => Says(list, s))
    <3>1. s \in Statements(a, t)
      BY <2>1, <2>2 DEF Statements
    <3> QED
      BY <2>1, <2>2, <3>1, StatusSaid
  <2>4. LineFirst(list)
    BY <2>2, <2>3 DEF LineFirst
  <2> QED
    BY <1>1, <2>1, <2>2, <2>3, <2>4 DEF MarketSaid
<1>3. CASE Offer(a, t) # <<>> /\ t = "ML"
  <2>1. list = Quotes!applyML(row[1], Lines(a, "ML"))
    BY <1>1, <1>3 DEF Quotes!applyMarket, Lines
  <2>2. Best(a, "ML") # 0 => /\ Quotes!parseOdds(BestLine(a, "ML").home)
                             /\ Quotes!parseOdds(BestLine(a, "ML").away)
    BY <1>3, BestIsQuoted
  <2>3. /\ list \in Seq(Statements(a, "ML"))
        /\ row[1].status # Want(a, "ML") => Says(list, Quotes!SetStatus("ML", Want(a, "ML")))
        /\ Best(a, "ML") # 0 => \A c \in {"home", "away"} :
             Says(list, Quotes!Upsert("ML", c, Price(a, "ML", c)))
    BY <1>3, <2>1, <2>2, WinnerList
  <2> QED
    BY <1>1, <1>3, <2>3 DEF MarketSaid, Quotes!Sides
<1>4. CASE Offer(a, t) # <<>> /\ t = "TOTALS"
  <2>1. list = Quotes!applyTotals(row[1], Lines(a, "TOTALS"))
    BY <1>1, <1>4 DEF Quotes!applyMarket, Lines
  <2>2. Best(a, "TOTALS") # 0 => Quotes!UsableTotals(BestLine(a, "TOTALS"))
    BY <1>4, BestIsQuoted
  <2>3. /\ list \in Seq(Statements(a, "TOTALS"))
        /\ row[1].status # Want(a, "TOTALS") => Says(list, Quotes!SetStatus("TOTALS", Want(a, "TOTALS")))
        /\ Best(a, "TOTALS") # 0 =>
             /\ \A c \in {"over", "under"} :
                  Says(list, Quotes!Upsert("TOTALS", c, Price(a, "TOTALS", c)))
             /\ row[1].line # BestLine(a, "TOTALS").hdp =>
                  Says(list, Quotes!SetLine(BestLine(a, "TOTALS").hdp))
        /\ row[1].line # <<>> \/ LineFirst(list)
    BY <1>4, <2>1, <2>2, TotalsList
  <2> QED
    BY <1>1, <1>4, <2>3 DEF MarketSaid, Quotes!Sides
<1> QED
  BY <1>2, <1>3, <1>4 DEF Quotes!Types

\* What a run may have to say of the markets there are.
Pending(rows, a) ==
  {s \in Statements(a, "ML") \cup Statements(a, "TOTALS") : rows[s.market] # <<>>}

\* The statements for a market are about that market.
LEMMA StatementsName ==
  ASSUME NEW a, NEW t \in Quotes!Types, NEW s \in Statements(a, t)
  PROVE  s.market = t
BY DEF Statements, Quotes!Types, Quotes!SetStatus, Quotes!Upsert, Quotes!SetLine

\* The line still comes first behind statements for the other market.
LEMMA LineFirstBehind ==
  ASSUME NEW S, NEW x \in Seq(S), NEW y \in Seq(S), NEW z, z = x \o y,
         \A i \in 1..Len(x) : x[i].market = "ML", LineFirst(y)
  PROVE  LineFirst(z)
<1>0. PICK n \in Nat, k \in Nat : n = Len(x) /\ k = Len(y)
  OBVIOUS
<1>1. /\ n = Len(x) /\ k = Len(y) /\ 1..Len(z) = 1..(n + k)
      /\ \A i \in 1..n : z[i] = x[i]
      /\ \A i \in 1..k : z[n + i] = y[i]
  BY <1>0
<1> SUFFICES ASSUME NEW i \in 1..Len(z), z[i].op = "upsert", z[i].market = "TOTALS"
             PROVE  \E j \in 1..(i - 1) : z[j].op = "line"
  BY DEF LineFirst
<1>2. i \in 1..(n + k) /\ i \notin 1..n
  BY <1>1
<1>3. PICK p \in 1..k : i = n + p
  <2>1. i - n \in 1..k /\ i = n + (i - n)
    BY <1>1, <1>2
  <2> QED
    BY <2>1
<1>4. PICK j \in 1..(p - 1) : y[j].op = "line"
  BY <1>1, <1>3 DEF LineFirst
<1>5. n + j \in 1..(i - 1) /\ z[n + j].op = "line"
  BY <1>1, <1>3, <1>4
<1> QED
  BY <1>5

\* applyEvent: what a run says of a match.
LEMMA EventList ==
  ASSUME Quotes!AnswersOK, NEW a \in Answers, NEW rows, NEW list, list = Quotes!applyEvent(rows, a)
  PROVE  /\ list \in Seq(Pending(rows, a))
         /\ \A t \in Quotes!Types : rows[t] # <<>> =>
              /\ rows[t][1].status # Want(a, t) => Says(list, Quotes!SetStatus(t, Want(a, t)))
              /\ Best(a, t) # 0 =>
                   /\ \A c \in Quotes!Sides(t) : Says(list, Quotes!Upsert(t, c, Price(a, t, c)))
                   /\ t = "TOTALS" /\ rows[t][1].line # BestLine(a, t).hdp =>
                        Says(list, Quotes!SetLine(BestLine(a, t).hdp))
         /\ rows["TOTALS"] # <<>> => rows["TOTALS"][1].line # <<>> \/ LineFirst(list)
<1>1. PICK S : S = Pending(rows, a)
  OBVIOUS
<1>2. PICK x, y : /\ x = Quotes!applyMarket("ML", rows["ML"], Offer(a, "ML"))
                  /\ y = Quotes!applyMarket("TOTALS", rows["TOTALS"], Offer(a, "TOTALS"))
  OBVIOUS
<1>3. list = x \o y
  BY <1>2 DEF Quotes!applyEvent, Offer
<1>4. \A t \in Quotes!Types : rows[t] # <<>> => Statements(a, t) \subseteq S
  BY <1>1, StatementsName DEF Pending, Quotes!Types
<1>5. "ML" \in Quotes!Types /\ "TOTALS" \in Quotes!Types
  BY DEF Quotes!Types
<1>6. /\ x \in Seq(S) /\ x \in Seq(Statements(a, "ML"))
      /\ rows["ML"] # <<>> => MarketSaid(a, "ML", rows["ML"][1], x)
  <2>1. CASE rows["ML"] = <<>>
    BY <1>2, <2>1 DEF Quotes!applyMarket
  <2>2. CASE rows["ML"] # <<>>
    <3>1. MarketSaid(a, "ML", rows["ML"][1], x)
      BY <1>2, <1>5, <2>2, MarketList
    <3> QED
      BY <1>4, <1>5, <2>2, <3>1, SeqGrows DEF MarketSaid
  <2> QED
    BY <2>1, <2>2
<1>7. /\ y \in Seq(S)
      /\ rows["TOTALS"] # <<>> => MarketSaid(a, "TOTALS", rows["TOTALS"][1], y)
  <2>1. CASE rows["TOTALS"] = <<>>
    BY <1>2, <2>1 DEF Quotes!applyMarket
  <2>2. CASE rows["TOTALS"] # <<>>
    <3>1. MarketSaid(a, "TOTALS", rows["TOTALS"][1], y)
      BY <1>2, <1>5, <2>2, MarketList
    <3> QED
      BY <1>4, <1>5, <2>2, <3>1, SeqGrows DEF MarketSaid
  <2> QED
    BY <2>1, <2>2
<1>8. list \in Seq(S) /\ \A s : Says(x, s) \/ Says(y, s) => Says(list, s)
  BY <1>3, <1>6, <1>7, Joined
<1>9. ASSUME NEW t \in Quotes!Types, rows[t] # <<>>
      PROVE  /\ rows[t][1].status # Want(a, t) => Says(list, Quotes!SetStatus(t, Want(a, t)))
             /\ Best(a, t) # 0 =>
                  /\ \A c \in Quotes!Sides(t) : Says(list, Quotes!Upsert(t, c, Price(a, t, c)))
                  /\ t = "TOTALS" /\ rows[t][1].line # BestLine(a, t).hdp =>
                       Says(list, Quotes!SetLine(BestLine(a, t).hdp))
  BY <1>6, <1>7, <1>8, <1>9 DEF MarketSaid, Quotes!Types
<1>10. ASSUME rows["TOTALS"] # <<>>, rows["TOTALS"][1].line = <<>> PROVE LineFirst(list)
  <2>1. LineFirst(y)
    BY <1>7, <1>10 DEF MarketSaid
  <2>2. \A i \in 1..Len(x) : x[i].market = "ML"
    <3>1. \A i \in 1..Len(x) : x[i] \in Statements(a, "ML")
      BY <1>6
    <3> QED
      BY <1>5, <3>1, StatementsName
  <2> QED
    BY <1>3, <1>6, <1>7, <2>1, <2>2, LineFirstBehind
<1> QED
  BY <1>1, <1>8, <1>9, <1>10

\* The first statement gone.
LEMMA FirstGone ==
  ASSUME NEW S, NEW list \in Seq(S), list # <<>>
  PROVE  /\ Head(list) \in S /\ Tail(list) \in Seq(S)
         /\ \A s : Says(list, s) => s = Head(list) \/ Says(Tail(list), s)
         /\ LineFirst(list) => /\ ~(Head(list).op = "upsert" /\ Head(list).market = "TOTALS")
                               /\ Head(list).op # "line" => LineFirst(Tail(list))
<1>1. PICK h, r : h = Head(list) /\ r = Tail(list)
  OBVIOUS
<1>2. PICK n \in Nat : n = Len(list)
  OBVIOUS
<1>3. /\ h \in S /\ r \in Seq(S) /\ n > 0 /\ list[1] = h /\ 1..Len(r) = 1..(n - 1)
      /\ \A i \in 1..(n - 1) : r[i] = list[i + 1]
  BY <1>1, <1>2
<1>4. ASSUME NEW s, Says(list, s), s # h PROVE Says(r, s)
  <2>1. PICK i \in 1..n : list[i] = s
    BY <1>2, <1>4 DEF Says
  <2>2. i - 1 \in 1..(n - 1) /\ (i - 1) + 1 = i
    BY <1>3, <1>4, <2>1
  <2>3. r[i - 1] = s
    BY <1>3, <2>1, <2>2
  <2> QED
    BY <1>3, <2>2, <2>3 DEF Says
<1>5. ASSUME LineFirst(list) PROVE ~(h.op = "upsert" /\ h.market = "TOTALS")
  <2>1. 1 \in 1..n /\ 1..(1 - 1) = {}
    BY <1>3
  <2> QED
    BY <1>2, <1>3, <1>5, <2>1 DEF LineFirst
<1>6. ASSUME LineFirst(list), h.op # "line" PROVE LineFirst(r)
  <2> SUFFICES ASSUME NEW i \in 1..(n - 1), r[i].op = "upsert", r[i].market = "TOTALS"
               PROVE  \E j \in 1..(i - 1) : r[j].op = "line"
    BY <1>3 DEF LineFirst
  <2>1. i + 1 \in 1..n /\ list[i + 1] = r[i] /\ (i + 1) - 1 = i
    BY <1>3
  <2>2. PICK j \in 1..i : list[j].op = "line"
    BY <1>2, <1>6, <2>1 DEF LineFirst
  <2>3. j - 1 \in 1..(i - 1) /\ j - 1 \in 1..(n - 1) /\ (j - 1) + 1 = j
    BY <1>3, <1>6, <2>2
  <2>4. r[j - 1].op = "line"
    BY <1>3, <2>2, <2>3
  <2> QED
    BY <2>3, <2>4
<1> QED
  BY <1>1, <1>3, <1>4, <1>5, <1>6

Row(t) == market[t][1]

RowsShape ==
  /\ market = [t \in Quotes!Types |-> market[t]]
  /\ \A t \in Quotes!Types :
       market[t] # <<>> => market[t] = <<[status |-> Row(t).status, line |-> Row(t).line]>>

\* A run holds statements for its answer and for markets there are.
RunShape ==
  /\ price \in [Quotes!Codes -> Int]
  /\ todo \in Seq(Pending(market, answer))
  /\ run = "on" <=> todo # <<>>
  /\ run \in {"on", "done"} => answer \in Answers

\* What the answer wants of a market is in the tables or still to be said.
OnItsWay(t) ==
  /\ \/ Row(t).status = Want(answer, t)
     \/ Says(todo, Quotes!SetStatus(t, Want(answer, t)))
  /\ Best(answer, t) # 0 =>
       /\ \A c \in Quotes!Sides(t) :
            \/ price[c] = Quotes!Stored(Price(answer, t, c))
            \/ Says(todo, Quotes!Upsert(t, c, Price(answer, t, c)))
       /\ t = "TOTALS" => \/ Row(t).line = BestLine(answer, t).hdp
                          \/ Says(todo, Quotes!SetLine(BestLine(answer, t).hdp))

Underway ==
  run \in {"on", "done"} => \A t \in Quotes!Types : market[t] # <<>> => OnItsWay(t)

\* Totals that have no line yet get it before their prices.
LineBeforePrice ==
  run = "on" /\ market["TOTALS"] # <<>> => Row("TOTALS").line # <<>> \/ LineFirst(todo)

PricedUnderALine ==
  price["over"] # 0 \/ price["under"] # 0 =>
    market["TOTALS"] # <<>> /\ Row("TOTALS").line # <<>>

QuotesInv == RowsShape /\ RunShape /\ Underway /\ LineBeforePrice /\ PricedUnderALine

-----------------------------------------------------------------------------
\* The statements a run may have to say, one by one.
LEMMA PendingIs ==
  ASSUME NEW rows, NEW a, NEW s \in Pending(rows, a)
  PROVE  /\ s.market \in Quotes!Types /\ rows[s.market] # <<>>
         /\ \/ s.op = "status" /\ s.to = Want(a, s.market) /\ s = Quotes!SetStatus(s.market, Want(a, s.market))
            \/ /\ s.op = "line" /\ s.market = "TOTALS" /\ Best(a, "TOTALS") # 0
               /\ s.line = BestLine(a, "TOTALS").hdp /\ s = Quotes!SetLine(BestLine(a, "TOTALS").hdp)
            \/ /\ s.op = "upsert" /\ Best(a, s.market) # 0 /\ s.code \in Offered(a, s.market)
               /\ s.price = Price(a, s.market, s.code)
               /\ s = Quotes!Upsert(s.market, s.code, Price(a, s.market, s.code))
<1>1. PICK t \in Quotes!Types : s \in Statements(a, t)
  BY DEF Pending, Quotes!Types
<1>2. s.market = t /\ rows[s.market] # <<>>
  BY <1>1, StatementsName DEF Pending
<1>3. CASE s = Quotes!SetStatus(t, Want(a, t))
  <2>1. s.op = "status" /\ s.to = Want(a, t)
    BY <1>3 DEF Quotes!SetStatus
  <2> QED
    BY <1>2, <1>3, <2>1
<1>4. CASE Best(a, t) # 0 /\ t # "ML" /\ s = Quotes!SetLine(BestLine(a, t).hdp)
  <2>1. s.op = "line" /\ s.line = BestLine(a, t).hdp
    BY <1>4 DEF Quotes!SetLine
  <2>2. t = "TOTALS"
    BY <1>4 DEF Quotes!Types
  <2> QED
    BY <1>2, <1>4, <2>1, <2>2
<1>5. ASSUME Best(a, t) # 0, NEW c \in Offered(a, t), s = Quotes!Upsert(t, c, Price(a, t, c))
      PROVE  /\ s.op = "upsert" /\ Best(a, s.market) # 0 /\ s.code \in Offered(a, s.market)
             /\ s.price = Price(a, s.market, s.code)
             /\ s = Quotes!Upsert(s.market, s.code, Price(a, s.market, s.code))
  <2>1. s.op = "upsert" /\ s.code = c /\ s.price = Price(a, t, c)
    BY <1>5 DEF Quotes!Upsert
  <2> QED
    BY <1>2, <1>5, <2>1
<1>6. \/ s = Quotes!SetStatus(t, Want(a, t))
      \/ Best(a, t) # 0 /\ \E c \in Offered(a, t) : s = Quotes!Upsert(t, c, Price(a, t, c))
      \/ Best(a, t) # 0 /\ t # "ML" /\ s = Quotes!SetLine(BestLine(a, t).hdp)
  BY <1>1 DEF Statements
<1> QED
  BY <1>1, <1>2, <1>3, <1>4, <1>5, <1>6

\* The codes of the two markets are apart.
LEMMA OfferedCodes ==
  ASSUME NEW a, NEW t \in Quotes!Types
  PROVE  /\ Offered(a, t) \subseteq Quotes!Codes
         /\ t = "ML" => "over" \notin Offered(a, t) /\ "under" \notin Offered(a, t)
         /\ \A k \in Quotes!Types : \A c \in Offered(a, t) : c \in Quotes!Sides(k) => k = t
BY DEF Offered, Quotes!Types, Quotes!Codes, Quotes!Sides

\* A run that begins has everything still to say.
LEMMA RunKeeps ==
  ASSUME Quotes!AnswersOK, QuotesInv, Quotes!Run
  PROVE  QuotesInv'
<1>1. PICK a \in Answers : /\ answer' = a /\ todo' = Quotes!applyEvent(market, a)
                           /\ run' = IF todo' = <<>> THEN "done" ELSE "on"
  BY DEF Quotes!Run
<1>2. market' = market /\ price' = price
  BY DEF Quotes!Run
<1>3. PICK list : list = todo'
  OBVIOUS
<1>4. PICK rows : rows = market
  OBVIOUS
<1>5. /\ list \in Seq(Pending(rows, a))
      /\ \A t \in Quotes!Types : rows[t] # <<>> =>
           /\ rows[t][1].status # Want(a, t) => Says(list, Quotes!SetStatus(t, Want(a, t)))
           /\ Best(a, t) # 0 =>
                /\ \A c \in Quotes!Sides(t) : Says(list, Quotes!Upsert(t, c, Price(a, t, c)))
                /\ t = "TOTALS" /\ rows[t][1].line # BestLine(a, t).hdp =>
                     Says(list, Quotes!SetLine(BestLine(a, t).hdp))
      /\ rows["TOTALS"] # <<>> => rows["TOTALS"][1].line # <<>> \/ LineFirst(list)
  <2>1. list = Quotes!applyEvent(rows, a)
    BY <1>1, <1>3, <1>4
  <2> QED
    BY <2>1, EventList
<1>6. RowsShape'
  BY <1>2 DEF QuotesInv, RowsShape, Row
<1>7. RunShape'
  <2>1. todo' \in Seq(Pending(market', answer'))
    BY <1>1, <1>2, <1>3, <1>4, <1>5
  <2>2. price' \in [Quotes!Codes -> Int]
    BY <1>2 DEF QuotesInv, RunShape
  <2>3. (run' = "on" <=> todo' # <<>>) /\ answer' \in Answers
    BY <1>1
  <2> QED
    BY <2>1, <2>2, <2>3 DEF RunShape
<1>8. Underway'
  <2> SUFFICES ASSUME NEW t \in Quotes!Types, market'[t] # <<>> PROVE OnItsWay(t)'
    BY DEF Underway
  <2>1. Row(t)' = rows[t][1] /\ rows[t] # <<>>
    BY <1>2, <1>4 DEF Row
  <2>2. \/ Row(t)'.status = Want(a, t)
        \/ Says(list, Quotes!SetStatus(t, Want(a, t)))
    BY <1>5, <2>1
  <2>3. Best(a, t) # 0 =>
          /\ \A c \in Quotes!Sides(t) : Says(list, Quotes!Upsert(t, c, Price(a, t, c)))
          /\ t = "TOTALS" => \/ Row(t)'.line = BestLine(a, t).hdp
                             \/ Says(list, Quotes!SetLine(BestLine(a, t).hdp))
    BY <1>5, <2>1
  <2> QED
    BY <1>1, <1>3, <2>2, <2>3 DEF OnItsWay
<1>9. LineBeforePrice'
  BY <1>2, <1>3, <1>4, <1>5 DEF LineBeforePrice, Row
<1>10. PricedUnderALine'
  BY <1>2 DEF QuotesInv, PricedUnderALine, Row
<1> QED
  BY <1>6, <1>7, <1>8, <1>9, <1>10 DEF QuotesInv

\* What one statement changes.
LEMMA ExecuteDoes ==
  ASSUME Quotes!AnswersOK, QuotesInv, Quotes!Execute, NEW h, h = Head(todo)
  PROVE  /\ h \in Pending(market, answer) /\ answer \in Answers
         /\ todo' = Tail(todo) /\ todo' \in Seq(Pending(market, answer))
         /\ answer' = answer /\ (run' = IF todo' = <<>> THEN "done" ELSE "on")
         /\ \A t \in Quotes!Types : market'[t] = <<>> <=> market[t] = <<>>
         /\ \A t \in Quotes!Types : market[t] # <<>> =>
              /\ Row(t)'.status = IF h.op = "status" /\ h.market = t THEN h.to ELSE Row(t).status
              /\ Row(t)'.line   = IF h.op = "line" /\ h.market = t THEN h.line ELSE Row(t).line
         /\ RowsShape'
         /\ price' \in [Quotes!Codes -> Int]
         /\ \A c \in Quotes!Codes :
              price'[c] = IF h.op = "upsert" /\ h.code = c THEN Quotes!Stored(h.price) ELSE price[c]
<1>1. /\ run = "on" /\ todo # <<>> /\ answer \in Answers
      /\ todo \in Seq(Pending(market, answer))
  BY DEF Quotes!Execute, QuotesInv, RunShape
<1>2. /\ h \in Pending(market, answer) /\ todo' \in Seq(Pending(market, answer))
      /\ todo' = Tail(todo) /\ answer' = answer /\ (run' = IF todo' = <<>> THEN "done" ELSE "on")
  <2>1. todo' = Tail(todo) /\ answer' = answer /\ (run' = IF todo' = <<>> THEN "done" ELSE "on")
    BY DEF Quotes!Execute
  <2> QED
    BY <1>1, <2>1, FirstGone
<1>3. PICK k \in Quotes!Types : k = h.market /\ market[k] # <<>>
  BY <1>2, PendingIs
<1>4. PICK x : /\ market' = [market EXCEPT ![k] = x]
               /\ x = CASE h.op = "status" -> <<[market[k][1] EXCEPT !.status = h.to]>>
                        [] h.op = "line"   -> <<[market[k][1] EXCEPT !.line = h.line]>>
                        [] h.op = "upsert" -> market[k]
  BY <1>3 DEF Quotes!Execute, Quotes!Updated, Quotes!Statement
<1>5. market = [t \in Quotes!Types |-> market[t]] /\ market[k] = <<[status |-> Row(k).status, line |-> Row(k).line]>>
  BY <1>3 DEF QuotesInv, RowsShape
<1>6. PICK st, ln : market[k] = <<[status |-> st, line |-> ln]>> /\ st = Row(k).status /\ ln = Row(k).line
  BY <1>5
<1>7. market[k][1] = [status |-> st, line |-> ln]
  BY <1>6
<1>8. x = <<[status |-> IF h.op = "status" THEN h.to ELSE st,
             line   |-> IF h.op = "line" THEN h.line ELSE ln]>>
  <2>1. CASE h.op = "status"
    BY <1>4, <1>7, <2>1
  <2>2. CASE h.op = "line"
    BY <1>4, <1>7, <2>2
  <2>3. CASE h.op = "upsert"
    BY <1>4, <1>6, <2>3
  <2> QED
    BY <1>2, <2>1, <2>2, <2>3, PendingIs
<1>9. /\ market' = [t \in Quotes!Types |-> IF t = k THEN x ELSE market[t]]
      /\ \A t \in Quotes!Types : market'[t] = IF t = k THEN x ELSE market[t]
  <2>1. market = [t \in Quotes!Types |-> market[t]]
    BY <1>5
  <2>2. DOMAIN market = Quotes!Types
    BY <2>1
  <2>3. market' = [market EXCEPT ![k] = x]
    BY <1>4
  <2>4. market' = [t \in Quotes!Types |-> IF t = k THEN x ELSE market[t]]
    BY <2>2, <2>3
  <2> QED
    BY <2>4
<1>10. /\ x # <<>> /\ x = <<[status |-> x[1].status, line |-> x[1].line]>>
       /\ x[1].status = IF h.op = "status" THEN h.to ELSE st
       /\ x[1].line = IF h.op = "line" THEN h.line ELSE ln
  BY <1>8
<1>11. \A t \in Quotes!Types : market'[t] = <<>> <=> market[t] = <<>>
  BY <1>3, <1>9, <1>10
<1>12. ASSUME NEW t \in Quotes!Types, market[t] # <<>>
       PROVE  /\ Row(t)'.status = IF h.op = "status" /\ h.market = t THEN h.to ELSE Row(t).status
              /\ Row(t)'.line   = IF h.op = "line" /\ h.market = t THEN h.line ELSE Row(t).line
  <2>1. Row(t)' = market'[t][1]
    BY DEF Row
  <2>2. CASE t = k
    BY <1>3, <1>6, <1>9, <1>10, <2>1, <2>2
  <2>3. CASE t # k
    BY <1>3, <1>9, <2>1, <2>3 DEF Row
  <2> QED
    BY <2>2, <2>3
<1>13. RowsShape'
  <2>1. ASSUME NEW t \in Quotes!Types, market'[t] # <<>>
        PROVE  market'[t] = <<[status |-> market'[t][1].status, line |-> market'[t][1].line]>>
    <3>1. CASE t = k
      BY <1>9, <1>10, <3>1
    <3>2. CASE t # k
      BY <1>9, <2>1, <3>2 DEF QuotesInv, RowsShape, Row
    <3> QED
      BY <3>1, <3>2
  <2>2. market' = [t \in Quotes!Types |-> market'[t]]
    BY <1>9
  <2> QED
    BY <2>1, <2>2 DEF RowsShape, Row
<1>14. /\ price' \in [Quotes!Codes -> Int]
       /\ \A c \in Quotes!Codes :
            price'[c] = IF h.op = "upsert" /\ h.code = c THEN Quotes!Stored(h.price) ELSE price[c]
  <2>1. price \in [Quotes!Codes -> Int]
    BY DEF QuotesInv, RunShape
  <2>2. price' = IF h.op = "upsert" THEN [price EXCEPT ![h.code] = Quotes!Stored(h.price)] ELSE price
    BY DEF Quotes!Execute, Quotes!Statement
  <2>3. CASE h.op = "upsert"
    <3>1. Best(answer, k) # 0 /\ h.code \in Offered(answer, k) /\ h.price = Price(answer, k, h.code)
      BY <1>2, <1>3, <2>3, PendingIs
    <3>2. h.price \in Int
      BY <1>1, <3>1, BestIsQuoted
    <3>3. Quotes!Stored(h.price) \in Int
      BY <3>2 DEF Quotes!Stored
    <3> QED
      BY <2>1, <2>2, <2>3, <3>3
  <2>4. CASE h.op # "upsert"
    BY <2>1, <2>2, <2>4
  <2> QED
    BY <2>3, <2>4
<1> QED
  BY <1>1, <1>2, <1>11, <1>12, <1>13, <1>14

\* A statement brings what it says.
LEMMA ExecuteKeeps ==
  ASSUME Quotes!AnswersOK, QuotesInv, Quotes!Execute
  PROVE  QuotesInv'
<1>1. PICK h : h = Head(todo)
  OBVIOUS
<1>2. /\ h \in Pending(market, answer) /\ answer \in Answers
      /\ todo' = Tail(todo) /\ todo' \in Seq(Pending(market, answer))
      /\ answer' = answer /\ (run' = IF todo' = <<>> THEN "done" ELSE "on")
      /\ \A t \in Quotes!Types : market'[t] = <<>> <=> market[t] = <<>>
      /\ RowsShape' /\ price' \in [Quotes!Codes -> Int]
  BY <1>1, ExecuteDoes
<1>3. \A t \in Quotes!Types : market[t] # <<>> =>
        /\ Row(t)'.status = IF h.op = "status" /\ h.market = t THEN h.to ELSE Row(t).status
        /\ Row(t)'.line   = IF h.op = "line" /\ h.market = t THEN h.line ELSE Row(t).line
  BY <1>1, ExecuteDoes
<1>4. \A c \in Quotes!Codes :
        price'[c] = IF h.op = "upsert" /\ h.code = c THEN Quotes!Stored(h.price) ELSE price[c]
  BY <1>1, ExecuteDoes
<1>5. run = "on" /\ todo # <<>> /\ todo \in Seq(Pending(market, answer))
  BY DEF Quotes!Execute, QuotesInv, RunShape
<1>6. PICK k \in Quotes!Types : k = h.market /\ market[k] # <<>>
  BY <1>2, PendingIs
<1>7. PICK r : r = todo'
  OBVIOUS
<1>8. /\ \A s : Says(todo, s) => s = h \/ Says(r, s)
      /\ LineFirst(todo) => /\ ~(h.op = "upsert" /\ h.market = "TOTALS")
                            /\ h.op # "line" => LineFirst(r)
  BY <1>1, <1>2, <1>5, <1>7, FirstGone
<1>9. RunShape'
  <2>1. Pending(market', answer') = Pending(market, answer)
    <3>1. \A s \in Statements(answer, "ML") \cup Statements(answer, "TOTALS") : s.market \in Quotes!Types
      BY StatementsName DEF Quotes!Types
    <3> QED
      BY <1>2, <3>1 DEF Pending
  <2> QED
    BY <1>2, <2>1 DEF RunShape
<1>10. Underway'
  <2> SUFFICES ASSUME NEW t \in Quotes!Types, market'[t] # <<>> PROVE OnItsWay(t)'
    BY DEF Underway
  <2>1. market[t] # <<>> /\ OnItsWay(t)
    BY <1>2, <1>5 DEF QuotesInv, Underway
  <2>2. \/ Row(t)'.status = Want(answer, t)
        \/ Says(r, Quotes!SetStatus(t, Want(answer, t)))
    <3>1. CASE h.op = "status" /\ h.market = t
      BY <1>2, <1>3, <2>1, <3>1, PendingIs
    <3>2. CASE ~(h.op = "status" /\ h.market = t)
      <4>1. h # Quotes!SetStatus(t, Want(answer, t))
        BY <3>2 DEF Quotes!SetStatus
      <4> QED
        BY <1>3, <1>8, <2>1, <3>2, <4>1 DEF OnItsWay
    <3> QED
      BY <3>1, <3>2
  <2>3. ASSUME Best(answer, t) # 0, NEW c \in Quotes!Sides(t)
        PROVE  \/ price'[c] = Quotes!Stored(Price(answer, t, c))
               \/ Says(r, Quotes!Upsert(t, c, Price(answer, t, c)))
    <3>0. c \in Quotes!Codes
      BY DEF Quotes!Sides, Quotes!Codes
    <3>1. CASE h.op = "upsert" /\ h.code = c
      <4>1. h.code \in Offered(answer, k) /\ h.price = Price(answer, k, h.code)
        BY <1>2, <1>6, <3>1, PendingIs
      <4>2. k = t
        BY <2>3, <3>1, <4>1, OfferedCodes
      <4> QED
        BY <1>4, <3>0, <3>1, <4>1, <4>2
    <3>2. CASE ~(h.op = "upsert" /\ h.code = c)
      <4>1. h # Quotes!Upsert(t, c, Price(answer, t, c))
        BY <3>2 DEF Quotes!Upsert
      <4> QED
        BY <1>4, <1>8, <2>1, <2>3, <3>0, <3>2, <4>1 DEF OnItsWay
    <3> QED
      BY <3>1, <3>2
  <2>4. ASSUME Best(answer, t) # 0, t = "TOTALS"
        PROVE  \/ Row(t)'.line = BestLine(answer, t).hdp
               \/ Says(r, Quotes!SetLine(BestLine(answer, t).hdp))
    <3>1. CASE h.op = "line"
      BY <1>2, <1>3, <2>1, <2>4, <3>1, PendingIs
    <3>2. CASE h.op # "line"
      <4>1. h # Quotes!SetLine(BestLine(answer, t).hdp)
        BY <3>2 DEF Quotes!SetLine
      <4> QED
        BY <1>3, <1>8, <2>1, <2>4, <3>2, <4>1 DEF OnItsWay
    <3> QED
      BY <3>1, <3>2
  <2> QED
    BY <1>2, <1>7, <2>2, <2>3, <2>4 DEF OnItsWay
<1>11. ASSUME h.op = "line" PROVE h.market = "TOTALS" /\ h.line # <<>>
  <2>1. /\ h.market = "TOTALS" /\ Best(answer, "TOTALS") # 0
        /\ h.line = BestLine(answer, "TOTALS").hdp
    BY <1>2, <1>11, PendingIs
  <2>2. Quotes!UsableTotals(BestLine(answer, "TOTALS"))
    BY <1>2, <2>1, BestIsQuoted DEF Quotes!Types
  <2> QED
    BY <2>1, <2>2 DEF Quotes!UsableTotals
<1>12. ASSUME market["TOTALS"] # <<>>, Row("TOTALS").line # <<>>
       PROVE  Row("TOTALS")'.line # <<>>
  BY <1>3, <1>11, <1>12 DEF Quotes!Types
<1>13. LineBeforePrice'
  <2> SUFFICES ASSUME market'["TOTALS"] # <<>> PROVE Row("TOTALS")'.line # <<>> \/ LineFirst(r)
    BY <1>7 DEF LineBeforePrice
  <2>1. market["TOTALS"] # <<>>
    BY <1>2 DEF Quotes!Types
  <2>2. Row("TOTALS").line # <<>> \/ LineFirst(todo)
    BY <1>5, <2>1 DEF QuotesInv, LineBeforePrice
  <2>3. CASE h.op = "line"
    BY <1>3, <1>11, <2>1, <2>3 DEF Quotes!Types
  <2>4. CASE h.op # "line"
    BY <1>8, <1>12, <2>1, <2>2, <2>4
  <2> QED
    BY <2>3, <2>4
<1>14. PricedUnderALine'
  <2> SUFFICES ASSUME NEW c \in {"over", "under"}, price'[c] # 0
               PROVE  market'["TOTALS"] # <<>> /\ Row("TOTALS")'.line # <<>>
    BY DEF PricedUnderALine
  <2>0. c \in Quotes!Codes /\ "TOTALS" \in Quotes!Types
    BY DEF Quotes!Codes, Quotes!Types
  <2>1. CASE price[c] # 0
    <3>1. market["TOTALS"] # <<>> /\ Row("TOTALS").line # <<>>
      BY <2>1 DEF QuotesInv, PricedUnderALine
    <3> QED
      BY <1>2, <1>12, <2>0, <3>1
  <2>2. CASE price[c] = 0
    <3>1. h.op = "upsert" /\ h.code = c
      BY <1>4, <2>0, <2>2
    <3>2. h.market = "TOTALS"
      <4>1. h.code \in Offered(answer, k)
        BY <1>2, <1>6, <3>1, PendingIs
      <4> QED
        BY <1>6, <3>1, <4>1, OfferedCodes DEF Quotes!Types
    <3>3. market["TOTALS"] # <<>> /\ Row("TOTALS").line # <<>>
      BY <1>5, <1>6, <1>8, <3>1, <3>2 DEF QuotesInv, LineBeforePrice
    <3> QED
      BY <1>2, <1>12, <2>0, <3>3
  <2> QED
    BY <2>1, <2>2
<1> QED
  BY <1>2, <1>9, <1>10, <1>13, <1>14 DEF QuotesInv

\* A run that ends early leaves nothing to say and claims nothing.
LEMMA EndKeeps ==
  ASSUME QuotesInv, Quotes!Refuse \/ Quotes!Abort
  PROVE  QuotesInv'
<1>1. /\ market' = market /\ price' = price /\ answer' = answer
      /\ todo' = <<>> /\ run' \in {"refused", "aborted"}
  BY DEF Quotes!Refuse, Quotes!Abort
<1>2. RowsShape' /\ PricedUnderALine'
  BY <1>1 DEF QuotesInv, RowsShape, PricedUnderALine, Row
<1>3. RunShape'
  BY <1>1 DEF QuotesInv, RunShape
<1>4. Underway' /\ LineBeforePrice'
  BY <1>1 DEF Underway, LineBeforePrice
<1> QED
  BY <1>2, <1>3, <1>4 DEF QuotesInv

\* Nor does EventSync between two runs disturb anything.
LEMMA MissingMarketsKeeps ==
  ASSUME QuotesInv, Quotes!MissingMarkets
  PROVE  QuotesInv'
<1>1. /\ market' = [t \in Quotes!Types |-> IF market[t] = <<>>
                      THEN <<[status |-> "open", line |-> <<>>]>> ELSE market[t]]
      /\ price' = price /\ answer' = answer /\ todo' = todo /\ run' = "none" /\ todo = <<>>
  BY DEF Quotes!MissingMarkets, QuotesInv, RunShape
<1>2. RowsShape'
  <2>1. ASSUME NEW t \in Quotes!Types
        PROVE  market'[t] = <<[status |-> market'[t][1].status, line |-> market'[t][1].line]>>
    <3>1. CASE market[t] = <<>>
      BY <1>1, <3>1
    <3>2. CASE market[t] # <<>>
      BY <1>1, <3>2 DEF QuotesInv, RowsShape, Row
    <3> QED
      BY <3>1, <3>2
  <2>2. market' = [t \in Quotes!Types |-> market'[t]]
    BY <1>1
  <2> QED
    BY <2>1, <2>2 DEF RowsShape, Row
<1>3. RunShape'
  BY <1>1 DEF QuotesInv, RunShape
<1>4. Underway' /\ LineBeforePrice'
  BY <1>1 DEF Underway, LineBeforePrice
<1>5. PricedUnderALine'
  <2>1. market["TOTALS"] # <<>> => market'["TOTALS"] = market["TOTALS"]
    BY <1>1 DEF Quotes!Types
  <2> QED
    BY <1>1, <2>1 DEF QuotesInv, PricedUnderALine, Row
<1> QED
  BY <1>2, <1>3, <1>4, <1>5 DEF QuotesInv

\* The invariant holds at the beginning and is kept by every step.
LEMMA QuotesInductive ==
  ASSUME Quotes!AnswersOK
  PROVE  /\ Quotes!Init => QuotesInv
         /\ QuotesInv /\ [Quotes!Next]_Quotes!vars => QuotesInv'
<1>1. ASSUME Quotes!Init PROVE QuotesInv
  <2>1. /\ todo = <<>> /\ run = "none" /\ price = [c \in Quotes!Codes |-> 0]
        /\ market \in [Quotes!Types -> {<<>>, <<[status |-> "open", line |-> <<>>]>>}]
    BY <1>1 DEF Quotes!Init
  <2>2. RowsShape
    <3>1. market = [t \in Quotes!Types |-> market[t]]
      BY <2>1
    <3>2. ASSUME NEW t \in Quotes!Types, market[t] # <<>>
          PROVE  market[t] = <<[status |-> market[t][1].status, line |-> market[t][1].line]>>
      <4>1. market[t] = <<[status |-> "open", line |-> <<>>]>>
        BY <2>1, <3>2
      <4> QED
        BY <4>1
    <3> QED
      BY <3>1, <3>2 DEF RowsShape, Row
  <2>3. RunShape
    BY <2>1 DEF RunShape
  <2>4. Underway /\ LineBeforePrice
    BY <2>1 DEF Underway, LineBeforePrice
  <2>5. PricedUnderALine
    BY <2>1 DEF PricedUnderALine, Quotes!Codes
  <2> QED
    BY <2>2, <2>3, <2>4, <2>5 DEF QuotesInv
<1>2. ASSUME QuotesInv, UNCHANGED Quotes!vars PROVE QuotesInv'
  <2>1. /\ market' = market /\ price' = price /\ answer' = answer /\ todo' = todo /\ run' = run
    BY <1>2 DEF Quotes!vars
  <2>2. RowsShape' /\ PricedUnderALine' /\ LineBeforePrice' /\ RunShape'
    BY <1>2, <2>1 DEF QuotesInv, RowsShape, PricedUnderALine, LineBeforePrice, RunShape, Row
  <2>3. Underway'
    BY <1>2, <2>1 DEF QuotesInv, Underway, OnItsWay, Row
  <2> QED
    BY <2>2, <2>3 DEF QuotesInv
<1>3. ASSUME QuotesInv, Quotes!Next PROVE QuotesInv'
  BY <1>3, RunKeeps, ExecuteKeeps, EndKeeps, MissingMarketsKeeps DEF Quotes!Next
<1> QED
  BY <1>1, <1>2, <1>3

-----------------------------------------------------------------------------
\* The invariant holds throughout, for the answers that can be decoded.
LEMMA QuotesHolds == Quotes!Spec => []QuotesInv
<1>1. Quotes!Init => QuotesInv
  BY AnswersAreDecoded, QuotesInductive
<1>2. QuotesInv /\ [Quotes!Next]_Quotes!vars => QuotesInv'
  BY AnswersAreDecoded, QuotesInductive
<1> QED
  BY <1>1, <1>2, PTL DEF Quotes!Spec

\* A totals price never stands without a line, however the runs ended
\* (applyTotals).
THEOREM TotalsHaveALine == Quotes!Spec => []PricedTotalsHaveALine
<1>1. QuotesInv => PricedTotalsHaveALine
  BY DEF QuotesInv, PricedUnderALine, PricedTotalsHaveALine, Quotes!PricedTotalsHaveALine, Quotes!Row, Row
<1> QED
  BY <1>1, QuotesHolds, PTL

\* After a whole run line and prices of the totals are those of the main line
\* (pickMainTotalsLine, applyTotals).
THEOREM TotalsFollowTheMainLine == Quotes!Spec => []TotalsShowTheMainLine
<1> Quotes!AnswersOK
  BY AnswersAreDecoded
<1>1. QuotesInv => TotalsShowTheMainLine
  <2> SUFFICES ASSUME QuotesInv, run = "done", market["TOTALS"] # <<>>, Offer(answer, "TOTALS") # <<>>,
                      NEW i \in DOMAIN Lines(answer, "TOTALS"), Quotes!IsMain(Lines(answer, "TOTALS"), i)
               PROVE  /\ Row("TOTALS").line = Lines(answer, "TOTALS")[i].hdp
                      /\ price["over"]  = Quotes!Stored(Lines(answer, "TOTALS")[i].over[1])
                      /\ price["under"] = Quotes!Stored(Lines(answer, "TOTALS")[i].under[1])
    BY DEF TotalsShowTheMainLine, Quotes!TotalsShowTheMainLine, Quotes!Row, Row, Offer, Lines
  <2>1. "TOTALS" \in Quotes!Types /\ answer \in Answers /\ todo = <<>>
    BY DEF Quotes!Types, QuotesInv, RunShape
  <2>2. \A s : ~Says(todo, s)
    BY <2>1 DEF Says
  <2>3. i = Best(answer, "TOTALS") /\ Best(answer, "TOTALS") # 0
    <3>1. Quotes!UsableTotals(Lines(answer, "TOTALS")[i])
      BY DEF Quotes!IsMain, Quotes!Quoted
    <3> QED
      BY <2>1, <3>1, BestIsQuoted
  <2>4. OnItsWay("TOTALS")
    BY <2>1 DEF QuotesInv, Underway
  <2>5. BestLine(answer, "TOTALS") = Lines(answer, "TOTALS")[i]
    BY <2>3 DEF BestLine
  <2> QED
    BY <2>2, <2>3, <2>4, <2>5 DEF OnItsWay, Price, Raw, Quotes!Sides
<1> QED
  BY <1>1, QuotesHolds, PTL

\* After a whole run open means quoted on both sides, and priced on both
\* (suspendMarkets, ensureStatus).
THEOREM OpenIsQuoted == Quotes!Spec => []OpenMeansQuoted
<1> Quotes!AnswersOK
  BY AnswersAreDecoded
<1>1. QuotesInv => OpenMeansQuoted
  <2> SUFFICES ASSUME QuotesInv, run = "done", NEW t \in Quotes!Types, market[t] # <<>>
               PROVE  /\ Row(t).status = "open" <=> Quotes!BothSides(t)
                      /\ Quotes!BothSides(t) => \A c \in Quotes!Sides(t) : price[c] # 0
    BY DEF OpenMeansQuoted, Quotes!OpenMeansQuoted, Quotes!Row, Row
  <2>1. answer \in Answers /\ todo = <<>>
    BY DEF QuotesInv, RunShape
  <2>2. \A s : ~Says(todo, s)
    BY <2>1 DEF Says
  <2>3. Quotes!BothSides(t) <=>
          /\ Offer(answer, t) # <<>>
          /\ \E i \in DOMAIN Lines(answer, t) :
               IF t = "ML" THEN /\ Quotes!parseOdds(Lines(answer, t)[i].home)
                                /\ Quotes!parseOdds(Lines(answer, t)[i].away)
                           ELSE Quotes!UsableTotals(Lines(answer, t)[i])
    BY DEF Quotes!BothSides, Offer, Lines
  <2>4. Quotes!BothSides(t) <=> Best(answer, t) # 0
    <3>1. ASSUME Quotes!BothSides(t) PROVE Best(answer, t) # 0
      BY <2>1, <2>3, <3>1, BestIsQuoted DEF Quotes!Types
    <3>2. ASSUME Best(answer, t) # 0 PROVE Quotes!BothSides(t)
      <4>1. /\ Offer(answer, t) # <<>> /\ Best(answer, t) \in DOMAIN Lines(answer, t)
            /\ t = "ML" => /\ Quotes!parseOdds(BestLine(answer, t).home)
                           /\ Quotes!parseOdds(BestLine(answer, t).away)
            /\ t = "TOTALS" => Quotes!UsableTotals(BestLine(answer, t))
        BY <2>1, <3>2, BestIsQuoted
      <4> QED
        BY <2>3, <4>1 DEF BestLine, Quotes!Types
    <3> QED
      BY <3>1, <3>2
  <2>5. OnItsWay(t)
    BY DEF QuotesInv, Underway
  <2>6. Row(t).status = Want(answer, t)
    BY <2>2, <2>5 DEF OnItsWay
  <2>7. ASSUME Best(answer, t) # 0, NEW c \in Quotes!Sides(t) PROVE price[c] # 0
    <3>1. price[c] = Quotes!Stored(Price(answer, t, c))
      BY <2>2, <2>5, <2>7 DEF OnItsWay
    <3>2. c \in Offered(answer, t)
      <4>1. t = "ML" => /\ Quotes!parseOdds(BestLine(answer, t).home)
                        /\ Quotes!parseOdds(BestLine(answer, t).away)
        BY <2>1, <2>7, BestIsQuoted
      <4> QED
        BY <2>7, <4>1 DEF Offered, Quotes!Sides, Raw, Quotes!Types
    <3>3. Price(answer, t, c) \in Int /\ Price(answer, t, c) > 10000
      BY <2>1, <2>7, <3>2, BestIsQuoted
    <3> QED
      BY <3>1, <3>3 DEF Quotes!Stored
  <2> QED
    BY <2>4, <2>6, <2>7 DEF Want
<1> QED
  BY <1>1, QuotesHolds, PTL
=============================================================================
