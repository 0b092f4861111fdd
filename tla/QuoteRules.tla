----------------------------- MODULE QuoteRules -----------------------------
(***************************************************************************)
(* What an answer of the odds provider means for the two markets of a      *)
(* match: the pure half of internal/worker/odds_sync.go.  The result of    *)
(* applyEvent is the list of SQL statements it sends, which depends only   *)
(* on the answer and on the market rows read at its beginning; the modules *)
(* that use it run the statements one after the other.                     *)
(*                                                                         *)
(* Units.  A quoted price is in ten-thousandths (the provider's text may   *)
(* have more digits than the column), a stored price in thousandths, a     *)
(* line in hundredths.  A quote that is missing or no number is <<>>.      *)
(***************************************************************************)
EXTENDS Integers, SequencesExt

Codes == {"home", "draw", "away", "over", "under"}

\* parseOdds: a number above 1.
parseOdds(raw) == raw # <<>> /\ raw[1] > 10000

\* NUMERIC(8,3) rounds half up, and CHECK (odds > 1.0) sees the rounded price.
Stored(price) == (price + 5) \div 10

Storable(price) == Stored(price) > 1000

MutantSecondHalfMissing(lines) ==
  FoldLeft(LAMBDA best, i : IF best = 0 /\ parseOdds(lines[i].home) THEN i ELSE best,
           0, [i \in 1..Len(lines) |-> i])

\* The first line with both sides; 0 when there is none.
pickMLLine(lines) ==
  FoldLeft(LAMBDA best, i : IF best = 0 /\ parseOdds(lines[i].home) /\ parseOdds(lines[i].away)
                              THEN i ELSE best,
           0, [i \in 1..Len(lines) |-> i])

totalsTarget == 19000

Distance(a, b) == IF a > b THEN a - b ELSE b - a

Cost(l) == Distance(l.over[1], totalsTarget) + Distance(l.under[1], totalsTarget)

UsableTotals(l) == l.hdp # <<>> /\ parseOdds(l.over) /\ parseOdds(l.under)

MutantLastBest(lines) ==
  FoldLeft(LAMBDA best, i :
             IF UsableTotals(lines[i]) /\ (best = 0 \/ Cost(lines[i]) <= Cost(lines[best]))
               THEN i ELSE best,
           0, [i \in 1..Len(lines) |-> i])

\* A later line replaces the best one only if it is strictly closer to 1.90/1.90.
pickMainTotalsLine(lines) ==
  FoldLeft(LAMBDA best, i :
             IF UsableTotals(lines[i]) /\ (best = 0 \/ Cost(lines[i]) < Cost(lines[best]))
               THEN i ELSE best,
           0, [i \in 1..Len(lines) |-> i])

(***************************************************************************)
(* The answer: <<>> when the event or our bookmaker is missing in it, else *)
(* <<offers>>, a sequence of [name, lines].  Names are trimmed and in      *)
(* lower case; isTotalsName takes every name that contains "total".        *)
(***************************************************************************)
isMLName     == {"ml", "moneyline", "money line", "1x2"}
isTotalsName == {"totals", "corners totals", "over/under", "o/u"}

\* findBookmakerMarkets and findMarket: the first offer with such a name.
findMarket(answer, names) ==
  LET found == IF answer = <<>> THEN {} ELSE {i \in DOMAIN answer[1] : answer[1][i].name \in names}
  IN  IF found = {} THEN <<>> ELSE <<answer[1][Min(found)]>>

(***************************************************************************)
(* Statements.  A market row is [status, line]; a table without the market *)
(* holds <<>> in its place.                                                *)
(***************************************************************************)
SetStatus(t, to)       == [op |-> "status", market |-> t, to |-> to]
SetLine(hdp)           == [op |-> "line", market |-> "TOTALS", line |-> hdp]
Upsert(t, code, price) == [op |-> "upsert", market |-> t, code |-> code, price |-> price]

ensureStatus(t, row, want) ==
  IF row.status = want THEN <<>> ELSE <<SetStatus(t, want)>>

upsertIfQuoted(t, code, raw) ==
  IF parseOdds(raw) THEN <<Upsert(t, code, raw[1])>> ELSE <<>>

applyML(row, lines) ==
  LET i == pickMLLine(lines)
  IN  IF i = 0
        THEN ensureStatus("ML", row, "suspended")
        ELSE upsertIfQuoted("ML", "home", lines[i].home)
             \o upsertIfQuoted("ML", "draw", lines[i].draw)
             \o upsertIfQuoted("ML", "away", lines[i].away)
             \o ensureStatus("ML", row, "open")

MutantLineLast(row, lines) ==
  LET i == pickMainTotalsLine(lines)
  IN  IF i = 0
        THEN ensureStatus("TOTALS", row, "suspended")
        ELSE <<Upsert("TOTALS", "over", lines[i].over[1]),
               Upsert("TOTALS", "under", lines[i].under[1])>>
             \o (IF row.line = lines[i].hdp THEN <<>> ELSE <<SetLine(lines[i].hdp)>>)
             \o ensureStatus("TOTALS", row, "open")

applyTotals(row, lines) ==
  LET i == pickMainTotalsLine(lines)
  IN  IF i = 0
        THEN ensureStatus("TOTALS", row, "suspended")
        ELSE (IF row.line = lines[i].hdp THEN <<>> ELSE <<SetLine(lines[i].hdp)>>)
             \o <<Upsert("TOTALS", "over", lines[i].over[1]),
                  Upsert("TOTALS", "under", lines[i].under[1])>>
             \o ensureStatus("TOTALS", row, "open")

\* applyEvent and suspendMarkets: a market without an offer is suspended.
applyMarket(t, row, offer) ==
  CASE row = <<>> -> <<>>
    [] row # <<>> /\ offer = <<>> -> ensureStatus(t, row[1], "suspended")
    [] row # <<>> /\ offer # <<>> /\ t = "ML"     -> applyML(row[1], offer[1].lines)
    [] row # <<>> /\ offer # <<>> /\ t = "TOTALS" -> applyTotals(row[1], offer[1].lines)

applyEvent(rows, answer) ==
  applyMarket("ML", rows["ML"], findMarket(answer, isMLName))
  \o applyMarket("TOTALS", rows["TOTALS"], findMarket(answer, isTotalsName))
=============================================================================
