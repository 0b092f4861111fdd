-------------------------- MODULE SettlementRules --------------------------
(***************************************************************************)
(* The arithmetic and the decision rules of betting and settlement: the    *)
(* pure functions of internal/service/settlement.go and                    *)
(* internal/service/betting_service.go.  Nothing here changes state; the   *)
(* modules that move money and statuses apply these operators.             *)
(*                                                                         *)
(* Units.  Odds are NUMERIC(8,3) and are kept in thousandths; a totals     *)
(* line is NUMERIC(6,2) and is kept in hundredths.  A nullable column is a *)
(* sequence with at most one element: <<>> is NULL.                        *)
(***************************************************************************)
EXTENDS Integers, Sequences

OutcomeCodes == {"home", "draw", "away", "over", "under", "opt"}
MarketTypes  == {"ML", "TOTALS", "CUSTOM"}
Results      == {"won", "lost", "void"}
NULL         == <<>>

\* Mutants: an operator named Mutant... is a plausible mistake in the definition
\* it precedes; it shows that a property notices and nothing else refers to it.

(***************************************************************************)
(* floor(stake * odds): decimal product, then IntPart.                     *)
(***************************************************************************)
MutantRoundUp(stake, odds) == (stake * odds + 999) \div 1000

computePotentialPayout(stake, odds) == (stake * odds) \div 1000

(***************************************************************************)
(* The scores payload.  kind is what json.Unmarshal meets: no bytes at     *)
(* all, bytes that do not decode into two ints, the literal null, or an    *)
(* object whose keys may be absent (an absent key leaves the Go zero).     *)
(***************************************************************************)
PayloadKinds == {"empty", "malformed", "null", "object"}

OrZero(field) == IF field = NULL THEN 0 ELSE field[1]

MutantNegativeScores(raw) ==
  [ok   |-> raw.kind \in {"null", "object"},
   home |-> IF raw.kind = "object" THEN OrZero(raw.home) ELSE 0,
   away |-> IF raw.kind = "object" THEN OrZero(raw.away) ELSE 0]

parseScores(raw) ==
  LET home == IF raw.kind = "object" THEN OrZero(raw.home) ELSE 0
      away == IF raw.kind = "object" THEN OrZero(raw.away) ELSE 0
  IN  IF /\ raw.kind \in {"null", "object"}
         /\ home >= 0
         /\ away >= 0
        THEN [ok |-> TRUE,  home |-> home, away |-> away]
        ELSE [ok |-> FALSE, home |-> 0,    away |-> 0]

settleML(home, away) ==
  CASE home > away -> "home"
    [] away > home -> "away"
    [] OTHER       -> "draw"

MutantOverAtTheLine(home, away, line) ==
  [overWon |-> 100 * (home + away) >= line, isPush |-> FALSE]

settleTotals(home, away, line) ==
  LET total == 100 * (home + away)
  IN  [overWon |-> total > line, isPush |-> total = line]

(***************************************************************************)
(* The result one outcome of a market gets, by the type of its market.     *)
(* A TOTALS market without a line counts as "under won", as in the code.   *)
(***************************************************************************)
applyMLPlan(code, home, away) ==
  IF code = settleML(home, away) THEN "won" ELSE "lost"

applyTotalsPlan(code, home, away, line) ==
  LET verdict == IF line = NULL THEN [overWon |-> FALSE, isPush |-> FALSE]
                                ELSE settleTotals(home, away, line[1])
      winner  == IF verdict.overWon THEN "over" ELSE "under"
  IN  CASE verdict.isPush -> "void"
        [] ~verdict.isPush /\ code = winner -> "won"
        [] OTHER -> "lost"

ScoredResult(type, line, code, home, away) ==
  CASE type = "ML"     -> applyMLPlan(code, home, away)
    [] type = "TOTALS" -> applyTotalsPlan(code, home, away, line)
    [] OTHER           -> "void"

ScoredMarketStatus(type) == IF type = "CUSTOM" THEN "void" ELSE "settled"

(***************************************************************************)
(* won/lost/void have the same spelling for outcomes and for bets.         *)
(***************************************************************************)
betStatusFromResult(result) ==
  IF result \in {"won", "lost"} THEN result ELSE "void"

MutantVoidPaysOut(status, stake, payout) ==
  IF status = "lost" THEN 0 ELSE payout

\* What a decided bet brings its owner: the payout, the stake back, nothing.
Credit(status, stake, payout) ==
  CASE status = "won"  -> payout
    [] status = "void" -> stake
    [] OTHER           -> 0
=============================================================================
