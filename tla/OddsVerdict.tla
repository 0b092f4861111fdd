----------------------------- MODULE OddsVerdict -----------------------------
(***************************************************************************)
(* One upcoming match and OddsSync alone: a run reads the market rows,     *)
(* gets an answer of the provider and sends the statements of applyEvent;  *)
(* a statement the database refuses ends the run for this match.  Nobody   *)
(* else writes here: the module is about what the answers mean, about the  *)
(* order of the statements and about runs that end half way.               *)
(***************************************************************************)
EXTENDS QuoteRules

CONSTANTS Answers     \* what the provider may answer

\* Offers and lines are lists, quotes are numbers.
Numbers(quotes) == \A raw \in quotes : raw # <<>> => raw[1] \in Int

AnswersOK ==
  \A a \in Answers : a # <<>> =>
    /\ a[1] \in Seq(Range(a[1]))
    /\ \A o \in Range(a[1]) :
         /\ o.lines \in Seq(Range(o.lines))
         /\ \A l \in Range(o.lines) :
              /\ o.name \in isMLName     => Numbers({l.home, l.draw, l.away})
              /\ o.name \in isTotalsName => Numbers({l.over, l.under})

VARIABLES
  market,    \* the two rows of markets, <<>> when EventSync has not made one
  price,     \* outcomes.odds by code, 0 when there is no such row
  answer, todo,
  run        \* how far the run is: "none", "on", "done", "refused", "aborted"

vars == <<market, price, answer, todo, run>>

Types == {"ML", "TOTALS"}

\* ensureMarkets may have failed after the event or after its first market.
Init ==
  /\ market \in [Types -> {<<>>, <<[status |-> "open", line |-> <<>>]>>}]
  /\ market["ML"] = <<>> => market["TOTALS"] = <<>>
  /\ price = [c \in Codes |-> 0]
  /\ answer = <<>>
  /\ todo = <<>>
  /\ run = "none"

Run ==
  /\ run # "on"
  /\ \E a \in Answers : /\ answer' = a
                        /\ todo' = applyEvent(market, a)
                        /\ run' = IF todo' = <<>> THEN "done" ELSE "on"
  /\ UNCHANGED <<market, price>>

Statement == Head(todo)

\* The row of the table after one UPDATE of it.
Updated(row) ==
  CASE Statement.op = "status" -> <<[row[1] EXCEPT !.status = Statement.to]>>
    [] Statement.op = "line"   -> <<[row[1] EXCEPT !.line = Statement.line]>>
    [] Statement.op = "upsert" -> row

Execute ==
  /\ run = "on"
  /\ Statement.op = "upsert" => Storable(Statement.price)
  /\ market' = [market EXCEPT ![Statement.market] = Updated(@)]
  /\ price' = IF Statement.op = "upsert"
                THEN [price EXCEPT ![Statement.code] = Stored(Statement.price)] ELSE price
  /\ todo' = Tail(todo)
  /\ run' = IF todo' = <<>> THEN "done" ELSE "on"
  /\ UNCHANGED answer

\* CHECK (odds > 1.0) fails: applyEvent returns the error, Run logs it.
Refuse ==
  /\ run = "on"
  /\ Statement.op = "upsert" /\ ~Storable(Statement.price)
  /\ todo' = <<>>
  /\ run' = "refused"
  /\ UNCHANGED <<market, price, answer>>

\* The connection or the context is gone between two statements.
Abort ==
  /\ run = "on"
  /\ todo' = <<>>
  /\ run' = "aborted"
  /\ UNCHANGED <<market, price, answer>>

\* EventSync comes back to a match without its markets.
MissingMarkets ==
  /\ run # "on"
  /\ \E t \in Types : market[t] = <<>>
  /\ market' = [t \in Types |-> IF market[t] = <<>>
                                  THEN <<[status |-> "open", line |-> <<>>]>> ELSE market[t]]
  /\ run' = "none"
  /\ UNCHANGED <<price, answer, todo>>

Next == Run \/ Execute \/ Refuse \/ Abort \/ MissingMarkets

Spec == Init /\ [][Next]_vars

-----------------------------------------------------------------------------
Row(t) == market[t][1]

\* Totals can be bet on only under a line: applyTotals writes the line before
\* the first outcome, so a run that dies in between leaves no price without
\* one.  (applyTotalsPlan takes a missing line for a victory of under.)
PricedTotalsHaveALine ==
  price["over"] # 0 \/ price["under"] # 0 => Row("TOTALS").line # <<>>

\* The best lines of an offer, in words: quoted on both sides, nothing closer
\* to 1.90/1.90 on offer; of two equals the one listed first.
Quoted(lines) == {i \in DOMAIN lines : UsableTotals(lines[i])}

IsMain(lines, i) ==
  /\ i \in Quoted(lines)
  /\ \A j \in Quoted(lines) : /\ Cost(lines[i]) <= Cost(lines[j])
                              /\ j < i => Cost(lines[i]) < Cost(lines[j])

\* After a whole run, line and both prices of the totals market are those of one
\* and the same offered line, the main one (pickMainTotalsLine, applyTotals).
TotalsShowTheMainLine ==
  LET offer == findMarket(answer, isTotalsName)
  IN  run = "done" /\ market["TOTALS"] # <<>> /\ offer # <<>> =>
        LET lines == offer[1].lines
        IN  \A i \in DOMAIN lines : IsMain(lines, i) =>
              /\ Row("TOTALS").line = lines[i].hdp
              /\ price["over"]  = Stored(lines[i].over[1])
              /\ price["under"] = Stored(lines[i].under[1])

\* After a whole run a market is open exactly when the answer quotes it on both
\* sides, and is then priced on both: nobody can bet at the odds of a market the
\* bookmaker has withdrawn (suspendMarkets, ensureStatus).
BothSides(t) ==
  LET offer == findMarket(answer, IF t = "ML" THEN isMLName ELSE isTotalsName)
  IN  offer # <<>> /\ \E l \in {offer[1].lines[i] : i \in DOMAIN offer[1].lines} :
        IF t = "ML" THEN parseOdds(l.home) /\ parseOdds(l.away) ELSE UsableTotals(l)

Sides(t) == IF t = "ML" THEN {"home", "away"} ELSE {"over", "under"}

OpenMeansQuoted ==
  run = "done" =>
    \A t \in Types : market[t] # <<>> =>
      /\ Row(t).status = "open" <=> BothSides(t)
      /\ BothSides(t) => \A c \in Sides(t) : price[c] # 0
=============================================================================
