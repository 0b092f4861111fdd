-------------------------- MODULE MatchDesk_proofs --------------------------
(***************************************************************************)
(* Theorems about MatchDesk, for any administrators, events, markets,      *)
(* outcomes, prices and scores.  The inductive invariant adds to TypeOK    *)
(* and BoardTellsOneStory what the open transactions consist of: the       *)
(* UPDATEs of one of the calls.                                            *)
(***************************************************************************)
EXTENDS MatchDesk, TLAPS

\* The open transaction of a is that of a call.
ScriptOK(a) ==
  \/ script[a] = {}
  \/ \E e \in Events :
       \/ script[a] = GoLive(e)
       \/ script[a] = CallOff(e)
       \/ \E score \in Scores : SourceOf[e] = "manual" /\ script[a] = Score(e, score)
       \/ \E winner \in Outcomes : SourceOf[e] = "custom" /\ script[a] = Settle(e, winner)
       \/ \E ids \in Edits, price \in Prices, details, question \in BOOLEAN :
            ValidOdds(price) /\ script[a] = Change(e, ids, price, details, question)

ScriptsOK ==
  /\ script = [a \in Admins |-> script[a]]
  /\ todo = [a \in Admins |-> todo[a]]
  /\ \A a \in Admins : ScriptOK(a)

IInv == TypeOK /\ ScriptsOK /\ BoardTellsOneStory

-----------------------------------------------------------------------------
\* The verdict on an outcome is a result.
LEMMA VerdictIsResult ==
  ASSUME NEW type, NEW line, NEW code, NEW home, NEW away
  PROVE  ScoredResult(type, line, code, home, away) \in Results
BY DEF ScoredResult, applyMLPlan, applyTotalsPlan, Results

\* A row that the transaction does not touch stays as it is.
LEMMA Untouched ==
  ASSUME NEW a, NEW table, NEW id, NEW row,
         \A u \in script[a] : ~(u.table = table /\ u.id = id)
  PROVE  Written(a, table, id, row) = row
BY DEF Written

\* A row that one UPDATE names gets its columns.
LEMMA TouchedOnce ==
  ASSUME NEW a, NEW u \in script[a], NEW row,
         \A v \in script[a] : v.table = u.table /\ v.id = u.id => v = u
  PROVE  Written(a, u.table, u.id, row)
           = [c \in DOMAIN row |-> IF c \in DOMAIN u.cols THEN u.cols[c] ELSE row[c]]
<1> DEFINE mine == {v \in script[a] : v.table = u.table /\ v.id = u.id}
<1>1. mine = {u}
  OBVIOUS
<1>2. (CHOOSE v \in mine : TRUE) = u
  BY <1>1
<1> QED
  BY <1>1, <1>2 DEF Written

\* What the commit of a settlement or a cancellation leaves on the board.
LEMMA PlanWritten ==
  ASSUME TypeOK, NEW a \in Admins, NEW e \in Events, NEW final, NEW scores, NEW status, NEW result,
         script[a] = applyPlan(e, final, scores, status, result), Commit(a)
  PROVE  /\ event' = [event EXCEPT ![e] = [status |-> final, scores |-> scores]]
         /\ market' = [m \in Markets |-> IF m \in MarketsOf(e) THEN status[m] ELSE market[m]]
         /\ outcome' = [o \in Outcomes |->
                          IF o \in OutcomesOf(e) THEN [odds |-> outcome[o].odds, result |-> result[o]]
                                                 ELSE outcome[o]]
<1>1. ASSUME NEW x \in Events
      PROVE  Written(a, "events", x, event[x])
               = IF x = e THEN [status |-> final, scores |-> scores] ELSE event[x]
  <2>1. CASE x = e
    <3> DEFINE u == UpdateEvent(4, e, [status |-> final, scores |-> scores])
    <3>1. u \in script[a] /\ \A v \in script[a] : v.table = "events" /\ v.id = e => v = u
      BY DEF applyPlan, UpdateEvent, UpdateMarket, UpdateOutcome
    <3>2. u.table = "events" /\ u.id = e /\ u.cols = [status |-> final, scores |-> scores]
      BY DEF UpdateEvent
    <3> HIDE DEF u
    <3>3. Written(a, "events", e, event[e])
            = [c \in DOMAIN event[e] |-> IF c \in DOMAIN u.cols THEN u.cols[c] ELSE event[e][c]]
      BY <3>1, <3>2, TouchedOnce
    <3>4. DOMAIN event[e] = {"status", "scores"}
      BY DEF TypeOK
    <3> QED
      BY <2>1, <3>2, <3>3, <3>4
  <2>2. CASE x # e
    <3>1. \A v \in script[a] : ~(v.table = "events" /\ v.id = x)
      BY <2>2 DEF applyPlan, UpdateEvent, UpdateMarket, UpdateOutcome
    <3> QED
      BY <2>2, <3>1, Untouched
  <2> QED
    BY <2>1, <2>2
<1>2. ASSUME NEW m \in Markets
      PROVE  Written(a, "markets", m, [status |-> market[m]]).status
               = IF m \in MarketsOf(e) THEN status[m] ELSE market[m]
  <2>1. CASE m \in MarketsOf(e)
    <3> DEFINE u == UpdateMarket(m, [status |-> status[m]])
               row == [status |-> market[m]]
    <3>1. u \in script[a] /\ \A v \in script[a] : v.table = "markets" /\ v.id = m => v = u
      BY <2>1 DEF applyPlan, UpdateEvent, UpdateMarket, UpdateOutcome
    <3>2. u.table = "markets" /\ u.id = m /\ u.cols = [status |-> status[m]]
      BY DEF UpdateMarket
    <3> HIDE DEF u
    <3>3. Written(a, "markets", m, row)
            = [c \in DOMAIN row |-> IF c \in DOMAIN u.cols THEN u.cols[c] ELSE row[c]]
      BY <3>1, <3>2, TouchedOnce
    <3> QED
      BY <2>1, <3>2, <3>3
  <2>2. CASE m \notin MarketsOf(e)
    <3>1. \A v \in script[a] : ~(v.table = "markets" /\ v.id = m)
      BY <2>2 DEF applyPlan, UpdateEvent, UpdateMarket, UpdateOutcome
    <3>2. Written(a, "markets", m, [status |-> market[m]]) = [status |-> market[m]]
      BY <3>1, Untouched
    <3> QED
      BY <2>2, <3>2
  <2> QED
    BY <2>1, <2>2
<1>3. ASSUME NEW o \in Outcomes
      PROVE  Written(a, "outcomes", o, outcome[o])
               = IF o \in OutcomesOf(e) THEN [odds |-> outcome[o].odds, result |-> result[o]]
                                        ELSE outcome[o]
  <2>1. CASE o \in OutcomesOf(e)
    <3> DEFINE u == UpdateOutcome(o, o, [result |-> result[o]])
    <3>1. u \in script[a] /\ \A v \in script[a] : v.table = "outcomes" /\ v.id = o => v = u
      BY <2>1 DEF applyPlan, UpdateEvent, UpdateMarket, UpdateOutcome
    <3>2. u.table = "outcomes" /\ u.id = o /\ u.cols = [result |-> result[o]]
      BY DEF UpdateOutcome
    <3> HIDE DEF u
    <3>3. Written(a, "outcomes", o, outcome[o])
            = [c \in DOMAIN outcome[o] |-> IF c \in DOMAIN u.cols THEN u.cols[c] ELSE outcome[o][c]]
      BY <3>1, <3>2, TouchedOnce
    <3>4. outcome[o] \in [odds: {0} \cup {p \in Prices : p > 1000}, result: {"none"} \cup Results]
      BY DEF TypeOK
    <3> QED
      BY <2>1, <3>2, <3>3, <3>4
  <2>2. CASE o \notin OutcomesOf(e)
    <3>1. \A v \in script[a] : ~(v.table = "outcomes" /\ v.id = o)
      BY <2>2 DEF applyPlan, UpdateEvent, UpdateMarket, UpdateOutcome
    <3> QED
      BY <2>2, <3>1, Untouched
  <2> QED
    BY <2>1, <2>2
<1> QED
  BY <1>1, <1>2, <1>3, ZenonT(60) DEF Commit, TypeOK

\* What the commit of SetMatchStatus leaves on the board.
LEMMA GoLiveWritten ==
  ASSUME TypeOK, NEW a \in Admins, NEW e \in Events, script[a] = GoLive(e), Commit(a)
  PROVE  /\ event' = [event EXCEPT ![e] = [status |-> "live", scores |-> event[e].scores]]
         /\ market' = [m \in Markets |-> IF m \in MarketsOf(e) THEN "suspended" ELSE market[m]]
         /\ outcome' = outcome
<1>1. ASSUME NEW x \in Events
      PROVE  Written(a, "events", x, event[x])
               = IF x = e THEN [status |-> "live", scores |-> event[e].scores] ELSE event[x]
  <2>1. CASE x = e
    <3> DEFINE u == UpdateEvent(1, e, [status |-> "live"])
    <3>1. u \in script[a] /\ \A v \in script[a] : v.table = "events" /\ v.id = e => v = u
      BY DEF GoLive, UpdateEvent, UpdateMarket
    <3>2. u.table = "events" /\ u.id = e /\ u.cols = [status |-> "live"]
      BY DEF UpdateEvent
    <3> HIDE DEF u
    <3>3. Written(a, "events", e, event[e])
            = [c \in DOMAIN event[e] |-> IF c \in DOMAIN u.cols THEN u.cols[c] ELSE event[e][c]]
      BY <3>1, <3>2, TouchedOnce
    <3>4. DOMAIN event[e] = {"status", "scores"}
      BY DEF TypeOK
    <3> QED
      BY <2>1, <3>2, <3>3, <3>4
  <2>2. CASE x # e
    <3>1. \A v \in script[a] : ~(v.table = "events" /\ v.id = x)
      BY <2>2 DEF GoLive, UpdateEvent, UpdateMarket
    <3> QED
      BY <2>2, <3>1, Untouched
  <2> QED
    BY <2>1, <2>2
<1>2. ASSUME NEW m \in Markets
      PROVE  Written(a, "markets", m, [status |-> market[m]]).status
               = IF m \in MarketsOf(e) THEN "suspended" ELSE market[m]
  <2>1. CASE m \in MarketsOf(e)
    <3> DEFINE u == UpdateMarket(m, [status |-> "suspended"])
               row == [status |-> market[m]]
    <3>1. u \in script[a] /\ \A v \in script[a] : v.table = "markets" /\ v.id = m => v = u
      BY <2>1 DEF GoLive, UpdateEvent, UpdateMarket
    <3>2. u.table = "markets" /\ u.id = m /\ u.cols = [status |-> "suspended"]
      BY DEF UpdateMarket
    <3> HIDE DEF u
    <3>3. Written(a, "markets", m, row)
            = [c \in DOMAIN row |-> IF c \in DOMAIN u.cols THEN u.cols[c] ELSE row[c]]
      BY <3>1, <3>2, TouchedOnce
    <3> QED
      BY <2>1, <3>2, <3>3
  <2>2. CASE m \notin MarketsOf(e)
    <3>1. \A v \in script[a] : ~(v.table = "markets" /\ v.id = m)
      BY <2>2 DEF GoLive, UpdateEvent, UpdateMarket
    <3>2. Written(a, "markets", m, [status |-> market[m]]) = [status |-> market[m]]
      BY <3>1, Untouched
    <3> QED
      BY <2>2, <3>2
  <2> QED
    BY <2>1, <2>2
<1>3. ASSUME NEW o \in Outcomes
      PROVE  Written(a, "outcomes", o, outcome[o]) = outcome[o]
  <2>1. \A v \in script[a] : ~(v.table = "outcomes" /\ v.id = o)
    BY DEF GoLive, UpdateEvent, UpdateMarket
  <2> QED
    BY <2>1, Untouched
<1> QED
  BY <1>1, <1>2, <1>3, ZenonT(60) DEF Commit, TypeOK

\* The commit of an edit changes odds, to valid ones, and nothing else.
LEMMA ChangeWritten ==
  ASSUME TypeOK, NEW a \in Admins, NEW e \in Events, NEW ids \in Edits, NEW price \in Prices,
         NEW details \in BOOLEAN, NEW question \in BOOLEAN, ValidOdds(price),
         script[a] = Change(e, ids, price, details, question), Commit(a)
  PROVE  /\ event' = event
         /\ market' = market
         /\ outcome' \in [Outcomes -> [odds: {0} \cup {p \in Prices : p > 1000},
                                      result: {"none"} \cup Results]]
         /\ \A o \in Outcomes : outcome'[o].result = outcome[o].result
<1>1. \A u \in script[a] : /\ u.table \in {"events", "markets"} => u.cols = NoColumns
                           /\ u.table = "outcomes" => u.cols = [odds |-> price]
  BY DEF Change, UpdateEvent, UpdateMarket, UpdateOutcome
<1>2. \A c : c \notin DOMAIN NoColumns
  BY DEF NoColumns
<1>3. ASSUME NEW x \in Events
      PROVE  Written(a, "events", x, event[x]) = event[x]
  <2>1. event[x] = [c \in DOMAIN event[x] |-> event[x][c]]
    BY DEF TypeOK
  <2>2. CASE \E u \in script[a] : u.table = "events" /\ u.id = x
    BY <1>1, <1>2, <2>1, <2>2 DEF Written
  <2>3. CASE ~\E u \in script[a] : u.table = "events" /\ u.id = x
    BY <2>3, Untouched
  <2> QED
    BY <2>2, <2>3
<1>4. ASSUME NEW m \in Markets
      PROVE  Written(a, "markets", m, [status |-> market[m]]).status = market[m]
  <2>1. CASE \E u \in script[a] : u.table = "markets" /\ u.id = m
    BY <1>1, <1>2, <2>1 DEF Written
  <2>2. CASE ~\E u \in script[a] : u.table = "markets" /\ u.id = m
    BY <2>2, Untouched
  <2> QED
    BY <2>1, <2>2
<1>5. ASSUME NEW o \in Outcomes
      PROVE  /\ Written(a, "outcomes", o, outcome[o])
                  \in [odds: {0} \cup {p \in Prices : p > 1000}, result: {"none"} \cup Results]
             /\ Written(a, "outcomes", o, outcome[o]).result = outcome[o].result
  <2>1. outcome[o] \in [odds: {0} \cup {p \in Prices : p > 1000}, result: {"none"} \cup Results]
    BY DEF TypeOK
  <2>2. CASE \E u \in script[a] : u.table = "outcomes" /\ u.id = o
    <3>1. Written(a, "outcomes", o, outcome[o])
            = [c \in DOMAIN outcome[o] |-> IF c \in {"odds"} THEN price ELSE outcome[o][c]]
      BY <1>1, <2>2 DEF Written
    <3>2. Written(a, "outcomes", o, outcome[o]) = [odds |-> price, result |-> outcome[o].result]
      BY <2>1, <3>1
    <3> QED
      BY <2>1, <3>2 DEF ValidOdds
  <2>3. CASE ~\E u \in script[a] : u.table = "outcomes" /\ u.id = o
    BY <2>1, <2>3, Untouched
  <2> QED
    BY <2>2, <2>3
<1> QED
  BY <1>3, <1>4, <1>5 DEF Commit, TypeOK

-----------------------------------------------------------------------------
\* The invariant in the beginning.
LEMMA InitIInv == Init => IInv
<1> SUFFICES ASSUME Init PROVE IInv
  OBVIOUS
<1>1. TypeOK
  BY DeskConstantsOK DEF Init, TypeOK, Status
<1>2. ScriptsOK
  BY DEF Init, ScriptsOK, ScriptOK
<1>3. BoardTellsOneStory
  BY DEF Init, BoardTellsOneStory, Story, MarketsOf
<1> QED
  BY <1>1, <1>2, <1>3 DEF IInv

\* The story of an event depends on its row, its markets and its results only.
LEMMA SameStory ==
  ASSUME NEW e \in Events, Story(e), event'[e] = event[e],
         \A m \in MarketsOf(e) : market'[m] = market[m],
         \A o \in OutcomesOf(e) : outcome'[o].result = outcome[o].result
  PROVE  Story(e)'
BY DEF Story, Shows

\* Only the event of a market or of an outcome is disturbed by a change of them.
LEMMA OtherRows ==
  ASSUME NEW e \in Events, NEW x \in Events, x # e
  PROVE  /\ \A m \in MarketsOf(x) : m \in Markets /\ m \notin MarketsOf(e)
         /\ \A o \in OutcomesOf(x) : o \in Outcomes /\ o \notin OutcomesOf(e)
BY DEF MarketsOf, OutcomesOf

\* Opening the transaction of a call.
LEMMA OpenIInv ==
  ASSUME IInv, NEW a \in Admins, NEW updates, Open(a, updates), ScriptOK(a)'
  PROVE  IInv'
<1> USE DEF IInv
<1>1. TypeOK'
  <2>1. \A b \in Admins : todo'[b] \subseteq script'[b]
    BY DEF Open, TypeOK, ScriptsOK
  <2> QED
    BY <2>1 DEF Open, Board, TypeOK
<1>2. ScriptsOK'
  <2>1. ASSUME NEW b \in Admins
        PROVE  ScriptOK(b)'
    <3>1. CASE b = a
      BY <3>1
    <3>2. CASE b # a
      <4>1. script'[b] = script[b]
        BY <3>2 DEF Open, ScriptsOK
      <4> QED
        BY <4>1 DEF ScriptsOK, ScriptOK
    <3> QED
      BY <3>1, <3>2
  <2>2. /\ script' = [b \in Admins |-> script'[b]]
        /\ todo' = [b \in Admins |-> todo'[b]]
    BY DEF Open, ScriptsOK
  <2> QED
    BY <2>1, <2>2 DEF ScriptsOK
<1>3. BoardTellsOneStory'
  BY SameStory DEF Open, Board, BoardTellsOneStory
<1> QED
  BY <1>1, <1>2, <1>3

\* A transaction that ends, with or without effect, leaves the others' open.
LEMMA EndTxScripts ==
  ASSUME IInv, NEW a \in Admins, EndTx(a)
  PROVE  /\ ScriptsOK'
         /\ \A b \in Admins : todo'[b] \subseteq script'[b]
<1> USE DEF IInv
<1>1. ASSUME NEW b \in Admins
      PROVE  ScriptOK(b)' /\ todo'[b] \subseteq script'[b]
  <2>1. CASE b = a
    BY <2>1 DEF EndTx, ScriptsOK, ScriptOK
  <2>2. CASE b # a
    <3>1. script'[b] = script[b] /\ todo'[b] = todo[b]
      BY <2>2 DEF EndTx, ScriptsOK
    <3> QED
      BY <3>1 DEF ScriptsOK, ScriptOK, TypeOK
  <2> QED
    BY <2>1, <2>2
<1>2. /\ script' = [b \in Admins |-> script'[b]]
      /\ todo' = [b \in Admins |-> todo'[b]]
  BY DEF EndTx, ScriptsOK
<1> QED
  BY <1>1, <1>2 DEF ScriptsOK

\* A call fixes its UPDATEs.
LEMMA CallIInv ==
  ASSUME IInv, NEW a \in Admins, Call(a)
  PROVE  IInv'
<1> PICK e \in Events :
      \/ \E price \in Prices : Create(a, e, price)
      \/ \E ids \in Edits, price \in Prices, details \in BOOLEAN, question \in BOOLEAN :
           Edit(a, e, ids, price, details, question)
      \/ SetMatchStatus(a, e)
      \/ \E scores \in Scores : SetMatchScores(a, e, scores)
      \/ Cancel(a, e)
      \/ \E winner \in Outcomes : SettleCustom(a, e, winner)
  BY DEF Call, CreateRequest, EditRequest, ScoresRequest, SettleRequest
<1>1. ASSUME NEW price \in Prices, Create(a, e, price)
      PROVE  IInv'
  <2>1. TypeOK'
    BY <1>1 DEF IInv, TypeOK, Status, Create, ValidOdds
  <2>2. ScriptsOK'
    BY <1>1 DEF IInv, Create, ScriptsOK, ScriptOK
  <2>3. ASSUME NEW x \in Events
        PROVE  Story(x)'
    <3>1. CASE x = e
      <4>1. event'[e].status = "upcoming"
        BY <1>1 DEF Create, IInv, TypeOK
      <4>2. event'[e].scores = NULL
        <5>1. event[e].scores = NULL
          BY <1>1 DEF Create, IInv, BoardTellsOneStory, Story
        <5>2. event'[e].scores = event[e].scores
          BY <1>1 DEF Create, IInv, TypeOK
        <5> QED
          BY <5>1, <5>2
      <4>3. /\ \A m \in MarketsOf(e) : market'[m] = "open"
            /\ \A o \in OutcomesOf(e) : outcome'[o].result = "none"
        BY <1>1 DEF Create, MarketsOf, OutcomesOf
      <4> QED
        BY <3>1, <4>1, <4>2, <4>3 DEF Story, Shows
    <3>2. CASE x # e
      <4>1. event'[x] = event[x]
        BY <1>1, <3>2 DEF Create, IInv, TypeOK
      <4>2. /\ \A m \in MarketsOf(x) : market'[m] = market[m]
            /\ \A o \in OutcomesOf(x) : outcome'[o] = outcome[o]
        BY <1>1, <3>2, OtherRows DEF Create
      <4> QED
        BY <4>1, <4>2, SameStory DEF IInv, BoardTellsOneStory
    <3> QED
      BY <3>1, <3>2
  <2> QED
    BY <2>1, <2>2, <2>3 DEF IInv, BoardTellsOneStory
<1>2. ASSUME NEW ids \in Edits, NEW price \in Prices, NEW details \in BOOLEAN,
             NEW question \in BOOLEAN, Edit(a, e, ids, price, details, question)
      PROVE  IInv'
  <2>1. ValidOdds(price) /\ Open(a, Change(e, ids, price, details, question))
    BY <1>2 DEF Edit
  <2>2. ScriptOK(a)'
    BY <2>1 DEF Open, IInv, ScriptsOK, ScriptOK
  <2> QED
    BY <2>1, <2>2, OpenIInv
<1>3. ASSUME SetMatchStatus(a, e)
      PROVE  IInv'
  <2>1. Open(a, GoLive(e))
    BY <1>3 DEF SetMatchStatus
  <2>2. ScriptOK(a)'
    BY <2>1 DEF Open, IInv, ScriptsOK, ScriptOK
  <2> QED
    BY <2>1, <2>2, OpenIInv
<1>4. ASSUME NEW scores \in Scores, SetMatchScores(a, e, scores)
      PROVE  IInv'
  <2>1. SourceOf[e] = "manual" /\ Open(a, Score(e, scores))
    BY <1>4 DEF SetMatchScores
  <2>2. ScriptOK(a)'
    BY <2>1 DEF Open, IInv, ScriptsOK, ScriptOK
  <2> QED
    BY <2>1, <2>2, OpenIInv
<1>5. ASSUME Cancel(a, e)
      PROVE  IInv'
  <2>1. Open(a, CallOff(e))
    BY <1>5 DEF Cancel
  <2>2. ScriptOK(a)'
    BY <2>1 DEF Open, IInv, ScriptsOK, ScriptOK
  <2> QED
    BY <2>1, <2>2, OpenIInv
<1>6. ASSUME NEW winner \in Outcomes, SettleCustom(a, e, winner)
      PROVE  IInv'
  <2>1. SourceOf[e] = "custom" /\ Open(a, Settle(e, winner))
    BY <1>6 DEF SettleCustom
  <2>2. ScriptOK(a)'
    BY <2>1 DEF Open, IInv, ScriptsOK, ScriptOK
  <2> QED
    BY <2>1, <2>2, OpenIInv
<1> QED
  BY <1>1, <1>2, <1>3, <1>4, <1>5, <1>6

\* A settlement or a cancellation that fits its event and is written whole.
LEMMA PlanIInv ==
  ASSUME IInv, NEW a \in Admins, NEW e \in Events, NEW final \in {"settled", "cancelled"},
         NEW scores \in {NULL} \cup Scores, NEW status, NEW result,
         \A m \in MarketsOf(e) : status[m] \in {"settled", "void"},
         \A o \in OutcomesOf(e) : result[o] \in Results,
         \/ /\ final = "settled" /\ SourceOf[e] = "manual" /\ scores \in Scores
            /\ status = ScoredStatus(e) /\ result = ScoredResults(e, scores)
         \/ /\ final = "settled" /\ SourceOf[e] = "custom" /\ scores = NULL
            /\ \E winner \in Outcomes :
                 status = PickedStatus(e, winner) /\ result = PickedResults(e, winner)
         \/ /\ final = "cancelled" /\ scores = NULL
            /\ status = VoidStatus(e) /\ result = VoidResults(e),
         script[a] = applyPlan(e, final, scores, status, result), Commit(a)
  PROVE  IInv'
<1> USE DEF IInv
<1>1. /\ event' = [event EXCEPT ![e] = [status |-> final, scores |-> scores]]
      /\ market' = [m \in Markets |-> IF m \in MarketsOf(e) THEN status[m] ELSE market[m]]
      /\ outcome' = [o \in Outcomes |->
                       IF o \in OutcomesOf(e) THEN [odds |-> outcome[o].odds, result |-> result[o]]
                                              ELSE outcome[o]]
  BY PlanWritten
<1>2. ScriptsOK' /\ \A b \in Admins : todo'[b] \subseteq script'[b]
  BY EndTxScripts DEF Commit
<1>3. TypeOK'
  <2>1. event' \in [Events -> [status: Status, scores: {NULL} \cup Scores]]
    BY <1>1 DEF TypeOK, Status
  <2>2. market' \in [Markets -> {"none", "open", "suspended", "settled", "void"}]
    BY <1>1 DEF TypeOK
  <2>3. outcome' \in [Outcomes -> [odds: {0} \cup {p \in Prices : p > 1000},
                                  result: {"none"} \cup Results]]
    BY <1>1 DEF TypeOK
  <2> QED
    BY <1>2, <2>1, <2>2, <2>3 DEF TypeOK, Commit
<1>4. ASSUME NEW x \in Events
      PROVE  Story(x)'
  <2>1. CASE x = e
    <3>1. Shows(e, scores, status, result)'
      BY <1>1 DEF Shows, TypeOK, MarketsOf, OutcomesOf
    <3>2. event'[e].status = final
      BY <1>1 DEF TypeOK
    <3> QED
      BY <2>1, <3>1, <3>2, DeskConstantsOK DEF Story
  <2>2. CASE x # e
    <3>1. event'[x] = event[x]
      BY <1>1, <2>2 DEF TypeOK
    <3>2. /\ \A m \in MarketsOf(x) : market'[m] = market[m]
          /\ \A o \in OutcomesOf(x) : outcome'[o] = outcome[o]
      BY <1>1, <2>2, OtherRows
    <3> QED
      BY <3>1, <3>2, SameStory DEF BoardTellsOneStory
  <2> QED
    BY <2>1, <2>2
<1> QED
  BY <1>2, <1>3, <1>4 DEF BoardTellsOneStory

\* A commit leaves what its UPDATEs say.
LEMMA CommitIInv ==
  ASSUME IInv, NEW a \in Admins, Commit(a)
  PROVE  IInv'
<1> USE DEF IInv
<1>1. PICK e \in Events :
        \/ script[a] = GoLive(e)
        \/ script[a] = CallOff(e)
        \/ \E score \in Scores : SourceOf[e] = "manual" /\ script[a] = Score(e, score)
        \/ \E winner \in Outcomes : SourceOf[e] = "custom" /\ script[a] = Settle(e, winner)
        \/ \E ids \in Edits, price \in Prices, details, question \in BOOLEAN :
             ValidOdds(price) /\ script[a] = Change(e, ids, price, details, question)
  BY DEF Commit, Idle, ScriptsOK, ScriptOK
<1>2. ScriptsOK' /\ \A b \in Admins : todo'[b] \subseteq script'[b]
  BY EndTxScripts DEF Commit
<1>3. CASE script[a] = GoLive(e)
  <2>1. /\ event' = [event EXCEPT ![e] = [status |-> "live", scores |-> event[e].scores]]
        /\ market' = [m \in Markets |-> IF m \in MarketsOf(e) THEN "suspended" ELSE market[m]]
        /\ outcome' = outcome
    BY <1>3, GoLiveWritten
  <2>2. TypeOK'
    BY <1>2, <2>1 DEF TypeOK, Status, Commit
  <2>3. ASSUME NEW x \in Events
        PROVE  Story(x)'
    <3>1. CASE x = e
      <4>1. event'[e].status = "live" /\ \A m \in MarketsOf(e) : market'[m] = "suspended"
        BY <2>1 DEF TypeOK, MarketsOf
      <4> QED
        BY <3>1, <4>1 DEF Story
    <3>2. CASE x # e
      <4>1. event'[x] = event[x]
        BY <2>1, <3>2 DEF TypeOK
      <4>2. /\ \A m \in MarketsOf(x) : market'[m] = market[m]
            /\ \A o \in OutcomesOf(x) : outcome'[o] = outcome[o]
        BY <2>1, <3>2, OtherRows
      <4> QED
        BY <4>1, <4>2, SameStory DEF BoardTellsOneStory
    <3> QED
      BY <3>1, <3>2
  <2> QED
    BY <1>2, <2>2, <2>3 DEF BoardTellsOneStory
<1>4. CASE script[a] = CallOff(e)
  <2>1. /\ \A m \in MarketsOf(e) : VoidStatus(e)[m] \in {"settled", "void"}
        /\ \A o \in OutcomesOf(e) : VoidResults(e)[o] \in Results
    BY DEF VoidStatus, VoidResults, Results
  <2> QED
    BY <1>4, <2>1, PlanIInv DEF CallOff
<1>5. ASSUME NEW score \in Scores, SourceOf[e] = "manual", script[a] = Score(e, score)
      PROVE  IInv'
  <2>1. /\ \A m \in MarketsOf(e) : ScoredStatus(e)[m] \in {"settled", "void"}
        /\ \A o \in OutcomesOf(e) : ScoredResults(e, score)[o] \in Results
    BY VerdictIsResult DEF ScoredStatus, ScoredMarketStatus, ScoredResults
  <2> QED
    BY <1>5, <2>1, PlanIInv DEF Score
<1>6. ASSUME NEW winner \in Outcomes, SourceOf[e] = "custom", script[a] = Settle(e, winner)
      PROVE  IInv'
  <2>1. /\ \A m \in MarketsOf(e) : PickedStatus(e, winner)[m] \in {"settled", "void"}
        /\ \A o \in OutcomesOf(e) : PickedResults(e, winner)[o] \in Results
    BY DEF PickedStatus, PickedResults, Results
  <2> QED
    BY <1>6, <2>1, PlanIInv DEF Settle
<1>7. ASSUME NEW ids \in Edits, NEW price \in Prices, NEW details \in BOOLEAN,
             NEW question \in BOOLEAN, ValidOdds(price),
             script[a] = Change(e, ids, price, details, question)
      PROVE  IInv'
  <2>1. /\ event' = event
        /\ market' = market
        /\ outcome' \in [Outcomes -> [odds: {0} \cup {p \in Prices : p > 1000},
                                     result: {"none"} \cup Results]]
        /\ \A o \in Outcomes : outcome'[o].result = outcome[o].result
    BY <1>7, ChangeWritten
  <2>2. TypeOK'
    BY <1>2, <2>1 DEF TypeOK, Commit
  <2>3. \A x \in Events : Story(x)'
    <3>1. \A x \in Events : \A o \in OutcomesOf(x) : outcome'[o].result = outcome[o].result
      BY <2>1 DEF OutcomesOf
    <3> QED
      BY <2>1, <3>1, SameStory DEF BoardTellsOneStory
  <2> QED
    BY <1>2, <2>2, <2>3 DEF BoardTellsOneStory
<1> QED
  BY <1>1, <1>3, <1>4, <1>5, <1>6, <1>7

\* A transaction that ends without commit leaves the board alone.
LEMMA RollbackIInv ==
  ASSUME IInv, NEW a \in Admins, Rollback(a), faults' \in 0..MaxFaults
  PROVE  IInv'
<1> USE DEF IInv
<1>1. ScriptsOK' /\ \A b \in Admins : todo'[b] \subseteq script'[b]
  BY EndTxScripts DEF Rollback
<1>2. TypeOK'
  BY <1>1 DEF TypeOK, Rollback, Board
<1>3. BoardTellsOneStory'
  BY SameStory DEF Rollback, Board, BoardTellsOneStory
<1> QED
  BY <1>1, <1>2, <1>3

\* One UPDATE runs: its row is locked, nothing is visible yet.
LEMMA ExecuteIInv ==
  ASSUME IInv, NEW a \in Admins, Execute(a)
  PROVE  IInv'
<1> USE DEF IInv
<1>1. PICK u : todo' = [todo EXCEPT ![a] = @ \ {u}]
  BY DEF Execute
<1>2. UNCHANGED <<event, market, outcome, script, faults>>
  BY DEF Execute, Board
<1>3. TypeOK'
  <2>1. \A b \in Admins : todo'[b] \subseteq script'[b]
    BY <1>1, <1>2 DEF ScriptsOK, TypeOK
  <2> QED
    BY <1>2, <2>1 DEF TypeOK
<1>4. ScriptsOK'
  <2>1. todo' = [b \in Admins |-> todo'[b]]
    BY <1>1 DEF ScriptsOK
  <2> QED
    BY <1>2, <2>1 DEF ScriptsOK, ScriptOK
<1>5. BoardTellsOneStory'
  BY <1>2, SameStory DEF BoardTellsOneStory
<1> QED
  BY <1>3, <1>4, <1>5

\* The inductive invariant holds in every reachable state.
THEOREM DeskInvariant == Spec => []IInv
<1>1. IInv /\ [Next]_vars => IInv'
  <2> SUFFICES ASSUME IInv, [Next]_vars PROVE IInv'
    OBVIOUS
  <2>1. ASSUME NEW a \in Admins, Call(a) PROVE IInv'
    BY <2>1, CallIInv
  <2>2. ASSUME NEW a \in Admins, Execute(a) PROVE IInv'
    BY <2>2, ExecuteIInv
  <2>3. ASSUME NEW a \in Admins, Commit(a) PROVE IInv'
    BY <2>3, CommitIInv
  <2>4. ASSUME NEW a \in Admins, DeadlockVictim(a) PROVE IInv'
    BY <2>4, RollbackIInv DEF DeadlockVictim, IInv, TypeOK
  <2>5. ASSUME NEW a \in Admins, Fault(a) PROVE IInv'
    <3>1. faults' \in 0..MaxFaults
      BY <2>5, DeskConstantsOK DEF Fault, IInv, TypeOK
    <3> QED
      BY <2>5, <3>1, RollbackIInv DEF Fault
  <2>6. CASE UNCHANGED vars
    <3>1. UNCHANGED <<event, market, outcome, script, todo, faults>>
      BY <2>6 DEF vars
    <3>2. TypeOK' /\ ScriptsOK'
      BY <3>1 DEF IInv, TypeOK, ScriptsOK, ScriptOK
    <3>3. BoardTellsOneStory'
      BY <3>1, SameStory DEF IInv, BoardTellsOneStory
    <3> QED
      BY <3>2, <3>3 DEF IInv
  <2> QED
    BY <2>1, <2>2, <2>3, <2>4, <2>5, <2>6 DEF Next, Step
<1> QED
  BY InitIInv, <1>1, PTL DEF Spec

\* However many administrators work at the desk, rows keep values their columns
\* admit: no odds of 1 or less, no result other than won, lost and void.
THEOREM DeskTypeCorrect == Spec => []TypeOK
<1>1. IInv => TypeOK
  BY DEF IInv
<1> QED
  BY <1>1, DeskInvariant, PTL

\* However the calls of any number of administrators overlap and fail, every
\* committed board is consistent: the status of an event, the status of its
\* markets, the results of its outcomes and its stored scores belong together.
THEOREM BoardCorrect == Spec => []BoardTellsOneStory
<1>1. IInv => BoardTellsOneStory
  BY DEF IInv
<1> QED
  BY <1>1, DeskInvariant, PTL
=============================================================================
