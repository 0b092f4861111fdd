----------------------------- MODULE MatchDesk -----------------------------
(***************************************************************************)
(* The administrators' desk: manual matches and custom events from their   *)
(* creation to their result, as AdminService drives them.  Every call      *)
(* reads the event once, without a lock, and then opens one READ COMMITTED *)
(* transaction that updates a fixed list of rows: SetMatchStatus starts at *)
(* the event and goes on to its markets, a settlement starts at the        *)
(* markets and ends at the event, an edit goes from the event to outcomes. *)
(* An UPDATE keeps its row locked until the transaction ends.              *)
(*                                                                         *)
(* BetSettlement models the same settlements as seen from the bets and the *)
(* wallets; here bets are left out and the rows of the event board are the *)
(* subject.  Titles, teams, leagues and start times of an event are        *)
(* abstracted: writing them locks the row and changes nothing modelled.    *)
(***************************************************************************)
EXTENDS SettlementRules, FiniteSets

CONSTANTS
  Admins,          \* administrators' requests in flight
  Events, Markets, Outcomes,   \* ids; markets and outcomes are numbers
  SourceOf,        \* "manual" (a match) or "custom"
  EventOf, TypeOf, LineOf,     \* markets.event_id, type, line
  MarketOf, CodeOf,            \* outcomes.market_id, code
  Prices,          \* odds an administrator may type in, in thousandths
  Edits,           \* outcome ids an edit may list
  Scores,          \* final scores that may be entered
  MaxFaults        \* bound: cancelled contexts, lost connections, crashes

VARIABLES
  event,           \* [status, scores]; scores is NULL or a pair
  market,          \* markets.status
  outcome,         \* [odds, result]
  script,          \* the UPDATEs the transaction of a request consists of
  todo,            \* those it has not executed yet
  faults

vars == <<event, market, outcome, script, todo, faults>>

Board == <<event, market, outcome>>

ASSUME DeskConstantsOK ==
  /\ Markets \subseteq Nat /\ Outcomes \subseteq Nat
  /\ SourceOf \in [Events -> {"manual", "custom"}]
  /\ EventOf \in [Markets -> Events] /\ TypeOf \in [Markets -> MarketTypes]
  /\ MarketOf \in [Outcomes -> Markets] /\ CodeOf \in [Outcomes -> OutcomeCodes]
  /\ Prices \subseteq Nat /\ MaxFaults \in Nat /\ Scores \subseteq Nat \X Nat
  /\ Edits \subseteq Seq(Outcomes)
  /\ \A edit \in Edits : \A i, j \in DOMAIN edit : edit[i] = edit[j] => i = j

Status == {"none", "upcoming", "live", "settled", "cancelled"}

TypeOK ==
  /\ event \in [Events -> [status: Status, scores: {NULL} \cup Scores]]
  /\ market \in [Markets -> {"none", "open", "suspended", "settled", "void"}]
  /\ outcome \in [Outcomes -> [odds: {0} \cup {p \in Prices : p > 1000},
                               result: {"none"} \cup Results]]
  /\ \A a \in Admins : todo[a] \subseteq script[a]
  /\ faults \in 0..MaxFaults

\* Nothing has been created yet.
Init ==
  /\ event = [e \in Events |-> [status |-> "none", scores |-> NULL]]
  /\ market = [m \in Markets |-> "none"]
  /\ outcome = [o \in Outcomes |-> [odds |-> 0, result |-> "none"]]
  /\ script = [a \in Admins |-> {}]
  /\ todo = [a \in Admins |-> {}]
  /\ faults = 0

-----------------------------------------------------------------------------
(***************************************************************************)
(* Statements.  An UPDATE names its row, the columns it sets and its turn  *)
(* in the transaction: a phase, and a place among the UPDATEs of a phase.  *)
(* Markets come in the order of their ids (GetByEvent), and so do outcomes *)
(* market by market, for ids are handed out in that order.                 *)
(***************************************************************************)

UpdateEvent(phase, e, cols) ==
  [phase |-> phase, place |-> 0, table |-> "events", id |-> e, cols |-> cols]

UpdateMarket(m, cols) ==
  [phase |-> 2, place |-> m, table |-> "markets", id |-> m, cols |-> cols]

UpdateOutcome(o, place, cols) ==
  [phase |-> 3, place |-> place, table |-> "outcomes", id |-> o, cols |-> cols]

NoColumns == [c \in {} |-> NULL]

MarketsOf(e)  == {m \in Markets : EventOf[m] = e}
OutcomesOf(e) == {o \in Outcomes : EventOf[MarketOf[o]] = e}

\* applyPlan: the markets, the outcomes, the event with its scores.
applyPlan(e, final, scores, status, result) ==
  {UpdateMarket(m, [status |-> status[m]]) : m \in MarketsOf(e)}
  \cup {UpdateOutcome(o, o, [result |-> result[o]]) : o \in OutcomesOf(e)}
  \cup {UpdateEvent(4, e, [status |-> final, scores |-> scores])}

\* buildPlan for a final score and for a cancellation, and buildCustomPlan: the
\* status of each market of the event, the result of each outcome.
ScoredStatus(e)         == [m \in MarketsOf(e) |-> ScoredMarketStatus(TypeOf[m])]
ScoredResults(e, score) ==
  [o \in OutcomesOf(e) |-> ScoredResult(TypeOf[MarketOf[o]], LineOf[MarketOf[o]], CodeOf[o],
                                        score[1], score[2])]

VoidStatus(e)  == [m \in MarketsOf(e) |-> "void"]
VoidResults(e) == [o \in OutcomesOf(e) |-> "void"]

PickedStatus(e, winner)  ==
  [m \in MarketsOf(e) |-> IF MarketOf[winner] = m THEN "settled" ELSE "void"]
PickedResults(e, winner) ==
  [o \in OutcomesOf(e) |-> IF MarketOf[winner] # MarketOf[o] THEN "void"
                           ELSE IF o = winner THEN "won" ELSE "lost"]

\* The transactions of the calls below.
MutantWinnerMarketOnly(e) ==
  {UpdateEvent(1, e, [status |-> "live"])}
  \cup {UpdateMarket(m, [status |-> "suspended"]) : m \in {n \in MarketsOf(e) : TypeOf[n] = "ML"}}

GoLive(e) ==
  {UpdateEvent(1, e, [status |-> "live"])}
  \cup {UpdateMarket(m, [status |-> "suspended"]) : m \in MarketsOf(e)}

Score(e, score)   == applyPlan(e, "settled", score, ScoredStatus(e), ScoredResults(e, score))
CallOff(e)        == applyPlan(e, "cancelled", NULL, VoidStatus(e), VoidResults(e))
Settle(e, winner) == applyPlan(e, "settled", NULL, PickedStatus(e, winner), PickedResults(e, winner))

\* Without a column of the event to set (details) its row is only looked up.
Change(e, ids, price, details, question) ==
  {UpdateEvent(1, x, NoColumns) : x \in IF details THEN {e} ELSE {}}
  \cup {UpdateMarket(m, NoColumns) : m \in IF question THEN MarketsOf(e) ELSE {}}
  \cup {UpdateOutcome(ids[i], i, [odds |-> price]) : i \in DOMAIN ids}

-----------------------------------------------------------------------------
(***************************************************************************)
(* Calls.  The guard is read now, the transaction runs later.              *)
(***************************************************************************)

Idle(a) == script[a] = {}

Open(a, updates) ==
  /\ Idle(a)
  /\ script' = [script EXCEPT ![a] = updates]
  /\ todo' = [todo EXCEPT ![a] = updates]
  /\ UNCHANGED <<Board, faults>>

MutantFromOne(price) == price >= 1000

\* Odds above 1, compared before anything is written.
ValidOdds(price) == price > 1000

isValidMatchOutcomeCode(type, code) ==
  \/ type = "ML" /\ code \in {"home", "draw", "away"}
  \/ type = "TOTALS" /\ code \in {"over", "under"}

validateMatchMarket(m) ==
  /\ TypeOf[m] \in {"ML", "TOTALS"}
  /\ TypeOf[m] = "TOTALS" => LineOf[m] # NULL
  /\ \E o \in Outcomes : MarketOf[o] = m
  /\ \A o \in Outcomes : MarketOf[o] = m => isValidMatchOutcomeCode(TypeOf[m], CodeOf[o])

\* validateCreateMatch for a match, validateCreate for a custom event.
ValidBoard(e) ==
  \/ /\ SourceOf[e] = "manual"
     /\ \A m \in MarketsOf(e) : validateMatchMarket(m)
     /\ \E m \in MarketsOf(e) : TypeOf[m] = "ML"
  \/ /\ SourceOf[e] = "custom"
     /\ \E m \in Markets : /\ MarketsOf(e) = {m}
                           /\ TypeOf[m] = "CUSTOM"
                           /\ Cardinality(OutcomesOf(e)) >= 2

\* CreateMatch and CreateCustomEvent.  Nobody sees the rows, and nobody can name
\* their ids, before the transaction commits: one step.
Create(a, e, price) ==
  /\ Idle(a)
  /\ event[e].status = "none"
  /\ ValidBoard(e)
  /\ ValidOdds(price)
  /\ event' = [event EXCEPT ![e].status = "upcoming"]
  /\ market' = [m \in Markets |-> IF m \in MarketsOf(e) THEN "open" ELSE market[m]]
  /\ outcome' = [o \in Outcomes |-> IF o \in OutcomesOf(e)
                                      THEN [odds |-> price, result |-> "none"] ELSE outcome[o]]
  /\ UNCHANGED <<script, todo, faults>>

\* EditMatch (a match) and EditEvent (a custom event; question rewrites the
\* question of its market).  The ids of the outcomes come from the request and
\* are not compared with the event's; an id that does not exist fails the call.
Edit(a, e, ids, price, details, question) ==
  /\ event[e].status = "upcoming"
  /\ question => SourceOf[e] = "custom"
  /\ ValidOdds(price)
  /\ \A i \in DOMAIN ids : outcome[ids[i]].odds # 0
  /\ Open(a, Change(e, ids, price, details, question))

SetMatchStatus(a, e) ==
  /\ SourceOf[e] = "manual"
  /\ event[e].status = "upcoming"
  /\ Open(a, GoLive(e))

SetMatchScores(a, e, scores) ==
  /\ SourceOf[e] = "manual"
  /\ event[e].status \in {"upcoming", "live"}
  /\ event[e].scores = NULL
  /\ Open(a, Score(e, scores))

\* CancelMatch and CancelEvent, also reached from an edit with cancel = true.
Cancel(a, e) ==
  /\ event[e].status \in {"upcoming", "live"}
  /\ Open(a, CallOff(e))

\* The winning outcome is any id the request names.
SettleCustom(a, e, winner) ==
  /\ SourceOf[e] = "custom"
  /\ event[e].status \in {"upcoming", "live"}
  /\ Open(a, Settle(e, winner))

\* The handlers.  An edit whose status is "cancelled" is a cancellation, and any
\* other status in one is refused.
CreateRequest(a, e) == \E price \in Prices : Create(a, e, price)

EditRequest(a, e) ==
  \/ \E ids \in Edits, price \in Prices, details \in BOOLEAN, question \in BOOLEAN :
       Edit(a, e, ids, price, details, question)
  \/ Cancel(a, e)

ScoresRequest(a, e) == \E scores \in Scores : SetMatchScores(a, e, scores)

SettleRequest(a, e) == \E winner \in Outcomes : SettleCustom(a, e, winner)

Call(a) ==
  \E e \in Events :
    \/ CreateRequest(a, e) \/ EditRequest(a, e)
    \/ SetMatchStatus(a, e) \/ ScoresRequest(a, e) \/ SettleRequest(a, e)

-----------------------------------------------------------------------------
(***************************************************************************)
(* The transaction.                                                        *)
(***************************************************************************)

Before(u, v) == u.phase < v.phase \/ (u.phase = v.phase /\ u.place < v.place)

SameRow(u, v) == u.table = v.table /\ u.id = v.id

\* The UPDATEs whose turn it is, and the rows a has locked.
Turn(a)   == {u \in todo[a] : \A v \in todo[a] : ~Before(v, u)}
Locked(a) == script[a] \ todo[a]

\* The next UPDATE of a needs a row that b has updated.
WaitsFor(a, b) ==
  a # b /\ \E u \in Turn(a), v \in Locked(b) : SameRow(u, v)

Execute(a) ==
  \E u \in Turn(a) :
    /\ \A b \in Admins : ~WaitsFor(a, b)
    /\ todo' = [todo EXCEPT ![a] = @ \ {u}]
    /\ UNCHANGED <<Board, script, faults>>

EndTx(a) ==
  /\ script' = [script EXCEPT ![a] = {}]
  /\ todo' = [todo EXCEPT ![a] = {}]

\* A row with the columns the transaction has set; the others keep what was
\* committed last, which the row lock has kept from changing since.
Written(a, table, id, row) ==
  LET mine == {u \in script[a] : u.table = table /\ u.id = id}
      cols == (CHOOSE u \in mine : TRUE).cols
  IN  IF mine = {} THEN row
      ELSE [c \in DOMAIN row |-> IF c \in DOMAIN cols THEN cols[c] ELSE row[c]]

Commit(a) ==
  /\ ~Idle(a)
  /\ todo[a] = {}
  /\ event' = [e \in Events |-> Written(a, "events", e, event[e])]
  /\ market' = [m \in Markets |-> Written(a, "markets", m, [status |-> market[m]]).status]
  /\ outcome' = [o \in Outcomes |-> Written(a, "outcomes", o, outcome[o])]
  /\ EndTx(a)
  /\ UNCHANGED faults

\* The error is returned and the transaction stays open with its locks.
MutantNoRollback(a) == UNCHANGED <<Board, script, todo>>

Rollback(a) == EndTx(a) /\ UNCHANGED Board

InWaitCycle(a) ==
  \E S \in SUBSET Admins : a \in S /\ S = {b \in Admins : \E c \in S : WaitsFor(c, b)}

\* PostgreSQL fails one transaction of a wait cycle.
DeadlockVictim(a) == InWaitCycle(a) /\ Rollback(a) /\ UNCHANGED faults

\* Client gone, connection lost, process killed.
Fault(a) ==
  /\ ~Idle(a)
  /\ faults < MaxFaults
  /\ faults' = faults + 1
  /\ Rollback(a)

Step(a) == Execute(a) \/ Commit(a)

Next == \E a \in Admins : Call(a) \/ Step(a) \/ DeadlockVictim(a) \/ Fault(a)

Spec == Init /\ [][Next]_vars

\* A statement that can run is run, a lock that keeps coming free is granted in
\* the end (PostgreSQL queues the waiters), a wait cycle is broken after
\* deadlock_timeout.  Nobody has to call anything.
Fairness == \A a \in Admins : SF_vars(Step(a)) /\ WF_vars(DeadlockVictim(a))

FairSpec == Spec /\ Fairness

-----------------------------------------------------------------------------
(***************************************************************************)
(* Properties.                                                             *)
(***************************************************************************)

Shows(e, scores, status, result) ==
  /\ event[e].scores = scores
  /\ \A m \in MarketsOf(e) : market[m] = status[m]
  /\ \A o \in OutcomesOf(e) : outcome[o].result = result[o]

\* What the board shows of one event.
Story(e) ==
  /\ event[e].status = "none" =>
       /\ event[e].scores = NULL
       /\ \A m \in MarketsOf(e) : market[m] = "none"
  /\ event[e].status = "upcoming" =>
       Shows(e, NULL, [m \in MarketsOf(e) |-> "open"], [o \in OutcomesOf(e) |-> "none"])
  /\ event[e].status = "live" => \A m \in MarketsOf(e) : market[m] = "suspended"
  /\ event[e].status = "settled" /\ SourceOf[e] = "manual" =>
       \E score \in Scores : Shows(e, score, ScoredStatus(e), ScoredResults(e, score))
  /\ event[e].status = "settled" /\ SourceOf[e] = "custom" =>
       \E winner \in Outcomes : Shows(e, NULL, PickedStatus(e, winner), PickedResults(e, winner))
  /\ event[e].status = "cancelled" => Shows(e, NULL, VoidStatus(e), VoidResults(e))

\* Event, markets and outcomes tell one story in every committed state, however
\* the calls of several administrators overlap: an upcoming event takes bets on
\* every market, a live one on none, a settled match shows the markets and
\* results that its stored scores decide, a settled custom event those of one
\* winner, a cancelled event is void throughout (applyPlan, SetMatchStatus).
BoardTellsOneStory == \A e \in Events : Story(e)

\* Every call returns, although calls lock the same rows in opposite orders
\* (SetMatchStatus and EditMatch start at the event, applyPlan ends there).
EveryCallReturns == \A a \in Admins : ~Idle(a) ~> Idle(a)
=============================================================================
