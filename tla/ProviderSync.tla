---------------------------- MODULE ProviderSync ----------------------------
(***************************************************************************)
(* The three workers of internal/worker on the same matches: EventSync     *)
(* copies the provider's list into events, OddsSync writes markets and     *)
(* outcomes, the settlement worker asks for the end of each started match  *)
(* and settles it; administrators may cancel, bettors bet.  Each of them   *)
(* acts on what it read some statements ago.                               *)
(*                                                                         *)
(* Time is counted in ticks no shorter than the timeout of a job (two      *)
(* minutes, cmd/server/main.go): a run ends before the second tick after   *)
(* its start.  A match lasts longer than that.                             *)
(***************************************************************************)
EXTENDS SettlementRules, QuoteRules, FiniteSets

CONSTANTS
  Matches,
  Sports,
  SportOf,      \* [Matches -> Sports]
  Scores,       \* final scores the provider may report: pairs <<home, away>>
  LiveScores,   \* scores it may list of a match under way
  Answers,      \* what GetOddsMulti may say of a match, see QuoteRules
  KickOffs,     \* the first date of a match, in ticks
  LastTick,     \* the clock stops there
  Window,       \* ODDS_SYNC_WINDOW_HOURS in ticks
  MaxCancels,   \* bound on the cancellations under way at once
  Types,        \* the markets followed: EventSync makes both, "ML" and "TOTALS", and
                \* nothing passes from one to the other
  Backed        \* the outcomes somebody bets on

ASSUME SyncConstantsOK ==
  /\ SportOf \in [Matches -> Sports]
  /\ Scores \subseteq Nat \X Nat
  /\ LiveScores \subseteq Nat \X Nat
  /\ KickOffs \subseteq Nat
  /\ LastTick \in Nat
  /\ Types \subseteq {"ML", "TOTALS"}
  /\ Backed \subseteq Codes
  /\ Window \in Nat
  /\ MaxCancels \in Nat

VARIABLES
  now,
  feed,       \* the provider: [status, scores, start] of each match
  row,        \* events: the same columns; status "none" before the first upsert
  market,     \* markets by type, <<>> or <<[status, line]>>
  result,     \* outcomes.result by code: "absent" without the row, "none" for NULL
  bet,        \* the bet on each outcome: "none", "pending" or how it was decided
  phase,      \* of each job: "idle", "fresh", "late" (a tick has passed)
  listing,    \* EventSync: the sports still to do, the events listed and not yet
              \* upserted, the match just upserted with its missing markets
  quoting,    \* OddsSync: the matches still to do, the current one, its statements
  settling,   \* the settlement worker: the matches still to do, the plan built
  placing,    \* the request for each bet: "none", "market" (read and open) or
              \* "checked" (the event as well)
  cancelling  \* CancelEvent: the matches it was allowed for, the plans built

vars == <<now, feed, row, market, result, bet, phase, listing, quoting, settling,
          placing, cancelling>>

Tasks == {"event-sync", "odds-sync", "settlement"}

TypeOfCode == [c \in Codes |-> IF c \in {"over", "under"} THEN "TOTALS" ELSE "ML"]

NoListing == [sports |-> {}, events |-> {}, markets |-> {}]
NoQuoting == [matches |-> {}, match |-> <<>>, todo |-> <<>>]
NoPlan    == <<>>
NoSettling == [matches |-> {}, plan |-> NoPlan]
NoCancelling == [matches |-> {}, plans |-> {}]

Init ==
  /\ now = 0
  /\ feed \in [Matches -> [status : {"pending"}, scores : {<<>>}, start : KickOffs]]
  /\ row = [m \in Matches |-> [status |-> "none", scores |-> <<>>, start |-> 0]]
  /\ market = [m \in Matches |-> [t \in Types |-> <<>>]]
  /\ result = [m \in Matches |-> [c \in Codes |-> "absent"]]
  /\ bet = [m \in Matches |-> [c \in Backed |-> "none"]]
  /\ phase = [j \in Tasks |-> "idle"]
  /\ listing = NoListing
  /\ quoting = NoQuoting
  /\ settling = NoSettling
  /\ placing = [m \in Matches |-> [c \in Backed |-> "none"]]
  /\ cancelling = NoCancelling

Database == <<row, market, result, bet>>
Workers  == <<phase, listing, quoting, settling>>
Desk     == <<placing, cancelling>>

-----------------------------------------------------------------------------
(***************************************************************************)
(* The world: the clock and the provider.                                  *)
(***************************************************************************)

\* context.WithTimeout in runOnce: a run that has seen a tick ends before the next.
MutantNoTimeout ==
  /\ now < LastTick
  /\ now' = now + 1
  /\ UNCHANGED <<feed, Database, Workers, Desk>>

Tick ==
  /\ now < LastTick
  /\ \A j \in Tasks : phase[j] # "late"
  /\ now' = now + 1
  /\ phase' = [j \in Tasks |-> IF phase[j] = "fresh" THEN "late" ELSE phase[j]]
  /\ UNCHANGED <<feed, Database, listing, quoting, settling, Desk>>

Reported(scores) == {<<>>} \cup {<<s>> : s \in scores}

Provider(m, statuses, news) ==
  /\ feed[m].status \in statuses
  /\ feed' = [feed EXCEPT ![m] = news]
  /\ UNCHANGED <<now, Database, Workers, Desk>>

Postpone(m) ==
  \E start \in KickOffs :
    /\ start > feed[m].start
    /\ Provider(m, {"pending"}, [feed[m] EXCEPT !.start = start])

\* A live match may be listed with the score so far.
KickOff(m) ==
  /\ now >= feed[m].start
  /\ \E s \in Reported(LiveScores) :
       Provider(m, {"pending"}, [feed[m] EXCEPT !.status = "live", !.scores = s])

\* The final score may come later than the final whistle.
FinalWhistle(m) ==
  /\ now > feed[m].start
  /\ \E s \in Reported(Scores) :
       Provider(m, {"live"}, [feed[m] EXCEPT !.status = "settled", !.scores = s])

ScoresArrive(m) ==
  /\ feed[m].scores = <<>>
  /\ \E s \in Scores : Provider(m, {"settled"}, [feed[m] EXCEPT !.scores = <<s>>])

CallOff(m) ==
  Provider(m, {"pending", "live"}, [feed[m] EXCEPT !.status = "cancelled", !.scores = <<>>])

mapEventStatus(word) ==
  CASE word = "live"      -> "live"
    [] word = "settled"   -> "settled"
    [] word = "cancelled" -> "cancelled"
    [] OTHER              -> "upcoming"

-----------------------------------------------------------------------------
(***************************************************************************)
(* Runs.  The runner starts a job when its last run is over; a run is over *)
(* when nothing is left of it.  An error is logged and the loop goes on    *)
(* with the next sport, match or batch; the timeout, a lost connection or  *)
(* a killed process ends the run.                                          *)
(***************************************************************************)

After(j, left) == [phase EXCEPT ![j] = IF left THEN @ ELSE "idle"]

\* How each worker's run begins, goes on, and is given up.
Lists(next) ==
  /\ listing' = next
  /\ phase' = After("event-sync", next # NoListing)
  /\ UNCHANGED <<now, feed, quoting, settling, Desk>>

Quotes(next) ==
  /\ quoting' = IF next.todo = <<>> THEN [next EXCEPT !.match = <<>>] ELSE next
  /\ phase' = After("odds-sync", quoting' # NoQuoting)
  /\ UNCHANGED <<now, feed, listing, settling, Desk>>

Settles(next) ==
  /\ settling' = next
  /\ phase' = After("settlement", next # NoSettling)
  /\ UNCHANGED <<now, feed, listing, quoting, Desk>>

Begin(j) == phase[j] = "idle" /\ phase' = [phase EXCEPT ![j] = "fresh"]
On(j)    == phase[j] # "idle"

EventSyncGivesUp  == On("event-sync") /\ Lists(NoListing) /\ UNCHANGED Database
OddsSyncGivesUp   == On("odds-sync") /\ Quotes(NoQuoting) /\ UNCHANGED Database
SettlementGivesUp == On("settlement") /\ Settles(NoSettling) /\ UNCHANGED Database

-----------------------------------------------------------------------------
(***************************************************************************)
(* EventSync.                                                              *)
(***************************************************************************)

StartEventSync ==
  /\ Begin("event-sync")
  /\ listing' = [NoListing EXCEPT !.sports = Sports]
  /\ UNCHANGED <<now, feed, quoting, settling, Database, Desk>>

eventSyncStatuses == {"pending", "live"}

ListedBy(s) == {m \in Matches : SportOf[m] = s /\ feed[m].status \in eventSyncStatuses}

\* Done with the events of the last sport.
BetweenSports == listing.events = {} /\ listing.markets = {}

GetEvents(s) ==
  /\ BetweenSports /\ s \in listing.sports
  /\ Lists([sports |-> listing.sports \ {s}, markets |-> {},
            events |-> {[match |-> m, status |-> mapEventStatus(feed[m].status),
                         scores |-> feed[m].scores, start |-> feed[m].start]
                        : m \in ListedBy(s)}])
  /\ UNCHANGED Database

SkipsListed ==
  /\ \/ \E s \in listing.sports : BetweenSports /\ Lists([listing EXCEPT !.sports = @ \ {s}])
     \/ \E e \in listing.events :
          listing.markets = {} /\ Lists([listing EXCEPT !.events = @ \ {e}])
     \/ listing.markets # {} /\ Lists([listing EXCEPT !.markets = {}])
  /\ UNCHANGED Database

\* ON CONFLICT DO UPDATE: everything from the list, the score by COALESCE.
Upserted(old, e) ==
  [status |-> e.status, scores |-> IF e.scores = <<>> THEN old.scores ELSE e.scores,
   start |-> e.start]

\* EventSync alone creates these markets, so what ensureMarkets reads stays true.
UpsertEvent(e) ==
  /\ e \in listing.events /\ listing.markets = {}
  /\ row' = [row EXCEPT ![e.match] = Upserted(@, e)]
  /\ Lists([listing EXCEPT !.events = @ \ {e},
                           !.markets = {<<e.match, t>> : t \in
                                        {t \in Types : market[e.match][t] = <<>>}}])
  /\ UNCHANGED <<market, result, bet>>

\* ML first; a new market is open and has neither line nor outcomes.
CreateMarket(m, t) ==
  /\ <<m, t>> \in listing.markets
  /\ t = "TOTALS" => <<m, "ML">> \notin listing.markets
  /\ market' = [market EXCEPT ![m][t] = <<[status |-> "open", line |-> <<>>]>>]
  /\ Lists([listing EXCEPT !.markets = @ \ {<<m, t>>}])
  /\ UNCHANGED <<row, result, bet>>

-----------------------------------------------------------------------------
(***************************************************************************)
(* OddsSync.                                                               *)
(***************************************************************************)

MutantStartedToo(m) == row[m].status = "upcoming" /\ row[m].start <= now + Window

ForOddsSync(m) ==
  /\ row[m].status = "upcoming"
  /\ row[m].start > now
  /\ row[m].start <= now + Window

\* Nothing to do: Run returns at once.
ListForOddsSync ==
  LET matches == {m \in Matches : ForOddsSync(m)}
  IN  /\ matches # {}
      /\ Begin("odds-sync")
      /\ quoting' = [NoQuoting EXCEPT !.matches = matches]
      /\ UNCHANGED <<now, feed, listing, settling, Database, Desk>>

Rows(m) == [t \in {"ML", "TOTALS"} |-> IF t \in Types THEN market[m][t] ELSE <<>>]

\* Run hears of a match; applyEvent reads its markets and fixes the statements.
Quote(m) ==
  /\ m \in quoting.matches /\ quoting.todo = <<>>
  /\ \E a \in Answers : Quotes([matches |-> quoting.matches \ {m}, match |-> <<m>>,
                                todo |-> applyEvent(Rows(m), a)])
  /\ UNCHANGED Database

SkipsQuoted ==
  /\ \/ \E m \in quoting.matches : Quotes([quoting EXCEPT !.matches = @ \ {m}])
     \/ quoting.todo # <<>> /\ Quotes([quoting EXCEPT !.todo = <<>>])
  /\ UNCHANGED Database

\* The result of an outcome that exists is left alone by the upsert.
KeptResult(old) == IF old = "absent" THEN "none" ELSE old

Execute ==
  /\ quoting.todo # <<>>
  /\ LET m == quoting.match[1]
         s == Head(quoting.todo)
     IN  CASE s.op = "status" -> /\ market' = [market EXCEPT ![m][s.market][1].status = s.to]
                                 /\ UNCHANGED result
           [] s.op = "line"   -> /\ market' = [market EXCEPT ![m][s.market][1].line = s.line]
                                 /\ UNCHANGED result
           [] s.op = "upsert" -> /\ result' = [result EXCEPT ![m][s.code] = KeptResult(@)]
                                 /\ UNCHANGED market
  /\ Quotes([quoting EXCEPT !.todo = Tail(@)])
  /\ UNCHANGED <<row, bet>>

-----------------------------------------------------------------------------
(***************************************************************************)
(* Settlement.  buildPlan reads markets and outcomes, applyPlan is a later *)
(* transaction; its own statements and locks are those of BetSettlement.   *)
(***************************************************************************)

MutantLiveOnly(m) == row[m].status = "live" /\ row[m].start <= now

ForSettlement(m) == row[m].status \in {"upcoming", "live"} /\ row[m].start <= now

ListForSettlement ==
  LET matches == {m \in Matches : ForSettlement(m)}
  IN  /\ matches # {}
      /\ Begin("settlement")
      /\ settling' = [NoSettling EXCEPT !.matches = matches]
      /\ UNCHANGED <<now, feed, listing, quoting, Database, Desk>>


Existing(m) == {c \in Codes : result[m][c] # "absent"}

Plan(m, final, scores, status, results) ==
  [match |-> m, final |-> final, scores |-> scores,
   markets |-> [t \in {t \in Types : market[m][t] # <<>>} |-> status], results |-> results]

SettledPlan(m, s) ==
  Plan(m, "settled", <<s>>, "settled",
       [c \in Existing(m) |->
          ScoredResult(TypeOfCode[c], market[m][TypeOfCode[c]][1].line, c, s[1], s[2])])

CancelledPlan(m) ==
  Plan(m, "cancelled", <<>>, "void", [c \in Existing(m) |-> "void"])

\* processEvent: only an end of the match with a usable score leads to a plan.
GetEvent(m) ==
  /\ m \in settling.matches /\ settling.plan = NoPlan
  /\ Settles([matches |-> settling.matches \ {m},
              plan |-> CASE feed[m].status = "settled" /\ feed[m].scores # <<>> ->
                              <<SettledPlan(m, feed[m].scores[1])>>
                         [] feed[m].status = "cancelled" -> <<CancelledPlan(m)>>
                         [] OTHER -> NoPlan])
  /\ UNCHANGED Database

SkipsSettled ==
  /\ \/ \E m \in settling.matches :
          settling.plan = NoPlan /\ Settles([settling EXCEPT !.matches = @ \ {m}])
     \/ settling.plan # NoPlan /\ Settles([settling EXCEPT !.plan = NoPlan])
  /\ UNCHANGED Database

Decided(b, r) == IF b = "pending" THEN betStatusFromResult(r) ELSE b

\* What applyPlan leaves in the database.
applyPlan(p) ==
  /\ row' = [row EXCEPT ![p.match].status = p.final, ![p.match].scores = p.scores]
  /\ market' = [market EXCEPT ![p.match] =
                  [t \in Types |-> IF t \in DOMAIN p.markets
                                     THEN <<[@[t][1] EXCEPT !.status = p.markets[t]]>> ELSE @[t]]]
  /\ result' = [result EXCEPT ![p.match] =
                  [c \in Codes |-> IF c \in DOMAIN p.results THEN p.results[c] ELSE @[c]]]
  /\ bet' = [bet EXCEPT ![p.match] =
               [c \in Backed |-> IF c \in DOMAIN p.results
                                   THEN Decided(@[c], p.results[c]) ELSE @[c]]]

SettleEvent ==
  /\ settling.plan # NoPlan
  /\ applyPlan(settling.plan[1])
  /\ Settles([settling EXCEPT !.plan = NoPlan])

-----------------------------------------------------------------------------
(***************************************************************************)
(* Requests.  None of them locks what it has checked, and the wait for a   *)
(* wallet or a market row may last.                                        *)
(***************************************************************************)

\* CancelEvent reads the status, SettleEvent then builds a plan from the markets and
\* outcomes there are, and applies it whatever the status is by now.
Cancels(next) ==
  /\ cancelling' = next
  /\ UNCHANGED <<now, feed, Workers, placing>>

CancelEvent(m) ==
  /\ row[m].status \in {"upcoming", "live"}
  /\ Cardinality(cancelling.matches) + Cardinality(cancelling.plans) < MaxCancels
  /\ Cancels([cancelling EXCEPT !.matches = @ \cup {m}])
  /\ UNCHANGED Database

CancelBuildsPlan(m) ==
  /\ m \in cancelling.matches
  /\ Cancels([matches |-> cancelling.matches \ {m},
              plans   |-> cancelling.plans \cup {CancelledPlan(m)}])
  /\ UNCHANGED Database

CancelApplies(p) ==
  /\ p \in cancelling.plans
  /\ applyPlan(p)
  /\ Cancels([cancelling EXCEPT !.plans = @ \ {p}])

CancelFails ==
  /\ \/ \E m \in cancelling.matches : Cancels([cancelling EXCEPT !.matches = @ \ {m}])
     \/ \E p \in cancelling.plans : Cancels([cancelling EXCEPT !.plans = @ \ {p}])
  /\ UNCHANGED Database

MutantTrustsStatus(m) == row[m].status = "upcoming"

\* PlaceBet goes by the rows alone.
TakesBets(m) == row[m].status = "upcoming" /\ row[m].start > now

Places(m, c, from, to) ==
  /\ placing[m][c] = from
  /\ placing' = [placing EXCEPT ![m][c] = to]
  /\ UNCHANGED <<now, feed, row, market, result, Workers, cancelling>>

PlaceBet(m, c) ==
  /\ result[m][c] # "absent" /\ bet[m][c] = "none"
  /\ market[m][TypeOfCode[c]][1].status = "open"
  /\ Places(m, c, "none", "market") /\ UNCHANGED bet

PlaceBetReadsEvent(m, c) ==
  TakesBets(m) /\ Places(m, c, "market", "checked") /\ UNCHANGED bet

\* The wallet is locked, the bet inserted and committed; nothing is read again.
PlaceBetCommits(m, c) ==
  Places(m, c, "checked", "none") /\ bet' = [bet EXCEPT ![m][c] = "pending"]

\* The market is closed, the wallet too poor, the transaction fails.
PlaceBetFails(m, c) ==
  /\ \E from \in {"market", "checked"} : Places(m, c, from, "none")
  /\ UNCHANGED bet

-----------------------------------------------------------------------------
World ==
  \/ Tick
  \/ \E m \in Matches : Postpone(m) \/ KickOff(m) \/ FinalWhistle(m) \/ ScoresArrive(m) \/ CallOff(m)

EventSync ==
  \/ StartEventSync
  \/ \E s \in Sports : GetEvents(s)
  \/ SkipsListed
  \/ \E e \in listing.events : UpsertEvent(e)
  \/ \E m \in Matches, t \in Types : CreateMarket(m, t)
  \/ EventSyncGivesUp

OddsSync ==
  \/ ListForOddsSync
  \/ \E m \in Matches : Quote(m)
  \/ SkipsQuoted
  \/ Execute
  \/ OddsSyncGivesUp

Settlement ==
  \/ ListForSettlement
  \/ \E m \in Matches : GetEvent(m)
  \/ SkipsSettled
  \/ SettleEvent
  \/ SettlementGivesUp

Requests ==
  \/ \E m \in Matches : CancelEvent(m) \/ CancelBuildsPlan(m)
  \/ \E p \in cancelling.plans : CancelApplies(p)
  \/ CancelFails
  \/ \E m \in Matches, c \in Backed :
       PlaceBet(m, c) \/ PlaceBetReadsEvent(m, c) \/ PlaceBetCommits(m, c) \/ PlaceBetFails(m, c)

Next == World \/ EventSync \/ OddsSync \/ Settlement \/ Requests

Spec == Init /\ [][Next]_vars

\* The clock runs, no run lasts for ever, the runner starts the settlement again and
\* again, errors do not strike the same match each time, and the provider reports the
\* score of a match that has ended.  Nothing else has to happen: matches need not end,
\* lists need not be asked for, nobody has to send a request, and one that waits may wait.
Fairness ==
  /\ WF_now(Tick)
  /\ WF_phase(EventSyncGivesUp) /\ WF_phase(OddsSyncGivesUp) /\ WF_phase(ListForSettlement)
  /\ \A m \in Matches : WF_feed(ScoresArrive(m)) /\ SF_settling(GetEvent(m))
  /\ SF_settling(SettleEvent)

FairSpec == Spec /\ Fairness

-----------------------------------------------------------------------------
\* No bet passes its checks once its match has begun at the provider, however late
\* the statuses in events are: PlaceBet compares the clock with starts_at, and a
\* postponement that has not arrived yet only makes it stricter.
ChecksPrecedeKickOff ==
  [][\A m \in Matches, c \in Backed :
       placing[m][c] # "checked" /\ placing'[m][c] = "checked" =>
         feed[m].status \notin {"live", "settled"}]_vars

\* No outcome of a settled match is without its result, and none can be bet on:
\* an OddsSync that read its list before kick-off has ended, by its timeout, when
\* the match is over (ListForOddsSync, runOnce, SettleEvent).
SettledMatchIsDecided ==
  \A m \in Matches, c \in Codes :
    row[m].status = "settled" /\ result[m][c] # "absent" =>
      /\ result[m][c] \in Results
      /\ market[m][TypeOfCode[c]][1].status \notin {"open", "suspended"}

\* EventSync may bring a settled match back to live from a list it got earlier; it
\* is settled again, or called off, or both.  A match shown as settled shows as won
\* and lost what bets were paid as: the line has not moved since the first plan, and
\* the second one decides no bet again (Upsert, UpdateLine, buildPlan, applyPlan).
PaidAsShown ==
  \A m \in Matches, c \in Backed :
    row[m].status = "settled" /\ bet[m][c] \in {"won", "lost"} => result[m][c] = bet[m][c]

\* In the end each match is over in events too, and stays so: no late upsert
\* brings it back for good (Upsert, ListForSettlement).
Over(m) == row[m].status \in {"settled", "cancelled"}

EndedMatchStaysOver ==
  \A m \in Matches :
    <>[](feed[m].status \in {"settled", "cancelled"} /\ row[m].status # "none" => Over(m))

\* A pending bet on a match that was played and is not over in events yet is decided
\* in the end, also one on an outcome that OddsSync added late, whatever EventSync and
\* the administrators do meanwhile.  Not covered: a bet that commits when its match is
\* over in events already, and one whose outcome came too late for the plan of a
\* cancellation under way; the match ends without them.
Overlooked(m, c) == \E p \in cancelling.plans : p.match = m /\ c \notin DOMAIN p.results

=============================================================================
