---------------------------- MODULE Leaderboard ----------------------------
(***************************************************************************)
(* What the site shows of its bettors: the leaderboard with its cache      *)
(* (internal/service/stats_service.go), the profile statistics             *)
(* (internal/repository/stats.go) and the pages of a bet history           *)
(* (internal/repository/bet.go), read while bets are placed and decided.   *)
(* The transactions that write are BetSettlement; here each is one step,   *)
(* with the wallet it moves, so that the statistics can be compared with   *)
(* the money.  Time passes in ticks, and a cached page lives for a few of  *)
(* them; the ranking is that of all time, the week and the month only tell *)
(* cached pages apart.                                                     *)
(***************************************************************************)
EXTENDS Integers, Sequences, FiniteSetsExt, Functions

CONSTANTS
  NULL,
  BetOf,          \* the bets, in the order they are placed: user, stake, payout
  Users,          \* ids, numbers as in the table
  Readers,        \* concurrent requests of visitors
  Queries,        \* what visitors write behind /leaderboard?: period, metric, page
  SignupBonus,
  MinBets,        \* LEADERBOARD_MIN_BETS
  PageSize,       \* rows of a page
  TTL,            \* life of a cached page, in ticks
  MaxQuery,       \* ticks a query of the leaderboard may take
  MaxTime         \* bound of the model

ASSUME LeaderboardConstantsOK ==
  /\ Users \subseteq Nat /\ IsFiniteSet(Users)
  /\ BetOf \in Seq([user : Users, stake : Nat, payout : Nat])
  /\ \A b \in DOMAIN BetOf : BetOf[b].stake \in 1..BetOf[b].payout
  /\ {SignupBonus, MinBets, PageSize, TTL, MaxQuery, MaxTime} \subseteq Nat /\ PageSize > 0

Bets == DOMAIN BetOf

VARIABLES
  now,
  status,     \* of each bet: "none" before it is placed
  balance,    \* wallets
  cache,      \* [period, metric, page] -> the cached page, NULL when there is none
  asked       \* of each reader: the request it is in, and the last answer it got

vars == <<now, status, balance, cache, asked>>

-----------------------------------------------------------------------------
(***************************************************************************)
(* The statistics.                                                         *)
(***************************************************************************)
Stake  == [b \in Bets |-> BetOf[b].stake]
Payout == [b \in Bets |-> BetOf[b].payout]

BetsOf(u, S) == {b \in Bets : BetOf[b].user = u /\ status[b] \in S}

MutantVoidToo == {"won", "lost", "void"}

\* The bets that count: void ones are neutral, pending ones unknown.
Decided == {"won", "lost"}

\* One SELECT with a FILTER for each number.
GetUserStats(u) ==
  [total   |-> Cardinality(BetsOf(u, {"pending", "won", "lost", "void"})),
   won     |-> Cardinality(BetsOf(u, {"won"})),
   lost    |-> Cardinality(BetsOf(u, {"lost"})),
   void    |-> Cardinality(BetsOf(u, {"void"})),
   pending |-> Cardinality(BetsOf(u, {"pending"})),
   staked  |-> SumFunctionOnSet(Stake, BetsOf(u, Decided)),
   profit  |-> SumFunctionOnSet(Payout, BetsOf(u, {"won"})) - SumFunctionOnSet(Stake, BetsOf(u, Decided))]

Periods == {"week", "month", "all"}
Metrics == {"profit", "roi"}

Row(u, B) ==
  [user   |-> u,
   total  |-> Cardinality(B),
   won    |-> Cardinality({b \in B : status[b] = "won"}),
   staked |-> SumFunctionOnSet(Stake, B),
   profit |-> SumFunctionOnSet(Payout, {b \in B : status[b] = "won"}) - SumFunctionOnSet(Stake, B)]

\* GROUP BY user, HAVING COUNT(*) >= MinBets; the join drops who has no bets.
Ranked ==
  {row \in {Row(u, BetsOf(u, {"won", "lost"})) : u \in Users} : row.total > 0 /\ row.total >= MinBets}

\* a/b > c/d for positive b and d.
Higher(a, b, c, d) == a * d > c * b

MutantNullsFirst(metric, r, s) ==
  CASE metric = "profit" -> r.profit > s.profit
    [] metric = "roi"    -> \/ r.won = 0 /\ s.won # 0
                            \/ s.won # 0 /\ r.won # 0 /\ Higher(r.profit, r.staked, s.profit, s.staked)

\* By the metric, the best first.  Without a won bet the sum over the won ones is
\* NULL, so is the ROI, and NULLS LAST.
Before(metric, r, s) ==
  CASE metric = "profit" -> r.profit > s.profit
    [] metric = "roi"    -> \/ r.won # 0 /\ s.won = 0
                            \/ r.won # 0 /\ s.won # 0 /\ Higher(r.profit, r.staked, s.profit, s.staked)

\* The ORDER BY: by the metric, then by the id of the user.
Ahead(metric, r, s) == Before(metric, r, s) \/ (~Before(metric, s, r) /\ r.user < s.user)

\* The list that an order makes of rows: before[x] are the rows that come before
\* x, and the i-th row is the one with i - 1 rows before it.
InOrder(before) ==
  [i \in 1..Cardinality(DOMAIN before) |-> CHOOSE x \in DOMAIN before : Cardinality(before[x]) = i - 1]

Sorted(metric, rows) == InOrder([r \in rows |-> {s \in rows : Ahead(metric, s, r)}])

\* LIMIT and OFFSET.
PageOf(seq, page) ==
  SubSeq(seq, (page - 1) * PageSize + 1, Min({page * PageSize, Len(seq)}))

GetLeaderboard(k) == PageOf(Sorted(k.metric, Ranked), k.page)

-----------------------------------------------------------------------------
(***************************************************************************)
(* Requests.                                                               *)
(***************************************************************************)
\* StatsHandler.Leaderboard: what is left out is filled in, a page that is no
\* positive number is the first, an unknown period or metric is refused.
Filled(q) ==
  [period |-> IF q.period = "" THEN "all" ELSE q.period,
   metric |-> IF q.metric = "" THEN "profit" ELSE q.metric,
   page   |-> IF q.page \in Nat \ {0} THEN q.page ELSE 1]

Valid(q) == q.period \in Periods \cup {""} /\ q.metric \in Metrics \cup {""}

AskedKeys == {Filled(q) : q \in {p \in Queries : Valid(p)}}

\* The rows of a page are abstracted to the moment their query ran.
Nobody == [at |-> "idle", key |-> NULL, since |-> 0, asOf |-> 0, age |-> 0, page |-> 0, due |-> {}]

Init ==
  /\ now = 0
  /\ status = [b \in Bets |-> "none"]
  /\ balance = [u \in Users |-> SignupBonus]
  /\ cache = [k \in AskedKeys |-> NULL]
  /\ asked = [r \in Readers |-> Nobody]

DbUnmoved == UNCHANGED <<now, status, balance>>

\* How long a page is served: from the moment it was stored.
Fresh(entry) == entry # NULL /\ now - entry.at <= TTL

Serve(r, asOf) ==
  asked' = [asked EXCEPT ![r] = [Nobody EXCEPT !.at = "served", !.age = now - asOf]]

MutantSlides(k) ==
  IF Fresh(cache[k]) THEN cache' = [cache EXCEPT ![k].at = now] ELSE UNCHANGED cache

\* Reading does not prolong the life of a page.
Touch(k) == UNCHANGED cache

\* cacheGet: a hit is the answer, a miss goes to the database without the lock.
GetsCached(r, q) ==
  /\ asked[r].at = "idle" /\ Valid(q)
  /\ LET k == Filled(q)
     IN  /\ IF Fresh(cache[k])
              THEN Serve(r, cache[k].asOf)
              ELSE asked' = [asked EXCEPT ![r] = [Nobody EXCEPT !.at = "query", !.key = k, !.since = now]]
         /\ Touch(k)
  /\ DbUnmoved

\* The SELECT runs.
Queried(r) ==
  /\ asked[r].at = "query"
  /\ asked' = [asked EXCEPT ![r].at = "put", ![r].asOf = now]
  /\ UNCHANGED cache /\ DbUnmoved

QueryFails(r) ==
  /\ asked[r].at = "query"
  /\ asked' = [asked EXCEPT ![r] = Nobody]
  /\ UNCHANGED cache /\ DbUnmoved

\* cachePut: whoever comes last replaces the entry and dates it now.
Puts(r) ==
  /\ asked[r].at = "put"
  /\ cache' = [cache EXCEPT ![asked[r].key] = [at |-> now, asOf |-> asked[r].asOf]]
  /\ Serve(r, asked[r].asOf)
  /\ DbUnmoved

MutantPendingFirst(b, c) ==
  IF (status[b] = "pending") = (status[c] = "pending") THEN b > c ELSE status[b] = "pending"

\* created_at DESC, id DESC.
Newer(b, c) == b > c

History(u) == BetsOf(u, {"pending", "won", "lost", "void"})

ListByUser(u, page) ==
  PageOf(InOrder([b \in History(u) |-> {c \in History(u) : Newer(c, b)}]), page)

\* A visitor opens a bet history and turns its pages until one comes back empty;
\* due are the bets of that history that have not been shown yet.
OpensHistory(r, u) ==
  /\ asked[r].at = "idle"
  /\ asked' = [asked EXCEPT ![r] = [Nobody EXCEPT
       !.at = "history", !.key = u, !.page = 1, !.due = History(u)]]
  /\ UNCHANGED cache /\ DbUnmoved

TurnsPage(r) ==
  /\ asked[r].at = "history"
  /\ LET bets == ListByUser(asked[r].key, asked[r].page)
     IN  asked' = [asked EXCEPT ![r] =
           IF bets = <<>> THEN [Nobody EXCEPT !.at = "read", !.due = asked[r].due]
                          ELSE [asked[r] EXCEPT !.page = @ + 1, !.due = @ \ Range(bets)]]
  /\ UNCHANGED cache /\ DbUnmoved

Closes(r) ==
  /\ asked[r].at \in {"read", "served"}
  /\ asked' = [asked EXCEPT ![r] = Nobody]
  /\ UNCHANGED cache /\ DbUnmoved

-----------------------------------------------------------------------------
(***************************************************************************)
(* The database moves.                                                     *)
(***************************************************************************)
PlaceBet(b) ==
  /\ status[b] = "none" /\ \A c \in Bets : c < b => status[c] # "none"
  /\ balance[BetOf[b].user] >= Stake[b]
  /\ status' = [status EXCEPT ![b] = "pending"]
  /\ balance' = [balance EXCEPT ![BetOf[b].user] = @ - Stake[b]]
  /\ UNCHANGED <<now, cache, asked>>

Credit(b, result) == CASE result = "won"  -> Payout[b]
                       [] result = "lost" -> 0
                       [] result = "void" -> Stake[b]

Settle(b, result) ==
  /\ status[b] = "pending"
  /\ status' = [status EXCEPT ![b] = result]
  /\ balance' = [balance EXCEPT ![BetOf[b].user] = @ + Credit(b, result)]
  /\ UNCHANGED <<now, cache, asked>>

\* A query of the leaderboard does not take for ever.
Tick ==
  /\ now < MaxTime
  /\ \A r \in Readers : asked[r].at \in {"query", "put"} => now - asked[r].since < MaxQuery
  /\ now' = now + 1
  /\ UNCHANGED <<status, balance, cache, asked>>

Next ==
  \/ \E r \in Readers :
       \/ \E q \in Queries : GetsCached(r, q)
       \/ Queried(r) \/ QueryFails(r) \/ Puts(r)
       \/ \E u \in Users : OpensHistory(r, u)
       \/ TurnsPage(r) \/ Closes(r)
  \/ \E b \in Bets : PlaceBet(b) \/ \E result \in {"won", "lost", "void"} : Settle(b, result)
  \/ Tick

Spec == Init /\ [][Next]_vars

-----------------------------------------------------------------------------
(***************************************************************************)
(* Properties.                                                             *)
(***************************************************************************)

\* The profit a profile shows is what the bets brought the wallet: the balance
\* is the bonus plus the profit minus what is still at stake (stats.go against
\* settlement.go: a void bet counts in neither, a pending one only as a stake).
ProfitIsWalletGain ==
  \A u \in Users :
    balance[u] = SignupBonus + GetUserStats(u).profit - SumFunctionOnSet(Stake, BetsOf(u, {"pending"}))

\* Profile and leaderboard are two queries with one meaning: the leaderboard of
\* all time lists exactly the users with enough decided bets, each once over
\* all its pages, with the numbers of the profile, and the ROI it shows never
\* rises from one row to the next although the database sorts by another
\* expression (stats.go orderExpr against computeRates).
LeaderboardAgrees ==
  LET enough == {u \in Users : LET s == GetUserStats(u) IN s.won + s.lost >= Max({1, MinBets})}
      size   == Cardinality(enough)
  IN  \A metric \in Metrics :
        LET Page(p) == GetLeaderboard([metric |-> metric, page |-> p])
            ranking == [i \in 1..size |-> Page(1 + (i - 1) \div PageSize)[1 + ((i - 1) % PageSize)]]
        IN  /\ \A p \in 1..size + 1 : Len(Page(p)) = Max({0, Min({PageSize, size - (p - 1) * PageSize})})
            /\ {r.user : r \in Range(ranking)} = enough
            /\ \A r \in Range(ranking) :
                 LET s == GetUserStats(r.user)
                 IN  /\ r.total = s.won + s.lost /\ r.won = s.won
                     /\ r.staked = s.staked /\ r.profit = s.profit
            /\ \A i, j \in 1..size : i < j =>
                 LET r == ranking[i]
                     s == ranking[j]
                 IN  IF metric = "profit" THEN r.profit >= s.profit
                                          ELSE ~Higher(s.profit, s.staked, r.profit, r.staked)

\* A visitor is never shown a leaderboard older than the life of a cached page
\* and the time of one query: hits do not prolong a page, and a query that
\* stores its rows late does not make them live for ever (cacheGet, cachePut).
ServedIsRecent ==
  \A r \in Readers : asked[r].at = "served" => asked[r].age <= TTL + MaxQuery

\* Who turns the pages of a bet history until the end sees every bet there was
\* when it was opened, although new bets shift the pages and settlements change
\* the rows (ListByUser: an order that nothing but a new bet changes).
HistoryIsComplete ==
  \A r \in Readers : asked[r].at = "read" => asked[r].due = {}
=============================================================================
