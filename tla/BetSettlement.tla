--------------------------- MODULE BetSettlement ---------------------------
(***************************************************************************)
(* Money and bets under concurrent requests: BettingService.PlaceBet,      *)
(* SettlementService (settle and cancel, from the worker and from the      *)
(* admin handlers) and AdminService.AdjustBalance, at the grain of the SQL *)
(* statements they send.                                                   *)
(*                                                                         *)
(* Every transaction is opened by TxManager.RunInTx with the default       *)
(* options, so PostgreSQL runs it READ COMMITTED: a statement reads the    *)
(* rows committed when the statement starts, UPDATE and SELECT FOR UPDATE  *)
(* take a row lock that is kept until the end of the transaction, and what *)
(* a transaction writes is invisible to the others until it commits.  The  *)
(* first group of variables below is the committed database; work[s] is    *)
(* what the open transaction of session s has written so far.              *)
(*                                                                         *)
(* Two row locks make a session wait here: markets (the first statements   *)
(* of applyPlan) and wallets (FOR UPDATE).  Rows of outcomes, of bets and  *)
(* of the event are written only under the market locks of their event,    *)
(* and the foreign-key locks an INSERT INTO bets takes do not conflict     *)
(* with an UPDATE of a status column, so they never make anyone wait.      *)
(***************************************************************************)
EXTENDS SettlementRules, FiniteSets

CONSTANTS
  Users,
  Requests,        \* HTTP requests in flight: bettors and admins
  Worker,          \* the settlement worker: cron skips a run while one is on
  None,            \* the absent user, outcome, bet, event or lock holder
  Events, Markets, Outcomes,
  SourceOf,        \* events.source
  EventOf, TypeOf, LineOf,     \* markets.event_id, type, line
  MarketOf, CodeOf, OddsOf,    \* outcomes.market_id, code, odds
  SignupBonus, BetMin, BetMax,
  Stakes,          \* the stakes requests ask for
  Amounts,         \* the amounts AdjustBalance is asked for
  Scores,          \* the final scores a match may have: pairs of naturals
  MaxBets,         \* bound: ids bets_id_seq hands out
  MaxAdjust,       \* bound: admin_adjust entries per wallet
  MaxFaults        \* bound: cancelled contexts, lost connections, crashes

VARIABLES
  wallet,          \* wallets.balance
  journal,         \* wallet_transactions, per user in commit order
  bets,            \* the bets table; an unused id has status "none"
  betSeq,          \* bets_id_seq: not rolled back with the transaction
  marketStatus, outcomeResult, eventStatus,
  started,         \* starts_at has passed
  pc, job,         \* where each session is, and its arguments and locals
  work,            \* rows the open transaction has written
  walletLock, marketLock,   \* holder of the row lock
  queue,           \* events the worker listed and has not handled yet
  faults

db      == <<wallet, journal, bets, marketStatus, outcomeResult, eventStatus>>
locks   == <<walletLock, marketLock>>
session == <<pc, job, work, walletLock, marketLock>>
vars    == <<db, betSeq, started, session, queue, faults>>

Sessions == Requests \cup {Worker}
BetIds   == 1..MaxBets

ASSUME ConstantsOK ==
  /\ Markets \subseteq Nat /\ MaxBets \in Nat
  /\ None \notin Users \cup Sessions \cup Outcomes \cup Events \cup BetIds
  /\ SourceOf \in [Events -> {"oddsapi", "manual", "custom"}]
  /\ EventOf \in [Markets -> Events] /\ TypeOf \in [Markets -> MarketTypes]
  /\ LineOf \in [Markets -> Seq(Nat)] /\ \A m \in Markets : Len(LineOf[m]) <= 1
  /\ MarketOf \in [Outcomes -> Markets] /\ CodeOf \in [Outcomes -> OutcomeCodes]
  /\ OddsOf \in [Outcomes -> Nat] /\ \A o \in Outcomes : OddsOf[o] > 1000
  /\ SignupBonus \in Nat /\ BetMin \in Nat \ {0} /\ BetMax \in Nat
  /\ Stakes \subseteq Nat /\ Amounts \subseteq Int
  /\ Scores \subseteq Nat \X Nat /\ MaxAdjust \in Nat /\ MaxFaults \in Nat

MarketsOf(e)  == {m \in Markets : EventOf[m] = e}
OutcomesOf(e) == {o \in Outcomes : EventOf[MarketOf[o]] = e}

-----------------------------------------------------------------------------
(***************************************************************************)
(* Types.                                                                  *)
(***************************************************************************)

Terminal  == {"settled", "cancelled"}
TxTypes   == {"signup_bonus", "bet_stake", "bet_payout", "bet_refund", "admin_adjust"}
BetStatus == {"none", "pending"} \cup Results

Entry  == [type: TxTypes, amount: Int, bet: BetIds \cup {None}, after: Nat]
BetRow == [user: Users \cup {None}, outcome: Outcomes \cup {None},
           stake: Nat, payout: Nat, status: BetStatus]
NoBet  == [user |-> None, outcome |-> None, stake |-> 0, payout |-> 0, status |-> "none"]

Plan   == [final: {"none"} \cup Terminal,
           market: [Markets -> {"none", "settled", "void"}],
           result: [Outcomes -> {"none"} \cup Results]]
NoPlan == [final |-> "none", market |-> [m \in Markets |-> "none"],
           result |-> [o \in Outcomes |-> "none"]]

Job    == [user: Users \cup {None}, outcome: Outcomes \cup {None}, amount: Int,
           bet: BetIds \cup {None}, event: Events \cup {None}, plan: Plan,
           todo: SUBSET BetIds]

\* The arguments a call starts with; bet and todo are found on the way.
Args(u, o, amount, e, plan) ==
  [user |-> u, outcome |-> o, amount |-> amount, bet |-> None,
   event |-> e, plan |-> plan, todo |-> {}]
NoJob == Args(None, None, 0, None, NoPlan)

Work   == [wallet: [Users -> Nat], journal: [Users -> Seq(Entry)],
           status: [BetIds -> {"none"} \cup Results]]
NoWork == [wallet |-> [u \in Users |-> 0], journal |-> [u \in Users |-> <<>>],
           status |-> [b \in BetIds |-> "none"]]

BetPC    == {"betEvent", "betWallet", "betCommit"}
AdjustPC == {"adjWallet", "adjCommit"}
SettlePC == {"setMarkets", "setPay"}

TypeOK ==
  /\ wallet \in [Users -> Nat]
  /\ journal \in [Users -> Seq(Entry)]
  /\ bets \in [BetIds -> BetRow]
  /\ betSeq \in Nat
  /\ marketStatus \in [Markets -> {"open", "suspended", "settled", "void"}]
  /\ outcomeResult \in [Outcomes -> {"none"} \cup Results]
  /\ eventStatus \in [Events -> {"upcoming", "live"} \cup Terminal]
  /\ started \in [Events -> BOOLEAN]
  /\ pc \in [Sessions -> {"idle"} \cup BetPC \cup AdjustPC \cup SettlePC]
  /\ job \in [Sessions -> Job]
  /\ work \in [Sessions -> Work]
  /\ walletLock \in [Users -> Sessions \cup {None}]
  /\ marketLock \in [Markets -> Sessions \cup {None}]
  /\ queue \in SUBSET Events
  /\ faults \in Nat

\* Users are registered and hold the signup bonus; the events are on offer.
Init ==
  /\ wallet = [u \in Users |-> SignupBonus]
  /\ journal = [u \in Users |-> <<[type |-> "signup_bonus", amount |-> SignupBonus,
                                   bet |-> None, after |-> SignupBonus]>>]
  /\ bets = [b \in BetIds |-> NoBet]
  /\ betSeq = 0
  /\ marketStatus = [m \in Markets |-> "open"]
  /\ outcomeResult = [o \in Outcomes |-> "none"]
  /\ eventStatus = [e \in Events |-> "upcoming"]
  /\ started = [e \in Events |-> FALSE]
  /\ pc = [s \in Sessions |-> "idle"]
  /\ job = [s \in Sessions |-> NoJob]
  /\ work = [s \in Sessions |-> NoWork]
  /\ walletLock = [u \in Users |-> None]
  /\ marketLock = [m \in Markets |-> None]
  /\ queue = {}
  /\ faults = 0

-----------------------------------------------------------------------------
(***************************************************************************)
(* Transactions.                                                           *)
(***************************************************************************)

\* The session returns to the pool: locks released, uncommitted rows gone.
EndTx(s) ==
  /\ pc' = [pc EXCEPT ![s] = "idle"]
  /\ job' = [job EXCEPT ![s] = NoJob]
  /\ work' = [work EXCEPT ![s] = NoWork]
  /\ walletLock' = [u \in Users |-> IF walletLock[u] = s THEN None ELSE walletLock[u]]
  /\ marketLock' = [m \in Markets |-> IF marketLock[m] = s THEN None ELSE marketLock[m]]

\* Mutants, as in SettlementRules: plausible mistakes, referred to by nothing.
MutantLeakedLocks(s) ==
  /\ pc' = [pc EXCEPT ![s] = "idle"]
  /\ job' = [job EXCEPT ![s] = NoJob]
  /\ work' = [work EXCEPT ![s] = NoWork]
  /\ UNCHANGED <<db, betSeq, started, locks>>

Rollback(s) == EndTx(s) /\ UNCHANGED <<db, betSeq, started>>

\* COMMIT makes the wallet rows and journal rows of the transaction visible.
Publish(s) ==
  /\ wallet' = [u \in Users |-> IF walletLock[u] = s THEN work[s].wallet[u] ELSE wallet[u]]
  /\ journal' = [u \in Users |-> IF walletLock[u] = s THEN work[s].journal[u] ELSE journal[u]]

MutantNoForUpdate(s, u)  == TRUE
MutantStaleBalance(s, u) == wallet[u]

\* SELECT ... FOR UPDATE on a wallet: waits for the holder, then reads the row
\* as last committed, or as this transaction has already changed it.
WalletFree(s, u) == walletLock[u] \in {None, s}
Balance(s, u)    == IF walletLock[u] = s THEN work[s].wallet[u] ELSE wallet[u]
History(s, u)    == IF walletLock[u] = s THEN work[s].journal[u] ELSE journal[u]

\* GetByUserIDForUpdate, UpdateBalance and the journal INSERT that follows it.
Move(s, u, type, amount, bet, decided) ==
  LET after == Balance(s, u) + amount
      entry == [type |-> type, amount |-> amount, bet |-> bet, after |-> after]
  IN  /\ walletLock' = [walletLock EXCEPT ![u] = s]
      /\ work' = [work EXCEPT ![s] =
           [wallet  |-> [@.wallet EXCEPT ![u] = after],
            journal |-> [@.journal EXCEPT ![u] = Append(History(s, u), entry)],
            status  |-> decided]]

-----------------------------------------------------------------------------
(***************************************************************************)
(* BettingService.PlaceBet.  The outcome, its market and its event are     *)
(* read by separate statements without a lock, then the wallet is locked.  *)
(***************************************************************************)

PlaceBetReadsMarket(s, u, o, stake) ==
  /\ pc[s] = "idle"
  /\ BetMin <= stake /\ stake <= BetMax
  /\ marketStatus[MarketOf[o]] = "open"
  /\ pc' = [pc EXCEPT ![s] = "betEvent"]
  /\ job' = [job EXCEPT ![s] = Args(u, o, stake, None, NoPlan)]
  /\ UNCHANGED <<db, betSeq, started, work, locks, queue, faults>>

EventTakesBets(e) == eventStatus[e] = "upcoming" /\ ~started[e]

PlaceBetReadsEvent(s) ==
  /\ pc[s] = "betEvent"
  /\ EventTakesBets(EventOf[MarketOf[job[s].outcome]])
  /\ pc' = [pc EXCEPT ![s] = "betWallet"]
  /\ UNCHANGED <<db, betSeq, started, job, work, locks, queue, faults>>

\* FOR UPDATE, the balance check, INSERT INTO bets, the debit, the journal row.
PlaceBetDebits(s) ==
  LET u == job[s].user
  IN  /\ pc[s] = "betWallet"
      /\ WalletFree(s, u)
      /\ Balance(s, u) >= job[s].amount
      /\ betSeq < MaxBets
      /\ betSeq' = betSeq + 1
      /\ Move(s, u, "bet_stake", -job[s].amount, betSeq + 1, work[s].status)
      /\ job' = [job EXCEPT ![s].bet = betSeq + 1]
      /\ pc' = [pc EXCEPT ![s] = "betCommit"]
      /\ UNCHANGED <<db, started, marketLock, queue, faults>>

PlaceBetCommits(s) ==
  /\ pc[s] = "betCommit"
  /\ Publish(s)
  /\ bets' = [bets EXCEPT ![job[s].bet] =
       [user |-> job[s].user, outcome |-> job[s].outcome, stake |-> job[s].amount,
        payout |-> computePotentialPayout(job[s].amount, OddsOf[job[s].outcome]),
        status |-> "pending"]]
  /\ EndTx(s)
  /\ UNCHANGED <<betSeq, marketStatus, outcomeResult, eventStatus, started, queue, faults>>

\* ErrMarketClosed and ErrInsufficientBalance roll the transaction back.
PlaceBetRefused(s) ==
  /\ \/ /\ pc[s] = "betEvent"
        /\ ~EventTakesBets(EventOf[MarketOf[job[s].outcome]])
     \/ /\ pc[s] = "betWallet"
        /\ WalletFree(s, job[s].user)
        /\ Balance(s, job[s].user) < job[s].amount \/ betSeq = MaxBets
  /\ Rollback(s)
  /\ UNCHANGED <<queue, faults>>

-----------------------------------------------------------------------------
(***************************************************************************)
(* AdminService.AdjustBalance.                                             *)
(***************************************************************************)

Adjusted(u) == Cardinality({i \in DOMAIN journal[u] : journal[u][i].type = "admin_adjust"})

AdjustBalance(s, u, amount) ==
  /\ pc[s] = "idle"
  /\ amount # 0
  /\ pc' = [pc EXCEPT ![s] = "adjWallet"]
  /\ job' = [job EXCEPT ![s] = Args(u, None, amount, None, NoPlan)]
  /\ UNCHANGED <<db, betSeq, started, work, locks, queue, faults>>

MutantBelowZero(s) ==
  LET u == job[s].user
  IN  /\ pc[s] = "adjWallet"
      /\ WalletFree(s, u)
      /\ Adjusted(u) < MaxAdjust
      /\ Move(s, u, "admin_adjust", job[s].amount, None, work[s].status)
      /\ pc' = [pc EXCEPT ![s] = "adjCommit"]
      /\ UNCHANGED <<db, betSeq, started, job, marketLock, queue, faults>>

AdjustMoves(s) ==
  LET u == job[s].user
  IN  /\ pc[s] = "adjWallet"
      /\ WalletFree(s, u)
      /\ Balance(s, u) + job[s].amount >= 0
      /\ Adjusted(u) < MaxAdjust
      /\ Move(s, u, "admin_adjust", job[s].amount, None, work[s].status)
      /\ pc' = [pc EXCEPT ![s] = "adjCommit"]
      /\ UNCHANGED <<db, betSeq, started, job, marketLock, queue, faults>>

AdjustCommits(s) ==
  /\ pc[s] = "adjCommit"
  /\ Publish(s)
  /\ EndTx(s)
  /\ UNCHANGED <<bets, betSeq, marketStatus, outcomeResult, eventStatus, started, queue, faults>>

AdjustRefused(s) ==
  /\ pc[s] = "adjWallet"
  /\ WalletFree(s, job[s].user)
  /\ Balance(s, job[s].user) + job[s].amount < 0 \/ Adjusted(job[s].user) >= MaxAdjust
  /\ Rollback(s)
  /\ UNCHANGED <<queue, faults>>

-----------------------------------------------------------------------------
(***************************************************************************)
(* SettlementService.  The plan is computed before the transaction is      *)
(* opened, from the markets and outcomes of the event.                     *)
(***************************************************************************)

\* buildPlan with final status cancelled.
CancelPlan(e) ==
  [final  |-> "cancelled",
   market |-> [m \in Markets |-> IF m \in MarketsOf(e) THEN "void" ELSE "none"],
   result |-> [o \in Outcomes |-> IF o \in OutcomesOf(e) THEN "void" ELSE "none"]]

\* buildPlan with final status settled and a valid score.
ScoredPlan(e, home, away) ==
  [final  |-> "settled",
   market |-> [m \in Markets |->
     IF m \in MarketsOf(e) THEN ScoredMarketStatus(TypeOf[m]) ELSE "none"],
   result |-> [o \in Outcomes |->
     IF o \in OutcomesOf(e)
       THEN ScoredResult(TypeOf[MarketOf[o]], LineOf[MarketOf[o]], CodeOf[o], home, away)
       ELSE "none"]]

\* buildCustomPlan: a market without the winning outcome is voided.
CustomPlan(e, winner) ==
  LET HasWinner(m) == MarketOf[winner] = m
  IN  [final  |-> "settled",
       market |-> [m \in Markets |->
         IF m \in MarketsOf(e) THEN IF HasWinner(m) THEN "settled" ELSE "void" ELSE "none"],
       result |-> [o \in Outcomes |->
         CASE o \notin OutcomesOf(e)    -> "none"
           [] ~HasWinner(MarketOf[o]) /\ o \in OutcomesOf(e) -> "void"
           [] OTHER -> IF o = winner THEN "won" ELSE "lost"]]

\* The terminal status is written before the transaction instead of in it.
MutantStatusFirst(s, e, plan) ==
  /\ pc[s] = "idle"
  /\ pc' = [pc EXCEPT ![s] = "setMarkets"]
  /\ job' = [job EXCEPT ![s] = Args(None, None, 0, e, plan)]
  /\ eventStatus' = [eventStatus EXCEPT ![e] = plan.final]
  /\ UNCHANGED <<wallet, journal, bets, marketStatus, outcomeResult, betSeq, started,
                 work, locks, faults>>

\* The caller's guard has just been read; the transaction comes later.
StartSettle(s, e, plan) ==
  /\ pc[s] = "idle"
  /\ pc' = [pc EXCEPT ![s] = "setMarkets"]
  /\ job' = [job EXCEPT ![s] = Args(None, None, 0, e, plan)]
  /\ UNCHANGED <<db, betSeq, started, work, locks, faults>>

\* AdminService.CancelEvent (any source) and CancelMatch (manual).
AdminCancels(s, e) ==
  /\ eventStatus[e] \notin Terminal
  /\ StartSettle(s, e, CancelPlan(e))
  /\ UNCHANGED queue

\* AdminService.SettleCustom.  The outcome id is not checked against the event.
AdminSettlesCustom(s, e, winner) ==
  /\ SourceOf[e] = "custom"
  /\ eventStatus[e] \notin Terminal
  /\ StartSettle(s, e, CustomPlan(e, winner))
  /\ UNCHANGED queue

\* AdminService.SetMatchScores.  Scores are stored with the terminal status,
\* so in this module the guard on them adds nothing to the guard on status.
AdminEntersScores(s, e, score) ==
  /\ SourceOf[e] = "manual"
  /\ eventStatus[e] \in {"upcoming", "live"}
  /\ StartSettle(s, e, ScoredPlan(e, score[1], score[2]))
  /\ UNCHANGED queue

\* SettlementWorker.Run: ListForSettlement, then one event after the other.
WorkerLists ==
  /\ pc[Worker] = "idle"
  /\ queue = {}
  /\ queue' = {e \in Events : /\ SourceOf[e] = "oddsapi"
                             /\ eventStatus[e] \in {"upcoming", "live"}
                             /\ started[e]}
  /\ UNCHANGED <<db, betSeq, started, session, faults>>

\* processEvent: the provider reports the match over, or called off.  The
\* status of the event is not read again.
WorkerSettles(e) ==
  /\ e \in queue
  /\ queue' = queue \ {e}
  /\ \/ \E score \in Scores : StartSettle(Worker, e, ScoredPlan(e, score[1], score[2]))
     \/ StartSettle(Worker, e, CancelPlan(e))

\* processEvent: still running, provider error, or no usable score.
WorkerSkips(e) ==
  /\ pc[Worker] = "idle"
  /\ e \in queue
  /\ queue' = queue \ {e}
  /\ UNCHANGED <<db, betSeq, started, session, faults>>

(***************************************************************************)
(* applyPlan, the body of the settlement transaction.                      *)
(***************************************************************************)
MutantNoMarketLock(s) == {}

MarketsToLock(s) == {m \in MarketsOf(job[s].event) : marketLock[m] # s}

First(x, S) == x \in S /\ \A y \in S : x <= y

\* UPDATE markets SET status, by market id: waits for the row, then holds it.
SettleLocksMarket(s) ==
  /\ pc[s] = "setMarkets"
  /\ \E m \in Markets :
       /\ First(m, MarketsToLock(s))
       /\ marketLock[m] = None
       /\ marketLock' = [marketLock EXCEPT ![m] = s]
  /\ UNCHANGED <<db, betSeq, started, pc, job, work, walletLock, queue, faults>>

Pending(results) ==
  {b \in BetIds : /\ bets[b].status = "pending"
                  /\ bets[b].outcome \in Outcomes
                  /\ results[bets[b].outcome] # "none"}

\* The pending bets are listed before the markets are locked.
MutantListsUnlocked(s) ==
  /\ pc[s] = "setMarkets"
  /\ job' = [job EXCEPT ![s].todo = Pending(job[s].plan.result)]
  /\ pc' = [pc EXCEPT ![s] = "setPay"]
  /\ UNCHANGED <<db, betSeq, started, work, locks, queue, faults>>

\* UPDATE outcomes SET result, then ListPendingByOutcomes.
SettleListsBets(s) ==
  /\ pc[s] = "setMarkets"
  /\ MarketsToLock(s) = {}
  /\ job' = [job EXCEPT ![s].todo = Pending(job[s].plan.result)]
  /\ pc' = [pc EXCEPT ![s] = "setPay"]
  /\ UNCHANGED <<db, betSeq, started, work, locks, queue, faults>>

Verdict(s, b) == betStatusFromResult(job[s].plan.result[bets[b].outcome])

\* One turn of the loop over pending bets, by bet id: a lost bet moves no money.
SettleMarksLost(s, b) ==
  /\ pc[s] = "setPay"
  /\ First(b, job[s].todo)
  /\ Verdict(s, b) = "lost"
  /\ work' = [work EXCEPT ![s].status[b] = "lost"]
  /\ job' = [job EXCEPT ![s].todo = @ \ {b}]
  /\ UNCHANGED <<db, betSeq, started, pc, locks, queue, faults>>

\* payout and refund lock the owner's wallet first.
SettleCredits(s, b) ==
  LET v == Verdict(s, b)
      u == bets[b].user
  IN  /\ pc[s] = "setPay"
      /\ First(b, job[s].todo)
      /\ v # "lost"
      /\ WalletFree(s, u)
      /\ Move(s, u, IF v = "won" THEN "bet_payout" ELSE "bet_refund",
              Credit(v, bets[b].stake, bets[b].payout), b, [work[s].status EXCEPT ![b] = v])
      /\ job' = [job EXCEPT ![s].todo = @ \ {b}]
      /\ UNCHANGED <<db, betSeq, started, pc, marketLock, queue, faults>>

\* The bets table as the transaction of s sees it: UpdateStatusSettled.
Rows(s) == [b \in BetIds |->
  IF work[s].status[b] = "none" THEN bets[b] ELSE [bets[b] EXCEPT !.status = work[s].status[b]]]

\* UpdateStatusAndScores and COMMIT: everything applyPlan wrote appears.
SettleCommits(s) ==
  LET plan == job[s].plan
  IN  /\ pc[s] = "setPay"
      /\ job[s].todo = {}
      /\ Publish(s)
      /\ bets' = Rows(s)
      /\ marketStatus' = [m \in Markets |->
           IF plan.market[m] = "none" THEN marketStatus[m] ELSE plan.market[m]]
      /\ outcomeResult' = [o \in Outcomes |->
           IF plan.result[o] = "none" THEN outcomeResult[o] ELSE plan.result[o]]
      /\ eventStatus' = [eventStatus EXCEPT ![job[s].event] = plan.final]
      /\ EndTx(s)
      /\ UNCHANGED <<betSeq, started, queue, faults>>

-----------------------------------------------------------------------------
(***************************************************************************)
(* Lock waits, faults and the clock.                                       *)
(***************************************************************************)

\* The row s needs next is locked by t.
WaitsFor(s, t) ==
  /\ s # t
  /\ \/ pc[s] \in {"betWallet", "adjWallet"} /\ walletLock[job[s].user] = t
     \/ pc[s] = "setMarkets"
        /\ \E m \in Markets : First(m, MarketsToLock(s)) /\ marketLock[m] = t
     \/ pc[s] = "setPay"
        /\ \E b \in BetIds : /\ First(b, job[s].todo) /\ Verdict(s, b) # "lost"
                             /\ walletLock[bets[b].user] = t

InWaitCycle(s) ==
  \E S \in SUBSET Sessions :
    s \in S /\ S = {t \in Sessions : \E r \in S : WaitsFor(r, t)}

\* PostgreSQL breaks a wait cycle by failing one of the transactions in it.
\* The worker logs the error and goes on with its list.
DeadlockVictim(s) ==
  /\ InWaitCycle(s)
  /\ Rollback(s)
  /\ UNCHANGED <<queue, faults>>

\* Client gone, connection lost, process killed, two-minute limit of a run.
Fault(s) ==
  /\ pc[s] # "idle" \/ (s = Worker /\ queue # {})
  /\ faults < MaxFaults
  /\ faults' = faults + 1
  /\ Rollback(s)
  /\ queue' = IF s = Worker THEN {} ELSE queue

Kickoff(e) ==
  /\ ~started[e]
  /\ started' = [started EXCEPT ![e] = TRUE]
  /\ UNCHANGED <<db, betSeq, session, queue, faults>>

\* BetHandler.Place and AdminHandler.AdjustBalance: nothing but their numbers.
PlaceRequest(s) ==
  \E u \in Users, o \in Outcomes, stake \in Stakes : PlaceBetReadsMarket(s, u, o, stake)

AdjustRequest(s) == \E u \in Users, amount \in Amounts : AdjustBalance(s, u, amount)

Request(s) ==
  \/ PlaceRequest(s) \/ AdjustRequest(s)
  \/ \E e \in Events : AdminCancels(s, e)
  \/ \E e \in Events, winner \in Outcomes : AdminSettlesCustom(s, e, winner)
  \/ \E e \in Events, score \in Scores : AdminEntersScores(s, e, score)

Step(s) ==
  \/ PlaceBetReadsEvent(s) \/ PlaceBetDebits(s) \/ PlaceBetCommits(s) \/ PlaceBetRefused(s)
  \/ AdjustMoves(s) \/ AdjustCommits(s) \/ AdjustRefused(s)
  \/ SettleLocksMarket(s) \/ SettleListsBets(s)
  \/ \E b \in BetIds : SettleMarksLost(s, b) \/ SettleCredits(s, b)
  \/ SettleCommits(s)

Next ==
  \/ \E s \in Requests : Request(s)
  \/ WorkerLists
  \/ \E e \in Events : WorkerSettles(e) \/ WorkerSkips(e) \/ Kickoff(e)
  \/ \E s \in Sessions : Step(s) \/ DeadlockVictim(s) \/ Fault(s)

Spec == Init /\ [][Next]_vars

(***************************************************************************)
(* Fairness.  A statement that can run is run (weak fairness); a lock that *)
(* keeps coming free is eventually granted, because PostgreSQL queues the  *)
(* waiters of a row (strong fairness, for the credit of a bet one bet at a *)
(* time: a settlement that is rolled back and retried for ever does not    *)
(* count as served); a wait cycle is broken after deadlock_timeout; cron   *)
(* keeps starting the worker and the provider eventually reports every     *)
(* started match as over or called off.  Nothing obliges a client to send  *)
(* a request, and no fault has to happen.                                  *)
(***************************************************************************)
Fairness ==
  /\ \A s \in Sessions : SF_vars(Step(s)) /\ WF_vars(DeadlockVictim(s))
  /\ \A s \in Sessions, b \in BetIds : SF_vars(SettleCredits(s, b))
  /\ WF_vars(WorkerLists)
  /\ \A e \in Events : SF_vars(WorkerSettles(e)) /\ WF_vars(Kickoff(e))

FairSpec == Spec /\ Fairness

-----------------------------------------------------------------------------
(***************************************************************************)
(* Properties.                                                             *)
(***************************************************************************)

Explains(j, balance) ==
  /\ j # <<>>
  /\ j[1].after = j[1].amount
  /\ \A i \in 1..(Len(j) - 1) : j[i+1].after = j[i].after + j[i+1].amount
  /\ balance = j[Len(j)].after

\* Every journal row continues the one before it and the last one ends at the
\* balance: what migration 000005 promises ("the balance must agree with the
\* sum of the transactions"), although bets, payouts and adjustments of one
\* user run concurrently and each computes its own balance_after.
JournalExplainsBalance == \A u \in Users : Explains(journal[u], wallet[u])

IsCredit(x) == x.type \in {"bet_payout", "bet_refund"}

\* x belongs to a bet of u that is won (payout) or void (refund), and is worth
\* what the row of the bet says.
Justified(u, x, rows) ==
  /\ x.bet \in BetIds
  /\ rows[x.bet].user = u
  /\ rows[x.bet].status = (IF x.type = "bet_payout" THEN "won" ELSE "void")
  /\ x.amount = Credit(rows[x.bet].status, rows[x.bet].stake, rows[x.bet].payout)

PaidOnce(u, j, rows) ==
  \A i \in 1..Len(j) : IsCredit(j[i]) =>
    /\ Justified(u, j[i], rows)
    /\ \A k \in 1..Len(j) : IsCredit(j[k]) /\ j[k].bet = j[i].bet => k = i

\* A payout or a refund in the journal belongs to a bet that was decided that
\* way and is the only one for that bet: two settlements of one event that
\* overlap (worker and admin, a double click, a retry after a fault) never pay
\* twice, and a later plan never turns a paid bet into something else.
EachBetPaidOnce == \A u \in Users : PaidOnce(u, journal[u], bets)

\* While a settlement works through the pending bets it listed, nobody else
\* decides one of them: UpdateStatusSettled has no "AND status = 'pending'",
\* so a list that went stale would pay again.  The market rows locked before
\* the list is read are what keeps it fresh.
PendingListIsFresh ==
  \A s \in Sessions : \A b \in job[s].todo : bets[b].status = "pending"

\* Every request and every run of the worker ends, with success or an error,
\* in spite of lock queues and of wait cycles among settlements.
EveryRequestReturns ==
  \A s \in Sessions : pc[s] # "idle" ~> pc[s] = "idle"

\* A bet on a match from the odds provider that was committed before any
\* settlement of the match listed its pending bets is decided in the end,
\* through rollbacks, deadlocks and cancelled runs of the worker.  (A bet
\* committed after the list was read is the one NoStrandedBet is about.)
BetIsDecided(b) ==
  /\ bets[b].status = "pending"
  /\ LET e == EventOf[MarketOf[bets[b].outcome]]
     IN  /\ SourceOf[e] = "oddsapi" /\ eventStatus[e] \notin Terminal
         /\ \A s \in Sessions : pc[s] = "setPay" => job[s].event # e
  ~> bets[b].status # "pending"

\* SettleEvent, settlement.go:86-88: an event already settled has no pending bets.
NoStrandedBet ==
  \A b \in BetIds :
    bets[b].status = "pending" =>
      eventStatus[EventOf[MarketOf[bets[b].outcome]]] \notin Terminal

\* CancelEvent, admin_service.go:253-254: a settled or cancelled event cannot be
\* cancelled (and domain/constants.go:49: both statuses end the life cycle).
TerminalStatusIsFinal ==
  [][\A e \in Events : eventStatus[e] \in Terminal => eventStatus'[e] = eventStatus[e]]_eventStatus
=============================================================================
