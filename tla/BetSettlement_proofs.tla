------------------------ MODULE BetSettlement_proofs ------------------------
(***************************************************************************)
(* Theorems about BetSettlement, for any users, requests, events, markets, *)
(* outcomes, odds and bounds.  The inductive invariant is TypeOK and the   *)
(* named parts below.                                                      *)
(***************************************************************************)
EXTENDS BetSettlementRefinement, FoldLemmas

EventOfBet(b) == EventOf[MarketOf[bets[b].outcome]]

\* A row of the bets table names a user and an outcome, and ids above the
\* sequence are unused.
BetRowsOK ==
  \A b \in BetIds :
    /\ bets[b].status # "none" => bets[b].user \in Users /\ bets[b].outcome \in Outcomes
    /\ b > betSeq => bets[b].status = "none"

\* What a session between two statements knows about its arguments.
JobsOK ==
  \A s \in Sessions :
    /\ pc[s] \in BetPC => /\ job[s].user \in Users
                          /\ job[s].outcome \in Outcomes
                          /\ job[s].amount \in Nat
    /\ pc[s] = "betCommit" => /\ job[s].bet \in BetIds
                              /\ job[s].bet <= betSeq
                              /\ bets[job[s].bet].status = "none"
    /\ pc[s] \in AdjustPC => job[s].user \in Users
    /\ pc[s] \in SettlePC =>
         /\ job[s].event \in Events
         /\ job[s].plan.final \in Terminal
         /\ \A o \in Outcomes :
              job[s].plan.result[o] # "none" => EventOf[MarketOf[o]] = job[s].event

\* Two bets being placed never share an id.
BetIdsDiffer ==
  \A s, t \in Sessions :
    pc[s] = "betCommit" /\ pc[t] = "betCommit" /\ job[s].bet = job[t].bet => s = t

\* A settlement past its list of pending bets holds all markets of its event.
MarketsHeld ==
  \A s \in Sessions : pc[s] = "setPay" =>
    \A m \in Markets : EventOf[m] = job[s].event => marketLock[m] = s

\* The bets a settlement still has to decide, or has decided and not committed,
\* are pending bets of its event.
ListOK ==
  \A s \in Sessions, b \in BetIds :
    /\ b \in job[s].todo \/ work[s].status[b] # "none" =>
         /\ pc[s] = "setPay"
         /\ bets[b].status = "pending"
         /\ EventOfBet(b) = job[s].event
    /\ b \in job[s].todo => work[s].status[b] = "none"

IInv == TypeOK /\ BetRowsOK /\ JobsOK /\ BetIdsDiffer /\ MarketsHeld /\ ListOK

-----------------------------------------------------------------------------
\* The values a session is reset to are well typed.
LEMMA ResetTypes == NoJob \in Job /\ NoWork \in Work /\ NoBet \in BetRow
  BY ConstantsOK
  DEF NoJob, Args, NoPlan, Job, Plan, NoWork, Work, NoBet, BetRow, BetStatus, Results, Terminal

\* The initial state satisfies the inductive invariant.
LEMMA InitIInv == Init => IInv
<1> SUFFICES ASSUME Init PROVE IInv
  OBVIOUS
<1> USE DEF Init
<1>1. TypeOK
  <2>1. journal \in [Users -> Seq(Entry)]
    <3>1. [type |-> "signup_bonus", amount |-> SignupBonus, bet |-> None,
           after |-> SignupBonus] \in Entry
      BY ConstantsOK DEF Entry, TxTypes
    <3> QED
      BY <3>1
  <2>2. bets \in [BetIds -> BetRow] /\ job \in [Sessions -> Job] /\ work \in [Sessions -> Work]
    BY ResetTypes
  <2> QED
    BY <2>1, <2>2, ConstantsOK DEF TypeOK
<1>2. BetRowsOK
  BY DEF BetRowsOK, NoBet
<1>3. JobsOK /\ BetIdsDiffer /\ MarketsHeld
  BY DEF JobsOK, BetIdsDiffer, MarketsHeld, BetPC, AdjustPC, SettlePC
<1>4. ListOK
  BY DEF ListOK, NoJob, Args, NoWork
<1> QED
  BY <1>1, <1>2, <1>3, <1>4 DEF IInv

\* Ending a transaction leaves the session variables well typed.
LEMMA EndTxTypes ==
  ASSUME TypeOK, NEW s \in Sessions, EndTx(s)
  PROVE  /\ pc' \in [Sessions -> {"idle"} \cup BetPC \cup AdjustPC \cup SettlePC]
         /\ job' \in [Sessions -> Job]
         /\ work' \in [Sessions -> Work]
         /\ walletLock' \in [Users -> Sessions \cup {None}]
         /\ marketLock' \in [Markets -> Sessions \cup {None}]
  BY ResetTypes DEF EndTx, TypeOK

\* Rolling a session back disturbs nothing, whoever else is at work.
LEMMA RollbackKeepsIInv ==
  ASSUME IInv, NEW s \in Sessions, Rollback(s), queue' \in SUBSET Events, faults' \in Nat
  PROVE  IInv'
<1> USE DEF IInv
<1>1. TypeOK'
  BY EndTxTypes DEF TypeOK, Rollback, db
<1>2. BetRowsOK'
  BY DEF BetRowsOK, Rollback, db
<1>3. JobsOK'
  BY DEF JobsOK, Rollback, EndTx, db, BetPC, AdjustPC, SettlePC, TypeOK
<1>4. BetIdsDiffer'
  BY DEF BetIdsDiffer, Rollback, EndTx, TypeOK
<1>5. MarketsHeld'
  BY DEF MarketsHeld, Rollback, EndTx, TypeOK
<1>6. ListOK'
  BY DEF ListOK, EventOfBet, Rollback, EndTx, db, TypeOK, NoJob, Args, NoWork
<1> QED
  BY <1>1, <1>2, <1>3, <1>4, <1>5, <1>6

-----------------------------------------------------------------------------
(* PlaceBet.                                                               *)

\* A request that has read an open market holds a user, an outcome, a stake.
LEMMA ReadsMarketKeepsIInv ==
  ASSUME IInv, NEW s \in Requests, NEW u \in Users, NEW o \in Outcomes, NEW stake \in Stakes,
         PlaceBetReadsMarket(s, u, o, stake)
  PROVE  IInv'
<1> USE DEF IInv, PlaceBetReadsMarket
<1>0. s \in Sessions /\ stake \in Nat
  BY ConstantsOK DEF Sessions
<1>1. TypeOK'
  <2>1. Args(u, o, stake, None, NoPlan) \in Job
    BY <1>0, ResetTypes DEF Args, NoJob, Job
  <2> QED
    BY <1>0, <2>1 DEF TypeOK, BetPC, db, locks
<1>2. BetRowsOK' /\ MarketsHeld'
  BY <1>0 DEF BetRowsOK, MarketsHeld, db, locks, TypeOK
<1>3. JobsOK' /\ BetIdsDiffer'
  BY <1>0 DEF JobsOK, BetIdsDiffer, db, TypeOK, BetPC, AdjustPC, SettlePC, Args
<1>4. ListOK'
  BY <1>0 DEF ListOK, EventOfBet, db, TypeOK, Args
<1> QED
  BY <1>1, <1>2, <1>3, <1>4

\* Reading the event moves the request on and touches nothing else.
LEMMA ReadsEventKeepsIInv ==
  ASSUME IInv, NEW s \in Sessions, PlaceBetReadsEvent(s)
  PROVE  IInv'
<1> USE DEF IInv, PlaceBetReadsEvent
<1>1. TypeOK'
  BY DEF TypeOK, BetPC, db, locks
<1>2. BetRowsOK' /\ MarketsHeld'
  BY DEF BetRowsOK, MarketsHeld, db, locks, TypeOK
<1>3. JobsOK' /\ BetIdsDiffer'
  BY DEF JobsOK, BetIdsDiffer, db, TypeOK, BetPC, AdjustPC, SettlePC
<1>4. ListOK'
  BY DEF ListOK, EventOfBet, db, TypeOK
<1> QED
  BY <1>1, <1>2, <1>3, <1>4

\* A movement that does not take the balance below zero keeps the uncommitted
\* rows well typed.
LEMMA MoveTypes ==
  ASSUME TypeOK, NEW s \in Sessions, NEW u \in Users, NEW type \in TxTypes,
         NEW amount \in Int, NEW bet \in BetIds \cup {None},
         NEW decided \in [BetIds -> {"none"} \cup Results],
         Balance(s, u) + amount >= 0,
         Move(s, u, type, amount, bet, decided)
  PROVE  /\ work' \in [Sessions -> Work]
         /\ walletLock' \in [Users -> Sessions \cup {None}]
<1> DEFINE after == Balance(s, u) + amount
           entry == [type |-> type, amount |-> amount, bet |-> bet, after |-> after]
<1>1. after \in Nat /\ entry \in Entry
  BY DEF Balance, TypeOK, Work, Entry
<1>2. History(s, u) \in Seq(Entry)
  BY DEF History, TypeOK, Work
<1>3. Append(History(s, u), entry) \in Seq(Entry)
  BY <1>1, <1>2
<1>4. work[s] \in Work
  BY DEF TypeOK
<1>5. [wallet  |-> [work[s].wallet EXCEPT ![u] = after],
       journal |-> [work[s].journal EXCEPT ![u] = Append(History(s, u), entry)],
       status  |-> decided] \in Work
  BY <1>1, <1>3, <1>4 DEF Work
<1> QED
  BY <1>5 DEF Move, TypeOK

\* Writing one field of the locals of a session, or of its uncommitted rows.
LEMMA JobWithBet ==
  ASSUME NEW j \in Job, NEW b \in BetIds
  PROVE  [j EXCEPT !.bet = b] =
           [user |-> j.user, outcome |-> j.outcome, amount |-> j.amount, bet |-> b,
            event |-> j.event, plan |-> j.plan, todo |-> j.todo]
  BY DEF Job

\* A job that goes on with its list has the fields it had.
LEMMA JobWithTodo ==
  ASSUME NEW j \in Job, NEW T \in SUBSET BetIds
  PROVE  [j EXCEPT !.todo = T] =
           [user |-> j.user, outcome |-> j.outcome, amount |-> j.amount, bet |-> j.bet,
            event |-> j.event, plan |-> j.plan, todo |-> T]
  BY DEF Job

\* A status written for a bet is one of its statuses.
LEMMA WorkWithStatus ==
  ASSUME NEW w \in Work, NEW d \in [BetIds -> {"none"} \cup Results]
  PROVE  [w EXCEPT !.status = d] = [wallet |-> w.wallet, journal |-> w.journal, status |-> d]
  BY DEF Work

\* ListOK depends on few things.
LEMMA ListOKFrame ==
  ASSUME ListOK, bets' = bets,
         \A t \in Sessions : /\ job'[t].todo = job[t].todo
                             /\ job'[t].event = job[t].event
                             /\ work'[t].status = work[t].status
                             /\ pc[t] = "setPay" => pc'[t] = "setPay"
  PROVE  ListOK'
  BY DEF ListOK, EventOfBet

\* The debit takes an id above the sequence, so no other session has it.
LEMMA DebitsKeepsIInv ==
  ASSUME IInv, NEW s \in Sessions, PlaceBetDebits(s)
  PROVE  IInv'
<1> DEFINE u == job[s].user
           b == betSeq + 1
           j == [user |-> u, outcome |-> job[s].outcome, amount |-> job[s].amount,
                 bet |-> b, event |-> job[s].event, plan |-> job[s].plan, todo |-> job[s].todo]
<1> USE DEF IInv
<1>0. /\ pc[s] = "betWallet" /\ pc' = [pc EXCEPT ![s] = "betCommit"]
      /\ Balance(s, u) >= job[s].amount
      /\ b \in BetIds /\ betSeq' = b /\ betSeq \in Nat
      /\ u \in Users /\ job[s].outcome \in Outcomes /\ job[s].amount \in Nat
      /\ Move(s, u, "bet_stake", -job[s].amount, b, work[s].status)
      /\ UNCHANGED <<db, started, marketLock, queue, faults>>
  <2>1. /\ pc[s] = "betWallet" /\ pc' = [pc EXCEPT ![s] = "betCommit"]
        /\ Balance(s, u) >= job[s].amount
        /\ betSeq < MaxBets /\ betSeq' = b
        /\ Move(s, u, "bet_stake", -job[s].amount, b, work[s].status)
        /\ UNCHANGED <<db, started, marketLock, queue, faults>>
    BY Zenon DEF PlaceBetDebits
  <2>2. b \in BetIds /\ betSeq \in Nat
    BY <2>1, ConstantsOK DEF TypeOK, BetIds
  <2> QED
    BY <2>1, <2>2 DEF JobsOK, BetPC
<1>1. job' = [job EXCEPT ![s] = j] /\ job' \in [Sessions -> Job]
  <2>1. job[s] \in Job
    BY DEF TypeOK
  <2>2. job' = [job EXCEPT ![s] = [job[s] EXCEPT !.bet = b]]
    BY Zenon DEF PlaceBetDebits
  <2>3. j \in Job
    BY <1>0, <2>1 DEF Job
  <2>4. job' = [job EXCEPT ![s] = j]
    BY <1>0, <2>1, <2>2, JobWithBet
  <2> QED
    BY <2>3, <2>4 DEF TypeOK
<1>2. /\ work' \in [Sessions -> Work]
      /\ walletLock' \in [Users -> Sessions \cup {None}]
  <2>1. work[s].status \in [BetIds -> {"none"} \cup Results]
    BY DEF TypeOK, Work
  <2>2. Balance(s, u) + (-job[s].amount) >= 0 /\ -job[s].amount \in Int
    BY <1>0 DEF Balance, TypeOK, Work
  <2> QED
    BY <1>0, <2>1, <2>2, MoveTypes DEF TxTypes
<1>3. TypeOK'
  <2>1. betSeq' \in Nat /\ pc' \in [Sessions -> {"idle"} \cup BetPC \cup AdjustPC \cup SettlePC]
    BY <1>0 DEF TypeOK, BetPC
  <2>2. job' \in [Sessions -> Job]
    BY <1>1
  <2> HIDE DEF j, b, u
  <2> QED
    BY <1>0, <1>2, <2>1, <2>2 DEF TypeOK, db
<1>4. BetRowsOK' /\ MarketsHeld'
  BY <1>0, <1>1 DEF BetRowsOK, MarketsHeld, db, TypeOK, BetIds
<1>5. JobsOK'
  BY <1>0, <1>1 DEF JobsOK, BetRowsOK, db, TypeOK, BetPC, AdjustPC, SettlePC, BetIds
<1>6. BetIdsDiffer'
  BY <1>0, <1>1 DEF BetIdsDiffer, JobsOK, TypeOK, BetIds
<1>7. ListOK'
  <2>1. \A t \in Sessions : work'[t].status = work[t].status
    BY <1>0 DEF Move, TypeOK
  <2>2. \A t \in Sessions : job'[t].todo = job[t].todo /\ job'[t].event = job[t].event
    BY <1>1 DEF TypeOK
  <2>3. \A t \in Sessions : pc[t] = "setPay" => pc'[t] = "setPay"
    BY <1>0 DEF TypeOK
  <2>4. bets' = bets
    BY <1>0 DEF db
  <2> QED
    BY <2>1, <2>2, <2>3, <2>4, ListOKFrame
<1> QED
  BY <1>3, <1>4, <1>5, <1>6, <1>7

\* COMMIT publishes well-typed balances and journals.
LEMMA PublishTypes ==
  ASSUME TypeOK, NEW s \in Sessions, Publish(s)
  PROVE  wallet' \in [Users -> Nat] /\ journal' \in [Users -> Seq(Entry)]
  BY DEF Publish, TypeOK, Work

\* floor(stake * odds) is a natural number.
LEMMA PayoutInNat ==
  ASSUME NEW stake \in Nat, NEW odds \in Nat
  PROVE  computePotentialPayout(stake, odds) \in Nat
<1>1. \A n \in Nat : n \div 1000 \in Nat
  OBVIOUS
<1>2. stake * odds \in Nat
  OBVIOUS
<1> QED
  BY <1>1, <1>2 DEF computePotentialPayout

\* The row of a new bet appears where there was none, so no settlement has it
\* on its list.
LEMMA BetCommitsKeepsIInv ==
  ASSUME IInv, NEW s \in Sessions, PlaceBetCommits(s)
  PROVE  IInv'
<1> DEFINE b == job[s].bet
           row == [user |-> job[s].user, outcome |-> job[s].outcome, stake |-> job[s].amount,
                   payout |-> computePotentialPayout(job[s].amount, OddsOf[job[s].outcome]),
                   status |-> "pending"]
<1> USE DEF IInv
<1>0. /\ pc[s] = "betCommit" /\ Publish(s) /\ EndTx(s)
      /\ bets' = [bets EXCEPT ![b] = row]
      /\ UNCHANGED <<betSeq, marketStatus, outcomeResult, eventStatus, started, queue, faults>>
  BY DEF PlaceBetCommits
<1>1. /\ job[s].user \in Users /\ job[s].outcome \in Outcomes /\ job[s].amount \in Nat
      /\ b \in BetIds /\ b <= betSeq /\ bets[b].status = "none"
  BY <1>0 DEF JobsOK, BetPC
<1>2. row \in BetRow
  BY <1>1, PayoutInNat, ConstantsOK, ZenonT(60) DEF BetRow, BetStatus
<1>3. TypeOK'
  <2>1. bets' \in [BetIds -> BetRow]
    BY <1>0, <1>2 DEF TypeOK
  <2> QED
    BY <1>0, <2>1, EndTxTypes, PublishTypes DEF TypeOK
<1>4. BetRowsOK'
  BY <1>0, <1>1 DEF BetRowsOK, TypeOK, BetIds
<1>5. \A t \in Sessions : t # s => /\ pc'[t] = pc[t] /\ job'[t] = job[t] /\ work'[t] = work[t]
  BY <1>0 DEF EndTx, TypeOK
<1>6. pc'[s] = "idle" /\ job'[s].todo = {} /\ \A c \in BetIds : work'[s].status[c] = "none"
  BY <1>0 DEF EndTx, TypeOK, NoJob, Args, NoWork
<1>7. JobsOK'
  <2>1. \A t \in Sessions : pc'[t] = "betCommit" => bets'[job'[t].bet] = bets[job[t].bet]
    <3> SUFFICES ASSUME NEW t \in Sessions, pc'[t] = "betCommit"
                 PROVE  bets'[job'[t].bet] = bets[job[t].bet]
      OBVIOUS
    <3>1. t # s /\ pc[t] = "betCommit" /\ job'[t] = job[t]
      BY <1>5, <1>6
    <3>2. job[t].bet \in BetIds /\ job[t].bet # b
      BY <1>0, <3>1 DEF BetIdsDiffer, JobsOK
    <3> QED
      BY <1>0, <3>1, <3>2 DEF TypeOK
  <2> QED
    BY <1>0, <1>5, <1>6, <2>1 DEF JobsOK, BetPC, AdjustPC, SettlePC
<1>8. BetIdsDiffer'
  BY <1>5, <1>6 DEF BetIdsDiffer
<1>9. MarketsHeld'
  BY <1>0, <1>5, <1>6 DEF MarketsHeld, EndTx, TypeOK
<1>10. ListOK'
  <2>1. \A c \in BetIds : bets[c].status = "pending" => bets'[c] = bets[c]
    BY <1>0, <1>1 DEF TypeOK
  <2> QED
    BY <1>5, <1>6, <2>1 DEF ListOK, EventOfBet
<1> QED
  BY <1>3, <1>4, <1>7, <1>8, <1>9, <1>10

-----------------------------------------------------------------------------
(* AdjustBalance.                                                          *)

\* The request names a user.
LEMMA AdjustKeepsIInv ==
  ASSUME IInv, NEW s \in Requests, NEW u \in Users, NEW amount \in Amounts,
         AdjustBalance(s, u, amount)
  PROVE  IInv'
<1> USE DEF IInv, AdjustBalance
<1>0. s \in Sessions /\ amount \in Int
  BY ConstantsOK DEF Sessions
<1>1. TypeOK'
  <2>1. Args(u, None, amount, None, NoPlan) \in Job
    BY <1>0, ResetTypes DEF Args, NoJob, Job
  <2> QED
    BY <1>0, <2>1 DEF TypeOK, AdjustPC, db, locks
<1>2. BetRowsOK' /\ MarketsHeld'
  BY <1>0 DEF BetRowsOK, MarketsHeld, db, locks, TypeOK
<1>3. JobsOK' /\ BetIdsDiffer'
  BY <1>0 DEF JobsOK, BetIdsDiffer, db, TypeOK, BetPC, AdjustPC, SettlePC, Args
<1>4. ListOK'
  BY <1>0 DEF ListOK, EventOfBet, db, TypeOK, Args
<1> QED
  BY <1>1, <1>2, <1>3, <1>4

\* The adjusted balance is not negative.
LEMMA AdjustMovesKeepsIInv ==
  ASSUME IInv, NEW s \in Sessions, AdjustMoves(s)
  PROVE  IInv'
<1> DEFINE u == job[s].user
<1> USE DEF IInv
<1>0. /\ pc[s] = "adjWallet" /\ pc' = [pc EXCEPT ![s] = "adjCommit"]
      /\ Balance(s, u) + job[s].amount >= 0
      /\ u \in Users /\ job[s].amount \in Int
      /\ Move(s, u, "admin_adjust", job[s].amount, None, work[s].status)
      /\ UNCHANGED <<db, betSeq, started, job, marketLock, queue, faults>>
  BY DEF AdjustMoves, JobsOK, AdjustPC, TypeOK, Job
<1>1. TypeOK'
  <2>1. work[s].status \in [BetIds -> {"none"} \cup Results]
    BY DEF TypeOK, Work
  <2>2. work' \in [Sessions -> Work] /\ walletLock' \in [Users -> Sessions \cup {None}]
    BY <1>0, <2>1, MoveTypes DEF TxTypes
  <2> QED
    BY <1>0, <2>2 DEF TypeOK, db, AdjustPC
<1>2. BetRowsOK' /\ MarketsHeld'
  BY <1>0 DEF BetRowsOK, MarketsHeld, db, TypeOK
<1>3. JobsOK' /\ BetIdsDiffer'
  BY <1>0 DEF JobsOK, BetIdsDiffer, db, TypeOK, BetPC, AdjustPC, SettlePC
<1>4. ListOK'
  <2>1. \A t \in Sessions : work'[t].status = work[t].status
    BY <1>0 DEF Move, TypeOK
  <2>2. \A t \in Sessions : pc[t] = "setPay" => pc'[t] = "setPay"
    BY <1>0 DEF TypeOK
  <2> QED
    BY <1>0, <2>1, <2>2, ListOKFrame DEF db
<1> QED
  BY <1>1, <1>2, <1>3, <1>4

\* The commit of an adjustment leaves the bets alone.
LEMMA AdjustCommitsKeepsIInv ==
  ASSUME IInv, NEW s \in Sessions, AdjustCommits(s)
  PROVE  IInv'
<1> USE DEF IInv, AdjustCommits
<1>1. TypeOK'
  BY EndTxTypes, PublishTypes DEF TypeOK
<1>2. BetRowsOK'
  BY DEF BetRowsOK
<1>3. JobsOK' /\ BetIdsDiffer'
  BY DEF JobsOK, BetIdsDiffer, EndTx, BetPC, AdjustPC, SettlePC, TypeOK
<1>4. MarketsHeld'
  BY DEF MarketsHeld, EndTx, TypeOK
<1>5. ListOK'
  BY DEF ListOK, EventOfBet, EndTx, TypeOK, NoJob, Args, NoWork
<1> QED
  BY <1>1, <1>2, <1>3, <1>4, <1>5

-----------------------------------------------------------------------------
(* Settlement.                                                             *)

\* What StartSettle needs of a plan for event e.
PlanOK(plan, e) ==
  /\ plan \in Plan
  /\ plan.final \in Terminal
  /\ \A o \in Outcomes : plan.result[o] # "none" => EventOf[MarketOf[o]] = e

\* The three plan builders make plans for the event they are asked about.
LEMMA PlansOK ==
  ASSUME NEW e \in Events
  PROVE  /\ PlanOK(CancelPlan(e), e)
         /\ \A home, away : PlanOK(ScoredPlan(e, home, away), e)
         /\ \A winner : PlanOK(CustomPlan(e, winner), e)
<1>1. PlanOK(CancelPlan(e), e)
  BY DEF PlanOK, CancelPlan, Plan, Terminal, Results, MarketsOf, OutcomesOf
<1>2. ASSUME NEW home, NEW away
      PROVE  PlanOK(ScoredPlan(e, home, away), e)
  <2>1. \A type, line, code : ScoredResult(type, line, code, home, away) \in Results
    BY DEF ScoredResult, applyMLPlan, applyTotalsPlan, Results
  <2>2. \A type : ScoredMarketStatus(type) \in {"settled", "void"}
    BY DEF ScoredMarketStatus
  <2> QED
    BY <2>1, <2>2 DEF PlanOK, ScoredPlan, Plan, Terminal, MarketsOf, OutcomesOf
<1>3. ASSUME NEW winner PROVE PlanOK(CustomPlan(e, winner), e)
  BY DEF PlanOK, CustomPlan, Plan, Terminal, Results, MarketsOf, OutcomesOf
<1> QED
  BY <1>1, <1>2, <1>3

\* A settlement is asked for, by the worker or by an administrator.
LEMMA StartSettleKeepsIInv ==
  ASSUME IInv, NEW s \in Sessions, NEW e \in Events, NEW plan, PlanOK(plan, e),
         StartSettle(s, e, plan), queue' \in SUBSET Events
  PROVE  IInv'
<1> USE DEF IInv, StartSettle
<1>1. TypeOK'
  <2>1. Args(None, None, 0, e, plan) \in Job
    BY DEF Args, Job, PlanOK
  <2> QED
    BY <2>1 DEF TypeOK, SettlePC, db, locks
<1>2. BetRowsOK' /\ MarketsHeld'
  BY DEF BetRowsOK, MarketsHeld, db, locks, TypeOK
<1>3. JobsOK' /\ BetIdsDiffer'
  BY DEF JobsOK, BetIdsDiffer, db, TypeOK, BetPC, AdjustPC, SettlePC, Args, PlanOK
<1>4. ListOK'
  BY DEF ListOK, EventOfBet, db, TypeOK, Args
<1> QED
  BY <1>1, <1>2, <1>3, <1>4

\* A market lock is only ever taken when nobody has it.
LEMMA LocksMarketKeepsIInv ==
  ASSUME IInv, NEW s \in Sessions, SettleLocksMarket(s)
  PROVE  IInv'
<1> USE DEF IInv, SettleLocksMarket
<1>1. TypeOK'
  BY DEF TypeOK, db
<1>2. BetRowsOK' /\ JobsOK' /\ BetIdsDiffer' /\ ListOK'
  BY DEF BetRowsOK, JobsOK, BetIdsDiffer, ListOK, EventOfBet, db
<1>3. MarketsHeld'
  <2>1. None \notin Sessions
    BY ConstantsOK
  <2> QED
    BY <2>1 DEF MarketsHeld, TypeOK
<1> QED
  BY <1>1, <1>2, <1>3

\* The list is read with all markets locked.
LEMMA ListsBetsKeepsIInv ==
  ASSUME IInv, NEW s \in Sessions, SettleListsBets(s)
  PROVE  IInv'
<1> DEFINE T == Pending(job[s].plan.result)
           j == [user |-> job[s].user, outcome |-> job[s].outcome, amount |-> job[s].amount,
                 bet |-> job[s].bet, event |-> job[s].event, plan |-> job[s].plan, todo |-> T]
<1> USE DEF IInv
<1>0. /\ pc[s] = "setMarkets" /\ pc' = [pc EXCEPT ![s] = "setPay"]
      /\ MarketsToLock(s) = {}
      /\ UNCHANGED <<db, betSeq, started, work, locks, queue, faults>>
  BY DEF SettleListsBets
<1>1. job' = [job EXCEPT ![s] = j] /\ job' \in [Sessions -> Job]
  <2>1. job[s] \in Job
    BY DEF TypeOK
  <2>2. T \in SUBSET BetIds
    BY DEF Pending
  <2>3. job' = [job EXCEPT ![s] = [job[s] EXCEPT !.todo = T]]
    BY Zenon DEF SettleListsBets
  <2> HIDE DEF T
  <2>4. j \in Job
    BY <2>1, <2>2 DEF Job
  <2>5. job' = [job EXCEPT ![s] = j]
    BY <2>1, <2>2, <2>3, JobWithTodo
  <2> QED
    BY <2>4, <2>5 DEF TypeOK
<1>2. TypeOK'
  <2> HIDE DEF j
  <2> QED
    BY <1>0, <1>1 DEF TypeOK, SettlePC, db, locks
<1>3. /\ job'[s].todo = T /\ job'[s].event = job[s].event /\ job'[s].plan = job[s].plan
      /\ \A t \in Sessions : t # s => job'[t] = job[t] /\ pc'[t] = pc[t]
      /\ pc'[s] = "setPay"
  BY <1>0, <1>1 DEF TypeOK
<1>4. BetRowsOK' /\ BetIdsDiffer'
  BY <1>0, <1>3 DEF BetRowsOK, BetIdsDiffer, db
<1>5. JobsOK'
  BY <1>0, <1>3 DEF JobsOK, db, BetPC, AdjustPC, SettlePC
<1>6. MarketsHeld'
  BY <1>0, <1>3 DEF MarketsHeld, MarketsToLock, MarketsOf, locks
<1>7. ListOK'
  <2>1. \A b \in T : bets[b].status = "pending" /\ EventOfBet(b) = job[s].event
    BY <1>0 DEF Pending, JobsOK, SettlePC, EventOfBet
  <2>2. \A b \in BetIds : work[s].status[b] = "none"
    BY <1>0 DEF ListOK
  <2> HIDE DEF T
  <2> QED
    BY <1>0, <1>3, <2>1, <2>2 DEF ListOK, EventOfBet, db
<1> QED
  BY <1>2, <1>4, <1>5, <1>6, <1>7

\* One bet leaves the list of a settlement and gets a verdict, the rest of the
\* bookkeeping stays: what SettleMarksLost and SettleCredits have in common.
LEMMA DecidesKeepsIInv ==
  ASSUME IInv, NEW s \in Sessions, NEW b \in BetIds, NEW v \in Results,
         pc[s] = "setPay", b \in job[s].todo,
         job' = [job EXCEPT ![s].todo = @ \ {b}],
         work' \in [Sessions -> Work],
         walletLock' \in [Users -> Sessions \cup {None}],
         work'[s].status = [work[s].status EXCEPT ![b] = v],
         \A t \in Sessions : t # s => work'[t] = work[t],
         UNCHANGED <<db, betSeq, started, pc, marketLock, queue, faults>>
  PROVE  IInv'
<1> DEFINE T == job[s].todo \ {b}
           j == [user |-> job[s].user, outcome |-> job[s].outcome, amount |-> job[s].amount,
                 bet |-> job[s].bet, event |-> job[s].event, plan |-> job[s].plan, todo |-> T]
<1> USE DEF IInv
<1>1. job' = [job EXCEPT ![s] = j] /\ job' \in [Sessions -> Job]
  <2>1. job[s] \in Job
    BY DEF TypeOK
  <2>2. T \in SUBSET BetIds
    BY <2>1 DEF Job
  <2>3. job' = [job EXCEPT ![s] = [job[s] EXCEPT !.todo = T]]
    BY Zenon
  <2> HIDE DEF T
  <2>4. j \in Job
    BY <2>1, <2>2 DEF Job
  <2>5. job' = [job EXCEPT ![s] = j]
    BY <2>1, <2>2, <2>3, JobWithTodo
  <2> QED
    BY <2>4, <2>5, ZenonT(60) DEF TypeOK
<1>2. TypeOK'
  <2> HIDE DEF j
  <2> QED
    BY <1>1 DEF TypeOK, db
<1>3. /\ job'[s].todo = T /\ job'[s].event = job[s].event /\ job'[s].plan = job[s].plan
      /\ \A t \in Sessions : t # s => job'[t] = job[t]
  BY <1>1 DEF TypeOK
<1>4. BetRowsOK' /\ BetIdsDiffer' /\ MarketsHeld'
  BY <1>3 DEF BetRowsOK, BetIdsDiffer, MarketsHeld, db
<1>5. JobsOK'
  BY <1>3 DEF JobsOK, db, BetPC, AdjustPC, SettlePC
<1>6. ListOK'
  <2>1. work[s].status \in [BetIds -> {"none"} \cup Results]
    BY DEF TypeOK, Work
  <2> QED
    BY <1>3, <2>1 DEF ListOK, EventOfBet, db
<1> QED
  BY <1>2, <1>4, <1>5, <1>6

\* A verdict is won, lost or void.
LEMMA VerdictInResults == \A s, b : Verdict(s, b) \in Results
  BY DEF Verdict, betStatusFromResult, Results

\* A lost bet.
LEMMA MarksLostKeepsIInv ==
  ASSUME IInv, NEW s \in Sessions, NEW b \in BetIds, SettleMarksLost(s, b)
  PROVE  IInv'
<1> DEFINE d == [work[s].status EXCEPT ![b] = "lost"]
<1>1. work[s] \in Work /\ d \in [BetIds -> {"none"} \cup Results]
  BY DEF IInv, TypeOK, Work, Results
<1>2. work' = [work EXCEPT ![s] = [work[s] EXCEPT !.status = d]]
  BY Zenon DEF SettleMarksLost
<1>3. work' = [work EXCEPT ![s] = [wallet |-> work[s].wallet, journal |-> work[s].journal,
                                   status |-> d]]
  <2> HIDE DEF d
  <2> QED
    BY <1>1, <1>2, WorkWithStatus
<1>4. [wallet |-> work[s].wallet, journal |-> work[s].journal, status |-> d] \in Work
  BY <1>1 DEF Work
<1>5. /\ work' \in [Sessions -> Work] /\ work'[s].status = d
      /\ \A t \in Sessions : t # s => work'[t] = work[t]
  <2> HIDE DEF d
  <2> QED
    BY <1>3, <1>4 DEF IInv, TypeOK
<1>6. /\ pc[s] = "setPay" /\ b \in job[s].todo
      /\ job' = [job EXCEPT ![s].todo = @ \ {b}]
      /\ UNCHANGED <<db, betSeq, started, pc, locks, queue, faults>>
  BY Zenon DEF SettleMarksLost, First
<1>7. walletLock' \in [Users -> Sessions \cup {None}] /\ UNCHANGED marketLock
  BY <1>6 DEF locks, IInv, TypeOK
<1> QED
  BY <1>5, <1>6, <1>7, DecidesKeepsIInv DEF Results

\* What a verdict is worth is a natural number.
LEMMA CreditInNat ==
  ASSUME NEW v, NEW stake \in Nat, NEW payout \in Nat
  PROVE  Credit(v, stake, payout) \in Nat
  BY DEF Credit

\* A won or void bet.
LEMMA CreditsKeepsIInv ==
  ASSUME IInv, NEW s \in Sessions, NEW b \in BetIds, SettleCredits(s, b)
  PROVE  IInv'
<1> DEFINE v == Verdict(s, b)
           u == bets[b].user
           type == IF v = "won" THEN "bet_payout" ELSE "bet_refund"
           amount == Credit(v, bets[b].stake, bets[b].payout)
           d == [work[s].status EXCEPT ![b] = v]
<1>1. /\ pc[s] = "setPay" /\ b \in job[s].todo
      /\ Move(s, u, type, amount, b, d)
      /\ job' = [job EXCEPT ![s].todo = @ \ {b}]
      /\ UNCHANGED <<db, betSeq, started, pc, marketLock, queue, faults>>
  BY Zenon DEF SettleCredits, First
<1>2. v \in Results
  BY VerdictInResults
<1>3. work[s].status \in [BetIds -> {"none"} \cup Results] /\ d \in [BetIds -> {"none"} \cup Results]
  BY <1>2 DEF IInv, TypeOK, Work
<1>4. bets[b] \in BetRow /\ bets[b].status = "pending"
  BY <1>1 DEF IInv, TypeOK, ListOK
<1>5. u \in Users /\ amount \in Nat
  BY <1>4, CreditInNat DEF IInv, BetRowsOK, BetRow
<1>6. Balance(s, u) + amount >= 0
  BY <1>5 DEF Balance, IInv, TypeOK, Work
<1> HIDE DEF v, u, amount, d
<1>7. work' \in [Sessions -> Work] /\ walletLock' \in [Users -> Sessions \cup {None}]
  <2>1. TypeOK /\ type \in TxTypes /\ amount \in Int
    BY <1>5 DEF IInv, TxTypes
  <2> QED
    BY <1>1, <1>3, <1>5, <1>6, <2>1, MoveTypes
<1>8. work'[s].status = d /\ \A t \in Sessions : t # s => work'[t] = work[t]
  BY <1>1 DEF Move, IInv, TypeOK
<1> QED
  BY <1>1, <1>2, <1>7, <1>8, DecidesKeepsIInv DEF d

\* The commit of a settlement only decides bets of its own event, and no other
\* settlement is past its list on that event: both would hold its markets.
LEMMA SettleCommitsKeepsIInv ==
  ASSUME IInv, NEW s \in Sessions, SettleCommits(s)
  PROVE  IInv'
<1> USE DEF IInv
<1>0. /\ pc[s] = "setPay" /\ Publish(s) /\ EndTx(s) /\ bets' = Rows(s)
      /\ UNCHANGED <<betSeq, started, queue, faults>>
  BY DEF SettleCommits
<1>1. \A b \in BetIds : /\ bets'[b] = bets[b] \/ work[s].status[b] # "none"
                        /\ bets'[b].user = bets[b].user
                        /\ bets'[b].outcome = bets[b].outcome
                        /\ bets[b].status = "none" => bets'[b].status = "none"
  BY <1>0 DEF Rows, TypeOK, BetRow, ListOK
<1>2. TypeOK'
  <2>1. bets' \in [BetIds -> BetRow]
    <3> SUFFICES ASSUME NEW b \in BetIds PROVE Rows(s)[b] \in BetRow
      BY <1>0 DEF Rows
    <3>1. bets[b] \in BetRow /\ work[s].status[b] \in {"none"} \cup Results
      BY DEF TypeOK, Work
    <3> QED
      BY <3>1 DEF Rows, BetRow, BetStatus
  <2>2. job[s] \in Job /\ job[s].plan \in Plan /\ job[s].plan.final \in Terminal
    BY <1>0 DEF TypeOK, Job, JobsOK, SettlePC
  <2>3. /\ marketStatus' \in [Markets -> {"open", "suspended", "settled", "void"}]
        /\ outcomeResult' \in [Outcomes -> {"none"} \cup Results]
        /\ eventStatus' \in [Events -> {"upcoming", "live"} \cup Terminal]
    BY <2>2 DEF SettleCommits, TypeOK, Plan
  <2> QED
    BY <1>0, <2>1, <2>3, EndTxTypes, PublishTypes DEF TypeOK
<1>3. BetRowsOK'
  BY <1>0, <1>1 DEF BetRowsOK
<1>4. \A t \in Sessions : t # s => /\ pc'[t] = pc[t] /\ job'[t] = job[t] /\ work'[t] = work[t]
  BY <1>0 DEF EndTx, TypeOK
<1>5. pc'[s] = "idle" /\ job'[s].todo = {} /\ \A c \in BetIds : work'[s].status[c] = "none"
  BY <1>0 DEF EndTx, TypeOK, NoJob, Args, NoWork
<1>6. JobsOK' /\ BetIdsDiffer'
  BY <1>0, <1>1, <1>4, <1>5 DEF JobsOK, BetIdsDiffer, BetPC, AdjustPC, SettlePC
<1>7. MarketsHeld'
  BY <1>0, <1>4, <1>5 DEF MarketsHeld, EndTx, TypeOK
<1>8. ListOK'
  <2> SUFFICES ASSUME NEW t \in Sessions, NEW b \in BetIds, t # s,
                      b \in job[t].todo \/ work[t].status[b] # "none"
               PROVE  bets'[b] = bets[b]
    BY <1>4, <1>5 DEF ListOK, EventOfBet
  <2> SUFFICES ASSUME work[s].status[b] # "none" PROVE FALSE
    BY <1>1
  <2>1. /\ pc[t] = "setPay" /\ EventOfBet(b) = job[t].event
        /\ EventOfBet(b) = job[s].event /\ bets[b].outcome \in Outcomes
    BY DEF ListOK, BetRowsOK
  <2>2. MarketOf[bets[b].outcome] \in Markets
    BY <2>1, ConstantsOK
  <2>3. marketLock[MarketOf[bets[b].outcome]] = s /\ marketLock[MarketOf[bets[b].outcome]] = t
    BY <1>0, <2>1, <2>2 DEF MarketsHeld, EventOfBet
  <2> QED
    BY <2>3
<1> QED
  BY <1>2, <1>3, <1>6, <1>7, <1>8

-----------------------------------------------------------------------------
\* A step that leaves the rows, the locks and the sessions alone.
LEMMA OutsideKeepsIInv ==
  ASSUME IInv, UNCHANGED <<db, betSeq, session>>,
         started' \in [Events -> BOOLEAN], queue' \in SUBSET Events, faults' \in Nat
  PROVE  IInv'
  BY DEF IInv, TypeOK, BetRowsOK, JobsOK, BetIdsDiffer, MarketsHeld, ListOK, EventOfBet, db, session

\* Every step of the system preserves the inductive invariant.
LEMMA NextKeepsIInv == IInv /\ [Next]_vars => IInv'
<1> SUFFICES ASSUME IInv, [Next]_vars PROVE IInv'
  OBVIOUS
<1>0. started \in [Events -> BOOLEAN] /\ queue \in SUBSET Events /\ faults \in Nat
  BY DEF IInv, TypeOK
<1>1. ASSUME NEW s \in Requests, Request(s) PROVE IInv'
  <2>0. s \in Sessions
    BY DEF Sessions
  <2>1. CASE \E u \in Users, o \in Outcomes, stake \in Stakes : PlaceBetReadsMarket(s, u, o, stake)
    BY <2>1, ReadsMarketKeepsIInv
  <2>2. CASE \E u \in Users, amount \in Amounts : AdjustBalance(s, u, amount)
    BY <2>2, AdjustKeepsIInv
  <2>3. CASE \E e \in Events : AdminCancels(s, e)
    BY <1>0, <2>0, <2>3, PlansOK, StartSettleKeepsIInv DEF AdminCancels
  <2>4. CASE \E e \in Events, winner \in Outcomes : AdminSettlesCustom(s, e, winner)
    BY <1>0, <2>0, <2>4, PlansOK, StartSettleKeepsIInv DEF AdminSettlesCustom
  <2>5. CASE \E e \in Events, score \in Scores : AdminEntersScores(s, e, score)
    BY <1>0, <2>0, <2>5, PlansOK, StartSettleKeepsIInv DEF AdminEntersScores
  <2> QED
    BY <1>1, <2>1, <2>2, <2>3, <2>4, <2>5 DEF Request, PlaceRequest, AdjustRequest
<1>2. CASE WorkerLists
  BY <1>0, <1>2, OutsideKeepsIInv DEF WorkerLists
<1>3. ASSUME NEW e \in Events, WorkerSettles(e) PROVE IInv'
  BY <1>0, <1>3, PlansOK, StartSettleKeepsIInv DEF WorkerSettles, Sessions
<1>4. ASSUME NEW e \in Events, WorkerSkips(e) PROVE IInv'
  BY <1>0, <1>4, OutsideKeepsIInv DEF WorkerSkips
<1>5. ASSUME NEW e \in Events, Kickoff(e) PROVE IInv'
  BY <1>0, <1>5, OutsideKeepsIInv DEF Kickoff
<1>6. ASSUME NEW s \in Sessions, Step(s) PROVE IInv'
  <2>1. CASE PlaceBetReadsEvent(s)
    BY <2>1, ReadsEventKeepsIInv
  <2>2. CASE PlaceBetDebits(s)
    BY <2>2, DebitsKeepsIInv
  <2>3. CASE PlaceBetCommits(s)
    BY <2>3, BetCommitsKeepsIInv
  <2>4. CASE PlaceBetRefused(s) \/ AdjustRefused(s)
    BY <1>0, <2>4, RollbackKeepsIInv DEF PlaceBetRefused, AdjustRefused
  <2>5. CASE AdjustMoves(s)
    BY <2>5, AdjustMovesKeepsIInv
  <2>6. CASE AdjustCommits(s)
    BY <2>6, AdjustCommitsKeepsIInv
  <2>7. CASE SettleLocksMarket(s)
    BY <2>7, LocksMarketKeepsIInv
  <2>8. CASE SettleListsBets(s)
    BY <2>8, ListsBetsKeepsIInv
  <2>9. CASE \E b \in BetIds : SettleMarksLost(s, b) \/ SettleCredits(s, b)
    BY <2>9, MarksLostKeepsIInv, CreditsKeepsIInv
  <2>10. CASE SettleCommits(s)
    BY <2>10, SettleCommitsKeepsIInv
  <2> QED
    BY <1>6, <2>1, <2>2, <2>3, <2>4, <2>5, <2>6, <2>7, <2>8, <2>9, <2>10 DEF Step
<1>7. ASSUME NEW s \in Sessions, DeadlockVictim(s) \/ Fault(s) PROVE IInv'
  <2>1. queue' \in SUBSET Events /\ faults' \in Nat /\ Rollback(s)
    BY <1>0, <1>7 DEF DeadlockVictim, Fault
  <2> QED
    BY <2>1, RollbackKeepsIInv
<1>8. CASE UNCHANGED vars
  BY <1>0, <1>8, OutsideKeepsIInv DEF vars
<1> QED
  BY <1>1, <1>2, <1>3, <1>4, <1>5, <1>6, <1>7, <1>8 DEF Next

\* The inductive invariant holds in every reachable state.
THEOREM Invariant == Spec => []IInv
  BY InitIInv, NextKeepsIInv, PTL DEF Spec

\* Every variable keeps its type; in particular no wallet is ever below zero,
\* committed or not, so the CHECK of migration 000004 never fires.
THEOREM TypeCorrect == Spec => []TypeOK
  BY Invariant, PTL DEF IInv

\* The bets a settlement works through are pending until it commits: what keeps
\* UpdateStatusSettled, which does not look at the status it overwrites, from
\* deciding and paying a bet twice.
THEOREM PendingListStaysFresh == Spec => []PendingListIsFresh
<1>1. IInv => PendingListIsFresh
  BY DEF IInv, ListOK, PendingListIsFresh, TypeOK, Job
<1> QED
  BY <1>1, Invariant, PTL

-----------------------------------------------------------------------------
(***************************************************************************)
(* Money: the journal of a user always adds up to the balance, and no bet  *)
(* is ever paid twice.  Both follow the rows from the moment a transaction *)
(* locks a wallet to its commit, so the invariants speak of the            *)
(* uncommitted rows too.                                                   *)
(***************************************************************************)

\* A transaction that holds a wallet has continued its journal correctly.
WorkExplained ==
  \A s \in Sessions, u \in Users :
    walletLock[u] = s => Explains(work[s].journal[u], work[s].wallet[u])

\* The same for payouts, with the bets table as that transaction sees it.
WorkPaidOnce ==
  \A s \in Sessions, u \in Users :
    walletLock[u] = s => PaidOnce(u, work[s].journal[u], Rows(s))

MoneyInv == JournalExplainsBalance /\ WorkExplained

PaidInv == EachBetPaidOnce /\ WorkPaidOnce

-----------------------------------------------------------------------------
(* Journals add up.                                                        *)

\* A row that continues a journal leaves it explaining the new balance.
LEMMA AppendExplains ==
  ASSUME NEW j \in Seq(Entry), NEW w, NEW x \in Entry,
         Explains(j, w), x.after = w + x.amount
  PROVE  Explains(Append(j, x), x.after)
  BY SMTT(30) DEF Explains, Entry

\* Moving money in a transaction continues the journal it is about.
LEMMA MoveKeepsMoneyInv ==
  ASSUME TypeOK, MoneyInv, NEW s \in Sessions, NEW u \in Users, NEW type \in TxTypes,
         NEW amount \in Int, NEW bet \in BetIds \cup {None}, NEW decided,
         Balance(s, u) + amount >= 0,
         Move(s, u, type, amount, bet, decided),
         UNCHANGED <<wallet, journal>>
  PROVE  MoneyInv'
<1> DEFINE after == Balance(s, u) + amount
           entry == [type |-> type, amount |-> amount, bet |-> bet, after |-> after]
<1>1. Explains(History(s, u), Balance(s, u))
  BY DEF History, Balance, MoneyInv, JournalExplainsBalance, WorkExplained
<1>2. entry \in Entry /\ History(s, u) \in Seq(Entry)
  <2>1. Balance(s, u) \in Nat /\ History(s, u) \in Seq(Entry)
    BY DEF Balance, History, TypeOK, Work
  <2> QED
    BY <2>1 DEF Entry
<1>3. Explains(Append(History(s, u), entry), after)
  BY <1>1, <1>2, AppendExplains
<1>4. WorkExplained'
  <2> SUFFICES ASSUME NEW t \in Sessions, NEW v \in Users, walletLock'[v] = t
               PROVE  Explains(work'[t].journal[v], work'[t].wallet[v])
    BY DEF WorkExplained
  <2>1. CASE v = u
    <3>1. t = s /\ work'[s].journal[u] = Append(History(s, u), entry) /\ work'[s].wallet[u] = after
      BY <2>1 DEF Move, TypeOK, Work
    <3> QED
      BY <1>3, <2>1, <3>1
  <2>2. CASE v # u
    <3>1. /\ walletLock[v] = t
          /\ work'[t].journal[v] = work[t].journal[v] /\ work'[t].wallet[v] = work[t].wallet[v]
      BY <2>2 DEF Move, TypeOK, Work
    <3> QED
      BY <3>1 DEF MoneyInv, WorkExplained
  <2> QED
    BY <2>1, <2>2
<1> QED
  BY <1>4 DEF MoneyInv, JournalExplainsBalance

\* Committing publishes journals that add up.
LEMMA CommitKeepsMoneyInv ==
  ASSUME TypeOK, MoneyInv, NEW s \in Sessions, Publish(s), EndTx(s)
  PROVE  MoneyInv'
<1>1. None \notin Sessions
  BY ConstantsOK
<1>2. JournalExplainsBalance'
  BY DEF MoneyInv, JournalExplainsBalance, WorkExplained, Publish, TypeOK
<1>3. WorkExplained'
  BY <1>1 DEF MoneyInv, WorkExplained, EndTx, TypeOK
<1> QED
  BY <1>2, <1>3 DEF MoneyInv

\* Rolling back forgets uncommitted journals.
LEMMA RollbackKeepsMoneyInv ==
  ASSUME TypeOK, MoneyInv, NEW s \in Sessions, Rollback(s)
  PROVE  MoneyInv'
<1>1. None \notin Sessions
  BY ConstantsOK
<1> QED
  BY <1>1 DEF MoneyInv, JournalExplainsBalance, WorkExplained, Rollback, EndTx, db, TypeOK

\* A step that leaves wallets, journals and their locks alone.
LEMMA AsideKeepsMoneyInv ==
  ASSUME MoneyInv, UNCHANGED <<wallet, journal, walletLock>>,
         \A s \in Sessions : /\ work'[s].wallet = work[s].wallet
                             /\ work'[s].journal = work[s].journal
  PROVE  MoneyInv'
  BY DEF MoneyInv, JournalExplainsBalance, WorkExplained

\* Initially the only row is the signup bonus.
LEMMA InitMoneyInv == Init => MoneyInv
<1> SUFFICES ASSUME Init PROVE MoneyInv
  OBVIOUS
<1>1. JournalExplainsBalance
  BY DEF Init, JournalExplainsBalance, Explains
<1>2. WorkExplained
  BY ConstantsOK DEF Init, WorkExplained
<1> QED
  BY <1>1, <1>2 DEF MoneyInv

\* The three moves of money, with the arguments Move gets.
LEMMA DebitIsMove ==
  ASSUME IInv, NEW s \in Sessions, PlaceBetDebits(s)
  PROVE  /\ pc[s] = "betWallet"
         /\ job[s].user \in Users /\ -job[s].amount \in Int
         /\ Balance(s, job[s].user) + (-job[s].amount) >= 0
         /\ betSeq + 1 \in BetIds
         /\ Move(s, job[s].user, "bet_stake", -job[s].amount, betSeq + 1, work[s].status)
         /\ UNCHANGED db
<1>1. /\ pc[s] = "betWallet" /\ Balance(s, job[s].user) >= job[s].amount /\ betSeq < MaxBets
      /\ Move(s, job[s].user, "bet_stake", -job[s].amount, betSeq + 1, work[s].status)
      /\ UNCHANGED db
  BY Zenon DEF PlaceBetDebits
<1>2. job[s].user \in Users /\ job[s].amount \in Nat
  BY <1>1 DEF IInv, JobsOK, BetPC
<1>3. Balance(s, job[s].user) \in Nat
  BY <1>2 DEF Balance, IInv, TypeOK, Work
<1>4. betSeq + 1 \in BetIds
  BY <1>1, ConstantsOK DEF IInv, TypeOK, BetIds
<1> QED
  BY <1>1, <1>2, <1>3, <1>4

\* An adjustment moves one wallet.
LEMMA AdjustIsMove ==
  ASSUME IInv, NEW s \in Sessions, AdjustMoves(s)
  PROVE  /\ pc[s] = "adjWallet"
         /\ job[s].user \in Users /\ job[s].amount \in Int
         /\ Balance(s, job[s].user) + job[s].amount >= 0
         /\ Move(s, job[s].user, "admin_adjust", job[s].amount, None, work[s].status)
         /\ UNCHANGED db
  BY DEF AdjustMoves, IInv, TypeOK, JobsOK, AdjustPC, Job

\* So does the credit of a bet.
LEMMA CreditIsMove ==
  ASSUME IInv, NEW s \in Sessions, NEW b \in BetIds, SettleCredits(s, b)
  PROVE  LET v == Verdict(s, b)
             u == bets[b].user
             amount == Credit(v, bets[b].stake, bets[b].payout)
         IN  /\ b \in job[s].todo /\ bets[b].status = "pending"
             /\ v \in {"won", "void"} /\ u \in Users /\ amount \in Nat
             /\ Balance(s, u) \in Nat
             /\ Move(s, u, IF v = "won" THEN "bet_payout" ELSE "bet_refund", amount, b,
                     [work[s].status EXCEPT ![b] = v])
             /\ UNCHANGED db
<1> DEFINE v == Verdict(s, b)
           u == bets[b].user
           amount == Credit(v, bets[b].stake, bets[b].payout)
<1>1. /\ b \in job[s].todo /\ v # "lost" /\ UNCHANGED db
      /\ Move(s, u, IF v = "won" THEN "bet_payout" ELSE "bet_refund", amount, b,
              [work[s].status EXCEPT ![b] = v])
  BY Zenon DEF SettleCredits, First
<1>2. v \in {"won", "void"}
  BY <1>1, VerdictInResults DEF Results
<1>3. bets[b] \in BetRow /\ bets[b].status = "pending"
  BY <1>1 DEF IInv, TypeOK, ListOK
<1>4. u \in Users /\ amount \in Nat
  BY <1>3, CreditInNat DEF IInv, BetRowsOK, BetRow
<1>5. Balance(s, u) \in Nat
  BY <1>4 DEF Balance, IInv, TypeOK, Work
<1> HIDE DEF v, u, amount
<1>6. /\ b \in job[s].todo /\ bets[b].status = "pending"
      /\ v \in {"won", "void"} /\ u \in Users /\ amount \in Nat
      /\ Balance(s, u) \in Nat
      /\ Move(s, u, IF v = "won" THEN "bet_payout" ELSE "bet_refund", amount, b,
              [work[s].status EXCEPT ![b] = v])
      /\ UNCHANGED db
  BY <1>1, <1>2, <1>3, <1>4, <1>5
<1> QED
  BY <1>6 DEF v, u, amount

\* Marking a bet lost writes nothing but its status.
LEMMA MarksLostIsStatus ==
  ASSUME IInv, NEW s \in Sessions, NEW b \in BetIds, SettleMarksLost(s, b)
  PROVE  /\ bets[b].status = "pending" /\ UNCHANGED <<db, walletLock>>
         /\ \A t \in Sessions : /\ work'[t].wallet = work[t].wallet
                                /\ work'[t].journal = work[t].journal
                                /\ t # s => work'[t] = work[t]
         /\ work'[s].status = [work[s].status EXCEPT ![b] = "lost"]
<1> DEFINE d == [work[s].status EXCEPT ![b] = "lost"]
<1>1. work[s] \in Work /\ d \in [BetIds -> {"none"} \cup Results]
  BY DEF IInv, TypeOK, Work, Results
<1>2. /\ work' = [work EXCEPT ![s] = [work[s] EXCEPT !.status = d]]
      /\ b \in job[s].todo /\ UNCHANGED <<db, locks>>
  BY Zenon DEF SettleMarksLost, First
<1> HIDE DEF d
<1>3. work' = [work EXCEPT ![s] = [wallet |-> work[s].wallet, journal |-> work[s].journal,
                                   status |-> d]]
  BY <1>1, <1>2, WorkWithStatus
<1>4. bets[b].status = "pending" /\ UNCHANGED walletLock
  BY <1>2 DEF IInv, ListOK, locks
<1>5. work'[s].status = d
  BY <1>3 DEF IInv, TypeOK
<1>6. \A t \in Sessions : /\ work'[t].wallet = work[t].wallet
                          /\ work'[t].journal = work[t].journal
                          /\ t # s => work'[t] = work[t]
  BY <1>3 DEF IInv, TypeOK
<1> QED
  BY <1>2, <1>4, <1>5, <1>6 DEF d

\* Every step keeps journals and balances in agreement.
LEMMA NextKeepsMoneyInv == IInv /\ MoneyInv /\ [Next]_vars => MoneyInv'
<1> SUFFICES ASSUME IInv, MoneyInv, [Next]_vars PROVE MoneyInv'
  OBVIOUS
<1>0. TypeOK
  BY DEF IInv
<1>1. ASSUME NEW s \in Sessions, Step(s) PROVE MoneyInv'
  <2>1. CASE PlaceBetDebits(s)
    BY <1>0, <2>1, DebitIsMove, MoveKeepsMoneyInv DEF TxTypes, db
  <2>2. CASE AdjustMoves(s)
    BY <1>0, <2>2, AdjustIsMove, MoveKeepsMoneyInv DEF TxTypes, db
  <2>3. ASSUME NEW b \in BetIds, SettleCredits(s, b) PROVE MoneyInv'
    <3> DEFINE v == Verdict(s, b)
               u == bets[b].user
               amount == Credit(v, bets[b].stake, bets[b].payout)
               type == IF v = "won" THEN "bet_payout" ELSE "bet_refund"
               d == [work[s].status EXCEPT ![b] = v]
    <3>1. /\ u \in Users /\ amount \in Int /\ Balance(s, u) + amount >= 0
          /\ Move(s, u, type, amount, b, d)
          /\ UNCHANGED <<wallet, journal>>
      BY <2>3, CreditIsMove DEF db
    <3>2. type \in TxTypes
      BY DEF TxTypes
    <3> HIDE DEF v, u, amount, type, d
    <3> QED
      BY <1>0, <3>1, <3>2, MoveKeepsMoneyInv
  <2>4. ASSUME NEW b \in BetIds, SettleMarksLost(s, b) PROVE MoneyInv'
    BY <2>4, MarksLostIsStatus, AsideKeepsMoneyInv DEF db
  <2>5. CASE PlaceBetCommits(s) \/ AdjustCommits(s) \/ SettleCommits(s)
    BY <1>0, <2>5, CommitKeepsMoneyInv DEF PlaceBetCommits, AdjustCommits, SettleCommits
  <2>6. CASE PlaceBetRefused(s) \/ AdjustRefused(s)
    BY <1>0, <2>6, RollbackKeepsMoneyInv DEF PlaceBetRefused, AdjustRefused
  <2>7. CASE PlaceBetReadsEvent(s) \/ SettleLocksMarket(s) \/ SettleListsBets(s)
    BY <2>7, AsideKeepsMoneyInv
    DEF PlaceBetReadsEvent, SettleLocksMarket, SettleListsBets, db, locks
  <2> QED
    BY <1>1, <2>1, <2>2, <2>3, <2>4, <2>5, <2>6, <2>7 DEF Step
<1>2. ASSUME NEW s \in Requests, Request(s) PROVE MoneyInv'
  <2>1. UNCHANGED <<db, work, locks>>
    BY <1>2 DEF Request, PlaceRequest, AdjustRequest, PlaceBetReadsMarket, AdjustBalance,
                AdminCancels, AdminSettlesCustom, AdminEntersScores, StartSettle
  <2> QED
    BY <2>1, AsideKeepsMoneyInv DEF db, locks
<1>3. ASSUME NEW e \in Events, WorkerSettles(e) PROVE MoneyInv'
  BY <1>3, AsideKeepsMoneyInv DEF WorkerSettles, StartSettle, db, locks
<1>4. ASSUME NEW s \in Sessions, DeadlockVictim(s) \/ Fault(s) PROVE MoneyInv'
  BY <1>0, <1>4, RollbackKeepsMoneyInv DEF DeadlockVictim, Fault
<1>5. CASE UNCHANGED <<db, session>>
  BY <1>5, AsideKeepsMoneyInv DEF db, session
<1>6. ASSUME NEW e \in Events, WorkerSkips(e) \/ Kickoff(e) PROVE MoneyInv'
  BY <1>5, <1>6 DEF WorkerSkips, Kickoff
<1>7. CASE WorkerLists \/ UNCHANGED vars
  BY <1>5, <1>7 DEF WorkerLists, vars
<1> QED
  BY <1>1, <1>2, <1>3, <1>4, <1>6, <1>7 DEF Next

\* The balance of every user is the sum of the journal, in every reachable
\* state and for any number of concurrent bets, payouts and adjustments.
THEOREM JournalCorrect == Spec => []JournalExplainsBalance
<1>1. Init => MoneyInv
  BY InitMoneyInv
<1>2. MoneyInv => JournalExplainsBalance
  BY DEF MoneyInv
<1> QED
  BY <1>1, <1>2, NextKeepsMoneyInv, Invariant, PTL DEF Spec

-----------------------------------------------------------------------------
(* No bet is paid twice.                                                   *)

Settled(status) == status \in {"won", "void"}

\* Payouts stay justified when the rows of won and void bets do not change.
LEMMA PaidOnceStable ==
  ASSUME NEW u, NEW j, NEW rows, NEW rows2, PaidOnce(u, j, rows),
         \A b \in BetIds : Settled(rows[b].status) => rows2[b] = rows[b]
  PROVE  PaidOnce(u, j, rows2)
  BY DEF PaidOnce, Justified, Settled

\* A stake or an adjustment is no payout.
LEMMA AppendOther ==
  ASSUME NEW u, NEW j \in Seq(Entry), NEW x \in Entry, NEW rows,
         PaidOnce(u, j, rows), ~IsCredit(x)
  PROVE  PaidOnce(u, Append(j, x), rows)
  BY DEF PaidOnce

\* A payout of a bet that was not won or void until now is its first.
LEMMA AppendCredit ==
  ASSUME NEW u, NEW j \in Seq(Entry), NEW x \in Entry, NEW rows, NEW rows2,
         PaidOnce(u, j, rows),
         x.bet \in BetIds, ~Settled(rows[x.bet].status),
         \A b \in BetIds : Settled(rows[b].status) => rows2[b] = rows[b],
         Justified(u, x, rows2)
  PROVE  PaidOnce(u, Append(j, x), rows2)
<1>1. PaidOnce(u, j, rows2)
  BY PaidOnceStable
<1>2. \A i \in 1..Len(j) : IsCredit(j[i]) => j[i].bet # x.bet
  BY DEF PaidOnce, Justified, Settled
<1> QED
  BY <1>1, <1>2 DEF PaidOnce

\* A transaction sees the table as committed, except for bets it has decided.
LEMMA RowsExtendBets ==
  ASSUME IInv, NEW s \in Sessions
  PROVE  /\ \A b \in BetIds : bets[b].status # "pending" => Rows(s)[b] = bets[b]
         /\ pc[s] # "setPay" => \A b \in BetIds : Rows(s)[b] = bets[b]
  BY DEF Rows, IInv, ListOK

\* What a transaction appends to is free of double payouts.
LEMMA HistoryPaidOnce ==
  ASSUME IInv, PaidInv, NEW s \in Sessions, NEW u \in Users
  PROVE  PaidOnce(u, History(s, u), Rows(s)) /\ History(s, u) \in Seq(Entry)
<1>1. CASE walletLock[u] = s
  BY <1>1 DEF History, PaidInv, WorkPaidOnce, IInv, TypeOK, Work
<1>2. CASE walletLock[u] # s
  <2>1. PaidOnce(u, journal[u], bets) /\ journal[u] \in Seq(Entry)
    BY DEF PaidInv, EachBetPaidOnce, IInv, TypeOK
  <2>2. \A b \in BetIds : Settled(bets[b].status) => Rows(s)[b] = bets[b]
    BY RowsExtendBets DEF Settled
  <2> QED
    BY <1>2, <2>1, <2>2, PaidOnceStable DEF History
<1> QED
  BY <1>1, <1>2

\* A move of money keeps the uncommitted journals free of double payouts, if
\* the row it appends is right.
LEMMA MoveKeepsPaidInv ==
  ASSUME IInv, PaidInv, NEW s \in Sessions, NEW u \in Users, NEW type \in TxTypes,
         NEW amount \in Int, NEW bet \in BetIds \cup {None},
         NEW decided, Move(s, u, type, amount, bet, decided),
         Balance(s, u) + amount >= 0, UNCHANGED <<journal, bets>>,
         \A b \in BetIds : Settled(Rows(s)[b].status) => Rows(s)'[b] = Rows(s)[b],
         LET x == [type |-> type, amount |-> amount, bet |-> bet, after |-> Balance(s, u) + amount]
         IN  IsCredit(x) => /\ bet \in BetIds /\ ~Settled(Rows(s)[bet].status)
                            /\ Justified(u, x, Rows(s)')
  PROVE  PaidInv'
<1> DEFINE x == [type |-> type, amount |-> amount, bet |-> bet, after |-> Balance(s, u) + amount]
<1>1. x \in Entry
  <2>1. Balance(s, u) \in Nat
    BY DEF Balance, IInv, TypeOK, Work
  <2> QED
    BY <2>1 DEF Entry
<1>2. PaidOnce(u, Append(History(s, u), x), Rows(s)')
  <2>0. PaidOnce(u, History(s, u), Rows(s)) /\ History(s, u) \in Seq(Entry)
    BY HistoryPaidOnce
  <2>1. CASE IsCredit(x)
    <3>1. bet = x.bet /\ bet \in BetIds /\ ~Settled(Rows(s)[bet].status) /\ Justified(u, x, Rows(s)')
      BY <2>1
    <3> HIDE DEF x
    <3> QED
      BY <1>1, <2>0, <3>1, AppendCredit
  <2>2. CASE ~IsCredit(x)
    <3> HIDE DEF x
    <3>1. PaidOnce(u, History(s, u), Rows(s)')
      BY <2>0, PaidOnceStable
    <3> QED
      BY <1>1, <2>0, <2>2, <3>1, AppendOther
  <2> QED
    BY <2>1, <2>2
<1>3. WorkPaidOnce'
  <2> SUFFICES ASSUME NEW t \in Sessions, NEW v \in Users, walletLock'[v] = t
               PROVE  PaidOnce(v, work'[t].journal[v], Rows(t)')
    BY DEF WorkPaidOnce
  <2>1. CASE v = u
    <3>1. t = s /\ work'[s].journal[u] = Append(History(s, u), x)
      BY <2>1 DEF Move, IInv, TypeOK, Work
    <3> QED
      BY <1>2, <2>1, <3>1
  <2>2. CASE v # u
    <3>1. walletLock[v] = t /\ work'[t].journal[v] = work[t].journal[v]
      BY <2>2 DEF Move, IInv, TypeOK, Work
    <3>2. PaidOnce(v, work[t].journal[v], Rows(t))
      BY <3>1 DEF PaidInv, WorkPaidOnce
    <3>3. \A b \in BetIds : Settled(Rows(t)[b].status) => Rows(t)'[b] = Rows(t)[b]
      <4>1. CASE t = s
        BY <4>1
      <4>2. CASE t # s
        BY <4>2 DEF Rows, Move, IInv, TypeOK
      <4> QED
        BY <4>1, <4>2
    <3> QED
      BY <3>1, <3>2, <3>3, PaidOnceStable
  <2> QED
    BY <2>1, <2>2
<1> QED
  BY <1>3 DEF PaidInv, EachBetPaidOnce

\* A step that neither moves money nor takes a wallet, and whose verdicts, if
\* any, are about bets that were not won or void.
LEMMA AsideKeepsPaidInv ==
  ASSUME IInv, PaidInv, UNCHANGED <<journal, bets, walletLock>>,
         \A s \in Sessions :
           /\ work'[s].journal = work[s].journal
           /\ \A b \in BetIds : Settled(Rows(s)[b].status) => Rows(s)'[b] = Rows(s)[b]
  PROVE  PaidInv'
<1>1. WorkPaidOnce'
  <2> SUFFICES ASSUME NEW t \in Sessions, NEW v \in Users, walletLock'[v] = t
               PROVE  PaidOnce(v, work'[t].journal[v], Rows(t)')
    BY DEF WorkPaidOnce
  <2>1. PaidOnce(v, work[t].journal[v], Rows(t))
    BY DEF PaidInv, WorkPaidOnce
  <2> QED
    BY <2>1, PaidOnceStable
<1> QED
  BY <1>1 DEF PaidInv, EachBetPaidOnce

\* The same, when no verdict is given either.
LEMMA QuietKeepsPaidInv ==
  ASSUME IInv, PaidInv, UNCHANGED <<journal, bets, walletLock, work>>
  PROVE  PaidInv'
<1>1. \A s \in Sessions, b \in BetIds : Rows(s)'[b] = Rows(s)[b]
  BY DEF Rows
<1> QED
  BY <1>1, AsideKeepsPaidInv

\* Rolling back forgets uncommitted payouts.
LEMMA RollbackKeepsPaidInv ==
  ASSUME IInv, PaidInv, NEW s \in Sessions, Rollback(s)
  PROVE  PaidInv'
<1>1. None \notin Sessions
  BY ConstantsOK
<1>2. WorkPaidOnce'
  <2> SUFFICES ASSUME NEW t \in Sessions, NEW v \in Users, walletLock'[v] = t
               PROVE  PaidOnce(v, work'[t].journal[v], Rows(t)')
    BY DEF WorkPaidOnce
  <2>1. walletLock[v] = t /\ t # s
    BY <1>1 DEF Rollback, EndTx, IInv, TypeOK
  <2>2. work'[t] = work[t] /\ Rows(t)' = Rows(t)
    BY <2>1 DEF Rollback, EndTx, db, IInv, TypeOK, Rows
  <2> QED
    BY <2>1, <2>2 DEF PaidInv, WorkPaidOnce
<1>3. EachBetPaidOnce'
  BY DEF Rollback, db, PaidInv, EachBetPaidOnce
<1> QED
  BY <1>2, <1>3 DEF PaidInv

\* A commit publishes journals and bets together; the bets it changes were
\* not won or void, and no other transaction has a verdict on them.
LEMMA CommitKeepsPaidInv ==
  ASSUME IInv, PaidInv, NEW s \in Sessions, Publish(s), EndTx(s),
         \A b \in BetIds : Settled(Rows(s)[b].status) => bets'[b] = Rows(s)[b],
         \A b \in BetIds : Settled(bets[b].status) => bets'[b] = bets[b],
         \A t \in Sessions, b \in BetIds :
           t # s /\ work[t].status[b] # "none" => bets'[b] = bets[b]
  PROVE  PaidInv'
<1>1. None \notin Sessions
  BY ConstantsOK
<1>2. EachBetPaidOnce'
  <2> SUFFICES ASSUME NEW u \in Users PROVE PaidOnce(u, journal'[u], bets')
    BY DEF EachBetPaidOnce
  <2>1. CASE walletLock[u] = s
    <3>1. PaidOnce(u, work[s].journal[u], Rows(s)) /\ journal'[u] = work[s].journal[u]
      BY <2>1 DEF PaidInv, WorkPaidOnce, Publish
    <3> QED
      BY <3>1, PaidOnceStable
  <2>2. CASE walletLock[u] # s
    <3>1. PaidOnce(u, journal[u], bets) /\ journal'[u] = journal[u]
      BY <2>2 DEF PaidInv, EachBetPaidOnce, Publish
    <3> QED
      BY <3>1, PaidOnceStable
  <2> QED
    BY <2>1, <2>2
<1>3. WorkPaidOnce'
  <2> SUFFICES ASSUME NEW t \in Sessions, NEW v \in Users, walletLock'[v] = t
               PROVE  PaidOnce(v, work'[t].journal[v], Rows(t)')
    BY DEF WorkPaidOnce
  <2>1. walletLock[v] = t /\ t # s
    BY <1>1 DEF EndTx, IInv, TypeOK
  <2>2. work'[t] = work[t]
    BY <2>1 DEF EndTx, IInv, TypeOK
  <2>3. PaidOnce(v, work[t].journal[v], Rows(t))
    BY <2>1 DEF PaidInv, WorkPaidOnce
  <2>4. \A b \in BetIds : Settled(Rows(t)[b].status) => Rows(t)'[b] = Rows(t)[b]
    BY <2>1, <2>2 DEF Rows
  <2> QED
    BY <2>2, <2>3, <2>4, PaidOnceStable
<1> QED
  BY <1>2, <1>3 DEF PaidInv

\* The three commits meet the conditions of the lemma above.
LEMMA BetCommitKeepsPaidInv ==
  ASSUME IInv, PaidInv, NEW s \in Sessions, PlaceBetCommits(s)
  PROVE  PaidInv'
<1>1. /\ pc[s] = "betCommit" /\ Publish(s) /\ EndTx(s)
      /\ \A b \in BetIds : b # job[s].bet => bets'[b] = bets[b]
  BY DEF PlaceBetCommits, IInv, TypeOK
<1>2. job[s].bet \in BetIds /\ bets[job[s].bet].status = "none"
  BY <1>1 DEF IInv, JobsOK
<1>3. \A b \in BetIds : Settled(bets[b].status) => bets'[b] = bets[b]
  BY <1>1, <1>2 DEF Settled
<1>4. \A b \in BetIds : Rows(s)[b] = bets[b]
  BY <1>1, RowsExtendBets
<1>5. \A t \in Sessions, b \in BetIds : work[t].status[b] # "none" => bets'[b] = bets[b]
  BY <1>1, <1>2 DEF IInv, ListOK
<1> QED
  BY <1>1, <1>3, <1>4, <1>5, CommitKeepsPaidInv

\* The commit of an adjustment pays no bet.
LEMMA AdjustCommitKeepsPaidInv ==
  ASSUME IInv, PaidInv, NEW s \in Sessions, AdjustCommits(s)
  PROVE  PaidInv'
<1>1. pc[s] = "adjCommit" /\ Publish(s) /\ EndTx(s) /\ bets' = bets
  BY DEF AdjustCommits
<1>2. \A b \in BetIds : Rows(s)[b] = bets[b]
  BY <1>1, RowsExtendBets
<1> QED
  BY <1>1, <1>2, CommitKeepsPaidInv

\* The commit of a settlement pays the bets it has marked.
LEMMA SettleCommitKeepsPaidInv ==
  ASSUME IInv, PaidInv, NEW s \in Sessions, SettleCommits(s)
  PROVE  PaidInv'
<1>1. pc[s] = "setPay" /\ Publish(s) /\ EndTx(s) /\ bets' = Rows(s)
  BY DEF SettleCommits
<1>2. \A b \in BetIds : Settled(bets[b].status) => bets'[b] = bets[b]
  BY <1>1, RowsExtendBets DEF Settled
<1>3. ASSUME NEW t \in Sessions, NEW b \in BetIds, t # s, work[t].status[b] # "none"
      PROVE  bets'[b] = bets[b]
  <2> SUFFICES ASSUME work[s].status[b] # "none" PROVE FALSE
    BY <1>1 DEF Rows
  <2>1. /\ pc[t] = "setPay" /\ EventOfBet(b) = job[t].event
        /\ EventOfBet(b) = job[s].event /\ bets[b].outcome \in Outcomes
    BY <1>3 DEF IInv, ListOK, BetRowsOK
  <2>2. MarketOf[bets[b].outcome] \in Markets
    BY <2>1, ConstantsOK
  <2>3. marketLock[MarketOf[bets[b].outcome]] = s /\ marketLock[MarketOf[bets[b].outcome]] = t
    BY <1>1, <2>1, <2>2 DEF IInv, MarketsHeld, EventOfBet
  <2> QED
    BY <1>3, <2>3
<1> QED
  BY <1>1, <1>2, <1>3, CommitKeepsPaidInv

\* A stake or an adjustment is taken: no verdict, no payout.
LEMMA DebitKeepsPaidInv ==
  ASSUME IInv, PaidInv, NEW s \in Sessions, PlaceBetDebits(s) \/ AdjustMoves(s)
  PROVE  PaidInv'
<1>1. UNCHANGED <<journal, bets>> /\ \A b \in BetIds : Rows(s)'[b] = Rows(s)[b]
  <2>1. UNCHANGED db /\ \E u, type, amount, bet : Move(s, u, type, amount, bet, work[s].status)
    BY DebitIsMove, AdjustIsMove
  <2>2. work'[s].status = work[s].status
    BY <2>1 DEF Move, IInv, TypeOK
  <2> QED
    BY <2>1, <2>2 DEF Rows, db
<1>2. CASE PlaceBetDebits(s)
  BY <1>1, <1>2, DebitIsMove, MoveKeepsPaidInv DEF TxTypes, IsCredit
<1>3. CASE AdjustMoves(s)
  BY <1>1, <1>3, AdjustIsMove, MoveKeepsPaidInv DEF TxTypes, IsCredit
<1> QED
  BY <1>2, <1>3

\* A payout or a refund: the bet was pending, also for this transaction.
LEMMA CreditKeepsPaidInv ==
  ASSUME IInv, PaidInv, NEW s \in Sessions, NEW b \in BetIds, SettleCredits(s, b)
  PROVE  PaidInv'
<1> DEFINE v == Verdict(s, b)
           u == bets[b].user
           amount == Credit(v, bets[b].stake, bets[b].payout)
           type == IF v = "won" THEN "bet_payout" ELSE "bet_refund"
           d == [work[s].status EXCEPT ![b] = v]
<1>1. /\ b \in job[s].todo /\ bets[b].status = "pending"
      /\ v \in {"won", "void"} /\ u \in Users /\ amount \in Nat
      /\ Balance(s, u) \in Nat
      /\ Move(s, u, type, amount, b, d)
      /\ UNCHANGED db
  BY CreditIsMove
<1>2. work[s].status[b] = "none" /\ Rows(s)[b] = bets[b] /\ bets[b] \in BetRow
  BY <1>1 DEF IInv, ListOK, Rows, TypeOK
<1>3. work'[s].status = d /\ work[s].status \in [BetIds -> {"none"} \cup Results]
  <2> HIDE DEF v, u, amount, type, d
  <2> QED
    BY <1>1 DEF Move, IInv, TypeOK, Work
<1>4. Rows(s)'[b] = [bets[b] EXCEPT !.status = v]
  <2>1. work'[s].status[b] = v /\ bets' = bets
    BY <1>1, <1>3 DEF db
  <2> HIDE DEF v
  <2> QED
    BY <1>1, <2>1 DEF Rows
<1>5. \A c \in BetIds : Settled(Rows(s)[c].status) => Rows(s)'[c] = Rows(s)[c]
  <2>1. \A c \in BetIds : c # b => work'[s].status[c] = work[s].status[c]
    BY <1>3
  <2> QED
    BY <1>1, <1>2, <2>1 DEF Rows, Settled, db
<1>6. /\ Rows(s)'[b].user = u /\ Rows(s)'[b].status = v
      /\ Rows(s)'[b].stake = bets[b].stake /\ Rows(s)'[b].payout = bets[b].payout
  <2> HIDE DEF v
  <2> QED
    BY <1>2, <1>4 DEF BetRow
<1>7. ~Settled(Rows(s)[b].status)
  BY <1>1, <1>2 DEF Settled
<1>8. v = (IF type = "bet_payout" THEN "won" ELSE "void") /\ type \in TxTypes
  BY <1>1 DEF TxTypes
<1>9. amount = Credit(v, Rows(s)'[b].stake, Rows(s)'[b].payout)
  BY <1>6
<1> HIDE DEF v, u, amount, type, d
<1>10. ASSUME NEW x, x = [type |-> type, amount |-> amount, bet |-> b,
                          after |-> Balance(s, u) + amount]
       PROVE  Justified(u, x, Rows(s)')
  BY <1>6, <1>8, <1>9, <1>10 DEF Justified
<1>11. UNCHANGED <<journal, bets>> /\ amount \in Int /\ Balance(s, u) + amount >= 0
  BY <1>1 DEF db
<1> QED
  BY <1>1, <1>5, <1>7, <1>8, <1>10, <1>11, MoveKeepsPaidInv

\* A lost bet was pending, also for this transaction.
LEMMA LostKeepsPaidInv ==
  ASSUME IInv, PaidInv, NEW s \in Sessions, NEW b \in BetIds, SettleMarksLost(s, b)
  PROVE  PaidInv'
<1>1. /\ bets[b].status = "pending" /\ UNCHANGED <<db, walletLock>>
      /\ \A t \in Sessions : /\ work'[t].journal = work[t].journal
                             /\ t # s => work'[t] = work[t]
      /\ work'[s].status = [work[s].status EXCEPT ![b] = "lost"]
  BY MarksLostIsStatus
<1>2. work[s].status[b] = "none" /\ work[s].status \in [BetIds -> {"none"} \cup Results]
  <2>1. b \in job[s].todo
    BY Zenon DEF SettleMarksLost, First
  <2> QED
    BY <2>1 DEF IInv, ListOK, TypeOK, Work
<1>3. ASSUME NEW t \in Sessions, NEW c \in BetIds, Settled(Rows(t)[c].status)
      PROVE  Rows(t)'[c] = Rows(t)[c]
  <2>1. CASE t # s
    BY <1>1, <2>1 DEF Rows, db
  <2>2. CASE t = s /\ c # b
    BY <1>1, <1>2, <2>2 DEF Rows, db
  <2>3. CASE t = s /\ c = b
    BY <1>1, <1>2, <1>3, <2>3 DEF Rows, Settled
  <2> QED
    BY <2>1, <2>2, <2>3
<1> QED
  BY <1>1, <1>3, AsideKeepsPaidInv DEF db

\* Every step keeps the journals free of double payouts.
LEMMA NextKeepsPaidInv == IInv /\ PaidInv /\ [Next]_vars => PaidInv'
<1> SUFFICES ASSUME IInv, PaidInv, [Next]_vars PROVE PaidInv'
  OBVIOUS
<1>1. ASSUME NEW s \in Sessions, Step(s) PROVE PaidInv'
  <2>1. CASE PlaceBetDebits(s) \/ AdjustMoves(s)
    BY <2>1, DebitKeepsPaidInv
  <2>2. CASE \E b \in BetIds : SettleMarksLost(s, b) \/ SettleCredits(s, b)
    BY <2>2, CreditKeepsPaidInv, LostKeepsPaidInv
  <2>3. CASE PlaceBetCommits(s) \/ AdjustCommits(s) \/ SettleCommits(s)
    BY <2>3, BetCommitKeepsPaidInv, AdjustCommitKeepsPaidInv, SettleCommitKeepsPaidInv
  <2>4. CASE PlaceBetRefused(s) \/ AdjustRefused(s)
    BY <2>4, RollbackKeepsPaidInv DEF PlaceBetRefused, AdjustRefused
  <2>5. CASE PlaceBetReadsEvent(s) \/ SettleLocksMarket(s) \/ SettleListsBets(s)
    BY <2>5, QuietKeepsPaidInv
    DEF PlaceBetReadsEvent, SettleLocksMarket, SettleListsBets, db, locks
  <2> QED
    BY <1>1, <2>1, <2>2, <2>3, <2>4, <2>5 DEF Step
<1>2. ASSUME NEW s \in Requests, Request(s) PROVE PaidInv'
  <2>1. UNCHANGED <<db, work, locks>>
    BY <1>2 DEF Request, PlaceRequest, AdjustRequest, PlaceBetReadsMarket, AdjustBalance,
                AdminCancels, AdminSettlesCustom, AdminEntersScores, StartSettle
  <2> QED
    BY <2>1, QuietKeepsPaidInv DEF db, locks
<1>3. ASSUME NEW e \in Events, WorkerSettles(e) PROVE PaidInv'
  BY <1>3, QuietKeepsPaidInv DEF WorkerSettles, StartSettle, db, locks
<1>4. ASSUME NEW s \in Sessions, DeadlockVictim(s) \/ Fault(s) PROVE PaidInv'
  BY <1>4, RollbackKeepsPaidInv DEF DeadlockVictim, Fault
<1>5. CASE UNCHANGED <<db, session>>
  BY <1>5, QuietKeepsPaidInv DEF db, session
<1>6. ASSUME NEW e \in Events, WorkerSkips(e) \/ Kickoff(e) PROVE PaidInv'
  BY <1>5, <1>6 DEF WorkerSkips, Kickoff
<1>7. CASE WorkerLists \/ UNCHANGED vars
  BY <1>5, <1>7 DEF WorkerLists, vars
<1> QED
  BY <1>1, <1>2, <1>3, <1>4, <1>6, <1>7 DEF Next

\* Whatever settlements, cancellations, retries and faults overlap, a payout or
\* a refund in the journal belongs to one bet decided that way, is worth what
\* the bet says and is the only one for it.
THEOREM NoDoublePayout == Spec => []EachBetPaidOnce
<1>1. Init => PaidInv
  <2>1. Init => EachBetPaidOnce
    BY DEF Init, EachBetPaidOnce, PaidOnce, IsCredit
  <2>2. Init => WorkPaidOnce
    BY ConstantsOK DEF Init, WorkPaidOnce
  <2> QED
    BY <2>1, <2>2 DEF PaidInv
<1>2. PaidInv => EachBetPaidOnce
  BY DEF PaidInv
<1> QED
  BY <1>1, <1>2, NextKeepsPaidInv, Invariant, PTL DEF Spec

-----------------------------------------------------------------------------
(***************************************************************************)
(* Refinement: every committed transaction is one step of FanticLedger.    *)
(* The invariant says by how much the uncommitted rows of a held wallet    *)
(* are ahead of the committed ones: by a stake, by a grant, or by the sum  *)
(* of what the bets decided so far are worth.                              *)
(***************************************************************************)

\* What the settlement of s has credited to the bets of u so far.
CreditedTo(s, u) ==
  SumFunctionOnSet([b \in BetIds |-> Ledger!Worth(Rows(s)[b])],
                   {b \in BetIds : work[s].status[b] # "none" /\ bets[b].user = u})

\* What the open transaction of s adds to the balance of u.
Change(s, u) == CASE pc[s] = "betCommit" -> -job[s].amount
                  [] pc[s] = "adjCommit" -> job[s].amount
                  [] OTHER               -> CreditedTo(s, u)

\* What it adds to the grants of u.
Grant(s) == IF pc[s] = "adjCommit" THEN job[s].amount ELSE 0

\* An unused id has the empty row; a bet in the making asks for a legal stake.
UnusedIdsAreFree == \A b \in BetIds : bets[b].status = "none" => bets[b] = NoBet
StakesInRange    == \A s \in Sessions : pc[s] \in BetPC => job[s].amount \in BetMin..BetMax

\* A bet and an adjustment hold the wallet they are about and no other; only a
\* settlement may hold several.
OwnWalletHeld ==
  \A s \in Sessions :
    /\ pc[s] \in {"betCommit", "adjCommit"} => walletLock[job[s].user] = s
    /\ \A u \in Users : walletLock[u] = s =>
         \/ pc[s] = "setPay"
         \/ pc[s] \in {"betCommit", "adjCommit"} /\ job[s].user = u

\* The uncommitted rows of a held wallet are the committed ones and what this
\* transaction is about; a settlement that does not hold a wallet has credited
\* nothing to it.
HeldRowsAreAhead ==
  \A s \in Sessions, u \in Users :
    IF walletLock[u] = s
      THEN /\ work[s].wallet[u] = wallet[u] + Change(s, u)
           /\ Granted(work[s].journal[u]) = Granted(journal[u]) + Grant(s)
      ELSE pc[s] = "setPay" => CreditedTo(s, u) = 0

LedgerInv == UnusedIdsAreFree /\ StakesInRange /\ OwnWalletHeld /\ HeldRowsAreAhead

\* The sum in the ledger's module is the sum in this one.
LEMMA SameSums == \A f, S : Ledger!SumFunctionOnSet(f, S) = SumFunctionOnSet(f, S)
  BY DEF SumFunctionOnSet, FoldFunctionOnSet, MapThenFoldSet, Ledger!SumFunctionOnSet, Ledger!FoldFunctionOnSet, Ledger!MapThenFoldSet

\* A new journal row grants its amount if it is an adjustment.
LEMMA GrantedAppend ==
  ASSUME NEW j \in Seq(Entry), NEW x \in Entry
  PROVE  Granted(Append(j, x)) = Granted(j) + IF x.type = "admin_adjust" THEN x.amount ELSE 0
<1> DEFINE k == Append(j, x)
           n == Len(j) + 1
           f == [i \in DOMAIN j |-> IF j[i].type = "admin_adjust" THEN j[i].amount ELSE 0]
           g == [i \in DOMAIN k |-> IF k[i].type = "admin_adjust" THEN k[i].amount ELSE 0]
<1>1. /\ DOMAIN k = 1..n /\ DOMAIN j = 1..(n - 1) /\ n \in Nat \ {0}
      /\ \A i \in 1..(n - 1) : k[i] = j[i] /\ k[i] \in Entry
      /\ k[n] = x
  OBVIOUS
<1>2. IsFiniteSet(1..n)
  BY <1>1, FS_Interval
<1>3. \A i \in 1..n : g[i] \in Int
  BY <1>1 DEF Entry
<1>4. Granted(k) = SumFunctionOnSet(g, 1..n) /\ Granted(j) = SumFunctionOnSet(f, 1..(n - 1))
  BY <1>1 DEF Granted, SumFunction
<1>5. \A i \in 1..(n - 1) : g[i] = f[i]
  BY <1>1
<1>6. g[n] = IF x.type = "admin_adjust" THEN x.amount ELSE 0
  BY <1>1
<1> HIDE DEF k, n, f, g
<1>7. n \in 1..n /\ (1..n) \ {n} = 1..(n - 1) /\ IsFiniteSet(1..(n-1))
  <2>1. n \in 1..n /\ (1..n) \ {n} = 1..(n - 1) /\ n - 1 \in Int
    BY <1>1
  <2>2. \A m \in Int : IsFiniteSet(1..m)
    BY FS_Interval
  <2> QED
    BY <2>1, <2>2
<1>8. /\ SumFunctionOnSet(g, 1..n) = g[n] + SumFunctionOnSet(g, (1..n) \ {n})
      /\ SumFunctionOnSet(g, (1..n) \ {n}) \in Int
  <2> DEFINE T == 1..n
  <2>1. IsFiniteSet(T) /\ n \in T /\ \A i \in T : g[i] \in Int
    BY <1>2, <1>3, <1>7
  <2> HIDE DEF T
  <2>2. /\ SumFunctionOnSet(g, T) = g[n] + SumFunctionOnSet(g, T \ {n})
        /\ SumFunctionOnSet(g, T \ {n}) \in Int
    BY <2>1, SumTakeOut
  <2> QED
    BY <2>2 DEF T
<1>10. SumFunctionOnSet(g, 1..(n - 1)) = SumFunctionOnSet(f, 1..(n - 1))
  BY <1>5, <1>7, SumSame
<1>11. g[n] \in Int
  BY <1>3, <1>7
<1> DEFINE before == SumFunctionOnSet(g, 1..(n - 1))
<1>12. SumFunctionOnSet(g, 1..n) = g[n] + before /\ before \in Int
  BY <1>7, <1>8
<1>13. Granted(k) = g[n] + before /\ Granted(j) = before
  BY <1>4, <1>10, <1>12
<1> HIDE DEF before
<1>14. Granted(k) = Granted(j) + g[n]
  BY <1>11, <1>12, <1>13
<1> QED
  BY <1>6, <1>14 DEF k

\* Grants are an integer.
LEMMA GrantedIsInt ==
  ASSUME NEW j \in Seq(Entry)
  PROVE  Granted(j) \in Int
<1> DEFINE f == [i \in DOMAIN j |-> IF j[i].type = "admin_adjust" THEN j[i].amount ELSE 0]
<1>1. IsFiniteSet(DOMAIN j) /\ DOMAIN j \in SUBSET DOMAIN j
  BY FS_Interval
<1>2. \A i \in DOMAIN j : f[i] \in Int
  <2>1. \A i \in DOMAIN j : j[i] \in Entry
    OBVIOUS
  <2> QED
    BY <2>1 DEF Entry
<1> HIDE DEF f
<1>3. SumFunctionOnSet(f, DOMAIN j) \in Int
  BY <1>1, <1>2, SumTyped
<1> QED
  BY <1>3 DEF Granted, SumFunction, f

\* Bet ids are finitely many, so sums over them exist.
LEMMA BetIdsFinite == IsFiniteSet(BetIds) /\ \A S \in SUBSET BetIds : IsFiniteSet(S)
<1>1. IsFiniteSet(1..MaxBets)
  BY ConstantsOK, FS_Interval
<1> QED
  BY <1>1, FS_Subset DEF BetIds

\* What a session sees of the bets table is a bets table.
LEMMA RowsTyped ==
  ASSUME IInv, NEW s \in Sessions, NEW b \in BetIds
  PROVE  /\ Rows(s)[b] \in BetRow
         /\ Rows(s)[b].user = bets[b].user /\ Rows(s)[b].outcome = bets[b].outcome
         /\ Rows(s)[b].stake = bets[b].stake /\ Rows(s)[b].payout = bets[b].payout
         /\ Rows(s)[b].status = IF work[s].status[b] = "none" THEN bets[b].status
                                                              ELSE work[s].status[b]
<1>1. bets[b] \in BetRow /\ work[s].status[b] \in {"none"} \cup Results
  BY DEF IInv, TypeOK, Work
<1>2. Rows(s)[b] = IF work[s].status[b] = "none" THEN bets[b]
                   ELSE [bets[b] EXCEPT !.status = work[s].status[b]]
  BY DEF Rows
<1> QED
  BY <1>1, <1>2 DEF BetRow, BetStatus

\* A bet is worth a natural number.
LEMMA WorthInNat == \A row \in BetRow : Ledger!Worth(row) \in Nat
  BY DEF Ledger!Worth, BetRow

\* Credits are an integer.
LEMMA CreditedIsInt ==
  ASSUME IInv, NEW s \in Sessions, NEW u
  PROVE  CreditedTo(s, u) \in Int
<1> DEFINE f == [b \in BetIds |-> Ledger!Worth(Rows(s)[b])]
           T == {b \in BetIds : work[s].status[b] # "none" /\ bets[b].user = u}
<1>1. \A b \in T : f[b] \in Int
  BY RowsTyped, WorthInNat
<1>2. IsFiniteSet(T)
  BY BetIdsFinite
<1> HIDE DEF f, T
<1>3. SumFunctionOnSet(f, T) \in Int
  BY <1>1, <1>2, SumTyped
<1> QED
  BY <1>3 DEF CreditedTo, f, T

\* Without a verdict there is no credit.
LEMMA NothingDecided ==
  ASSUME NEW s, NEW u, \A b \in BetIds : work[s].status[b] = "none"
  PROVE  CreditedTo(s, u) = 0
<1>1. {b \in BetIds : work[s].status[b] # "none" /\ bets[b].user = u} = {}
  OBVIOUS
<1> QED
  BY <1>1, SumOfNone DEF CreditedTo

\* Credits depend only on the bets decided.
LEMMA CreditedSame ==
  ASSUME NEW s, NEW u, \A b \in BetIds : /\ work'[s].status[b] = work[s].status[b]
                                         /\ work[s].status[b] # "none" => bets'[b] = bets[b]
  PROVE  CreditedTo(s, u)' = CreditedTo(s, u)
<1> DEFINE f == [b \in BetIds |-> Ledger!Worth(Rows(s)[b])]
           g == [b \in BetIds |-> Ledger!Worth(Rows(s)'[b])]
           T == {b \in BetIds : work[s].status[b] # "none" /\ bets[b].user = u}
<1>1. {b \in BetIds : work'[s].status[b] # "none" /\ bets'[b].user = u} = T
  OBVIOUS
<1>2. \A b \in T : g[b] = f[b]
  BY DEF Rows
<1>3. IsFiniteSet(T)
  BY BetIdsFinite
<1>4. CreditedTo(s, u) = SumFunctionOnSet(f, T) /\ CreditedTo(s, u)' = SumFunctionOnSet(g, T)
  BY <1>1 DEF CreditedTo, Rows
<1> HIDE DEF f, g, T
<1> QED
  BY <1>2, <1>3, <1>4, SumSame

\* A verdict adds what it is worth to the credits of the owner of the bet.
LEMMA CreditedMore ==
  ASSUME IInv, NEW s \in Sessions, NEW u, NEW b \in BetIds, NEW v \in Results,
         work[s].status[b] = "none", bets' = bets,
         work'[s].status = [work[s].status EXCEPT ![b] = v]
  PROVE  CreditedTo(s, u)' = CreditedTo(s, u) +
           IF bets[b].user = u THEN Credit(v, bets[b].stake, bets[b].payout) ELSE 0
<1> DEFINE f == [c \in BetIds |-> Ledger!Worth(Rows(s)[c])]
           g == [c \in BetIds |-> Ledger!Worth(Rows(s)'[c])]
           T == {c \in BetIds : work[s].status[c] # "none" /\ bets[c].user = u}
           U == {c \in BetIds : work'[s].status[c] # "none" /\ bets'[c].user = u}
           worth == Credit(v, bets[b].stake, bets[b].payout)
<1>1. /\ work[s].status \in [BetIds -> {"none"} \cup Results]
      /\ bets[b] \in BetRow /\ v # "none"
  BY DEF IInv, TypeOK, Work, Results
<1>2. /\ work'[s].status[b] = v
      /\ \A c \in BetIds : c # b => work'[s].status[c] = work[s].status[c]
  BY <1>1
<1>3. U = (IF bets[b].user = u THEN T \cup {b} ELSE T) /\ b \notin T /\ IsFiniteSet(T) /\ IsFiniteSet(U)
  BY <1>1, <1>2, BetIdsFinite
<1>4. \A c \in T : g[c] = f[c]
  BY <1>2, <1>3 DEF Rows
<1>5. g[b] = worth
  <2>1. Rows(s)'[b] = [bets[b] EXCEPT !.status = v]
    BY <1>1, <1>2 DEF Rows
  <2>2. /\ Rows(s)'[b].status = v /\ Rows(s)'[b].stake = bets[b].stake
        /\ Rows(s)'[b].payout = bets[b].payout
    BY <1>1, <2>1 DEF BetRow
  <2>3. Ledger!Worth(Rows(s)'[b]) = worth
    BY <2>2 DEF Ledger!Worth, Credit
  <2> QED
    BY <2>3
<1>6. \A c \in T : f[c] \in Int
  BY RowsTyped, WorthInNat
<1>7. worth \in Int
  BY <1>1, CreditInNat DEF BetRow
<1>8. CreditedTo(s, u) = SumFunctionOnSet(f, T) /\ CreditedTo(s, u)' = SumFunctionOnSet(g, U)
  BY DEF CreditedTo, Rows
<1> HIDE DEF f, g, T, U, worth
<1>9. SumFunctionOnSet(g, T) = SumFunctionOnSet(f, T)
  BY <1>3, <1>4, SumSame
<1>10. SumFunctionOnSet(f, T) \in Int
  BY <1>3, <1>6, SumTyped
<1>11. CASE bets[b].user = u
  <2>1. \A c \in U : g[c] \in Int
    BY <1>3, <1>4, <1>5, <1>6, <1>7, <1>11
  <2>2. b \in U /\ U \ {b} = T
    BY <1>3, <1>11
  <2>3. SumFunctionOnSet(g, U) = g[b] + SumFunctionOnSet(g, T)
    BY <1>3, <2>1, <2>2, SumTakeOut
  <2>4. CreditedTo(s, u)' = CreditedTo(s, u) + worth
    BY <1>5, <1>7, <1>8, <1>9, <1>10, <2>3
  <2> QED
    BY <1>11, <2>4 DEF worth
<1>12. CASE bets[b].user # u
  BY <1>3, <1>8, <1>9, <1>10, <1>12
<1> QED
  BY <1>11, <1>12

-----------------------------------------------------------------------------
\* Sessions go from statement to statement without touching money.
LEMMA AsideKeepsLedgerInv ==
  ASSUME IInv, LedgerInv, UNCHANGED <<wallet, journal, bets, walletLock, work>>,
         \A t \in Sessions :
           \/ /\ pc'[t] = pc[t] /\ job'[t].user = job[t].user /\ job'[t].amount = job[t].amount
           \/ /\ pc[t] \in {"idle", "betEvent", "setMarkets"}
              /\ pc'[t] \in {"betEvent", "betWallet", "adjWallet", "setMarkets", "setPay"}
              /\ pc'[t] \in BetPC => job'[t].amount \in BetMin..BetMax
  PROVE  LedgerInv'
<1> USE DEF LedgerInv
<1>1. UnusedIdsAreFree' /\ StakesInRange'
  BY DEF UnusedIdsAreFree, StakesInRange
<1>2. OwnWalletHeld'
  BY DEF OwnWalletHeld
<1>3. ASSUME NEW t \in Sessions, NEW u \in Users PROVE CreditedTo(t, u)' = CreditedTo(t, u)
  BY CreditedSame
<1>4. HeldRowsAreAhead'
  <2> SUFFICES ASSUME NEW t \in Sessions, NEW u \in Users
               PROVE  IF walletLock[u] = t
                        THEN /\ work[t].wallet[u] = wallet[u] + Change(t, u)'
                             /\ Granted(work[t].journal[u]) = Granted(journal[u]) + Grant(t)'
                        ELSE pc'[t] = "setPay" => CreditedTo(t, u)' = 0
    BY DEF HeldRowsAreAhead
  <2>1. CASE walletLock[u] = t
    <3>1. pc'[t] = pc[t] /\ job'[t].amount = job[t].amount
      BY <2>1 DEF OwnWalletHeld
    <3>2. Change(t, u)' = Change(t, u) /\ Grant(t)' = Grant(t)
      BY <1>3, <3>1 DEF Change, Grant
    <3> QED
      BY <2>1, <3>2 DEF HeldRowsAreAhead
  <2>2. CASE walletLock[u] # t /\ pc[t] = "setPay"
    BY <1>3, <2>2 DEF HeldRowsAreAhead
  <2>3. CASE walletLock[u] # t /\ pc[t] # "setPay"
    <3>1. \A b \in BetIds : work[t].status[b] = "none"
      BY <2>3 DEF IInv, ListOK
    <3>2. CreditedTo(t, u) = 0
      BY <3>1, NothingDecided
    <3> QED
      BY <1>3, <2>3, <3>2
  <2> QED
    BY <2>1, <2>2, <2>3
<1> QED
  BY <1>1, <1>2, <1>4

\* A transaction ends: what it held is free, what others hold stays as it was.
LEMMA EndKeepsLedgerInv ==
  ASSUME IInv, LedgerInv, NEW s \in Sessions, EndTx(s), UnusedIdsAreFree',
         \A u \in Users : walletLock[u] # s => wallet'[u] = wallet[u] /\ journal'[u] = journal[u],
         \A t \in Sessions, b \in BetIds : t # s /\ work[t].status[b] # "none" => bets'[b] = bets[b]
  PROVE  LedgerInv'
<1> USE DEF LedgerInv
<1>1. /\ \A t \in Sessions : t # s => pc'[t] = pc[t] /\ job'[t] = job[t] /\ work'[t] = work[t]
      /\ pc'[s] = "idle" /\ \A u \in Users : walletLock'[u] # s
      /\ \A t \in Sessions, u \in Users : t # s => (walletLock'[u] = t <=> walletLock[u] = t)
  BY ConstantsOK DEF EndTx, IInv, TypeOK
<1>2. StakesInRange'
  BY <1>1 DEF StakesInRange, BetPC
<1>3. OwnWalletHeld'
  <2> SUFFICES ASSUME NEW t \in Sessions, t # s
               PROVE  /\ pc[t] \in {"betCommit", "adjCommit"} => walletLock'[job[t].user] = t
                      /\ \A u \in Users : walletLock[u] = t =>
                           \/ pc[t] = "setPay"
                           \/ pc[t] \in {"betCommit", "adjCommit"} /\ job[t].user = u
    BY <1>1 DEF OwnWalletHeld
  <2>1. pc[t] \in {"betCommit", "adjCommit"} => job[t].user \in Users
    BY DEF IInv, JobsOK, BetPC, AdjustPC
  <2> QED
    BY <1>1, <2>1 DEF OwnWalletHeld
<1>4. HeldRowsAreAhead'
  <2> SUFFICES ASSUME NEW t \in Sessions, NEW u \in Users, t # s
               PROVE  IF walletLock[u] = t
                        THEN /\ work[t].wallet[u] = wallet'[u] + Change(t, u)'
                             /\ Granted(work[t].journal[u]) = Granted(journal'[u]) + Grant(t)'
                        ELSE pc[t] = "setPay" => CreditedTo(t, u)' = 0
    BY <1>1 DEF HeldRowsAreAhead
  <2>1. CreditedTo(t, u)' = CreditedTo(t, u)
    BY <1>1, CreditedSame
  <2>2. Change(t, u)' = Change(t, u) /\ Grant(t)' = Grant(t)
    BY <1>1, <2>1 DEF Change, Grant
  <2> QED
    BY <2>1, <2>2 DEF HeldRowsAreAhead
<1> QED
  BY <1>2, <1>3, <1>4

\* Money moves in the transaction of s.
LEMMA MoveKeepsLedgerInv ==
  ASSUME IInv, LedgerInv, NEW s \in Sessions, NEW u \in Users, NEW type \in TxTypes,
         NEW amount \in Int, NEW bet \in BetIds \cup {None}, NEW decided,
         WalletFree(s, u), Balance(s, u) + amount >= 0,
         Move(s, u, type, amount, bet, decided), UNCHANGED <<wallet, journal, bets>>,
         \A t \in Sessions : t # s => pc'[t] = pc[t] /\ job'[t] = job[t],
         job'[s].user = job[s].user, job'[s].amount = job[s].amount,
         pc'[s] \in BetPC => pc[s] \in BetPC,
         \/ pc[s] = "setPay" /\ pc'[s] = "setPay"
         \/ /\ pc[s] \in {"betWallet", "adjWallet"} /\ pc'[s] \in {"betCommit", "adjCommit"}
            /\ job[s].user = u,
         Change(s, u)' = (IF pc[s] = "setPay" THEN CreditedTo(s, u) ELSE 0) + amount,
         pc[s] = "setPay" => \A v \in Users : v # u => CreditedTo(s, v)' = CreditedTo(s, v),
         Grant(s)' = IF type = "admin_adjust" THEN amount ELSE 0
  PROVE  LedgerInv'
<1> DEFINE entry == [type |-> type, amount |-> amount, bet |-> bet, after |-> Balance(s, u) + amount]
<1> USE DEF LedgerInv
<1>0. /\ wallet[u] \in Nat /\ journal[u] \in Seq(Entry)
      /\ Balance(s, u) \in Nat /\ History(s, u) \in Seq(Entry) /\ entry \in Entry
  <2>1. /\ wallet[u] \in Nat /\ journal[u] \in Seq(Entry)
        /\ Balance(s, u) \in Nat /\ History(s, u) \in Seq(Entry)
    BY DEF IInv, TypeOK, Work, Balance, History
  <2> QED
    BY <2>1 DEF Entry
<1>1. /\ walletLock'[u] = s /\ \A v \in Users : v # u => walletLock'[v] = walletLock[v]
      /\ \A t \in Sessions : t # s => work'[t] = work[t]
      /\ work'[s].wallet[u] = Balance(s, u) + amount
      /\ work'[s].journal[u] = Append(History(s, u), entry)
      /\ \A v \in Users : v # u => /\ work'[s].wallet[v] = work[s].wallet[v]
                                   /\ work'[s].journal[v] = work[s].journal[v]
  BY DEF Move, IInv, TypeOK, Work
<1>2. walletLock[u] = s \/ walletLock[u] = None
  BY DEF WalletFree
<1>3. UnusedIdsAreFree' /\ StakesInRange'
  BY DEF UnusedIdsAreFree, StakesInRange
<1>4. OwnWalletHeld'
  <2>1. None \notin Sessions
    BY ConstantsOK
  <2>2. ASSUME NEW t \in Sessions, pc'[t] \in {"betCommit", "adjCommit"}
        PROVE  walletLock'[job'[t].user] = t
    <3>1. CASE t = s
      BY <1>1, <2>2, <3>1
    <3>2. CASE t # s
      <4>1. walletLock[job[t].user] = t /\ job[t].user \in Users
        BY <2>2, <3>2 DEF OwnWalletHeld, IInv, JobsOK, BetPC, AdjustPC
      <4> QED
        BY <1>1, <1>2, <2>1, <3>2, <4>1
    <3> QED
      BY <3>1, <3>2
  <2>3. ASSUME NEW t \in Sessions, NEW v \in Users, walletLock'[v] = t
        PROVE  \/ pc'[t] = "setPay"
               \/ pc'[t] \in {"betCommit", "adjCommit"} /\ job'[t].user = v
    BY <1>1, <2>3 DEF OwnWalletHeld
  <2> QED
    BY <2>2, <2>3 DEF OwnWalletHeld
<1>5. HeldRowsAreAhead'
  <2> SUFFICES ASSUME NEW t \in Sessions, NEW v \in Users
               PROVE  IF walletLock'[v] = t
                        THEN /\ work'[t].wallet[v] = wallet[v] + Change(t, v)'
                             /\ Granted(work'[t].journal[v]) = Granted(journal[v]) + Grant(t)'
                        ELSE pc'[t] = "setPay" => CreditedTo(t, v)' = 0
    BY DEF HeldRowsAreAhead
  <2>1. CASE t # s
    <3>1. CreditedTo(t, v)' = CreditedTo(t, v)
      BY <1>1, <2>1, CreditedSame
    <3>2. Change(t, v)' = Change(t, v) /\ Grant(t)' = Grant(t)
      BY <2>1, <3>1 DEF Change, Grant
    <3>3. walletLock'[v] = t <=> walletLock[v] = t
      <4>1. None \notin Sessions
        BY ConstantsOK
      <4>2. v \in Users /\ (v = u => walletLock[v] # t /\ walletLock'[v] # t)
        BY <1>1, <1>2, <2>1, <4>1
      <4> QED
        BY <1>1, <4>2
    <3> QED
      BY <1>1, <2>1, <3>1, <3>2, <3>3 DEF HeldRowsAreAhead
  <2>2. CASE t = s /\ v = u
    <3>1. /\ Granted(Append(History(s, u), entry)) =
               Granted(History(s, u)) + IF type = "admin_adjust" THEN amount ELSE 0
          /\ Granted(History(s, u)) \in Int /\ Granted(journal[u]) \in Int
      BY <1>0, GrantedAppend, GrantedIsInt
    <3>2. CASE walletLock[u] = s
      <4>1. pc[s] = "setPay"
        BY <3>2 DEF OwnWalletHeld
      <4>2. /\ Balance(s, u) = wallet[u] + CreditedTo(s, u)
            /\ Granted(History(s, u)) = Granted(journal[u]) 
        BY <3>1, <3>2, <4>1 DEF HeldRowsAreAhead, Change, Grant, Balance, History
      <4>3. CreditedTo(s, u) \in Int
        BY CreditedIsInt
      <4>4. work'[s].wallet[u] = wallet[u] + Change(s, u)'
        BY <1>0, <1>1, <4>1, <4>2, <4>3
      <4> QED
        BY <1>1, <2>2, <3>1, <4>2, <4>4
    <3>3. CASE walletLock[u] # s
      <4>1. Balance(s, u) = wallet[u] /\ History(s, u) = journal[u]
        BY <3>3 DEF Balance, History
      <4>2. pc[s] = "setPay" => CreditedTo(s, u) = 0
        BY <3>3 DEF HeldRowsAreAhead
      <4>3. Change(s, u)' = amount
        BY <4>2
      <4> QED
        BY <1>1, <2>2, <3>1, <4>1, <4>3
    <3> QED
      BY <3>2, <3>3
  <2>3. CASE t = s /\ v # u
    <3>1. CASE walletLock[v] = s
      <4>1. pc[s] = "setPay" /\ pc'[s] = "setPay"
        BY <2>3, <3>1 DEF OwnWalletHeld
      <4>2. Change(s, v)' = Change(s, v) /\ Grant(s)' = Grant(s)
        BY <2>3, <4>1 DEF Change, Grant
      <4> QED
        BY <1>1, <2>3, <3>1, <4>2 DEF HeldRowsAreAhead
    <3>2. CASE walletLock[v] # s
      BY <1>1, <2>3, <3>2 DEF HeldRowsAreAhead
    <3> QED
      BY <3>1, <3>2
  <2> QED
    BY <2>1, <2>2, <2>3
<1> QED
  BY <1>3, <1>4, <1>5

\* The stake of a bet is taken.
LEMMA DebitKeepsLedgerInv ==
  ASSUME IInv, LedgerInv, NEW s \in Sessions, PlaceBetDebits(s)
  PROVE  LedgerInv'
<1>0. PICK u \in Users : u = job[s].user
  BY DebitIsMove, AdjustIsMove
<1>1. /\ pc[s] = "betWallet" /\ u \in Users /\ -job[s].amount \in Int
      /\ Balance(s, u) + (-job[s].amount) >= 0 /\ betSeq + 1 \in BetIds
      /\ Move(s, u, "bet_stake", -job[s].amount, betSeq + 1, work[s].status)
      /\ UNCHANGED db
  BY <1>0, DebitIsMove
<1>2. /\ WalletFree(s, u) /\ pc' = [pc EXCEPT ![s] = "betCommit"]
      /\ job' = [job EXCEPT ![s] = [job[s] EXCEPT !.bet = betSeq + 1]]
  BY <1>0, Zenon DEF PlaceBetDebits
<1>3. /\ pc'[s] = "betCommit" /\ job'[s].user = u /\ job'[s].amount = job[s].amount
      /\ \A t \in Sessions : t # s => pc'[t] = pc[t] /\ job'[t] = job[t]
  <2>1. job[s] \in Job
    BY DEF IInv, TypeOK
  <2> QED
    BY <1>0, <1>1, <1>2, <2>1, JobWithBet DEF IInv, TypeOK
<1>4. Change(s, u)' = -job[s].amount /\ Grant(s)' = 0
  BY <1>3 DEF Change, Grant
<1>5. Change(s, u)' = (IF pc[s] = "setPay" THEN CreditedTo(s, u) ELSE 0) + (-job[s].amount)
  BY <1>1, <1>4
<1> QED
  BY <1>0, <1>1, <1>2, <1>3, <1>4, <1>5, MoveKeepsLedgerInv DEF TxTypes, BetPC, db

\* An adjustment.
LEMMA AdjustMovesKeepsLedgerInv ==
  ASSUME IInv, LedgerInv, NEW s \in Sessions, AdjustMoves(s)
  PROVE  LedgerInv'
<1>0. PICK u \in Users : u = job[s].user
  BY DebitIsMove, AdjustIsMove
<1>1. /\ pc[s] = "adjWallet" /\ u \in Users /\ job[s].amount \in Int
      /\ Balance(s, u) + job[s].amount >= 0
      /\ Move(s, u, "admin_adjust", job[s].amount, None, work[s].status)
      /\ UNCHANGED db
  BY <1>0, AdjustIsMove
<1>2. WalletFree(s, u) /\ pc' = [pc EXCEPT ![s] = "adjCommit"] /\ job' = job
  BY <1>0, Zenon DEF AdjustMoves
<1>3. /\ pc'[s] = "adjCommit" /\ \A t \in Sessions : t # s => pc'[t] = pc[t]
  BY <1>2 DEF IInv, TypeOK
<1>4. Change(s, u)' = job[s].amount /\ Grant(s)' = job[s].amount
  BY <1>2, <1>3 DEF Change, Grant
<1>5. Change(s, u)' = (IF pc[s] = "setPay" THEN CreditedTo(s, u) ELSE 0) + job[s].amount
  BY <1>1, <1>4
<1> QED
  BY <1>0, <1>1, <1>2, <1>3, <1>4, <1>5, MoveKeepsLedgerInv DEF TxTypes, BetPC, db

\* A payout or a refund.
LEMMA CreditKeepsLedgerInv ==
  ASSUME IInv, LedgerInv, NEW s \in Sessions, NEW b \in BetIds, SettleCredits(s, b)
  PROVE  LedgerInv'
<1>0. PICK u \in Users : u = bets[b].user
  BY CreditIsMove
<1> DEFINE v == Verdict(s, b)
           amount == Credit(v, bets[b].stake, bets[b].payout)
           type == IF v = "won" THEN "bet_payout" ELSE "bet_refund"
           d == [work[s].status EXCEPT ![b] = v]
<1>1. /\ b \in job[s].todo /\ v \in {"won", "void"} /\ u \in Users /\ amount \in Nat
      /\ Balance(s, u) \in Nat /\ Move(s, u, type, amount, b, d) /\ UNCHANGED db
  BY <1>0, CreditIsMove
<1>2. /\ WalletFree(s, u) /\ pc[s] = "setPay" /\ pc' = pc
      /\ job' = [job EXCEPT ![s] = [job[s] EXCEPT !.todo = @ \ {b}]]
  BY <1>0, Zenon DEF SettleCredits
<1>3. /\ job'[s].user = job[s].user /\ job'[s].amount = job[s].amount
      /\ \A t \in Sessions : t # s => job'[t] = job[t]
  <2>1. job[s] \in Job /\ job[s].todo \ {b} \in SUBSET BetIds
    BY DEF IInv, TypeOK, Job
  <2> QED
    BY <1>2, <2>1, JobWithTodo DEF IInv, TypeOK
<1>4. work[s].status[b] = "none" /\ work'[s].status = d
  <2>1. work[s].status[b] = "none"
    BY <1>1 DEF IInv, ListOK
  <2> HIDE DEF v, amount, type, d
  <2> QED
    BY <1>1, <2>1 DEF Move, IInv, TypeOK, Work
<1>5. bets' = bets /\ UNCHANGED <<wallet, journal>> /\ v \in Results
  BY <1>1 DEF db, Results
<1>6. \A w \in Users : CreditedTo(s, w)' = CreditedTo(s, w) + IF u = w THEN amount ELSE 0
  <2> HIDE DEF v
  <2> QED
    BY <1>0, <1>4, <1>5, CreditedMore DEF v
<1>7. type \in TxTypes /\ type # "admin_adjust"
  BY DEF TxTypes
<1> HIDE DEF v, amount, type, d
<1>8. \A w \in Users : CreditedTo(s, w) \in Int
  BY CreditedIsInt
<1>9. /\ Change(s, u)' = CreditedTo(s, u) + amount /\ Grant(s)' = 0
      /\ \A w \in Users : w # u => CreditedTo(s, w)' = CreditedTo(s, w)
  BY <1>1, <1>2, <1>6, <1>8 DEF Change, Grant
<1>10. Change(s, u)' = (IF pc[s] = "setPay" THEN CreditedTo(s, u) ELSE 0) + amount
  BY <1>2, <1>9
<1>11. Balance(s, u) + amount >= 0 /\ amount \in Int
  BY <1>1
<1> QED
  BY <1>1, <1>2, <1>3, <1>5, <1>7, <1>9, <1>10, <1>11, MoveKeepsLedgerInv DEF BetPC

\* A lost bet.
LEMMA LostKeepsLedgerInv ==
  ASSUME IInv, LedgerInv, NEW s \in Sessions, NEW b \in BetIds, SettleMarksLost(s, b)
  PROVE  LedgerInv'
<1> USE DEF LedgerInv
<1>1. /\ bets[b].status = "pending" /\ UNCHANGED <<db, walletLock>>
      /\ \A t \in Sessions : /\ work'[t].wallet = work[t].wallet
                             /\ work'[t].journal = work[t].journal
                             /\ t # s => work'[t] = work[t]
      /\ work'[s].status = [work[s].status EXCEPT ![b] = "lost"]
  BY MarksLostIsStatus
<1>2. /\ b \in job[s].todo /\ pc' = pc
      /\ job' = [job EXCEPT ![s] = [job[s] EXCEPT !.todo = @ \ {b}]]
  BY Zenon DEF SettleMarksLost, First
<1>3. \A t \in Sessions : job'[t].user = job[t].user /\ job'[t].amount = job[t].amount
  <2>1. job[s] \in Job /\ job[s].todo \ {b} \in SUBSET BetIds
    BY DEF IInv, TypeOK, Job
  <2> QED
    BY <1>2, <2>1, JobWithTodo DEF IInv, TypeOK
<1>4. work[s].status[b] = "none" /\ bets' = bets /\ wallet' = wallet /\ journal' = journal
  BY <1>1, <1>2 DEF IInv, ListOK, db
<1>5. ASSUME NEW t \in Sessions, NEW u \in Users PROVE CreditedTo(t, u)' = CreditedTo(t, u)
  <2>1. CASE t # s
    BY <1>1, <1>4, <2>1, CreditedSame
  <2>2. CASE t = s
    <3>1. Credit("lost", bets[b].stake, bets[b].payout) = 0 /\ "lost" \in Results
      BY DEF Credit, Results
    <3>2. CreditedTo(s, u)' = CreditedTo(s, u) +
            IF bets[b].user = u THEN Credit("lost", bets[b].stake, bets[b].payout) ELSE 0
      BY <1>1, <1>4, <3>1, CreditedMore
    <3>3. CreditedTo(s, u) \in Int
      BY CreditedIsInt
    <3> QED
      BY <2>2, <3>1, <3>2, <3>3
  <2> QED
    BY <2>1, <2>2
<1>6. UnusedIdsAreFree' /\ StakesInRange' /\ OwnWalletHeld'
  BY <1>1, <1>2, <1>3, <1>4 DEF UnusedIdsAreFree, StakesInRange, OwnWalletHeld
<1>7. HeldRowsAreAhead'
  <2>1. \A t \in Sessions, u \in Users : Change(t, u)' = Change(t, u) /\ Grant(t)' = Grant(t)
    BY <1>2, <1>3, <1>5 DEF Change, Grant
  <2> QED
    BY <1>1, <1>2, <1>4, <1>5, <2>1 DEF HeldRowsAreAhead
<1> QED
  BY <1>6, <1>7

\* Commits and rollbacks.
LEMMA BetCommitKeepsLedgerInv ==
  ASSUME IInv, LedgerInv, NEW s \in Sessions, PlaceBetCommits(s)
  PROVE  LedgerInv'
<1> DEFINE row == [user |-> job[s].user, outcome |-> job[s].outcome, stake |-> job[s].amount,
                   payout |-> computePotentialPayout(job[s].amount, OddsOf[job[s].outcome]),
                   status |-> "pending"]
<1>1. /\ pc[s] = "betCommit" /\ Publish(s) /\ EndTx(s)
      /\ bets' = [bets EXCEPT ![job[s].bet] = row] /\ row.status = "pending"
  BY DEF PlaceBetCommits
<1> HIDE DEF row
<1>2. job[s].bet \in BetIds /\ bets[job[s].bet].status = "none"
  BY <1>1 DEF IInv, JobsOK
<1>3. /\ \A b \in BetIds : b # job[s].bet => bets'[b] = bets[b]
      /\ bets'[job[s].bet].status = "pending"
  BY <1>1, <1>2 DEF IInv, TypeOK
<1>4. UnusedIdsAreFree'
  BY <1>3 DEF LedgerInv, UnusedIdsAreFree
<1>5. \A t \in Sessions, b \in BetIds : t # s /\ work[t].status[b] # "none" => bets'[b] = bets[b]
  BY <1>2, <1>3 DEF IInv, ListOK
<1>6. \A u \in Users : walletLock[u] # s => wallet'[u] = wallet[u] /\ journal'[u] = journal[u]
  BY <1>1 DEF Publish
<1> QED
  BY <1>1, <1>4, <1>5, <1>6, EndKeepsLedgerInv

\* Nothing happens to bets when an adjustment commits or anyone rolls back.
LEMMA AdjustEndKeepsLedgerInv ==
  ASSUME IInv, LedgerInv, NEW s \in Sessions, AdjustCommits(s) \/ Rollback(s)
  PROVE  LedgerInv'
<1>1. EndTx(s) /\ bets' = bets
  BY DEF AdjustCommits, Rollback, db
<1>2. \A u \in Users : walletLock[u] # s => wallet'[u] = wallet[u] /\ journal'[u] = journal[u]
  BY DEF AdjustCommits, Rollback, Publish, db
<1>3. UnusedIdsAreFree'
  BY <1>1 DEF LedgerInv, UnusedIdsAreFree
<1> QED
  BY <1>1, <1>2, <1>3, EndKeepsLedgerInv

\* A bet has one settlement working on it: two would hold the same market.
LEMMA DecidedByOne ==
  ASSUME IInv, NEW s \in Sessions, NEW t \in Sessions, NEW b \in BetIds,
         work[s].status[b] # "none", work[t].status[b] # "none"
  PROVE  s = t
<1>1. /\ pc[s] = "setPay" /\ pc[t] = "setPay" /\ bets[b].outcome \in Outcomes
      /\ EventOfBet(b) = job[s].event /\ EventOfBet(b) = job[t].event
  BY DEF IInv, ListOK, BetRowsOK
<1>2. MarketOf[bets[b].outcome] \in Markets
  BY <1>1, ConstantsOK
<1>3. marketLock[MarketOf[bets[b].outcome]] = s /\ marketLock[MarketOf[bets[b].outcome]] = t
  BY <1>1, <1>2 DEF IInv, MarketsHeld, EventOfBet
<1> QED
  BY <1>3

\* A settlement commits its own bets only.
LEMMA SettleCommitKeepsLedgerInv ==
  ASSUME IInv, LedgerInv, NEW s \in Sessions, SettleCommits(s)
  PROVE  LedgerInv'
<1>1. Publish(s) /\ EndTx(s) /\ bets' = Rows(s)
  BY DEF SettleCommits
<1>2. \A b \in BetIds : /\ work[s].status[b] = "none" => bets'[b] = bets[b]
                        /\ bets'[b].status = IF work[s].status[b] = "none" THEN bets[b].status
                                                                          ELSE work[s].status[b]
  BY <1>1, RowsTyped DEF Rows
<1>3. UnusedIdsAreFree'
  BY <1>2 DEF LedgerInv, UnusedIdsAreFree
<1>4. \A t \in Sessions, b \in BetIds : t # s /\ work[t].status[b] # "none" => bets'[b] = bets[b]
  BY <1>2, DecidedByOne
<1>5. \A u \in Users : walletLock[u] # s => wallet'[u] = wallet[u] /\ journal'[u] = journal[u]
  BY <1>1 DEF Publish
<1> QED
  BY <1>1, <1>3, <1>4, <1>5, EndKeepsLedgerInv

\* A settlement is started, by the worker or by an administrator.
LEMMA StartKeepsLedgerInv ==
  ASSUME IInv, LedgerInv, NEW s \in Sessions, NEW e, NEW plan, StartSettle(s, e, plan)
  PROVE  LedgerInv'
<1>1. /\ pc[s] = "idle" /\ pc' = [pc EXCEPT ![s] = "setMarkets"]
      /\ job' = [job EXCEPT ![s] = Args(None, None, 0, e, plan)]
      /\ UNCHANGED <<wallet, journal, bets, walletLock, work>>
  BY DEF StartSettle, db, locks
<1>2. /\ pc'[s] = "setMarkets" /\ \A t \in Sessions : t # s => pc'[t] = pc[t] /\ job'[t] = job[t]
  BY <1>1 DEF IInv, TypeOK
<1> QED
  BY <1>1, <1>2, AsideKeepsLedgerInv DEF BetPC

\* Every step keeps the uncommitted rows in line with the committed ones.
LEMMA NextKeepsLedgerInv == IInv /\ LedgerInv /\ [Next]_vars => LedgerInv'
<1> SUFFICES ASSUME IInv, LedgerInv, [Next]_vars PROVE LedgerInv'
  OBVIOUS
<1>1. ASSUME NEW s \in Sessions, Step(s) PROVE LedgerInv'
  <2>1. CASE PlaceBetDebits(s)
    BY <2>1, DebitKeepsLedgerInv
  <2>2. CASE AdjustMoves(s)
    BY <2>2, AdjustMovesKeepsLedgerInv
  <2>3. CASE \E b \in BetIds : SettleMarksLost(s, b) \/ SettleCredits(s, b)
    BY <2>3, LostKeepsLedgerInv, CreditKeepsLedgerInv
  <2>4. CASE PlaceBetCommits(s) \/ AdjustCommits(s) \/ SettleCommits(s)
    BY <2>4, BetCommitKeepsLedgerInv, AdjustEndKeepsLedgerInv, SettleCommitKeepsLedgerInv
  <2>5. CASE PlaceBetRefused(s) \/ AdjustRefused(s)
    BY <2>5, AdjustEndKeepsLedgerInv DEF PlaceBetRefused, AdjustRefused
  <2>6. CASE PlaceBetReadsEvent(s)
    <3>1. /\ pc[s] = "betEvent" /\ pc' = [pc EXCEPT ![s] = "betWallet"] /\ job' = job
          /\ UNCHANGED <<wallet, journal, bets, walletLock, work>>
      BY <2>6 DEF PlaceBetReadsEvent, db, locks
    <3>2. job[s].amount \in BetMin..BetMax
      BY <3>1 DEF LedgerInv, StakesInRange, BetPC
    <3>3. pc'[s] = "betWallet" /\ \A t \in Sessions : t # s => pc'[t] = pc[t]
      BY <3>1 DEF IInv, TypeOK
    <3> QED
      BY <3>1, <3>2, <3>3, AsideKeepsLedgerInv
  <2>7. CASE SettleLocksMarket(s)
    BY <2>7, AsideKeepsLedgerInv DEF SettleLocksMarket, db
  <2>8. CASE SettleListsBets(s)
    <3>1. /\ pc[s] = "setMarkets" /\ pc' = [pc EXCEPT ![s] = "setPay"]
          /\ UNCHANGED <<wallet, journal, bets, walletLock, work>>
          /\ \A t \in Sessions : t # s => job'[t] = job[t]
      BY <2>8 DEF SettleListsBets, db, locks, IInv, TypeOK
    <3>2. pc'[s] = "setPay" /\ \A t \in Sessions : t # s => pc'[t] = pc[t]
      BY <3>1 DEF IInv, TypeOK
    <3> QED
      BY <3>1, <3>2, AsideKeepsLedgerInv DEF BetPC
  <2> QED
    BY <1>1, <2>1, <2>2, <2>3, <2>4, <2>5, <2>6, <2>7, <2>8 DEF Step
<1>2. ASSUME NEW s \in Requests, Request(s) PROVE LedgerInv'
  <2>0. s \in Sessions
    BY DEF Sessions
  <2>1. ASSUME NEW u \in Users, NEW o \in Outcomes, NEW stake \in Stakes,
               PlaceBetReadsMarket(s, u, o, stake)
        PROVE  LedgerInv'
    <3>1. /\ pc[s] = "idle" /\ pc' = [pc EXCEPT ![s] = "betEvent"]
          /\ job' = [job EXCEPT ![s] = Args(u, o, stake, None, NoPlan)]
          /\ BetMin <= stake /\ stake <= BetMax
          /\ UNCHANGED <<wallet, journal, bets, walletLock, work>>
      BY <2>1 DEF PlaceBetReadsMarket, db, locks
    <3>2. stake \in BetMin..BetMax
      BY <3>1, ConstantsOK
    <3>3. /\ pc'[s] = "betEvent" /\ job'[s].amount = stake
          /\ \A t \in Sessions : t # s => pc'[t] = pc[t] /\ job'[t] = job[t]
      BY <2>0, <3>1 DEF IInv, TypeOK, Args
    <3> QED
      BY <3>1, <3>2, <3>3, AsideKeepsLedgerInv
  <2>2. ASSUME NEW u \in Users, NEW amount \in Amounts, AdjustBalance(s, u, amount)
        PROVE  LedgerInv'
    <3>1. /\ pc[s] = "idle" /\ pc' = [pc EXCEPT ![s] = "adjWallet"]
          /\ job' = [job EXCEPT ![s] = Args(u, None, amount, None, NoPlan)]
          /\ UNCHANGED <<wallet, journal, bets, walletLock, work>>
      BY <2>2 DEF AdjustBalance, db, locks
    <3>2. /\ pc'[s] = "adjWallet"
          /\ \A t \in Sessions : t # s => pc'[t] = pc[t] /\ job'[t] = job[t]
      BY <2>0, <3>1 DEF IInv, TypeOK
    <3> QED
      BY <3>1, <3>2, AsideKeepsLedgerInv DEF BetPC
  <2>3. ASSUME NEW e, NEW plan, StartSettle(s, e, plan) PROVE LedgerInv'
    BY <2>0, <2>3, StartKeepsLedgerInv
  <2> QED
    BY <1>2, <2>1, <2>2, <2>3
    DEF Request, PlaceRequest, AdjustRequest, AdminCancels, AdminSettlesCustom, AdminEntersScores
<1>3. ASSUME NEW e \in Events, WorkerSettles(e) PROVE LedgerInv'
  BY <1>3, StartKeepsLedgerInv DEF WorkerSettles, Sessions
<1>4. ASSUME NEW s \in Sessions, DeadlockVictim(s) \/ Fault(s) PROVE LedgerInv'
  BY <1>4, AdjustEndKeepsLedgerInv DEF DeadlockVictim, Fault
<1>5. CASE UNCHANGED <<db, session>>
  BY <1>5, AsideKeepsLedgerInv DEF db, session
<1>6. ASSUME NEW e \in Events, WorkerSkips(e) \/ Kickoff(e) PROVE LedgerInv'
  BY <1>5, <1>6 DEF WorkerSkips, Kickoff
<1>7. CASE WorkerLists \/ UNCHANGED vars
  BY <1>5, <1>7 DEF WorkerLists, vars
<1> QED
  BY <1>1, <1>2, <1>3, <1>4, <1>6, <1>7 DEF Next

\* Initially no transaction is open.
LEMMA InitLedgerInv == Init => LedgerInv
<1> SUFFICES ASSUME Init PROVE LedgerInv
  OBVIOUS
<1>1. UnusedIdsAreFree /\ StakesInRange
  BY DEF Init, UnusedIdsAreFree, StakesInRange, BetPC
<1>2. OwnWalletHeld /\ HeldRowsAreAhead
  BY ConstantsOK DEF Init, OwnWalletHeld, HeldRowsAreAhead
<1> QED
  BY <1>1, <1>2 DEF LedgerInv

-----------------------------------------------------------------------------
(* Every commit is a step of the ledger.                                   *)

\* The bets as the ledger sees them.
Book == [b \in BetIds |-> [user   |-> bets[b].user,   stake  |-> bets[b].stake,
                           payout |-> bets[b].payout, status |-> bets[b].status]]

\* A winner gets at least the stake back.
LEMMA PayoutCoversStake ==
  ASSUME NEW stake \in Nat, NEW odds \in Nat, odds > 1000
  PROVE  computePotentialPayout(stake, odds) >= stake
<1> DEFINE product == stake * odds
<1>1. product \in Nat /\ product >= 1000 * stake
  OBVIOUS
<1> HIDE DEF product
<1>2. product < 1000 * ((product \div 1000) + 1) /\ product \div 1000 \in Nat
  BY <1>1
<1>3. product \div 1000 >= stake
  BY <1>1, <1>2
<1> QED
  BY <1>3 DEF product, computePotentialPayout

\* The commit of a bet places it.
LEMMA BetCommitIsPlace ==
  ASSUME IInv, LedgerInv, IInv', NEW s \in Sessions, PlaceBetCommits(s)
  PROVE  Ledger!Next
<1>0. PICK b \in BetIds : b = job[s].bet
  BY DEF PlaceBetCommits, IInv, JobsOK
<1>1. PICK u \in Users : u = job[s].user
  BY DEF PlaceBetCommits, IInv, JobsOK, BetPC
<1>2. /\ pc[s] = "betCommit" /\ Publish(s) /\ walletLock[u] = s
      /\ \A v \in Users : v # u => walletLock[v] # s
      /\ bets[b].status = "none" /\ job[s].outcome \in Outcomes
      /\ job[s].amount \in BetMin..BetMax /\ job[s].amount \in Nat
  <2>1. pc[s] = "betCommit" /\ Publish(s)
    BY DEF PlaceBetCommits
  <2> QED
    BY <1>0, <1>1, <2>1 DEF LedgerInv, OwnWalletHeld, StakesInRange, IInv, JobsOK, BetPC
<1>3. /\ bets'[b].user = u /\ bets'[b].stake = job[s].amount /\ bets'[b].status = "pending"
      /\ bets'[b].payout = computePotentialPayout(job[s].amount, OddsOf[job[s].outcome])
      /\ \A c \in BetIds : c # b => bets'[c] = bets[c]
  BY <1>0, <1>1 DEF PlaceBetCommits, IInv, TypeOK
<1>4. bets'[b].payout >= bets'[b].stake
  BY <1>2, <1>3, PayoutCoversStake, ConstantsOK
<1>5. /\ work[s].wallet[u] = wallet[u] - job[s].amount
      /\ Granted(work[s].journal[u]) = Granted(journal[u])
      /\ wallet[u] \in Nat /\ work[s].wallet[u] \in Nat
  <2>1. /\ wallet[u] \in Nat /\ work[s].wallet[u] \in Nat /\ journal[u] \in Seq(Entry)
    BY DEF IInv, TypeOK, Work
  <2>2. Change(s, u) = -job[s].amount /\ Grant(s) = 0
    BY <1>2 DEF Change, Grant
  <2>3. /\ work[s].wallet[u] = wallet[u] + (-job[s].amount)
        /\ Granted(work[s].journal[u]) = Granted(journal[u]) + 0
    BY <1>2, <2>2 DEF LedgerInv, HeldRowsAreAhead
  <2>4. Granted(journal[u]) \in Int
    BY <2>1, GrantedIsInt
  <2> QED
    BY <1>2, <2>1, <2>3, <2>4
<1>6. /\ wallet' = [wallet EXCEPT ![u] = @ - job[s].amount]
      /\ \A v \in Users : Granted(journal'[v]) = Granted(journal[v])
  BY <1>2, <1>5 DEF Publish, IInv, TypeOK
<1>7. Book[b] = [user |-> None, stake |-> 0, payout |-> 0, status |-> "none"]
  <2>1. bets[b] = NoBet
    BY <1>2 DEF LedgerInv, UnusedIdsAreFree
  <2> QED
    BY <2>1 DEF Book, NoBet
<1>8. /\ Book'[b].user = u /\ Book'[b].status = "pending"
      /\ Book'[b].stake = job[s].amount
      /\ Book'[b].payout >= Book'[b].stake
  BY <1>3, <1>4 DEF Book
<1>9. Book' = [Book EXCEPT ![b] = Book'[b]]
  <2>1. \A c \in BetIds : c # b => Book'[c] = Book[c]
    BY <1>3 DEF Book
  <2>2. Book = [c \in BetIds |-> Book[c]] /\ Book' = [c \in BetIds |-> Book'[c]]
    BY DEF Book
  <2> QED
    BY <2>1, <2>2
<1>10. /\ wallet' = [wallet EXCEPT ![u] = @ - Book'[b].stake]
       /\ Book'[b].stake \in BetMin..BetMax /\ Book'[b].stake <= wallet[u]
  BY <1>2, <1>5, <1>6, <1>8, ConstantsOK
<1>11. [v \in Users |-> Granted(journal'[v])] = [v \in Users |-> Granted(journal[v])]
  BY <1>6
<1>12. Ledger!Place(b, u)
  BY <1>7, <1>8, <1>9, <1>10, <1>11 DEF Ledger!Place, Ledger!Free, Book
<1> QED
  BY <1>12 DEF Ledger!Next

\* The commit of an adjustment grants.
LEMMA AdjustCommitIsAdjust ==
  ASSUME IInv, LedgerInv, NEW s \in Sessions, AdjustCommits(s)
  PROVE  Ledger!Next
<1>1. PICK u \in Users : u = job[s].user
  BY DEF AdjustCommits, IInv, JobsOK, AdjustPC
<1>2. /\ pc[s] = "adjCommit" /\ Publish(s) /\ walletLock[u] = s /\ bets' = bets
      /\ \A v \in Users : v # u => walletLock[v] # s
  <2>1. pc[s] = "adjCommit" /\ Publish(s) /\ bets' = bets
    BY DEF AdjustCommits
  <2> QED
    BY <1>1, <2>1 DEF LedgerInv, OwnWalletHeld
<1>3. /\ work[s].wallet[u] = wallet[u] + job[s].amount
      /\ Granted(work[s].journal[u]) = Granted(journal[u]) + job[s].amount
  <2>1. Change(s, u) = job[s].amount /\ Grant(s) = job[s].amount
    BY <1>2 DEF Change, Grant
  <2> QED
    BY <1>2, <2>1 DEF LedgerInv, HeldRowsAreAhead
<1>4. /\ wallet[u] \in Nat /\ work[s].wallet[u] \in Nat /\ job[s].amount \in Int
      /\ Granted(journal[u]) \in Int
  <2>1. /\ wallet[u] \in Nat /\ work[s].wallet[u] \in Nat /\ journal[u] \in Seq(Entry)
        /\ job[s].amount \in Int
    BY DEF IInv, TypeOK, Work, Job
  <2> QED
    BY <2>1, GrantedIsInt
<1>5. /\ wallet'[u] = work[s].wallet[u] /\ journal'[u] = work[s].journal[u]
      /\ \A v \in Users : v # u => wallet'[v] = wallet[v] /\ journal'[v] = journal[v]
      /\ wallet' = [v \in Users |-> wallet'[v]]
  BY <1>2 DEF Publish
<1> DEFINE grants == [v \in Users |-> Granted(journal[v])]
<1>6. /\ grants' = [grants EXCEPT ![u] = grants'[u]]
      /\ wallet' = [wallet EXCEPT ![u] = @ + (grants'[u] - grants[u])]
      /\ wallet'[u] >= 0
  <2>1. grants'[u] - grants[u] = job[s].amount
    BY <1>3, <1>4, <1>5
  <2>2. \A v \in Users : v # u => grants'[v] = grants[v]
    BY <1>5
  <2>3. wallet'[u] = wallet[u] + job[s].amount /\ wallet'[u] >= 0
    BY <1>3, <1>4, <1>5
  <2>4. wallet \in [Users -> Nat]
    BY DEF IInv, TypeOK
  <2>5. grants' = [grants EXCEPT ![u] = grants'[u]]
    BY <2>2
  <2> HIDE DEF grants
  <2> QED
    BY <1>5, <2>1, <2>3, <2>4, <2>5
<1>7. Ledger!Adjust(u)
  BY <1>2, <1>6 DEF Ledger!Adjust
<1> QED
  BY <1>7 DEF Ledger!Next

\* The commit of a settlement decides the bets it listed and credits each owner
\* with what they are worth; without pending bets it is no step of the ledger.
LEMMA SettleCommitIsDecide ==
  ASSUME IInv, LedgerInv, NEW s \in Sessions, SettleCommits(s)
  PROVE  Ledger!Next \/ UNCHANGED Ledger!ledger
<1>0. PICK D \in SUBSET BetIds : D = {b \in BetIds : work[s].status[b] # "none"}
  OBVIOUS
<1>1. pc[s] = "setPay" /\ Publish(s) /\ bets' = Rows(s)
  BY DEF SettleCommits
<1>2. \A u \in Users : /\ wallet'[u] = wallet[u] + CreditedTo(s, u)
                       /\ Granted(journal'[u]) = Granted(journal[u])
  <2> SUFFICES ASSUME NEW u \in Users
               PROVE  /\ wallet'[u] = wallet[u] + CreditedTo(s, u)
                      /\ Granted(journal'[u]) = Granted(journal[u])
    OBVIOUS
  <2>1. wallet[u] \in Nat /\ Granted(journal[u]) \in Int
    BY GrantedIsInt DEF IInv, TypeOK
  <2>2. Change(s, u) = CreditedTo(s, u) /\ Grant(s) = 0
    BY <1>1 DEF Change, Grant
  <2> QED
    BY <1>1, <2>1, <2>2 DEF Publish, LedgerInv, HeldRowsAreAhead
<1>3. \A b \in BetIds :
        /\ b \notin D => Book'[b] = Book[b]
        /\ b \in D => /\ Book[b].status = "pending"
                      /\ Book'[b].status \in {"won", "lost", "void"}
                      /\ Book'[b] = [Book[b] EXCEPT !.status = Book'[b].status]
  <2> SUFFICES ASSUME NEW b \in BetIds
               PROVE  /\ b \notin D => Book'[b] = Book[b]
                      /\ b \in D => /\ Book[b].status = "pending"
                                    /\ Book'[b].status \in {"won", "lost", "void"}
                                    /\ Book'[b] = [Book[b] EXCEPT !.status = Book'[b].status]
    OBVIOUS
  <2>1. /\ bets'[b].user = bets[b].user /\ bets'[b].stake = bets[b].stake
        /\ bets'[b].payout = bets[b].payout
        /\ bets'[b].status = IF work[s].status[b] = "none" THEN bets[b].status
                                                          ELSE work[s].status[b]
    BY <1>1, RowsTyped
  <2>2. b \in D => bets[b].status = "pending" /\ work[s].status[b] \in Results
    BY <1>0 DEF IInv, ListOK, TypeOK, Work
  <2> QED
    BY <1>0, <2>1, <2>2 DEF Book, Results
<1>4. \A u \in Users :
        CreditedTo(s, u) = SumFunctionOnSet([b \in D |-> Ledger!Worth(Book'[b])],
                                            {b \in D : Book[b].user = u})
  <2> SUFFICES ASSUME NEW u \in Users
               PROVE  CreditedTo(s, u) = SumFunctionOnSet([b \in D |-> Ledger!Worth(Book'[b])],
                                                          {b \in D : Book[b].user = u})
    OBVIOUS
  <2> DEFINE T == {b \in D : Book[b].user = u}
             f == [b \in BetIds |-> Ledger!Worth(Rows(s)[b])]
             g == [b \in D |-> Ledger!Worth(Book'[b])]
  <2>1. T = {b \in BetIds : work[s].status[b] # "none" /\ bets[b].user = u}
    BY <1>0 DEF Book
  <2>2. \A b \in T : f[b] = g[b]
    BY <1>1 DEF Book, Ledger!Worth
  <2>3. IsFiniteSet(T)
    BY BetIdsFinite
  <2>4. CreditedTo(s, u) = SumFunctionOnSet(f, T)
    BY <2>1 DEF CreditedTo
  <2> HIDE DEF T, f, g
  <2>5. SumFunctionOnSet(f, T) = SumFunctionOnSet(g, T)
    BY <2>2, <2>3, SumSame
  <2> QED
    BY <2>4, <2>5 DEF T, g
<1>5. CASE D = {}
  <2>1. \A u \in Users : CreditedTo(s, u) = 0
    BY <1>0, <1>5, NothingDecided
  <2>2. wallet' = wallet
    BY <1>1, <1>2, <2>1 DEF Publish, IInv, TypeOK
  <2>3. Book' = Book
    BY <1>3, <1>5 DEF Book
  <2>4. [u \in Users |-> Granted(journal'[u])] = [u \in Users |-> Granted(journal[u])]
    BY <1>2
  <2> QED
    BY <2>2, <2>3, <2>4 DEF Ledger!ledger, Book
<1>6. CASE D # {}
  <2>1. Book' = [b \in BetIds |-> IF b \in D THEN Book'[b] ELSE Book[b]]
    BY <1>3 DEF Book
  <2>2. wallet' = [u \in Users |-> wallet[u] +
                     Ledger!SumFunctionOnSet([b \in D |-> Ledger!Worth(Book'[b])],
                                             {b \in D : Book[b].user = u})]
    <3>1. wallet' = [u \in Users |-> wallet'[u]]
      BY <1>1 DEF Publish
    <3> QED
      BY <1>2, <1>4, <3>1, SameSums
  <2>3. [u \in Users |-> Granted(journal'[u])] = [u \in Users |-> Granted(journal[u])]
    BY <1>2
  <2>4. Ledger!Decide(D)
    BY <1>3, <1>6, <2>1, <2>2, <2>3 DEF Ledger!Decide, Book
  <2> QED
    BY <2>4 DEF Ledger!Next
<1> QED
  BY <1>5, <1>6

\* Every other statement, fault and wait leaves the ledger alone.
LEMMA StepIsLedgerStep ==
  ASSUME IInv, IInv', LedgerInv, [Next]_vars
  PROVE  [Ledger!Next]_(Ledger!ledger)
<1>1. CASE UNCHANGED <<wallet, journal, bets>>
  BY <1>1 DEF Ledger!ledger
<1>2. ASSUME NEW s \in Sessions, Step(s) PROVE [Ledger!Next]_(Ledger!ledger)
  <2>1. CASE PlaceBetCommits(s)
    BY <2>1, BetCommitIsPlace
  <2>2. CASE AdjustCommits(s)
    BY <2>2, AdjustCommitIsAdjust
  <2>3. CASE SettleCommits(s)
    BY <2>3, SettleCommitIsDecide
  <2>4. CASE PlaceBetDebits(s)
    BY <1>1, <2>4, DebitIsMove DEF db
  <2>5. CASE AdjustMoves(s)
    BY <1>1, <2>5, AdjustIsMove DEF db
  <2>6. ASSUME NEW b \in BetIds, SettleCredits(s, b) PROVE UNCHANGED <<wallet, journal, bets>>
    BY <2>6, CreditIsMove DEF db
  <2>7. ASSUME NEW b \in BetIds, SettleMarksLost(s, b) PROVE UNCHANGED <<wallet, journal, bets>>
    BY <2>7, MarksLostIsStatus DEF db
  <2>8. CASE \/ PlaceBetRefused(s) \/ AdjustRefused(s) \/ PlaceBetReadsEvent(s)
             \/ SettleLocksMarket(s) \/ SettleListsBets(s)
    BY <1>1, <2>8 DEF PlaceBetRefused, AdjustRefused, PlaceBetReadsEvent, SettleLocksMarket,
                      SettleListsBets, Rollback, db
  <2> QED
    BY <1>1, <1>2, <2>1, <2>2, <2>3, <2>4, <2>5, <2>6, <2>7, <2>8 DEF Step
<1>3. ASSUME NEW s \in Requests, Request(s) PROVE UNCHANGED db
  BY <1>3 DEF Request, PlaceRequest, AdjustRequest, PlaceBetReadsMarket, AdjustBalance,
              AdminCancels, AdminSettlesCustom, AdminEntersScores, StartSettle
<1>4. ASSUME NEW e \in Events, WorkerSettles(e) \/ WorkerSkips(e) \/ Kickoff(e)
      PROVE  UNCHANGED db
  BY <1>4 DEF WorkerSettles, StartSettle, WorkerSkips, Kickoff
<1>5. ASSUME NEW s \in Sessions, DeadlockVictim(s) \/ Fault(s) PROVE UNCHANGED db
  BY <1>5 DEF DeadlockVictim, Fault, Rollback
<1>6. CASE WorkerLists \/ UNCHANGED vars
  BY <1>1, <1>6 DEF WorkerLists, vars, db
<1> QED
  BY <1>1, <1>2, <1>3, <1>4, <1>5, <1>6 DEF Next, db

\* Everybody starts with the bonus, no bets and no grants.
LEMMA InitIsLedgerInit == Init => Ledger!Init
<1> SUFFICES ASSUME Init PROVE Ledger!Init
  OBVIOUS
<1>1. ASSUME NEW u \in Users PROVE Granted(journal[u]) = 0
  <2> DEFINE j == journal[u]
             f == [i \in DOMAIN j |-> IF j[i].type = "admin_adjust" THEN j[i].amount ELSE 0]
  <2>1. DOMAIN j = {1} /\ j[1].type = "signup_bonus"
    BY DEF Init
  <2>2. \A i \in {1} : f[i] = 0
    BY <2>1
  <2>3. IsFiniteSet({1})
    BY FS_Singleton
  <2>4. Granted(j) = SumFunctionOnSet(f, {1})
    BY <2>1 DEF Granted, SumFunction
  <2> HIDE DEF f, j
  <2>5. SumFunctionOnSet(f, {1}) = 0
    BY <2>2, <2>3, SumOfZeros
  <2> QED
    BY <2>4, <2>5 DEF j
<1> QED
  BY <1>1 DEF Init, Ledger!Init, Ledger!Free, NoBet

\* Whatever is interleaved, rolled back or retried, committed money moves as the
\* ledger promises: a bet with its stake, a set of decided bets with all their
\* credits, a grant, each in one step (ImplementsLedger).
THEOREM LedgerImplemented == Spec => ImplementsLedger
<1>1. Init => LedgerInv /\ Ledger!Init
  BY InitLedgerInv, InitIsLedgerInit
<1>2. IInv /\ LedgerInv /\ [Next]_vars => LedgerInv'
  BY NextKeepsLedgerInv
<1>3. IInv /\ IInv' /\ LedgerInv /\ [Next]_vars => [Ledger!Next]_(Ledger!ledger)
  BY StepIsLedgerStep
<1> QED
  BY <1>1, <1>2, <1>3, Invariant, PTL DEF Spec, ImplementsLedger, Ledger!Spec

\* The same of every behaviour that starts between two transactions with bets
\* already placed, as the run of the deadlocks does: nothing but the invariants is
\* asked of the first state (EveryCommitIsALedgerStep).
THEOREM CommitsAreLedgerSteps ==
  IInv /\ LedgerInv /\ [][Next]_vars => EveryCommitIsALedgerStep
<1>1. IInv /\ LedgerInv /\ [Next]_vars => IInv' /\ LedgerInv'
  BY NextKeepsIInv, NextKeepsLedgerInv
<1>2. IInv /\ IInv' /\ LedgerInv /\ [Next]_vars => [Ledger!Next]_(Ledger!ledger)
  BY StepIsLedgerStep
<1> QED
  BY <1>1, <1>2, PTL DEF EveryCommitIsALedgerStep
=============================================================================
