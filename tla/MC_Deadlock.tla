----------------------------- MODULE MC_Deadlock -----------------------------
(***************************************************************************)
(* A match and a poll, two bettors with a bet on each, placed in opposite  *)
(* orders: the settlements want the two wallets in opposite orders, and    *)
(* the administrator may settle the poll by any outcome, of another event  *)
(* as well.  The run starts at kickoff, with the four bets committed.      *)
(***************************************************************************)
EXTENDS BetSettlementRefinement, TLC

CONSTANTS u1, u2, match, poll, homeWin, yes

MCSourceOf == match :> "oddsapi" @@ poll :> "custom"
MCEventOf  == 1 :> match @@ 2 :> poll
MCTypeOf   == 1 :> "ML" @@ 2 :> "CUSTOM"
MCLineOf   == [m \in 1..2 |-> NULL]
MCMarketOf == homeWin :> 1 @@ yes :> 2
MCCodeOf   == homeWin :> "home" @@ yes :> "opt"
MCOddsOf   == homeWin :> 2000 @@ yes :> 1500
MCScores   == {<<1, 0>>}

Placed == << <<u1, homeWin>>, <<u2, yes>>, <<u2, homeWin>>, <<u1, yes>> >>

Stake(b, after) == [type |-> "bet_stake", amount |-> -1, bet |-> b, after |-> after]

PlacedInit ==
  /\ wallet = [u \in Users |-> 0]
  /\ bets = [b \in BetIds |->
       [user |-> Placed[b][1], outcome |-> Placed[b][2], stake |-> 1,
        payout |-> computePotentialPayout(1, OddsOf[Placed[b][2]]), status |-> "pending"]]
  /\ journal = [u \in Users |->
       << [type |-> "signup_bonus", amount |-> SignupBonus, bet |-> None, after |-> SignupBonus] >>
       \o IF u = u1 THEN << Stake(1, 1), Stake(4, 0) >>
                     ELSE << Stake(2, 1), Stake(3, 0) >>]
  /\ betSeq = 4
  /\ marketStatus = [m \in Markets |-> "open"]
  /\ outcomeResult = [o \in Outcomes |-> "none"]
  /\ eventStatus = [e \in Events |-> "upcoming"]
  /\ started = [e \in Events |-> TRUE]
  /\ pc = [s \in Sessions |-> "idle"]
  /\ job = [s \in Sessions |-> NoJob]
  /\ work = [s \in Sessions |-> NoWork]
  /\ walletLock = [u \in Users |-> None]
  /\ marketLock = [m \in Markets |-> None]
  /\ queue = {}
  /\ faults = 0

PlacedSpec == PlacedInit /\ [][Next]_vars /\ Fairness

\* Both bets on the provider's match (1 and 3) are decided by the worker, after
\* any deadlock, fault or skipped run; those on the poll wait for a decision of an
\* administrator, who need not come (SettlementWorker.Run, applyPlan).
PendingBetsAreDecided == BetIsDecided(1) /\ BetIsDecided(3)
=============================================================================
