---------------------- MODULE BetSettlementRefinement ----------------------
(***************************************************************************)
(* The statements of BetSettlement, interleaved as PostgreSQL allows, move *)
(* fantics only as FanticLedger does.                                      *)
(***************************************************************************)
EXTENDS BetSettlement, Functions

\* What the administrators granted according to a journal.
Granted(j) ==
  SumFunction([i \in DOMAIN j |-> IF j[i].type = "admin_adjust" THEN j[i].amount ELSE 0])

Ledger == INSTANCE FanticLedger WITH
  NoUser  <- None,
  balance <- wallet,
  book    <- [b \in BetIds |-> [user   |-> bets[b].user,   stake  |-> bets[b].stake,
                                payout |-> bets[b].payout, status |-> bets[b].status]],
  granted <- [u \in Users |-> Granted(journal[u])]

\* Every committed transaction of PlaceBet, AdjustBalance and applyPlan is one
\* step of the ledger (a bet placed and paid for, a set of pending bets decided
\* and credited, a grant) and every other step leaves the ledger alone.
ImplementsLedger == Ledger!Spec

\* The same of the steps alone, for runs that start with bets already placed:
\* overlapping settlements, a winning outcome of another event (SettleCustom does
\* not compare them) and rolled back ones move fantics by whole decisions only.
EveryCommitIsALedgerStep == [][Ledger!Next]_(Ledger!ledger)
=============================================================================
