---------------------------- MODULE FanticLedger ----------------------------
(***************************************************************************)
(* What the platform promises about fantics, whatever the code does in     *)
(* between: a wallet changes only together with the thing that justifies   *)
(* the change, in one indivisible step.  A bet is placed and its stake     *)
(* taken in one step; a set of pending bets is decided and every owner     *)
(* credited in one step; an administrator grants (or takes back) fantics   *)
(* of one wallet.  A decided bet is never decided again and no balance is  *)
(* ever negative.                                                          *)
(*                                                                         *)
(* This is the promise behind architecture.md section 4 and conventions    *)
(* section 8; BetSettlement is checked to implement it.                    *)
(***************************************************************************)
EXTENDS Integers, Functions

CONSTANTS Users, BetIds, NoUser, SignupBonus, BetMin, BetMax

VARIABLES balance, book, granted

ledger == <<balance, book, granted>>

Free == [user |-> NoUser, stake |-> 0, payout |-> 0, status |-> "none"]

Worth(row) == CASE row.status = "won"  -> row.payout
                [] row.status = "void" -> row.stake
                [] OTHER               -> 0

Init ==
  /\ balance = [u \in Users |-> SignupBonus]
  /\ book = [b \in BetIds |-> Free]
  /\ granted = [u \in Users |-> 0]

Place(b, u) ==
  /\ book[b] = Free
  /\ book'[b].user = u /\ book'[b].status = "pending"
  /\ book'[b].stake \in BetMin..BetMax
  /\ book'[b].stake <= balance[u]
  /\ book'[b].payout >= book'[b].stake
  /\ book' = [book EXCEPT ![b] = book'[b]]
  /\ balance' = [balance EXCEPT ![u] = @ - book'[b].stake]
  /\ UNCHANGED granted

\* D is the set of bets the step decides.
Decide(D) ==
  /\ D # {}
  /\ \A b \in D : /\ book[b].status = "pending"
                  /\ book'[b].status \in {"won", "lost", "void"}
                  /\ book'[b] = [book[b] EXCEPT !.status = book'[b].status]
  /\ book' = [b \in BetIds |-> IF b \in D THEN book'[b] ELSE book[b]]
  /\ balance' = [u \in Users |->
       balance[u] + SumFunctionOnSet([b \in D |-> Worth(book'[b])],
                                     {b \in D : book[b].user = u})]
  /\ UNCHANGED granted

Adjust(u) ==
  /\ granted' = [granted EXCEPT ![u] = granted'[u]]
  /\ balance' = [balance EXCEPT ![u] = @ + (granted'[u] - granted[u])]
  /\ balance'[u] >= 0
  /\ UNCHANGED book

Next ==
  \/ \E b \in BetIds, u \in Users : Place(b, u)
  \/ \E D \in SUBSET BetIds : Decide(D)
  \/ \E u \in Users : Adjust(u)

Spec == Init /\ [][Next]_ledger
=============================================================================
