---------------------------- MODULE MC_MatchDesk ----------------------------
(***************************************************************************)
(* A match with a winner market and a whole totals line, a custom event,   *)
(* and a match that must not be created: its totals market has no line.    *)
(* An edit lists outcomes of the match and of the custom event, last     *)
(* first, so in the order opposite to applyPlan.                           *)
(***************************************************************************)
EXTENDS MatchDesk, TLC

CONSTANTS derby, poll, lineless

Sources    == derby :> "manual" @@ poll :> "custom" @@ lineless :> "manual"
MCSourceOf == [e \in Events |-> Sources[e]]
MCEventOf  == [m \in Markets |-> <<derby, derby, poll, lineless, lineless>>[m]]
MCTypeOf   == [m \in Markets |-> <<"ML", "TOTALS", "CUSTOM", "ML", "TOTALS">>[m]]
MCLineOf   == [m \in Markets |-> IF m = 2 THEN <<200>> ELSE NULL]
MCMarketOf == [o \in Outcomes |-> <<1, 2, 3, 3, 4, 5>>[o]]
MCCodeOf   == [o \in Outcomes |-> <<"home", "over", "opt", "opt", "home", "over">>[o]]
MCScores   == {<<2, 0>>, <<1, 2>>}
MCEdits    == {<<3, 2, 1>>}
=============================================================================
