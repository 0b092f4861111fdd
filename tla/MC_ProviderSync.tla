-------------------------- MODULE MC_ProviderSync ---------------------------
(***************************************************************************)
(* One match of one sport that may be postponed by a tick, two totals      *)
(* lines between which the final score lies, a bet on over.                *)
(***************************************************************************)
EXTENDS ProviderSync

CONSTANTS derby, football

MCSportOf == [m \in {derby} |-> football]
MCScores  == {<<2, 1>>}

Totals(hdp) ==
  <<<<[name |-> "totals", lines |-> <<[hdp |-> <<hdp>>, over |-> <<19000>>, under |-> <<19000>>]>>]>>>>

MCAnswers == {Totals(250), Totals(350)}
=============================================================================
