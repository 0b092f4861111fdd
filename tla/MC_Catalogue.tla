---------------------------- MODULE MC_Catalogue ----------------------------
(***************************************************************************)
(* Two administrators and one visitor, two leagues, one match of the       *)
(* provider and two of their own.  The requests hold, for each operation,  *)
(* one that can succeed and the ones that are refused.                     *)
(***************************************************************************)
EXTENDS Catalogue, TLC

NewLeague(name, sport)   == [do |-> "CreateLeague", name |-> name, sport |-> sport]
Rename(l, name)          == [do |-> "EditLeague", id |-> l, name |-> name, sport |-> NULL]
Drop(l)                  == [do |-> "DeleteLeague", id |-> l]
NewOf(l, title, valid)   == [do |-> "CreateMatch", league |-> l, title |-> title, valid |-> valid]
Change(e, l, title, valid) == [do |-> "EditMatch", id |-> e, league |-> l, title |-> title, valid |-> valid]
Mark(e, on)              == [do |-> "SetFeatured", id |-> e, on |-> on]
Live(e)                  == [do |-> "SetMatchStatus", id |-> e]
CallOff(e)               == [do |-> "CancelMatch", id |-> e]
Score(e, result, valid)  == [do |-> "SetMatchScores", id |-> e, result |-> result, valid |-> valid]

MCRequests ==
  {NewLeague("Cup", "football"), NewLeague("", "football"),
   Rename(1, "Final"), Rename(1, ""), Drop(1), Drop(2), Drop(0),
   NewOf(1, "Cup", TRUE), NewOf(1, "", TRUE), NewOf(1, "Cup", FALSE),
   Change(2, 2, NULL, TRUE), Change(2, NULL, "Final", TRUE), Change(1, NULL, NULL, TRUE),
   Mark(1, TRUE), Mark(0, TRUE),
   Live(1), Live(2), CallOff(0), CallOff(2), Score(2, "won", TRUE), Score(2, "won", FALSE)}

Filter(status, l, featured) == [status |-> status, league |-> l, featured |-> featured]

MCFilters == {Filter("", NULL, FALSE), Filter("settled", 1, FALSE), Filter("over", NULL, FALSE),
              Filter("", NULL, TRUE), Filter("", 0, FALSE)}

Symmetric == Permutations(Admins)
=============================================================================
