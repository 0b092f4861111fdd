----------------------------- MODULE Catalogue -----------------------------
(***************************************************************************)
(* Leagues, the description of matches, and the public catalogue of events *)
(* (internal/handler/admin.go and event.go, internal/service/              *)
(* admin_service.go and event_service.go, internal/repository/league.go    *)
(* and event.go): administrators create, rename and delete leagues and     *)
(* attach matches to them while visitors read pages of the catalogue with  *)
(* three statements.  Going live and ending a match take two steps each,   *)
(* the look at the event and the transaction; the statements of the latter *)
(* are those of MatchDesk and BetSettlement.  A match has one market with  *)
(* one outcome, which stand for all of them.                               *)
(***************************************************************************)
EXTENDS Integers, FiniteSets

CONSTANTS
  NULL,
  Admins,         \* sessions of administrators
  Visitors,       \* requests of visitors
  MaxLeague,      \* bound: ids of leagues
  Matches,        \* ids of events
  Imported,       \* those of them that come from the provider
  Names,          \* names of leagues and titles of matches, none empty
  Sports,
  Requests,       \* what administrators send
  Filters,        \* what visitors write behind /events?
  PageSize

ASSUME CatalogueConstantsOK ==
  /\ MaxLeague \in Nat /\ PageSize \in Nat
  /\ Matches \subseteq Nat \ {0} /\ Imported \subseteq Matches
  /\ NULL \notin Nat \cup Names \cup Sports
  /\ \E s \in Sports : TRUE
  /\ \E n \in Names : TRUE

\* What a decoded request may hold; NULL stands for a field left out.
ASSUME RequestsOK ==
  \A r \in Requests :
    /\ r.do = "CreateLeague" => r.name \in Names \cup {""} /\ r.sport \in Sports \cup {""}
    /\ r.do = "EditLeague"   => /\ r.id \in Int
                                /\ r.name \in Names \cup {"", NULL} /\ r.sport \in Sports \cup {"", NULL}
    /\ r.do = "DeleteLeague" => r.id \in Int
    /\ r.do = "CreateMatch"  => r.league \in Int /\ r.title \in Names \cup {""} /\ r.valid \in BOOLEAN
    /\ r.do = "EditMatch"    => /\ r.id \in Int /\ r.league \in Int \cup {NULL}
                                /\ r.title \in Names \cup {"", NULL} /\ r.valid \in BOOLEAN
    /\ r.do = "SetFeatured"  => r.id \in Int /\ r.on \in BOOLEAN
    /\ r.do \in {"SetMatchStatus", "CancelMatch", "SetMatchScores"} => r.id \in Int
    /\ r.do = "SetMatchScores" => r.valid \in BOOLEAN /\ r.result \in {"won", "lost", "void"}

VARIABLES
  league,     \* rows of leagues
  leagueSeq,  \* last id given
  called,     \* names a league has had, kept for a property
  match,      \* rows of events, with their market and its outcome
  tx,         \* of each administrator: the row written and not yet committed
  session,    \* of each administrator: the request it is in
  visit       \* of each visitor: the page it is being given

vars == <<league, leagueSeq, called, match, tx, session, visit>>

Leagues == 1..MaxLeague
League == [name : Names, sport : Sports]

Statuses == {"upcoming", "live", "settled", "cancelled"}
Match ==
  [source : {"manual", "oddsapi"}, sport : Sports, league : Leagues \cup {NULL},
   leagueName : Names \cup {NULL}, title : Names, status : Statuses, scored : BOOLEAN,
   featured : BOOLEAN, market : {"open", "suspended", "settled", "void"}, result : {NULL, "won", "lost", "void"}]

\* NULL is no row, and nothing a market or an outcome can say.
ASSUME NullIsNoRow == NULL \notin League \cup Match \cup [id : Matches, row : Match]
ASSUME NullSaysNothing == NULL \notin {"open", "suspended", "settled", "void", "won", "lost"}

Idle    == [at |-> "idle", req |-> NULL, row |-> NULL]
NoVisit == [at |-> "idle", page |-> NULL]

FromProvider ==
  [source |-> "oddsapi", sport |-> CHOOSE s \in Sports : TRUE, league |-> NULL, leagueName |-> NULL,
   title |-> CHOOSE n \in Names : TRUE, status |-> "upcoming", scored |-> FALSE,
   featured |-> FALSE, market |-> "suspended", result |-> NULL]

Init ==
  /\ league = [l \in Leagues |-> NULL] /\ leagueSeq = 0
  /\ called = [l \in Leagues |-> {}]
  /\ match = [e \in Matches |-> IF e \in Imported THEN FromProvider ELSE NULL]
  /\ tx = [a \in Admins |-> NULL]
  /\ session = [a \in Admins |-> Idle]
  /\ visit = [v \in Visitors |-> NoVisit]

-----------------------------------------------------------------------------
(***************************************************************************)
(* Pieces of requests.                                                     *)
(***************************************************************************)
\* The answer to a request is not kept: a request refused before it has changed
\* or waited for anything is no step at all.
Answers(a) == session' = [session EXCEPT ![a] = Idle]

Goes(a, at, r, row) == session' = [session EXCEPT ![a] = [at |-> at, req |-> r, row |-> row]]

Free(a, r, do) == session[a].at = "idle" /\ r.do = do

\* parseAdminID.
BadID(id) == id <= 0

\* What the handlers let through to the service: an id in the path, and a body
\* with the fields its tags require (the service looks at them once more).
LeagueDecoded(r) ==
  /\ r.do = "CreateLeague" => r.name # "" /\ r.sport # ""
  /\ r.do \in {"EditLeague", "DeleteLeague"} => ~BadID(r.id)

MatchDecoded(r) ==
  /\ r.do = "CreateMatch" => r.title # "" /\ ~BadID(r.league)
  /\ r.do \in {"EditMatch", "SetFeatured", "SetMatchStatus", "CancelMatch", "SetMatchScores"} =>
       ~BadID(r.id)

LeagueRow(l) == IF l \in Leagues THEN league[l] ELSE NULL
MatchRow(e)  == IF e \in Matches THEN match[e] ELSE NULL

LeaguesKeep == UNCHANGED <<league, leagueSeq, called>>
OnlySession == LeaguesKeep /\ UNCHANGED <<match, tx, visit>>

\* A row that another transaction has written is locked until it ends.
RowLocked(e) == \E a \in Admins : tx[a] # NULL /\ tx[a].id = e

\* A row that refers to a league keeps it locked against deletion until it is
\* committed (FOR KEY SHARE of the foreign key).
LeagueLocked(l) == \E a \in Admins : tx[a] # NULL /\ tx[a].row.league = l

MutantNoForeignKey(l) == FALSE

\* events.league_id REFERENCES leagues(id), without a cascade.
Referenced(l) == \E e \in Matches : match[e] # NULL /\ match[e].league = l

-----------------------------------------------------------------------------
(***************************************************************************)
(* Leagues.                                                                *)
(***************************************************************************)
CreateLeague(a, r) ==
  /\ Free(a, r, "CreateLeague") /\ LeagueDecoded(r)
  /\ leagueSeq < MaxLeague
  /\ leagueSeq' = leagueSeq + 1
  /\ league' = [league EXCEPT ![leagueSeq'] = [name |-> r.name, sport |-> r.sport]]
  /\ called' = [called EXCEPT ![leagueSeq'] = @ \cup {r.name}]
  /\ UNCHANGED <<match, tx, session, visit>>

Given(new, old) == IF new = NULL THEN old ELSE new

\* What is not given stays.  The copies of the name in events stay as well.
EditLeague(a, r) ==
  /\ Free(a, r, "EditLeague") /\ LeagueDecoded(r)
  /\ r.name # "" /\ r.sport # ""
  /\ LeagueRow(r.id) # NULL
  /\ league' = [league EXCEPT ![r.id] = [name |-> Given(r.name, @.name), sport |-> Given(r.sport, @.sport)]]
  /\ called' = [called EXCEPT ![r.id] = @ \cup {league'[r.id].name}]
  /\ UNCHANGED <<leagueSeq, match, tx, session, visit>>

\* The count sees committed events only; the DELETE is a statement of its own.
DeleteLeague(a, r) ==
  /\ Free(a, r, "DeleteLeague") /\ LeagueDecoded(r)
  /\ ~Referenced(r.id)
  /\ Goes(a, "delete", r, NULL)
  /\ OnlySession

\* A league that has got an event since is kept by the foreign key, and the
\* error is none that mapErr knows; a league that is gone is not found.
Deletes(a) ==
  LET l == session[a].req.id
  IN  /\ session[a].at = "delete" /\ ~LeagueLocked(l)
      /\ league' = IF Referenced(l) \/ LeagueRow(l) = NULL THEN league
                                                         ELSE [league EXCEPT ![l] = NULL]
      /\ Answers(a)
      /\ UNCHANGED <<leagueSeq, called, match, tx, visit>>

-----------------------------------------------------------------------------
(***************************************************************************)
(* Matches: the league is read before the transaction, whose one row is    *)
(* visible when it commits.                                                *)
(***************************************************************************)
\* Bound of the model: there is an id left for every match being created.
MatchLeft ==
  Cardinality({a \in Admins : session[a].at # "idle" /\ session[a].req.do = "CreateMatch"})
    < Cardinality({e \in Matches : match[e] = NULL})

\* The league is looked up before the match is validated.
CreateMatch(a, r) ==
  /\ Free(a, r, "CreateMatch") /\ MatchDecoded(r)
  /\ LeagueRow(r.league) # NULL
  /\ r.valid
  /\ MatchLeft
  /\ Goes(a, "insert", r, LeagueRow(r.league))
  /\ OnlySession

NewMatch(r, l) ==
  [source |-> "manual", sport |-> l.sport, league |-> r.league, leagueName |-> l.name,
   title |-> r.title, status |-> "upcoming", scored |-> FALSE, featured |-> FALSE,
   market |-> "open", result |-> NULL]

Write(a, e, row) ==
  /\ tx' = [tx EXCEPT ![a] = [id |-> e, row |-> row]]
  /\ session' = [session EXCEPT ![a].at = "commit"]

\* The foreign key refuses a league that has been deleted since.
Inserts(a) ==
  LET r == session[a].req
  IN  /\ session[a].at = "insert"
      /\ \/ /\ LeagueRow(r.league) = NULL
            /\ Answers(a) /\ UNCHANGED tx
         \/ /\ LeagueRow(r.league) # NULL
            /\ \E e \in Matches :
                 /\ match[e] = NULL /\ ~RowLocked(e)
                 /\ \A d \in Matches : d < e => match[d] # NULL \/ RowLocked(d)
                 /\ Write(a, e, NewMatch(r, session[a].row))
      /\ LeaguesKeep /\ UNCHANGED <<match, visit>>

\* Without a new league the league is not loaded; a cancellation is MatchDesk's.
EditMatch(a, r) ==
  /\ Free(a, r, "EditMatch") /\ MatchDecoded(r)
  /\ r.valid
  /\ MatchRow(r.id) # NULL
  /\ match[r.id].source = "manual" /\ match[r.id].status = "upcoming"
  /\ Goes(a, IF r.league = NULL THEN "update" ELSE "load", r, NULL)
  /\ OnlySession

LoadsLeague(a) ==
  LET r == session[a].req
  IN  /\ session[a].at = "load"
      /\ IF LeagueRow(r.league) = NULL THEN Answers(a)
                                       ELSE Goes(a, "update", r, LeagueRow(r.league))
      /\ OnlySession

MutantKeepsName(old, r, l) ==
  IF r.league = NULL THEN old ELSE [old EXCEPT !.league = r.league]

\* UpdateMatch: the league with the copy of its name; of the request's title
\* nothing is passed on, and the sport stays.
Edited(old, r, l) ==
  IF r.league = NULL THEN old ELSE [old EXCEPT !.league = r.league, !.leagueName = l.name]

\* An UPDATE sets its columns in the row as it is once the lock is free.
Updates(a) ==
  LET r == session[a].req
  IN  /\ session[a].at = "update" /\ ~RowLocked(r.id)
      /\ \/ /\ r.league # NULL /\ LeagueRow(r.league) = NULL
            /\ Answers(a) /\ UNCHANGED tx
         \/ /\ r.league = NULL \/ LeagueRow(r.league) # NULL
            /\ Write(a, r.id, Edited(match[r.id], r, session[a].row))
      /\ LeaguesKeep /\ UNCHANGED <<match, visit>>

Commits(a) ==
  /\ session[a].at = "commit"
  /\ match' = [match EXCEPT ![tx[a].id] = tx[a].row]
  /\ tx' = [tx EXCEPT ![a] = NULL]
  /\ Answers(a)
  /\ LeaguesKeep /\ UNCHANGED visit

MutantLeaksTx(a) == UNCHANGED tx

Released(a) == tx' = [tx EXCEPT ![a] = NULL]

\* An error of any statement, a later one of the transaction included.
Fails(a) ==
  /\ session[a].at \in {"delete", "insert", "load", "update", "feature", "live", "end", "commit"}
  /\ Released(a) /\ Answers(a)
  /\ LeaguesKeep /\ UNCHANGED <<match, visit>>

SetFeatured(a, r) ==
  /\ Free(a, r, "SetFeatured") /\ MatchDecoded(r)
  /\ MatchRow(r.id) # NULL
  /\ Goes(a, "feature", r, NULL)
  /\ OnlySession

Features(a) ==
  LET r == session[a].req
  IN  /\ session[a].at = "feature" /\ ~RowLocked(r.id)
      /\ match' = [match EXCEPT ![r.id].featured = r.on]
      /\ Answers(a)
      /\ LeaguesKeep /\ UNCHANGED <<tx, visit>>

-----------------------------------------------------------------------------
(***************************************************************************)
(* The course of a match: the status is read without a lock, and a later   *)
(* transaction writes by id, whatever the status is by then.  All it       *)
(* writes becomes visible at once.                                         *)
(***************************************************************************)
ManualIn(e, statuses) ==
  MatchRow(e) # NULL /\ match[e].source = "manual" /\ match[e].status \in statuses

SetMatchStatus(a, r) ==
  /\ Free(a, r, "SetMatchStatus") /\ MatchDecoded(r)
  /\ ManualIn(r.id, {"upcoming"})
  /\ Goes(a, "live", r, NULL)
  /\ OnlySession

CancelMatch(a, r) ==
  /\ Free(a, r, "CancelMatch") /\ MatchDecoded(r)
  /\ ManualIn(r.id, {"upcoming", "live"})
  /\ Goes(a, "end", r, NULL)
  /\ OnlySession

\* valid: no side has less than no goals.
SetMatchScores(a, r) ==
  /\ Free(a, r, "SetMatchScores") /\ MatchDecoded(r)
  /\ r.valid
  /\ ManualIn(r.id, {"upcoming", "live"}) /\ ~match[r.id].scored
  /\ Goes(a, "end", r, NULL)
  /\ OnlySession

\* Results and scores stay.
Suspended(old) == [old EXCEPT !.status = "live", !.market = "suspended"]

Ended(old, r) ==
  IF r.do = "CancelMatch"
    THEN [old EXCEPT !.status = "cancelled", !.scored = FALSE, !.market = "void", !.result = "void"]
    ELSE [old EXCEPT !.status = "settled", !.scored = TRUE, !.market = "settled", !.result = r.result]

Overwrites(a, at, row) ==
  LET e == session[a].req.id
  IN  /\ session[a].at = at /\ ~RowLocked(e)
      /\ match' = [match EXCEPT ![e] = row]
      /\ Answers(a)
      /\ LeaguesKeep /\ UNCHANGED <<tx, visit>>

GoesLive(a) == Overwrites(a, "live", Suspended(match[session[a].req.id]))
Ends(a)     == Overwrites(a, "end", Ended(match[session[a].req.id], session[a].req))

-----------------------------------------------------------------------------
(***************************************************************************)
(* The public catalogue: events, then their markets, then their outcomes,  *)
(* each statement with a snapshot of its own.                              *)
(***************************************************************************)
Gives(v, at, page) == visit' = [visit EXCEPT ![v] = [at |-> at, page |-> page]]

DbStays == LeaguesKeep /\ UNCHANGED <<match, tx, session>>

\* An unknown status, or a league that is no id.
BadFilter(f) ==
  \/ f.status \notin Statuses \cup {""}
  \/ f.league # NULL /\ BadID(f.league)

\* ListWithFilters: without a status the feed leaves out what is over.
Listed(f) ==
  {e \in Matches :
     /\ match[e] # NULL
     /\ IF f.status = "" THEN match[e].status \notin {"settled", "cancelled"}
                         ELSE match[e].status = f.status
     /\ f.league = NULL \/ match[e].league = f.league
     /\ f.featured => match[e].featured}

StatusOf(E) == [e \in E |-> [status |-> match[e].status, market |-> NULL, result |-> NULL]]

\* Which PageSize events of the list the page shows, and in what order, is open.
ListEvents(v, f) ==
  /\ visit[v].at = "idle" /\ ~BadFilter(f)
  /\ \E E \in SUBSET Listed(f) :
       E # {} /\ Cardinality(E) <= PageSize /\ Gives(v, "markets", StatusOf(E))
  /\ DbStays

GetEvent(v, e) ==
  /\ visit[v].at = "idle"
  /\ MatchRow(e) # NULL
  /\ Gives(v, "markets", StatusOf({e}))
  /\ DbStays

ReadsMarkets(v) ==
  /\ visit[v].at = "markets"
  /\ LET page == visit[v].page
     IN  Gives(v, "outcomes", [e \in DOMAIN page |-> [page[e] EXCEPT !.market = match[e].market]])
  /\ DbStays

MutantRefreshes(page) ==
  [e \in DOMAIN page |-> [page[e] EXCEPT !.result = match[e].result, !.status = match[e].status]]

WithOutcomes(page) == [e \in DOMAIN page |-> [page[e] EXCEPT !.result = match[e].result]]

ReadsOutcomes(v) ==
  /\ visit[v].at = "outcomes"
  /\ Gives(v, "shown", WithOutcomes(visit[v].page))
  /\ DbStays

Leaves(v) ==
  /\ visit[v].at = "shown"
  /\ Gives(v, "idle", NULL)
  /\ DbStays

-----------------------------------------------------------------------------
Asks(a) ==
  \E r \in Requests :
    \/ CreateLeague(a, r) \/ EditLeague(a, r) \/ DeleteLeague(a, r)
    \/ CreateMatch(a, r) \/ EditMatch(a, r) \/ SetFeatured(a, r)
    \/ SetMatchStatus(a, r) \/ CancelMatch(a, r) \/ SetMatchScores(a, r)

Steps(a) ==
  \/ Deletes(a) \/ Inserts(a) \/ LoadsLeague(a) \/ Updates(a)
  \/ Commits(a) \/ Features(a) \/ GoesLive(a) \/ Ends(a)

Next ==
  \/ \E a \in Admins : Asks(a) \/ Steps(a) \/ Fails(a)
  \/ \E v \in Visitors :
       \/ \E f \in Filters : ListEvents(v, f)
       \/ \E e \in Matches : GetEvent(v, e)
       \/ ReadsMarkets(v) \/ ReadsOutcomes(v) \/ Leaves(v)

Spec == Init /\ [][Next]_vars

\* A request that has been taken up goes on, and one that waits for a row gets
\* it: PostgreSQL queues those who wait.  Nothing makes a request fail.
FairSpec ==
  /\ Spec
  /\ \A a \in Admins : SF_vars(Steps(a))
  /\ \A v \in Visitors : WF_vars(ReadsMarkets(v)) /\ WF_vars(ReadsOutcomes(v))

-----------------------------------------------------------------------------
(***************************************************************************)
(* Properties.                                                             *)
(***************************************************************************)

\* Every variable keeps its type, and a transaction with a written row belongs
\* to a request that is about to commit.
TypeOK ==
  /\ leagueSeq \in 0..MaxLeague
  /\ league \in [Leagues -> League \cup {NULL}]
  /\ called \in [Leagues -> SUBSET Names]
  /\ match \in [Matches -> Match \cup {NULL}]
  /\ tx \in [Admins -> [id : Matches, row : Match] \cup {NULL}]
  /\ session \in [Admins -> [at  : {"idle", "delete", "insert", "load", "update", "feature", "live", "end",
                                   "commit"},
                            req : Requests \cup {NULL}, row : League \cup {NULL}]]
  /\ \A a \in Admins : session[a].at = "commit" <=> tx[a] # NULL

\* No match ever refers to a league that is gone, although DeleteLeague counts
\* the matches with one statement and deletes with another, and CreateMatch and
\* EditMatch load the league before their transaction (admin_service.go:399-413,
\* 486-508, 606-617): the foreign key and its lock close both windows.
NoMatchLosesItsLeague ==
  \A e \in Matches : match[e] # NULL /\ match[e].league # NULL => LeagueRow(match[e].league) # NULL

\* The copy of a league's name that a match carries is a name that very league
\* has had, whoever renames leagues and moves matches meanwhile (event.go:192-197:
\* the name is never set without the league).
MatchCarriesItsLeaguesName ==
  \A e \in Matches : match[e] # NULL /\ match[e].league # NULL => match[e].leagueName \in called[match[e].league]

\* A statement of a page never lags behind the one before it, whatever commits
\* between them: a match is shown with its markets, none of them open once it is shown
\* as started, and with the result of every outcome once it is shown as over or its
\* market as decided (event_service.go:69-145).  A match shown as over may come with a
\* suspended market: a SetMatchStatus that saw it upcoming has taken it to live between
\* the statements.  EventSync, which is not in this module, takes a provider's match to
\* live without its markets.
PageDoesNotLag ==
  \A v \in Visitors : visit[v].at = "shown" =>
    \A e \in DOMAIN visit[v].page :
      LET shown == visit[v].page[e]
      IN  /\ shown.market # NULL
          /\ shown.status # "upcoming" => shown.market # "open"
          /\ shown.status \in {"settled", "cancelled"} \/ shown.market \in {"settled", "void"}
               => shown.result # NULL

\* What EditMatch promises (admin_service.go:576, "правит title/..."): when an
\* edit that gives a title succeeds, the match has that title.
TitleIsEdited ==
  [][\A a \in Admins :
       Commits(a) /\ session[a].req.do = "EditMatch" /\ session[a].req.title # NULL
         => match'[session[a].req.id].title = session[a].req.title]_vars
=============================================================================
