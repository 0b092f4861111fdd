-------------------------- MODULE Catalogue_proofs --------------------------
(***************************************************************************)
(* Proofs about Catalogue for any number of administrators, visitors,      *)
(* leagues and matches.  That no match loses its league needs the rows not *)
(* yet committed as well: they refer to leagues that are there, and their  *)
(* lock keeps them there until the commit.  That a match carries a name of *)
(* its league needs the name a request has loaded before its transaction.  *)
(* That a page does not lag has an invariant of its own further down.      *)
(***************************************************************************)
EXTENDS Catalogue, TLAPS

\* What a request has found before it waits: its event, and its league's name.
RequestsKnow ==
  \A a \in Admins :
    LET s == session[a]
    IN  /\ s.at = "insert" => /\ s.req \in Requests /\ s.req.do = "CreateMatch" /\ s.req.title # ""
                              /\ s.row \in League /\ s.req.league \in Leagues
                              /\ s.row.name \in called[s.req.league]
        /\ s.at \in {"load", "update"} =>
             /\ s.req \in Requests /\ s.req.do = "EditMatch"
             /\ s.req.id \in Matches /\ match[s.req.id] # NULL
        /\ s.at = "load" => s.req.league # NULL
        /\ s.at = "update" /\ s.req.league # NULL =>
             /\ s.row \in League /\ s.req.league \in Leagues
             /\ s.row.name \in called[s.req.league]
        /\ s.at = "feature" => /\ s.req \in Requests /\ s.req.do = "SetFeatured"
                               /\ s.req.id \in Matches /\ match[s.req.id] # NULL
        /\ s.at = "live" => s.req.id \in Matches /\ match[s.req.id] # NULL
        /\ s.at = "end" => /\ s.req \in Requests /\ s.req.do \in {"CancelMatch", "SetMatchScores"}
                           /\ s.req.id \in Matches /\ match[s.req.id] # NULL

LeaguesCalled == \A l \in Leagues : league[l] # NULL => league[l].name \in called[l]

\* A row refers to a league that is there, by a name that league has had.
Refers(row) ==
  row.league # NULL => /\ row.league \in Leagues /\ league[row.league] # NULL
                       /\ row.leagueName \in called[row.league]

RowsRefer ==
  /\ \A e \in Matches : match[e] # NULL => Refers(match[e])
  /\ \A a \in Admins : tx[a] # NULL => Refers(tx[a].row)

IInv == TypeOK /\ RequestsKnow /\ LeaguesCalled /\ RowsRefer

\* The invariant in the beginning.
LEMMA InitHolds == Init => IInv
PROOF
  <1> SUFFICES ASSUME Init PROVE IInv
    OBVIOUS
  <1> USE CatalogueConstantsOK, NullIsNoRow DEF Init, CatalogueConstantsOK
  <1>1. (CHOOSE s \in Sports : TRUE) \in Sports /\ (CHOOSE n \in Names : TRUE) \in Names
    OBVIOUS
  <1>2. FromProvider \in Match
    BY <1>1 DEF FromProvider, Match, Statuses
  <1>3. TypeOK
    BY <1>2 DEF TypeOK, Idle, Leagues
  <1>4. RequestsKnow
    BY DEF RequestsKnow, Idle
  <1>5. LeaguesCalled
    BY DEF LeaguesCalled
  <1>6. RowsRefer
    BY DEF RowsRefer, Refers, FromProvider
  <1>7. QED
    BY <1>3, <1>4, <1>5, <1>6 DEF IInv

\* A step that leaves the leagues and their names, or only adds to them, keeps
\* what the rows and the requests it does not touch say.
LEMMA CreateLeagueKeeps ==
  ASSUME IInv, NEW a \in Admins, NEW r \in Requests, CreateLeague(a, r)
  PROVE  IInv'
PROOF
  <1> USE CatalogueConstantsOK, NullIsNoRow, RequestsOK
      DEF CatalogueConstantsOK, RequestsOK, IInv, CreateLeague, LeagueDecoded, Free
  <1>0. /\ MaxLeague \in Nat /\ leagueSeq \in 0..MaxLeague
        /\ leagueSeq < MaxLeague /\ leagueSeq' = leagueSeq + 1
    BY DEF TypeOK
  <1>1. leagueSeq' \in Leagues /\ leagueSeq' \in 0..MaxLeague
    BY ONLY <1>0 DEF Leagues
  <1>2. [name |-> r.name, sport |-> r.sport] \in League
    BY DEF League
  <1>3. \A l \in Leagues : called[l] \subseteq called'[l] /\ (league[l] # NULL => league'[l] # NULL)
    BY <1>1, <1>2 DEF TypeOK
  <1>4. TypeOK'
    BY <1>1, <1>2 DEF TypeOK
  <1>5. RequestsKnow'
    BY <1>3 DEF RequestsKnow
  <1>6. LeaguesCalled'
    <2> SUFFICES ASSUME NEW l \in Leagues, league'[l] # NULL PROVE league'[l].name \in called'[l]
      BY DEF LeaguesCalled
    <2>1. CASE l = leagueSeq'
      BY <1>1, <2>1 DEF TypeOK
    <2>2. CASE l # leagueSeq'
      BY <1>1, <2>2 DEF TypeOK, LeaguesCalled
    <2>3. QED
      BY <2>1, <2>2
  <1>7. RowsRefer'
    BY <1>3 DEF RowsRefer, Refers
  <1>8. QED
    BY <1>4, <1>5, <1>6, <1>7

\* A league is given another name.
LEMMA EditLeagueKeeps ==
  ASSUME IInv, NEW a \in Admins, NEW r \in Requests, EditLeague(a, r)
  PROVE  IInv'
PROOF
  <1> USE CatalogueConstantsOK, NullIsNoRow, RequestsOK
      DEF CatalogueConstantsOK, RequestsOK, IInv, EditLeague, Free
  <1>1. r.id \in Leagues /\ league[r.id] \in League
    BY DEF TypeOK, LeagueRow
  <1> DEFINE row == [name |-> Given(r.name, league[r.id].name), sport |-> Given(r.sport, league[r.id].sport)]
  <1>2. row \in League
    BY <1>1 DEF League, Given
  <1>3. /\ league' = [league EXCEPT ![r.id] = row]
        /\ called' = [called EXCEPT ![r.id] = called[r.id] \cup {row.name}]
        /\ UNCHANGED <<leagueSeq, match, tx, session, visit>>
    BY <1>1 DEF TypeOK
  <1>4. row.name \in Names
    BY <1>2 DEF League
  <1> HIDE DEF row, EditLeague
  <1>5. \A l \in Leagues : called[l] \subseteq called'[l] /\ (league[l] # NULL => league'[l] # NULL)
    BY <1>1, <1>2, <1>3 DEF TypeOK
  <1>6. TypeOK'
    BY <1>1, <1>2, <1>3, <1>4 DEF TypeOK
  <1>7. RequestsKnow'
    BY <1>3, <1>5 DEF RequestsKnow
  <1>8. LeaguesCalled'
    BY <1>1, <1>2, <1>3 DEF LeaguesCalled, TypeOK
  <1>9. RowsRefer'
    BY <1>3, <1>5 DEF RowsRefer, Refers
  <1>10. QED
    BY <1>6, <1>7, <1>8, <1>9

\* A league's matches are counted.
LEMMA DeleteLeagueKeeps ==
  ASSUME IInv, NEW a \in Admins, NEW r \in Requests, DeleteLeague(a, r)
  PROVE  IInv'
PROOF
  <1> USE CatalogueConstantsOK, NullIsNoRow, RequestsOK
      DEF CatalogueConstantsOK, RequestsOK, IInv, DeleteLeague, Free, Goes, OnlySession, LeaguesKeep
  <1>1. TypeOK'
    BY DEF TypeOK
  <1>2. RequestsKnow'
    BY ZenonT(60) DEF RequestsKnow, TypeOK
  <1>3. LeaguesCalled' /\ RowsRefer'
    BY DEF LeaguesCalled, RowsRefer, Refers
  <1>4. QED
    BY <1>1, <1>2, <1>3

\* The one step that takes a league away: no committed row refers to it, and no
\* written one, whose lock the step waits for.
LEMMA DeletesKeeps ==
  ASSUME IInv, NEW a \in Admins, Deletes(a)
  PROVE  IInv'
PROOF
  <1> DEFINE l == session[a].req.id
  <1> USE CatalogueConstantsOK, NullIsNoRow
      DEF CatalogueConstantsOK, IInv, Deletes, Answers, Idle
  <1>1. TypeOK'
    BY DEF TypeOK, LeagueRow
  <1>2. RequestsKnow'
    BY DEF RequestsKnow, TypeOK
  <1>3. LeaguesCalled'
    BY DEF LeaguesCalled, TypeOK, LeagueRow
  <1>4. RowsRefer'
    <2>1. CASE league' = league
      BY <2>1 DEF RowsRefer, Refers
    <2>2. CASE ~Referenced(l) /\ league' = [league EXCEPT ![l] = NULL]
      BY <2>2 DEF RowsRefer, Refers, Referenced, LeagueLocked, TypeOK
    <2>3. QED
      BY <2>1, <2>2
  <1>5. QED
    BY <1>1, <1>2, <1>3, <1>4

\* A request about to commit, to delete or to end has nothing left to remember.
LEMMA OthersKnow ==
  ASSUME RequestsKnow, NEW a \in Admins, session'[a].at \in {"idle", "delete", "commit"},
         \A b \in Admins \ {a} : session'[b] = session[b],
         UNCHANGED called, UNCHANGED match
  PROVE  RequestsKnow'
PROOF
  BY DEF RequestsKnow

\* A match is asked for.
LEMMA CreateMatchKeeps ==
  ASSUME IInv, NEW a \in Admins, NEW r \in Requests, CreateMatch(a, r)
  PROVE  IInv'
PROOF
  <1> USE CatalogueConstantsOK, NullIsNoRow DEF CatalogueConstantsOK, IInv
  <1>1. /\ r.do = "CreateMatch" /\ r.title # "" /\ r.league \in Leagues
        /\ LeagueRow(r.league) = league[r.league] /\ league[r.league] \in League
    BY DEF TypeOK, LeagueRow, CreateMatch, MatchDecoded, Free
  <1>2. /\ session' = [session EXCEPT ![a] = [at |-> "insert", req |-> r, row |-> league[r.league]]]
        /\ session[a].at = "idle"
        /\ UNCHANGED <<league, leagueSeq, called, match, tx>>
    BY <1>1 DEF CreateMatch, Free, Goes, OnlySession, LeaguesKeep
  <1>3. TypeOK'
    BY <1>1, <1>2 DEF TypeOK
  <1>4. RequestsKnow'
    BY <1>1, <1>2 DEF RequestsKnow, TypeOK, LeaguesCalled
  <1>5. LeaguesCalled' /\ RowsRefer'
    BY <1>2 DEF LeaguesCalled, RowsRefer, Refers
  <1>6. QED
    BY <1>3, <1>4, <1>5

\* The row that is written refers to the league the request has loaded, and the
\* foreign key has seen that it is still there.
LEMMA InsertsKeeps ==
  ASSUME IInv, NEW a \in Admins, Inserts(a)
  PROVE  IInv'
PROOF
  <1> DEFINE r == session[a].req
             row == NewMatch(r, session[a].row)
  <1> USE CatalogueConstantsOK, NullIsNoRow DEF CatalogueConstantsOK, IInv
  <1>1. /\ r \in Requests /\ r.do = "CreateMatch" /\ r.title \in Names
        /\ r.league \in Leagues /\ session[a].row \in League
        /\ session[a].row.name \in called[r.league]
    BY RequestsOK DEF RequestsKnow, RequestsOK, Inserts
  <1>2. row \in Match /\ row.league = r.league /\ row.leagueName = session[a].row.name
    BY <1>1 DEF NewMatch, Match, League, Statuses
  <1> HIDE DEF row
  <1>3. CASE Answers(a) /\ UNCHANGED <<tx, league, leagueSeq, called, match, visit>> /\ session[a].at = "insert"
    <2>1. TypeOK'
      BY <1>3 DEF TypeOK, Answers, Idle
    <2>2. RequestsKnow'
      BY <1>3 DEF RequestsKnow, TypeOK, Answers, Idle
    <2>3. LeaguesCalled' /\ RowsRefer'
      BY <1>3 DEF LeaguesCalled, RowsRefer, Refers
    <2>4. QED
      BY <2>1, <2>2, <2>3
  <1>4. CASE /\ LeagueRow(r.league) # NULL
             /\ session[a].at = "insert"
             /\ \E e \in Matches : Write(a, e, row)
             /\ UNCHANGED <<league, leagueSeq, called, match, visit>>
    <2> HIDE DEF r
    <2>0. PICK e \in Matches : Write(a, e, row)
      BY <1>4
    <2>1. TypeOK'
      BY <1>2, <1>4, <2>0, SMTT(30) DEF TypeOK, Write
    <2>2. RequestsKnow'
      <3>1. session'[a].at = "commit" /\ \A b \in Admins \ {a} : session'[b] = session[b]
        BY <2>0 DEF Write, TypeOK
      <3>2. QED
        BY <1>4, <3>1, OthersKnow
    <2>3. Refers(row)
      BY <1>1, <1>2, <1>4 DEF Refers, LeagueRow
    <2>4. LeaguesCalled' /\ RowsRefer'
      BY <1>4, <2>0, <2>3 DEF LeaguesCalled, RowsRefer, Refers, Write, TypeOK
    <2>5. QED
      BY <2>1, <2>2, <2>4
  <1>5. QED
    BY <1>3, <1>4 DEF Inserts, LeaguesKeep, row

\* A match is to be edited.
LEMMA EditMatchKeeps ==
  ASSUME IInv, NEW a \in Admins, NEW r \in Requests, EditMatch(a, r)
  PROVE  IInv'
PROOF
  <1> USE CatalogueConstantsOK, NullIsNoRow, RequestsOK
      DEF CatalogueConstantsOK, RequestsOK, IInv, EditMatch, Free, Goes, OnlySession, LeaguesKeep
  <1>1. r.id \in Matches /\ match[r.id] # NULL
    BY DEF MatchRow
  <1>2. TypeOK'
    BY DEF TypeOK
  <1>3. RequestsKnow'
    BY <1>1, ZenonT(60) DEF RequestsKnow, TypeOK
  <1>4. LeaguesCalled' /\ RowsRefer'
    BY DEF LeaguesCalled, RowsRefer, Refers
  <1>5. QED
    BY <1>2, <1>3, <1>4

\* The league of an edited match is read.
LEMMA LoadsLeagueKeeps ==
  ASSUME IInv, NEW a \in Admins, LoadsLeague(a)
  PROVE  IInv'
PROOF
  <1> DEFINE r == session[a].req
  <1> USE CatalogueConstantsOK, NullIsNoRow DEF CatalogueConstantsOK, IInv
  <1>1. /\ session[a].at = "load" /\ r \in Requests /\ r.do = "EditMatch" /\ r.id \in Matches
        /\ match[r.id] # NULL
        /\ UNCHANGED <<league, leagueSeq, called, match, tx>>
    BY DEF RequestsKnow, LoadsLeague, OnlySession, LeaguesKeep
  <1>2. LeagueRow(r.league) # NULL => /\ r.league \in Leagues /\ LeagueRow(r.league) = league[r.league]
                                      /\ league[r.league] \in League
                                      /\ league[r.league].name \in called[r.league]
    BY DEF LeagueRow, TypeOK, LeaguesCalled
  <1>3. \/ session' = [session EXCEPT ![a] = Idle]
        \/ /\ LeagueRow(r.league) # NULL
           /\ session' = [session EXCEPT ![a] = [at |-> "update", req |-> r, row |-> league[r.league]]]
    BY <1>2 DEF LoadsLeague, Goes, Answers
  <1> HIDE DEF r
  <1>4. TypeOK'
    <2>1. CASE session' = [session EXCEPT ![a] = Idle]
      BY <1>1, <2>1 DEF TypeOK, Idle
    <2>2. CASE /\ LeagueRow(r.league) # NULL
               /\ session' = [session EXCEPT ![a] = [at |-> "update", req |-> r, row |-> league[r.league]]]
      BY <1>1, <1>2, <2>2 DEF TypeOK
    <2>3. QED
      BY <1>3, <2>1, <2>2
  <1>5. RequestsKnow'
    <2>1. CASE session' = [session EXCEPT ![a] = Idle]
      BY <1>1, <2>1 DEF RequestsKnow, TypeOK, Idle
    <2>2. CASE /\ LeagueRow(r.league) # NULL
               /\ session' = [session EXCEPT ![a] = [at |-> "update", req |-> r, row |-> league[r.league]]]
      <3>1. \A b \in Admins : session'[b] = IF b = a THEN [at |-> "update", req |-> r, row |-> league[r.league]]
                                                     ELSE session[b]
        BY <2>2 DEF TypeOK
      <3>2. /\ session'[a].at = "update" /\ session'[a].req = r /\ session'[a].row = league[r.league]
            /\ r \in Requests /\ r.do = "EditMatch" /\ r.id \in Matches /\ match'[r.id] # NULL
            /\ session'[a].row \in League /\ r.league \in Leagues
            /\ session'[a].row.name \in called'[r.league]
        BY <1>1, <1>2, <2>2, <3>1
      <3>3. \A b \in Admins \ {a} : session'[b] = session[b]
        BY <3>1
      <3>4. QED
        BY ONLY <1>1, <3>2, <3>3, RequestsKnow, ZenonT(60) DEF RequestsKnow
    <2>3. QED
      BY <1>3, <2>1, <2>2
  <1>6. LeaguesCalled' /\ RowsRefer'
    BY <1>1 DEF LeaguesCalled, RowsRefer, Refers
  <1>7. QED
    BY <1>4, <1>5, <1>6

\* An edited match is written.
LEMMA UpdatesKeeps ==
  ASSUME IInv, NEW a \in Admins, Updates(a)
  PROVE  IInv'
PROOF
  <1> DEFINE r == session[a].req
             row == Edited(match[r.id], r, session[a].row)
  <1> USE CatalogueConstantsOK, NullIsNoRow DEF CatalogueConstantsOK, IInv
  <1>1. /\ r \in Requests /\ r.id \in Matches /\ match[r.id] # NULL /\ match[r.id] \in Match
        /\ r.league # NULL => /\ r.league \in Leagues /\ session[a].row \in League
                              /\ session[a].row.name \in called[r.league]
    BY DEF RequestsKnow, Updates, TypeOK
  <1>2. row \in Match
    BY <1>1, ZenonT(60) DEF Edited, Match, League
  <1>3. CASE Answers(a) /\ UNCHANGED <<tx, league, leagueSeq, called, match, visit>> /\ session[a].at = "update"
    <2>1. TypeOK'
      BY <1>3 DEF TypeOK, Answers, Idle
    <2>2. RequestsKnow'
      BY <1>3, ZenonT(60) DEF RequestsKnow, TypeOK, Answers, Idle
    <2>3. LeaguesCalled' /\ RowsRefer'
      BY <1>3 DEF LeaguesCalled, RowsRefer, Refers
    <2>4. QED
      BY <2>1, <2>2, <2>3
  <1>4. CASE /\ r.league = NULL \/ LeagueRow(r.league) # NULL
             /\ Write(a, r.id, row)
             /\ UNCHANGED <<league, leagueSeq, called, match, visit>>
    <2>1. TypeOK'
      BY <1>1, <1>2, <1>4 DEF TypeOK, Write
    <2>2. RequestsKnow'
      <3>1. session'[a].at = "commit" /\ \A b \in Admins \ {a} : session'[b] = session[b]
        BY <1>4 DEF Write, TypeOK
      <3>2. QED
        BY <1>4, <3>1, OthersKnow
    <2>3. Refers(row)
      BY <1>1, <1>4, SMTT(30) DEF Refers, Edited, LeagueRow, RowsRefer, Match
    <2>4. LeaguesCalled' /\ RowsRefer'
      BY <1>4, <2>3 DEF LeaguesCalled, RowsRefer, Refers, Write, TypeOK
    <2>5. QED
      BY <2>1, <2>2, <2>4
  <1>5. QED
    BY <1>3, <1>4 DEF Updates, LeaguesKeep

\* A written match becomes visible.
LEMMA CommitsKeeps ==
  ASSUME IInv, NEW a \in Admins, Commits(a)
  PROVE  IInv'
PROOF
  <1> USE CatalogueConstantsOK, NullIsNoRow
      DEF CatalogueConstantsOK, IInv, Commits, LeaguesKeep, Answers, Idle
  <1>1. tx[a] \in [id : Matches, row : Match]
    BY DEF TypeOK
  <1>2. TypeOK'
    BY <1>1 DEF TypeOK
  <1>3. \A e \in Matches : match[e] # NULL => match'[e] # NULL
    BY <1>1 DEF TypeOK
  <1>4. RequestsKnow'
    BY <1>3 DEF RequestsKnow, TypeOK
  <1>5. LeaguesCalled' /\ RowsRefer'
    BY <1>1 DEF LeaguesCalled, RowsRefer, Refers, TypeOK
  <1>6. QED
    BY <1>2, <1>4, <1>5

\* A request fails.
LEMMA FailsKeeps ==
  ASSUME IInv, NEW a \in Admins, Fails(a)
  PROVE  IInv'
PROOF
  <1> USE CatalogueConstantsOK, NullIsNoRow
      DEF CatalogueConstantsOK, IInv, Fails, Released, LeaguesKeep, Answers, Idle
  <1>1. TypeOK'
    BY DEF TypeOK
  <1>2. RequestsKnow'
    BY DEF RequestsKnow, TypeOK
  <1>3. LeaguesCalled' /\ RowsRefer'
    BY DEF LeaguesCalled, RowsRefer, Refers, TypeOK
  <1>4. QED
    BY <1>1, <1>2, <1>3

\* A match is to be featured.
LEMMA SetFeaturedKeeps ==
  ASSUME IInv, NEW a \in Admins, NEW r \in Requests, SetFeatured(a, r)
  PROVE  IInv'
PROOF
  <1> USE CatalogueConstantsOK, NullIsNoRow, RequestsOK
      DEF CatalogueConstantsOK, RequestsOK, IInv, SetFeatured, Free, Goes, OnlySession, LeaguesKeep
  <1>1. r.id \in Matches /\ match[r.id] # NULL
    BY DEF MatchRow
  <1>2. TypeOK'
    BY DEF TypeOK
  <1>3. RequestsKnow'
    BY <1>1, ZenonT(60) DEF RequestsKnow, TypeOK
  <1>4. LeaguesCalled' /\ RowsRefer'
    BY DEF LeaguesCalled, RowsRefer, Refers
  <1>5. QED
    BY <1>2, <1>3, <1>4

\* A match is to go live.
LEMMA SetMatchStatusKeeps ==
  ASSUME IInv, NEW a \in Admins, NEW r \in Requests, SetMatchStatus(a, r)
  PROVE  IInv'
PROOF
  <1> USE CatalogueConstantsOK, NullIsNoRow, RequestsOK
      DEF CatalogueConstantsOK, RequestsOK, IInv, SetMatchStatus, Free, Goes, OnlySession, LeaguesKeep
  <1>1. r.id \in Matches /\ match[r.id] # NULL
    BY DEF ManualIn, MatchRow
  <1>2. TypeOK'
    BY DEF TypeOK
  <1>3. RequestsKnow'
    BY <1>1, ZenonT(60) DEF RequestsKnow, TypeOK
  <1>4. LeaguesCalled' /\ RowsRefer'
    BY DEF LeaguesCalled, RowsRefer, Refers
  <1>5. QED
    BY <1>2, <1>3, <1>4

\* A match is to be called off, or its score is to be entered.
LEMMA EndsAskedKeeps ==
  ASSUME IInv, NEW a \in Admins, NEW r \in Requests, CancelMatch(a, r) \/ SetMatchScores(a, r)
  PROVE  IInv'
PROOF
  <1> USE CatalogueConstantsOK, NullIsNoRow DEF CatalogueConstantsOK, IInv
  <1>1. /\ r.id \in Matches /\ match[r.id] # NULL
        /\ r.do \in {"CancelMatch", "SetMatchScores"} /\ session[a].at = "idle"
        /\ session' = [session EXCEPT ![a] = [at |-> "end", req |-> r, row |-> NULL]]
        /\ UNCHANGED <<league, leagueSeq, called, match, tx>>
    BY DEF CancelMatch, SetMatchScores, ManualIn, MatchRow, Free, Goes, OnlySession, LeaguesKeep
  <1>2. TypeOK'
    BY <1>1 DEF TypeOK
  <1>3. RequestsKnow'
    BY <1>1, ZenonT(60) DEF RequestsKnow, TypeOK
  <1>4. LeaguesCalled' /\ RowsRefer'
    BY <1>1 DEF LeaguesCalled, RowsRefer, Refers
  <1>5. QED
    BY <1>2, <1>3, <1>4

\* A step that changes columns of one event other than its league.
LEMMA ColumnsKeep ==
  ASSUME IInv, NEW e \in Matches, match[e] # NULL, NEW row \in Match,
         row.league = match[e].league, row.leagueName = match[e].leagueName,
         match' = [match EXCEPT ![e] = row], UNCHANGED <<league, leagueSeq, called, tx>>
  PROVE  /\ match' \in [Matches -> Match \cup {NULL}]
         /\ \A d \in Matches : match[d] # NULL => match'[d] # NULL
         /\ LeaguesCalled' /\ RowsRefer'
PROOF
  <1> USE NullIsNoRow DEF IInv
  <1>1. /\ match' \in [Matches -> Match \cup {NULL}]
        /\ \A d \in Matches : match[d] # NULL => match'[d] # NULL
    BY DEF TypeOK
  <1>2. LeaguesCalled' /\ RowsRefer'
    BY DEF LeaguesCalled, RowsRefer, Refers, TypeOK
  <1>3. QED
    BY <1>1, <1>2

\* A match is featured.
LEMMA FeaturesKeeps ==
  ASSUME IInv, NEW a \in Admins, Features(a)
  PROVE  IInv'
PROOF
  <1> DEFINE r == session[a].req
             row == [match[r.id] EXCEPT !.featured = r.on]
  <1> USE CatalogueConstantsOK, NullIsNoRow DEF CatalogueConstantsOK, IInv
  <1>1. /\ r \in Requests /\ r.do = "SetFeatured" /\ r.id \in Matches
        /\ match[r.id] # NULL /\ match[r.id] \in Match
    BY DEF RequestsKnow, Features, TypeOK
  <1>2. row \in Match /\ row.league = match[r.id].league /\ row.leagueName = match[r.id].leagueName
    BY <1>1, RequestsOK DEF Match, RequestsOK
  <1>3. /\ match' = [match EXCEPT ![r.id] = row] /\ UNCHANGED <<league, leagueSeq, called, tx, visit>>
        /\ session[a].at = "feature" /\ session' = [session EXCEPT ![a] = Idle]
    BY DEF Features, LeaguesKeep, Answers
  <1> HIDE DEF row
  <1>4. /\ match' \in [Matches -> Match \cup {NULL}]
        /\ \A d \in Matches : match[d] # NULL => match'[d] # NULL
        /\ LeaguesCalled' /\ RowsRefer'
    BY <1>1, <1>2, <1>3, ColumnsKeep
  <1>5. TypeOK'
    BY <1>3, <1>4 DEF TypeOK, Idle
  <1>6. RequestsKnow'
    BY <1>3, <1>4 DEF RequestsKnow, TypeOK, Idle
  <1>7. QED
    BY <1>4, <1>5, <1>6

\* A match goes live or ends: the row stays of its type, in its league.
LEMMA CourseOfARow ==
  ASSUME IInv, NEW a \in Admins, GoesLive(a) \/ Ends(a)
  PROVE  \E e \in Matches, row \in Match :
           /\ match[e] # NULL /\ match[e] \in Match /\ ~RowLocked(e)
           /\ row.league = match[e].league /\ row.leagueName = match[e].leagueName
           /\ \/ row.status = "live" /\ row.market = "suspended" /\ row.result = match[e].result
              \/ row.market \in {"settled", "void"} /\ row.result \in {"won", "lost", "void"}
           /\ session' = [session EXCEPT ![a] = Idle]
           /\ session[a].at \in {"live", "end"}
           /\ match' = [match EXCEPT ![e] = row]
           /\ UNCHANGED <<league, leagueSeq, called, tx, visit>>
PROOF
  <1> PICK r, e : r = session[a].req /\ e = r.id
    OBVIOUS
  <1>1. e \in Matches /\ match[e] # NULL /\ match[e] \in Match
    BY DEF GoesLive, Ends, Overwrites, IInv, RequestsKnow, TypeOK
  <1>2. CASE GoesLive(a)
    <2> PICK row : row = Suspended(match[e])
      OBVIOUS
    <2>1. /\ row \in Match /\ row.league = match[e].league /\ row.leagueName = match[e].leagueName
          /\ row.status = "live" /\ row.market = "suspended" /\ row.result = match[e].result
      BY <1>1 DEF Suspended, Match, Statuses
    <2>2. QED
      BY <1>1, <1>2, <2>1 DEF GoesLive, Overwrites, Answers, LeaguesKeep
  <1>3. CASE Ends(a)
    <2> PICK row : row = Ended(match[e], r)
      OBVIOUS
    <2>1. r.do # "CancelMatch" => r.result \in {"won", "lost", "void"}
      BY <1>3, RequestsOK DEF Ends, Overwrites, IInv, RequestsKnow, RequestsOK
    <2>2. /\ row \in Match /\ row.league = match[e].league /\ row.leagueName = match[e].leagueName
          /\ row.market \in {"settled", "void"} /\ row.result \in {"won", "lost", "void"}
      <3>1. CASE r.do = "CancelMatch"
        BY <1>1, <3>1 DEF Ended, Match, Statuses
      <3>2. CASE r.do # "CancelMatch"
        <4> PICK result : result = r.result
          OBVIOUS
        <4>1. row = [match[e] EXCEPT !.status = "settled", !.scored = TRUE, !.market = "settled",
                                     !.result = result]
          BY <3>2 DEF Ended
        <4>2. result \in {"won", "lost", "void"}
          BY <2>1, <3>2
        <4>3. row \in Match
          BY <1>1, <4>1, <4>2 DEF Match, Statuses
        <4>4. QED
          BY <1>1, <4>1, <4>2, <4>3 DEF Match
      <3>3. QED
        BY <3>1, <3>2
    <2>3. QED
      BY <1>1, <1>3, <2>2 DEF Ends, Overwrites, Answers, LeaguesKeep
  <1>4. QED
    BY <1>2, <1>3

\* A match goes live or ends.
LEMMA CourseKeeps ==
  ASSUME IInv, NEW a \in Admins, GoesLive(a) \/ Ends(a)
  PROVE  IInv'
PROOF
  <1> USE CatalogueConstantsOK, NullIsNoRow DEF CatalogueConstantsOK, IInv
  <1>1. PICK e \in Matches, row \in Match :
           /\ match[e] # NULL
           /\ row.league = match[e].league /\ row.leagueName = match[e].leagueName
           /\ session' = [session EXCEPT ![a] = Idle]
           /\ session[a].at \in {"live", "end"}
           /\ match' = [match EXCEPT ![e] = row]
           /\ UNCHANGED <<league, leagueSeq, called, tx, visit>>
    BY CourseOfARow
  <1>2. /\ match' \in [Matches -> Match \cup {NULL}]
        /\ \A d \in Matches : match[d] # NULL => match'[d] # NULL
        /\ LeaguesCalled' /\ RowsRefer'
    BY <1>1, ColumnsKeep
  <1>3. TypeOK'
    BY <1>1, <1>2 DEF TypeOK, Idle
  <1>4. RequestsKnow'
    BY <1>1, <1>2 DEF RequestsKnow, TypeOK, Idle
  <1>5. QED
    BY <1>2, <1>3, <1>4

\* Visitors only read.
LEMMA ReadersKeep ==
  ASSUME IInv, UNCHANGED <<league, leagueSeq, called, match, tx, session>>
  PROVE  IInv'
PROOF
  <1>1. TypeOK'
    BY DEF IInv, TypeOK
  <1>2. RequestsKnow' /\ LeaguesCalled' /\ RowsRefer'
    BY DEF IInv, RequestsKnow, LeaguesCalled, RowsRefer, Refers
  <1>3. QED
    BY <1>1, <1>2 DEF IInv

\* Every step keeps the invariant.
LEMMA NextHolds == IInv /\ [Next]_vars => IInv'
PROOF
  <1> SUFFICES ASSUME IInv, [Next]_vars PROVE IInv'
    OBVIOUS
  <1>1. ASSUME NEW a \in Admins, Asks(a) PROVE IInv'
    BY <1>1, CreateLeagueKeeps, EditLeagueKeeps, DeleteLeagueKeeps, CreateMatchKeeps,
       EditMatchKeeps, SetFeaturedKeeps, SetMatchStatusKeeps, EndsAskedKeeps DEF Asks
  <1>2. ASSUME NEW a \in Admins, Steps(a) \/ Fails(a) PROVE IInv'
    BY <1>2, DeletesKeeps, InsertsKeeps, LoadsLeagueKeeps, UpdatesKeeps, CommitsKeeps,
       FeaturesKeeps, CourseKeeps, FailsKeeps DEF Steps
  <1>3. ASSUME NEW v \in Visitors, (\E f \in Filters : ListEvents(v, f)) \/ (\E e \in Matches : GetEvent(v, e))
                                   \/ ReadsMarkets(v) \/ ReadsOutcomes(v) \/ Leaves(v)
        PROVE IInv'
    <2>1. UNCHANGED <<league, leagueSeq, called, match, tx, session>>
      BY <1>3 DEF ListEvents, GetEvent, ReadsMarkets, ReadsOutcomes, Leaves, DbStays, LeaguesKeep
    <2>2. QED
      BY <2>1, ReadersKeep
  <1>4. CASE UNCHANGED vars
    BY <1>4, ReadersKeep DEF vars
  <1>5. QED
    BY <1>1, <1>2, <1>3, <1>4 DEF Next

\* The inductive invariant: types, requests that remember a name their league
\* has had, and rows, written or committed, that refer to a league that is there.
THEOREM CatalogueInvariant == Spec => []IInv
PROOF
  <1>1. Init => IInv
    BY InitHolds
  <1>2. IInv /\ [Next]_vars => IInv'
    BY NextHolds
  <1>3. QED
    BY <1>1, <1>2, PTL DEF Spec

\* Types hold in every state, for any number of administrators, leagues and
\* matches, and only a request about to commit has written a row.
THEOREM CatalogueTypeCorrect == Spec => []TypeOK
PROOF
  <1>1. IInv => TypeOK
    BY DEF IInv
  <1>2. QED
    BY <1>1, CatalogueInvariant, PTL

\* No match ever loses its league, whatever deletions, creations and edits run
\* at once: the foreign key and the lock it takes are enough.
THEOREM LeaguesStay == Spec => []NoMatchLosesItsLeague
PROOF
  <1>1. IInv => NoMatchLosesItsLeague
    BY DEF IInv, RowsRefer, Refers, NoMatchLosesItsLeague, LeagueRow
  <1>2. QED
    BY <1>1, CatalogueInvariant, PTL

\* A match never carries the name of another league.
THEOREM NamesAreTheLeagues == Spec => []MatchCarriesItsLeaguesName
PROOF
  <1>1. IInv => MatchCarriesItsLeaguesName
    BY DEF IInv, RowsRefer, Refers, MatchCarriesItsLeaguesName
  <1>2. QED
    BY <1>1, CatalogueInvariant, PTL

-----------------------------------------------------------------------------
(***************************************************************************)
(* Pages.  The statements of a page see later and later states, so a page  *)
(* does not lag if no row does and if two things never come back: a market *)
(* never opens again, and a result never goes.  The status does go back    *)
(* and forth: a SetMatchStatus with an old guard takes a settled match to  *)
(* live, and its decided market to suspended.  All that holds of an edit   *)
(* as well, which writes the whole row it has read, because its lock keeps *)
(* everybody else from that row until it commits.                          *)
(***************************************************************************)
Over         == {"settled", "cancelled"}
MarketsDone  == {"settled", "void"}

\* The columns of one row agree.
Told(row) ==
  /\ row.status # "upcoming" => row.market # "open"
  /\ row.status \in Over \/ row.market \in MarketsDone => row.result # NULL

RowsTold ==
  /\ \A e \in Matches : match[e] # NULL => Told(match[e])
  /\ \A a \in Admins : tx[a] # NULL => Told(tx[a].row)

\* A row not yet committed has the status, the market and the result of the
\* committed one, and nobody else has written it.
SameState(old, new) == new.status = old.status /\ new.market = old.market /\ new.result = old.result

WrittenRowsFit ==
  /\ \A a \in Admins : tx[a] # NULL /\ match[tx[a].id] # NULL => SameState(match[tx[a].id], tx[a].row)
  /\ \A a, b \in Admins : tx[a] # NULL /\ tx[b] # NULL /\ tx[a].id = tx[b].id => a = b

Shown == [status : Statuses, market : {NULL, "open", "suspended", "settled", "void"},
          result : {NULL, "won", "lost", "void"}]

IsPage(page) == \A e \in DOMAIN page : e \in Matches /\ match[e] # NULL /\ page[e] \in Shown

\* What the rows yet to be read will say beside a page that has been read so far.
StatusFits(page) ==
  \A e \in DOMAIN page : /\ page[e].status # "upcoming" => match[e].market # "open"
                         /\ page[e].status \in Over => match[e].result # NULL

MarketFits(page) ==
  \A e \in DOMAIN page : /\ page[e].market # NULL
                         /\ page[e].status # "upcoming" => page[e].market # "open"

Decided(shown) == shown.status \in Over \/ shown.market \in MarketsDone

ResultsAreThere(page) == \A e \in DOMAIN page : Decided(page[e]) => match[e].result # NULL
ResultsFit(page)      == \A e \in DOMAIN page : Decided(page[e]) => page[e].result # NULL

\* A page between two statements, and the page that is shown.
PageUnderway(at, page) ==
  /\ at # "idle" => IsPage(page)
  /\ at = "markets" => StatusFits(page)
  /\ at \in {"outcomes", "shown"} => MarketFits(page)
  /\ at = "outcomes" => ResultsAreThere(page)
  /\ at = "shown" => ResultsFit(page)

PagesUnderway ==
  /\ visit = [v \in Visitors |-> visit[v]]
  /\ \A v \in Visitors : PageUnderway(visit[v].at, visit[v].page)

PageInv == RowsTold /\ WrittenRowsFit /\ PagesUnderway

\* What a row's next version keeps of it.
RowGoesOn(old, new) ==
  /\ new # NULL
  /\ old.market # "open" => new.market # "open"
  /\ old.result # NULL => new.result # NULL

RowsGoOn == \A e \in Matches : match[e] # NULL => RowGoesOn(match[e], match'[e])

\* The invariant of the pages in the beginning.
LEMMA PageInvInit == Init => PageInv
PROOF
  <1> SUFFICES ASSUME Init PROVE PageInv
    OBVIOUS
  <1>1. RowsTold
    BY DEF Init, RowsTold, Told, FromProvider, Over, MarketsDone
  <1>2. WrittenRowsFit
    BY DEF Init, WrittenRowsFit
  <1>3. PagesUnderway
    BY DEF Init, PagesUnderway, PageUnderway, NoVisit
  <1>4. QED
    BY <1>1, <1>2, <1>3 DEF PageInv

\* What a visitor has read stays right beside rows that only go on.
LEMMA PagesStay ==
  ASSUME PagesUnderway, RowsGoOn, UNCHANGED visit
  PROVE  PagesUnderway'
PROOF
  <1> SUFFICES ASSUME NEW v \in Visitors PROVE PageUnderway(visit[v].at, visit[v].page)'
    BY DEF PagesUnderway
  <1> DEFINE page == visit[v].page
  <1>1. visit[v].at # "idle" => IsPage(page) /\ \A e \in DOMAIN page : e \in Matches /\ RowGoesOn(match[e], match'[e])
    BY DEF PagesUnderway, PageUnderway, IsPage, RowsGoOn
  <1>2. visit[v].at # "idle" => IsPage(page)'
    BY <1>1 DEF IsPage, RowGoesOn
  <1>3. visit[v].at = "markets" => StatusFits(page)'
    BY <1>1 DEF PagesUnderway, PageUnderway, StatusFits, RowGoesOn
  <1>4. visit[v].at = "outcomes" => ResultsAreThere(page)'
    BY <1>1 DEF PagesUnderway, PageUnderway, ResultsAreThere, RowGoesOn
  <1>5. QED
    BY <1>2, <1>3, <1>4 DEF PagesUnderway, PageUnderway, MarketFits, ResultsFit

\* Without a change of rows there is nothing to show.
LEMMA RowsStay ==
  ASSUME PageInv, UNCHANGED <<match, tx, visit>>
  PROVE  PageInv'
PROOF
  BY DEF PageInv, RowsTold, WrittenRowsFit, PagesUnderway, PageUnderway, IsPage, StatusFits, MarketFits,
         ResultsAreThere, ResultsFit

\* The first write of a transaction, after its wait for the row.
LEMMA WriteKeepsPages ==
  ASSUME TypeOK, PageInv, NEW a \in Admins, NEW e \in Matches, NEW row,
         ~RowLocked(e), Told(row), match[e] # NULL => SameState(match[e], row),
         Write(a, e, row), UNCHANGED <<match, visit>>
  PROVE  PageInv'
PROOF
  <1>1. /\ tx'[a] = [id |-> e, row |-> row]
        /\ \A b \in Admins : b # a => tx'[b] = tx[b]
    BY DEF Write, TypeOK
  <1>2. \A b \in Admins : tx[b] # NULL => tx[b].id # e
    BY DEF RowLocked
  <1>3. RowsTold'
    BY <1>1 DEF PageInv, RowsTold, Told
  <1>4. WrittenRowsFit'
    BY <1>1, <1>2 DEF PageInv, WrittenRowsFit, SameState
  <1>5. PagesUnderway'
    BY DEF PageInv, PagesUnderway, PageUnderway, IsPage, StatusFits, MarketFits, ResultsAreThere, ResultsFit
  <1>6. QED
    BY <1>3, <1>4, <1>5 DEF PageInv

\* A new row is told like a match that has just been created.
LEMMA InsertsKeepsPages ==
  ASSUME IInv, PageInv, NEW a \in Admins, Inserts(a)
  PROVE  PageInv'
PROOF
  <1> DEFINE row == NewMatch(session[a].req, session[a].row)
  <1>1. UNCHANGED <<match, visit>>
    BY DEF Inserts
  <1>2. Told(row)
    BY DEF NewMatch, Told, Over, MarketsDone
  <1>3. CASE UNCHANGED tx
    BY <1>1, <1>3, RowsStay
  <1>4. CASE \E e \in Matches : match[e] = NULL /\ ~RowLocked(e) /\ Write(a, e, row)
    BY <1>1, <1>2, <1>4, WriteKeepsPages DEF IInv
  <1>5. QED
    BY <1>3, <1>4 DEF Inserts

\* An edit writes the status, the market and the result it has read.
LEMMA UpdatesKeepsPages ==
  ASSUME IInv, PageInv, NEW a \in Admins, Updates(a)
  PROVE  PageInv'
PROOF
  <1> DEFINE r == session[a].req
             row == Edited(match[r.id], r, session[a].row)
  <1>1. UNCHANGED <<match, visit>>
    BY DEF Updates
  <1>2. r.id \in Matches /\ match[r.id] # NULL /\ match[r.id] \in Match /\ Told(match[r.id])
    <2>1. r.id \in Matches /\ match[r.id] # NULL
      BY DEF Updates, IInv, RequestsKnow
    <2>2. QED
      BY <2>1 DEF IInv, TypeOK, PageInv, RowsTold
  <1>3. SameState(match[r.id], row)
    BY <1>2 DEF Edited, SameState, Match
  <1>4. Told(row)
    BY <1>2, <1>3 DEF SameState, Told
  <1>5. CASE UNCHANGED tx
    BY <1>1, <1>5, RowsStay
  <1>6. CASE ~RowLocked(r.id) /\ Write(a, r.id, row)
    BY <1>1, <1>2, <1>3, <1>4, <1>6, WriteKeepsPages DEF IInv
  <1>7. QED
    BY <1>5, <1>6 DEF Updates

\* A new version of one row, which no open transaction has written.
LEMMA RowKeepsPages ==
  ASSUME TypeOK, PageInv, NEW e \in Matches, NEW row,
         row # NULL, Told(row), match[e] # NULL => RowGoesOn(match[e], row),
         match' = [match EXCEPT ![e] = row], UNCHANGED visit,
         \A a \in Admins : tx'[a] # NULL => tx'[a] = tx[a] /\ (tx[a].id # e \/ SameState(row, tx[a].row))
  PROVE  PageInv'
PROOF
  <1>1. /\ match'[e] = row
        /\ \A d \in Matches : d # e => match'[d] = match[d]
    BY DEF TypeOK
  <1>2. RowsTold'
    <2>1. \A d \in Matches : match'[d] # NULL => Told(match'[d])
      BY <1>1 DEF PageInv, RowsTold
    <2>2. \A a \in Admins : tx'[a] # NULL => Told(tx'[a].row)
      BY DEF PageInv, RowsTold
    <2>3. QED
      BY <2>1, <2>2 DEF RowsTold, Told
  <1>3. WrittenRowsFit'
    <2>1. \A a \in Admins : tx'[a] # NULL /\ match'[tx'[a].id] # NULL => SameState(match'[tx'[a].id], tx'[a].row)
      <3> SUFFICES ASSUME NEW a \in Admins, tx'[a] # NULL, match'[tx'[a].id] # NULL
                   PROVE  SameState(match'[tx'[a].id], tx'[a].row)
        OBVIOUS
      <3>1. tx'[a] = tx[a] /\ tx[a].id \in Matches
        BY DEF TypeOK
      <3>2. QED
        BY <1>1, <3>1 DEF PageInv, WrittenRowsFit
    <2>2. \A a, b \in Admins : tx'[a] # NULL /\ tx'[b] # NULL /\ tx'[a].id = tx'[b].id => a = b
      BY DEF PageInv, WrittenRowsFit
    <2>3. QED
      BY <2>1, <2>2 DEF WrittenRowsFit, SameState
  <1>4. RowsGoOn
    BY <1>1 DEF RowsGoOn, RowGoesOn
  <1>5. QED
    BY <1>2, <1>3, <1>4, PagesStay DEF PageInv

\* A row that becomes visible goes on from the one before.
LEMMA CommitsKeepsPages ==
  ASSUME IInv, PageInv, NEW a \in Admins, Commits(a)
  PROVE  PageInv'
PROOF
  <1>1. /\ tx[a] # NULL /\ tx[a] \in [id : Matches, row : Match] /\ tx'[a] = NULL
        /\ \A b \in Admins : b # a => tx'[b] = tx[b]
        /\ match' = [match EXCEPT ![tx[a].id] = tx[a].row] /\ UNCHANGED visit
    BY DEF Commits, IInv, TypeOK
  <1> PICK e \in Matches, row \in Match : e = tx[a].id /\ row = tx[a].row
    BY <1>1
  <1>2. row # NULL /\ Told(row)
    BY <1>1, NullIsNoRow DEF PageInv, RowsTold
  <1>3. match[e] # NULL => RowGoesOn(match[e], row)
    BY <1>1, <1>2 DEF PageInv, WrittenRowsFit, SameState, RowGoesOn
  <1>4. \A b \in Admins : tx'[b] # NULL => tx'[b] = tx[b] /\ tx[b].id # e
    BY <1>1 DEF PageInv, WrittenRowsFit
  <1>5. QED
    BY <1>1, <1>2, <1>3, <1>4, RowKeepsPages DEF IInv

\* A request that fails shows nothing.
LEMMA FailsKeepsPages ==
  ASSUME IInv, PageInv, NEW a \in Admins, Fails(a)
  PROVE  PageInv'
PROOF
  <1>1. /\ tx'[a] = NULL /\ UNCHANGED <<match, visit>>
        /\ \A b \in Admins : b # a => tx'[b] = tx[b]
    BY DEF Fails, Released, IInv, TypeOK
  <1>2. RowsTold' /\ WrittenRowsFit'
    BY <1>1 DEF PageInv, RowsTold, WrittenRowsFit, Told, SameState
  <1>3. PagesUnderway'
    BY <1>1, SMTT(30) DEF PageInv, PagesUnderway, PageUnderway, IsPage, StatusFits, MarketFits, ResultsAreThere, ResultsFit
  <1>4. QED
    BY <1>2, <1>3 DEF PageInv

\* Featuring a match changes no status.
LEMMA FeaturesKeepsPages ==
  ASSUME IInv, PageInv, NEW a \in Admins, Features(a)
  PROVE  PageInv'
PROOF
  <1> PICK e : e = session[a].req.id
    OBVIOUS
  <1>1. /\ e \in Matches /\ match[e] # NULL /\ match[e] \in Match /\ ~RowLocked(e)
        /\ session[a].req.on \in BOOLEAN
    <2>1. /\ e \in Matches /\ match[e] # NULL
          /\ session[a].req \in Requests /\ session[a].req.do = "SetFeatured"
      BY DEF Features, IInv, RequestsKnow
    <2>2. QED
      BY <2>1, RequestsOK DEF Features, IInv, TypeOK, RequestsOK
  <1> PICK row : row = [match[e] EXCEPT !.featured = session[a].req.on]
    OBVIOUS
  <1>2. match' = [match EXCEPT ![e] = row] /\ UNCHANGED <<tx, visit>>
    BY <1>1 DEF Features, IInv, TypeOK
  <1>3. SameState(match[e], row) /\ row # NULL
    <2>1. row \in Match /\ SameState(match[e], row)
      BY <1>1 DEF Match, SameState
    <2>2. QED
      BY <2>1, NullIsNoRow
  <1>4. Told(row) /\ RowGoesOn(match[e], row)
    BY <1>1, <1>3 DEF PageInv, RowsTold, Told, SameState, RowGoesOn
  <1>5. QED
    BY <1>1, <1>2, <1>3, <1>4, RowKeepsPages DEF IInv, RowLocked

\* Nobody takes a match to live or ends it while an edit has its row, and what
\* is written beside an old guard opens no market and takes no result away.
LEMMA CourseKeepsPages ==
  ASSUME IInv, PageInv, NEW a \in Admins, GoesLive(a) \/ Ends(a)
  PROVE  PageInv'
PROOF
  <1>1. PICK e \in Matches, row \in Match :
           /\ match[e] # NULL /\ ~RowLocked(e)
           /\ \/ row.status = "live" /\ row.market = "suspended" /\ row.result = match[e].result
              \/ row.market \in {"settled", "void"} /\ row.result \in {"won", "lost", "void"}
           /\ match' = [match EXCEPT ![e] = row]
           /\ UNCHANGED <<tx, visit>>
    BY CourseOfARow
  <1>2. Told(row) /\ RowGoesOn(match[e], row)
    BY <1>1, NullIsNoRow, NullSaysNothing
       DEF Told, RowGoesOn, Over, MarketsDone, NullIsNoRow, NullSaysNothing
  <1>3. \A b \in Admins : tx'[b] # NULL => tx'[b] = tx[b] /\ tx[b].id # e
    BY <1>1 DEF RowLocked
  <1>4. QED
    BY <1>1, <1>2, <1>3, RowKeepsPages, NullIsNoRow DEF IInv

\* A visitor's next state keeps the invariant if it fits the rows.
LEMMA GivesKeeps ==
  ASSUME PageInv, NEW v \in Visitors, NEW at, NEW page,
         Gives(v, at, page), PageUnderway(at, page), UNCHANGED <<match, tx>>
  PROVE  PageInv'
PROOF
  <1>1. RowsTold' /\ WrittenRowsFit'
    BY DEF PageInv, RowsTold, WrittenRowsFit, Told, SameState
  <1>2. /\ visit' = [w \in Visitors |-> visit'[w]]
        /\ visit'[v].at = at /\ visit'[v].page = page
        /\ \A w \in Visitors : w # v => visit'[w] = visit[w]
    <2>1. visit = [w \in Visitors |-> visit[w]]
      BY DEF PageInv, PagesUnderway, PageUnderway
    <2>2. DOMAIN visit = Visitors
      BY <2>1
    <2>3. QED
      BY <2>2 DEF Gives
  <1>3. \A w \in Visitors : PageUnderway(visit[w].at, visit[w].page)
    BY DEF PageInv, PagesUnderway, PageUnderway
  <1>4. \A w \in Visitors : PageUnderway(visit'[w].at, visit'[w].page)
    BY <1>2, <1>3
  <1>5. PagesUnderway'
    BY <1>2, <1>4 DEF PagesUnderway, PageUnderway, IsPage, StatusFits, MarketFits, ResultsAreThere, ResultsFit
  <1>6. QED
    BY <1>1, <1>5 DEF PageInv

\* No row lags, so the status fits the market and the result still to be read.
LEMMA ListKeepsPages ==
  ASSUME IInv, PageInv, NEW v \in Visitors, NEW E \in SUBSET {e \in Matches : match[e] # NULL},
         Gives(v, "markets", StatusOf(E)), DbStays
  PROVE  PageInv'
PROOF
  <1> PICK page : page = StatusOf(E)
    OBVIOUS
  <1>1. /\ DOMAIN page = E
        /\ \A e \in E : page[e] = [status |-> match[e].status, market |-> NULL, result |-> NULL]
    BY DEF StatusOf
  <1>2. \A e \in E : e \in Matches /\ match[e] # NULL /\ match[e].status \in Statuses /\ Told(match[e])
    BY DEF IInv, TypeOK, Match, PageInv, RowsTold
  <1>3. PageUnderway("markets", page)
    BY <1>1, <1>2 DEF PageUnderway, IsPage, StatusFits, Shown, Told
  <1>4. QED
    BY <1>3, GivesKeeps DEF DbStays

\* Markets are read after the events.
LEMMA ReadsMarketsKeepsPages ==
  ASSUME IInv, PageInv, NEW v \in Visitors, ReadsMarkets(v)
  PROVE  PageInv'
PROOF
  <1> PICK old : old = visit[v].page
    OBVIOUS
  <1> PICK page : page = [e \in DOMAIN old |-> [old[e] EXCEPT !.market = match[e].market]]
    OBVIOUS
  <1>1. IsPage(old) /\ StatusFits(old)
    BY DEF PageInv, PagesUnderway, PageUnderway, ReadsMarkets
  <1>2. \A e \in DOMAIN old : /\ e \in Matches /\ match[e] # NULL
                              /\ match[e].market \in {"open", "suspended", "settled", "void"} /\ Told(match[e])
    BY <1>1 DEF IsPage, IInv, TypeOK, Match, PageInv, RowsTold
  <1>3. \A e \in DOMAIN old : /\ page[e] \in Shown /\ page[e].status = old[e].status
                              /\ page[e].market = match[e].market
    BY <1>1, <1>2, SMTT(30) DEF IsPage, Shown
  <1>5. PageUnderway("outcomes", page)
    <2>1. DOMAIN page = DOMAIN old
      OBVIOUS
    <2>2. IsPage(page)
      BY <1>2, <1>3, <2>1 DEF IsPage
    <2>3. MarketFits(page)
      BY <1>1, <1>2, <1>3, <2>1, NullSaysNothing DEF StatusFits, MarketFits, NullSaysNothing, Told
    <2>4. ResultsAreThere(page)
      BY <1>1, <1>2, <1>3, <2>1 DEF StatusFits, Told, ResultsAreThere, Decided
    <2>5. QED
      BY <2>2, <2>3, <2>4 DEF PageUnderway
  <1>6. QED
    BY <1>5, GivesKeeps DEF ReadsMarkets, DbStays

\* Outcomes are read after the markets.
LEMMA ReadsOutcomesKeepsPages ==
  ASSUME IInv, PageInv, NEW v \in Visitors, ReadsOutcomes(v)
  PROVE  PageInv'
PROOF
  <1> PICK old : old = visit[v].page
    OBVIOUS
  <1> PICK page : page = WithOutcomes(old)
    OBVIOUS
  <1>1. IsPage(old) /\ MarketFits(old) /\ ResultsAreThere(old)
    BY DEF PageInv, PagesUnderway, PageUnderway, ReadsOutcomes
  <1>2. \A e \in DOMAIN old : e \in Matches /\ match[e] # NULL /\ match[e].result \in {NULL, "won", "lost", "void"}
    BY <1>1 DEF IsPage, IInv, TypeOK, Match
  <1>3. DOMAIN page = DOMAIN old
    BY DEF WithOutcomes
  <1>4. \A e \in DOMAIN old : /\ page[e] \in Shown /\ page[e].status = old[e].status
                              /\ page[e].market = old[e].market /\ page[e].result = match[e].result
    BY <1>1, <1>2, ZenonT(60) DEF IsPage, Shown, WithOutcomes
  <1>5. IsPage(page) /\ MarketFits(page) /\ ResultsFit(page)
    BY <1>1, <1>2, <1>3, <1>4 DEF IsPage, MarketFits, ResultsAreThere, ResultsFit, Decided
  <1>6. QED
    BY <1>5, GivesKeeps DEF ReadsOutcomes, DbStays, PageUnderway

\* Every step keeps the invariant of the pages.
LEMMA PageInvNext == IInv /\ PageInv /\ [Next]_vars => PageInv'
PROOF
  <1> SUFFICES ASSUME IInv, PageInv, [Next]_vars PROVE PageInv'
    OBVIOUS
  <1>1. ASSUME NEW a \in Admins, Asks(a) \/ Deletes(a) \/ LoadsLeague(a) PROVE PageInv'
    <2>1. UNCHANGED <<match, tx, visit>>
      BY <1>1 DEF Asks, Deletes, LoadsLeague, CreateLeague, EditLeague, DeleteLeague, CreateMatch, EditMatch,
                  SetFeatured, SetMatchStatus, CancelMatch, SetMatchScores, OnlySession
    <2>2. QED
      BY <2>1, RowsStay
  <1>2. ASSUME NEW a \in Admins, Steps(a) \/ Fails(a) PROVE PageInv'
    BY <1>1, <1>2, InsertsKeepsPages, UpdatesKeepsPages, CommitsKeepsPages, FeaturesKeepsPages,
       CourseKeepsPages, FailsKeepsPages DEF Steps
  <1>3. ASSUME NEW v \in Visitors, NEW f \in Filters, ListEvents(v, f) PROVE PageInv'
    <2>1. Listed(f) \subseteq {e \in Matches : match[e] # NULL}
      BY DEF Listed
    <2>2. PICK E \in SUBSET Listed(f) : Gives(v, "markets", StatusOf(E))
      BY <1>3 DEF ListEvents
    <2>3. QED
      BY <1>3, <2>1, <2>2, ListKeepsPages DEF ListEvents
  <1>4. ASSUME NEW v \in Visitors, NEW e \in Matches, GetEvent(v, e) PROVE PageInv'
    <2> PICK E : E = {e}
      OBVIOUS
    <2>1. E \in SUBSET {d \in Matches : match[d] # NULL}
      BY <1>4 DEF GetEvent, MatchRow
    <2>2. QED
      BY <1>4, <2>1, ListKeepsPages DEF GetEvent
  <1>5. ASSUME NEW v \in Visitors, ReadsMarkets(v) \/ ReadsOutcomes(v) \/ Leaves(v) PROVE PageInv'
    <2>1. CASE Leaves(v)
      <3>1. PageUnderway("idle", NULL)
        BY DEF PageUnderway
      <3>2. QED
        BY <2>1, <3>1, GivesKeeps DEF Leaves, DbStays
    <2>2. QED
      BY <1>5, <2>1, ReadsMarketsKeepsPages, ReadsOutcomesKeepsPages
  <1>6. CASE UNCHANGED vars
    BY <1>6, RowsStay DEF vars
  <1>7. QED
    BY <1>1, <1>2, <1>3, <1>4, <1>5, <1>6 DEF Next

\* No statement of a page lags behind the one before it, although its three
\* statements see three states and any number of administrators commit between
\* them, with guards as old as you like.
THEOREM PagesDoNotLag == Spec => []PageDoesNotLag
PROOF
  <1>1. Init => PageInv
    BY PageInvInit
  <1>2. IInv /\ PageInv /\ [Next]_vars => PageInv'
    BY PageInvNext
  <1>3. PageInv => PageDoesNotLag
    BY DEF PageInv, PagesUnderway, PageUnderway, MarketFits, ResultsFit, Decided, PageDoesNotLag,
           Over, MarketsDone
  <1>4. QED
    BY <1>1, <1>2, <1>3, CatalogueInvariant, PTL DEF Spec
=============================================================================
