--------------------------- MODULE Workers_proofs ---------------------------
(***************************************************************************)
(* Theorems about ProviderSync, for any matches, sports, dates, answers    *)
(* and length of time.  No bet is let through after kick-off: the workers  *)
(* may have copied an old date into events or still carry one, but dates   *)
(* only move forward: no copy lies after the date the provider keeps to. A *)
(* settled match is decided, and shows what was paid.  At the end: Jobs,   *)
(* which gives these workers their time.                                   *)
(***************************************************************************)
EXTENDS ProviderSync, Jobs, TLAPS

\* The shapes of what the steps update in place.
FeedShape ==
  /\ feed = [m \in Matches |-> [status |-> feed[m].status, scores |-> feed[m].scores,
                                start  |-> feed[m].start]]
  /\ \A m \in Matches : feed[m].start \in Nat

EventTable(table) ==
  /\ table = [m \in Matches |-> table[m]]
  /\ \A m \in Matches :
       table[m] = [status |-> table[m].status, scores |-> table[m].scores, start |-> table[m].start]

RowShape == EventTable(row) /\ \A m \in Matches : row[m].start \in Nat

BetShape == bet = [m \in Matches |-> [c \in Backed |-> bet[m][c]]]

ListingShape ==
  /\ listing = [sports |-> listing.sports, events |-> listing.events, markets |-> listing.markets]
  /\ \A e \in listing.events : e.match \in Matches /\ e.start \in Nat

\* A match begins at its date.
BegunInTime ==
  now \in Nat /\ \A m \in Matches : feed[m].status \in {"live", "settled"} => feed[m].start <= now

\* Copies of a date are never later than the date.
CopiesAreNotLater ==
  /\ \A m \in Matches : row[m].start <= feed[m].start
  /\ \A e \in listing.events : e.start <= feed[e.match].start

DateInv ==
  FeedShape /\ RowShape /\ BetShape /\ ListingShape /\ BegunInTime /\ CopiesAreNotLater

-----------------------------------------------------------------------------
\* Two of the three columns of an event change at once.
LEMMA TwoColumns ==
  ASSUME NEW r, NEW status, NEW scores,
         r = [status |-> r.status, scores |-> r.scores, start |-> r.start]
  PROVE  [r EXCEPT !.status = status, !.scores = scores] =
           [status |-> status, scores |-> scores, start |-> r.start]
<1>1. [r EXCEPT !.status = status, !.scores = scores] =
        [[r EXCEPT !.status = status] EXCEPT !.scores = scores]
  OBVIOUS
<1>2. [r EXCEPT !.status = status] = [status |-> status, scores |-> r.scores, start |-> r.start]
  OBVIOUS
<1>3. [[status |-> status, scores |-> r.scores, start |-> r.start] EXCEPT !.scores = scores] =
        [status |-> status, scores |-> scores, start |-> r.start]
  OBVIOUS
<1> QED
  BY <1>1, <1>2, <1>3, Zenon

\* Dates in the beginning.
LEMMA InitDateInv == Init => DateInv
<1> SUFFICES ASSUME Init PROVE DateInv
  OBVIOUS
<1>1. FeedShape /\ \A m \in Matches : feed[m].status = "pending"
  BY SyncConstantsOK DEF Init, FeedShape
<1>2. RowShape /\ BetShape
  <2>1. row = [m \in Matches |-> [status |-> "none", scores |-> <<>>, start |-> 0]]
    BY DEF Init
  <2>2. \A m \in Matches : row[m] = [status |-> "none", scores |-> <<>>, start |-> 0]
    BY <2>1
  <2>3. \A m \in Matches : row[m].status = "none" /\ row[m].scores = <<>> /\ row[m].start = 0
    BY <2>2
  <2>4. row = [m \in Matches |-> row[m]]
    BY <2>1
  <2>5. EventTable(row)
    BY <2>2, <2>3, <2>4, Zenon DEF EventTable
  <2> QED
    BY <2>3, <2>5 DEF Init, RowShape, BetShape
<1>3. ListingShape /\ listing.events = {}
  BY DEF Init, ListingShape, NoListing
<1>4. BegunInTime
  BY <1>1 DEF Init, BegunInTime
<1>5. CopiesAreNotLater
  BY <1>1, <1>3 DEF Init, CopiesAreNotLater, FeedShape
<1> QED
  BY <1>1, <1>2, <1>3, <1>4, <1>5 DEF DateInv

\* The provider's steps keep dates or move them forward.
LEMMA ProviderMoves ==
  ASSUME DateInv, NEW m \in Matches, NEW statuses, NEW news, Provider(m, statuses, news),
         news = [status |-> news.status, scores |-> news.scores, start |-> news.start],
         news.start \in Nat, feed[m].start <= news.start,
         news.status \in {"live", "settled"} => news.start <= now
  PROVE  DateInv'
<1>1. /\ feed' = [feed EXCEPT ![m] = news]
      /\ UNCHANGED <<now, row, bet, listing>>
  BY DEF Provider, Database, Workers
<1>2. feed'[m] = news /\ \A x \in Matches : x # m => feed'[x] = feed[x]
  BY <1>1 DEF DateInv, FeedShape
<1>3. FeedShape'
  BY <1>1, <1>2 DEF DateInv, FeedShape
<1>4. \A x \in Matches : feed[x].start <= feed'[x].start /\ feed'[x].start \in Nat /\ feed[x].start \in Nat
  BY <1>2 DEF DateInv, FeedShape
<1>5. BegunInTime'
  BY <1>1, <1>2 DEF DateInv, BegunInTime
<1>6. CopiesAreNotLater'
  <2>1. ASSUME NEW x \in Matches PROVE row'[x].start <= feed'[x].start
    <3>1. row[x].start \in Nat /\ row[x].start <= feed[x].start
      BY DEF DateInv, RowShape, CopiesAreNotLater
    <3> QED
      BY <1>1, <1>4, <3>1
  <2>2. ASSUME NEW e \in listing.events PROVE e.start <= feed'[e.match].start
    <3>1. e.match \in Matches /\ e.start \in Nat /\ e.start <= feed[e.match].start
      BY DEF DateInv, ListingShape, CopiesAreNotLater
    <3> QED
      BY <1>4, <3>1
  <2> QED
    BY <1>1, <2>1, <2>2 DEF CopiesAreNotLater
<1>7. RowShape' /\ BetShape' /\ ListingShape'
  BY <1>1 DEF DateInv, RowShape, BetShape, ListingShape
<1> QED
  BY <1>1, <1>3, <1>5, <1>6, <1>7 DEF DateInv

\* Each of the provider's steps is such a move.
LEMMA ProviderKeepsDates ==
  ASSUME DateInv, NEW m \in Matches,
         Postpone(m) \/ KickOff(m) \/ FinalWhistle(m) \/ ScoresArrive(m) \/ CallOff(m)
  PROVE  DateInv'
<1>1. /\ feed[m] = [status |-> feed[m].status, scores |-> feed[m].scores, start |-> feed[m].start]
      /\ feed[m].start \in Nat
      /\ now \in Nat
      /\ feed[m].status \in {"live", "settled"} => feed[m].start <= now
  BY DEF DateInv, FeedShape, BegunInTime
<1>2. CASE Postpone(m)
  <2>1. PICK start \in KickOffs :
          start > feed[m].start /\ Provider(m, {"pending"}, [feed[m] EXCEPT !.start = start])
    BY <1>2 DEF Postpone
  <2>2. start \in Nat
    BY SyncConstantsOK
  <2>3. feed[m].status = "pending"
    BY <2>1 DEF Provider
  <2>4. [feed[m] EXCEPT !.start = start] =
          [status |-> "pending", scores |-> feed[m].scores, start |-> start]
    BY <1>1, <2>3
  <2> QED
    BY <1>1, <2>1, <2>2, <2>4, ProviderMoves
<1>3. CASE KickOff(m)
  <2>1. PICK s \in Reported(LiveScores) :
          Provider(m, {"pending"}, [feed[m] EXCEPT !.status = "live", !.scores = s])
    BY <1>3 DEF KickOff
  <2>2. [feed[m] EXCEPT !.status = "live", !.scores = s] =
          [status |-> "live", scores |-> s, start |-> feed[m].start]
    BY <1>1, TwoColumns
  <2>3. feed[m].start <= now
    BY <1>1, <1>3 DEF KickOff
  <2> QED
    BY <1>1, <2>1, <2>2, <2>3, ProviderMoves
<1>4. CASE FinalWhistle(m)
  <2>1. PICK s \in Reported(Scores) :
          Provider(m, {"live"}, [feed[m] EXCEPT !.status = "settled", !.scores = s])
    BY <1>4 DEF FinalWhistle
  <2>2. [feed[m] EXCEPT !.status = "settled", !.scores = s] =
          [status |-> "settled", scores |-> s, start |-> feed[m].start]
    BY <1>1, TwoColumns
  <2>3. now > feed[m].start
    BY <1>4, Zenon DEF FinalWhistle
  <2>4. feed[m].start <= now
    BY <1>1, <2>3
  <2> QED
    BY <1>1, <2>1, <2>2, <2>4, ProviderMoves
<1>5. CASE ScoresArrive(m)
  <2>1. PICK s \in Scores : Provider(m, {"settled"}, [feed[m] EXCEPT !.scores = <<s>>])
    BY <1>5 DEF ScoresArrive
  <2>2. [feed[m] EXCEPT !.scores = <<s>>] =
          [status |-> feed[m].status, scores |-> <<s>>, start |-> feed[m].start]
    BY <1>1
  <2> QED
    BY <1>1, <2>1, <2>2, ProviderMoves
<1>6. CASE CallOff(m)
  <2>1. Provider(m, {"pending", "live"}, [feed[m] EXCEPT !.status = "cancelled", !.scores = <<>>])
    BY <1>6 DEF CallOff
  <2>2. [feed[m] EXCEPT !.status = "cancelled", !.scores = <<>>] =
          [status |-> "cancelled", scores |-> <<>>, start |-> feed[m].start]
    BY <1>1, TwoColumns
  <2> QED
    BY <1>1, <2>1, <2>2, ProviderMoves
<1> QED
  BY <1>2, <1>3, <1>4, <1>5, <1>6

-----------------------------------------------------------------------------
\* A plan writes status and scores of one event, never its date.
LEMMA PlanKeepsStarts ==
  ASSUME RowShape, NEW p, applyPlan(p)
  PROVE  /\ EventTable(row')
         /\ \A m \in Matches : /\ row'[m].start = row[m].start
                               /\ row'[m].status = IF m = p.match THEN p.final ELSE row[m].status
<1> DEFINE once == [row EXCEPT ![p.match].status = p.final]
<1> EventTable(row)
  BY DEF RowShape
<1>1. row' = [once EXCEPT ![p.match].scores = p.scores]
  BY Zenon DEF applyPlan
<1>2. once = [m \in Matches |-> once[m]]
  BY DEF EventTable
<1>3. ASSUME NEW m \in Matches
      PROVE  once[m] = [status |-> IF m = p.match THEN p.final ELSE row[m].status,
                        scores |-> row[m].scores, start |-> row[m].start]
  <2>1. row[m] = [status |-> row[m].status, scores |-> row[m].scores, start |-> row[m].start]
    BY DEF EventTable
  <2>2. once[m] = IF m = p.match THEN [row[m] EXCEPT !.status = p.final] ELSE row[m]
    BY DEF EventTable
  <2>3. [row[m] EXCEPT !.status = p.final] =
          [status |-> p.final, scores |-> row[m].scores, start |-> row[m].start]
    BY <2>1
  <2> QED
    BY <2>1, <2>2, <2>3
<1> HIDE DEF once
<1>4. row' = [m \in Matches |-> row'[m]]
  BY <1>1, <1>2
<1>5. ASSUME NEW m \in Matches
      PROVE  row'[m] = [status |-> IF m = p.match THEN p.final ELSE row[m].status,
                        scores |-> IF m = p.match THEN p.scores ELSE row[m].scores,
                        start  |-> row[m].start]
  <2>1. row'[m] = IF m = p.match THEN [once[m] EXCEPT !.scores = p.scores] ELSE once[m]
    BY <1>1, <1>2
  <2> DEFINE newStatus == IF m = p.match THEN p.final ELSE row[m].status
  <2>2. once[m] = [status |-> newStatus, scores |-> row[m].scores, start |-> row[m].start]
    BY <1>3
  <2> HIDE DEF newStatus
  <2>3. [once[m] EXCEPT !.scores = p.scores] =
          [status |-> newStatus, scores |-> p.scores, start |-> row[m].start]
    BY <2>2
  <2>4. row'[m] = [status |-> newStatus, scores |-> IF m = p.match THEN p.scores ELSE row[m].scores,
                   start |-> row[m].start]
    BY <2>1, <2>2, <2>3
  <2> QED
    BY <2>4 DEF newStatus
<1>6. ASSUME NEW m \in Matches
      PROVE  /\ row'[m].start = row[m].start
             /\ row'[m].status = IF m = p.match THEN p.final ELSE row[m].status
             /\ row'[m] = [status |-> row'[m].status, scores |-> row'[m].scores,
                           start |-> row'[m].start]
  <2> DEFINE a == IF m = p.match THEN p.final ELSE row[m].status
             b == IF m = p.match THEN p.scores ELSE row[m].scores
  <2>1. row'[m] = [status |-> a, scores |-> b, start |-> row[m].start]
    BY <1>5
  <2> HIDE DEF a, b
  <2>2. row'[m].status = a /\ row'[m].scores = b /\ row'[m].start = row[m].start
    BY <2>1
  <2>3. row'[m].status = IF m = p.match THEN p.final ELSE row[m].status
    BY <2>2 DEF a
  <2> QED
    BY <2>1, <2>2, <2>3, Zenon
<1> QED
  BY <1>4, <1>6, Zenon DEF EventTable

\* A plan decides bets in place, one by one.
LEMMA PlanKeepsShapes ==
  ASSUME DateInv, NEW p, applyPlan(p)
  PROVE  RowShape' /\ BetShape' /\ \A m \in Matches : row'[m].start = row[m].start
<1>2. EventTable(row') /\ \A m \in Matches : row'[m].start = row[m].start
  BY PlanKeepsStarts DEF DateInv
<1>3. RowShape'
  <2>1. \A m \in Matches : row'[m].start \in Nat
    BY <1>2 DEF DateInv, RowShape
  <2> QED
    BY <1>2, <2>1 DEF RowShape
<1>4. bet' = [bet EXCEPT ![p.match] =
                [c \in Backed |-> IF c \in DOMAIN p.results
                                    THEN Decided(bet[p.match][c], p.results[c]) ELSE bet[p.match][c]]]
  BY Zenon DEF applyPlan
<1>5. \A m \in Matches : bet'[m] = IF m = p.match
        THEN [c \in Backed |-> IF c \in DOMAIN p.results
                                 THEN Decided(bet[m][c], p.results[c]) ELSE bet[m][c]]
        ELSE bet[m]
  BY <1>4 DEF DateInv, BetShape
<1>6. BetShape'
  BY <1>4, <1>5 DEF DateInv, BetShape
<1> QED
  BY <1>2, <1>3, <1>6

\* Steps after which dates, bets and what EventSync carries are as before.
LEMMA DatesUnmoved ==
  ASSUME DateInv, UNCHANGED <<now, feed, listing, row, bet>>
  PROVE  DateInv'
BY DEF DateInv, FeedShape, RowShape, BetShape, ListingShape, BegunInTime, CopiesAreNotLater

\* A plan that is applied changes no date.
LEMMA PlanKeepsDates ==
  ASSUME DateInv, NEW p, applyPlan(p), UNCHANGED <<now, feed, listing>>
  PROVE  DateInv'
<1>1. RowShape' /\ BetShape' /\ \A m \in Matches : row'[m].start = row[m].start
  BY PlanKeepsShapes
<1>2. CopiesAreNotLater'
  BY <1>1 DEF DateInv, CopiesAreNotLater
<1>3. FeedShape' /\ ListingShape' /\ BegunInTime'
  BY DEF DateInv, FeedShape, ListingShape, BegunInTime
<1> QED
  BY <1>1, <1>2, <1>3 DEF DateInv

-----------------------------------------------------------------------------
\* The dates EventSync carries are those of the provider's list or fewer of them.
LEMMA ListsKeepsDates ==
  ASSUME DateInv, NEW next, Lists(next), UNCHANGED <<row, bet>>,
         next = [sports |-> next.sports, events |-> next.events, markets |-> next.markets],
         \A e \in next.events : e.match \in Matches /\ e.start \in Nat /\ e.start <= feed[e.match].start
  PROVE  DateInv'
<1>1. listing' = next /\ UNCHANGED <<now, feed>>
  BY DEF Lists
<1>2. ListingShape'
  BY <1>1 DEF ListingShape
<1>3. CopiesAreNotLater'
  BY <1>1 DEF DateInv, CopiesAreNotLater
<1>4. FeedShape' /\ RowShape' /\ BetShape' /\ BegunInTime'
  BY <1>1 DEF DateInv, FeedShape, RowShape, EventTable, BetShape, BegunInTime
<1> QED
  BY <1>2, <1>3, <1>4 DEF DateInv

\* Fewer events to upsert.
LEMMA LessToList ==
  ASSUME DateInv, NEW sports, NEW events, NEW markets, events \subseteq listing.events,
         Lists([sports |-> sports, events |-> events, markets |-> markets]), UNCHANGED <<row, bet>>
  PROVE  DateInv'
<1> DEFINE next == [sports |-> sports, events |-> events, markets |-> markets]
<1>1. next.sports = sports /\ next.events = events /\ next.markets = markets
  OBVIOUS
<1>2. \A e \in next.events : e.match \in Matches /\ e.start \in Nat /\ e.start <= feed[e.match].start
  BY <1>1 DEF DateInv, ListingShape, CopiesAreNotLater
<1>3. next = [sports |-> next.sports, events |-> next.events, markets |-> next.markets]
  BY <1>1
<1>4. Lists(next)
  OBVIOUS
<1> HIDE DEF next
<1> QED
  BY <1>2, <1>3, <1>4, ListsKeepsDates

\* A list copies the provider's dates.
LEMMA GetEventsKeepsDates ==
  ASSUME DateInv, NEW s \in Sports, GetEvents(s)
  PROVE  DateInv'
<1> DEFINE listed == {[match |-> m, status |-> mapEventStatus(feed[m].status),
                       scores |-> feed[m].scores, start |-> feed[m].start] : m \in ListedBy(s)}
           next   == [sports |-> listing.sports \ {s}, markets |-> {}, events |-> listed]
<1>1. Lists(next) /\ UNCHANGED <<row, bet>>
  BY Zenon DEF GetEvents, Database
<1>2. \A e \in listed : e.match \in Matches /\ e.start \in Nat /\ e.start <= feed[e.match].start
  <2> SUFFICES ASSUME NEW m \in ListedBy(s)
               PROVE  m \in Matches /\ feed[m].start \in Nat /\ feed[m].start <= feed[m].start
    OBVIOUS
  <2> QED
    BY DEF ListedBy, DateInv, FeedShape
<1>3. next.events = listed /\ next = [sports |-> next.sports, events |-> next.events, markets |-> next.markets]
  <2> HIDE DEF listed
  <2> QED OBVIOUS
<1> HIDE DEF next, listed
<1> QED
  BY <1>1, <1>2, <1>3, ListsKeepsDates

\* The date of the row becomes that of the list.
LEMMA UpsertKeepsDates ==
  ASSUME DateInv, NEW e \in listing.events, UpsertEvent(e)
  PROVE  DateInv'
<1> DEFINE missing == {<<e.match, t>> : t \in {t \in Types : market[e.match][t] = <<>>}}
           new     == Upserted(row[e.match], e)
<1>1. /\ row' = [row EXCEPT ![e.match] = new]
      /\ Lists([listing EXCEPT !.events = @ \ {e}, !.markets = missing])
      /\ bet' = bet
  BY Zenon DEF UpsertEvent
<1>2. /\ e.match \in Matches /\ e.start \in Nat /\ e.start <= feed[e.match].start
      /\ listing = [sports |-> listing.sports, events |-> listing.events, markets |-> listing.markets]
  BY DEF DateInv, ListingShape, CopiesAreNotLater
<1> HIDE DEF missing
<1>3. [listing EXCEPT !.events = @ \ {e}, !.markets = missing] =
        [sports |-> listing.sports, events |-> listing.events \ {e}, markets |-> missing]
  <2>1. [listing EXCEPT !.events = @ \ {e}, !.markets = missing] =
          [[listing EXCEPT !.events = listing.events \ {e}] EXCEPT !.markets = missing]
    OBVIOUS
  <2>2. [listing EXCEPT !.events = listing.events \ {e}] =
          [sports |-> listing.sports, events |-> listing.events \ {e}, markets |-> listing.markets]
    BY <1>2
  <2>3. [[sports |-> listing.sports, events |-> listing.events \ {e}, markets |-> listing.markets]
           EXCEPT !.markets = missing] =
          [sports |-> listing.sports, events |-> listing.events \ {e}, markets |-> missing]
    OBVIOUS
  <2> QED
    BY <2>1, <2>2, <2>3, Zenon
<1>4. /\ listing' = [sports |-> listing.sports, events |-> listing.events \ {e}, markets |-> missing]
      /\ UNCHANGED <<now, feed>>
  BY <1>1, <1>3, Zenon DEF Lists
<1>5. new.start = e.start /\ new = [status |-> new.status, scores |-> new.scores, start |-> new.start]
  BY DEF Upserted
<1> HIDE DEF new
<1>6. row'[e.match] = new /\ \A m \in Matches : m # e.match => row'[m] = row[m]
  BY <1>1, <1>2 DEF DateInv, RowShape, EventTable
<1>7. row' = [m \in Matches |-> row'[m]]
  BY <1>1 DEF DateInv, RowShape, EventTable
<1>8. RowShape'
  <2>1. ASSUME NEW m \in Matches
        PROVE  /\ row'[m] = [status |-> row'[m].status, scores |-> row'[m].scores, start |-> row'[m].start]
               /\ row'[m].start \in Nat /\ row'[m].start <= feed[m].start
    <3>1. CASE m = e.match
      BY <1>2, <1>5, <1>6, <3>1
    <3>2. CASE m # e.match
      BY <1>6, <3>2 DEF DateInv, RowShape, EventTable, CopiesAreNotLater
    <3> QED
      BY <3>1, <3>2
  <2> QED
    BY <1>7, <2>1, Zenon DEF RowShape, EventTable
<1>9. CopiesAreNotLater'
  <2>1. \A m \in Matches : row'[m].start <= feed[m].start
    BY <1>2, <1>5, <1>6 DEF DateInv, CopiesAreNotLater
  <2>2. listing'.events \subseteq listing.events
    BY <1>4
  <2> QED
    BY <1>4, <2>1, <2>2 DEF DateInv, CopiesAreNotLater
<1>10. ListingShape'
  <2>1. /\ listing'.sports = listing.sports /\ listing'.events = listing.events \ {e}
        /\ listing'.markets = missing
    BY <1>4
  <2> QED
    BY <1>4, <2>1 DEF DateInv, ListingShape
<1>11. FeedShape' /\ BetShape' /\ BegunInTime'
  BY <1>1, <1>4 DEF DateInv, FeedShape, BetShape, BegunInTime
<1> QED
  BY <1>1, <1>8, <1>9, <1>10, <1>11 DEF DateInv

\* No step of EventSync makes a date later than the provider's.
LEMMA EventSyncKeepsDates ==
  ASSUME DateInv, EventSync
  PROVE  DateInv'
<1>0. listing = [sports |-> listing.sports, events |-> listing.events, markets |-> listing.markets]
  BY DEF DateInv, ListingShape
<1>1. CASE StartEventSync
  <2>1. listing' = [sports |-> Sports, events |-> {}, markets |-> {}] /\ UNCHANGED <<now, feed, row, bet>>
    BY <1>1 DEF StartEventSync, NoListing, Database
  <2>2. ListingShape' /\ listing'.events = {}
    BY <2>1 DEF ListingShape
  <2> QED
    BY <2>1, <2>2
       DEF DateInv, FeedShape, RowShape, EventTable, BetShape, BegunInTime, CopiesAreNotLater
<1>2. ASSUME NEW s \in Sports, GetEvents(s) PROVE DateInv'
  BY <1>2, GetEventsKeepsDates
<1>3. ASSUME SkipsListed PROVE DateInv'
  <2>1. UNCHANGED <<row, bet>>
    BY <1>3 DEF SkipsListed, Database
  <2>2. ASSUME NEW s, Lists([listing EXCEPT !.sports = @ \ {s}]) PROVE DateInv'
    <3>1. [listing EXCEPT !.sports = @ \ {s}] =
            [sports |-> listing.sports \ {s}, events |-> listing.events, markets |-> listing.markets]
      BY <1>0
    <3> QED
      BY <2>1, <2>2, <3>1, LessToList
  <2>3. ASSUME NEW e, Lists([listing EXCEPT !.events = @ \ {e}]) PROVE DateInv'
    <3>1. [listing EXCEPT !.events = @ \ {e}] =
            [sports |-> listing.sports, events |-> listing.events \ {e}, markets |-> listing.markets]
      BY <1>0
    <3> QED
      BY <2>1, <2>3, <3>1, LessToList
  <2>4. ASSUME Lists([listing EXCEPT !.markets = {}]) PROVE DateInv'
    <3>1. [listing EXCEPT !.markets = {}] =
            [sports |-> listing.sports, events |-> listing.events, markets |-> {}]
      BY <1>0
    <3> QED
      BY <2>1, <2>4, <3>1, LessToList
  <2> QED
    BY <1>3, <2>2, <2>3, <2>4, Zenon DEF SkipsListed
<1>4. ASSUME NEW e \in listing.events, UpsertEvent(e) PROVE DateInv'
  BY <1>4, UpsertKeepsDates
<1>5. ASSUME NEW m, NEW t, CreateMarket(m, t) PROVE DateInv'
  <2>1. Lists([listing EXCEPT !.markets = @ \ {<<m, t>>}]) /\ UNCHANGED <<row, bet>>
    BY <1>5, Zenon DEF CreateMarket
  <2>2. [listing EXCEPT !.markets = @ \ {<<m, t>>}] =
          [sports |-> listing.sports, events |-> listing.events,
           markets |-> listing.markets \ {<<m, t>>}]
    BY <1>0
  <2> QED
    BY <2>1, <2>2, LessToList
<1>6. CASE EventSyncGivesUp
  <2>1. Lists([sports |-> {}, events |-> {}, markets |-> {}]) /\ UNCHANGED <<row, bet>>
    BY <1>6 DEF EventSyncGivesUp, NoListing, Database
  <2> QED
    BY <2>1, LessToList
<1> QED
  BY <1>1, <1>2, <1>3, <1>4, <1>5, <1>6 DEF EventSync

\* OddsSync writes markets and outcomes only.
LEMMA OddsSyncKeepsDates ==
  ASSUME DateInv, OddsSync
  PROVE  DateInv'
<1>1. UNCHANGED <<now, feed, listing, row, bet>>
  BY Zenon DEF OddsSync, ListForOddsSync, Quote, SkipsQuoted, Execute, OddsSyncGivesUp, Quotes, Database
<1> QED
  BY <1>1, DatesUnmoved

\* Nor does a settlement.
LEMMA SettlementKeepsDates ==
  ASSUME DateInv, Settlement
  PROVE  DateInv'
<1>1. CASE SettleEvent
  BY <1>1, PlanKeepsDates DEF SettleEvent, Settles
<1>2. CASE ~SettleEvent
  <2>1. UNCHANGED <<now, feed, listing, row, bet>>
    BY <1>2, Zenon
       DEF Settlement, ListForSettlement, GetEvent, SkipsSettled, SettlementGivesUp, Settles, Database
  <2> QED
    BY <2>1, DatesUnmoved
<1> QED
  BY <1>1, <1>2

\* A bet that commits is one more pending bet.
LEMMA CommitsABet ==
  ASSUME BetShape, NEW m \in Matches, NEW c \in Backed, bet' = [bet EXCEPT ![m][c] = "pending"]
  PROVE  BetShape' /\ \A x \in Matches, d \in Backed : bet'[x][d] \in {"pending", bet[x][d]}
BY DEF BetShape

\* Requests change no date either.
LEMMA RequestsKeepDates ==
  ASSUME DateInv, Requests
  PROVE  DateInv'
<1>1. UNCHANGED <<now, feed, listing>>
  BY Zenon DEF Requests, CancelEvent, CancelBuildsPlan, CancelApplies, CancelFails, Cancels, PlaceBet,
     PlaceBetReadsEvent, PlaceBetCommits, PlaceBetFails, Places, Workers
<1>2. ASSUME NEW p, CancelApplies(p) PROVE DateInv'
  BY <1>1, <1>2, PlanKeepsDates DEF CancelApplies
<1>3. ASSUME NEW m \in Matches, NEW c \in Backed, PlaceBetCommits(m, c) PROVE DateInv'
  <2>1. bet' = [bet EXCEPT ![m][c] = "pending"] /\ UNCHANGED row
    BY <1>3 DEF PlaceBetCommits, Places
  <2>2. BetShape'
    BY <2>1, CommitsABet DEF DateInv
  <2> QED
    BY <1>1, <2>1, <2>2
       DEF DateInv, FeedShape, RowShape, EventTable, ListingShape, BegunInTime, CopiesAreNotLater
<1>4. ASSUME UNCHANGED <<row, bet>> PROVE DateInv'
  BY <1>1, <1>4, DatesUnmoved
<1> QED
  BY <1>2, <1>3, <1>4, Zenon
     DEF Requests, CancelEvent, CancelBuildsPlan, CancelFails, PlaceBet, PlaceBetReadsEvent,
         PlaceBetFails, Places, Database

\* Every step.
LEMMA StepDates ==
  ASSUME DateInv, [Next]_vars
  PROVE  DateInv'
<1>1. CASE Tick
  <2>1. now' = now + 1 /\ UNCHANGED <<feed, listing, row, bet>>
    BY <1>1 DEF Tick, Database
  <2>2. now \in Nat /\ \A m \in Matches : feed[m].start \in Nat
    BY DEF DateInv, BegunInTime, FeedShape
  <2>3. BegunInTime'
    BY <2>1, <2>2 DEF DateInv, BegunInTime
  <2> QED
    BY <2>1, <2>3
       DEF DateInv, FeedShape, RowShape, EventTable, BetShape, ListingShape, CopiesAreNotLater
<1>2. ASSUME NEW m \in Matches,
             Postpone(m) \/ KickOff(m) \/ FinalWhistle(m) \/ ScoresArrive(m) \/ CallOff(m)
      PROVE  DateInv'
  BY <1>2, ProviderKeepsDates
<1>3. CASE EventSync
  BY <1>3, EventSyncKeepsDates
<1>4. CASE OddsSync
  BY <1>4, OddsSyncKeepsDates
<1>5. CASE Settlement
  BY <1>5, SettlementKeepsDates
<1>6. CASE Requests
  BY <1>6, RequestsKeepDates
<1>7. CASE UNCHANGED vars
  BY <1>7, DatesUnmoved DEF vars
<1> QED
  BY <1>1, <1>2, <1>3, <1>4, <1>5, <1>6, <1>7, Zenon DEF Next, World

-----------------------------------------------------------------------------
\* The requests for bets move only by their own steps.
LEMMA OnlyRequestsPlace ==
  ASSUME [Next]_vars
  PROVE  \/ UNCHANGED placing
         \/ \E m \in Matches, c \in Backed :
              \/ \E from, to : Places(m, c, from, to) /\ to # "checked"
              \/ PlaceBetReadsEvent(m, c)
<1>1. CASE World
  BY <1>1, Zenon DEF World, Tick, Postpone, KickOff, FinalWhistle, ScoresArrive, CallOff, Provider, Desk
<1>2. CASE EventSync
  BY <1>2, Zenon DEF EventSync, StartEventSync, GetEvents, SkipsListed, UpsertEvent, CreateMarket,
     EventSyncGivesUp, Lists, Desk
<1>3. CASE OddsSync
  BY <1>3, Zenon DEF OddsSync, ListForOddsSync, Quote, SkipsQuoted, Execute, OddsSyncGivesUp, Quotes, Desk
<1>4. CASE Settlement
  BY <1>4, Zenon DEF Settlement, ListForSettlement, GetEvent, SkipsSettled, SettleEvent,
     SettlementGivesUp, Settles, Desk
<1>5. CASE Requests
  <2>1. "market" # "checked" /\ "none" # "checked"
    OBVIOUS
  <2> QED
    BY <1>5, <2>1, Zenon DEF Requests, CancelEvent, CancelBuildsPlan, CancelApplies, CancelFails, Cancels,
       PlaceBet, PlaceBetCommits, PlaceBetFails
<1>6. CASE UNCHANGED vars
  BY <1>6 DEF vars
<1> QED
  BY <1>1, <1>2, <1>3, <1>4, <1>5, <1>6 DEF Next

PlacingShape == placing = [m \in Matches |-> [c \in Backed |-> placing[m][c]]]

\* What a step may do to the requests for bets.
ChecksInTime ==
  \A m \in Matches, c \in Backed :
    placing[m][c] # "checked" /\ placing'[m][c] = "checked" => feed[m].status \notin {"live", "settled"}

\* PlaceBet sees a date in the future, and the match's own is not earlier.
LEMMA StepPlacing ==
  ASSUME DateInv, PlacingShape, [Next]_vars
  PROVE  PlacingShape' /\ ChecksInTime
<1>1. CASE UNCHANGED placing
  BY <1>1 DEF PlacingShape, ChecksInTime
<1>2. ASSUME NEW m \in Matches, NEW c \in Backed, NEW from, NEW to, Places(m, c, from, to)
      PROVE  /\ PlacingShape'
             /\ \A x \in Matches, d \in Backed :
                  placing'[x][d] = IF x = m /\ d = c THEN to ELSE placing[x][d]
  <2>1. placing' = [placing EXCEPT ![m][c] = to]
    BY <1>2 DEF Places
  <2> QED
    BY <2>1 DEF PlacingShape
<1>3. ASSUME NEW m \in Matches, NEW c \in Backed, NEW from, NEW to, Places(m, c, from, to), to # "checked"
      PROVE  PlacingShape' /\ ChecksInTime
  BY <1>2, <1>3 DEF ChecksInTime
<1>4. ASSUME NEW m \in Matches, NEW c \in Backed, PlaceBetReadsEvent(m, c)
      PROVE  PlacingShape' /\ ChecksInTime
  <2>1. row[m].start > now /\ row[m].start <= feed[m].start /\ Places(m, c, "market", "checked")
    BY <1>4 DEF PlaceBetReadsEvent, TakesBets, DateInv, CopiesAreNotLater
  <2>2. now \in Nat /\ row[m].start \in Nat /\ feed[m].start \in Nat
    BY DEF DateInv, BegunInTime, RowShape, FeedShape
  <2>3. ~(feed[m].start <= now)
    BY <2>1, <2>2
  <2>4. feed[m].status \notin {"live", "settled"}
    BY <2>3 DEF DateInv, BegunInTime
  <2> QED
    BY <1>2, <2>1, <2>4 DEF ChecksInTime
<1> QED
  BY <1>1, <1>3, <1>4, OnlyRequestsPlace

\* ProviderSync.ChecksPrecedeKickOff for any matches, dates, lists that arrive late
\* and runs that are cut off: no bet passes PlaceBet's look at starts_at once its match
\* has begun, however old the row is, as long as the provider moves dates only forward.
\* A bet that passed it may commit later (PlaceBetCommits).
THEOREM ChecksAreInTime == Spec => ChecksPrecedeKickOff
<1>1. Init => PlacingShape
  BY DEF Init, PlacingShape
<1>2. DateInv /\ PlacingShape /\ [Next]_vars => (DateInv /\ PlacingShape)'
  BY StepDates, StepPlacing
<1>3. DateInv /\ PlacingShape /\ [Next]_vars =>
        [\A m \in Matches, c \in Backed :
           placing[m][c] # "checked" /\ placing'[m][c] = "checked" =>
             feed[m].status \notin {"live", "settled"}]_vars
  BY StepPlacing, Zenon DEF ChecksInTime
<1> QED
  BY InitDateInv, <1>1, <1>2, <1>3, PTL DEF Spec, ChecksPrecedeKickOff

-----------------------------------------------------------------------------
(***************************************************************************)
(* Settled matches.  The second invariant follows the runs and requests    *)
(* under way: what a list still to be upserted says, which matches a run of*)
(* OddsSync may still write to, and what a plan not yet applied will write.*)
(* Its heart is QuotingInTime: the time limit of a run keeps OddsSync away *)
(* from every match that is over.                                          *)
(***************************************************************************)
\* The markets a match has, the matches that can be decided, and how the score decides.
Markets(m) == {t \in Types : market[m][t] # <<>>}

Decidable(m) == feed[m].status = "settled" /\ feed[m].scores # <<>>

Verdict(m, c) ==
  ScoredResult(TypeOfCode[c], market[m][TypeOfCode[c]][1].line, c,
               feed[m].scores[1][1], feed[m].scores[1][2])

IsMarketRow(r) == \E status, line : r = <<[status |-> status, line |-> line]>>

MarketShape ==
  /\ market = [m \in Matches |-> [t \in Types |-> market[m][t]]]
  /\ \A m \in Matches : \A t \in Markets(m) : IsMarketRow(market[m][t])

ResultShape == result = [m \in Matches |-> [c \in Codes |-> result[m][c]]]

PhaseShape == phase = [j \in Tasks |-> phase[j]]

OutcomesHaveMarkets ==
  \A m \in Matches : \A c \in Existing(m) : TypeOfCode[c] \in Markets(m)

\* A match is over only after its date.
OverInTime == \A m \in Matches : feed[m].status = "settled" => feed[m].start < now

PaidByTheScore ==
  \A m \in Matches, c \in Backed :
    bet[m][c] \in {"won", "lost"} =>
      Decidable(m) /\ c \in Existing(m) /\ bet[m][c] = Verdict(m, c)

ShownByTheScore ==
  \A m \in Matches :
    row[m].status = "settled" =>
      /\ Decidable(m)
      /\ \A c \in Existing(m) :
           /\ result[m][c] = Verdict(m, c)
           /\ market[m][TypeOfCode[c]][1].status \notin {"open", "suspended"}

DataInv ==
  /\ MarketShape /\ ResultShape /\ OutcomesHaveMarkets
  /\ OverInTime /\ PaidByTheScore /\ ShownByTheScore

ListingFits ==
  /\ \A e \in listing.events : e.status # "settled"
  /\ \A m \in Matches, t \in Types : <<m, t>> \in listing.markets => t \notin Markets(m)

\* A statement of OddsSync is about a market that was there when it was made.
StatementFits(s, M) ==
  \/ s.op \in {"status", "line"} /\ s.market \in M
  \/ s.op = "upsert" /\ s.code \in Codes /\ TypeOfCode[s.code] \in M

Fitting(q, M) ==
  /\ q \in Seq({q[i] : i \in 1..Len(q)})
  /\ \A i \in 1..Len(q) : StatementFits(q[i], M)

QuotingFits ==
  /\ quoting = [matches |-> quoting.matches, match |-> quoting.match, todo |-> quoting.todo]
  /\ \/ quoting.match = <<>> /\ quoting.todo = <<>>
     \/ \E m \in Matches : quoting.match = <<m>> /\ Fitting(quoting.todo, Markets(m))

\* The run that works on a match began before its kick-off.
OddsWork(m) == m \in quoting.matches \/ quoting.match = <<m>>

QuotingInTime ==
  \A m \in Matches :
    OddsWork(m) => \/ phase["odds-sync"] = "fresh" /\ now < feed[m].start
                   \/ phase["odds-sync"] = "late" /\ now <= feed[m].start

\* What a plan decides is what the score says of every outcome there is.
PlanFits(p) ==
  /\ p.match \in Matches
  /\ DOMAIN p.markets \subseteq Markets(p.match)
  /\ \A t \in DOMAIN p.markets : p.markets[t] \in {"settled", "void"}
  /\ DOMAIN p.results \subseteq Existing(p.match)
  /\ \/ p.final = "cancelled" /\ \A c \in DOMAIN p.results : p.results[c] = "void"
     \/ /\ p.final = "settled" /\ Decidable(p.match)
        /\ \A c \in Existing(p.match) :
             /\ c \in DOMAIN p.results /\ TypeOfCode[c] \in DOMAIN p.markets
             /\ p.results[c] = Verdict(p.match, c)

SettlingFits ==
  /\ settling = [matches |-> settling.matches, plan |-> settling.plan]
  /\ settling.plan = <<>> \/ \E p : settling.plan = <<p>> /\ PlanFits(p)

CancellingFits ==
  /\ cancelling = [matches |-> cancelling.matches, plans |-> cancelling.plans]
  /\ cancelling.matches \subseteq Matches
  /\ \A p \in cancelling.plans : PlanFits(p)

SyncInv ==
  /\ DataInv /\ PhaseShape /\ ListingFits
  /\ QuotingFits /\ QuotingInTime /\ SettlingFits /\ CancellingFits

\* What every step leaves of a match.
Grows(m) ==
  /\ Markets(m) \subseteq Markets(m)' /\ Existing(m) \subseteq Existing(m)'
  /\ Decidable(m) => /\ Decidable(m)' /\ feed'[m].scores = feed[m].scores
                     /\ Existing(m)' = Existing(m)
                     /\ \A t \in Markets(m) : market'[m][t][1].line = market[m][t][1].line

-----------------------------------------------------------------------------
\* Once decidable, a match is decided the same way ever after.
LEMMA VerdictStays ==
  ASSUME NEW m \in Matches, OutcomesHaveMarkets, Grows(m), Decidable(m), NEW c \in Existing(m)
  PROVE  Verdict(m, c)' = Verdict(m, c)
BY DEF Verdict, Grows, OutcomesHaveMarkets

\* A score decides every outcome one way or another.
LEMMA VerdictIsResult ==
  ASSUME NEW m, NEW c
  PROVE  Verdict(m, c) \in Results
BY DEF Verdict, ScoredResult, applyMLPlan, applyTotalsPlan, Results

\* A plan that waits for its transaction still says what the score says.
LEMMA PlanStays ==
  ASSUME NEW p, PlanFits(p), OutcomesHaveMarkets, Grows(p.match)
  PROVE  PlanFits(p)'
<1>1. p.match \in Matches
  BY DEF PlanFits
<1>2. \A c \in Existing(p.match) : Decidable(p.match) => Verdict(p.match, c)' = Verdict(p.match, c)
  BY <1>1, VerdictStays
<1> QED
  BY <1>1, <1>2 DEF PlanFits, Grows

\* What was paid stays as the score says.
LEMMA PaidStays ==
  ASSUME DataInv, \A m \in Matches : Grows(m), UNCHANGED bet
  PROVE  PaidByTheScore'
<1> SUFFICES ASSUME NEW m \in Matches, NEW c \in Backed, bet[m][c] \in {"won", "lost"}
             PROVE  Decidable(m)' /\ c \in Existing(m)' /\ bet[m][c] = Verdict(m, c)'
  BY DEF PaidByTheScore
<1>1. Decidable(m) /\ c \in Existing(m) /\ bet[m][c] = Verdict(m, c) /\ OutcomesHaveMarkets /\ Grows(m)
  BY DEF DataInv, PaidByTheScore
<1> QED
  BY <1>1, VerdictStays DEF Grows

\* So do the plans that the settlement worker and the administrators have in hand.
LEMMA PlansStay ==
  ASSUME SettlingFits, CancellingFits, OutcomesHaveMarkets, \A m \in Matches : Grows(m)
  PROVE  (UNCHANGED settling => SettlingFits') /\ (UNCHANGED cancelling => CancellingFits')
<1>1. ASSUME NEW p, PlanFits(p) PROVE PlanFits(p)'
  BY <1>1, PlanStays DEF PlanFits
<1> QED
  BY <1>1 DEF SettlingFits, CancellingFits

\* A statement fits as long as its market exists.
LEMMA FittingGrows ==
  ASSUME NEW q, NEW M, NEW N, M \subseteq N, Fitting(q, M)
  PROVE  Fitting(q, N)
BY DEF Fitting, StatementFits

\* And so does the list of statements OddsSync has in hand.
LEMMA QuotingStays ==
  ASSUME QuotingFits, \A m \in Matches : Grows(m), UNCHANGED quoting
  PROVE  QuotingFits'
<1>1. ASSUME NEW m \in Matches, Fitting(quoting.todo, Markets(m)) PROVE Fitting(quoting.todo, Markets(m)')
  BY <1>1, FittingGrows DEF Grows
<1> QED
  BY <1>1 DEF QuotingFits

\* Steps that leave the database and the provider alone.
LEMMA SameData ==
  ASSUME DataInv, UNCHANGED <<now, feed, row, market, result, bet>>
  PROVE  /\ DataInv' /\ \A m \in Matches : Grows(m)
         /\ ListingFits /\ UNCHANGED listing => ListingFits'
         /\ QuotingFits /\ UNCHANGED quoting => QuotingFits'
         /\ QuotingInTime /\ UNCHANGED quoting /\ phase'["odds-sync"] = phase["odds-sync"] => QuotingInTime'
         /\ SettlingFits /\ CancellingFits =>
              (UNCHANGED settling => SettlingFits') /\ (UNCHANGED cancelling => CancellingFits')
<1>1. \A m \in Matches : Grows(m)
  BY DEF Grows, Markets, Existing, Decidable
<1>2. DataInv'
  <2>1. MarketShape' /\ ResultShape' /\ OutcomesHaveMarkets' /\ OverInTime'
    BY DEF DataInv, MarketShape, Markets, ResultShape, OutcomesHaveMarkets, Existing, OverInTime
  <2>2. PaidByTheScore' /\ ShownByTheScore'
    BY DEF DataInv, PaidByTheScore, ShownByTheScore, Decidable, Existing, Verdict
  <2> QED
    BY <2>1, <2>2 DEF DataInv
<1>3. ListingFits /\ UNCHANGED listing => ListingFits'
  BY DEF ListingFits, Markets
<1>4. QuotingInTime /\ UNCHANGED quoting /\ phase'["odds-sync"] = phase["odds-sync"] => QuotingInTime'
  BY DEF QuotingInTime, OddsWork
<1> QED
  BY <1>1, <1>2, <1>3, <1>4, QuotingStays, PlansStay DEF DataInv

-----------------------------------------------------------------------------
\* Nothing is known at the beginning.
LEMMA InitSyncInv == Init => SyncInv
<1> SUFFICES ASSUME Init PROVE SyncInv
  OBVIOUS
<1>1. /\ market = [m \in Matches |-> [t \in Types |-> <<>>]]
      /\ \A m \in Matches : Markets(m) = {}
  BY DEF Init, Markets
<1>2. MarketShape
  BY <1>1 DEF MarketShape
<1>3. ResultShape /\ \A m \in Matches : Existing(m) = {}
  BY DEF Init, ResultShape, Existing
<1>4. OutcomesHaveMarkets
  BY <1>3 DEF OutcomesHaveMarkets
<1>5. OverInTime
  BY DEF Init, OverInTime
<1>6. PaidByTheScore /\ ShownByTheScore
  BY DEF Init, PaidByTheScore, ShownByTheScore
<1>7. PhaseShape /\ ListingFits
  BY DEF Init, PhaseShape, ListingFits, NoListing
<1>8. QuotingFits /\ QuotingInTime
  <2>1. quoting = [matches |-> {}, match |-> <<>>, todo |-> <<>>]
    BY DEF Init, NoQuoting
  <2>2. quoting.matches = {} /\ quoting.match = <<>> /\ quoting.todo = <<>>
    BY <2>1
  <2>3. \A m \in Matches : ~OddsWork(m)
    BY <2>2 DEF OddsWork
  <2> QED
    BY <2>1, <2>2, <2>3 DEF QuotingFits, QuotingInTime
<1>9. SettlingFits
  BY DEF Init, NoSettling, NoPlan, SettlingFits
<1>10. CancellingFits
  BY DEF Init, NoCancelling, CancellingFits
<1> QED
  BY <1>2, <1>3, <1>4, <1>5, <1>6, <1>7, <1>8, <1>9, <1>10 DEF SyncInv, DataInv

-----------------------------------------------------------------------------
\* The clock and the provider: a match that is over with its score stays so.
LEMMA WorldKeepsStory ==
  ASSUME DateInv, SyncInv, UNCHANGED <<row, market, result, bet, listing, quoting, settling, cancelling>>,
         PhaseShape', OverInTime', QuotingInTime',
         \A m \in Matches : Decidable(m) => Decidable(m)' /\ feed'[m].scores = feed[m].scores
  PROVE  SyncInv'
<1>1. \A m \in Matches : Grows(m)
  BY DEF Grows, Markets, Existing
<1>2. MarketShape' /\ ResultShape' /\ OutcomesHaveMarkets'
  BY DEF SyncInv, DataInv, MarketShape, Markets, ResultShape, OutcomesHaveMarkets, Existing
<1>3. PaidByTheScore'
  BY <1>1, PaidStays DEF SyncInv
<1>4. ShownByTheScore'
  <2> SUFFICES ASSUME NEW m \in Matches, row[m].status = "settled"
               PROVE  /\ Decidable(m)'
                      /\ \A c \in Existing(m)' :
                           /\ result[m][c] = Verdict(m, c)'
                           /\ market[m][TypeOfCode[c]][1].status \notin {"open", "suspended"}
    BY DEF ShownByTheScore
  <2>1. Decidable(m) /\ Existing(m)' = Existing(m) /\ OutcomesHaveMarkets
    BY DEF SyncInv, DataInv, ShownByTheScore, Existing
  <2>2. \A c \in Existing(m) : Verdict(m, c)' = Verdict(m, c)
    BY <1>1, <2>1, VerdictStays
  <2> QED
    BY <2>1, <2>2 DEF SyncInv, DataInv, ShownByTheScore
<1>5. ListingFits'
  BY DEF SyncInv, ListingFits, Markets
<1>6. QuotingFits' /\ SettlingFits' /\ CancellingFits'
  BY <1>1, QuotingStays, PlansStay DEF SyncInv, DataInv
<1> QED
  BY <1>2, <1>3, <1>4, <1>5, <1>6 DEF SyncInv, DataInv

\* Steps of the provider at one match.
LEMMA ProviderKeepsStory ==
  ASSUME DateInv, SyncInv, NEW m \in Matches, NEW statuses, NEW news, Provider(m, statuses, news),
         feed[m].start <= news.start, news.start \in Nat,
         news.status = "settled" => news.start < now,
         ~Decidable(m)
  PROVE  SyncInv'
<1>1. /\ feed' = [feed EXCEPT ![m] = news]
      /\ UNCHANGED <<now, row, market, result, bet, phase, listing, quoting, settling, cancelling>>
  BY DEF Provider, Database, Workers, Desk
<1>2. feed'[m] = news /\ \A x \in Matches : x # m => feed'[x] = feed[x]
  BY <1>1 DEF DateInv, FeedShape
<1>3. PhaseShape' /\ OverInTime'
  BY <1>1, <1>2 DEF SyncInv, DataInv, PhaseShape, OverInTime
<1>4. QuotingInTime'
  <2> SUFFICES ASSUME NEW x \in Matches, OddsWork(x)
               PROVE  \/ phase["odds-sync"] = "fresh" /\ now < feed'[x].start
                      \/ phase["odds-sync"] = "late" /\ now <= feed'[x].start
    BY <1>1 DEF QuotingInTime, OddsWork
  <2>1. now \in Nat /\ feed[x].start \in Nat /\ feed'[x].start \in Nat /\ feed[x].start <= feed'[x].start
    BY <1>2 DEF DateInv, FeedShape, BegunInTime
  <2> QED
    BY <2>1 DEF SyncInv, QuotingInTime
<1>5. \A x \in Matches : Decidable(x) => Decidable(x)' /\ feed'[x].scores = feed[x].scores
  BY <1>2 DEF Decidable
<1> QED
  BY <1>1, <1>3, <1>4, <1>5, WorldKeepsStory

\* No step of the clock or the provider changes a final score.
LEMMA WorldSync ==
  ASSUME DateInv, SyncInv, World
  PROVE  SyncInv'
<1>1. CASE Tick
  <2>1. /\ now' = now + 1 /\ phase' = [j \in Tasks |-> IF phase[j] = "fresh" THEN "late" ELSE phase[j]]
        /\ UNCHANGED <<feed, row, market, result, bet, listing, quoting, settling, cancelling>>
        /\ phase["odds-sync"] # "late"
    BY <1>1 DEF Tick, Database, Desk, Tasks
  <2>2. now \in Nat /\ \A m \in Matches : feed[m].start \in Nat
    BY DEF DateInv, FeedShape, BegunInTime
  <2>3. OverInTime'
    BY <2>1, <2>2 DEF SyncInv, DataInv, OverInTime
  <2>4. phase'["odds-sync"] = IF phase["odds-sync"] = "fresh" THEN "late" ELSE phase["odds-sync"]
    BY <2>1 DEF Tasks
  <2>5. QuotingInTime'
    BY <2>1, <2>2, <2>4 DEF SyncInv, QuotingInTime, OddsWork
  <2>6. PhaseShape' /\ \A m \in Matches : Decidable(m) => Decidable(m)' /\ feed'[m].scores = feed[m].scores
    BY <2>1 DEF PhaseShape, Decidable
  <2> QED
    BY <2>1, <2>3, <2>5, <2>6, WorldKeepsStory
<1>2. ASSUME NEW m \in Matches,
             Postpone(m) \/ KickOff(m) \/ FinalWhistle(m) \/ ScoresArrive(m) \/ CallOff(m)
      PROVE  SyncInv'
  <2>1. /\ feed[m] = [status |-> feed[m].status, scores |-> feed[m].scores, start |-> feed[m].start]
        /\ feed[m].start \in Nat /\ now \in Nat
        /\ feed[m].status = "settled" => feed[m].start < now
    BY DEF DateInv, FeedShape, BegunInTime, SyncInv, DataInv, OverInTime
  <2>2. CASE Postpone(m)
    <3>1. PICK start \in KickOffs :
            start > feed[m].start /\ Provider(m, {"pending"}, [feed[m] EXCEPT !.start = start])
      BY <2>2 DEF Postpone
    <3>2. start \in Nat /\ feed[m].status = "pending"
      BY <3>1, SyncConstantsOK DEF Provider
    <3>3. [feed[m] EXCEPT !.start = start] = [status |-> "pending", scores |-> feed[m].scores, start |-> start]
      BY <2>1, <3>2
    <3> QED
      BY <2>1, <3>1, <3>2, <3>3, ProviderKeepsStory DEF Decidable
  <2>3. CASE KickOff(m)
    <3>1. PICK s \in Reported(LiveScores) :
            Provider(m, {"pending"}, [feed[m] EXCEPT !.status = "live", !.scores = s])
      BY <2>3 DEF KickOff
    <3>2. [feed[m] EXCEPT !.status = "live", !.scores = s] =
            [status |-> "live", scores |-> s, start |-> feed[m].start]
      BY <2>1, TwoColumns, ZenonT(60)
    <3>3. feed[m].status = "pending"
      BY <3>1 DEF Provider
    <3> QED
      BY <2>1, <3>1, <3>2, <3>3, ProviderKeepsStory DEF Decidable
  <2>4. CASE FinalWhistle(m)
    <3>1. PICK s \in Reported(Scores) :
            Provider(m, {"live"}, [feed[m] EXCEPT !.status = "settled", !.scores = s])
      BY <2>4 DEF FinalWhistle
    <3>2. [feed[m] EXCEPT !.status = "settled", !.scores = s] =
            [status |-> "settled", scores |-> s, start |-> feed[m].start]
      BY <2>1, TwoColumns, ZenonT(60)
    <3>3. now > feed[m].start
      BY <2>4, Zenon DEF FinalWhistle
    <3>4. feed[m].status = "live" /\ feed[m].start < now
      BY <2>1, <3>1, <3>3 DEF Provider
    <3> QED
      BY <2>1, <3>1, <3>2, <3>4, ProviderKeepsStory DEF Decidable
  <2>5. CASE ScoresArrive(m)
    <3>1. PICK s \in Scores : Provider(m, {"settled"}, [feed[m] EXCEPT !.scores = <<s>>])
      BY <2>5 DEF ScoresArrive
    <3>2. [feed[m] EXCEPT !.scores = <<s>>] =
            [status |-> feed[m].status, scores |-> <<s>>, start |-> feed[m].start]
      BY <2>1
    <3>3. feed[m].scores = <<>>
      BY <2>5 DEF ScoresArrive
    <3> QED
      BY <2>1, <3>1, <3>2, <3>3, ProviderKeepsStory DEF Decidable
  <2>6. CASE CallOff(m)
    <3>1. Provider(m, {"pending", "live"}, [feed[m] EXCEPT !.status = "cancelled", !.scores = <<>>])
      BY <2>6 DEF CallOff
    <3>2. [feed[m] EXCEPT !.status = "cancelled", !.scores = <<>>] =
            [status |-> "cancelled", scores |-> <<>>, start |-> feed[m].start]
      BY <2>1, TwoColumns, ZenonT(60)
    <3>3. feed[m].status \in {"pending", "live"}
      BY <3>1 DEF Provider
    <3> QED
      BY <2>1, <3>1, <3>2, <3>3, ProviderKeepsStory DEF Decidable
  <2> QED
    BY <1>2, <2>2, <2>3, <2>4, <2>5, <2>6
<1> QED
  BY <1>1, <1>2 DEF World

-----------------------------------------------------------------------------
\* EventSync, except for its two INSERTs, changes only what is left to do.
LEMMA ListsKeepsStory ==
  ASSUME SyncInv, NEW next, Lists(next), UNCHANGED <<row, market, result, bet>>,
         \A e \in next.events : e.status # "settled",
         \A m \in Matches, t \in Types : <<m, t>> \in next.markets => t \notin Markets(m)
  PROVE  SyncInv'
<1>1. /\ listing' = next
      /\ phase' = [phase EXCEPT !["event-sync"] = phase'["event-sync"]]
      /\ UNCHANGED <<now, feed, quoting, settling, cancelling>>
  BY DEF Lists, After, Desk, SyncInv, PhaseShape, Tasks
<1>2. PhaseShape' /\ phase'["odds-sync"] = phase["odds-sync"]
  BY <1>1 DEF SyncInv, PhaseShape, Tasks
<1>3. ListingFits'
  BY <1>1 DEF ListingFits, Markets
<1> QED
  BY <1>1, <1>2, <1>3, SameData DEF SyncInv

\* The upsert may take a match back from settled, never make it so.
LEMMA UpsertSync ==
  ASSUME DateInv, SyncInv, NEW e \in listing.events, UpsertEvent(e)
  PROVE  SyncInv'
<1> DEFINE missing == {<<e.match, t>> : t \in {t \in Types : market[e.match][t] = <<>>}}
<1>1. /\ row' = [row EXCEPT ![e.match] = Upserted(row[e.match], e)]
      /\ Lists([listing EXCEPT !.events = @ \ {e}, !.markets = missing])
      /\ UNCHANGED <<market, result, bet>>
  BY Zenon DEF UpsertEvent
<1>2. /\ e.match \in Matches
      /\ listing = [sports |-> listing.sports, events |-> listing.events, markets |-> listing.markets]
  BY DEF DateInv, ListingShape
<1>3. \A m \in Matches, t \in Types : <<m, t>> \in missing => t \notin Markets(m)
  BY DEF Markets
<1> HIDE DEF missing
<1>4. /\ listing'.events = listing.events \ {e} /\ listing'.markets = missing
      /\ phase' = [phase EXCEPT !["event-sync"] = phase'["event-sync"]]
      /\ UNCHANGED <<now, feed, quoting, settling, cancelling>>
  <2>1. listing' = [listing EXCEPT !.events = @ \ {e}, !.markets = missing]
    BY <1>1, Zenon DEF Lists
  <2>2. listing'.events = listing.events \ {e} /\ listing'.markets = missing
    BY <1>2, <2>1
  <2> QED
    BY <1>1, <2>2 DEF Lists, After, Desk, SyncInv, PhaseShape, Tasks
<1>5. ListingFits'
  BY <1>1, <1>3, <1>4 DEF SyncInv, ListingFits, Markets
<1>6. \A m \in Matches : row'[m].status = "settled" => row[m].status = "settled"
  <2>1. e.status # "settled" /\ Upserted(row[e.match], e).status = e.status
    BY DEF SyncInv, ListingFits, Upserted
  <2>2. \A m \in Matches : row'[m] = IF m = e.match THEN Upserted(row[m], e) ELSE row[m]
    BY <1>1, Zenon DEF DateInv, RowShape, EventTable
  <2> QED
    BY <2>1, <2>2
<1>7. PhaseShape' /\ phase'["odds-sync"] = phase["odds-sync"]
  BY <1>4 DEF SyncInv, PhaseShape, Tasks
<1>8. \A m \in Matches : Grows(m)
  BY <1>1, <1>4 DEF Grows, Markets, Existing, Decidable
<1>9. DataInv'
  <2>1. MarketShape' /\ ResultShape' /\ OutcomesHaveMarkets' /\ OverInTime'
    BY <1>1, <1>4 DEF SyncInv, DataInv, MarketShape, Markets, ResultShape, OutcomesHaveMarkets, Existing, OverInTime
  <2>2. ShownByTheScore'
    BY <1>1, <1>4, <1>6 DEF SyncInv, DataInv, ShownByTheScore, Decidable, Existing, Verdict
  <2>3. PaidByTheScore'
    BY <1>1, <1>8, PaidStays DEF SyncInv
  <2> QED
    BY <2>1, <2>2, <2>3 DEF DataInv
<1>10. QuotingInTime'
  BY <1>4, <1>7 DEF SyncInv, QuotingInTime, OddsWork
<1> QED
  BY <1>4, <1>5, <1>7, <1>8, <1>9, <1>10, QuotingStays, PlansStay DEF SyncInv, DataInv

\* A market made now is one that was missing: nothing of the match refers to it yet.
LEMMA CreateMarketSync ==
  ASSUME DateInv, SyncInv, NEW m \in Matches, NEW t \in Types, CreateMarket(m, t)
  PROVE  SyncInv'
<1>1. /\ <<m, t>> \in listing.markets
      /\ market' = [market EXCEPT ![m][t] = <<[status |-> "open", line |-> <<>>]>>]
      /\ Lists([listing EXCEPT !.markets = @ \ {<<m, t>>}])
      /\ UNCHANGED <<row, result, bet>>
  BY Zenon DEF CreateMarket
<1>2. listing = [sports |-> listing.sports, events |-> listing.events, markets |-> listing.markets]
  BY DEF DateInv, ListingShape
<1>3. /\ listing'.events = listing.events /\ listing'.markets = listing.markets \ {<<m, t>>}
      /\ phase' = [phase EXCEPT !["event-sync"] = phase'["event-sync"]]
      /\ UNCHANGED <<now, feed, quoting, settling, cancelling>>
  BY <1>1, <1>2 DEF Lists, After, Desk, SyncInv, PhaseShape, Tasks
<1>4. t \notin Markets(m)
  BY <1>1 DEF SyncInv, ListingFits
<1>5. \A x \in Matches, y \in Types :
        market'[x][y] = IF x = m /\ y = t THEN <<[status |-> "open", line |-> <<>>]>> ELSE market[x][y]
  BY <1>1 DEF SyncInv, DataInv, MarketShape
<1>6. \A x \in Matches : /\ Markets(x) \subseteq Markets(x)'
                         /\ \A y \in Markets(x) : market'[x][y] = market[x][y]
                         /\ \A y \in Markets(x)' : y \in Markets(x) \/ (x = m /\ y = t)
  BY <1>4, <1>5 DEF Markets
<1>7. MarketShape'
  <2>1. market' = [x \in Matches |-> [y \in Types |-> market'[x][y]]]
    BY <1>1 DEF SyncInv, DataInv, MarketShape
  <2>2. IsMarketRow(<<[status |-> "open", line |-> <<>>]>>)
    BY DEF IsMarketRow
  <2>3. ASSUME NEW x \in Matches, NEW y \in Markets(x)' PROVE IsMarketRow(market'[x][y])
    <3>1. CASE y \in Markets(x)
      <4>1. IsMarketRow(market[x][y]) /\ market'[x][y] = market[x][y]
        BY <1>6, <3>1 DEF SyncInv, DataInv, MarketShape
      <4> QED
        BY <4>1, Zenon
    <3>2. CASE x = m /\ y = t
      BY <1>5, <2>2, <3>2, Zenon
    <3> QED
      BY <1>6, <3>1, <3>2, Zenon
  <2> QED
    BY <2>1, <2>3, Zenon DEF MarketShape
<1>8. \A x \in Matches : Grows(x)
  BY <1>1, <1>3, <1>6 DEF Grows, Existing, Decidable
<1>9. ResultShape' /\ OutcomesHaveMarkets' /\ OverInTime'
  BY <1>1, <1>3, <1>6 DEF SyncInv, DataInv, ResultShape, OutcomesHaveMarkets, Existing, OverInTime
<1>10. PaidByTheScore'
  BY <1>1, <1>8, PaidStays DEF SyncInv
<1>11. ShownByTheScore'
  <2> SUFFICES ASSUME NEW x \in Matches, row[x].status = "settled"
               PROVE  /\ Decidable(x)'
                      /\ \A c \in Existing(x)' :
                           /\ result[x][c] = Verdict(x, c)'
                           /\ market'[x][TypeOfCode[c]][1].status \notin {"open", "suspended"}
    BY <1>1 DEF ShownByTheScore
  <2>1. Decidable(x) /\ Existing(x)' = Existing(x) /\ OutcomesHaveMarkets
    BY <1>1 DEF SyncInv, DataInv, ShownByTheScore, Existing
  <2>2. \A c \in Existing(x) : Verdict(x, c)' = Verdict(x, c)
    BY <1>8, <2>1, VerdictStays
  <2>3. \A c \in Existing(x) : market'[x][TypeOfCode[c]] = market[x][TypeOfCode[c]]
    BY <1>6, <2>1 DEF OutcomesHaveMarkets
  <2>4. Decidable(x)'
    BY <1>8, <2>1 DEF Grows
  <2> QED
    BY <2>1, <2>2, <2>3, <2>4 DEF SyncInv, DataInv, ShownByTheScore
<1>12. ListingFits'
  BY <1>3, <1>6 DEF SyncInv, ListingFits
<1>13. PhaseShape' /\ QuotingInTime'
  BY <1>3 DEF SyncInv, PhaseShape, Tasks, QuotingInTime, OddsWork
<1> QED
  BY <1>3, <1>7, <1>8, <1>9, <1>10, <1>11, <1>12, <1>13, QuotingStays, PlansStay DEF SyncInv, DataInv

\* All of EventSync.
LEMMA EventSyncSync ==
  ASSUME DateInv, SyncInv, EventSync
  PROVE  SyncInv'
<1>b. listing = [sports |-> listing.sports, events |-> listing.events, markets |-> listing.markets]
  BY DEF DateInv, ListingShape
<1>0. /\ \A e \in listing.events : e.status # "settled"
      /\ \A m \in Matches, t \in Types : <<m, t>> \in listing.markets => t \notin Markets(m)
  BY DEF SyncInv, ListingFits
<1>a. ASSUME NEW sports, NEW events, NEW markets, \A e \in events : e.status # "settled",
             markets \subseteq listing.markets,
             Lists([sports |-> sports, events |-> events, markets |-> markets]),
             UNCHANGED <<row, market, result, bet>>
      PROVE  SyncInv'
  <2> DEFINE next == [sports |-> sports, events |-> events, markets |-> markets]
  <2>1. Lists(next) /\ next.events = events /\ next.markets = markets
    BY <1>a
  <2> HIDE DEF next
  <2> QED
    BY <1>0, <1>a, <2>1, ListsKeepsStory
<1>1. CASE StartEventSync
  <2>1. /\ listing' = [sports |-> Sports, events |-> {}, markets |-> {}]
        /\ phase' = [phase EXCEPT !["event-sync"] = "fresh"]
        /\ UNCHANGED <<now, feed, quoting, settling, cancelling, row, market, result, bet>>
    BY <1>1 DEF StartEventSync, Begin, NoListing, Database, Desk
  <2>2. ListingFits' /\ PhaseShape' /\ phase'["odds-sync"] = phase["odds-sync"]
    BY <2>1 DEF ListingFits, SyncInv, PhaseShape, Tasks
  <2> QED
    BY <2>1, <2>2, SameData DEF SyncInv
<1>2. ASSUME NEW s \in Sports, GetEvents(s) PROVE SyncInv'
  <2> DEFINE listed == {[match |-> m, status |-> mapEventStatus(feed[m].status),
                         scores |-> feed[m].scores, start |-> feed[m].start] : m \in ListedBy(s)}
  <2>1. Lists([sports |-> listing.sports \ {s}, markets |-> {}, events |-> listed])
        /\ UNCHANGED <<row, market, result, bet>>
    BY <1>2, Zenon DEF GetEvents, Database
  <2>2. \A e \in listed : e.status # "settled"
    <3> SUFFICES ASSUME NEW m \in ListedBy(s) PROVE mapEventStatus(feed[m].status) # "settled"
      OBVIOUS
    <3> QED
      BY DEF ListedBy, eventSyncStatuses, mapEventStatus
  <2> HIDE DEF listed
  <2>3. [sports |-> listing.sports \ {s}, markets |-> {}, events |-> listed] =
          [sports |-> listing.sports \ {s}, events |-> listed, markets |-> {}]
    OBVIOUS
  <2> QED
    BY <1>a, <2>1, <2>2, <2>3
<1>3. CASE SkipsListed
  <2>1. UNCHANGED <<row, market, result, bet>>
    BY <1>3 DEF SkipsListed, Database
  <2>2. ASSUME NEW s, Lists([listing EXCEPT !.sports = @ \ {s}]) PROVE SyncInv'
    <3>1. [listing EXCEPT !.sports = @ \ {s}] =
            [sports |-> listing.sports \ {s}, events |-> listing.events, markets |-> listing.markets]
      BY <1>b
    <3> QED
      BY <1>0, <1>a, <2>1, <2>2, <3>1
  <2>3. ASSUME NEW e, Lists([listing EXCEPT !.events = @ \ {e}]) PROVE SyncInv'
    <3>1. [listing EXCEPT !.events = @ \ {e}] =
            [sports |-> listing.sports, events |-> listing.events \ {e}, markets |-> listing.markets]
      BY <1>b
    <3>2. \A d \in listing.events \ {e} : d.status # "settled"
      BY <1>0
    <3> QED
      BY <1>a, <2>1, <2>3, <3>1, <3>2
  <2>4. ASSUME Lists([listing EXCEPT !.markets = {}]) PROVE SyncInv'
    <3>1. [listing EXCEPT !.markets = {}] =
            [sports |-> listing.sports, events |-> listing.events, markets |-> {}]
      BY <1>b
    <3> QED
      BY <1>0, <1>a, <2>1, <2>4, <3>1
  <2> QED
    BY <1>3, <2>2, <2>3, <2>4, Zenon DEF SkipsListed
<1>4. ASSUME NEW e \in listing.events, UpsertEvent(e) PROVE SyncInv'
  BY <1>4, UpsertSync
<1>5. ASSUME NEW m \in Matches, NEW t \in Types, CreateMarket(m, t) PROVE SyncInv'
  BY <1>5, CreateMarketSync
<1>6. CASE EventSyncGivesUp
  <2>1. Lists([sports |-> {}, events |-> {}, markets |-> {}]) /\ UNCHANGED <<row, market, result, bet>>
    BY <1>6 DEF EventSyncGivesUp, NoListing, Database
  <2> QED
    BY <1>a, <2>1
<1> QED
  BY <1>1, <1>2, <1>3, <1>4, <1>5, <1>6 DEF EventSync

-----------------------------------------------------------------------------
\* Lists of statements about markets that exist.
LEMMA ElementsFit ==
  ASSUME NEW S, NEW q \in Seq(S), NEW M, \A s \in S : StatementFits(s, M)
  PROVE  Fitting(q, M)
<1>1. Len(q) \in Nat /\ q \in [1..Len(q) -> S]
  OBVIOUS
<1> DEFINE R == {q[i] : i \in 1..Len(q)}
<1>2. q \in [1..Len(q) -> R]
  BY <1>1
<1> HIDE DEF R
<1>3. q \in Seq(R)
  BY <1>1, <1>2
<1> QED
  BY <1>1, <1>3 DEF Fitting, R

\* The elements of a list that fits.
LEMMA FittingElements ==
  ASSUME NEW q, NEW M, Fitting(q, M)
  PROVE  \E S : q \in Seq(S) /\ \A s \in S : StatementFits(s, M)
BY DEF Fitting

\* Nothing to do fits.
LEMMA NoneFits ==
  ASSUME NEW M
  PROVE  Fitting(<<>>, M)
<1> DEFINE q == <<>>
           S == {}
<1>1. q \in Seq(S) /\ \A s \in S : StatementFits(s, M)
  OBVIOUS
<1> HIDE DEF q, S
<1>2. Fitting(q, M)
  BY <1>1, ElementsFit
<1> QED
  BY <1>2 DEF q

\* A single statement.
LEMMA OneFits ==
  ASSUME NEW s, NEW M, StatementFits(s, M)
  PROVE  Fitting(<<s>>, M)
<1> DEFINE q == <<s>>
           S == {s}
<1>1. q \in Seq(S) /\ \A x \in S : StatementFits(x, M)
  OBVIOUS
<1> HIDE DEF q, S
<1>2. Fitting(q, M)
  BY <1>1, ElementsFit
<1> QED
  BY <1>2 DEF q

\* One list after another.
LEMMA JoinFits ==
  ASSUME NEW p, NEW q, NEW M, Fitting(p, M), Fitting(q, M)
  PROVE  Fitting(p \o q, M)
<1>1. PICK S : p \in Seq(S) /\ \A s \in S : StatementFits(s, M)
  BY FittingElements
<1>2. PICK T : q \in Seq(T) /\ \A s \in T : StatementFits(s, M)
  BY FittingElements
<1> DEFINE U == S \cup T
<1>3. S \subseteq U /\ T \subseteq U /\ \A s \in U : StatementFits(s, M)
  BY <1>1, <1>2
<1> HIDE DEF U
<1>4. p \in Seq(U) /\ q \in Seq(U)
  BY <1>1, <1>2, <1>3
<1>5. p \o q \in Seq(U)
  BY <1>4
<1> QED
  BY <1>3, <1>5, ElementsFit

\* The first statement and the rest.
LEMMA TailFits ==
  ASSUME NEW q, NEW M, Fitting(q, M), q # <<>>
  PROVE  StatementFits(Head(q), M) /\ Fitting(Tail(q), M)
<1>1. PICK S : q \in Seq(S) /\ \A s \in S : StatementFits(s, M)
  BY FittingElements
<1>2. Head(q) \in S /\ Tail(q) \in Seq(S)
  BY <1>1
<1> QED
  BY <1>1, <1>2, ElementsFit

\* What applyEvent sends concerns the markets whose rows it was given.
LEMMA StatementsOfOneMarket ==
  ASSUME NEW M, NEW t \in {"ML", "TOTALS"}, t \in M, NEW row1, NEW want, NEW c \in Codes,
         TypeOfCode[c] = t, NEW raw
  PROVE  /\ Fitting(ensureStatus(t, row1, want), M)
         /\ Fitting(upsertIfQuoted(t, c, raw), M)
<1>1. StatementFits(SetStatus(t, want), M)
  BY DEF StatementFits, SetStatus
<1>2. \A price : StatementFits(Upsert(t, c, price), M)
  BY DEF StatementFits, Upsert
<1>3. \A price : Fitting(<<Upsert(t, c, price)>>, M)
  BY <1>2, OneFits
<1> QED
  BY <1>1, <1>3, OneFits, NoneFits, Zenon DEF ensureStatus, upsertIfQuoted

\* The market each code belongs to.
LEMMA CodeTypes ==
  /\ TypeOfCode["home"] = "ML" /\ TypeOfCode["draw"] = "ML" /\ TypeOfCode["away"] = "ML"
  /\ TypeOfCode["over"] = "TOTALS" /\ TypeOfCode["under"] = "TOTALS"
  /\ {"home", "draw", "away", "over", "under"} = Codes
BY DEF TypeOfCode, Codes

\* All statements of applyML concern the ML market.
LEMMA applyMLFits ==
  ASSUME NEW M, "ML" \in M, NEW row1, NEW lines
  PROVE  Fitting(applyML(row1, lines), M)
<1> DEFINE i == pickMLLine(lines)
           q1 == upsertIfQuoted("ML", "home", lines[i].home)
           q2 == upsertIfQuoted("ML", "draw", lines[i].draw)
           q3 == upsertIfQuoted("ML", "away", lines[i].away)
           q4 == ensureStatus("ML", row1, "open")
           q5 == ensureStatus("ML", row1, "suspended")
<1>1. Fitting(q1, M) /\ Fitting(q2, M) /\ Fitting(q3, M)
  BY CodeTypes, StatementsOfOneMarket
<1>2. Fitting(q4, M) /\ Fitting(q5, M)
  BY CodeTypes, StatementsOfOneMarket
<1>3. applyML(row1, lines) = IF i = 0 THEN q5 ELSE q1 \o q2 \o q3 \o q4
  BY Zenon DEF applyML
<1> HIDE DEF i, q1, q2, q3, q4, q5
<1>4. Fitting(((q1 \o q2) \o q3) \o q4, M)
  BY <1>1, <1>2, JoinFits
<1> QED
  BY <1>2, <1>3, <1>4, Zenon

\* All statements of applyTotals concern the TOTALS market.
LEMMA applyTotalsFits ==
  ASSUME NEW M, "TOTALS" \in M, NEW row1, NEW lines
  PROVE  Fitting(applyTotals(row1, lines), M)
<1> DEFINE i == pickMainTotalsLine(lines)
           q1 == IF row1.line = lines[i].hdp THEN <<>> ELSE <<SetLine(lines[i].hdp)>>
           u1 == Upsert("TOTALS", "over", lines[i].over[1])
           u2 == Upsert("TOTALS", "under", lines[i].under[1])
           q2 == <<u1, u2>>
           S  == {u1, u2}
           q4 == ensureStatus("TOTALS", row1, "open")
           q5 == ensureStatus("TOTALS", row1, "suspended")
<1>1. Fitting(q1, M)
  <2>1. StatementFits(SetLine(lines[i].hdp), M)
    BY DEF StatementFits, SetLine
  <2> QED
    BY <2>1, OneFits, NoneFits, Zenon
<1>2. StatementFits(u1, M) /\ StatementFits(u2, M)
  BY CodeTypes DEF StatementFits, Upsert
<1>3. Fitting(q4, M) /\ Fitting(q5, M)
  BY CodeTypes, StatementsOfOneMarket
<1>4. applyTotals(row1, lines) = IF i = 0 THEN q5 ELSE q1 \o q2 \o q4
  BY Zenon DEF applyTotals
<1> HIDE DEF i, q1, u1, u2, q4, q5
<1>5. q2 \in Seq(S) /\ \A s \in S : StatementFits(s, M)
  BY <1>2
<1> HIDE DEF q2, S
<1>6. Fitting(q2, M)
  BY <1>5, ElementsFit
<1>7. Fitting((q1 \o q2) \o q4, M)
  BY <1>1, <1>3, <1>6, JoinFits
<1> QED
  BY <1>3, <1>4, <1>7, Zenon

\* A market that is not there gets no statement.
LEMMA applyMarketFits ==
  ASSUME NEW M, NEW t \in {"ML", "TOTALS"}, NEW r, r # <<>> => t \in M, NEW offer
  PROVE  Fitting(applyMarket(t, r, offer), M)
<1>1. CASE r = <<>>
  BY <1>1, NoneFits DEF applyMarket
<1>2. CASE r # <<>> /\ offer = <<>>
  <2>1. applyMarket(t, r, offer) = ensureStatus(t, r[1], "suspended")
    BY <1>2 DEF applyMarket
  <2>2. PICK c \in Codes : TypeOfCode[c] = t
    BY CodeTypes
  <2> QED
    BY <1>2, <2>1, <2>2, StatementsOfOneMarket
<1>3. CASE r # <<>> /\ offer # <<>>
  <2>1. CASE t = "ML"
    <3>1. applyMarket(t, r, offer) = applyML(r[1], offer[1].lines)
      BY <1>3, <2>1 DEF applyMarket
    <3> QED
      BY <1>3, <2>1, <3>1, applyMLFits
  <2>2. CASE t = "TOTALS"
    <3>1. applyMarket(t, r, offer) = applyTotals(r[1], offer[1].lines)
      BY <1>3, <2>2 DEF applyMarket
    <3> QED
      BY <1>3, <2>2, <3>1, applyTotalsFits
  <2> QED
    BY <2>1, <2>2
<1> QED
  BY <1>1, <1>2, <1>3

\* Whatever the provider answers, the statements are about markets read before.
LEMMA applyEventFits ==
  ASSUME NEW m \in Matches, NEW a
  PROVE  Fitting(applyEvent(Rows(m), a), Markets(m))
<1>1. \A t \in {"ML", "TOTALS"} : Rows(m)[t] # <<>> => t \in Markets(m)
  BY DEF Rows, Markets
<1>2. \A t \in {"ML", "TOTALS"} : \A offer : Fitting(applyMarket(t, Rows(m)[t], offer), Markets(m))
  BY <1>1, applyMarketFits
<1> QED
  BY <1>2, JoinFits DEF applyEvent

-----------------------------------------------------------------------------
\* While OddsSync works on a match, it is not over.
LEMMA WorkIsOnTime ==
  ASSUME DateInv, SyncInv, NEW m \in Matches, OddsWork(m)
  PROVE  ~Decidable(m) /\ row[m].status # "settled"
<1>1. now \in Nat /\ feed[m].start \in Nat /\ now <= feed[m].start
  BY DEF DateInv, BegunInTime, FeedShape, SyncInv, QuotingInTime
<1>2. feed[m].status # "settled"
  BY <1>1 DEF SyncInv, DataInv, OverInTime
<1> QED
  BY <1>2 DEF SyncInv, DataInv, ShownByTheScore, Decidable

\* Progress of a run: never a match it did not have before.
LEMMA QuotesKeepsStory ==
  ASSUME SyncInv, DataInv', \A m \in Matches : Grows(m) /\ Markets(m)' = Markets(m),
         NEW next, Quotes(next),
         next = [matches |-> next.matches, match |-> next.match, todo |-> next.todo],
         \/ next.match = <<>> /\ next.todo = <<>>
         \/ \E m \in Matches : next.match = <<m>> /\ Fitting(next.todo, Markets(m)),
         \A m \in Matches : m \in next.matches \/ next.match = <<m>> => OddsWork(m)
  PROVE  SyncInv'
<1>1. /\ quoting' = IF next.todo = <<>> THEN [next EXCEPT !.match = <<>>] ELSE next
      /\ phase' = [phase EXCEPT !["odds-sync"] = IF quoting' # NoQuoting THEN @ ELSE "idle"]
      /\ UNCHANGED <<now, feed, listing, settling, cancelling>>
  BY Zenon DEF Quotes, After, Desk
<1>2. /\ quoting' = [matches |-> quoting'.matches, match |-> quoting'.match, todo |-> quoting'.todo]
      /\ quoting'.matches = next.matches /\ quoting'.todo = next.todo
      /\ quoting'.match = IF next.todo = <<>> THEN <<>> ELSE next.match
  <2>1. CASE next.todo = <<>>
    <3>1. quoting' = [next EXCEPT !.match = <<>>]
      BY <1>1, <2>1
    <3>2. [next EXCEPT !.match = <<>>] = [matches |-> next.matches, match |-> <<>>, todo |-> next.todo]
      OBVIOUS
    <3> QED
      BY <2>1, <3>1, <3>2
  <2>2. CASE next.todo # <<>>
    BY <1>1, <2>2
  <2> QED
    BY <2>1, <2>2
<1>3. QuotingFits'
  BY <1>2 DEF QuotingFits
<1>4. PhaseShape'
  BY <1>1 DEF SyncInv, PhaseShape
<1>5. QuotingInTime'
  <2> SUFFICES ASSUME NEW m \in Matches, OddsWork(m)'
               PROVE  \/ phase'["odds-sync"] = "fresh" /\ now < feed[m].start
                      \/ phase'["odds-sync"] = "late" /\ now <= feed[m].start
    BY <1>1 DEF QuotingInTime
  <2>1. m \in quoting'.matches \/ quoting'.match = <<m>>
    BY DEF OddsWork
  <2>2. quoting' # NoQuoting
    <3>1. NoQuoting.matches = {} /\ NoQuoting.match = <<>> /\ <<m>> # <<>>
      BY DEF NoQuoting
    <3> QED
      BY <2>1, <3>1
  <2>3. phase'["odds-sync"] = phase["odds-sync"]
    BY <1>1, <2>2 DEF SyncInv, PhaseShape, Tasks
  <2>4. OddsWork(m)
    BY <1>2, <2>1
  <2> QED
    BY <2>3, <2>4 DEF SyncInv, QuotingInTime
<1>6. ListingFits' /\ SettlingFits' /\ CancellingFits'
  BY <1>1, PlansStay DEF SyncInv, DataInv, ListingFits
<1> QED
  BY <1>3, <1>4, <1>5, <1>6 DEF SyncInv

\* A market row after an update of one column.
LEMMA RowUpdate ==
  ASSUME NEW r, IsMarketRow(r), NEW x
  PROVE  /\ IsMarketRow([r EXCEPT ![1].status = x]) /\ [r EXCEPT ![1].status = x] # <<>>
         /\ IsMarketRow([r EXCEPT ![1].line = x]) /\ [r EXCEPT ![1].line = x] # <<>>
<1>1. PICK status, line : r = <<[status |-> status, line |-> line]>>
  BY DEF IsMarketRow
<1>2. [r EXCEPT ![1].status = x] = <<[status |-> x, line |-> line]>>
  <2>1. [[status |-> status, line |-> line] EXCEPT !.status = x] = [status |-> x, line |-> line]
    OBVIOUS
  <2> QED
    BY <1>1, <2>1
<1>3. [r EXCEPT ![1].line = x] = <<[status |-> status, line |-> x]>>
  <2>1. [[status |-> status, line |-> line] EXCEPT !.line = x] = [status |-> status, line |-> x]
    OBVIOUS
  <2> QED
    BY <1>1, <2>1
<1> DEFINE u == [r EXCEPT ![1].status = x]
           v == [r EXCEPT ![1].line = x]
           a == [status |-> x, line |-> line]
           b == [status |-> status, line |-> x]
<1>4. u = <<a>> /\ v = <<b>>
  BY <1>2, <1>3
<1>5. IsMarketRow(<<a>>) /\ IsMarketRow(<<b>>)
  BY Zenon DEF IsMarketRow
<1>6. <<a>> # <<>> /\ <<b>> # <<>>
  <2> HIDE DEF a, b
  <2> QED OBVIOUS
<1> HIDE DEF u, v, a, b
<1>7. IsMarketRow(u) /\ u # <<>> /\ IsMarketRow(v) /\ v # <<>>
  BY <1>4, <1>5, <1>6, Zenon
<1> QED
  BY <1>7 DEF u, v

\* One statement about a match that is not over yet.
LEMMA StatementKeepsData ==
  ASSUME DateInv, SyncInv, NEW m \in Matches, OddsWork(m), UNCHANGED <<now, feed, row, bet>>,
         \/ /\ UNCHANGED result
            /\ \E t \in Markets(m) : \E new :
                 market' = [market EXCEPT ![m][t] = new] /\ IsMarketRow(new) /\ new # <<>>
         \/ /\ UNCHANGED market
            /\ \E c \in Codes : /\ TypeOfCode[c] \in Markets(m)
                                /\ result' = [result EXCEPT ![m][c] = KeptResult(@)]
  PROVE  DataInv' /\ \A x \in Matches : Grows(x) /\ Markets(x)' = Markets(x)
<1>1. ~Decidable(m) /\ row[m].status # "settled"
  BY WorkIsOnTime
<1>2. /\ MarketShape' /\ \A x \in Matches : Markets(x)' = Markets(x)
      /\ \A x \in Matches : x # m => market'[x] = market[x]
  <2>1. CASE UNCHANGED market
    BY <2>1 DEF SyncInv, DataInv, MarketShape, Markets
  <2>2. ASSUME NEW t \in Markets(m), NEW new, market' = [market EXCEPT ![m][t] = new],
               IsMarketRow(new), new # <<>>
        PROVE  /\ MarketShape' /\ \A x \in Matches : Markets(x)' = Markets(x)
               /\ \A x \in Matches : x # m => market'[x] = market[x]
    <3>1. \A x \in Matches, y \in Types : market'[x][y] = IF x = m /\ y = t THEN new ELSE market[x][y]
      BY <2>2 DEF SyncInv, DataInv, MarketShape, Markets
    <3>2. \A x \in Matches : Markets(x)' = Markets(x)
      BY <2>2, <3>1 DEF Markets
    <3>3. market' = [x \in Matches |-> [y \in Types |-> market'[x][y]]]
      BY <2>2 DEF SyncInv, DataInv, MarketShape
    <3>4. ASSUME NEW x \in Matches, NEW y \in Markets(x) PROVE IsMarketRow(market'[x][y])
      <4>1. market'[x][y] = new \/ market'[x][y] = market[x][y]
        BY <3>1 DEF Markets
      <4>2. IsMarketRow(market[x][y])
        BY DEF SyncInv, DataInv, MarketShape
      <4> QED
        BY <2>2, <4>1, <4>2, Zenon
    <3>5. MarketShape'
      BY <3>2, <3>3, <3>4, Zenon DEF MarketShape
    <3>6. \A x \in Matches : x # m => market'[x] = market[x]
      BY <2>2 DEF SyncInv, DataInv, MarketShape
    <3> QED
      BY <3>2, <3>5, <3>6
  <2> QED
    BY <2>1, <2>2
<1>3. /\ ResultShape' /\ \A x \in Matches : Existing(x) \subseteq Existing(x)'
      /\ \A x \in Matches : x # m => result'[x] = result[x]
      /\ \A c \in Existing(m)' : c \in Existing(m) \/ TypeOfCode[c] \in Markets(m)
  <2>1. CASE UNCHANGED result
    BY <2>1 DEF SyncInv, DataInv, ResultShape, Existing
  <2>2. ASSUME NEW c \in Codes, TypeOfCode[c] \in Markets(m),
               result' = [result EXCEPT ![m][c] = KeptResult(@)]
        PROVE  /\ ResultShape' /\ \A x \in Matches : Existing(x) \subseteq Existing(x)'
               /\ \A x \in Matches : x # m => result'[x] = result[x]
               /\ \A d \in Existing(m)' : d \in Existing(m) \/ TypeOfCode[d] \in Markets(m)
    <3>1. \A x \in Matches, d \in Codes :
            result'[x][d] = IF x = m /\ d = c THEN KeptResult(result[x][d]) ELSE result[x][d]
      BY <2>2 DEF SyncInv, DataInv, ResultShape
    <3>2. result' = [x \in Matches |-> [d \in Codes |-> result'[x][d]]]
      BY <2>2 DEF SyncInv, DataInv, ResultShape
    <3>3. \A x \in Matches : x # m => result'[x] = result[x]
      BY <2>2 DEF SyncInv, DataInv, ResultShape
    <3>4. \A d \in Codes : KeptResult(result[m][d]) # "absent"
      BY DEF KeptResult
    <3> QED
      BY <2>2, <3>1, <3>2, <3>3, <3>4 DEF ResultShape, Existing
  <2> QED
    BY <2>1, <2>2
<1>4. \A x \in Matches : Grows(x)
  <2> SUFFICES ASSUME NEW x \in Matches PROVE Grows(x)
    OBVIOUS
  <2>1. CASE x = m
    BY <1>1, <1>2, <1>3, <2>1 DEF Grows
  <2>2. CASE x # m
    BY <1>2, <1>3, <2>2 DEF Grows, Decidable, Existing
  <2> QED
    BY <2>1, <2>2
<1>5. OutcomesHaveMarkets'
  BY <1>2, <1>3 DEF SyncInv, DataInv, OutcomesHaveMarkets, Existing
<1>6. PaidByTheScore' /\ OverInTime'
  BY <1>4, PaidStays DEF SyncInv, DataInv, OverInTime
<1>7. ShownByTheScore'
  <2> SUFFICES ASSUME NEW x \in Matches, row[x].status = "settled"
               PROVE  /\ Decidable(x)'
                      /\ \A c \in Existing(x)' :
                           /\ result'[x][c] = Verdict(x, c)'
                           /\ market'[x][TypeOfCode[c]][1].status \notin {"open", "suspended"}
    BY DEF ShownByTheScore
  <2>1. x # m
    BY <1>1
  <2> QED
    BY <1>2, <1>3, <2>1 DEF SyncInv, DataInv, ShownByTheScore, Decidable, Existing, Verdict
<1> QED
  BY <1>2, <1>3, <1>4, <1>5, <1>6, <1>7 DEF DataInv

\* A statement is about a match that is not over, so that nothing decided moves.
LEMMA ExecuteSync ==
  ASSUME DateInv, SyncInv, Execute
  PROVE  SyncInv'
<1>1. PICK m \in Matches : quoting.match = <<m>> /\ Fitting(quoting.todo, Markets(m))
  BY DEF SyncInv, QuotingFits, Execute
<1>2. quoting = [matches |-> quoting.matches, match |-> quoting.match, todo |-> quoting.todo]
  BY SMTT(30) DEF SyncInv, QuotingFits
<1> DEFINE s == Head(quoting.todo)
           next == [quoting EXCEPT !.todo = Tail(@)]
<1>3. StatementFits(s, Markets(m)) /\ Fitting(Tail(quoting.todo), Markets(m))
  BY <1>1, TailFits DEF Execute
<1>4. /\ CASE s.op = "status" -> /\ market' = [market EXCEPT ![m][s.market][1].status = s.to]
                                 /\ UNCHANGED result
           [] s.op = "line"   -> /\ market' = [market EXCEPT ![m][s.market][1].line = s.line]
                                 /\ UNCHANGED result
           [] s.op = "upsert" -> /\ result' = [result EXCEPT ![m][s.code] = KeptResult(@)]
                                 /\ UNCHANGED market
      /\ Quotes(next) /\ UNCHANGED <<row, bet>>
  <2>1. quoting.match[1] = m
    BY <1>1
  <2> QED
    BY <2>1 DEF Execute
<1>5. UNCHANGED <<now, feed, row, bet>>
  BY <1>4 DEF Quotes
<1>6. /\ next = [matches |-> quoting.matches, match |-> quoting.match, todo |-> Tail(quoting.todo)]
      /\ next.matches = quoting.matches /\ next.match = <<m>> /\ next.todo = Tail(quoting.todo)
  <2> DEFINE rest == Tail(quoting.todo)
  <2>2. next = [quoting EXCEPT !.todo = rest]
    OBVIOUS
  <2> HIDE DEF rest
  <2>3. [quoting EXCEPT !.todo = rest] =
          [matches |-> quoting.matches, match |-> quoting.match, todo |-> rest]
    BY <1>2
  <2>1. next = [matches |-> quoting.matches, match |-> quoting.match, todo |-> Tail(quoting.todo)]
    BY <2>2, <2>3, Zenon DEF rest
  <2> QED
    BY <1>1, <2>1
<1> HIDE DEF s, next
<1>7. \/ /\ UNCHANGED result
         /\ \E t \in Markets(m) : \E new :
              market' = [market EXCEPT ![m][t] = new] /\ IsMarketRow(new) /\ new # <<>>
      \/ /\ UNCHANGED market
         /\ \E c \in Codes : /\ TypeOfCode[c] \in Markets(m)
                             /\ result' = [result EXCEPT ![m][c] = KeptResult(@)]
  <2>1. CASE s.op = "status"
    <3>1. market' = [market EXCEPT ![m][s.market][1].status = s.to] /\ UNCHANGED result
      BY <1>4, <2>1
    <3>2. s.market \in Markets(m)
      BY <1>3, <2>1 DEF StatementFits
    <3> DEFINE new == [market[m][s.market] EXCEPT ![1].status = s.to]
    <3>3. IsMarketRow(new) /\ new # <<>>
      BY <3>2, RowUpdate DEF SyncInv, DataInv, MarketShape
    <3>4. market' = [market EXCEPT ![m][s.market] = new]
      BY <3>1
    <3> HIDE DEF new
    <3> QED
      BY <3>1, <3>2, <3>3, <3>4
  <2>2. CASE s.op = "line"
    <3>1. market' = [market EXCEPT ![m][s.market][1].line = s.line] /\ UNCHANGED result
      BY <1>4, <2>2
    <3>2. s.market \in Markets(m)
      BY <1>3, <2>2 DEF StatementFits
    <3> DEFINE new == [market[m][s.market] EXCEPT ![1].line = s.line]
    <3>3. IsMarketRow(new) /\ new # <<>>
      BY <3>2, RowUpdate DEF SyncInv, DataInv, MarketShape
    <3>4. market' = [market EXCEPT ![m][s.market] = new]
      BY <3>1
    <3> HIDE DEF new
    <3> QED
      BY <3>1, <3>2, <3>3, <3>4
  <2>3. CASE s.op = "upsert"
    <3>1. result' = [result EXCEPT ![m][s.code] = KeptResult(@)] /\ UNCHANGED market
      BY <1>4, <2>3
    <3>2. s.code \in Codes /\ TypeOfCode[s.code] \in Markets(m)
      BY <1>3, <2>3 DEF StatementFits
    <3> QED
      BY <3>1, <3>2
  <2> QED
    BY <1>3, <2>1, <2>2, <2>3 DEF StatementFits
<1>8. OddsWork(m)
  BY <1>1 DEF OddsWork
<1>9. DataInv' /\ \A x \in Matches : Grows(x) /\ Markets(x)' = Markets(x)
  BY <1>5, <1>7, <1>8, StatementKeepsData
<1>10. \A x \in Matches : x \in next.matches \/ next.match = <<x>> => OddsWork(x)
  BY <1>1, <1>6 DEF OddsWork
<1>11. next = [matches |-> next.matches, match |-> next.match, todo |-> next.todo]
  BY <1>1, <1>6
<1>12. \E x \in Matches : next.match = <<x>> /\ Fitting(next.todo, Markets(x))
  BY <1>3, <1>6
<1> QED
  BY <1>4, <1>9, <1>10, <1>11, <1>12, QuotesKeepsStory, SMTT(30)

\* All of OddsSync.
LEMMA OddsSyncSync ==
  ASSUME DateInv, SyncInv, OddsSync
  PROVE  SyncInv'
<1>1. quoting = [matches |-> quoting.matches, match |-> quoting.match, todo |-> quoting.todo]
  BY DEF SyncInv, QuotingFits
<1>2. ASSUME UNCHANGED Database, NEW matches, NEW match, NEW todo,
             Quotes([matches |-> matches, match |-> match, todo |-> todo]),
             \/ match = <<>> /\ todo = <<>>
             \/ \E m \in Matches : match = <<m>> /\ Fitting(todo, Markets(m)),
             \A m \in Matches : m \in matches \/ match = <<m>> => OddsWork(m)
      PROVE  SyncInv'
  <2> DEFINE next == [matches |-> matches, match |-> match, todo |-> todo]
  <2>1. Quotes(next) /\ next.matches = matches /\ next.match = match /\ next.todo = todo
        /\ next = [matches |-> next.matches, match |-> next.match, todo |-> next.todo]
    BY <1>2
  <2> HIDE DEF next
  <2>2. UNCHANGED <<now, feed, row, market, result, bet>>
    BY <1>2, <2>1 DEF Database, Quotes
  <2>3. DataInv' /\ \A m \in Matches : Grows(m) /\ Markets(m)' = Markets(m)
    BY <2>2, SameData DEF SyncInv, Markets
  <2> QED
    BY <1>2, <2>1, <2>3, QuotesKeepsStory
<1>3. CASE ListForOddsSync
  <2>1. /\ phase["odds-sync"] = "idle" /\ phase' = [phase EXCEPT !["odds-sync"] = "fresh"]
        /\ quoting' = [matches |-> {m \in Matches : ForOddsSync(m)}, match |-> <<>>, todo |-> <<>>]
        /\ UNCHANGED <<now, feed, listing, settling, cancelling, row, market, result, bet>>
    BY <1>3 DEF ListForOddsSync, Begin, NoQuoting, Database, Desk
  <2>2. QuotingFits'
    BY <2>1 DEF QuotingFits
  <2>3. PhaseShape' /\ phase'["odds-sync"] = "fresh"
    BY <2>1 DEF SyncInv, PhaseShape, Tasks
  <2>4. QuotingInTime'
    <3> SUFFICES ASSUME NEW m \in Matches, OddsWork(m)' PROVE now < feed[m].start
      BY <2>1, <2>3 DEF QuotingInTime
    <3>1. ForOddsSync(m)
      BY <2>1 DEF OddsWork
    <3>2. now \in Nat /\ row[m].start \in Nat /\ feed[m].start \in Nat /\ row[m].start <= feed[m].start
      BY DEF DateInv, BegunInTime, RowShape, FeedShape, CopiesAreNotLater
    <3> QED
      BY <3>1, <3>2 DEF ForOddsSync
  <2> QED
    BY <2>1, <2>2, <2>3, <2>4, SameData DEF SyncInv
<1>4. ASSUME NEW m \in Matches, Quote(m) PROVE SyncInv'
  <2>1. m \in quoting.matches
    BY <1>4 DEF Quote
  <2>2. PICK a \in Answers : Quotes([matches |-> quoting.matches \ {m}, match |-> <<m>>,
                                     todo |-> applyEvent(Rows(m), a)])
    BY <1>4 DEF Quote
  <2>3. \A x \in Matches : x \in quoting.matches \ {m} \/ <<m>> = <<x>> => OddsWork(x)
    BY <2>1 DEF OddsWork
  <2>4. Fitting(applyEvent(Rows(m), a), Markets(m))
    BY applyEventFits
  <2>5. UNCHANGED Database
    BY <1>4 DEF Quote
  <2> QED
    BY <1>2, <2>2, <2>3, <2>4, <2>5
<1>5. CASE SkipsQuoted
  <2>1. UNCHANGED Database
    BY <1>5 DEF SkipsQuoted
  <2>2. ASSUME NEW m, Quotes([quoting EXCEPT !.matches = @ \ {m}]) PROVE SyncInv'
    <3>1. [quoting EXCEPT !.matches = @ \ {m}] =
            [matches |-> quoting.matches \ {m}, match |-> quoting.match, todo |-> quoting.todo]
      BY <1>1
    <3>2. \A x \in Matches : x \in quoting.matches \ {m} \/ quoting.match = <<x>> => OddsWork(x)
      BY DEF OddsWork
    <3>3. \/ quoting.match = <<>> /\ quoting.todo = <<>>
          \/ \E x \in Matches : quoting.match = <<x>> /\ Fitting(quoting.todo, Markets(x))
      BY DEF SyncInv, QuotingFits
    <3> QED
      BY <1>2, <2>1, <2>2, <3>1, <3>2, <3>3
  <2>3. ASSUME quoting.todo # <<>>, Quotes([quoting EXCEPT !.todo = <<>>]) PROVE SyncInv'
    <3>1. [quoting EXCEPT !.todo = <<>>] =
            [matches |-> quoting.matches, match |-> quoting.match, todo |-> <<>>]
      BY <1>1
    <3>2. \A x \in Matches : x \in quoting.matches \/ quoting.match = <<x>> => OddsWork(x)
      BY DEF OddsWork
    <3>3. PICK x \in Matches : quoting.match = <<x>>
      BY <2>3 DEF SyncInv, QuotingFits
    <3>4. Fitting(<<>>, Markets(x))
      BY NoneFits
    <3> QED
      BY <1>2, <2>1, <2>3, <3>1, <3>2, <3>3, <3>4
  <2> QED
    BY <1>5, <2>2, <2>3, Zenon DEF SkipsQuoted
<1>6. CASE Execute
  BY <1>6, ExecuteSync
<1>7. CASE OddsSyncGivesUp
  <2>1. UNCHANGED Database /\ Quotes([matches |-> {}, match |-> <<>>, todo |-> <<>>])
    BY <1>7 DEF OddsSyncGivesUp, NoQuoting
  <2>2. \A x \in Matches : ~(x \in {} \/ <<>> = <<x>>)
    OBVIOUS
  <2> QED
    BY <1>2, <2>1, <2>2
<1> QED
  BY <1>3, <1>4, <1>5, <1>6, <1>7 DEF OddsSync

-----------------------------------------------------------------------------
\* What buildPlan makes of the end of a match.
LEMMA PlansFit ==
  ASSUME SyncInv, NEW m \in Matches
  PROVE  /\ PlanFits(CancelledPlan(m))
         /\ Decidable(m) => PlanFits(SettledPlan(m, feed[m].scores[1]))
<1>1. \A c \in Existing(m) : TypeOfCode[c] \in Markets(m)
  BY DEF SyncInv, DataInv, OutcomesHaveMarkets
<1>2. PlanFits(CancelledPlan(m))
  <2> DEFINE p == CancelledPlan(m)
  <2>1. /\ p.match = m /\ p.final = "cancelled" /\ p.markets = [t \in Markets(m) |-> "void"]
        /\ p.results = [c \in Existing(m) |-> "void"]
    BY DEF CancelledPlan, Plan, Markets
  <2> HIDE DEF p
  <2> QED
    BY <2>1 DEF PlanFits, p
<1>3. ASSUME Decidable(m) PROVE PlanFits(SettledPlan(m, feed[m].scores[1]))
  <2> DEFINE p == SettledPlan(m, feed[m].scores[1])
  <2>1. /\ p.match = m /\ p.final = "settled" /\ p.markets = [t \in Markets(m) |-> "settled"]
        /\ p.results = [c \in Existing(m) |-> Verdict(m, c)]
    BY DEF SettledPlan, Plan, Markets, Verdict
  <2> HIDE DEF p
  <2>2. PlanFits(p)
    BY <1>1, <1>3, <2>1 DEF PlanFits
  <2> QED
    BY <2>2 DEF p
<1> QED
  BY <1>2, <1>3

\* The status a plan writes leaves the line alone.
LEMMA StatusUpdate ==
  ASSUME NEW r, IsMarketRow(r), NEW x
  PROVE  /\ IsMarketRow(<<[r[1] EXCEPT !.status = x]>>)
         /\ [r[1] EXCEPT !.status = x].status = x /\ [r[1] EXCEPT !.status = x].line = r[1].line
<1>1. PICK status, line : r = <<[status |-> status, line |-> line]>>
  BY DEF IsMarketRow
<1>2. r[1] = [status |-> status, line |-> line]
  BY <1>1
<1>3. [r[1] EXCEPT !.status = x] = [status |-> x, line |-> line]
  BY <1>2
<1>4. IsMarketRow(<<[status |-> x, line |-> line]>>)
  BY Zenon DEF IsMarketRow
<1>5. [status |-> x, line |-> line].status = x /\ [status |-> x, line |-> line].line = line
  OBVIOUS
<1> QED
  BY <1>2, <1>3, <1>4, <1>5, Zenon

\* What a plan leaves of markets and outcomes.
LEMMA PlanWrites ==
  ASSUME DataInv, NEW p, PlanFits(p), applyPlan(p)
  PROVE  /\ MarketShape' /\ ResultShape'
         /\ \A m \in Matches : Markets(m)' = Markets(m) /\ Existing(m)' = Existing(m)
         /\ \A m \in Matches : \A t \in Markets(m) :
              /\ market'[m][t][1].line = market[m][t][1].line
              /\ market'[m][t][1].status = IF m = p.match /\ t \in DOMAIN p.markets
                                             THEN p.markets[t] ELSE market[m][t][1].status
         /\ \A m \in Matches, c \in Codes :
              result'[m][c] = IF m = p.match /\ c \in DOMAIN p.results
                                THEN p.results[c] ELSE result[m][c]
<1> DEFINE Written(t) == <<[market[p.match][t][1] EXCEPT !.status = p.markets[t]]>>
           rows == [t \in Types |-> IF t \in DOMAIN p.markets THEN Written(t) ELSE market[p.match][t]]
           codes == [c \in Codes |-> IF c \in DOMAIN p.results THEN p.results[c] ELSE result[p.match][c]]
<1>1. market' = [market EXCEPT ![p.match] = rows] /\ result' = [result EXCEPT ![p.match] = codes]
  BY Zenon DEF applyPlan
<1>2. p.match \in Matches /\ DOMAIN p.markets \subseteq Markets(p.match)
  BY DEF PlanFits
<1>3. \A t \in DOMAIN p.markets : /\ IsMarketRow(Written(t)) /\ Written(t) # <<>>
                                  /\ Written(t)[1].status = p.markets[t]
                                  /\ Written(t)[1].line = market[p.match][t][1].line
  <2> SUFFICES ASSUME NEW t \in DOMAIN p.markets
               PROVE  /\ IsMarketRow(Written(t)) /\ Written(t) # <<>>
                      /\ Written(t)[1].status = p.markets[t]
                      /\ Written(t)[1].line = market[p.match][t][1].line
    OBVIOUS
  <2> DEFINE r == [market[p.match][t][1] EXCEPT !.status = p.markets[t]]
  <2>1. IsMarketRow(market[p.match][t])
    BY <1>2 DEF DataInv, MarketShape
  <2>2. IsMarketRow(<<r>>) /\ r.status = p.markets[t] /\ r.line = market[p.match][t][1].line
    BY <2>1, StatusUpdate
  <2>3. <<r>> # <<>> /\ <<r>>[1] = r
    <3> HIDE DEF r
    <3> QED OBVIOUS
  <2> QED
    BY <2>2, <2>3
<1> HIDE DEF Written
<1>4. \A t \in Types : rows[t] = IF t \in DOMAIN p.markets THEN Written(t) ELSE market[p.match][t]
  OBVIOUS
<1>5. \A c \in Codes : codes[c] = IF c \in DOMAIN p.results THEN p.results[c] ELSE result[p.match][c]
  OBVIOUS
<1>6. rows = [t \in Types |-> rows[t]] /\ codes = [c \in Codes |-> codes[c]]
  OBVIOUS
<1> HIDE DEF rows, codes
<1>7. \A m \in Matches : /\ market'[m] = IF m = p.match THEN rows ELSE market[m]
                         /\ result'[m] = IF m = p.match THEN codes ELSE result[m]
  BY <1>1 DEF DataInv, MarketShape, ResultShape
<1>8. \A m \in Matches : Markets(m)' = Markets(m)
  <2> SUFFICES ASSUME NEW m \in Matches, NEW t \in Types PROVE market'[m][t] = <<>> <=> market[m][t] = <<>>
    BY DEF Markets
  <2>1. CASE m = p.match
    BY <1>2, <1>3, <1>4, <1>7, <2>1 DEF Markets
  <2>2. CASE m # p.match
    BY <1>7, <2>2
  <2> QED
    BY <2>1, <2>2
<1>9. \A m \in Matches, c \in Codes :
        result'[m][c] = IF m = p.match /\ c \in DOMAIN p.results THEN p.results[c] ELSE result[m][c]
  BY <1>5, <1>7
<1>10. \A m \in Matches : Existing(m)' = Existing(m)
  <2>1. \A c \in DOMAIN p.results : p.results[c] # "absent" /\ c \in Existing(p.match)
    BY VerdictIsResult DEF PlanFits, Results
  <2> QED
    BY <1>9, <2>1 DEF Existing
<1>11. ASSUME NEW m \in Matches, NEW t \in Markets(m)
       PROVE  /\ IsMarketRow(market'[m][t])
              /\ market'[m][t][1].line = market[m][t][1].line
              /\ market'[m][t][1].status = IF m = p.match /\ t \in DOMAIN p.markets
                                             THEN p.markets[t] ELSE market[m][t][1].status
  <2>0. t \in Types /\ IsMarketRow(market[m][t])
    BY DEF Markets, DataInv, MarketShape
  <2>1. CASE m = p.match /\ t \in DOMAIN p.markets
    <3>1. market'[m][t] = Written(t)
      BY <1>4, <1>7, <2>0, <2>1
    <3> QED
      BY <1>3, <2>1, <3>1, Zenon
  <2>2. CASE ~(m = p.match /\ t \in DOMAIN p.markets)
    <3>1. market'[m][t] = market[m][t]
      BY <1>4, <1>7, <2>0, <2>2
    <3> QED
      BY <2>0, <2>2, <3>1, Zenon
  <2> QED
    BY <2>1, <2>2
<1>12. MarketShape'
  <2>1. market' = [m \in Matches |-> [t \in Types |-> market'[m][t]]]
    BY <1>1, <1>6, <1>7 DEF DataInv, MarketShape
  <2> QED
    BY <1>8, <1>11, <2>1, Zenon DEF MarketShape
<1>13. ResultShape'
  BY <1>1, <1>6, <1>7 DEF DataInv, ResultShape
<1> QED
  BY <1>8, <1>9, <1>10, <1>11, <1>12, <1>13

\* A plan that fits keeps what is shown and what is paid in step with the score.
LEMMA PlanKeepsData ==
  ASSUME DateInv, DataInv, NEW p, PlanFits(p), applyPlan(p), UNCHANGED <<now, feed>>
  PROVE  DataInv' /\ \A m \in Matches : Grows(m) /\ Markets(m)' = Markets(m)
<1>1. /\ MarketShape' /\ ResultShape'
      /\ \A m \in Matches : Markets(m)' = Markets(m) /\ Existing(m)' = Existing(m)
      /\ \A m \in Matches : \A t \in Markets(m) :
           /\ market'[m][t][1].line = market[m][t][1].line
           /\ market'[m][t][1].status = IF m = p.match /\ t \in DOMAIN p.markets
                                          THEN p.markets[t] ELSE market[m][t][1].status
      /\ \A m \in Matches, c \in Codes :
           result'[m][c] = IF m = p.match /\ c \in DOMAIN p.results THEN p.results[c] ELSE result[m][c]
  BY PlanWrites
<1>2. \A m \in Matches : Grows(m)
  BY <1>1 DEF Grows, Decidable
<1>3. \A m \in Matches : \A c \in Existing(m) :
        TypeOfCode[c] \in Markets(m) /\ (Decidable(m) => Verdict(m, c)' = Verdict(m, c))
  BY <1>2, VerdictStays DEF DataInv, OutcomesHaveMarkets
<1>4. OutcomesHaveMarkets' /\ OverInTime'
  BY <1>1 DEF DataInv, OutcomesHaveMarkets, OverInTime
<1>5. \A m \in Matches : Decidable(m)' = Decidable(m)
  BY DEF Decidable
<1>6. PaidByTheScore'
  <2> SUFFICES ASSUME NEW m \in Matches, NEW c \in Backed, bet'[m][c] \in {"won", "lost"}
               PROVE  Decidable(m)' /\ c \in Existing(m)' /\ bet'[m][c] = Verdict(m, c)'
    BY DEF PaidByTheScore
  <2>1. bet' = [bet EXCEPT ![p.match] =
                  [d \in Backed |-> IF d \in DOMAIN p.results
                                      THEN Decided(bet[p.match][d], p.results[d]) ELSE bet[p.match][d]]]
    BY Zenon DEF applyPlan
  <2>2. bet'[m][c] = IF m = p.match /\ c \in DOMAIN p.results
                       THEN Decided(bet[m][c], p.results[c]) ELSE bet[m][c]
    BY <2>1 DEF DateInv, BetShape
  <2>3. CASE bet'[m][c] = bet[m][c]
    <3>1. Decidable(m) /\ c \in Existing(m) /\ bet[m][c] = Verdict(m, c)
      BY <2>3 DEF DataInv, PaidByTheScore
    <3> QED
      BY <1>1, <1>3, <1>5, <2>3, <3>1
  <2>4. CASE bet'[m][c] # bet[m][c]
    <3>1. m = p.match /\ c \in DOMAIN p.results /\ bet'[m][c] = p.results[c]
      BY <2>2, <2>4 DEF Decided, betStatusFromResult
    <3>2. p.final = "settled" /\ Decidable(m) /\ c \in Existing(m) /\ p.results[c] = Verdict(m, c)
      BY <3>1 DEF PlanFits
    <3> QED
      BY <1>1, <1>3, <1>5, <3>1, <3>2
  <2> QED
    BY <2>3, <2>4
<1>7. ShownByTheScore'
  <2> SUFFICES ASSUME NEW m \in Matches, row'[m].status = "settled"
               PROVE  /\ Decidable(m)'
                      /\ \A c \in Existing(m)' :
                           /\ result'[m][c] = Verdict(m, c)'
                           /\ market'[m][TypeOfCode[c]][1].status \notin {"open", "suspended"}
    BY DEF ShownByTheScore
  <2>1. row'[m].status = IF m = p.match THEN p.final ELSE row[m].status
    BY PlanKeepsStarts DEF DateInv
  <2>2. CASE m = p.match
    <3>1. /\ Decidable(m)
          /\ \A c \in Existing(m) : /\ c \in DOMAIN p.results /\ TypeOfCode[c] \in DOMAIN p.markets
                                    /\ p.results[c] = Verdict(m, c)
                                    /\ p.markets[TypeOfCode[c]] \in {"settled", "void"}
      BY <2>1, <2>2 DEF PlanFits
    <3>2. \A c \in Existing(m) : c \in Codes
      BY DEF Existing
    <3> QED
      BY <1>1, <1>3, <1>5, <2>2, <3>1, <3>2
  <2>3. CASE m # p.match
    <3>1. /\ Decidable(m)
          /\ \A c \in Existing(m) :
               /\ result[m][c] = Verdict(m, c)
               /\ market[m][TypeOfCode[c]][1].status \notin {"open", "suspended"}
      BY <2>1, <2>3 DEF DataInv, ShownByTheScore
    <3>2. \A c \in Existing(m) : c \in Codes
      BY DEF Existing
    <3> QED
      BY <1>1, <1>3, <1>5, <2>3, <3>1, <3>2
  <2> QED
    BY <2>2, <2>3
<1> QED
  BY <1>1, <1>2, <1>4, <1>6, <1>7 DEF DataInv

\* Progress of a run of the settlement worker.
LEMMA SettlesKeepsStory ==
  ASSUME SyncInv, DataInv', \A m \in Matches : Grows(m) /\ Markets(m)' = Markets(m),
         NEW matches, NEW plan, Settles([matches |-> matches, plan |-> plan]),
         plan = <<>> \/ \E p : plan = <<p>> /\ PlanFits(p)
  PROVE  SyncInv'
<1>1. /\ settling' = [matches |-> matches, plan |-> plan]
      /\ phase' = [phase EXCEPT !["settlement"] = phase'["settlement"]]
      /\ UNCHANGED <<now, feed, listing, quoting, cancelling>>
  BY DEF Settles, After, Desk, SyncInv, PhaseShape, Tasks
<1>2. PhaseShape' /\ phase'["odds-sync"] = phase["odds-sync"]
  BY <1>1 DEF SyncInv, PhaseShape, Tasks
<1>3. \A p : PlanFits(p) => PlanFits(p)'
  <2> SUFFICES ASSUME NEW p, PlanFits(p) PROVE PlanFits(p)'
    OBVIOUS
  <2> QED
    BY PlanStays DEF PlanFits, SyncInv, DataInv
<1>4. SettlingFits'
  BY <1>1, <1>3 DEF SettlingFits
<1>5. ListingFits'
  BY <1>1 DEF SyncInv, ListingFits
<1>6. QuotingFits' /\ QuotingInTime'
  BY <1>1, <1>2, QuotingStays DEF SyncInv, QuotingInTime, OddsWork
<1>7. CancellingFits'
  BY <1>1, PlansStay DEF SyncInv, DataInv
<1> QED
  BY <1>2, <1>4, <1>5, <1>6, <1>7 DEF SyncInv

\* All of the settlement worker.
LEMMA SettlementSync ==
  ASSUME DateInv, SyncInv, Settlement
  PROVE  SyncInv'
<1>1. settling = [matches |-> settling.matches, plan |-> settling.plan]
  BY DEF SyncInv, SettlingFits
<1>2. ASSUME UNCHANGED Database, NEW matches, NEW plan, Settles([matches |-> matches, plan |-> plan]),
             plan = <<>> \/ \E p : plan = <<p>> /\ PlanFits(p)
      PROVE  SyncInv'
  <2>1. UNCHANGED <<now, feed, row, market, result, bet>>
    BY <1>2 DEF Database, Settles
  <2>2. DataInv' /\ \A m \in Matches : Grows(m) /\ Markets(m)' = Markets(m)
    BY <2>1, SameData DEF SyncInv, Markets
  <2> QED
    BY <1>2, <2>2, SettlesKeepsStory
<1>3. settling.plan = <<>> \/ \E p : settling.plan = <<p>> /\ PlanFits(p)
  BY DEF SyncInv, SettlingFits
<1>4. CASE ListForSettlement
  <2>1. /\ phase' = [phase EXCEPT !["settlement"] = "fresh"]
        /\ settling' = [matches |-> {m \in Matches : ForSettlement(m)}, plan |-> <<>>]
        /\ UNCHANGED <<now, feed, listing, quoting, cancelling, row, market, result, bet>>
    BY <1>4 DEF ListForSettlement, Begin, NoSettling, NoPlan, Database, Desk
  <2>2. SettlingFits' /\ PhaseShape' /\ phase'["odds-sync"] = phase["odds-sync"]
    BY <2>1 DEF SettlingFits, SyncInv, PhaseShape, Tasks
  <2> QED
    BY <2>1, <2>2, SameData DEF SyncInv
<1>5. ASSUME NEW m \in Matches, GetEvent(m) PROVE SyncInv'
  <2> DEFINE plan == CASE feed[m].status = "settled" /\ feed[m].scores # <<>> ->
                              <<SettledPlan(m, feed[m].scores[1])>>
                       [] feed[m].status = "cancelled" -> <<CancelledPlan(m)>>
                       [] OTHER -> NoPlan
  <2>1. Settles([matches |-> settling.matches \ {m}, plan |-> plan]) /\ UNCHANGED Database
    BY <1>5, Zenon DEF GetEvent
  <2>2. plan = <<>> \/ \E p : plan = <<p>> /\ PlanFits(p)
    <3>1. CASE Decidable(m)
      <4>1. plan = <<SettledPlan(m, feed[m].scores[1])>>
        BY <3>1 DEF Decidable
      <4> QED
        BY <3>1, <4>1, PlansFit, Zenon
    <3>2. CASE feed[m].status = "cancelled"
      <4>1. plan = <<CancelledPlan(m)>>
        BY <3>2
      <4> QED
        BY <4>1, PlansFit, Zenon
    <3>3. CASE ~Decidable(m) /\ feed[m].status # "cancelled"
      BY <3>3 DEF Decidable, NoPlan
    <3> QED
      BY <3>1, <3>2, <3>3
  <2> HIDE DEF plan
  <2> QED
    BY <1>2, <2>1, <2>2
<1>6. CASE SkipsSettled
  <2>1. UNCHANGED Database
    BY <1>6 DEF SkipsSettled
  <2>2. ASSUME NEW m, Settles([settling EXCEPT !.matches = @ \ {m}]) PROVE SyncInv'
    <3>1. [settling EXCEPT !.matches = @ \ {m}] =
            [matches |-> settling.matches \ {m}, plan |-> settling.plan]
      BY <1>1
    <3>2. Settles([matches |-> settling.matches \ {m}, plan |-> settling.plan])
      BY <2>2, <3>1, Zenon
    <3> QED
      BY <1>2, <1>3, <2>1, <3>2
  <2>3. ASSUME Settles([settling EXCEPT !.plan = NoPlan]) PROVE SyncInv'
    <3>1. [settling EXCEPT !.plan = NoPlan] = [matches |-> settling.matches, plan |-> <<>>]
      BY <1>1 DEF NoPlan
    <3>2. Settles([matches |-> settling.matches, plan |-> <<>>])
      BY <2>3, <3>1, Zenon
    <3> QED
      BY <1>2, <2>1, <3>2
  <2> QED
    BY <1>6, <2>2, <2>3, Zenon DEF SkipsSettled
<1>7. CASE SettleEvent
  <2>1. PICK p : settling.plan = <<p>> /\ PlanFits(p)
    BY <1>3, <1>7 DEF SettleEvent, NoPlan
  <2>2. applyPlan(p) /\ Settles([settling EXCEPT !.plan = NoPlan])
    <3>1. settling.plan[1] = p
      BY <2>1
    <3> QED
      BY <1>7, <3>1, Zenon DEF SettleEvent
  <2>3. [settling EXCEPT !.plan = NoPlan] = [matches |-> settling.matches, plan |-> <<>>]
    BY <1>1 DEF NoPlan
  <2>4. UNCHANGED <<now, feed>>
    BY <2>2 DEF Settles
  <2>5. DataInv' /\ \A m \in Matches : Grows(m) /\ Markets(m)' = Markets(m)
    BY <2>1, <2>2, <2>4, PlanKeepsData DEF SyncInv
  <2> QED
    BY <2>2, <2>3, <2>5, SettlesKeepsStory
<1>8. CASE SettlementGivesUp
  <2>1. UNCHANGED Database /\ Settles([matches |-> {}, plan |-> <<>>])
    BY <1>8 DEF SettlementGivesUp, NoSettling, NoPlan
  <2> QED
    BY <1>2, <2>1
<1> QED
  BY <1>4, <1>5, <1>6, <1>7, <1>8 DEF Settlement

-----------------------------------------------------------------------------
\* Cancellations: a plan in hand fits as long as it waits, and when it is applied.
LEMMA CancelsSync ==
  ASSUME DateInv, SyncInv, NEW matches, NEW plans,
         Cancels([matches |-> matches, plans |-> plans]), matches \subseteq Matches,
         \A p \in plans : PlanFits(p),
         UNCHANGED Database \/ \E p \in cancelling.plans : applyPlan(p)
  PROVE  SyncInv'
<1>1. /\ cancelling' = [matches |-> matches, plans |-> plans]
      /\ UNCHANGED <<now, feed, phase, listing, quoting, settling>>
  BY DEF Cancels, Workers
<1>2. DataInv' /\ \A x \in Matches : Grows(x) /\ Markets(x)' = Markets(x)
  <2>1. CASE UNCHANGED Database
    <3>1. UNCHANGED <<row, market, result, bet>>
      BY <2>1 DEF Database
    <3> QED
      BY <1>1, <3>1, SameData DEF SyncInv, Markets
  <2>2. ASSUME NEW p \in cancelling.plans, applyPlan(p)
        PROVE  DataInv' /\ \A x \in Matches : Grows(x) /\ Markets(x)' = Markets(x)
    <3>1. PlanFits(p)
      BY DEF SyncInv, CancellingFits
    <3> QED
      BY <1>1, <2>2, <3>1, PlanKeepsData DEF SyncInv
  <2> QED
    BY <2>1, <2>2
<1>3. PhaseShape' /\ ListingFits' /\ QuotingInTime'
  BY <1>1, <1>2 DEF SyncInv, PhaseShape, ListingFits, QuotingInTime, OddsWork
<1>4. CancellingFits'
  <2>1. \A p : PlanFits(p) => PlanFits(p)'
    <3> SUFFICES ASSUME NEW p, PlanFits(p) PROVE PlanFits(p)'
      OBVIOUS
    <3> QED
      BY <1>2, PlanStays DEF PlanFits, SyncInv, DataInv
  <2>2. cancelling'.matches = matches /\ cancelling'.plans = plans
    BY <1>1
  <2> QED
    BY <1>1, <2>1, <2>2 DEF CancellingFits
<1> QED
  BY <1>1, <1>2, <1>3, <1>4, QuotingStays, PlansStay DEF SyncInv, DataInv

\* Cancellations and bets.
LEMMA RequestsSync ==
  ASSUME DateInv, SyncInv, Requests
  PROVE  SyncInv'
<1>0. /\ cancelling = [matches |-> cancelling.matches, plans |-> cancelling.plans]
      /\ cancelling.matches \subseteq Matches /\ \A p \in cancelling.plans : PlanFits(p)
  BY DEF SyncInv, CancellingFits
<1>1. ASSUME NEW m \in Matches, CancelEvent(m) PROVE SyncInv'
  <2>1. [cancelling EXCEPT !.matches = @ \cup {m}] =
          [matches |-> cancelling.matches \cup {m}, plans |-> cancelling.plans]
    BY <1>0
  <2>2. Cancels([matches |-> cancelling.matches \cup {m}, plans |-> cancelling.plans]) /\ UNCHANGED Database
    BY <1>1, <2>1, Zenon DEF CancelEvent
  <2>3. cancelling.matches \cup {m} \subseteq Matches
    BY <1>0
  <2> QED
    BY <1>0, <2>2, <2>3, CancelsSync
<1>2. ASSUME NEW m \in Matches, CancelBuildsPlan(m) PROVE SyncInv'
  <2>1. /\ Cancels([matches |-> cancelling.matches \ {m},
                    plans   |-> cancelling.plans \cup {CancelledPlan(m)}])
        /\ UNCHANGED Database
    BY <1>2, Zenon DEF CancelBuildsPlan
  <2>2. PlanFits(CancelledPlan(m))
    BY PlansFit
  <2>3. \A p \in cancelling.plans \cup {CancelledPlan(m)} : PlanFits(p)
    BY <1>0, <2>2
  <2>4. cancelling.matches \ {m} \subseteq Matches
    BY <1>0
  <2> QED
    BY <2>1, <2>3, <2>4, CancelsSync
<1>3. ASSUME NEW p \in cancelling.plans, Cancels([cancelling EXCEPT !.plans = @ \ {p}]),
             UNCHANGED Database \/ applyPlan(p)
      PROVE  SyncInv'
  <2>1. [cancelling EXCEPT !.plans = @ \ {p}] =
          [matches |-> cancelling.matches, plans |-> cancelling.plans \ {p}]
    BY <1>0
  <2>2. Cancels([matches |-> cancelling.matches, plans |-> cancelling.plans \ {p}])
    BY <1>3, <2>1, Zenon
  <2>3. \A q \in cancelling.plans \ {p} : PlanFits(q)
    BY <1>0
  <2> QED
    BY <1>0, <1>3, <2>2, <2>3, CancelsSync
<1>4. ASSUME NEW m, Cancels([cancelling EXCEPT !.matches = @ \ {m}]), UNCHANGED Database PROVE SyncInv'
  <2>1. [cancelling EXCEPT !.matches = @ \ {m}] =
          [matches |-> cancelling.matches \ {m}, plans |-> cancelling.plans]
    BY <1>0
  <2>2. Cancels([matches |-> cancelling.matches \ {m}, plans |-> cancelling.plans])
    BY <1>4, <2>1, Zenon
  <2>3. cancelling.matches \ {m} \subseteq Matches
    BY <1>0
  <2> QED
    BY <1>0, <1>4, <2>2, <2>3, CancelsSync
<1>5. ASSUME UNCHANGED <<now, feed, row, market, result, bet, phase, listing, quoting, settling, cancelling>>
      PROVE  SyncInv'
  <2>1. PhaseShape'
    BY <1>5 DEF SyncInv, PhaseShape
  <2> QED
    BY <1>5, <2>1, SameData DEF SyncInv
<1>6. ASSUME NEW m \in Matches, NEW c \in Backed, PlaceBetCommits(m, c) PROVE SyncInv'
  <2>1. /\ bet' = [bet EXCEPT ![m][c] = "pending"]
        /\ UNCHANGED <<now, feed, row, market, result, phase, listing, quoting, settling, cancelling>>
    BY <1>6 DEF PlaceBetCommits, Places, Workers
  <2>2. \A x \in Matches, d \in Backed : bet'[x][d] \in {"pending", bet[x][d]}
    BY <2>1, CommitsABet DEF DateInv
  <2>3. \A x \in Matches : Grows(x)
    BY <2>1 DEF Grows, Markets, Existing, Decidable
  <2>4. PaidByTheScore'
    BY <2>1, <2>2 DEF SyncInv, DataInv, PaidByTheScore, Decidable, Existing, Verdict
  <2>5. MarketShape' /\ ResultShape' /\ OutcomesHaveMarkets' /\ OverInTime'
    BY <2>1 DEF SyncInv, DataInv, MarketShape, Markets, ResultShape, OutcomesHaveMarkets, Existing, OverInTime
  <2>6. ShownByTheScore'
    BY <2>1 DEF SyncInv, DataInv, ShownByTheScore, Decidable, Existing, Verdict
  <2>7. PhaseShape' /\ ListingFits' /\ QuotingInTime'
    BY <2>1 DEF SyncInv, PhaseShape, ListingFits, Markets, QuotingInTime, OddsWork
  <2> QED
    BY <2>1, <2>3, <2>4, <2>5, <2>6, <2>7, QuotingStays, PlansStay DEF SyncInv, DataInv
<1>7. ASSUME NEW m \in Matches, NEW c \in Backed,
             PlaceBet(m, c) \/ PlaceBetReadsEvent(m, c) \/ PlaceBetFails(m, c)
      PROVE  SyncInv'
  BY <1>5, <1>7 DEF PlaceBet, PlaceBetReadsEvent, PlaceBetFails, Places, Workers
<1>8. CASE CancelFails
  BY <1>3, <1>4, <1>8, Zenon DEF CancelFails
<1>9. ASSUME NEW p \in cancelling.plans, CancelApplies(p) PROVE SyncInv'
  BY <1>3, <1>9, Zenon DEF CancelApplies
<1> QED
  BY <1>1, <1>2, <1>6, <1>7, <1>8, <1>9, Zenon DEF Requests

\* Every step keeps the story of each match straight.
LEMMA StepSync ==
  ASSUME DateInv, SyncInv, [Next]_vars
  PROVE  SyncInv'
<1>1. CASE UNCHANGED vars
  <2>1. UNCHANGED <<now, feed, row, market, result, bet, phase, listing, quoting, settling, cancelling>>
    BY <1>1 DEF vars
  <2>2. PhaseShape'
    BY <2>1 DEF SyncInv, PhaseShape
  <2> QED
    BY <2>1, <2>2, SameData DEF SyncInv
<1> QED
  BY <1>1, WorldSync, EventSyncSync, OddsSyncSync, SettlementSync, RequestsSync DEF Next

-----------------------------------------------------------------------------
\* ProviderSync.SettledMatchIsDecided for any matches, markets and answers: no run of
\* OddsSync that read its list before kick-off can still add an outcome or reopen a
\* market when the match is settled, because its time limit ends it before.
THEOREM SettledMatchesAreDecided == Spec => []SettledMatchIsDecided
<1>1. SyncInv => SettledMatchIsDecided
  <2> SUFFICES ASSUME SyncInv, NEW m \in Matches, NEW c \in Codes,
                      row[m].status = "settled", result[m][c] # "absent"
               PROVE  /\ result[m][c] \in Results
                      /\ market[m][TypeOfCode[c]][1].status \notin {"open", "suspended"}
    BY DEF SettledMatchIsDecided
  <2>1. c \in Existing(m)
    BY DEF Existing
  <2> QED
    BY <2>1, VerdictIsResult DEF SyncInv, DataInv, ShownByTheScore
<1>2. DateInv /\ SyncInv /\ [Next]_vars => (DateInv /\ SyncInv)'
  BY StepDates, StepSync
<1> QED
  BY InitDateInv, InitSyncInv, <1>1, <1>2, PTL DEF Spec

\* ProviderSync.PaidAsShown for any interleaving of late lists, repeated settlements
\* and cancellations: result and payment both follow the final score and the line
\* that was there at the end of the match, and neither of these changes any more.
THEOREM ShownIsPaid == Spec => []PaidAsShown
<1>1. SyncInv => PaidAsShown
  BY DEF SyncInv, DataInv, PaidByTheScore, ShownByTheScore, PaidAsShown
<1>2. DateInv /\ SyncInv /\ [Next]_vars => (DateInv /\ SyncInv)'
  BY StepDates, StepSync
<1> QED
  BY InitDateInv, InitSyncInv, <1>1, <1>2, PTL DEF Spec
-----------------------------------------------------------------------------
(***************************************************************************)
(* The schedule, the loop and the time limit of the workers (Jobs), for    *)
(* any jobs, lists of items, unanswered items and number of handlers.  The *)
(* inductive invariant adds to the type what the loop knows at two points: *)
(* a run that sleeps is before a retry, and a job that is off holds no     *)
(* context.                                                                *)
(***************************************************************************)
SleepsBeforeRetry == \A j \in Jobs : pc[j] = "sleep" => attempt[j] # 0

OffIsFresh == \A j \in Jobs : pc[j] = "off" => ~done[j]

IInv == TypeOK /\ SleepsBeforeRetry /\ OffIsFresh

\* 300, 600 and 1200 milliseconds.
LEMMA BackoffIsATime == \A n \in 0..maxRetries : n # 0 => backoffDelay(n) \in Nat
<1> SUFFICES ASSUME NEW n \in 0..3, n # 0 PROVE backoffDelay(n) \in Nat
  BY DEF maxRetries
<1>1. CASE n = 1
  <2>1. 2^0 = 1
    OBVIOUS
  <2> QED BY <2>1, <1>1 DEF backoffDelay, retryBackoff
<1>2. CASE n = 2
  <2>1. 2^1 = 2
    OBVIOUS
  <2> QED BY <2>1, <1>2 DEF backoffDelay, retryBackoff
<1>3. CASE n = 3
  <2>1. 2^2 = 4
    OBVIOUS
  <2> QED BY <2>1, <1>3 DEF backoffDelay, retryBackoff
<1> QED BY <1>1, <1>2, <1>3

-----------------------------------------------------------------------------
\* The invariant of the jobs in the beginning.
LEMMA InitIInv == JobsInit => IInv
<1> SUFFICES ASSUME JobsInit PROVE IInv
  OBVIOUS
<1>1. 0 \in 0..MaxRequests /\ 0 \in 0..maxRetries /\ 0 \in 0..jobTimeout
  BY JobsConstantsOK DEF maxRetries, jobTimeout
<1>2. TypeOK
  BY <1>1 DEF JobsInit, TypeOK
<1>3. SleepsBeforeRetry /\ OffIsFresh
  BY DEF JobsInit, SleepsBeforeRetry, OffIsFresh
<1> QED
  BY <1>2, <1>3 DEF IInv

\* What is left of a run after a wait.
LEMMA WhatIsLeft ==
  ASSUME NEW x \in 0..jobTimeout, NEW cost \in Nat
  PROVE  (IF cost < x THEN x - cost ELSE 0) \in 0..jobTimeout
<1>1. x \in Nat /\ x <= 1200 /\ jobTimeout = 1200
  BY DEF jobTimeout
<1>2. CASE cost < x
  <2>1. x - cost \in 0..1200
    BY <1>1, <1>2
  <2> QED
    BY <1>1, <1>2, <2>1
<1>3. CASE ~(cost < x)
  BY <1>1, <1>3
<1> QED
  BY <1>2, <1>3

\* A wait leaves the clock of the run between its deadline and its start.
LEMMA SpendTyped ==
  ASSUME NEW j \in Jobs, NEW cost \in Nat, left \in [Jobs -> 0..jobTimeout], done \in [Jobs -> BOOLEAN],
         Spend(j, cost)
  PROVE  /\ left' \in [Jobs -> 0..jobTimeout]
         /\ done' \in [Jobs -> BOOLEAN]
         /\ \A i \in Jobs : i # j => left'[i] = left[i] /\ done'[i] = done[i]
         /\ done[j] => left'[j] = left[j]
<1>1. left[j] \in 0..jobTimeout
  BY Zenon
<1>2. (IF cost < left[j] THEN left[j] - cost ELSE 0) \in 0..jobTimeout
  BY <1>1, WhatIsLeft, Zenon
<1>3. CASE done[j]
  <2>1. left' = [left EXCEPT ![j] = left[j]]
    BY <1>3, Zenon DEF Spend
  <2> QED
    BY <1>1, <2>1 DEF Spend
<1>4. CASE ~done[j]
  <2>1. left' = [left EXCEPT ![j] = IF cost < left[j] THEN left[j] - cost ELSE 0]
    BY <1>4, Zenon DEF Spend
  <2> QED
    BY <1>4, <1>2, <2>1 DEF Spend
<1> QED
  BY <1>3, <1>4

\* The retry after a failed attempt, and the end of a call.
LEMMA CallTyped ==
  ASSUME NEW j \in Jobs, TypeOK, NextItem(j) \/ Retry(j)
  PROVE  /\ pc' \in [Jobs -> {"off", "top", "send", "wait", "sleep", "save"}]
         /\ item' \in [Jobs -> Nat]
         /\ attempt' \in [Jobs -> 0..maxRetries]
         /\ \A i \in Jobs : i # j => pc'[i] = pc[i] /\ attempt'[i] = attempt[i]
         /\ pc'[j] \in {"top", "sleep"}
         /\ pc'[j] = "sleep" => attempt'[j] # 0
<1>1. item[j] \in Nat /\ attempt[j] \in 0..3
  BY DEF TypeOK, maxRetries
<1>2. CASE NextItem(j)
  BY <1>1, <1>2 DEF NextItem, Goto, TypeOK, maxRetries
<1>3. CASE ~NextItem(j) /\ Retry(j)
  <2>1. attempt[j] < 3
    BY <1>3 DEF Retry, maxRetries
  <2>2. attempt[j] + 1 \in 0..3 /\ attempt[j] + 1 # 0
    BY <2>1, <1>1
  <2> QED
    BY <1>3, <2>1, <2>2 DEF Retry, Goto, TypeOK, maxRetries
<1> QED
  BY <1>2, <1>3

-----------------------------------------------------------------------------
\* Every step of a run and of main keeps the invariant, and sends and waits
\* for nothing under a context that is over.
LEMMA StepIInv ==
  ASSUME IInv, [JobsNext]_jobVars
  PROVE  /\ IInv'
         /\ \A j \in Jobs : done[j] /\ pc'[j] # "off" =>
              left'[j] = left[j] /\ (pc'[j] = "wait" => pc[j] = "wait")
<1> DEFINE Quiet == \A j \in Jobs : done[j] /\ pc'[j] # "off" =>
              left'[j] = left[j] /\ (pc'[j] = "wait" => pc[j] = "wait")
<1> USE DEF IInv
<1>1. ASSUME NEW j \in Jobs, Fire(j) PROVE IInv' /\ Quiet
  BY <1>1 DEF Fire, Goto, Unmoved, TypeOK, SleepsBeforeRetry, OffIsFresh, jobTimeout, maxRetries
<1>2. ASSUME NEW j \in Jobs, ListFails(j) \/ Returns(j) PROVE IInv' /\ Quiet
  <2>1. Ends(j)
    BY <1>2 DEF ListFails, Returns
  <2> QED
    BY <2>1 DEF Ends, Goto, Unmoved, TypeOK, SleepsBeforeRetry, OffIsFresh, jobTimeout, maxRetries
<1>3. ASSUME NEW j \in Jobs, Call(j) PROVE IInv' /\ Quiet
  <2>1. CASE Goto(j, "send") /\ UNCHANGED <<item, attempt>>
    BY <1>3, <2>1 DEF Call, At, Goto, Unmoved, TypeOK, SleepsBeforeRetry, OffIsFresh
  <2>2. CASE NextItem(j)
    BY <1>3, <2>2, CallTyped DEF Call, At, Unmoved, TypeOK, SleepsBeforeRetry, OffIsFresh
  <2> QED BY <1>3, <2>1, <2>2 DEF Call
<1>4. ASSUME NEW j \in Jobs, Send(j) PROVE IInv' /\ Quiet
  <2>1. CASE done[j]
    <3>1. NextItem(j) BY <1>4, <2>1 DEF Send
    <3> QED BY <1>4, <3>1, CallTyped DEF Send, At, Unmoved, TypeOK, SleepsBeforeRetry, OffIsFresh
  <2>2. CASE ~done[j]
    BY <1>4, <2>2 DEF Send, At, Goto, Unmoved, TypeOK, SleepsBeforeRetry, OffIsFresh
  <2> QED BY <2>1, <2>2
<1>5. ASSUME NEW j \in Jobs, Answered(j) PROVE IInv' /\ Quiet
  BY <1>5 DEF Answered, At, Goto, Unmoved, TypeOK, SleepsBeforeRetry, OffIsFresh
<1>6. ASSUME NEW j \in Jobs, Refused(j) \/ Troubled(j) \/ Interrupted(j) \/ Save(j) PROVE IInv' /\ Quiet
  <2>1. (NextItem(j) \/ Retry(j)) /\ Unmoved /\ UNCHANGED <<left, done>>
    BY <1>6 DEF Refused, Troubled, Interrupted, Save
  <2>2. pc[j] # "off"
    BY <1>6 DEF Refused, Troubled, Interrupted, Save, At
  <2> QED
    BY <2>1, <2>2, CallTyped DEF Unmoved, TypeOK, SleepsBeforeRetry, OffIsFresh
<1>7. ASSUME NEW j \in Jobs, TimesOut(j) PROVE IInv' /\ Quiet
  <2>1. (NextItem(j) \/ Retry(j)) /\ Spend(j, 150) /\ ~done[j] /\ pc[j] = "wait"
    BY <1>7 DEF TimesOut, httpTimeout, At
  <2>2. Unmoved
    BY <2>1 DEF Spend
  <2> QED
    BY <2>1, <2>2, CallTyped, SpendTyped DEF Unmoved, TypeOK, SleepsBeforeRetry, OffIsFresh
<1>8. ASSUME NEW j \in Jobs, Sleep(j) PROVE IInv' /\ Quiet
  <2> DEFINE cost == backoffDelay(attempt[j])
  <2>1. attempt[j] \in 0..maxRetries /\ attempt[j] # 0
    BY <1>8 DEF Sleep, At, TypeOK, SleepsBeforeRetry
  <2>2. cost \in Nat
    BY <2>1, BackoffIsATime
  <2>3. Spend(j, cost) /\ pc[j] = "sleep"
    BY <1>8 DEF Sleep, At
  <2> HIDE DEF cost
  <2>4. Unmoved
    BY <2>3 DEF Spend
  <2>5. CASE NextItem(j)
    BY <2>2, <2>3, <2>4, <2>5, CallTyped, SpendTyped DEF Unmoved, TypeOK, SleepsBeforeRetry, OffIsFresh
  <2>6. CASE ~done[j] /\ Goto(j, "send") /\ UNCHANGED <<item, attempt>>
    BY <2>2, <2>3, <2>4, <2>6, SpendTyped DEF Goto, Unmoved, TypeOK, SleepsBeforeRetry, OffIsFresh
  <2> QED
    BY <1>8, <2>5, <2>6 DEF Sleep
<1>9. CASE RequestArrives \/ RequestEnds \/ Signal \/ DrainTimesOut \/ Stopped \/ Abandoned
  <2>1. RunsUnmoved
    BY <1>9 DEF RequestArrives, RequestEnds, Signal, DrainTimesOut, Stopped, Abandoned
  <2>2. requests' \in 0..MaxRequests /\ main' \in {"serving", "draining", "waiting", "exited", "killed", "abandoned"}
    BY <1>9, JobsConstantsOK
    DEF RequestArrives, RequestEnds, Signal, DrainTimesOut, Stopped, Abandoned, TypeOK
  <2> QED
    BY <2>1, <2>2 DEF RunsUnmoved, TypeOK, SleepsBeforeRetry, OffIsFresh
<1>10. CASE Drained
  BY <1>10 DEF Drained, TypeOK, SleepsBeforeRetry, OffIsFresh
<1>11. CASE UNCHANGED jobVars
  BY <1>11 DEF jobVars, TypeOK, SleepsBeforeRetry, OffIsFresh
<1> QED
  BY <1>1, <1>2, <1>3, <1>4, <1>5, <1>6, <1>7, <1>8, <1>9, <1>10, <1>11 DEF JobsNext, Step

\* Jobs.TypeOK, with the two facts it needs, holds in every reachable state:
\* no run has more time than its job's timeout, no call more than its retries.
THEOREM JobsTypeCorrect == JobsSpec => []TypeOK
<1>1. IInv /\ [JobsNext]_jobVars => IInv'
  BY StepIInv
<1>2. IInv => TypeOK
  BY DEF IInv
<1> QED
  BY InitIInv, <1>1, <1>2, PTL DEF JobsSpec

\* Jobs.NothingAfterTheContext for any number of jobs and items: under a
\* context that is over no request is sent and no wait takes time.
THEOREM NothingAfterTheContextHolds == JobsSpec => NothingAfterTheContext
<1>1. IInv /\ [JobsNext]_jobVars => IInv'
  BY StepIInv
<1>2. IInv /\ [JobsNext]_jobVars =>
        [\A j \in Jobs : done[j] /\ pc'[j] # "off" =>
           left'[j] = left[j] /\ (pc'[j] = "wait" => pc[j] = "wait")]_jobVars
  BY StepIInv
<1> QED
  BY InitIInv, <1>1, <1>2, PTL DEF JobsSpec, NothingAfterTheContext
=============================================================================
