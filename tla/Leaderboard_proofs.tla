------------------------- MODULE Leaderboard_proofs -------------------------
(***************************************************************************)
(* What the leaderboard, the profile and the bet history show, for any     *)
(* number of users, bets, readers and pages: theorems about Leaderboard.   *)
(*                                                                         *)
(* The statistics are sums over sets of bets; a step moves one bet from    *)
(* one set to another, so one term leaves one sum and enters another.  The *)
(* lists are made of counts: the i-th row is the one with i - 1 rows       *)
(* before it, and that this makes a list at all, of every row once and in  *)
(* order, is a lemma about strict total orders of finite sets.             *)
(***************************************************************************)
EXTENDS Leaderboard, FoldLemmas, SequenceTheorems

-----------------------------------------------------------------------------
(***************************************************************************)
(* The invariant.                                                          *)
(***************************************************************************)
Answer == [at : {"idle", "query", "put", "served", "history", "read"},
           key : AskedKeys \cup Users \cup {NULL}, since : Nat, asOf : Nat, age : Int,
           page : Int, due : SUBSET Bets]

TypeOK ==
  /\ now \in Nat
  /\ status \in [Bets -> {"none", "pending", "won", "lost", "void"}]
  /\ balance \in [Users -> Int]
  /\ cache \in [AskedKeys -> [at : Nat, asOf : Nat] \cup {NULL}]
  /\ asked \in [Readers -> Answer]

\* A stored page: its rows are no older than one query when it is stored.
StoredInTime ==
  \A k \in AskedKeys : cache[k] # NULL =>
    cache[k].asOf <= cache[k].at /\ cache[k].at <= now /\ cache[k].at - cache[k].asOf <= MaxQuery

\* An answer a: a query that is under way, the rows it brings, and what is shown.
QueryInTime(a) ==
  /\ a.at \in {"query", "put"} =>
       a.key \in AskedKeys /\ a.since <= now /\ now - a.since <= MaxQuery
  /\ a.at = "put" => a.since <= a.asOf /\ a.asOf <= now
  /\ a.at = "served" => a.age <= TTL + MaxQuery

NewerBets(u, b) == {c \in History(u) : Newer(c, b)}

\* What a reader of a history has not seen stands on the pages that are left:
\* new bets push it down, and no settlement moves it up.
StillAhead(a) ==
  /\ a.at = "history" =>
       /\ a.key \in Users /\ a.page >= 1
       /\ a.due \subseteq History(a.key)
       /\ \A b \in a.due : (a.page - 1) * PageSize <= Cardinality(NewerBets(a.key, b))
  /\ a.at = "read" => a.due = {}

ReadersInv == \A r \in Readers : QueryInTime(asked[r]) /\ StillAhead(asked[r])

ShownInv == TypeOK /\ StoredInTime /\ ReadersInv

-----------------------------------------------------------------------------
(***************************************************************************)
(* Lists made from orders, and their pages.                                *)
(***************************************************************************)
\* before[x] are the elements before x in a strict total order of S.
StrictOrder(S, before) ==
  /\ before \in [S -> SUBSET S]
  /\ \A x \in S : x \notin before[x]
  /\ \A x, y \in S : x \in before[y] => before[x] \subseteq before[y]
  /\ \A x, y \in S : x # y => x \in before[y] \/ y \in before[x]

\* list holds every element of S once, in the order before.
Lists(S, before, list) ==
  /\ Len(list) = Cardinality(S) /\ list \in Seq(S)
  /\ \A i \in 1..Cardinality(S) :
       list[i] \in S /\ Cardinality(before[list[i]]) = i - 1
  /\ \A x \in S : /\ Cardinality(before[x]) + 1 \in 1..Cardinality(S)
                  /\ list[Cardinality(before[x]) + 1] = x

\* An element has fewer elements before it than any later one.
LEMMA RanksIncrease ==
  ASSUME NEW S, IsFiniteSet(S), NEW before, StrictOrder(S, before)
  PROVE  /\ \A x \in S : Cardinality(before[x]) \in 0..Cardinality(S) - 1
         /\ \A x, y \in S : x \in before[y] => Cardinality(before[x]) < Cardinality(before[y])
<1>1. Cardinality(S) \in Nat
  BY FS_CardinalityType
<1>2. ASSUME NEW x \in S PROVE IsFiniteSet(before[x]) /\ Cardinality(before[x]) \in Nat
  <2>1. before[x] \in SUBSET S
    BY DEF StrictOrder
  <2>2. IsFiniteSet(before[x])
    BY <2>1, FS_Subset
  <2> QED
    BY <2>2, FS_CardinalityType
<1>3. ASSUME NEW x \in S PROVE Cardinality(before[x]) < Cardinality(S)
  <2>1. before[x] \in SUBSET S /\ before[x] # S
    BY DEF StrictOrder
  <2>2. Cardinality(before[x]) <= Cardinality(S) /\ Cardinality(S) # Cardinality(before[x])
    BY <2>1, FS_Subset
  <2> QED
    BY <1>1, <1>2, <2>2
<1>4. ASSUME NEW x \in S, NEW y \in S, x \in before[y]
      PROVE  Cardinality(before[x]) < Cardinality(before[y])
  <2>1. before[x] \in SUBSET before[y] /\ before[x] # before[y]
    BY <1>4 DEF StrictOrder
  <2>2. /\ Cardinality(before[x]) <= Cardinality(before[y])
        /\ Cardinality(before[y]) # Cardinality(before[x])
    BY <1>2, <2>1, FS_Subset
  <2> QED
    BY <1>2, <2>2
<1> QED
  BY <1>1, <1>2, <1>3, <1>4

\* Every place of the list is taken.
LEMMA PlacesTaken ==
  ASSUME NEW S, IsFiniteSet(S), NEW before, StrictOrder(S, before)
  PROVE  \A i \in 1..Cardinality(S) : \E x \in S : Cardinality(before[x]) = i - 1
<1>1. PICK n \in Nat : n = Cardinality(S)
  BY FS_CardinalityType
<1>2. IsFiniteSet(0..n - 1) /\ Cardinality(0..n - 1) = n
  <2>1. n - 1 \in Int /\ 0 \in Int
    BY <1>1
  <2>2. IsFiniteSet(0..n - 1) /\ Cardinality(0..n - 1) = IF 0 > n - 1 THEN 0 ELSE (n - 1) - 0 + 1
    BY <2>1, FS_Interval
  <2> QED
    BY <1>1, <2>2
<1> DEFINE f == [x \in S |-> Cardinality(before[x])]
<1>3. f \in [S -> 0..n - 1]
  BY <1>1, RanksIncrease
<1>4. ASSUME NEW x \in S, NEW y \in S, f[x] = f[y] PROVE x = y
  <2>1. Cardinality(before[x]) \in Int /\ Cardinality(before[y]) \in Int
    BY RanksIncrease
  <2>2. x # y => Cardinality(before[x]) < Cardinality(before[y]) \/ Cardinality(before[y]) < Cardinality(before[x])
    BY RanksIncrease DEF StrictOrder
  <2> QED
    BY <1>4, <2>1, <2>2
<1>5. f \in Injection(S, 0..n - 1)
  BY <1>3, <1>4 DEF Injection, IsInjective
<1>6. f \in Surjection(S, 0..n - 1)
  <2> HIDE DEF f
  <2> QED
    BY <1>1, <1>2, <1>5, FS_Injection
<1>7. \A j \in 0..n - 1 : \E x \in S : f[x] = j
  BY <1>6 DEF Surjection
<1> QED
  BY <1>1, <1>7

\* The list made from an order is the list of that order.
LEMMA InOrderLists ==
  ASSUME NEW S, IsFiniteSet(S), NEW before, StrictOrder(S, before)
  PROVE  \A list : list = InOrder(before) => Lists(S, before, list)
<1> SUFFICES ASSUME NEW list, list = InOrder(before) PROVE Lists(S, before, list)
  OBVIOUS
<1>1. PICK n \in Nat : n = Cardinality(S)
  BY FS_CardinalityType
<1>2. DOMAIN before = S
  BY DEF StrictOrder
<1>3. list = [i \in 1..n |-> CHOOSE x \in S : Cardinality(before[x]) = i - 1]
  BY <1>1, <1>2 DEF InOrder
<1>4. \A i \in 1..n : list[i] \in S /\ Cardinality(before[list[i]]) = i - 1
  BY <1>1, <1>3, PlacesTaken
<1>5. list \in Seq(S) /\ Len(list) = n
  BY <1>3, <1>4
<1>6. ASSUME NEW x \in S
      PROVE  Cardinality(before[x]) + 1 \in 1..n /\ list[Cardinality(before[x]) + 1] = x
  <2>1. Cardinality(before[x]) + 1 \in 1..n
    BY <1>1, RanksIncrease
  <2>2. PICK i \in 1..n : i = Cardinality(before[x]) + 1
    BY <2>1
  <2>3. list[i] \in S /\ Cardinality(before[list[i]]) = Cardinality(before[x])
    BY <1>1, <1>4, <2>2, RanksIncrease
  <2>4. ~(Cardinality(before[x]) < Cardinality(before[x]))
    BY <1>1, RanksIncrease
  <2>5. x \notin before[list[i]] /\ list[i] \notin before[x]
    BY <2>3, <2>4, RanksIncrease
  <2> QED
    BY <2>1, <2>2, <2>3, <2>5 DEF StrictOrder
<1> QED
  BY <1>1, <1>4, <1>5, <1>6 DEF Lists

\* Who stands earlier in the list is before the other.
LEMMA EarlierIsBefore ==
  ASSUME NEW S, IsFiniteSet(S), NEW before, StrictOrder(S, before), NEW list, Lists(S, before, list)
  PROVE  \A i, j \in 1..Cardinality(S) : i < j => list[i] \in before[list[j]]
<1> SUFFICES ASSUME NEW i \in 1..Cardinality(S), NEW j \in 1..Cardinality(S), i < j
             PROVE  list[i] \in before[list[j]]
  OBVIOUS
<1>1. /\ list[i] \in S /\ Cardinality(before[list[i]]) = i - 1
      /\ list[j] \in S /\ Cardinality(before[list[j]]) = j - 1
  BY DEF Lists
<1>2. i \in Int /\ j \in Int
  BY FS_CardinalityType
<1>3. list[i] # list[j]
  BY <1>1, <1>2
<1>4. list[j] \notin before[list[i]]
  BY <1>1, <1>2, RanksIncrease
<1> QED
  BY <1>1, <1>3, <1>4 DEF StrictOrder

\* The smaller of two numbers.
LEMMA MinOfTwo ==
  ASSUME NEW a \in Int, NEW b \in Int
  PROVE  Min({a, b}) = IF a <= b THEN a ELSE b
  BY DEF Min

\* The greater of two numbers.
LEMMA MaxOfTwo ==
  ASSUME NEW a \in Int, NEW b \in Int
  PROVE  Max({a, b}) = IF a <= b THEN b ELSE a
  BY DEF Max

\* rows is the page of a list that follows its first skip rows.
Cut(list, rows, skip) ==
  /\ Len(rows) = IF skip + PageSize <= Len(list) THEN PageSize
                 ELSE IF skip <= Len(list) THEN Len(list) - skip ELSE 0
  /\ \A k \in 1..Len(rows) : rows[k] = list[skip + k]

\* What LIMIT and OFFSET leave of a list.
LEMMA RowsOfPage ==
  ASSUME NEW S, NEW list \in Seq(S), NEW page \in Nat \ {0}
  PROVE  /\ (page - 1) * PageSize \in Nat /\ PageOf(list, page) \in Seq(S)
         /\ Cut(list, PageOf(list, page), (page - 1) * PageSize)
<1>1. PICK size \in Nat \ {0} : size = PageSize
  BY LeaderboardConstantsOK
<1>2. PICK skip, top : skip = (page - 1) * size /\ top = page * size
  OBVIOUS
<1>3. skip \in Nat /\ top = skip + size /\ Len(list) \in Nat
  <2>1. (page - 1) * size \in Nat /\ page * size = (page - 1) * size + size
    OBVIOUS
  <2> QED
    BY <1>2, <2>1
<1>4. PICK last : last = IF top <= Len(list) THEN top ELSE Len(list)
  OBVIOUS
<1>5. last \in Int /\ last <= Len(list)
  BY <1>3, <1>4
<1>6. PICK rows : rows = PageOf(list, page)
  OBVIOUS
<1>7. rows = SubSeq(list, skip + 1, last)
  <2>1. last = Min({top, Len(list)})
    BY <1>3, <1>4, MinOfTwo
  <2>2. rows = SubSeq(list, skip + 1, Min({top, Len(list)}))
    BY <1>1, <1>2, <1>6, Zenon DEF PageOf
  <2> QED
    BY <2>1, <2>2
<1>8. \A i \in skip + 1..last : list[i] \in S
  BY <1>3, <1>5
<1>9. /\ rows \in Seq(S)
      /\ Len(rows) = IF skip + 1 <= last THEN last - (skip + 1) + 1 ELSE 0
      /\ \A i \in 1..last - (skip + 1) + 1 : rows[i] = list[(skip + 1) + i - 1]
  BY <1>3, <1>5, <1>7, <1>8, SubSeqProperties
<1>10. /\ last - (skip + 1) + 1 = last - skip
       /\ \A i \in Int : (skip + 1) + i - 1 = skip + i
  BY <1>3, <1>5
<1>11. /\ Len(rows) = IF skip + 1 <= last THEN last - skip ELSE 0
       /\ \A k \in 1..last - skip : rows[k] = list[skip + k]
  BY <1>3, <1>5, <1>9, <1>10
<1>12. Cut(list, rows, skip)
  <2>1. Len(rows) = IF skip + size <= Len(list) THEN size
                    ELSE IF skip <= Len(list) THEN Len(list) - skip ELSE 0
    BY <1>1, <1>3, <1>4, <1>11
  <2>2. \A k \in 1..Len(rows) : k \in 1..last - skip
    BY <1>3, <1>5, <1>11
  <2> QED
    BY <1>1, <1>11, <2>1, <2>2 DEF Cut
<1> QED
  BY <1>1, <1>2, <1>3, <1>6, <1>9, <1>12

-----------------------------------------------------------------------------
(***************************************************************************)
(* The bets and their histories.                                           *)
(***************************************************************************)
\* Bets and what they put at stake and win.
LEMMA BetsTyped ==
  /\ IsFiniteSet(Bets) /\ Bets \subseteq Nat \ {0}
  /\ \A b \in Bets : /\ BetOf[b].user \in Users /\ Stake[b] \in Nat \ {0} /\ Payout[b] \in Nat
<1>1. Bets = 1..Len(BetOf) /\ Len(BetOf) \in Nat
  BY LeaderboardConstantsOK DEF Bets
<1>2. IsFiniteSet(1..Len(BetOf))
  <2>1. 1 \in Int /\ Len(BetOf) \in Int
    BY <1>1
  <2> QED
    BY <2>1, FS_Interval
<1>3. ASSUME NEW b \in Bets
      PROVE  BetOf[b].user \in Users /\ Stake[b] \in Nat \ {0} /\ Payout[b] \in Nat
  <2>1. BetOf[b] \in [user : Users, stake : Nat, payout : Nat]
    BY <1>1, LeaderboardConstantsOK, ElementOfSeq
  <2>2. BetOf[b].stake \in 1..BetOf[b].payout
    BY LeaderboardConstantsOK DEF Bets
  <2> QED
    BY <2>1, <2>2 DEF Stake, Payout
<1> QED
  BY <1>1, <1>2, <1>3

\* Any set of bets is finite.
LEMMA BetsFinite == \A B \in SUBSET Bets : IsFiniteSet(B) /\ Cardinality(B) \in Nat
<1> SUFFICES ASSUME NEW B \in SUBSET Bets PROVE IsFiniteSet(B) /\ Cardinality(B) \in Nat
  OBVIOUS
<1>1. IsFiniteSet(B)
  BY BetsTyped, FS_Subset
<1> QED
  BY <1>1, FS_CardinalityType

\* The newest first is an order.
LEMMA HistoryOrdered ==
  ASSUME NEW u \in Users
  PROVE  /\ History(u) \in SUBSET Bets /\ IsFiniteSet(History(u))
         /\ \A before : before = [b \in History(u) |-> {c \in History(u) : Newer(c, b)}] =>
              /\ StrictOrder(History(u), before)
              /\ \A b \in History(u) : before[b] = NewerBets(u, b)
<1>1. PICK H : H = History(u)
  OBVIOUS
<1>2. H \in SUBSET Bets /\ H \subseteq Int
  <2>1. H \in SUBSET Bets
    BY <1>1 DEF History, BetsOf
  <2> QED
    BY <2>1, BetsTyped
<1>3. IsFiniteSet(H)
  BY <1>2, BetsFinite
<1>4. ASSUME NEW before, before = [b \in H |-> {c \in H : Newer(c, b)}]
      PROVE  StrictOrder(H, before) /\ \A b \in H : before[b] = NewerBets(u, b)
  <2>1. before \in [H -> SUBSET H] /\ \A b \in H : before[b] = {c \in H : c > b}
    BY <1>4 DEF Newer
  <2>2. \A b \in H : before[b] = NewerBets(u, b)
    BY <1>1, <2>1 DEF NewerBets, Newer
  <2>3. \A x, y \in H : /\ x \in before[y] <=> x > y
                         /\ x \in Int /\ y \in Int
    BY <1>2, <2>1
  <2>4. \A x \in H : x \notin before[x]
    BY <2>3
  <2>5. ASSUME NEW x \in H, NEW y \in H, x # y PROVE x \in before[y] \/ y \in before[x]
    <3>1. x \in Int /\ y \in Int
      BY <1>2
    <3>2. CASE x > y
      BY <2>1, <2>5, <3>2
    <3>3. CASE y > x
      BY <2>1, <2>5, <3>3
    <3> QED
      BY <2>5, <3>1, <3>2, <3>3
  <2>6. ASSUME NEW x \in H, NEW y \in H, x \in before[y], NEW z \in before[x] PROVE z \in before[y]
    <3>1. z \in H
      BY <2>1, <2>6
    <3> QED
      BY <2>3, <2>6, <3>1
  <2>7. StrictOrder(H, before)
    BY <2>1, <2>4, <2>5, <2>6 DEF StrictOrder
  <2> QED
    BY <2>2, <2>7
<1> QED
  BY <1>1, <1>2, <1>3, <1>4

\* A page of a history shows those of the bets that stand on it, and it is empty
\* only behind the last one.
LEMMA PageOfHistory ==
  ASSUME NEW u \in Users, NEW page \in Nat \ {0}, NEW due \in SUBSET History(u),
         \A b \in due : (page - 1) * PageSize <= Cardinality(NewerBets(u, b))
  PROVE  \A bets : bets = ListByUser(u, page) =>
           /\ bets = <<>> => due = {}
           /\ bets # <<>> => \A b \in due \ Range(bets) :
                               page * PageSize <= Cardinality(NewerBets(u, b))
<1> SUFFICES ASSUME NEW bets, bets = ListByUser(u, page), NEW b \in due,
                    bets = <<>> \/ b \notin Range(bets)
             PROVE  bets # <<>> /\ page * PageSize <= Cardinality(NewerBets(u, b))
  OBVIOUS
<1>1. PICK before : before = [c \in History(u) |-> {d \in History(u) : Newer(d, c)}]
  OBVIOUS
<1>2. PICK H : H = History(u) /\ H \in SUBSET Bets /\ IsFiniteSet(H) /\ b \in H
  BY HistoryOrdered
<1>3. StrictOrder(H, before) /\ before[b] = NewerBets(u, b)
  BY <1>1, <1>2, HistoryOrdered
<1>4. PICK list : list = InOrder(before)
  OBVIOUS
<1>5. Lists(H, before, list)
  BY <1>2, <1>3, <1>4, InOrderLists
<1>6. bets = PageOf(list, page)
  BY <1>1, <1>4 DEF ListByUser
<1>7. PICK size \in Nat \ {0} : size = PageSize
  BY LeaderboardConstantsOK
<1>8. PICK skip, rank : skip = (page - 1) * size /\ rank = Cardinality(before[b])
  OBVIOUS
<1>9. skip \in Nat /\ page * size = skip + size
  <2>1. (page - 1) * size \in Nat /\ page * size = (page - 1) * size + size
    OBVIOUS
  <2> QED
    BY <1>8, <2>1
<1>10. list \in Seq(H) /\ Len(list) \in Nat /\ rank + 1 \in 1..Len(list) /\ list[rank + 1] = b /\ rank \in Int
  <2>1. rank \in 0..Cardinality(H) - 1 /\ Cardinality(H) \in Nat
    BY <1>2, <1>3, <1>8, RanksIncrease, FS_CardinalityType
  <2> QED
    BY <1>2, <1>5, <1>8, <2>1 DEF Lists
<1>11. skip <= rank
  BY <1>3, <1>7, <1>8
<1>12. bets \in Seq(H) /\ Cut(list, bets, skip)
  BY <1>6, <1>7, <1>8, <1>10, RowsOfPage
<1>13. bets # <<>>
  BY <1>7, <1>9, <1>10, <1>11, <1>12 DEF Cut
<1>14. ASSUME rank < skip + size PROVE b \in Range(bets)
  <2>1. PICK k : k = rank + 1 - skip
    OBVIOUS
  <2>2. k \in 1..Len(bets) /\ skip + k = rank + 1
    BY <1>7, <1>9, <1>10, <1>11, <1>12, <1>14, <2>1 DEF Cut
  <2>3. bets[k] = b /\ k \in DOMAIN bets
    BY <1>10, <1>12, <2>2 DEF Cut
  <2> QED
    BY <2>3 DEF Range
<1> QED
  BY <1>3, <1>7, <1>8, <1>9, <1>10, <1>13, <1>14

\* A history only grows, and then nothing has fewer newer bets than before.
LEMMA HistoryGrows ==
  ASSUME NEW u \in Users, History(u) \subseteq History(u)'
  PROVE  \A b \in Bets : Cardinality(NewerBets(u, b)) <= Cardinality(NewerBets(u, b)')
<1> SUFFICES ASSUME NEW b \in Bets
             PROVE  Cardinality(NewerBets(u, b)) <= Cardinality(NewerBets(u, b)')
  OBVIOUS
<1>1. PICK N, M : N = NewerBets(u, b) /\ M = NewerBets(u, b)'
  OBVIOUS
<1>2. N \in SUBSET M
  BY <1>1 DEF NewerBets, Newer
<1>3. M \in SUBSET Bets
  BY <1>1 DEF NewerBets, History, BetsOf
<1>4. IsFiniteSet(M)
  BY <1>3, BetsFinite
<1> QED
  BY <1>1, <1>2, <1>4, FS_Subset

-----------------------------------------------------------------------------
(***************************************************************************)
(* The requests keep the invariant: whatever a reader does, the answer it  *)
(* holds afterwards is good.                                               *)
(***************************************************************************)
Answered(r) ==
  \E a \in Answer : QueryInTime(a) /\ StillAhead(a) /\ asked' = [asked EXCEPT ![r] = a]

\* Nobody is asking, and a finished reader shows nothing that is owed.
LEMMA NobodyIsGood == Nobody \in Answer /\ QueryInTime(Nobody) /\ StillAhead(Nobody)
  BY DEF Nobody, Answer, QueryInTime, StillAhead

\* In the beginning.
LEMMA ShownInit == Init => ShownInv
<1> SUFFICES ASSUME Init PROVE ShownInv
  OBVIOUS
<1>1. TypeOK
  BY NobodyIsGood, LeaderboardConstantsOK DEF Init, TypeOK
<1>2. StoredInTime
  BY DEF Init, StoredInTime
<1>3. ReadersInv
  BY NobodyIsGood DEF Init, ReadersInv
<1> QED
  BY <1>1, <1>2, <1>3 DEF ShownInv

\* An answer is made of its fields.
LEMMA MadeOfFields ==
  ASSUME NEW s \in {"idle", "query", "put", "served", "history", "read"},
         NEW k \in AskedKeys \cup Users \cup {NULL}, NEW since \in Nat, NEW asOf \in Nat,
         NEW age \in Int, NEW page \in Nat, NEW due \in SUBSET Bets
  PROVE  \A a : a = [at |-> s, key |-> k, since |-> since, asOf |-> asOf, age |-> age,
                    page |-> page, due |-> due] =>
           /\ a \in Answer
           /\ a.at = s /\ a.key = k /\ a.since = since /\ a.asOf = asOf
           /\ a.age = age /\ a.page = page /\ a.due = due
  BY DEF Answer

\* A hit is fresh, a miss starts a query.
LEMMA GetsCachedAnswers ==
  ASSUME ShownInv, NEW r \in Readers, NEW q \in Queries, GetsCached(r, q)
  PROVE  Answered(r) /\ cache' = cache
<1>1. PICK k \in AskedKeys : k = Filled(q)
  BY DEF GetsCached, AskedKeys
<1>2. now \in Nat /\ TTL \in Nat /\ MaxQuery \in Nat
  BY LeaderboardConstantsOK DEF ShownInv, TypeOK
<1>3. CASE Fresh(cache[k])
  <2>1. PICK a : a = [Nobody EXCEPT !.at = "served", !.age = now - cache[k].asOf]
    OBVIOUS
  <2>2. /\ cache[k].at \in Nat /\ cache[k].asOf \in Nat
        /\ cache[k].at - cache[k].asOf <= MaxQuery /\ now - cache[k].at <= TTL
    BY <1>3 DEF ShownInv, TypeOK, StoredInTime, Fresh
  <2>3. PICK age \in Int : age = now - cache[k].asOf
    BY <1>2, <2>2
  <2>4. a = [at |-> "served", key |-> NULL, since |-> 0, asOf |-> 0, age |-> age,
             page |-> 0, due |-> {}]
    BY <2>1, <2>3 DEF Nobody
  <2>5. a \in Answer /\ a.at = "served" /\ a.age = age
    <3>1. a.at = "served" /\ a.age = age
      BY <2>4
    <3>2. a \in Answer
      BY <2>3, <2>4 DEF Answer
    <3> QED
      BY <3>1, <3>2
  <2>6. QueryInTime(a) /\ StillAhead(a)
    BY <1>2, <2>2, <2>3, <2>5 DEF QueryInTime, StillAhead
  <2>7. asked' = [asked EXCEPT ![r] = a]
    BY <1>1, <1>3, <2>1 DEF GetsCached, Serve
  <2> QED
    BY <2>5, <2>6, <2>7 DEF Answered, GetsCached, Touch
<1>4. CASE ~Fresh(cache[k])
  <2>1. PICK a : a = [Nobody EXCEPT !.at = "query", !.key = k, !.since = now]
    OBVIOUS
  <2>2. a = [at |-> "query", key |-> k, since |-> now, asOf |-> 0, age |-> 0,
             page |-> 0, due |-> {}]
    BY <2>1 DEF Nobody
  <2>3. a \in Answer /\ a.at = "query" /\ a.key = k /\ a.since = now
    BY <1>1, <1>2, <2>2, MadeOfFields, SMTT(30)
  <2>4. QueryInTime(a) /\ StillAhead(a)
    BY <1>1, <1>2, <2>3 DEF QueryInTime, StillAhead
  <2>5. asked' = [asked EXCEPT ![r] = a]
    BY <1>1, <1>4, <2>1 DEF GetsCached
  <2> QED
    BY <2>3, <2>4, <2>5 DEF Answered, GetsCached, Touch
<1> QED
  BY <1>3, <1>4

\* The rows a query brings are of now.
LEMMA QueriedAnswers ==
  ASSUME ShownInv, NEW r \in Readers, Queried(r)
  PROVE  Answered(r) /\ cache' = cache
<1>1. PICK a : a = [asked[r] EXCEPT !.at = "put", !.asOf = now]
  OBVIOUS
<1>2. /\ asked[r] \in Answer /\ asked[r].at = "query" /\ now \in Nat /\ QueryInTime(asked[r])
      /\ asked \in [Readers -> Answer]
  BY DEF Queried, ShownInv, TypeOK, ReadersInv
<1>3. a \in Answer /\ a.at = "put" /\ a.asOf = now /\ a.key = asked[r].key /\ a.since = asked[r].since
  BY <1>1, <1>2 DEF Answer
<1>4. QueryInTime(a) /\ StillAhead(a)
  BY <1>2, <1>3 DEF QueryInTime, StillAhead
<1>5. asked' = [asked EXCEPT ![r] = a]
  BY <1>1, <1>2 DEF Queried
<1> QED
  BY <1>3, <1>4, <1>5 DEF Answered, Queried

\* A stored page is as recent as its rows.
LEMMA PutsAnswers ==
  ASSUME ShownInv, NEW r \in Readers, Puts(r)
  PROVE  Answered(r) /\ DbUnmoved /\ \E k \in AskedKeys : \E e \in [at : Nat, asOf : Nat] :
           /\ cache' = [cache EXCEPT ![k] = e]
           /\ e.asOf <= e.at /\ e.at <= now /\ e.at - e.asOf <= MaxQuery
<1>1. /\ asked[r] \in Answer /\ asked[r].at = "put" /\ now \in Nat /\ QueryInTime(asked[r])
  BY DEF Puts, ShownInv, TypeOK, ReadersInv
<1>2. TTL \in Nat /\ MaxQuery \in Nat
  BY LeaderboardConstantsOK
<1>3. /\ asked[r].key \in AskedKeys /\ asked[r].asOf \in Nat /\ asked[r].since \in Nat
      /\ asked[r].asOf <= now /\ now - asked[r].asOf <= MaxQuery
  BY <1>1, <1>2 DEF QueryInTime, Answer
<1>4. PICK a : a = [Nobody EXCEPT !.at = "served", !.age = now - asked[r].asOf]
  OBVIOUS
<1>5. a \in Answer /\ a.at = "served" /\ a.age = now - asked[r].asOf
  <2>1. PICK age \in Int : age = now - asked[r].asOf
    BY <1>1, <1>3
  <2>2. a = [at |-> "served", key |-> NULL, since |-> 0, asOf |-> 0, age |-> age,
             page |-> 0, due |-> {}]
    BY <1>4, <2>1 DEF Nobody
  <2>3. a \in Answer /\ a.at = "served" /\ a.age = age
    <3>1. a.at = "served" /\ a.age = age
      BY <2>2
    <3>2. a \in Answer
      BY <2>1, <2>2 DEF Answer
    <3> QED
      BY <3>1, <3>2
  <2> QED
    BY <2>1, <2>3
<1>6. QueryInTime(a) /\ StillAhead(a)
  BY <1>1, <1>2, <1>3, <1>5 DEF QueryInTime, StillAhead
<1>7. Answered(r)
  BY <1>4, <1>5, <1>6 DEF Answered, Puts, Serve
<1>8. PICK e : e = [at |-> now, asOf |-> asked[r].asOf]
  OBVIOUS
<1>9. e \in [at : Nat, asOf : Nat] /\ e.at = now /\ e.asOf = asked[r].asOf
  BY <1>1, <1>3, <1>8
<1>10. cache' = [cache EXCEPT ![asked[r].key] = e] /\ DbUnmoved
  BY <1>8 DEF Puts
<1>11. e.asOf <= e.at /\ e.at <= now /\ e.at - e.asOf <= MaxQuery
  BY <1>1, <1>3, <1>9
<1> QED
  BY <1>3, <1>7, <1>9, <1>10, <1>11

\* Who opens a history is owed all of it.
LEMMA OpensAnswers ==
  ASSUME ShownInv, NEW r \in Readers, NEW u \in Users, OpensHistory(r, u)
  PROVE  Answered(r) /\ cache' = cache
<1>1. PICK a : a = [Nobody EXCEPT !.at = "history", !.key = u, !.page = 1, !.due = History(u)]
  OBVIOUS
<1>2. History(u) \in SUBSET Bets
  BY HistoryOrdered
<1>3. a \in Answer /\ a.at = "history" /\ a.key = u /\ a.page = 1 /\ a.due = History(u)
  <2>1. a = [at |-> "history", key |-> u, since |-> 0, asOf |-> 0, age |-> 0,
             page |-> 1, due |-> History(u)]
    BY <1>1 DEF Nobody
  <2> QED
    BY <1>2, <2>1, MadeOfFields
<1>4. ASSUME NEW b \in Bets PROVE (1 - 1) * PageSize <= Cardinality(NewerBets(u, b))
  <2>1. NewerBets(u, b) \in SUBSET Bets
    BY <1>2 DEF NewerBets
  <2>2. Cardinality(NewerBets(u, b)) \in Nat
    BY <2>1, BetsFinite
  <2>3. (1 - 1) * PageSize = 0
    BY LeaderboardConstantsOK
  <2> QED
    BY <2>2, <2>3
<1>5. QueryInTime(a)
  BY <1>3 DEF QueryInTime
<1>6. StillAhead(a)
  BY <1>2, <1>3, <1>4 DEF StillAhead
<1>7. asked' = [asked EXCEPT ![r] = a] /\ cache' = cache
  BY <1>1 DEF OpensHistory
<1> QED
  BY <1>3, <1>5, <1>6, <1>7 DEF Answered

\* Who turns a page is owed less, and nothing on the last one.
LEMMA TurnsPageAnswers ==
  ASSUME ShownInv, NEW r \in Readers, TurnsPage(r)
  PROVE  Answered(r) /\ cache' = cache
<1>1. PICK b : b = asked[r]
  OBVIOUS
<1>2. b \in Answer /\ b.at = "history" /\ StillAhead(b) /\ asked \in [Readers -> Answer]
  BY <1>1 DEF TurnsPage, ShownInv, TypeOK, ReadersInv
<1>3. PICK bets : bets = ListByUser(b.key, b.page)
  OBVIOUS
<1>4. /\ b.key \in Users /\ b.page \in Nat \ {0} /\ b.due \in SUBSET History(b.key)
      /\ \A x \in b.due : (b.page - 1) * PageSize <= Cardinality(NewerBets(b.key, x))
  BY <1>2 DEF StillAhead, Answer
<1>5. /\ bets = <<>> => b.due = {}
      /\ bets # <<>> => \A x \in b.due \ Range(bets) :
                          b.page * PageSize <= Cardinality(NewerBets(b.key, x))
  BY <1>3, <1>4, PageOfHistory
<1>6. CASE bets = <<>>
  <2>1. PICK a : a = [Nobody EXCEPT !.at = "read", !.due = b.due]
    OBVIOUS
  <2>2. a \in Answer /\ a.at = "read" /\ a.due = {}
    <3>1. a = [at |-> "read", key |-> NULL, since |-> 0, asOf |-> 0, age |-> 0,
               page |-> 0, due |-> {}]
      BY <1>5, <1>6, <2>1 DEF Nobody
    <3> QED
      BY <3>1, MadeOfFields
  <2>3. QueryInTime(a) /\ StillAhead(a)
    BY <2>2 DEF QueryInTime, StillAhead
  <2>4. asked' = [asked EXCEPT ![r] = a] /\ cache' = cache
    BY <1>1, <1>3, <1>6, <2>1 DEF TurnsPage
  <2> QED
    BY <2>2, <2>3, <2>4 DEF Answered
<1>7. CASE bets # <<>>
  <2>1. PICK a : a = [b EXCEPT !.page = b.page + 1, !.due = b.due \ Range(bets)]
    OBVIOUS
  <2>2. /\ a \in Answer /\ a.at = "history" /\ a.key = b.key
        /\ a.page = b.page + 1 /\ a.due = b.due \ Range(bets)
    <3>1. /\ b.key \in Users /\ b.since \in Nat /\ b.asOf \in Nat /\ b.age \in Int
          /\ b.page + 1 \in Nat /\ b.due \ Range(bets) \in SUBSET Bets
      BY <1>2, <1>4 DEF Answer
    <3>2. PICK page, due : page = b.page + 1 /\ due = b.due \ Range(bets)
      OBVIOUS
    <3>3. a = [at |-> "history", key |-> b.key, since |-> b.since, asOf |-> b.asOf, age |-> b.age,
               page |-> page, due |-> due]
      BY <1>2, <2>1, <3>2 DEF Answer
    <3>4. a \in Answer /\ a.at = "history" /\ a.key = b.key /\ a.page = page /\ a.due = due
      <4>1. a.at = "history" /\ a.key = b.key /\ a.page = page /\ a.due = due
        BY <3>3
      <4>2. a \in Answer
        BY <3>1, <3>2, <3>3 DEF Answer
      <4> QED
        BY <4>1, <4>2
    <3> QED
      BY <3>2, <3>4
  <2>3. (a.page - 1) * PageSize = b.page * PageSize
    BY <1>4, <2>2
  <2>4. QueryInTime(a) /\ StillAhead(a)
    BY <1>4, <1>5, <1>7, <2>2, <2>3 DEF QueryInTime, StillAhead
  <2>5. asked' = [asked EXCEPT ![r] = a] /\ cache' = cache
    BY <1>1, <1>3, <1>7, <2>1 DEF TurnsPage
  <2> QED
    BY <2>2, <2>4, <2>5 DEF Answered
<1> QED
  BY <1>6, <1>7

\* A request moves the invariant on.
LEMMA ReaderStep ==
  ASSUME ShownInv, NEW r \in Readers,
         \/ \E q \in Queries : GetsCached(r, q)
         \/ Queried(r) \/ QueryFails(r) \/ Puts(r)
         \/ \E u \in Users : OpensHistory(r, u)
         \/ TurnsPage(r) \/ Closes(r)
  PROVE  ShownInv'
<1>1. Answered(r)
  <2>1. CASE QueryFails(r) \/ Closes(r)
    BY <2>1, NobodyIsGood DEF QueryFails, Closes, Answered
  <2> QED
    BY <2>1, GetsCachedAnswers, QueriedAnswers, PutsAnswers, OpensAnswers, TurnsPageAnswers
<1>2. DbUnmoved
  BY DEF GetsCached, Queried, QueryFails, Puts, OpensHistory, TurnsPage, Closes
<1>3. /\ cache' \in [AskedKeys -> [at : Nat, asOf : Nat] \cup {NULL}]
      /\ StoredInTime'
  <2>1. CASE Puts(r)
    <3>1. PICK k \in AskedKeys, e \in [at : Nat, asOf : Nat] :
                 /\ cache' = [cache EXCEPT ![k] = e]
                 /\ e.asOf <= e.at /\ e.at <= now /\ e.at - e.asOf <= MaxQuery
      BY <2>1, PutsAnswers
    <3>2. cache \in [AskedKeys -> [at : Nat, asOf : Nat] \cup {NULL}]
      BY DEF ShownInv, TypeOK
    <3>3. \A l \in AskedKeys : cache'[l] = IF l = k THEN e ELSE cache[l]
      BY <3>1, <3>2
    <3>4. StoredInTime'
      BY <1>2, <3>1, <3>3 DEF ShownInv, StoredInTime, DbUnmoved
    <3> QED
      BY <3>1, <3>2, <3>4
  <2>2. CASE ~Puts(r)
    <3>1. cache' = cache
      BY <2>2, GetsCachedAnswers, QueriedAnswers, OpensAnswers, TurnsPageAnswers DEF QueryFails, Closes
    <3> QED
      BY <1>2, <3>1 DEF ShownInv, TypeOK, StoredInTime, DbUnmoved
  <2> QED
    BY <2>1, <2>2
<1>4. PICK a \in Answer : QueryInTime(a) /\ StillAhead(a) /\ asked' = [asked EXCEPT ![r] = a]
  BY <1>1 DEF Answered
<1>5. \A b : (QueryInTime(b)' <=> QueryInTime(b)) /\ (StillAhead(b)' <=> StillAhead(b))
  BY <1>2 DEF DbUnmoved, QueryInTime, StillAhead, NewerBets, History, BetsOf
<1>6. asked \in [Readers -> Answer]
  BY DEF ShownInv, TypeOK
<1>7. TypeOK'
  BY <1>2, <1>3, <1>4, <1>6 DEF ShownInv, TypeOK, DbUnmoved
<1>8. ReadersInv'
  <2> SUFFICES ASSUME NEW s \in Readers PROVE (QueryInTime(asked[s]) /\ StillAhead(asked[s]))'
    BY DEF ReadersInv
  <2>1. PICK b : b = asked'[s]
    OBVIOUS
  <2>2. QueryInTime(b) /\ StillAhead(b)
    BY <1>4, <1>6, <2>1 DEF ShownInv, ReadersInv
  <2>3. QueryInTime(b)' /\ StillAhead(b)'
    BY <1>5, <2>2
  <2> QED
    BY <2>1, <2>3
<1> QED
  BY <1>3, <1>7, <1>8 DEF ShownInv

-----------------------------------------------------------------------------
(***************************************************************************)
(* The steps of the database keep the invariant.                           *)
(***************************************************************************)
\* A placed bet joins a history, a decided one stays where it is.
LEMMA BetStep ==
  ASSUME ShownInv, NEW b \in Bets,
         PlaceBet(b) \/ \E result \in {"won", "lost", "void"} : Settle(b, result)
  PROVE  /\ \A u \in Users : History(u) \subseteq History(u)'
         /\ status' \in [Bets -> {"none", "pending", "won", "lost", "void"}]
         /\ balance' \in [Users -> Int]
         /\ UNCHANGED <<now, cache, asked>>
<1>1. /\ status \in [Bets -> {"none", "pending", "won", "lost", "void"}] /\ balance \in [Users -> Int]
      /\ Stake[b] \in Int /\ Payout[b] \in Int
  BY BetsTyped DEF ShownInv, TypeOK
<1>2. CASE PlaceBet(b)
  <2>1. /\ status' = [status EXCEPT ![b] = "pending"]
        /\ balance' = [balance EXCEPT ![BetOf[b].user] = @ - Stake[b]]
        /\ UNCHANGED <<now, cache, asked>>
    BY <1>2 DEF PlaceBet
  <2>2. \A u \in Users : History(u) \subseteq History(u)'
    BY <1>1, <2>1 DEF History, BetsOf
  <2>3. balance' \in [Users -> Int]
    <3>1. \A u \in Users : balance[u] - Stake[b] \in Int
      BY <1>1
    <3> QED
      BY <1>1, <2>1, <3>1
  <2>4. status' \in [Bets -> {"none", "pending", "won", "lost", "void"}]
    BY <1>1, <2>1
  <2> QED
    BY <2>1, <2>2, <2>3, <2>4
<1>3. ASSUME NEW result \in {"won", "lost", "void"}, Settle(b, result)
      PROVE  /\ \A u \in Users : History(u) \subseteq History(u)'
             /\ status' \in [Bets -> {"none", "pending", "won", "lost", "void"}]
             /\ balance' \in [Users -> Int]
             /\ UNCHANGED <<now, cache, asked>>
  <2>1. /\ status' = [status EXCEPT ![b] = result]
        /\ balance' = [balance EXCEPT ![BetOf[b].user] = @ + Credit(b, result)]
        /\ UNCHANGED <<now, cache, asked>>
    BY <1>3 DEF Settle
  <2>2. Credit(b, result) \in Int
    BY <1>1, <1>3 DEF Credit
  <2>3. \A u \in Users : History(u) \subseteq History(u)'
    BY <1>1, <1>3, <2>1 DEF History, BetsOf
  <2>4. balance' \in [Users -> Int]
    <3>1. \A u \in Users : balance[u] + Credit(b, result) \in Int
      BY <1>1, <2>2
    <3> QED
      BY <1>1, <2>1, <3>1
  <2>5. status' \in [Bets -> {"none", "pending", "won", "lost", "void"}]
    BY <1>1, <1>3, <2>1
  <2> QED
    BY <2>1, <2>3, <2>4, <2>5
<1> QED
  BY <1>2, <1>3

\* A reader is not hurt by it.
LEMMA BetStepKeeps ==
  ASSUME ShownInv, NEW b \in Bets,
         PlaceBet(b) \/ \E result \in {"won", "lost", "void"} : Settle(b, result)
  PROVE  ShownInv'
<1>1. /\ \A u \in Users : History(u) \subseteq History(u)'
      /\ status' \in [Bets -> {"none", "pending", "won", "lost", "void"}]
      /\ balance' \in [Users -> Int]
      /\ UNCHANGED <<now, cache, asked>>
  BY BetStep
<1>2. TypeOK' /\ StoredInTime'
  BY <1>1 DEF ShownInv, TypeOK, StoredInTime
<1>3. ASSUME NEW r \in Readers PROVE (QueryInTime(asked[r]) /\ StillAhead(asked[r]))'
  <2>1. PICK a : a = asked[r]
    OBVIOUS
  <2>2. QueryInTime(a) /\ StillAhead(a) /\ a \in Answer /\ asked' = asked /\ now' = now
    BY <1>1, <2>1 DEF ShownInv, ReadersInv, TypeOK
  <2>3. QueryInTime(a)'
    BY <2>2 DEF QueryInTime
  <2>4. ASSUME a.at = "history"
        PROVE  /\ a.key \in Users /\ a.page >= 1 /\ a.due \subseteq History(a.key)'
               /\ \A x \in a.due : (a.page - 1) * PageSize <= Cardinality(NewerBets(a.key, x)')
    <3>1. PICK u \in Users : u = a.key
      BY <2>2, <2>4 DEF StillAhead
    <3>2. PICK skip \in Int : skip = (a.page - 1) * PageSize
      BY <2>2, LeaderboardConstantsOK DEF Answer
    <3>3. a.due \subseteq Bets /\ \A x \in a.due : skip <= Cardinality(NewerBets(u, x))
      BY <2>2, <2>4, <3>1, <3>2 DEF StillAhead, Answer
    <3>4. \A x \in Bets : /\ Cardinality(NewerBets(u, x)) <= Cardinality(NewerBets(u, x)')
                          /\ Cardinality(NewerBets(u, x)) \in Int
                          /\ Cardinality(NewerBets(u, x)') \in Int
      <4>1. \A x \in Bets : NewerBets(u, x) \in SUBSET Bets /\ NewerBets(u, x)' \in SUBSET Bets
        BY DEF NewerBets, History, BetsOf
      <4> QED
        BY <1>1, <4>1, HistoryGrows, BetsFinite
    <3>5. \A x \in a.due : skip <= Cardinality(NewerBets(u, x)')
      BY <3>3, <3>4
    <3> QED
      BY <1>1, <2>2, <2>4, <3>1, <3>2, <3>5 DEF StillAhead
  <2>5. StillAhead(a)'
    BY <2>2, <2>4 DEF StillAhead
  <2> QED
    BY <2>1, <2>2, <2>3, <2>5
<1> QED
  BY <1>2, <1>3 DEF ShownInv, ReadersInv

\* The clock does not pass the time of a query.
LEMMA TickKeeps ==
  ASSUME ShownInv, Tick
  PROVE  ShownInv'
<1>1. now \in Nat /\ now' = now + 1 /\ UNCHANGED <<status, balance, cache, asked>>
  BY DEF Tick, ShownInv, TypeOK
<1>2. TypeOK'
  BY <1>1 DEF ShownInv, TypeOK
<1>3. StoredInTime'
  <2> SUFFICES ASSUME NEW k \in AskedKeys, cache[k] # NULL
               PROVE  cache[k].asOf <= cache[k].at /\ cache[k].at <= now + 1 /\ cache[k].at - cache[k].asOf <= MaxQuery
    BY <1>1 DEF StoredInTime
  <2>1. cache[k].at \in Nat
    BY DEF ShownInv, TypeOK
  <2> QED
    BY <1>1, <2>1 DEF ShownInv, StoredInTime
<1>4. ASSUME NEW r \in Readers PROVE (QueryInTime(asked[r]) /\ StillAhead(asked[r]))'
  <2>1. PICK a : a = asked[r]
    OBVIOUS
  <2>2. QueryInTime(a) /\ StillAhead(a) /\ a \in Answer /\ asked' = asked
    BY <1>1, <2>1 DEF ShownInv, ReadersInv, TypeOK
  <2>3. a.at \in {"query", "put"} => now - a.since < MaxQuery
    BY <2>1 DEF Tick
  <2>4. a.since \in Nat /\ a.asOf \in Nat /\ MaxQuery \in Nat
    BY <2>2, LeaderboardConstantsOK DEF Answer
  <2>5. QueryInTime(a)'
    BY <1>1, <2>2, <2>3, <2>4 DEF QueryInTime
  <2>6. StillAhead(a)'
    BY <1>1, <2>2 DEF StillAhead, NewerBets, History, BetsOf
  <2> QED
    BY <2>1, <2>2, <2>5, <2>6
<1> QED
  BY <1>2, <1>3, <1>4 DEF ShownInv, ReadersInv

\* Every step.
LEMMA ShownStep == ShownInv /\ [Next]_vars => ShownInv'
<1> SUFFICES ASSUME ShownInv, [Next]_vars PROVE ShownInv'
  OBVIOUS
<1>1. CASE UNCHANGED vars
  BY <1>1 DEF vars, ShownInv, TypeOK, StoredInTime, ReadersInv, QueryInTime, StillAhead,
              NewerBets, History, BetsOf
<1>2. ASSUME NEW r \in Readers,
             \/ \E q \in Queries : GetsCached(r, q)
             \/ Queried(r) \/ QueryFails(r) \/ Puts(r)
             \/ \E u \in Users : OpensHistory(r, u)
             \/ TurnsPage(r) \/ Closes(r)
      PROVE  ShownInv'
  BY <1>2, ReaderStep
<1>3. ASSUME NEW b \in Bets,
             PlaceBet(b) \/ \E result \in {"won", "lost", "void"} : Settle(b, result)
      PROVE  ShownInv'
  BY <1>3, BetStepKeeps
<1>4. CASE Tick
  BY <1>4, TickKeeps
<1> QED
  BY <1>1, <1>2, <1>3, <1>4 DEF Next

\* The invariant holds.
THEOREM ShownInvariant == Spec => []ShownInv
<1>1. Init => ShownInv
  BY ShownInit
<1>2. ShownInv /\ [Next]_vars => ShownInv'
  BY ShownStep
<1> QED
  BY <1>1, <1>2, PTL DEF Spec

\* No visitor is shown a leaderboard older than the life of a page and the time
\* of one query (cacheGet, cachePut), however many visitors ask at once.
THEOREM RecentPages == Spec => []ServedIsRecent
<1>1. ShownInv => ServedIsRecent
  BY DEF ShownInv, ReadersInv, QueryInTime, ServedIsRecent
<1> QED
  BY <1>1, ShownInvariant, PTL

\* Who turns the pages of a history to the end has seen every bet that was in it
\* at first, whatever is placed and decided meanwhile (ListByUser).
THEOREM CompleteHistories == Spec => []HistoryIsComplete
<1>1. ShownInv => HistoryIsComplete
  BY DEF ShownInv, ReadersInv, StillAhead, HistoryIsComplete
<1> QED
  BY <1>1, ShownInvariant, PTL

-----------------------------------------------------------------------------
(***************************************************************************)
(* The statistics and the wallet.                                          *)
(***************************************************************************)
Wins(u)   == BetsOf(u, {"won"})
Closed(u) == BetsOf(u, Decided)
Open(u)   == BetsOf(u, {"pending"})

\* A sum over bets, and what one bet more adds to it.
LEMMA OneBetMore ==
  ASSUME NEW f, f = Stake \/ f = Payout
  PROVE  /\ SumFunctionOnSet(f, {}) = 0
         /\ \A T \in SUBSET Bets : SumFunctionOnSet(f, T) \in Int
         /\ \A T \in SUBSET Bets : \A b \in Bets : \A U : U = T \cup {b} /\ b \notin T =>
              SumFunctionOnSet(f, U) = f[b] + SumFunctionOnSet(f, T)
<1>1. \A b \in Bets : f[b] \in Int
  BY BetsTyped
<1>2. ASSUME NEW T \in SUBSET Bets PROVE SumFunctionOnSet(f, T) \in Int
  <2>1. IsFiniteSet(T) /\ \A b \in T : f[b] \in Int
    BY <1>1, BetsFinite
  <2> QED
    BY <2>1, SumTyped
<1>3. ASSUME NEW T \in SUBSET Bets, NEW b \in Bets, b \notin T, NEW U, U = T \cup {b}
      PROVE  SumFunctionOnSet(f, U) = f[b] + SumFunctionOnSet(f, T)
  <2>1. U \in SUBSET Bets /\ b \in U /\ U \ {b} = T
    BY <1>3
  <2>2. IsFiniteSet(U) /\ \A c \in U : f[c] \in Int
    BY <1>1, <2>1, BetsFinite
  <2>3. SumFunctionOnSet(f, U) = f[b] + SumFunctionOnSet(f, U \ {b})
    BY <2>1, <2>2, SumTakeOut
  <2> QED
    BY <2>1, <2>3
<1> QED
  BY <1>2, <1>3, SumOfNone

\* What a profile shows, as sums over the bets.
WalletGain(u) ==
  balance[u] = SignupBonus + (SumFunctionOnSet(Payout, Wins(u)) - SumFunctionOnSet(Stake, Closed(u)))
               - SumFunctionOnSet(Stake, Open(u))

\* It is what the property says, in a state and in the next one.
LEMMA GainIsGain == /\ ProfitIsWalletGain <=> \A u \in Users : WalletGain(u)
                    /\ ProfitIsWalletGain' <=> \A u \in Users : WalletGain(u)'
<1>1. ASSUME NEW u \in Users
      PROVE  GetUserStats(u).profit = SumFunctionOnSet(Payout, Wins(u)) - SumFunctionOnSet(Stake, Closed(u))
  BY DEF GetUserStats, Wins, Closed
<1>2. ASSUME NEW u \in Users
      PROVE  (GetUserStats(u).profit)' =
               SumFunctionOnSet(Payout, Wins(u)') - SumFunctionOnSet(Stake, Closed(u)')
  BY DEF GetUserStats, Wins, Closed
<1> QED
  BY <1>1, <1>2 DEF ProfitIsWalletGain, WalletGain, Open

\* Before the first bet there is the bonus.
LEMMA GainInit == Init => ProfitIsWalletGain
<1> SUFFICES ASSUME Init, NEW u \in Users PROVE WalletGain(u)
  BY GainIsGain
<1>1. Wins(u) = {} /\ Closed(u) = {} /\ Open(u) = {}
  BY DEF Init, Wins, Closed, Open, BetsOf, Decided
<1>2. balance[u] = SignupBonus /\ SignupBonus \in Int
  BY LeaderboardConstantsOK DEF Init
<1> QED
  BY <1>1, <1>2, OneBetMore DEF WalletGain

\* The bets of other users stay where they are.
LEMMA OthersUnmoved ==
  ASSUME TypeOK, NEW b \in Bets, NEW s, status' = [status EXCEPT ![b] = s],
         NEW u \in Users, BetOf[b].user # u
  PROVE  Wins(u)' = Wins(u) /\ Closed(u)' = Closed(u) /\ Open(u)' = Open(u)
  BY DEF TypeOK, Wins, Closed, Open, BetsOf

\* Sets of bets.
LEMMA SetsOfBets ==
  ASSUME NEW u
  PROVE  /\ Wins(u) \in SUBSET Bets /\ Closed(u) \in SUBSET Bets /\ Open(u) \in SUBSET Bets
         /\ Wins(u)' \in SUBSET Bets /\ Closed(u)' \in SUBSET Bets /\ Open(u)' \in SUBSET Bets
  BY DEF Wins, Closed, Open, BetsOf

\* A stake leaves the wallet when its bet becomes pending.
LEMMA PlaceBetGain ==
  ASSUME TypeOK, ProfitIsWalletGain, NEW b \in Bets, PlaceBet(b)
  PROVE  ProfitIsWalletGain'
<1> SUFFICES ASSUME NEW u \in Users PROVE WalletGain(u)'
  BY GainIsGain
<1>1. /\ status' = [status EXCEPT ![b] = "pending"]
      /\ balance' = [balance EXCEPT ![BetOf[b].user] = @ - Stake[b]]
      /\ status[b] = "none" /\ WalletGain(u)
  BY GainIsGain DEF PlaceBet
<1>2. balance \in [Users -> Int] /\ status \in [Bets -> {"none", "pending", "won", "lost", "void"}]
  BY DEF TypeOK
<1>3. CASE BetOf[b].user # u
  BY <1>1, <1>2, <1>3, OthersUnmoved DEF WalletGain
<1>4. CASE BetOf[b].user = u
  <2>1. PICK W, C, O, P : W = Wins(u) /\ C = Closed(u) /\ O = Open(u) /\ P = Open(u)'
    OBVIOUS
  <2>2. Wins(u)' = W /\ Closed(u)' = C
    BY <1>1, <1>2, <2>1 DEF Wins, Closed, BetsOf, Decided
  <2>3. P = O \cup {b} /\ b \notin O
    BY <1>1, <1>2, <1>4, <2>1 DEF Open, BetsOf
  <2>4. SumFunctionOnSet(Stake, P) = Stake[b] + SumFunctionOnSet(Stake, O)
    BY <2>1, <2>3, SetsOfBets, OneBetMore
  <2>5. /\ SumFunctionOnSet(Stake, O) \in Int /\ SumFunctionOnSet(Stake, C) \in Int
        /\ SumFunctionOnSet(Payout, W) \in Int /\ Stake[b] \in Int /\ SignupBonus \in Int
    BY <2>1, SetsOfBets, OneBetMore, BetsTyped, LeaderboardConstantsOK
  <2>6. balance'[u] = balance[u] - Stake[b] /\ balance[u] \in Int
    BY <1>1, <1>2, <1>4
  <2> QED
    BY <1>1, <2>1, <2>2, <2>4, <2>5, <2>6 DEF WalletGain
<1> QED
  BY <1>3, <1>4

\* What settlement credits is what the statistics say the bet brought.
LEMMA SettleGain ==
  ASSUME TypeOK, ProfitIsWalletGain, NEW b \in Bets, NEW result \in {"won", "lost", "void"},
         Settle(b, result)
  PROVE  ProfitIsWalletGain'
<1> SUFFICES ASSUME NEW u \in Users PROVE WalletGain(u)'
  BY GainIsGain
<1>1. /\ status' = [status EXCEPT ![b] = result]
      /\ balance' = [balance EXCEPT ![BetOf[b].user] = @ + Credit(b, result)]
      /\ status[b] = "pending" /\ WalletGain(u)
  BY GainIsGain DEF Settle
<1>2. balance \in [Users -> Int] /\ status \in [Bets -> {"none", "pending", "won", "lost", "void"}]
  BY DEF TypeOK
<1>3. CASE BetOf[b].user # u
  BY <1>1, <1>2, <1>3, OthersUnmoved DEF WalletGain
<1>4. CASE BetOf[b].user = u
  <2>1. PICK W, C, O : W = Wins(u) /\ C = Closed(u) /\ O = Open(u)
    OBVIOUS
  <2>2. PICK V, D, P : V = Wins(u)' /\ D = Closed(u)' /\ P = Open(u)'
    OBVIOUS
  <2>3. O = P \cup {b} /\ b \notin P
    BY <1>1, <1>2, <1>4, <2>1, <2>2 DEF Open, BetsOf
  <2>4. IF result = "won" THEN V = W \cup {b} /\ b \notin W ELSE V = W
    BY <1>1, <1>2, <1>4, <2>1, <2>2 DEF Wins, BetsOf
  <2>5. IF result = "void" THEN D = C ELSE D = C \cup {b} /\ b \notin C
    BY <1>1, <1>2, <1>4, <2>1, <2>2 DEF Closed, BetsOf, Decided
  <2>6. /\ W \in SUBSET Bets /\ C \in SUBSET Bets /\ O \in SUBSET Bets
        /\ V \in SUBSET Bets /\ D \in SUBSET Bets /\ P \in SUBSET Bets
    BY <2>1, <2>2, SetsOfBets
  <2>7. SumFunctionOnSet(Stake, O) = Stake[b] + SumFunctionOnSet(Stake, P)
    BY <2>3, <2>6, OneBetMore
  <2>8. SumFunctionOnSet(Payout, V) = SumFunctionOnSet(Payout, W) + (IF result = "won" THEN Payout[b] ELSE 0)
    <3>1. CASE result = "won"
      <4>1. SumFunctionOnSet(Payout, V) = Payout[b] + SumFunctionOnSet(Payout, W)
        BY <2>4, <2>6, <3>1, OneBetMore
      <4>2. SumFunctionOnSet(Payout, W) \in Int /\ Payout[b] \in Int
        BY <2>6, OneBetMore, BetsTyped
      <4> QED
        BY <3>1, <4>1, <4>2
    <3>2. CASE result # "won"
      <4>1. SumFunctionOnSet(Payout, W) \in Int
        BY <2>6, OneBetMore
      <4> QED
        BY <2>4, <3>2, <4>1
    <3> QED
      BY <3>1, <3>2
  <2>9. SumFunctionOnSet(Stake, D) = SumFunctionOnSet(Stake, C) + (IF result = "void" THEN 0 ELSE Stake[b])
    <3>1. CASE result # "void"
      <4>1. SumFunctionOnSet(Stake, D) = Stake[b] + SumFunctionOnSet(Stake, C)
        BY <2>5, <2>6, <3>1, OneBetMore
      <4>2. SumFunctionOnSet(Stake, C) \in Int /\ Stake[b] \in Int
        BY <2>6, OneBetMore, BetsTyped
      <4> QED
        BY <3>1, <4>1, <4>2
    <3>2. CASE result = "void"
      <4>1. SumFunctionOnSet(Stake, C) \in Int
        BY <2>6, OneBetMore
      <4> QED
        BY <2>5, <3>2, <4>1
    <3> QED
      BY <3>1, <3>2
  <2>10. PICK w, c, o, p, s \in Int : /\ w = SumFunctionOnSet(Payout, W) /\ c = SumFunctionOnSet(Stake, C)
                                      /\ o = SumFunctionOnSet(Stake, P) /\ p = Payout[b] /\ s = Stake[b]
    BY <2>6, OneBetMore, BetsTyped, SMTT(30)
  <2>11. balance'[u] = balance[u] + Credit(b, result) /\ balance[u] \in Int
    BY <1>1, <1>2, <1>4
  <2>12. Credit(b, result) = IF result = "won" THEN p ELSE IF result = "lost" THEN 0 ELSE s
    BY <2>10 DEF Credit
  <2>13. balance[u] = SignupBonus + (w - c) - (s + o) /\ SignupBonus \in Int
    BY <1>1, <2>1, <2>7, <2>10, LeaderboardConstantsOK DEF WalletGain
  <2>14. balance'[u] = SignupBonus + ((w + (IF result = "won" THEN p ELSE 0)) - (c + (IF result = "void" THEN 0 ELSE s))) - o
    BY <2>10, <2>11, <2>12, <2>13
  <2> QED
    BY <2>2, <2>8, <2>9, <2>10, <2>14 DEF WalletGain
<1> QED
  BY <1>3, <1>4

\* The profit a profile shows is what the bets brought the wallet, for any bets
\* and in any order of placing and deciding them (stats.go against settlement.go).
THEOREM ProfitIsGain == Spec => []ProfitIsWalletGain
<1>1. Init => ProfitIsWalletGain
  BY GainInit
<1>2. ShownInv /\ ProfitIsWalletGain /\ [Next]_vars => ProfitIsWalletGain'
  <2> SUFFICES ASSUME TypeOK, ProfitIsWalletGain, [Next]_vars PROVE ProfitIsWalletGain'
    BY DEF ShownInv
  <2>1. CASE UNCHANGED <<status, balance>>
    BY <2>1 DEF ProfitIsWalletGain, GetUserStats, BetsOf
  <2>2. ASSUME NEW b \in Bets, PlaceBet(b) PROVE ProfitIsWalletGain'
    BY <2>2, PlaceBetGain
  <2>3. ASSUME NEW b \in Bets, NEW result \in {"won", "lost", "void"}, Settle(b, result)
        PROVE  ProfitIsWalletGain'
    BY <2>3, SettleGain
  <2>4. ASSUME NEW r \in Readers,
               \/ \E q \in Queries : GetsCached(r, q)
               \/ Queried(r) \/ QueryFails(r) \/ Puts(r)
               \/ \E u \in Users : OpensHistory(r, u)
               \/ TurnsPage(r) \/ Closes(r)
        PROVE  UNCHANGED <<status, balance>>
    BY <2>4 DEF GetsCached, Queried, QueryFails, Puts, OpensHistory, TurnsPage, Closes, DbUnmoved
  <2>5. CASE Tick \/ UNCHANGED vars
    BY <2>1, <2>5 DEF Tick, vars
  <2> QED
    BY <2>1, <2>2, <2>3, <2>4, <2>5 DEF Next
<1> QED
  BY <1>1, <1>2, ShownInvariant, PTL DEF Spec

-----------------------------------------------------------------------------
(***************************************************************************)
(* The ranking.  Quotients are compared without dividing: that is an order *)
(* as long as the stakes are positive, and rows without a quotient go last.*)
(***************************************************************************)
\* A row the database can sort.
Rankable(x) == x.profit \in Int /\ x.staked \in Nat \ {0} /\ x.won \in Nat /\ x.user \in Nat

\* A product with a positive factor keeps the order of the other factors.
LEMMA FactorKeepsOrder ==
  ASSUME NEW x \in Int, NEW y \in Int, NEW k \in Nat \ {0}
  PROVE  x <= y <=> x * k <= y * k
<1>1. x <= y => x * k <= y * k
  <2> SUFFICES ASSUME x <= y PROVE x * k <= y * k
    OBVIOUS
  <2>1. PICK d \in Nat : y = x + d
    <3>1. y - x \in Nat /\ y = x + (y - x)
      OBVIOUS
    <3> QED
      BY <3>1
  <2>2. d * k \in Nat /\ x * k \in Int /\ (x + d) * k = x * k + d * k
    OBVIOUS
  <2> QED
    BY <2>1, <2>2
<1>2. x > y => x * k > y * k
  <2> SUFFICES ASSUME x > y PROVE x * k > y * k
    OBVIOUS
  <2>1. PICK d \in Nat \ {0} : x = y + d
    <3>1. x - y \in Nat \ {0} /\ x = y + (x - y)
      OBVIOUS
    <3> QED
      BY <3>1
  <2>2. d * k \in Nat \ {0} /\ y * k \in Int /\ (y + d) * k = y * k + d * k
    OBVIOUS
  <2> QED
    BY <2>1, <2>2
<1>3. x * k \in Int /\ y * k \in Int
  OBVIOUS
<1> QED
  BY <1>1, <1>2, <1>3

\* If a/b is at most c/d and c/d at most e/f, then a/b is at most e/f.
LEMMA QuotientsOrdered ==
  ASSUME NEW a \in Int, NEW b \in Nat \ {0}, NEW c \in Int, NEW d \in Nat \ {0},
         NEW e \in Int, NEW f \in Nat \ {0},
         a * d <= c * b, c * f <= e * d
  PROVE  a * f <= e * b
<1>1. a * d \in Int /\ c * b \in Int /\ c * f \in Int /\ e * d \in Int /\ a * f \in Int /\ e * b \in Int
  OBVIOUS
<1>2. (a * d) * f <= (c * b) * f /\ (c * f) * b <= (e * d) * b
  BY <1>1, FactorKeepsOrder
<1>3. (c * b) * f = (c * f) * b /\ (a * d) * f = (a * f) * d /\ (e * d) * b = (e * b) * d
  OBVIOUS
<1>4. (a * f) * d <= (e * b) * d
  <2>1. (a * f) * d \in Int /\ (c * f) * b \in Int /\ (e * b) * d \in Int
    BY <1>1
  <2> QED
    BY <1>2, <1>3, <2>1
<1> QED
  BY <1>1, <1>4, FactorKeepsOrder

\* What comes before is not behind, and what is not better than something that is
\* not better than a third is not better than the third.
LEMMA BeforeOrders ==
  ASSUME NEW metric \in Metrics, NEW x, NEW y, NEW z, Rankable(x), Rankable(y), Rankable(z)
  PROVE  /\ Before(metric, x, y) => ~Before(metric, y, x)
         /\ ~Before(metric, x, y) /\ ~Before(metric, y, z) => ~Before(metric, x, z)
<1>1. CASE metric = "profit"
  BY <1>1 DEF Before, Rankable
<1>2. CASE metric = "roi"
  <2>1. PICK a, c, e \in Int, b, d, f \in Nat \ {0} :
          a = x.profit /\ c = y.profit /\ e = z.profit /\ b = x.staked /\ d = y.staked /\ f = z.staked
    BY DEF Rankable
  <2>2. /\ a * d \in Int /\ c * b \in Int /\ c * f \in Int /\ e * d \in Int /\ a * f \in Int /\ e * b \in Int
    OBVIOUS
  <2>3. a * d <= c * b /\ c * f <= e * d => a * f <= e * b
    BY QuotientsOrdered
  <2>4. /\ Before(metric, x, y) <=> (x.won # 0 /\ y.won = 0) \/ (x.won # 0 /\ y.won # 0 /\ a * d > c * b)
        /\ Before(metric, y, x) <=> (y.won # 0 /\ x.won = 0) \/ (y.won # 0 /\ x.won # 0 /\ c * b > a * d)
        /\ Before(metric, y, z) <=> (y.won # 0 /\ z.won = 0) \/ (y.won # 0 /\ z.won # 0 /\ c * f > e * d)
        /\ Before(metric, x, z) <=> (x.won # 0 /\ z.won = 0) \/ (x.won # 0 /\ z.won # 0 /\ a * f > e * b)
    BY <1>2, <2>1 DEF Before, Higher
  <2>5. /\ a * d > c * b <=> ~(a * d <= c * b)
        /\ c * f > e * d <=> ~(c * f <= e * d)
        /\ a * f > e * b <=> ~(a * f <= e * b)
        /\ ~(a * d > c * b /\ c * b > a * d)
    BY <2>2
  <2> QED
    BY <2>3, <2>4, <2>5
<1> QED
  BY <1>1, <1>2 DEF Metrics

\* With the ids of the users the order leaves no ties.
LEMMA AheadOrders ==
  ASSUME NEW metric \in Metrics, NEW x, NEW y, NEW z, Rankable(x), Rankable(y), Rankable(z)
  PROVE  /\ ~Ahead(metric, x, x)
         /\ Ahead(metric, x, y) /\ Ahead(metric, y, z) => Ahead(metric, x, z)
         /\ x.user # y.user => Ahead(metric, x, y) \/ Ahead(metric, y, x)
         /\ Ahead(metric, x, y) => ~Before(metric, y, x)
<1>1. x.user \in Int /\ y.user \in Int /\ z.user \in Int
  BY DEF Rankable
<1>2. PICK xy, yx, yz, zy, xz, zx, xx \in BOOLEAN :
        /\ xy = Before(metric, x, y) /\ yx = Before(metric, y, x)
        /\ yz = Before(metric, y, z) /\ zy = Before(metric, z, y)
        /\ xz = Before(metric, x, z) /\ zx = Before(metric, z, x) /\ xx = Before(metric, x, x)
  <2>1. ASSUME NEW r, NEW s PROVE Before(metric, r, s) \in BOOLEAN
    <3>1. CASE metric = "profit"
      BY <3>1 DEF Before
    <3>2. CASE metric = "roi"
      BY <3>2 DEF Before
    <3> QED
      BY <3>1, <3>2 DEF Metrics
  <2> QED
    BY <2>1
<1>3. /\ xy => ~yx
      /\ yz => ~zy
      /\ ~xx
      /\ ~zy /\ ~yx => ~zx
      /\ ~xz /\ ~zy => ~xy
      /\ ~yx /\ ~xz => ~yz
  <2>1. (Before(metric, x, y) => ~Before(metric, y, x)) /\ (Before(metric, y, z) => ~Before(metric, z, y))
    BY BeforeOrders
  <2>2. ~Before(metric, x, x)
    BY BeforeOrders
  <2>3. ~Before(metric, z, y) /\ ~Before(metric, y, x) => ~Before(metric, z, x)
    BY BeforeOrders
  <2>4. ~Before(metric, x, z) /\ ~Before(metric, z, y) => ~Before(metric, x, y)
    BY BeforeOrders
  <2>5. ~Before(metric, y, x) /\ ~Before(metric, x, z) => ~Before(metric, y, z)
    BY BeforeOrders
  <2> QED
    BY <1>2, <2>1, <2>2, <2>3, <2>4, <2>5
<1>4. /\ Ahead(metric, x, x) <=> xx \/ (~xx /\ x.user < x.user)
      /\ Ahead(metric, x, y) <=> xy \/ (~yx /\ x.user < y.user)
      /\ Ahead(metric, y, x) <=> yx \/ (~xy /\ y.user < x.user)
      /\ Ahead(metric, y, z) <=> yz \/ (~zy /\ y.user < z.user)
      /\ Ahead(metric, x, z) <=> xz \/ (~zx /\ x.user < z.user)
  BY <1>2 DEF Ahead
<1>5. /\ ~(x.user < x.user)
      /\ x.user < y.user /\ y.user < z.user => x.user < z.user
      /\ x.user # y.user => x.user < y.user \/ y.user < x.user
  BY <1>1
<1> QED
  BY <1>2, <1>3, <1>4, <1>5

-----------------------------------------------------------------------------
(***************************************************************************)
(* The rows.                                                               *)
(***************************************************************************)
RowOf(u) == Row(u, BetsOf(u, {"won", "lost"}))

Enough == {u \in Users : LET s == GetUserStats(u) IN s.won + s.lost >= Max({1, MinBets})}

\* The row of a user says what the profile says.
LEMMA RowIsProfile ==
  ASSUME NEW u \in Users
  PROVE  /\ RowOf(u).user = u /\ RowOf(u).total = GetUserStats(u).won + GetUserStats(u).lost
         /\ RowOf(u).won = GetUserStats(u).won /\ RowOf(u).staked = GetUserStats(u).staked
         /\ RowOf(u).profit = GetUserStats(u).profit
<1>1. PICK B, W, L : B = BetsOf(u, {"won", "lost"}) /\ W = BetsOf(u, {"won"}) /\ L = BetsOf(u, {"lost"})
  OBVIOUS
<1>2. B = W \cup L /\ W \cap L = {} /\ W \in SUBSET Bets /\ L \in SUBSET Bets
  BY <1>1 DEF BetsOf
<1>3. {b \in B : status[b] = "won"} = W
  BY <1>1 DEF BetsOf
<1>4. Cardinality(B) = Cardinality(W) + Cardinality(L)
  <2>1. IsFiniteSet(W) /\ IsFiniteSet(L) /\ Cardinality(W) \in Nat /\ Cardinality(L) \in Nat
    BY <1>2, BetsFinite
  <2>2. Cardinality(W \cup L) = Cardinality(W) + Cardinality(L) - Cardinality(W \cap L)
    BY <2>1, FS_Union
  <2>3. Cardinality(W \cap L) = 0
    BY <1>2, FS_EmptySet
  <2> QED
    BY <1>2, <2>1, <2>2, <2>3
<1>5. BetsOf(u, Decided) = B
  BY <1>1 DEF Decided
<1>6. /\ RowOf(u).user = u /\ RowOf(u).total = Cardinality(B)
      /\ RowOf(u).won = Cardinality({b \in B : status[b] = "won"})
      /\ RowOf(u).staked = SumFunctionOnSet(Stake, B)
      /\ RowOf(u).profit = SumFunctionOnSet(Payout, {b \in B : status[b] = "won"}) - SumFunctionOnSet(Stake, B)
  BY <1>1 DEF RowOf, Row
<1>7. /\ GetUserStats(u).won = Cardinality(W) /\ GetUserStats(u).lost = Cardinality(L)
      /\ GetUserStats(u).staked = SumFunctionOnSet(Stake, B)
      /\ GetUserStats(u).profit = SumFunctionOnSet(Payout, W) - SumFunctionOnSet(Stake, B)
  BY <1>1, <1>5 DEF GetUserStats
<1> QED
  BY <1>3, <1>4, <1>6, <1>7

\* Who has a decided bet has a row that can be sorted, and without a won bet has
\* lost what was staked.
LEMMA RowIsRankable ==
  ASSUME NEW u \in Users
  PROVE  /\ RowOf(u).total \in Nat
         /\ RowOf(u).total > 0 =>
              /\ Rankable(RowOf(u)) /\ RowOf(u).profit >= 0 - RowOf(u).staked
              /\ RowOf(u).won = 0 => RowOf(u).profit = 0 - RowOf(u).staked
<1>1. PICK B : B = BetsOf(u, {"won", "lost"})
  OBVIOUS
<1>2. PICK W : W = {b \in B : status[b] = "won"}
  OBVIOUS
<1>3. B \in SUBSET Bets /\ W \in SUBSET Bets
  BY <1>1, <1>2 DEF BetsOf
<1>4. /\ RowOf(u).user = u /\ RowOf(u).total = Cardinality(B)
      /\ RowOf(u).won = Cardinality(W)
      /\ RowOf(u).staked = SumFunctionOnSet(Stake, B)
      /\ RowOf(u).profit = SumFunctionOnSet(Payout, W) - SumFunctionOnSet(Stake, B)
  BY <1>1, <1>2 DEF RowOf, Row
<1>5. /\ IsFiniteSet(B) /\ IsFiniteSet(W) /\ Cardinality(B) \in Nat /\ Cardinality(W) \in Nat
      /\ u \in Nat
  BY <1>3, BetsFinite, LeaderboardConstantsOK
<1>6. SumFunctionOnSet(Payout, W) \in Nat
  <2>1. \A b \in W : Payout[b] \in Nat
    BY <1>3, BetsTyped
  <2> QED
    BY <1>5, <2>1, SumIsNat
<1>7. ASSUME Cardinality(B) > 0 PROVE SumFunctionOnSet(Stake, B) \in Nat \ {0}
  <2>1. PICK b \in B : TRUE
    BY <1>5, <1>7, FS_EmptySet
  <2>2. PICK T : T = B \ {b}
    OBVIOUS
  <2>3. T \in SUBSET Bets /\ b \in Bets /\ B = T \cup {b} /\ b \notin T
    BY <1>3, <2>1, <2>2
  <2>4. SumFunctionOnSet(Stake, B) = Stake[b] + SumFunctionOnSet(Stake, T)
    BY <2>3, OneBetMore
  <2>5. IsFiniteSet(T) /\ \A c \in T : Stake[c] \in Nat
    BY <2>3, BetsFinite, BetsTyped
  <2>6. SumFunctionOnSet(Stake, T) \in Nat /\ Stake[b] \in Nat \ {0}
    BY <2>3, <2>5, SumIsNat, BetsTyped
  <2> QED
    BY <2>4, <2>6
<1>8. Cardinality(W) = 0 => SumFunctionOnSet(Payout, W) = 0
  BY <1>5, FS_EmptySet, SumOfNone
<1> QED
  BY <1>4, <1>5, <1>6, <1>7, <1>8 DEF Rankable

\* The leaderboard has one row for each user with enough decided bets.
LEMMA RankedIsEnough ==
  /\ \A u \in Enough : RowOf(u) \in Ranked
  /\ \A row \in Ranked : row.user \in Enough /\ row = RowOf(row.user) /\ RowOf(row.user).total > 0
  /\ IsFiniteSet(Ranked) /\ IsFiniteSet(Enough)
  /\ Cardinality(Ranked) = Cardinality(Enough) /\ Cardinality(Enough) \in Nat
<1>1. ASSUME NEW u \in Users
      PROVE  u \in Enough <=> RowOf(u).total > 0 /\ RowOf(u).total >= MinBets
  <2>1. PICK t \in Nat : t = RowOf(u).total
    BY RowIsRankable
  <2>2. t = GetUserStats(u).won + GetUserStats(u).lost
    BY <2>1, RowIsProfile
  <2>3. PICK m \in Nat : m = MinBets
    BY LeaderboardConstantsOK
  <2>4. Max({1, m}) = IF 1 <= m THEN m ELSE 1
    BY MaxOfTwo
  <2>5. u \in Enough <=> t >= Max({1, m})
    BY <2>2, <2>3 DEF Enough
  <2> QED
    BY <2>1, <2>3, <2>4, <2>5
<1>2. Ranked = {row \in {RowOf(u) : u \in Users} : row.total > 0 /\ row.total >= MinBets}
  BY DEF Ranked, RowOf
<1>3. \A u \in Enough : RowOf(u) \in Ranked
  <2>1. Enough \subseteq Users
    BY DEF Enough
  <2> QED
    BY <1>1, <1>2, <2>1
<1>4. ASSUME NEW row \in Ranked
      PROVE  row.user \in Enough /\ row = RowOf(row.user) /\ RowOf(row.user).total > 0
  <2>1. PICK u \in Users : row = RowOf(u)
    BY <1>2
  <2>2. row.user = u
    BY <2>1, RowIsProfile
  <2>3. row.total > 0 /\ row.total >= MinBets
    BY <1>2
  <2> QED
    BY <1>1, <2>1, <2>2, <2>3
<1>5. IsFiniteSet(Enough) /\ Cardinality(Enough) \in Nat
  <2>1. Enough \in SUBSET Users
    BY DEF Enough
  <2>2. IsFiniteSet(Enough)
    BY <2>1, LeaderboardConstantsOK, FS_Subset
  <2> QED
    BY <2>2, FS_CardinalityType
<1>6. IsFiniteSet(Ranked) /\ Cardinality(Ranked) = Cardinality(Enough)
  <2> DEFINE f == [u \in Enough |-> RowOf(u)]
  <2>1. f \in [Enough -> Ranked]
    BY <1>3
  <2>2. ASSUME NEW u \in Enough, NEW v \in Enough, f[u] = f[v] PROVE u = v
    <3>1. u \in Users /\ v \in Users /\ RowOf(u) = RowOf(v)
      BY <2>2 DEF Enough
    <3> QED
      BY <3>1, RowIsProfile
  <2>3. ASSUME NEW row \in Ranked PROVE \E u \in Enough : f[u] = row
    BY <1>4
  <2>4. f \in Injection(Enough, Ranked) /\ f \in Surjection(Enough, Ranked)
    BY <2>1, <2>2, <2>3 DEF Injection, IsInjective, Surjection
  <2> HIDE DEF f
  <2>5. ExistsBijection(Enough, Ranked)
    BY <2>4 DEF ExistsBijection, Bijection
  <2> QED
    BY <1>5, <2>5, FS_Bijection
<1> QED
  BY <1>3, <1>4, <1>5, <1>6

-----------------------------------------------------------------------------
(***************************************************************************)
(* The pages.                                                              *)
(***************************************************************************)
\* The ORDER BY makes a list of the rows.
LEMMA RankedIsListed ==
  ASSUME NEW metric \in Metrics
  PROVE  \A list : list = Sorted(metric, Ranked) =>
           /\ list \in Seq(Ranked) /\ Len(list) = Cardinality(Enough)
           /\ \A i \in 1..Cardinality(Enough) : list[i] \in Ranked
           /\ \A row \in Ranked : \E i \in 1..Cardinality(Enough) : list[i] = row
           /\ \A i, j \in 1..Cardinality(Enough) : i < j => Ahead(metric, list[i], list[j])
<1> SUFFICES ASSUME NEW list, list = Sorted(metric, Ranked)
             PROVE  /\ list \in Seq(Ranked) /\ Len(list) = Cardinality(Enough)
                    /\ \A i \in 1..Cardinality(Enough) : list[i] \in Ranked
                    /\ \A row \in Ranked : \E i \in 1..Cardinality(Enough) : list[i] = row
                    /\ \A i, j \in 1..Cardinality(Enough) : i < j => Ahead(metric, list[i], list[j])
  OBVIOUS
<1>1. PICK R : R = Ranked
  OBVIOUS
<1>2. PICK before : before = [r \in R |-> {s \in R : Ahead(metric, s, r)}]
  OBVIOUS
<1>3. list = InOrder(before)
  BY <1>1, <1>2 DEF Sorted
<1>4. ASSUME NEW x \in R PROVE Rankable(x) /\ x = RowOf(x.user)
  <2>1. x.user \in Users /\ x = RowOf(x.user) /\ RowOf(x.user).total > 0
    BY <1>1, RankedIsEnough DEF Enough
  <2> QED
    BY <2>1, RowIsRankable
<1>5. \A x, y \in R : x \in before[y] <=> Ahead(metric, x, y)
  BY <1>2
<1>6. StrictOrder(R, before)
  <2>1. before \in [R -> SUBSET R]
    BY <1>2
  <2>2. \A x \in R : x \notin before[x]
    BY <1>4, <1>5, AheadOrders
  <2>3. ASSUME NEW x \in R, NEW y \in R, x \in before[y], NEW z \in before[x] PROVE z \in before[y]
    <3>1. z \in R
      BY <2>1, <2>3
    <3>2. Ahead(metric, z, x) /\ Ahead(metric, x, y)
      BY <1>5, <2>3, <3>1
    <3>3. Ahead(metric, z, y)
      BY <1>4, <2>3, <3>1, <3>2, AheadOrders
    <3> QED
      BY <1>5, <2>3, <3>1, <3>3
  <2>4. ASSUME NEW x \in R, NEW y \in R, x # y PROVE x \in before[y] \/ y \in before[x]
    <3>1. x.user # y.user
      BY <1>4, <2>4
    <3>2. Ahead(metric, x, y) \/ Ahead(metric, y, x)
      BY <1>4, <2>4, <3>1, AheadOrders
    <3> QED
      BY <1>5, <2>4, <3>2
  <2> QED
    BY <2>1, <2>2, <2>3, <2>4 DEF StrictOrder
<1>7. IsFiniteSet(R) /\ Cardinality(R) = Cardinality(Enough) /\ Cardinality(R) \in Nat
  BY <1>1, RankedIsEnough
<1>8. Lists(R, before, list)
  BY <1>3, <1>6, <1>7, InOrderLists
<1>9. /\ \A i \in 1..Cardinality(R) : list[i] \in R
      /\ \A row \in R : \E i \in 1..Cardinality(R) : list[i] = row
      /\ list \in Seq(R) /\ Len(list) = Cardinality(R)
  BY <1>8 DEF Lists
<1>10. ASSUME NEW i \in 1..Cardinality(R), NEW j \in 1..Cardinality(R), i < j
       PROVE  Ahead(metric, list[i], list[j])
  <2>1. list[i] \in before[list[j]]
    BY <1>6, <1>7, <1>8, <1>10, EarlierIsBefore
  <2> QED
    BY <1>5, <1>9, <1>10, <2>1
<1> QED
  BY <1>1, <1>7, <1>9, <1>10

\* The place on its page of the i-th row of all.
LEMMA PlaceOnPage ==
  ASSUME NEW size \in Nat \ {0}, NEW i \in Nat \ {0}
  PROVE  /\ 1 + (i - 1) \div size \in Nat \ {0}
         /\ ((1 + (i - 1) \div size) - 1) * size + (1 + ((i - 1) % size)) = i
         /\ 1 + ((i - 1) % size) \in 1..size
<1>1. PICK q, m : q = (i - 1) \div size /\ m = (i - 1) % size
  OBVIOUS
<1>2. i - 1 \in Nat /\ q \in Nat /\ m \in 0..size - 1 /\ i - 1 = size * q + m
  BY <1>1
<1>3. (1 + q) - 1 = q /\ q * size = size * q /\ size * q \in Nat
  BY <1>2
<1> QED
  BY <1>1, <1>2, <1>3

Board(metric, p) == GetLeaderboard([metric |-> metric, page |-> p])

Ranking(metric) ==
  [i \in 1..Cardinality(Enough) |-> Board(metric, 1 + (i - 1) \div PageSize)[1 + ((i - 1) % PageSize)]]

\* The pages of the leaderboard are cut from the list, and put together again
\* they are the list.
LEMMA PagesOfBoard ==
  ASSUME NEW metric \in Metrics
  PROVE  \A list : list = Sorted(metric, Ranked) =>
           /\ \A p \in Nat \ {0} : Cut(list, Board(metric, p), (p - 1) * PageSize)
           /\ \A i \in 1..Cardinality(Enough) : Ranking(metric)[i] = list[i]
<1> SUFFICES ASSUME NEW list, list = Sorted(metric, Ranked)
             PROVE  /\ \A p \in Nat \ {0} : Cut(list, Board(metric, p), (p - 1) * PageSize)
                    /\ \A i \in 1..Cardinality(Enough) : Ranking(metric)[i] = list[i]
  OBVIOUS
<1>1. PICK n \in Nat : n = Cardinality(Enough)
  BY RankedIsEnough
<1>2. list \in Seq(Ranked) /\ Len(list) = n
  BY <1>1, RankedIsListed
<1>3. \A p : Board(metric, p) = PageOf(list, p)
  BY DEF Board, GetLeaderboard
<1>4. \A p \in Nat \ {0} : Cut(list, Board(metric, p), (p - 1) * PageSize)
  BY <1>2, <1>3, RowsOfPage
<1>5. ASSUME NEW i \in 1..n PROVE Ranking(metric)[i] = list[i]
  <2>1. PICK size \in Nat \ {0} : size = PageSize
    BY LeaderboardConstantsOK
  <2>2. PICK p, k, skip : p = 1 + (i - 1) \div size /\ k = 1 + ((i - 1) % size) /\ skip = (p - 1) * size
    OBVIOUS
  <2>3. p \in Nat \ {0} /\ skip + k = i /\ k \in 1..size /\ i \in Nat \ {0}
    BY <2>1, <2>2, PlaceOnPage
  <2>4. Ranking(metric)[i] = Board(metric, p)[k]
    BY <1>1, <2>1, <2>2 DEF Ranking
  <2>5. PICK rows : rows = Board(metric, p)
    OBVIOUS
  <2>6. Cut(list, rows, skip)
    BY <1>4, <2>1, <2>2, <2>3, <2>5
  <2>7. skip \in Int
    BY <2>1, <2>2, <2>3
  <2>8. k \in 1..Len(rows)
    <3>1. Len(rows) = IF skip + size <= n THEN size ELSE IF skip <= n THEN n - skip ELSE 0
      BY <1>2, <2>1, <2>6 DEF Cut
    <3> QED
      BY <1>5, <2>3, <2>7, <3>1
  <2>9. rows[k] = list[skip + k]
    BY <2>6, <2>8 DEF Cut
  <2> QED
    BY <2>3, <2>4, <2>5, <2>9
<1> QED
  BY <1>1, <1>4, <1>5

\* One page has as many rows as are left for it.
LEMMA RowsLeft ==
  ASSUME NEW size \in Nat \ {0}, NEW skip \in Nat, NEW n \in Nat
  PROVE  Max({0, Min({size, n - skip})}) =
           IF skip + size <= n THEN size ELSE IF skip <= n THEN n - skip ELSE 0
<1>1. n - skip \in Int /\ size \in Int /\ 0 \in Int
  OBVIOUS
<1>2. PICK m \in Int : m = Min({size, n - skip}) /\ m = IF size <= n - skip THEN size ELSE n - skip
  <2>1. Min({size, n - skip}) = IF size <= n - skip THEN size ELSE n - skip
    BY <1>1, MinOfTwo
  <2> QED
    BY <1>1, <2>1
<1>3. Max({0, m}) = IF 0 <= m THEN m ELSE 0
  BY <1>1, MaxOfTwo
<1> QED
  BY <1>2, <1>3

\* Who is ahead does not show less than who is behind.
LEMMA AheadShowsMore ==
  ASSUME NEW metric \in Metrics, NEW r \in Ranked, NEW s \in Ranked, Ahead(metric, r, s)
  PROVE  IF metric = "profit" THEN r.profit >= s.profit
                              ELSE ~Higher(s.profit, s.staked, r.profit, r.staked)
<1>1. /\ r.user \in Users /\ r = RowOf(r.user) /\ RowOf(r.user).total > 0
      /\ s.user \in Users /\ s = RowOf(s.user) /\ RowOf(s.user).total > 0
  BY RankedIsEnough DEF Enough
<1>2. /\ Rankable(r) /\ r.profit >= 0 - r.staked /\ (r.won = 0 => r.profit = 0 - r.staked)
      /\ Rankable(s) /\ s.profit >= 0 - s.staked /\ (s.won = 0 => s.profit = 0 - s.staked)
  BY <1>1, RowIsRankable
<1>3. ~Before(metric, s, r)
  BY <1>2, AheadOrders
<1>4. CASE metric = "profit"
  BY <1>2, <1>3, <1>4 DEF Before, Rankable
<1>5. CASE metric = "roi"
  <2>1. PICK a, c \in Int, b, d \in Nat \ {0} : a = r.profit /\ b = r.staked /\ c = s.profit /\ d = s.staked
    BY <1>2 DEF Rankable
  <2>2. a * d \in Int /\ c * b \in Int
    OBVIOUS
  <2>3. CASE s.won # 0
    <3>1. r.won # 0 /\ ~(c * b > a * d)
      BY <1>3, <1>5, <2>1, <2>3 DEF Before, Higher
    <3> QED
      BY <1>5, <2>1, <3>1 DEF Higher
  <2>4. CASE s.won = 0
    <3>1. c = 0 - d /\ a >= 0 - b
      BY <1>2, <2>1, <2>4
    <3>2. (0 - b) * d <= a * d
      <4>1. 0 - b \in Int /\ 0 - b <= a
        BY <3>1
      <4> QED
        BY <4>1, FactorKeepsOrder
    <3>3. c * b = (0 - b) * d
      BY <3>1
    <3> QED
      BY <1>5, <2>1, <2>2, <3>2, <3>3 DEF Higher
  <2> QED
    BY <2>3, <2>4
<1> QED
  BY <1>4, <1>5 DEF Metrics

\* The leaderboard and the profiles agree, for any number of users and bets and
\* any length of a page: whatever the bets' states, the pages of a ranking hold
\* exactly the users with enough decided bets, each once, with the numbers of
\* their profiles, and what they show never rises (stats.go).
THEOREM RankingAgrees == Spec => []LeaderboardAgrees
<1>1. LeaderboardAgrees
  <2>1. PICK size : size = Cardinality(Enough)
    OBVIOUS
  <2>2. size \in Nat
    BY <2>1, RankedIsEnough
  <2> SUFFICES ASSUME NEW metric \in Metrics
               PROVE  /\ \A p \in 1..size + 1 :
                           Len(Board(metric, p)) = Max({0, Min({PageSize, size - (p - 1) * PageSize})})
                      /\ {r.user : r \in Range(Ranking(metric))} = Enough
                      /\ \A r \in Range(Ranking(metric)) :
                           LET s == GetUserStats(r.user)
                           IN  /\ r.total = s.won + s.lost /\ r.won = s.won
                               /\ r.staked = s.staked /\ r.profit = s.profit
                      /\ \A i, j \in 1..size : i < j =>
                           LET r == Ranking(metric)[i]
                               s == Ranking(metric)[j]
                           IN  IF metric = "profit" THEN r.profit >= s.profit
                                                    ELSE ~Higher(s.profit, s.staked, r.profit, r.staked)
    BY <2>1, Zenon DEF LeaderboardAgrees, Enough, Board, Ranking
  <2>3. PICK list : list = Sorted(metric, Ranked)
    OBVIOUS
  <2>4. /\ list \in Seq(Ranked) /\ Len(list) = size
        /\ \A i \in 1..size : list[i] \in Ranked
        /\ \A row \in Ranked : \E i \in 1..size : list[i] = row
        /\ \A i, j \in 1..size : i < j => Ahead(metric, list[i], list[j])
    BY <2>1, <2>3, RankedIsListed
  <2>5. PICK ranking : ranking = Ranking(metric)
    OBVIOUS
  <2>6. DOMAIN ranking = 1..size /\ \A i \in 1..size : ranking[i] = list[i]
    <3>1. DOMAIN ranking = 1..size
      BY <2>1, <2>5 DEF Ranking
    <3> QED
      BY <2>1, <2>3, <2>5, <3>1, PagesOfBoard
  <2>7. Range(ranking) = Ranked
    <3>1. Range(ranking) = {ranking[i] : i \in 1..size}
      BY <2>6 DEF Range
    <3> QED
      BY <2>4, <2>6, <3>1
  <2>8. ASSUME NEW p \in 1..size + 1
        PROVE  Len(Board(metric, p)) = Max({0, Min({PageSize, size - (p - 1) * PageSize})})
    <3>1. PICK length \in Nat \ {0} : length = PageSize
      BY LeaderboardConstantsOK
    <3>2. p \in Nat \ {0}
      BY <2>2, <2>8
    <3>3. PICK skip \in Nat : skip = (p - 1) * length
      BY <3>2
    <3>4. Cut(list, Board(metric, p), skip)
      BY <2>3, <3>1, <3>2, <3>3, PagesOfBoard
    <3>5. Len(Board(metric, p)) = IF skip + length <= size THEN length
                                  ELSE IF skip <= size THEN size - skip ELSE 0
      BY <2>4, <3>1, <3>4 DEF Cut
    <3>6. Len(Board(metric, p)) = Max({0, Min({length, size - skip})})
      BY <2>2, <3>5, RowsLeft
    <3> QED
      BY <3>1, <3>3, <3>6
  <2>9. {r.user : r \in Ranked} = Enough
    <3>1. \A u \in Enough : RowOf(u) \in Ranked /\ RowOf(u).user = u
      BY RankedIsEnough, RowIsProfile DEF Enough
    <3> QED
      BY <3>1, RankedIsEnough
  <2>10. ASSUME NEW r \in Ranked
         PROVE  LET s == GetUserStats(r.user)
                IN  /\ r.total = s.won + s.lost /\ r.won = s.won
                    /\ r.staked = s.staked /\ r.profit = s.profit
    <3>1. r.user \in Users /\ r = RowOf(r.user)
      BY RankedIsEnough DEF Enough
    <3> QED
      BY <3>1, RowIsProfile
  <2>11. ASSUME NEW i \in 1..size, NEW j \in 1..size, i < j
         PROVE  LET r == ranking[i]
                    s == ranking[j]
                IN  IF metric = "profit" THEN r.profit >= s.profit
                                         ELSE ~Higher(s.profit, s.staked, r.profit, r.staked)
    <3>1. PICK r, s : r = ranking[i] /\ s = ranking[j]
      OBVIOUS
    <3>2. r \in Ranked /\ s \in Ranked /\ Ahead(metric, r, s)
      BY <2>4, <2>6, <2>11, <3>1
    <3>3. IF metric = "profit" THEN r.profit >= s.profit
                               ELSE ~Higher(s.profit, s.staked, r.profit, r.staked)
      BY <3>2, AheadShowsMore
    <3> QED
      BY <3>1, <3>3
  <2> QED
    BY <2>5, <2>7, <2>8, <2>9, <2>10, <2>11
<1> QED
  BY <1>1, PTL
=============================================================================
