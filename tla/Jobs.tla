-------------------------------- MODULE Jobs --------------------------------
(***************************************************************************)
(* The worker process: cmd/server/main.go from the start of the jobs to    *)
(* its exit, the runner (internal/worker/runner.go), the loop every job    *)
(* shares, and the retries of the provider's client                        *)
(* (internal/oddsapi/client.go).  What a job does with an answer is        *)
(* ProviderSync; here it is one save that may fail.                        *)
(*                                                                         *)
(* Time is counted in tenths of a second, and only what can take long is   *)
(* counted: a request that hangs, a pause before a retry.                  *)
(***************************************************************************)
EXTENDS Integers, Sequences

CONSTANTS
  Jobs,         \* "odds-sync" asks in batches, other jobs item by item
  Listed,       \* [Jobs -> Nat]: how many sports, matches to quote, matches to settle
  Hung,         \* items <<job, i>> the provider never answers about
  MaxRequests   \* HTTP requests in flight

ASSUME JobsConstantsOK ==
  /\ Listed \in [Jobs -> Nat]
  /\ Hung \subseteq Jobs \X Nat
  /\ MaxRequests \in Nat

VARIABLES
  main,      \* "serving", "draining", "waiting", and three ways to be gone
  keyed,     \* ODDS_API_KEY is set: there are jobs
  requests,  \* HTTP requests in flight
  pc,        \* of each job: "off", "top" of its loop, "send", "wait", "sleep", "save"
  item,      \* the item the loop is at
  attempt,   \* retries of the current call so far
  left,      \* time until the deadline of the run's context
  done       \* the context is cancelled or its deadline has passed

jobVars == <<main, keyed, requests, pc, item, attempt, left, done>>

Running == {j \in Jobs : pc[j] # "off"}
Alive   == main \in {"serving", "draining", "waiting"}

JobsInit ==
  /\ main = "serving"
  /\ keyed \in BOOLEAN
  /\ requests = 0
  /\ pc = [j \in Jobs |-> "off"]
  /\ item = [j \in Jobs |-> 0]
  /\ attempt = [j \in Jobs |-> 0]
  /\ left = [j \in Jobs |-> 0]
  /\ done = [j \in Jobs |-> FALSE]

-----------------------------------------------------------------------------
(***************************************************************************)
(* The numbers.                                                            *)
(***************************************************************************)
httpTimeout  == 150
maxRetries   == 3
retryBackoff == 3

MutantOneMinute == 600

jobTimeout == 1200

backoffDelay(n) == retryBackoff * 2^(n - 1)

oddsBatchSize  == 10
maxMultiEvents == 10

\* The sizes of the batches n matches are cut into.
chunkEvents(n) ==
  [i \in 1..((n + oddsBatchSize - 1) \div oddsBatchSize) |->
     IF i * oddsBatchSize <= n THEN oddsBatchSize ELSE n % oddsBatchSize]

Items(j) == IF j = "odds-sync" THEN chunkEvents(Listed[j]) ELSE [i \in 1..Listed[j] |-> 1]

\* GetOddsMulti asks about so many matches and no more.
Sendable(size) == size \in 1..maxMultiEvents

-----------------------------------------------------------------------------
(***************************************************************************)
(* A run.                                                                  *)
(***************************************************************************)
Unmoved == UNCHANGED <<main, keyed, requests>>

At(j, p) == Alive /\ pc[j] = p

Goto(j, p) == pc' = [pc EXCEPT ![j] = p]

\* cron fires until Stop; SkipIfStillRunning; runOnce derives the run's context.
Fire(j) ==
  /\ keyed /\ main \in {"serving", "draining"}
  /\ pc[j] = "off"
  /\ Goto(j, "top")
  /\ item' = [item EXCEPT ![j] = 1]
  /\ attempt' = [attempt EXCEPT ![j] = 0]
  /\ left' = [left EXCEPT ![j] = jobTimeout]
  /\ done' = [done EXCEPT ![j] = FALSE]
  /\ Unmoved

Ends(j) ==
  /\ Goto(j, "off")
  /\ item' = [item EXCEPT ![j] = 0]
  /\ attempt' = [attempt EXCEPT ![j] = 0]
  /\ left' = [left EXCEPT ![j] = 0]
  /\ done' = [done EXCEPT ![j] = FALSE]
  /\ Unmoved

\* The database does not answer ListForOddsSync or ListForSettlement; the
\* sports of EventSync come with the configuration.
ListFails(j) == At(j, "top") /\ item[j] = 1 /\ j # "event-sync" /\ Ends(j)

Returns(j) == At(j, "top") /\ (done[j] \/ item[j] > Len(Items(j))) /\ Ends(j)

\* The call is over, well or badly: log and continue.
NextItem(j) ==
  /\ Goto(j, "top")
  /\ item' = [item EXCEPT ![j] = @ + 1]
  /\ attempt' = [attempt EXCEPT ![j] = 0]

\* GetEvents, GetOddsMulti or GetEvent for the next item.
Call(j) ==
  /\ At(j, "top") /\ ~done[j] /\ item[j] <= Len(Items(j))
  /\ IF Sendable(Items(j)[item[j]])
       THEN Goto(j, "send") /\ UNCHANGED <<item, attempt>>
       ELSE NextItem(j)
  /\ UNCHANGED <<left, done>> /\ Unmoved

\* httpClient.Do does not send under a context that is done.
Send(j) ==
  /\ At(j, "send")
  /\ IF done[j] THEN NextItem(j) ELSE Goto(j, "wait") /\ UNCHANGED <<item, attempt>>
  /\ UNCHANGED <<left, done>> /\ Unmoved

\* A wait of so long: it ends early with the context, at once if that is done.
Spend(j, cost) ==
  /\ left' = [left EXCEPT ![j] = IF done[j] THEN @ ELSE IF cost < @ THEN @ - cost ELSE 0]
  /\ done' = [done EXCEPT ![j] = @ \/ cost >= left[j]]
  /\ Unmoved

Answered(j) ==
  /\ At(j, "wait") /\ <<j, item[j]>> \notin Hung
  /\ Goto(j, "save")
  /\ UNCHANGED <<item, attempt, left, done>> /\ Unmoved

\* A status of 4xx, or a body that does not decode.
Refused(j) ==
  /\ At(j, "wait") /\ <<j, item[j]>> \notin Hung
  /\ NextItem(j) /\ UNCHANGED <<left, done>> /\ Unmoved

MutantOneMore(j) ==
  IF attempt[j] <= maxRetries
    THEN Goto(j, "sleep") /\ attempt' = [attempt EXCEPT ![j] = @ + 1] /\ UNCHANGED item
    ELSE NextItem(j)

\* Once more after a pause, or "exhausted %d retries".
Retry(j) ==
  IF attempt[j] < maxRetries
    THEN Goto(j, "sleep") /\ attempt' = [attempt EXCEPT ![j] = @ + 1] /\ UNCHANGED item
    ELSE NextItem(j)

\* A network error, 429 or 5xx, an unreadable body.
Troubled(j) ==
  /\ At(j, "wait") /\ <<j, item[j]>> \notin Hung
  /\ Retry(j) /\ UNCHANGED <<left, done>> /\ Unmoved

\* The client's timeout, unless the context of the run ends first.
TimesOut(j) ==
  /\ At(j, "wait") /\ <<j, item[j]>> \in Hung /\ ~done[j]
  /\ IF left[j] > httpTimeout THEN Retry(j) ELSE NextItem(j)
  /\ Spend(j, httpTimeout)

Interrupted(j) ==
  /\ At(j, "wait") /\ done[j]
  /\ NextItem(j) /\ UNCHANGED <<left, done>> /\ Unmoved

MutantTimeSleep(j) ==
  /\ At(j, "sleep")
  /\ Goto(j, "send") /\ UNCHANGED <<item, attempt>>
  /\ left' = [left EXCEPT ![j] = @ - backoffDelay(attempt[j])]
  /\ done' = [done EXCEPT ![j] = @ \/ left'[j] <= 0]
  /\ Unmoved

\* sleepCtx.
Sleep(j) ==
  /\ At(j, "sleep")
  /\ IF done[j] \/ left[j] <= backoffDelay(attempt[j])
       THEN NextItem(j) ELSE Goto(j, "send") /\ UNCHANGED <<item, attempt>>
  /\ Spend(j, backoffDelay(attempt[j]))

\* Statements that succeed or fail, the same for the loop.
Save(j) ==
  /\ At(j, "save")
  /\ NextItem(j) /\ UNCHANGED <<left, done>> /\ Unmoved

Step(j) ==
  \/ Returns(j) \/ Call(j) \/ Send(j) \/ Answered(j) \/ Refused(j) \/ Troubled(j)
  \/ TimesOut(j) \/ Interrupted(j) \/ Sleep(j) \/ Save(j)

-----------------------------------------------------------------------------
(***************************************************************************)
(* main.                                                                   *)
(***************************************************************************)
RunsUnmoved == UNCHANGED <<keyed, pc, item, attempt, left, done>>

RequestArrives ==
  /\ main = "serving" /\ requests < MaxRequests
  /\ requests' = requests + 1
  /\ UNCHANGED main /\ RunsUnmoved

RequestEnds ==
  /\ Alive /\ requests > 0
  /\ requests' = requests - 1
  /\ UNCHANGED main /\ RunsUnmoved

\* SIGINT or SIGTERM; Shutdown closes the listener and waits for the handlers.
Signal ==
  /\ main = "serving"
  /\ main' = "draining"
  /\ UNCHANGED requests /\ RunsUnmoved

\* Without jobs there is no runner to stop.
Drained ==
  /\ main = "draining" /\ requests = 0
  /\ main' = IF keyed THEN "waiting" ELSE "exited"
  /\ done' = [j \in Jobs |-> keyed /\ pc[j] # "off"]
  /\ UNCHANGED <<keyed, requests, pc, item, attempt, left>>

MutantNoDrainLimit == main = "draining" /\ requests > 0 /\ UNCHANGED jobVars

\* Ten seconds are over and a handler is still at work: log.Fatalf.
DrainTimesOut ==
  /\ main = "draining" /\ requests > 0
  /\ main' = "killed"
  /\ UNCHANGED requests /\ RunsUnmoved

\* Stop has cancelled the contexts and waits for the runs, ten seconds at most.
Stopped ==
  /\ main = "waiting" /\ Running = {}
  /\ main' = "exited"
  /\ UNCHANGED requests /\ RunsUnmoved

Abandoned ==
  /\ main = "waiting" /\ Running # {}
  /\ main' = "abandoned"
  /\ UNCHANGED requests /\ RunsUnmoved

JobsNext ==
  \/ \E j \in Jobs : Fire(j) \/ ListFails(j) \/ Step(j)
  \/ RequestArrives \/ RequestEnds \/ Signal
  \/ Drained \/ DrainTimesOut \/ Stopped \/ Abandoned

\* Cron fires, a run goes on, a handler's limit passes.  No handler has to
\* return and no signal has to come; the list is read again and again.
JobsFairness ==
  /\ \A j \in Jobs : WF_jobVars(Fire(j)) /\ WF_jobVars(Step(j)) /\ SF_jobVars(Call(j))
  /\ WF_jobVars(Drained \/ DrainTimesOut)
  /\ WF_jobVars(Stopped \/ Abandoned)

JobsSpec     == JobsInit /\ [][JobsNext]_jobVars
JobsFairSpec == JobsSpec /\ JobsFairness

-----------------------------------------------------------------------------
(***************************************************************************)
(* Properties.                                                             *)
(***************************************************************************)

\* Every variable keeps its type: a run never has more time than the timeout
\* its job was registered with, and no call more than its retries.
TypeOK ==
  /\ main \in {"serving", "draining", "waiting", "exited", "killed", "abandoned"}
  /\ keyed \in BOOLEAN
  /\ requests \in 0..MaxRequests
  /\ pc \in [Jobs -> {"off", "top", "send", "wait", "sleep", "save"}]
  /\ item \in [Jobs -> Nat]
  /\ attempt \in [Jobs -> 0..maxRetries]
  /\ left \in [Jobs -> 0..jobTimeout]
  /\ done \in [Jobs -> BOOLEAN]

\* When the signal has stopped the handlers and the runner, or a deadline has
\* passed, a run sends no further request and spends no further time waiting,
\* whichever retry, pause or item it is at (client.go do, sleepCtx).
NothingAfterTheContext ==
  [][\A j \in Jobs : done[j] /\ pc'[j] # "off" =>
       left'[j] = left[j] /\ (pc'[j] = "wait" => pc[j] = "wait")]_jobVars

\* After the signal the process is gone in the end, with handlers that never
\* return and with requests to the provider that hang (main.go).
ShutdownEnds == main = "draining" ~> ~Alive

\* As long as the process serves, the provider is asked about every item of
\* every job again and again: one item it never answers about costs a run its
\* time but not the other items their turn (settlement.go Run: log, continue).
EachItemIsAsked ==
  \A j \in Jobs : \A i \in DOMAIN Items(j) :
    (keyed /\ [](main = "serving")) => []<>(pc[j] = "wait" /\ item[j] = i)
=============================================================================
