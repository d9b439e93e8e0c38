--------------------------- MODULE OperationsProofs ----------------------------
(***************************************************************************)
(* What the two programs around the watchers and signers guarantee for any *)
(* value of their constants: Lifecycle, the process from boot to exit, and *)
(* SeedPool, the founder's script.                                         *)
(*                                                                         *)
(* ConnectionsOutliveWork is not inductive: that nothing works when the    *)
(* connections close follows from the awaits of shutdown before, so the    *)
(* strengthening says what each stage has behind it: no request after      *)
(* server.close, no loop after allSettled, no job after the workers        *)
(* closed, and the connections open from main's last await until then.     *)
(*                                                                         *)
(* The properties of the script are not inductive either: that a success   *)
(* stands for one mint and one position follows from what the supply and   *)
(* the admin's balance say of all transactions executed so far, and from   *)
(* the nonce order; the strengthening relates those counts to the amounts. *)
(***************************************************************************)
EXTENDS Lifecycle, SeedPool, BridgeLemmas

-----------------------------------------------------------------------------
(***************************************************************************)
(* The process: what each stage has behind it.                             *)
(***************************************************************************)

\* Nothing runs in a process that does not serve yet.
NothingYet ==
    stage \in {"down", "mongo", "redis", "api"} =>
        /\ \A w \in Loop : loop[w] = "off"
        /\ \A q \in Queue : worker[q] = "off"
        /\ requests = 0

\* What main has connected when it gets to its next await.
BootOpens ==
    /\ stage = "redis" => open = {"mongo"}
    /\ stage = "api" => open = {"mongo", "redis"}

\* The connections stay open until shutdown closes the queues.
OpenWhileServing ==
    stage \in {"up", "server", "loops", "workers", "queues"} =>
        open = {"mongo", "redis", "queues"}

NoRequestsLeft ==
    stage \in {"loops", "workers", "queues", "disconnect", "quit"} => requests = 0
NoLoopsLeft ==
    stage \in {"workers", "queues", "disconnect", "quit"} => \A w \in Loop : loop[w] = "gone"
NoJobsLeft ==
    stage \in {"queues", "disconnect", "quit"} => \A q \in Queue : worker[q] = "closed"

\* A process is aborted only while it stops.
AbortWhileStopping == aborted => stage \in Stop

StageInv ==
    /\ NothingYet /\ BootOpens /\ OpenWhileServing
    /\ NoRequestsLeft /\ NoLoopsLeft /\ NoJobsLeft
    /\ AbortWhileStopping

\* RequestArrives counts the handlers whose client has given up.
HandlersBounded == requests + orphans <= MaxRequests

-----------------------------------------------------------------------------
(***************************************************************************)
(* TypeOK.                                                                 *)
(***************************************************************************)

\* The bounds are numbers.
LEMMA Bounds == MaxRequests \in Nat /\ MaxUpsets \in Nat
  BY LifecycleAssumption DEF LifecycleAssumption

\* A process that does not run is in the type.
LEMMA InitType == Init => TypeOK
<1> SUFFICES ASSUME Init PROVE TypeOK
  OBVIOUS
<1>1. loop \in [Loop -> {"off", "boot", "tick", "sleep", "gone"}]
  BY DEF Init
<1>2. worker \in [Queue -> {"off", "idle", "busy", "closing", "closed"}]
  BY DEF Init
<1>3. 0 \in 0..MaxRequests /\ 0 \in 0..MaxUpsets
  BY Bounds
<1> QED
  BY <1>1, <1>2, <1>3 DEF Init, TypeOK, Boot, Stop

\* A counted signal, kill or failed call stays within its bound.
LEMMA UpsetBound == ASSUME TypeOK, Upset PROVE upsets' \in 0..MaxUpsets
  BY Bounds DEF Upset, TypeOK

\* The end of a process stays in the type.
LEMMA DiesType == ASSUME Dies, upsets' \in 0..MaxUpsets PROVE TypeOK'
<1>1. loop' \in [Loop -> {"off", "boot", "tick", "sleep", "gone"}]
  BY DEF Dies
<1>2. worker' \in [Queue -> {"off", "idle", "busy", "closing", "closed"}]
  BY DEF Dies
<1>3. 0 \in 0..MaxRequests
  BY Bounds
<1> QED
  BY <1>1, <1>2, <1>3 DEF Dies, TypeOK, Boot, Stop

\* What ends a process counts as an upset, or is its last await.
LEMMA EndsType ==
    ASSUME TypeOK, BootFails \/ Killed \/ Exits PROVE TypeOK'
<1>1. upsets' \in 0..MaxUpsets
  BY UpsetBound DEF BootFails, Killed, Exits, TypeOK
<1>2. Dies
  BY DEF BootFails, Killed, Exits
<1> QED
  BY <1>1, <1>2, DiesType

\* The awaits of main and of shutdown stay in the type.
LEMMA AwaitType ==
    ASSUME TypeOK,
           \/ Main \/ ServerClosed \/ WatchersSettled \/ WorkersClosed
           \/ QueuesClosed \/ Disconnected
    PROVE  TypeOK'
<1> USE DEF TypeOK, Boot, Stop
<1>1. CASE SystemdStarts \/ ConnectMongo \/ PingRedis
  BY <1>1 DEF SystemdStarts, ConnectMongo, PingRedis
<1>2. CASE Serve
  BY <1>2 DEF Serve
<1>3. CASE ServerClosed \/ WatchersSettled \/ WorkersClosed
  BY <1>3 DEF ServerClosed, WatchersSettled, WorkersClosed, Proceed
<1>4. CASE QueuesClosed \/ Disconnected
  BY <1>4 DEF QueuesClosed, Disconnected, Proceed
<1> QED
  BY <1>1, <1>2, <1>3, <1>4 DEF Main

\* A signal, which reaches every loop and every worker, stays in the type.
LEMMA SignalType == ASSUME TypeOK, Signal PROVE TypeOK'
<1>1. upsets' \in 0..MaxUpsets
  BY UpsetBound DEF Signal
<1> QED
  BY <1>1 DEF Signal, TypeOK, Boot, Stop

\* The steps of a loop stay in the type.
LEMMA LoopType ==
    ASSUME TypeOK, NEW w \in Loop, LoopStep(w) PROVE TypeOK'
<1>1. Again(w) \in {"tick", "gone"}
  BY DEF Again
<1>2. UNCHANGED <<stage, aborted, worker, requests, orphans, open, upsets>>
  BY DEF LoopStep, LoopBoots, TickEnds, SleepElapses, OnlyLoops
<1>3. loop' \in [Loop -> {"off", "boot", "tick", "sleep", "gone"}]
  BY <1>1 DEF LoopStep, LoopBoots, TickEnds, SleepElapses, TypeOK
<1> QED
  BY <1>2, <1>3 DEF TypeOK

\* A loop that gives up while it starts stays in the type, or ends the process.
LEMMA GivesUpType ==
    ASSUME TypeOK, BuybackRefuses \/ FairWatcherRejects PROVE TypeOK'
<1>1. upsets' \in 0..MaxUpsets
  BY UpsetBound DEF BuybackRefuses, FairWatcherRejects
<1>2. CASE Dies
  BY <1>1, <1>2, DiesType
<1>3. CASE ~Dies
  BY <1>1, <1>3, Bounds DEF BuybackRefuses, FairWatcherRejects, OnlyLoops, TypeOK
<1> QED
  BY <1>2, <1>3

\* Jobs stay in the type.
LEMMA WorkerType ==
    ASSUME TypeOK, NEW q \in Queue, JobStarts(q) \/ JobEnds(q) PROVE TypeOK'
<1>1. worker' \in [Queue -> {"off", "idle", "busy", "closing", "closed"}]
  BY DEF JobStarts, JobEnds, TypeOK
<1> QED
  BY <1>1 DEF JobStarts, JobEnds, TypeOK

\* Requests stay in the type, and all handlers together within their bound.
LEMMA RequestType ==
    ASSUME TypeOK, HandlersBounded,
           RequestArrives \/ RequestEnds \/ ClientGivesUp \/ OrphanEnds
    PROVE  TypeOK'
<1>1. requests \in Nat /\ orphans \in Nat
  BY Bounds DEF TypeOK
<1>2. requests' \in 0..MaxRequests /\ orphans' \in 0..MaxRequests
  BY <1>1, Bounds
     DEF RequestArrives, RequestEnds, ClientGivesUp, OrphanEnds, HandlersBounded, TypeOK
<1>3. upsets' \in 0..MaxUpsets
  BY UpsetBound DEF RequestArrives, RequestEnds, ClientGivesUp, OrphanEnds, TypeOK
<1> QED
  BY <1>2, <1>3 DEF RequestArrives, RequestEnds, ClientGivesUp, OrphanEnds, TypeOK

\* No step lets more handlers run than the bound.
LEMMA HandlersStep ==
    ASSUME TypeOK, HandlersBounded, [Next]_vars PROVE HandlersBounded'
<1> USE Bounds DEF HandlersBounded
<1>0. requests \in Nat /\ orphans \in Nat
  BY DEF TypeOK
<1>1. CASE Dies
  BY <1>1 DEF Dies
<1>2. CASE RequestArrives \/ RequestEnds \/ ClientGivesUp \/ OrphanEnds
  BY <1>0, <1>2 DEF RequestArrives, RequestEnds, ClientGivesUp, OrphanEnds
<1>3. CASE UNCHANGED <<requests, orphans>>
  BY <1>3
<1>4. Dies \/ (RequestArrives \/ RequestEnds \/ ClientGivesUp \/ OrphanEnds)
           \/ UNCHANGED <<requests, orphans>>
  BY DEF Next, Main, Shutdown, LoopStep, SystemdStarts, ConnectMongo, PingRedis, Serve,
         BootFails, Killed, Signal, ServerClosed, WatchersSettled, WorkersClosed,
         QueuesClosed, Disconnected, Exits, Proceed, LoopBoots, TickEnds, SleepElapses,
         BuybackRefuses, FairWatcherRejects, OnlyLoops, JobStarts, JobEnds, vars
<1> QED
  BY <1>1, <1>2, <1>3, <1>4

\* Every step stays in the type.
LEMMA StepType == ASSUME TypeOK, HandlersBounded, [Next]_vars PROVE TypeOK'
<1>1. CASE Main \/ BootFails \/ Killed \/ Shutdown
  BY <1>1, AwaitType, EndsType DEF Shutdown
<1>2. CASE Signal
  BY <1>2, SignalType
<1>3. CASE \E w \in Loop : LoopStep(w)
  BY <1>3, LoopType
<1>4. CASE BuybackRefuses \/ FairWatcherRejects
  BY <1>4, GivesUpType
<1>5. CASE \E q \in Queue : JobStarts(q) \/ JobEnds(q)
  BY <1>5, WorkerType
<1>6. CASE RequestArrives \/ RequestEnds \/ ClientGivesUp \/ OrphanEnds
  BY <1>6, RequestType
<1>7. CASE UNCHANGED vars
  BY <1>7 DEF vars, TypeOK
<1> QED
  BY <1>1, <1>2, <1>3, <1>4, <1>5, <1>6, <1>7 DEF Next

-----------------------------------------------------------------------------
(***************************************************************************)
(* The connections.                                                        *)
(***************************************************************************)

\* index.ts:30-64.  Before the process serves nothing works.
LEMMA InitStage == Init => StageInv /\ HandlersBounded
  BY Bounds
     DEF Init, HandlersBounded, StageInv, NothingYet, BootOpens, OpenWhileServing,
         NoRequestsLeft, NoLoopsLeft, NoJobsLeft, AbortWhileStopping, Stop

\* index.ts:42-64.  Main connects before anything may work.
LEMMA MainStage == ASSUME TypeOK, StageInv, Main PROVE StageInv'
<1> USE DEF StageInv, NothingYet, BootOpens, OpenWhileServing, NoRequestsLeft,
            NoLoopsLeft, NoJobsLeft, AbortWhileStopping, Stop
<1>1. CASE SystemdStarts
  BY <1>1 DEF SystemdStarts
<1>2. CASE ConnectMongo
  BY <1>2 DEF ConnectMongo
<1>3. CASE PingRedis
  BY <1>3 DEF PingRedis
<1>4. CASE Serve
  BY <1>4 DEF Serve
<1> QED
  BY <1>1, <1>2, <1>3, <1>4 DEF Main

\* Whatever ends the process leaves nothing working.
LEMMA DiesStage == ASSUME Dies PROVE StageInv'
  BY DEF Dies, StageInv, NothingYet, BootOpens, OpenWhileServing, NoRequestsLeft,
         NoLoopsLeft, NoJobsLeft, AbortWhileStopping, Stop

\* index.ts:66-92.  Each await of shutdown leaves its part behind it.
LEMMA ShutdownStage ==
    ASSUME TypeOK, StageInv, Signal \/ Shutdown PROVE StageInv'
<1> USE DEF StageInv, NothingYet, BootOpens, OpenWhileServing, NoRequestsLeft,
            NoLoopsLeft, NoJobsLeft, AbortWhileStopping, Stop
<1>1. CASE Signal
  BY <1>1 DEF Signal
<1>2. CASE ServerClosed
  BY <1>2 DEF ServerClosed, Proceed
<1>3. CASE WatchersSettled
  BY <1>3 DEF WatchersSettled, LoopsSettled, Proceed
<1>4. CASE WorkersClosed
  BY <1>4 DEF WorkersClosed, Proceed
<1>5. CASE QueuesClosed
  BY <1>5 DEF QueuesClosed, Proceed
<1>6. CASE Disconnected
  BY <1>6 DEF Disconnected, Proceed
<1>7. CASE Exits
  BY <1>7, DiesStage DEF Exits
<1> QED
  BY <1>1, <1>2, <1>3, <1>4, <1>5, <1>6, <1>7 DEF Shutdown

\* A loop works in no stage that is past it: it takes no step there.
LEMMA LoopStage ==
    ASSUME TypeOK, StageInv, NEW w \in Loop, LoopStep(w) PROVE StageInv'
<1>1. loop[w] \notin {"off", "gone"}
  BY DEF LoopStep, LoopBoots, TickEnds, SleepElapses
<1>2. stage \notin {"down", "mongo", "redis", "api", "workers", "queues", "disconnect", "quit"}
  BY <1>1 DEF StageInv, NothingYet, NoLoopsLeft
<1>3. UNCHANGED <<stage, aborted, worker, requests, orphans, open>>
  BY DEF LoopStep, LoopBoots, TickEnds, SleepElapses, OnlyLoops
<1> QED
  BY <1>2, <1>3
     DEF StageInv, NothingYet, BootOpens, OpenWhileServing, NoRequestsLeft, NoLoopsLeft,
         NoJobsLeft, AbortWhileStopping, Stop

\* A loop that gives up while it starts disturbs no stage.
LEMMA GivesUpStage ==
    ASSUME TypeOK, StageInv, BuybackRefuses \/ FairWatcherRejects PROVE StageInv'
<1>1. CASE Dies
  BY <1>1, DiesStage
<1>2. CASE ~Dies
  <2>1. PICK w \in Loop : /\ loop[w] = "boot"
                          /\ UNCHANGED <<stage, aborted, worker, requests, orphans, open>>
    BY <1>2, LifecycleAssumption
       DEF LifecycleAssumption, BuybackRefuses, FairWatcherRejects, OnlyLoops
  <2>2. stage \notin {"down", "mongo", "redis", "api", "workers", "queues", "disconnect", "quit"}
    BY <2>1 DEF StageInv, NothingYet, NoLoopsLeft
  <2> QED
    BY <2>1, <2>2
       DEF StageInv, NothingYet, BootOpens, OpenWhileServing, NoRequestsLeft, NoLoopsLeft,
           NoJobsLeft, AbortWhileStopping, Stop
<1> QED
  BY <1>1, <1>2

\* A worker takes and ends jobs only in stages that have not closed it.
LEMMA JobStage ==
    ASSUME TypeOK, StageInv, NEW q \in Queue, JobStarts(q) \/ JobEnds(q) PROVE StageInv'
<1>1. worker[q] \notin {"off", "closed"}
  BY DEF JobStarts, JobEnds
<1>2. stage \notin {"down", "mongo", "redis", "api", "queues", "disconnect", "quit"}
  BY <1>1 DEF StageInv, NothingYet, NoJobsLeft
<1> QED
  BY <1>2
     DEF JobStarts, JobEnds, StageInv, NothingYet, BootOpens, OpenWhileServing,
         NoRequestsLeft, NoLoopsLeft, NoJobsLeft, AbortWhileStopping, Stop

\* Requests arrive only while the process serves, and there are fewer later.
LEMMA RequestStage ==
    ASSUME TypeOK, StageInv,
           RequestArrives \/ RequestEnds \/ ClientGivesUp \/ OrphanEnds
    PROVE  StageInv'
<1>1. requests = 0 => requests' = 0 \/ stage = "up"
  BY DEF RequestArrives, RequestEnds, ClientGivesUp, OrphanEnds
<1> QED
  BY <1>1
     DEF RequestArrives, RequestEnds, ClientGivesUp, OrphanEnds, StageInv, NothingYet,
         BootOpens, OpenWhileServing, NoRequestsLeft, NoLoopsLeft, NoJobsLeft,
         AbortWhileStopping, Stop

\* Every step keeps what each stage has behind it.
LEMMA StepStage == ASSUME TypeOK, StageInv, [Next]_vars PROVE StageInv'
<1>1. CASE Main
  BY <1>1, MainStage
<1>2. CASE BootFails \/ Killed
  BY <1>2, DiesStage DEF BootFails, Killed
<1>3. CASE Signal \/ Shutdown
  BY <1>3, ShutdownStage
<1>4. CASE \E w \in Loop : LoopStep(w)
  BY <1>4, LoopStage
<1>5. CASE BuybackRefuses \/ FairWatcherRejects
  BY <1>5, GivesUpStage
<1>6. CASE \E q \in Queue : JobStarts(q) \/ JobEnds(q)
  BY <1>6, JobStage
<1>7. CASE RequestArrives \/ RequestEnds \/ ClientGivesUp \/ OrphanEnds
  BY <1>7, RequestStage
<1>8. CASE UNCHANGED vars
  BY <1>8
     DEF vars, StageInv, NothingYet, BootOpens, OpenWhileServing, NoRequestsLeft,
         NoLoopsLeft, NoJobsLeft, AbortWhileStopping, Stop
<1> QED
  BY <1>1, <1>2, <1>3, <1>4, <1>5, <1>6, <1>7, <1>8 DEF Next

\* What the stages have behind them is enough.
LEMMA StageSuffices == TypeOK /\ StageInv => ConnectionsOutliveWork
  BY DEF TypeOK, Boot, Stop, StageInv, NothingYet, OpenWhileServing, NoRequestsLeft,
         NoLoopsLeft, NoJobsLeft, ConnectionsOutliveWork, Working

-----------------------------------------------------------------------------
(***************************************************************************)
(* The theorems.                                                           *)
(***************************************************************************)

\* All of what holds in every state of a process, for the theorems below.
LEMMA Invariance == Spec => [](TypeOK /\ HandlersBounded /\ StageInv)
<1>1. Init => TypeOK /\ HandlersBounded /\ StageInv
  BY InitType, InitStage
<1>2. TypeOK /\ HandlersBounded /\ StageInv /\ [Next]_vars
        => (TypeOK /\ HandlersBounded /\ StageInv)'
  BY StepType, HandlersStep, StepStage
<1> QED
  BY <1>1, <1>2, PTL DEF Spec

\* index.ts:66-92.  However many loops, queues and requests there are, and
\* wherever a signal meets them: what is still running has its connections.
THEOREM ConnectionsSafe == Spec => []ConnectionsOutliveWork
  BY Invariance, StageSuffices, PTL

\* masternode-reward-worker.ts:576 and the other loops: after the abort no
\* loop that is not in a tick gets into one.
THEOREM StopIsBounded == Spec => NoTickAfterAbort
<1>1. ASSUME [Next]_vars, NEW w \in Loop, TypeOK, StageInv, aborted, loop[w] # "tick"
      PROVE  loop'[w] # "tick"
  <2>1. CASE Serve
    BY <1>1, <2>1 DEF Serve, StageInv, AbortWhileStopping, Stop
  <2>2. CASE \E v \in Loop : LoopStep(v)
    <3>1. PICK v \in Loop : LoopStep(v)
      BY <2>2
    <3>2. Again(v) = "gone"
      BY <1>1 DEF Again
    <3> QED
      BY <1>1, <3>1, <3>2 DEF LoopStep, LoopBoots, TickEnds, SleepElapses, TypeOK
  <2>3. CASE BuybackRefuses \/ FairWatcherRejects
    BY <1>1, <2>3 DEF BuybackRefuses, FairWatcherRejects, Dies, TypeOK
  <2>4. CASE Signal \/ Dies
    BY <1>1, <2>4 DEF Signal, Dies, TypeOK
  <2>5. CASE UNCHANGED loop
    BY <1>1, <2>5
  <2>6. \/ Serve \/ (\E v \in Loop : LoopStep(v)) \/ BuybackRefuses \/ FairWatcherRejects
        \/ Signal \/ Dies \/ UNCHANGED loop
    BY <1>1
       DEF Next, Main, Shutdown, SystemdStarts, ConnectMongo, PingRedis, BootFails, Killed,
           ServerClosed, WatchersSettled, WorkersClosed, QueuesClosed, Disconnected, Exits,
           Proceed, JobStarts, JobEnds, RequestArrives, RequestEnds, ClientGivesUp,
           OrphanEnds, vars
  <2> QED
    BY <2>1, <2>2, <2>3, <2>4, <2>5, <2>6
<1>2. TypeOK /\ StageInv /\ [Next]_vars
        => [\A w \in Loop : aborted /\ loop[w] # "tick" => loop'[w] # "tick"]_vars
  BY <1>1
<1> QED
  BY <1>2, Invariance, PTL DEF Spec, NoTickAfterAbort

-----------------------------------------------------------------------------
(***************************************************************************)
(* The seeding script.  First the facts about its constants, the supply    *)
(* and the transactions that the steps need.                               *)
(***************************************************************************)

\* The admin's transactions of a kind with a status; Count is their number.
Those(kind, status) == {i \in DOMAIN txs : txs[i].kind = kind /\ txs[i].status = status}

\* Base mines in nonce order: nothing that is decided follows what is not.
InNonceOrder ==
    \A i, j \in DOMAIN txs :
        i < j /\ txs[i].status = "pending" => txs[j].status = "pending"

\* A run waits for the receipt of a transaction it has sent.
WaitsForLast == In("wait") => txs # <<>>

\* A run that has reported success stands behind an executed position, at
\* whose block the whole supply was the seed.
SuccessHasReceipt ==
    report = "done" =>
        /\ In("off") /\ txs # <<>>
        /\ Last.kind = "position" /\ Last.status = "ok"
        /\ Last.block.supply = Seed

\* What NPM has taken from the admin, at least one unit at a time, and what
\* the admin still has was minted by the script.
MintedIsMore == balance[Admin] + Count("position", "ok") <= Seed * Count("mint", "ok")

\* A mint of one seed is enough for one position only, rounding or not.
OnePositionPerSeed == Count("mint", "ok") <= 1 => Count("position", "ok") <= Count("mint", "ok")

\* Where nothing was burned every mint is still in the supply, and in the
\* supply at the block of the last transaction.
SupplyCountsMints ==
    "burned" \notin others =>
        /\ totalSupply >= Seed * Count("mint", "ok")
        /\ txs # <<>> /\ Last.status = "ok" => Last.block.supply >= Seed * Count("mint", "ok")

\* A position takes no more than the seed from the admin.
SeedsStayInHand ==
    Seed * Count("mint", "ok") <= balance[Admin] + Seed * Count("position", "ok")

\* A run that saw all earlier mints sends one only while a position has taken
\* the seed of each and no other mint is on its way.
MintsWhenShort ==
    "mint" \notin blind =>
        /\ Count("mint", "ok") <= Count("position", "ok") + 1
        /\ \A i, j \in Those("mint", "pending") : i = j
        /\ Those("mint", "pending") # {} => Count("mint", "ok") <= Count("position", "ok")
        /\ In("mint") /\ "mint" \notin s.missed =>
              Count("mint", "ok") <= Count("position", "ok") /\ Those("mint", "pending") = {}

SeedInv ==
    /\ InNonceOrder
    /\ WaitsForLast
    /\ SuccessHasReceipt
    /\ MintedIsMore
    /\ OnePositionPerSeed
    /\ SupplyCountsMints
    /\ SeedsStayInHand
    /\ MintsWhenShort

\* Inductive: with the types, each part is kept with the help of the others.
SeedIInv == SeedTypeOK /\ SeedInv

\* What is beyond a multiple of the spacing is less than the spacing, for
\* negative ticks too, although the % of JavaScript is negative for them.
LEMMA RemainderIsSmall ==
    ASSUME NEW t \in Int
    PROVE  Remainder(t, TickSpacing) \in 0..(TickSpacing - 1)
<1>1. \A a \in Nat, b \in Nat \ {0} : a % b \in Int /\ a % b >= 0 /\ a % b < b
  OBVIOUS
<1>2. TickSpacing \in Nat \ {0}
  BY SeedAssumption
<1>3. JsRem(t, TickSpacing) \in Int /\ JsRem(t, TickSpacing) > -TickSpacing
  <2>1. CASE t >= 0
    BY <1>1, <1>2, <2>1 DEF JsRem
  <2>2. CASE t < 0
    <3>1. -t \in Nat
      BY <2>2
    <3>2. (-t) % TickSpacing \in Int /\ (-t) % TickSpacing < TickSpacing
      BY <1>1, <1>2, <3>1
    <3> QED
      BY <1>2, <2>2, <3>2 DEF JsRem
  <2> QED
    BY <2>1, <2>2
<1>4. JsRem(t, TickSpacing) + TickSpacing \in Nat
  BY <1>2, <1>3
<1> QED
  BY <1>1, <1>2, <1>4 DEF Remainder, JsRem

\* seed-pool.ts:372-381, "Both widen the range to nearest tick spacing": for
\* any prices and any spacing the position's range covers the two prices and
\* is at most one spacing wider at each end.
THEOREM RangeCoversPrices ==
    /\ tickLower \in Int /\ tickLower <= TickHigh /\ TickHigh < tickLower + TickSpacing
    /\ tickUpper \in Int /\ TickLow < tickUpper /\ tickUpper <= TickLow + TickSpacing
<1>1. TickSpacing \in Nat \ {0} /\ TickHigh \in Int /\ TickLow \in Int
  BY SeedAssumption
<1>2. /\ Remainder(TickHigh, TickSpacing) \in 0..(TickSpacing - 1)
      /\ Remainder(TickLow, TickSpacing) \in 0..(TickSpacing - 1)
  BY <1>1, RemainderIsSmall
<1>3. tickLower = TickHigh - Remainder(TickHigh, TickSpacing)
  BY DEF tickLower, snapTickDownToSpacing
<1>4. tickUpper = IF Remainder(TickLow, TickSpacing) = 0 THEN TickLow + TickSpacing
                  ELSE TickLow + (TickSpacing - Remainder(TickLow, TickSpacing))
  BY DEF tickUpper, snapTickUpToSpacing
<1> QED
  BY <1>1, <1>2, <1>3, <1>4

\* Every tick a step can set is an integer.
LEMMA TicksAreIntegers == PriceTicks \union {NoPool} \subseteq Int
<1>1. TickInit \in Int /\ tickUpper - 1 \in Int /\ NoPool \in Int
  BY RangeCoversPrices, SeedAssumption DEF NoPool
<1> QED
  BY <1>1, RangeCoversPrices DEF PriceTicks

\* The supply is the sum of the balances, before and after a step.
LEMMA SupplyIsTotal ==
    totalSupply = Total(balance, Account) /\ totalSupply' = Total(balance', Account)
BY ZenonT(60) DEF totalSupply, Total, MapThenSumSet, MapThenFoldSet

\* What the accounts hold is a number, and so is what there is in all.
LEMMA SupplyIsNat ==
    ASSUME NEW b \in [Account -> Nat]
    PROVE  Total(b, Account) \in Nat
BY TotalNat, SeedAssumption

\* The latest block can be read, before and after a step.
LEMMA LatestBlock ==
    /\ WfairTypeOK /\ tick \in PriceTicks \union {NoPool} => Now \in Chain
    /\ (WfairTypeOK /\ tick \in PriceTicks \union {NoPool})' => Now' \in Chain
<1>1. ASSUME WfairTypeOK, tick \in PriceTicks \union {NoPool} PROVE Now \in Chain
  <2>1. totalSupply \in Nat
    BY <1>1, SupplyIsTotal, SupplyIsNat DEF WfairTypeOK
  <2>2. balance[Admin] \in Nat /\ allowance[Admin][Npm] \in Nat
    BY <1>1, SeedAssumption, WfairAssumption DEF WfairTypeOK
  <2>3. tick \in Int
    BY <1>1, TicksAreIntegers
  <2> QED
    BY <2>1, <2>2, <2>3 DEF Now, Chain
<1>2. ASSUME WfairTypeOK', (tick \in PriceTicks \union {NoPool})' PROVE Now' \in Chain
  <2>1. totalSupply' \in Nat
    BY <1>2, SupplyIsTotal, SupplyIsNat DEF WfairTypeOK
  <2>2. balance'[Admin] \in Nat /\ allowance'[Admin][Npm] \in Nat
    BY <1>2, SeedAssumption, WfairAssumption DEF WfairTypeOK
  <2>3. tick' \in Int
    <3>1. tick' \in PriceTicks \union {NoPool}
      BY <1>2 DEF PriceTicks, tickUpper, tickLower, NoPool, snapTickDownToSpacing,
                  snapTickUpToSpacing, Remainder, JsRem
    <3> QED
      BY <3>1, TicksAreIntegers
  <2> QED
    BY <2>1, <2>2, <2>3 DEF Now, Chain
<1> QED
  BY <1>1, <1>2

\* More for one account is as much more in all.
LEMMA TotalCredited ==
    ASSUME NEW b \in [Account -> Nat], NEW more \in [Account -> Nat],
           NEW to \in Account, NEW amount \in Nat,
           more[to] = b[to] + amount, \A a \in Account \ {to} : b[a] = more[a]
    PROVE  Total(more, Account) = Total(b, Account) + amount
<1>1. \A a \in Account : b[a] \in Int /\ more[a] \in Int
  OBVIOUS
<1>2. Total(more, Account) = Total(b, Account) + more[to] - b[to]
  BY <1>1, TotalChange, SeedAssumption
<1>3. Total(b, Account) \in Nat /\ b[to] \in Nat
  BY SupplyIsNat
<1> QED
  BY <1>2, <1>3

LEMMA CreditAddsToTotal ==
    ASSUME NEW b \in [Account -> Nat], NEW to \in Account, NEW amount \in Nat,
           NEW more, more = [b EXCEPT ![to] = @ + amount]
    PROVE  more \in [Account -> Nat] /\ Total(more, Account) = Total(b, Account) + amount
<1>1. more \in [Account -> Nat] /\ more[to] = b[to] + amount
  OBVIOUS
<1>2. \A a \in Account \ {to} : b[a] = more[a]
  OBVIOUS
<1>3. ASSUME NEW w, w \in [Account -> Nat], w[to] = b[to] + amount,
             \A a \in Account \ {to} : b[a] = w[a]
      PROVE  Total(w, Account) = Total(b, Account) + amount
  BY <1>3, TotalCredited
<1> QED
  BY <1>1, <1>2, <1>3, Zenon

\* ERC20._mint adds to one balance and to the supply.
LEMMA MintAddsToSupply ==
    ASSUME WfairTypeOK, NEW to \in Account, NEW amount \in Nat,
           balance' = [balance EXCEPT ![to] = @ + amount]
    PROVE  balance' \in [Account -> Nat] /\ totalSupply' = totalSupply + amount
BY CreditAddsToTotal, SupplyIsTotal DEF WfairTypeOK

\* A transfer keeps the supply, to oneself too.
LEMMA TransferKeepsSupply ==
    ASSUME WfairTypeOK, NEW from \in Account, NEW to \in Account, NEW amount \in Nat,
           amount <= balance[from], Moved(from, to, amount)
    PROVE  balance' \in [Account -> Nat] /\ totalSupply' = totalSupply
<1> DEFINE more == [balance EXCEPT ![to] = @ + amount]
<1>1. more \in [Account -> Nat] /\ more[to] = balance[to] + amount
  BY DEF WfairTypeOK
<1>2. balance' \in [Account -> Nat]
  BY DEF WfairTypeOK, Moved
<1>3. \A a \in Account : balance'[a] = more[a] - (IF a = from THEN amount ELSE 0)
  <2>1. SUFFICES ASSUME NEW a \in Account
                 PROVE  balance'[a] = more[a] - (IF a = from THEN amount ELSE 0)
    OBVIOUS
  <2>2. more[a] = balance[a] + (IF a = to THEN amount ELSE 0)
    BY DEF WfairTypeOK
  <2>3. balance'[a] = balance[a] + (IF a = to THEN amount ELSE 0)
                                 - (IF a = from THEN amount ELSE 0)
    BY DEF Moved
  <2>4. balance[a] \in Nat
    BY DEF WfairTypeOK
  <2> HIDE DEF more
  <2> QED
    BY <2>2, <2>3, <2>4
<1>4. Total(more, Account) = Total(balance, Account) + amount
  BY CreditAddsToTotal DEF WfairTypeOK
<1>5. Total(balance', Account) = Total(more, Account) + balance'[from] - more[from]
  <2>1. \A a \in Account \ {from} : more[a] = balance'[a]
    BY <1>1, <1>3
  <2>2. \A a \in Account : balance'[a] \in Int /\ more[a] \in Int
    BY <1>1, <1>2
  <2> HIDE DEF more
  <2> QED
    BY <2>1, <2>2, TotalChange, SeedAssumption
<1>6. Total(balance, Account) \in Nat /\ Total(more, Account) \in Nat
  BY <1>1, SupplyIsNat DEF WfairTypeOK
<1>7. more[from] \in Nat /\ balance'[from] = more[from] - amount
  BY <1>1, <1>3 DEF WfairTypeOK
<1> HIDE DEF more
<1>8. Total(balance', Account) = Total(balance, Account)
  BY <1>1, <1>4, <1>5, <1>6, <1>7
<1> QED
  BY <1>2, <1>8, SupplyIsTotal

\* The numbers of transactions, before and after a step.
LEMMA CountsAreNat ==
    ASSUME NEW kind, NEW status
    PROVE  /\ Count(kind, status) = Cardinality(Those(kind, status))
           /\ Count(kind, status)' = Cardinality(Those(kind, status)')
           /\ txs \in Seq(Transaction) => /\ IsFiniteSet(Those(kind, status))
                                          /\ Count(kind, status) \in Nat
           /\ txs' \in Seq(Transaction) => /\ IsFiniteSet(Those(kind, status)')
                                           /\ Count(kind, status)' \in Nat
<1>1. Count(kind, status) = Cardinality(Those(kind, status))
  BY DEF Count, Those
<1>2. Count(kind, status)' = Cardinality(Those(kind, status)')
  BY DEF Count, Those
<1>3. \A n \in Nat : \A T \in SUBSET (1..n) : IsFiniteSet(T) /\ Cardinality(T) \in Nat
  <2>1. SUFFICES ASSUME NEW n \in Nat, NEW T \in SUBSET (1..n)
                 PROVE  IsFiniteSet(T) /\ Cardinality(T) \in Nat
    OBVIOUS
  <2>2. IsFiniteSet(1..n)
    BY FS_Interval
  <2>3. IsFiniteSet(T)
    BY <2>2, FS_Subset
  <2> QED
    BY <2>3, FS_CardinalityType
<1>4. ASSUME txs \in Seq(Transaction) PROVE \E n \in Nat : Those(kind, status) \in SUBSET (1..n)
  BY <1>4 DEF Those
<1>5. ASSUME txs' \in Seq(Transaction)
      PROVE  \E n \in Nat : Those(kind, status)' \in SUBSET (1..n)
  <2>1. Len(txs') \in Nat /\ DOMAIN txs' = 1..Len(txs')
    BY <1>5
  <2>2. Those(kind, status)' \subseteq DOMAIN txs'
    BY DEF Those
  <2> QED
    BY <2>1, <2>2
<1> QED
  BY <1>1, <1>2, <1>3, <1>4, <1>5

\* No transaction of a kind with a status, and the number of them.
LEMMA NoneOrSome ==
    ASSUME NEW kind, NEW status, txs \in Seq(Transaction)
    PROVE  Count(kind, status) > 0 <=> Those(kind, status) # {}
BY CountsAreNat, FS_EmptySet

\* writeContract appends a transaction, and decides none.
LEMMA Submitted ==
    ASSUME txs \in Seq(Transaction), NEW kind \in TxKind, Submit(kind)
    PROVE  /\ txs' \in Seq(Transaction)
           /\ Len(txs') = Len(txs) + 1 /\ txs' # <<>>
           /\ \A i \in DOMAIN txs : i \in DOMAIN txs' /\ txs'[i] = txs[i]
           /\ txs'[Len(txs')].kind = kind /\ txs'[Len(txs')].status = "pending"
           /\ \A k : Count(k, "ok")' = Count(k, "ok")
           /\ \A k : Those(k, "pending")' = Those(k, "pending")
                        \cup (IF k = kind THEN {Len(txs')} ELSE {})
<1> DEFINE tx == [kind |-> kind, status |-> "pending", block |-> Genesis]
           n == Len(txs) + 1
<1>1. Genesis \in Chain /\ tx \in Transaction
  <2>1. Genesis \in Chain
    BY DEF Genesis, Chain, NoPool
  <2> QED
    BY <2>1 DEF Transaction
<1>2. txs' = Append(txs, tx) /\ tx.kind = kind /\ tx.status = "pending"
  BY DEF Submit
<1> HIDE DEF tx
<1>3. /\ txs' \in Seq(Transaction) /\ Len(txs') = n /\ n \in Nat /\ n > 0
      /\ DOMAIN txs = 1..Len(txs) /\ DOMAIN txs' = 1..n /\ Len(txs) \in Nat
      /\ \A i \in 1..Len(txs) : txs'[i] = txs[i]
      /\ txs'[n] = tx
  BY <1>1, <1>2
<1>4. DOMAIN txs' = DOMAIN txs \cup {n} /\ n \notin DOMAIN txs
  BY <1>3
<1>5. \A k : Those(k, "ok")' = Those(k, "ok")
  <2>1. ASSUME NEW k PROVE Those(k, "ok")' = Those(k, "ok")
    BY <1>2, <1>3, <1>4 DEF Those
  <2> QED
    BY <2>1
<1>6. \A k : Those(k, "pending")' = Those(k, "pending") \cup (IF k = kind THEN {n} ELSE {})
  <2>1. ASSUME NEW k
        PROVE  Those(k, "pending")' = Those(k, "pending") \cup (IF k = kind THEN {n} ELSE {})
    BY <1>2, <1>3, <1>4 DEF Those
  <2> QED
    BY <2>1
<1>7. \A k : Count(k, "ok")' = Count(k, "ok")
  BY <1>5, CountsAreNat
<1>8. txs' # <<>>
  BY <1>3
<1> QED
  BY <1>2, <1>3, <1>6, <1>7, <1>8

\* A transaction is mined: it is no longer pending, and counted with the
\* executed ones of its kind if it was executed.
LEMMA Decided ==
    ASSUME txs \in Seq(Transaction), txs' \in Seq(Transaction), DOMAIN txs' = DOMAIN txs,
           NEW i \in DOMAIN txs, txs[i].status = "pending",
           \A j \in DOMAIN txs \ {i} : txs'[j] = txs[j],
           txs'[i].kind = txs[i].kind, txs'[i].status # "pending"
    PROVE  /\ \A k : Those(k, "pending")' = Those(k, "pending") \ {i}
           /\ \A k : Count(k, "ok")' =
                        IF txs[i].kind = k /\ txs'[i].status = "ok" THEN Count(k, "ok") + 1
                        ELSE Count(k, "ok")
<1>1. \A k : Those(k, "pending")' = Those(k, "pending") \ {i}
  <2>1. ASSUME NEW k PROVE Those(k, "pending")' = Those(k, "pending") \ {i}
    BY DEF Those
  <2> QED
    BY <2>1
<1>2. ASSUME NEW k
      PROVE  Count(k, "ok")' =
                 IF txs[i].kind = k /\ txs'[i].status = "ok" THEN Count(k, "ok") + 1
                 ELSE Count(k, "ok")
  <2>1. CASE txs[i].kind = k /\ txs'[i].status = "ok"
    <3>1. Those(k, "ok")' = Those(k, "ok") \cup {i} /\ i \notin Those(k, "ok")
      BY <2>1 DEF Those
    <3>2. Cardinality(Those(k, "ok") \cup {i}) = Cardinality(Those(k, "ok")) + 1
      BY <3>1, CountsAreNat, FS_AddElement
    <3> QED
      BY <2>1, <3>1, <3>2, CountsAreNat
  <2>2. CASE ~(txs[i].kind = k /\ txs'[i].status = "ok")
    <3>1. Those(k, "ok")' = Those(k, "ok")
      BY <2>2 DEF Those
    <3> QED
      BY <2>2, <3>1, CountsAreNat
  <2> QED
    BY <2>1, <2>2
<1> QED
  BY <1>1, <1>2

-----------------------------------------------------------------------------
(***************************************************************************)
(* What each kind of step does to Base.                                    *)
(***************************************************************************)

\* The steps of a run that send nothing.
RunReads ==
    \/ StartRun \/ ReadPre \/ ReadAllowance \/ LookForPool \/ ReadSlot0 \/ SendRefused
    \/ MintReceipt \/ ApproveReceipt \/ CreateReceipt \/ PositionReceipt \/ RevertedReceipt
    \/ Abort

\* Those that send a transaction.
RunSends == SendMint \/ SendApprove \/ SendCreate \/ SendPosition \/ SendUnanswered

\* The steps of everybody else.
OthersAct ==
    DepositMinted \/ HolderBurns \/ PoolCreated \/ PriceMoves \/ PauseWfair \/ UnpauseWfair

MineStep == \E i \in DOMAIN txs : Mine(i) \/ MineReverted(i)

\* Every step is of one of these kinds.
LEMMA StepKinds ==
    [SeedNext]_seedVars => RunReads \/ RunSends \/ OthersAct \/ MineStep \/ UNCHANGED seedVars
BY DEF SeedNext, RunReads, RunSends, OthersAct, MineStep, MineNext, ScriptStep

\* A run that sends nothing leaves Base as it is.
LEMMA ReadsLeaveBase ==
    RunReads => UNCHANGED <<balance, allowance, paused, tick, before, txs, others>>
BY DEF RunReads, StartRun, ReadPre, ReadAllowance, LookForPool, ReadSlot0, SendRefused,
       MintReceipt, ApproveReceipt, CreateReceipt, PositionReceipt, RevertedReceipt, Abort,
       base, wfair

\* And sending changes nothing but the mempool.
LEMMA SendsSubmit ==
    ASSUME RunSends
    PROVE  /\ UNCHANGED <<balance, allowance, paused, tick, before, others>>
           /\ \E kind \in TxKind : In(kind) /\ Submit(kind)
<1>1. UNCHANGED <<balance, allowance, paused, tick, before, others>>
  BY DEF RunSends, SendMint, SendApprove, SendCreate, SendPosition, SendUnanswered, Sent,
         base, wfair
<1>2. \E kind \in TxKind : In(kind) /\ Submit(kind)
  BY DEF RunSends, SendMint, SendApprove, SendCreate, SendPosition, SendUnanswered, Sent, TxKind
<1> QED
  BY <1>1, <1>2

\* A transaction that executes: a mint is added to the admin's WFAIR and to
\* the supply, a position takes some of the seed from the admin, who had it.
LEMMA Execution ==
    ASSUME SeedTypeOK, NEW kind \in TxKind, WouldSucceed(kind), Executed(kind)
    PROVE  /\ WfairTypeOK'
           /\ tick' \in PriceTicks \cup {NoPool}
           /\ kind = "mint" => /\ balance'[Admin] = balance[Admin] + Seed
                               /\ totalSupply' = totalSupply + Seed
           /\ kind = "position" => /\ balance[Admin] >= Seed
                                   /\ balance'[Admin] < balance[Admin]
                                   /\ balance[Admin] <= balance'[Admin] + Seed
                                   /\ totalSupply' = totalSupply
           /\ kind \in {"approve", "create"} =>
                balance' = balance /\ totalSupply' = totalSupply
<1>1. /\ balance \in [Account -> Nat] /\ allowance \in [Account -> [Account -> Nat]]
      /\ paused \in BOOLEAN /\ tick \in PriceTicks \cup {NoPool}
      /\ Seed \in Nat /\ Dust \in Nat /\ Dust < Seed
      /\ {Admin, Npm, Pool} \subseteq Account /\ Pool # Admin /\ Npm # Admin
  BY SeedAssumption, WfairAssumption DEF SeedTypeOK, WfairTypeOK
<1>2. ASSUME UNCHANGED balance PROVE totalSupply' = totalSupply
  BY <1>2, SupplyIsTotal
<1>3. CASE kind = "mint"
  <2>1. /\ balance' = [balance EXCEPT ![Admin] = @ + Seed]
        /\ UNCHANGED <<allowance, paused, tick>>
    BY <1>3 DEF Executed, Mint
  <2>2. balance' \in [Account -> Nat] /\ totalSupply' = totalSupply + Seed
    BY <1>1, <2>1, MintAddsToSupply DEF SeedTypeOK
  <2>3. balance'[Admin] = balance[Admin] + Seed
    BY <1>1, <2>1
  <2> QED
    BY <1>1, <1>3, <2>1, <2>2, <2>3 DEF WfairTypeOK
<1>4. CASE kind = "approve"
  <2>1. /\ allowance' = [allowance EXCEPT ![Admin][Npm] = Seed]
        /\ UNCHANGED <<balance, paused, tick>>
    BY <1>4 DEF Executed, Approve
  <2>2. allowance' \in [Account -> [Account -> Nat]]
    BY <1>1, <2>1
  <2> QED
    BY <1>1, <1>2, <1>4, <2>1, <2>2 DEF WfairTypeOK
<1>5. CASE kind = "create"
  <2>1. tick' \in {tick, TickInit} /\ UNCHANGED <<balance, allowance, paused>>
    BY <1>5 DEF Executed, wfair
  <2> QED
    BY <1>1, <1>2, <1>5, <2>1 DEF WfairTypeOK, PriceTicks
<1>6. CASE kind = "position"
  <2>1. PICK dust \in 0..Dust :
              /\ TransferFrom(Npm, Admin, Pool, Seed - dust)
              /\ UNCHANGED tick
    BY <1>6 DEF Executed
  <2>2. Seed - dust \in Nat /\ Seed - dust > 0
    BY <1>1
  <2>3. /\ Seed - dust <= allowance[Admin][Npm] /\ Seed - dust <= balance[Admin]
        /\ allowance' = [allowance EXCEPT ![Admin][Npm] = @ - (Seed - dust)]
        /\ Moved(Admin, Pool, Seed - dust)
        /\ UNCHANGED paused
    BY <2>1 DEF TransferFrom, CanTransferFrom
  <2>4. balance' \in [Account -> Nat] /\ totalSupply' = totalSupply
    BY <1>1, <2>2, <2>3, TransferKeepsSupply DEF SeedTypeOK
  <2>5. balance'[Admin] = balance[Admin] - (Seed - dust)
    <3>1. balance'[Admin] = balance[Admin] + 0 - (Seed - dust)
      BY <1>1, <2>3 DEF Moved
    <3> QED
      BY <1>1, <2>2, <3>1
  <2>6. balance[Admin] >= Seed
    BY <1>6 DEF WouldSucceed, PositionPossible, CanTransferFrom
  <2>7. allowance' \in [Account -> [Account -> Nat]]
    <3>1. allowance[Admin][Npm] - (Seed - dust) \in Nat
      BY <1>1, <2>2, <2>3
    <3> QED
      BY <1>1, <2>3, <3>1
  <2>8. balance'[Admin] < balance[Admin] /\ balance[Admin] <= balance'[Admin] + Seed
    <3>1. balance[Admin] \in Nat
      BY <1>1
    <3> QED
      BY <1>1, <2>2, <2>5, <3>1
  <2> QED
    BY <1>1, <1>6, <2>1, <2>3, <2>4, <2>6, <2>7, <2>8 DEF WfairTypeOK
<1> QED
  BY <1>3, <1>4, <1>5, <1>6 DEF TxKind

\* What a mined transaction does: those before it in the nonce order are
\* decided, and it is executed or reverts.
LEMMA Mining ==
    ASSUME SeedTypeOK, NEW i \in DOMAIN txs, Mine(i) \/ MineReverted(i)
    PROVE  /\ txs[i].status = "pending" /\ \A j \in 1..(i - 1) : txs[j].status # "pending"
           /\ DOMAIN txs' = DOMAIN txs /\ Len(txs') = Len(txs)
           /\ \A j \in DOMAIN txs \ {i} : txs'[j] = txs[j]
           /\ txs'[i].kind = txs[i].kind
           /\ UNCHANGED <<s, report, blind, others>>
           /\ before' = Now
           /\ \/ /\ txs'[i].status = "ok" /\ txs'[i].block = Now'
                 /\ WouldSucceed(txs[i].kind) /\ Executed(txs[i].kind)
              \/ /\ txs'[i].status = "reverted" /\ txs'[i].block = txs[i].block
                 /\ UNCHANGED <<balance, allowance, paused, tick>>
<1>1. /\ txs \in Seq(Transaction) /\ DOMAIN txs = 1..Len(txs) /\ Len(txs) \in Nat
      /\ txs[i] \in Transaction
  BY DEF SeedTypeOK
<1>2. /\ txs[i].status = "pending" /\ \A j \in 1..(i - 1) : txs[j].status # "pending"
      /\ before' = Now /\ UNCHANGED <<s, report, blind, others>>
  BY DEF Mine, MineReverted, IsNext, NewBlock
<1>3. CASE txs' = [txs EXCEPT ![i].status = "reverted"] /\ UNCHANGED <<wfair, tick>>
  <2>1. txs' = [txs EXCEPT ![i] = [txs[i] EXCEPT !.status = "reverted"]]
    BY <1>3
  <2> DEFINE tx == [txs[i] EXCEPT !.status = "reverted"]
  <2>2. tx.status = "reverted" /\ tx.kind = txs[i].kind /\ tx.block = txs[i].block
        /\ tx \in Transaction
    BY <1>1 DEF Transaction
  <2> HIDE DEF tx
  <2>3. txs' \in Seq(Transaction) /\ DOMAIN txs' = DOMAIN txs /\ Len(txs') = Len(txs)
        /\ txs'[i] = tx /\ \A j \in DOMAIN txs \ {i} : txs'[j] = txs[j]
    BY <1>1, <2>1, <2>2 DEF tx
  <2> QED
    BY <1>2, <1>3, <2>2, <2>3 DEF wfair
<1>4. CASE /\ WouldSucceed(txs[i].kind) /\ Executed(txs[i].kind)
           /\ txs' = [txs EXCEPT ![i].status = "ok", ![i].block = Now']
  <2>1. txs' = [txs EXCEPT ![i] = [txs[i] EXCEPT !.status = "ok", !.block = Now']]
    BY <1>1, <1>4
  <2> DEFINE tx == [txs[i] EXCEPT !.status = "ok", !.block = Now']
  <2>2. tx.status = "ok" /\ tx.kind = txs[i].kind /\ tx.block = Now'
    BY <1>1 DEF Transaction
  <2> HIDE DEF tx
  <2>3. DOMAIN txs' = DOMAIN txs /\ Len(txs') = Len(txs)
        /\ txs'[i] = tx /\ \A j \in DOMAIN txs \ {i} : txs'[j] = txs[j]
    BY <1>1, <2>1 DEF tx
  <2> QED
    BY <1>2, <1>4, <2>2, <2>3
<1> QED
  BY <1>3, <1>4 DEF Mine, MineReverted

\* Nobody else takes the admin's WFAIR or gives it any, and the supply only
\* shrinks by a burn.
LEMMA OthersLeaveAdmin ==
    ASSUME SeedTypeOK, OthersAct
    PROVE  /\ UNCHANGED <<txs, s, report, blind>>
           /\ WfairTypeOK' /\ tick' \in PriceTicks \cup {NoPool}
           /\ others \subseteq others' /\ others' \subseteq others \cup {"minted", "burned", "moved"}
           /\ before' = Now /\ mishaps' \in 0..MaxMishaps
           /\ balance'[Admin] = balance[Admin]
           /\ "burned" \notin others' => totalSupply' >= totalSupply
<1>1. /\ balance \in [Account -> Nat] /\ allowance \in [Account -> [Account -> Nat]]
      /\ paused \in BOOLEAN /\ tick \in PriceTicks \cup {NoPool}
      /\ {Admin, Holder, Pool} \subseteq Account /\ Pool # Admin /\ Holder # Admin
      /\ mishaps \in 0..MaxMishaps /\ MaxMishaps \in Nat
  BY SeedAssumption, WfairAssumption DEF SeedTypeOK, WfairTypeOK
<1>2. totalSupply \in Nat /\ (UNCHANGED balance => totalSupply' = totalSupply)
  BY <1>1, SupplyIsTotal, SupplyIsNat
<1>3. CASE DepositMinted
  <2>1. /\ balance' = [balance EXCEPT ![Holder] = @ + 1]
        /\ UNCHANGED <<allowance, paused, tick, txs, s, report, blind>>
        /\ others' = others \cup {"minted"} /\ before' = Now /\ mishaps' = mishaps + 1
        /\ mishaps < MaxMishaps
    BY <1>3 DEF DepositMinted, Disturb, Mint, Fault, NewBlock
  <2>2. balance' \in [Account -> Nat] /\ totalSupply' = totalSupply + 1
    BY <1>1, <2>1, MintAddsToSupply DEF SeedTypeOK
  <2> QED
    BY <1>1, <1>2, <2>1, <2>2 DEF WfairTypeOK
<1>4. CASE HolderBurns
  <2>1. /\ balance' = [balance EXCEPT ![Holder] = @ - balance[Holder]]
        /\ UNCHANGED <<allowance, paused, tick, txs, s, report, blind>>
        /\ others' = others \cup {"burned"} /\ before' = Now /\ mishaps' = mishaps + 1
        /\ mishaps < MaxMishaps
    BY <1>4 DEF HolderBurns, Disturb, BridgeBurn, Burn, Fault, NewBlock
  <2>2. balance' \in [Account -> Nat] /\ balance'[Admin] = balance[Admin]
    BY <1>1, <2>1
  <2> QED
    BY <1>1, <2>1, <2>2 DEF WfairTypeOK
<1>5. CASE PoolCreated
  <2>1. /\ UNCHANGED <<balance, allowance, paused, txs, s, report, blind>>
        /\ tick' \in PriceTicks
        /\ others' = others \cup {"moved"} /\ before' = Now /\ mishaps' = mishaps + 1
        /\ mishaps < MaxMishaps
    BY <1>5 DEF PoolCreated, Disturb, Fault, NewBlock, wfair
  <2> QED
    BY <1>1, <1>2, <2>1 DEF WfairTypeOK
<1>6. CASE PriceMoves
  <2>1. /\ UNCHANGED <<txs, s, report, blind>>
        /\ tick' \in PriceTicks
        /\ others' = others \cup {"moved"} /\ before' = Now /\ mishaps' = mishaps + 1
        /\ mishaps < MaxMishaps
    BY <1>6 DEF PriceMoves, Disturb, Fault, NewBlock
  <2>2. CASE UNCHANGED wfair
    BY <1>1, <1>2, <2>1, <2>2 DEF WfairTypeOK, wfair
  <2>3. CASE \E bought \in {1, balance[Pool]} : Transfer(Pool, Holder, bought)
    <3>1. PICK bought \in {1, balance[Pool]} : Transfer(Pool, Holder, bought)
      BY <2>3
    <3>2. /\ bought <= balance[Pool] /\ Moved(Pool, Holder, bought)
          /\ UNCHANGED <<allowance, paused>> /\ bought \in Nat
      BY <1>1, <3>1 DEF Transfer
    <3>3. balance' \in [Account -> Nat] /\ totalSupply' = totalSupply
      BY <1>1, <3>2, TransferKeepsSupply DEF SeedTypeOK
    <3>4. balance'[Admin] = balance[Admin]
      <4>1. balance'[Admin] = balance[Admin] + 0 - 0
        BY <1>1, <3>2 DEF Moved
      <4>2. balance[Admin] \in Nat
        BY <1>1
      <4> QED
        BY <4>1, <4>2
    <3> QED
      BY <1>1, <1>2, <2>1, <3>2, <3>3, <3>4 DEF WfairTypeOK
  <2> QED
    BY <1>6, <2>2, <2>3 DEF PriceMoves
<1>7. CASE PauseWfair \/ UnpauseWfair
  <2>1. /\ UNCHANGED <<balance, allowance, tick, txs, s, report, blind, others>>
        /\ paused' \in BOOLEAN /\ before' = Now /\ mishaps' \in 0..MaxMishaps
    <3>1. CASE PauseWfair
      BY <1>1, <3>1 DEF PauseWfair, Pause, Fault, NewBlock
    <3>2. CASE UnpauseWfair
      BY <1>1, <3>2 DEF UnpauseWfair, Unpause, NewBlock
    <3> QED
      BY <1>7, <3>1, <3>2
  <2> QED
    BY <1>1, <1>2, <2>1 DEF WfairTypeOK
<1> QED
  BY <1>3, <1>4, <1>5, <1>6, <1>7 DEF OthersAct

-----------------------------------------------------------------------------
(***************************************************************************)
(* The types.                                                              *)
(***************************************************************************)

LEMMA SeedInitTypes == SeedInit => SeedTypeOK
<1>1. SUFFICES ASSUME SeedInit PROVE SeedTypeOK
  OBVIOUS
<1>2. WfairTypeOK
  BY <1>1, WfairAssumption DEF SeedInit, WfairInit, WfairTypeOK
<1>3. Genesis \in Chain
  BY DEF Genesis, Chain, NoPool
<1>4. s \in Script
  BY <1>1, <1>3 DEF SeedInit, Off, Script, ScriptPc
<1>5. txs \in Seq(Transaction) /\ mishaps \in 0..MaxMishaps
  BY <1>1, SeedAssumption DEF SeedInit
<1> QED
  BY <1>1, <1>2, <1>3, <1>4, <1>5 DEF SeedInit, SeedTypeOK

\* The script and its history, whatever the run does.
LEMMA RunTypes ==
    ASSUME SeedTypeOK, RunReads \/ RunSends
    PROVE  /\ s' \in Script /\ report' \in {"none", "aborted", "done"}
           /\ blind' \in SUBSET {"mint", "position", "supply"} /\ mishaps' \in 0..MaxMishaps
           /\ blind \subseteq blind'
<1>1. /\ s \in Script /\ report \in {"none", "aborted", "done"}
      /\ blind \in SUBSET {"mint", "position", "supply"} /\ mishaps \in 0..MaxMishaps
      /\ before \in Chain /\ Now \in Chain /\ MaxMishaps \in Nat
  BY LatestBlock, SeedAssumption DEF SeedTypeOK
<1>2. mishaps' \in {mishaps, mishaps + 1} /\ mishaps' \in 0..MaxMishaps
  <2>1. UNCHANGED mishaps \/ Fault
    BY DEF RunReads, RunSends, StartRun, ReadPre, ReadAllowance, LookForPool, ReadSlot0,
           SendRefused, MintReceipt, ApproveReceipt, CreateReceipt, PositionReceipt,
           RevertedReceipt, Abort, SendMint, SendApprove, SendCreate, SendPosition,
           SendUnanswered, Sent
  <2> QED
    BY <1>1, <2>1 DEF Fault
<1>3. blind' \in SUBSET {"mint", "position", "supply"} /\ blind \subseteq blind'
  BY <1>1
     DEF RunReads, RunSends, StartRun, ReadPre, ReadAllowance, LookForPool, ReadSlot0,
         SendRefused, MintReceipt, ApproveReceipt, CreateReceipt, PositionReceipt,
         RevertedReceipt, Abort, SendMint, SendApprove, SendCreate, SendPosition,
         SendUnanswered, Sent, Cut, Unseen
<1>4. report' \in {"none", "aborted", "done"}
  BY <1>1
     DEF RunReads, RunSends, StartRun, ReadPre, ReadAllowance, LookForPool, ReadSlot0,
         SendRefused, MintReceipt, ApproveReceipt, CreateReceipt, PositionReceipt,
         RevertedReceipt, Abort, SendMint, SendApprove, SendCreate, SendPosition,
         SendUnanswered, Sent, Throw, End
<1>5. Off \in Script
  BY DEF Off, Script, ScriptPc, Genesis, Chain, NoPool
<1>6. \A pc \in ScriptPc : Goto(pc) => s' \in Script
  BY <1>1 DEF Goto, Script
<1>7. ASSUME NEW c \in Chain, ReadPreState(c, Missed(c))
      PROVE  s' \in Script
  <2>1. Missed(c) \in SUBSET {"mint", "supply"}
    BY DEF Missed
  <2> QED
    BY <1>1, <1>5, <1>7, <2>1 DEF ReadPreState, Script, ScriptPc
<1>8. s' \in Script
  <2>1. CASE ReadPre
    <3>1. PICK of \in [{"supply", "admin", "tick"} -> {Now, before}] :
             ReadPreState([Now EXCEPT !.supply = of["supply"].supply,
                                      !.admin = of["admin"].admin,
                                      !.tick = of["tick"].tick],
                          Missed([Now EXCEPT !.supply = of["supply"].supply,
                                             !.admin = of["admin"].admin,
                                             !.tick = of["tick"].tick]))
      BY <2>1 DEF ReadPre
    <3>2. of["supply"] \in Chain /\ of["admin"] \in Chain /\ of["tick"] \in Chain
      BY <1>1, <3>1
    <3>3. [Now EXCEPT !.supply = of["supply"].supply, !.admin = of["admin"].admin,
                      !.tick = of["tick"].tick] \in Chain
      BY <1>1, <3>2 DEF Chain
    <3> QED
      BY <1>7, <3>1, <3>3
  <2>2. CASE RunSends
    BY <1>5, <1>6, <2>2
       DEF RunSends, SendMint, SendApprove, SendCreate, SendPosition, SendUnanswered, Sent,
           Throw, End, ScriptPc
  <2>3. CASE RunReads /\ ~ReadPre
    BY <1>5, <1>6, <2>3
       DEF RunReads, StartRun, ReadAllowance, LookForPool, ReadSlot0, SendRefused,
           MintReceipt, ApproveReceipt, CreateReceipt, PositionReceipt, RevertedReceipt,
           Abort, Throw, End, ScriptPc
  <2> QED
    BY <2>1, <2>2, <2>3 DEF RunReads
<1> QED
  BY <1>2, <1>3, <1>4, <1>8

LEMMA SeedNextTypes == SeedTypeOK /\ [SeedNext]_seedVars => SeedTypeOK'
<1>1. SUFFICES ASSUME SeedTypeOK, [SeedNext]_seedVars PROVE SeedTypeOK'
  OBVIOUS
<1> DEFINE Parts == /\ WfairTypeOK' /\ tick' \in PriceTicks \cup {NoPool}
                    /\ txs' \in Seq(Transaction) /\ before' \in Chain /\ s' \in Script
                    /\ report' \in {"none", "aborted", "done"}
                    /\ blind' \in SUBSET {"mint", "position", "supply"}
                    /\ others' \in SUBSET {"minted", "burned", "moved"}
                    /\ mishaps' \in 0..MaxMishaps
<1>2. SUFFICES Parts
  BY DEF SeedTypeOK, PriceTicks, tickUpper, tickLower, NoPool, snapTickDownToSpacing,
         snapTickUpToSpacing, Remainder, JsRem, Transaction, Chain, TxKind, Script, ScriptPc
<1>3. /\ WfairTypeOK /\ tick \in PriceTicks \cup {NoPool} /\ txs \in Seq(Transaction)
      /\ before \in Chain /\ s \in Script /\ report \in {"none", "aborted", "done"}
      /\ blind \in SUBSET {"mint", "position", "supply"} /\ others \in SUBSET {"minted", "burned", "moved"}
      /\ mishaps \in 0..MaxMishaps /\ MaxMishaps \in Nat /\ Now \in Chain
  BY <1>1, LatestBlock, SeedAssumption DEF SeedTypeOK
<1>4. CASE RunReads
  BY <1>1, <1>3, <1>4, ReadsLeaveBase, RunTypes DEF WfairTypeOK
<1>5. CASE RunSends
  <2>1. txs' \in Seq(Transaction)
    BY <1>3, <1>5, SendsSubmit, Submitted
  <2> QED
    BY <1>1, <1>3, <1>5, <2>1, SendsSubmit, RunTypes DEF WfairTypeOK
<1>6. CASE OthersAct
  BY <1>1, <1>3, <1>6, OthersLeaveAdmin
<1>7. CASE MineStep
  <2>1. PICK i \in DOMAIN txs : Mine(i) \/ MineReverted(i)
    BY <1>7 DEF MineStep
  <2>2. txs[i] \in Transaction
    BY <1>3
  <2>3. WfairTypeOK' /\ tick' \in PriceTicks \cup {NoPool}
    <3>1. txs[i].kind \in TxKind
      BY <2>2 DEF Transaction
    <3> QED
      BY <1>1, <1>3, <2>1, <3>1, Mining, Execution DEF WfairTypeOK
  <2>4. Now' \in Chain
    BY <2>3, LatestBlock DEF PriceTicks, tickUpper, tickLower, NoPool, snapTickDownToSpacing,
                             snapTickUpToSpacing, Remainder, JsRem
  <2>5. txs' \in Seq(Transaction)
    BY <1>3, <2>1, <2>2, <2>4 DEF Mine, MineReverted, Transaction
  <2>6. mishaps' \in 0..MaxMishaps
    BY <1>3, <2>1 DEF Mine, MineReverted, Fault
  <2> QED
    BY <1>1, <1>3, <2>1, <2>3, <2>5, <2>6, Mining
<1>8. CASE UNCHANGED seedVars
  BY <1>3, <1>8 DEF seedVars, wfair, WfairTypeOK
<1> QED
  BY <1>1, <1>4, <1>5, <1>6, <1>7, <1>8, StepKinds

-----------------------------------------------------------------------------
(***************************************************************************)
(* The parts of the inductive invariant, one lemma each.                   *)
(***************************************************************************)

\* Where the steps of a run that send nothing lead.
LEMMA ReadsLead ==
    ASSUME SeedTypeOK, RunReads
    PROVE  /\ s'.pc # "wait"
           /\ s'.pc = "mint" => ReadPre
           /\ In("off") => report # "done"
           /\ report' = "done" /\ report # "done" =>
                PositionReceipt /\ SupplyVerified(Last.block) /\ s' = Off
<1>1. s \in Script
  BY DEF SeedTypeOK
<1>2. \A pc \in ScriptPc : Goto(pc) => s'.pc = pc
  BY <1>1 DEF Goto, Script
<1>3. Off.pc = "off"
  BY DEF Off
<1>4. CASE ReadPre
  <2>1. \A c, missed : ReadPreState(c, missed) => s'.pc \in {"off", "mint", "allowance"}
    BY <1>1, <1>3 DEF ReadPreState, Script
  <2>2. s'.pc \in {"off", "mint", "allowance"} /\ In("pre") /\ UNCHANGED report
    <3>1. \E c, missed : ReadPreState(c, missed)
      BY <1>4 DEF ReadPre
    <3>2. In("pre") /\ UNCHANGED report
      BY <1>4 DEF ReadPre
    <3> QED
      BY <2>1, <3>1, <3>2
  <2> QED
    BY <1>4, <2>2 DEF In
<1>5. CASE RunReads /\ ~ReadPre
  <2>1. s'.pc \in {"pre", "off", "allowance", "approve", "pool", "create", "slot0", "position"}
    BY <1>2, <1>3, <1>5
       DEF RunReads, StartRun, ReadAllowance, LookForPool, ReadSlot0, SendRefused,
           MintReceipt, ApproveReceipt, CreateReceipt, PositionReceipt, RevertedReceipt,
           Abort, Throw, End, ScriptPc
  <2>2. In("off") => report # "done"
    BY <1>5
       DEF RunReads, StartRun, ReadAllowance, LookForPool, ReadSlot0, SendRefused,
           MintReceipt, ApproveReceipt, CreateReceipt, PositionReceipt, RevertedReceipt,
           Abort, Receipt, In
  <2>3. report' = "done" /\ report # "done" => PositionReceipt
    BY <1>5
       DEF RunReads, StartRun, ReadAllowance, LookForPool, ReadSlot0, SendRefused,
           MintReceipt, ApproveReceipt, CreateReceipt, RevertedReceipt, Abort, Throw, End
  <2>4. PositionReceipt /\ report' = "done" => SupplyVerified(Last.block) /\ s' = Off
    BY DEF PositionReceipt, End
  <2> QED
    BY <2>1, <2>2, <2>3, <2>4
<1> QED
  BY <1>4, <1>5

\* Where those that send one lead, and what the history says of a mint.
LEMMA SendsLead ==
    ASSUME SeedTypeOK, RunSends
    PROVE  /\ s'.pc \in {"wait", "off"}
           /\ ~In("off")
           /\ report' # "done" \/ report = "done"
           /\ "mint" \notin blind' =>
                 "mint" \notin blind /\ (In("mint") => "mint" \notin s.missed)
<1>1. s \in Script
  BY DEF SeedTypeOK
<1>2. Goto("wait") => s'.pc = "wait"
  BY <1>1 DEF Goto, Script
<1>3. Off.pc = "off"
  BY DEF Off
<1>4. \A kind \in TxKind : In(kind) => kind # "off" /\ ~In("off") /\ (In("mint") => kind = "mint")
  BY DEF In, TxKind
<1>5. CASE SendUnanswered
  <2>1. PICK kind \in TxKind :
          /\ In(kind) /\ Throw
          /\ blind' = blind \union Unseen(kind) \union Cut(kind)
    BY <1>5 DEF SendUnanswered
  <2>2. "mint" \notin blind' =>
           "mint" \notin blind /\ (In("mint") => "mint" \notin s.missed)
    BY <1>4, <2>1 DEF Unseen
  <2> QED
    BY <1>3, <1>4, <2>1, <2>2 DEF Throw, End
<1>6. CASE ~SendUnanswered
  <2>1. PICK kind \in TxKind : In(kind) /\ Sent(kind)
    BY <1>6 DEF RunSends, SendMint, SendApprove, SendCreate, SendPosition, TxKind
  <2>2. "mint" \notin blind' =>
           "mint" \notin blind /\ (In("mint") => "mint" \notin s.missed)
    BY <1>4, <2>1 DEF Sent, Unseen
  <2> QED
    BY <1>2, <1>4, <2>1, <2>2 DEF Sent
<1> QED
  BY <1>5, <1>6

\* Account nonces make Base execute the admin's transactions in order.
LEMMA NonceOrderKept ==
    ASSUME SeedTypeOK, SeedTypeOK', InNonceOrder, [SeedNext]_seedVars
    PROVE  InNonceOrder'
<1>1. /\ txs \in Seq(Transaction) /\ txs' \in Seq(Transaction)
      /\ DOMAIN txs = 1..Len(txs) /\ DOMAIN txs' = 1..Len(txs')
      /\ Len(txs) \in Nat /\ Len(txs') \in Nat
  BY DEF SeedTypeOK, Transaction, Chain, TxKind
<1>2. CASE UNCHANGED txs
  BY <1>2 DEF InNonceOrder
<1>3. CASE RunSends
  <2>1. /\ Len(txs') = Len(txs) + 1
        /\ \A i \in DOMAIN txs : txs'[i] = txs[i]
        /\ txs'[Len(txs')].status = "pending"
    BY <1>1, <1>3, SendsSubmit, Submitted
  <2>2. SUFFICES ASSUME NEW i \in DOMAIN txs', NEW j \in DOMAIN txs', i < j,
                        txs'[i].status = "pending"
                 PROVE  txs'[j].status = "pending"
    BY DEF InNonceOrder
  <2>3. CASE j = Len(txs')
    BY <2>1, <2>3
  <2>4. CASE j # Len(txs')
    <3>1. i \in DOMAIN txs /\ j \in DOMAIN txs
      BY <1>1, <2>1, <2>2, <2>4
    <3> QED
      BY <2>1, <2>2, <3>1 DEF InNonceOrder
  <2> QED
    BY <2>3, <2>4
<1>4. CASE MineStep
  <2>1. PICK n \in DOMAIN txs : Mine(n) \/ MineReverted(n)
    BY <1>4 DEF MineStep
  <2>2. /\ \A j \in 1..(n - 1) : txs[j].status # "pending"
        /\ DOMAIN txs' = DOMAIN txs /\ \A j \in DOMAIN txs \ {n} : txs'[j] = txs[j]
        /\ txs'[n].status \in {"ok", "reverted"}
    BY <2>1, Mining
  <2>3. SUFFICES ASSUME NEW i \in DOMAIN txs', NEW j \in DOMAIN txs', i < j,
                        txs'[i].status = "pending"
                 PROVE  txs'[j].status = "pending"
    BY DEF InNonceOrder
  <2>4. i # n /\ txs[i].status = "pending"
    BY <2>2, <2>3
  <2>5. i > n /\ j # n
    BY <1>1, <2>2, <2>3, <2>4
  <2> QED
    BY <2>2, <2>3, <2>4, <2>5 DEF InNonceOrder
<1> QED
  BY <1>2, <1>3, <1>4, StepKinds, ReadsLeaveBase, OthersLeaveAdmin DEF seedVars

\* A run waits only for what it has sent.
LEMMA WaitingKept ==
    ASSUME SeedTypeOK, WaitsForLast, [SeedNext]_seedVars
    PROVE  WaitsForLast'
<1>1. txs \in Seq(Transaction)
  BY DEF SeedTypeOK
<1>2. CASE RunReads
  BY <1>2, ReadsLead DEF WaitsForLast, In
<1>3. CASE RunSends
  BY <1>1, <1>3, SendsSubmit, Submitted DEF WaitsForLast
<1>4. CASE MineStep
  <2>1. PICK n \in DOMAIN txs : Mine(n) \/ MineReverted(n)
    BY <1>4 DEF MineStep
  <2>2. UNCHANGED s /\ n \in DOMAIN txs'
    BY <2>1, Mining
  <2> QED
    BY <1>1, <2>2 DEF WaitsForLast, In
<1>5. CASE UNCHANGED <<s, txs>>
  BY <1>5 DEF WaitsForLast, In
<1> QED
  BY <1>2, <1>3, <1>4, <1>5, StepKinds, OthersLeaveAdmin DEF seedVars

\* Nothing is sent or mined after a success.
LEMMA SuccessKept ==
    ASSUME SeedTypeOK, InNonceOrder, WaitsForLast, SuccessHasReceipt, [SeedNext]_seedVars
    PROVE  SuccessHasReceipt'
<1>1. /\ txs \in Seq(Transaction) /\ DOMAIN txs = 1..Len(txs) /\ Len(txs) \in Nat
  BY DEF SeedTypeOK
<1>2. CASE UNCHANGED <<s, report, txs>>
  BY <1>2 DEF SuccessHasReceipt, In, Last
<1>3. CASE RunReads
  <2>1. SUFFICES ASSUME report' = "done"
                 PROVE  /\ s'.pc = "off" /\ txs # <<>>
                        /\ Last.kind = "position" /\ Last.status = "ok"
                        /\ Last.block.supply = Seed
    BY <1>3, ReadsLeaveBase DEF SuccessHasReceipt, In, Last
  <2>2. PositionReceipt /\ SupplyVerified(Last.block) /\ s' = Off
    BY <1>3, <2>1, ReadsLead DEF SuccessHasReceipt
  <2>3. In("wait") /\ Last.kind = "position" /\ Last.status = "ok"
    BY <2>2 DEF PositionReceipt, Receipt
  <2> QED
    BY <2>2, <2>3 DEF WaitsForLast, SupplyVerified, Off
<1>4. CASE RunSends
  BY <1>4, SendsLead DEF SuccessHasReceipt
<1>5. CASE MineStep
  <2>1. PICK n \in DOMAIN txs : Mine(n) \/ MineReverted(n)
    BY <1>5 DEF MineStep
  <2>2. txs[n].status = "pending" /\ UNCHANGED report
    BY <2>1, Mining
  <2>3. txs # <<>> => Last.status = "pending"
    BY <1>1, <2>2 DEF InNonceOrder, Last
  <2> QED
    BY <2>2, <2>3 DEF SuccessHasReceipt
<1> QED
  BY <1>2, <1>3, <1>4, <1>5, StepKinds, OthersLeaveAdmin DEF seedVars

\* What a mined transaction adds to the counts, the balance and the supply.
LEMMA MiningCounts ==
    ASSUME SeedTypeOK, SeedTypeOK', NEW i \in DOMAIN txs, Mine(i) \/ MineReverted(i)
    PROVE  \/ /\ txs[i].kind = "mint" /\ txs'[i].status = "ok" /\ txs'[i].block = Now'
              /\ Count("mint", "ok")' = Count("mint", "ok") + 1
              /\ Count("position", "ok")' = Count("position", "ok")
              /\ balance'[Admin] = balance[Admin] + Seed
              /\ totalSupply' = totalSupply + Seed
           \/ /\ txs[i].kind = "position" /\ txs'[i].status = "ok" /\ txs'[i].block = Now'
              /\ Count("mint", "ok")' = Count("mint", "ok")
              /\ Count("position", "ok")' = Count("position", "ok") + 1
              /\ balance[Admin] >= Seed /\ balance'[Admin] < balance[Admin]
              /\ balance[Admin] <= balance'[Admin] + Seed
              /\ totalSupply' = totalSupply
           \/ /\ txs'[i].status = "ok" => txs'[i].block = Now'
              /\ txs'[i].status \in {"ok", "reverted"}
              /\ Count("mint", "ok")' = Count("mint", "ok")
              /\ Count("position", "ok")' = Count("position", "ok")
              /\ balance' = balance /\ totalSupply' = totalSupply
<1>1. txs \in Seq(Transaction) /\ txs' \in Seq(Transaction) /\ txs[i].kind \in TxKind
  <2>1. txs \in Seq(Transaction) /\ txs' \in Seq(Transaction)
    BY DEF SeedTypeOK, Transaction, Chain, TxKind
  <2>2. txs[i] \in Transaction
    BY <2>1
  <2> QED
    BY <2>1, <2>2 DEF Transaction
<1>2. /\ txs[i].status = "pending" /\ DOMAIN txs' = DOMAIN txs
      /\ \A j \in DOMAIN txs \ {i} : txs'[j] = txs[j]
      /\ txs'[i].kind = txs[i].kind
  BY Mining
<1>3. CASE /\ txs'[i].status = "ok" /\ txs'[i].block = Now'
           /\ WouldSucceed(txs[i].kind) /\ Executed(txs[i].kind)
  <2>1. \A k : Count(k, "ok")' = IF txs[i].kind = k THEN Count(k, "ok") + 1 ELSE Count(k, "ok")
    BY <1>1, <1>2, <1>3, Decided
  <2>2. /\ Count("mint", "ok")' = IF txs[i].kind = "mint" THEN Count("mint", "ok") + 1
                                  ELSE Count("mint", "ok")
        /\ Count("position", "ok")' = IF txs[i].kind = "position" THEN Count("position", "ok") + 1
                                      ELSE Count("position", "ok")
    BY <2>1
  <2>3. CASE txs[i].kind = "mint"
    BY <1>1, <1>3, <2>2, <2>3, Execution
  <2>4. CASE txs[i].kind = "position"
    BY <1>1, <1>3, <2>2, <2>4, Execution
  <2>5. CASE txs[i].kind \in {"approve", "create"}
    BY <1>1, <1>3, <2>2, <2>5, Execution
  <2> QED
    BY <1>1, <2>3, <2>4, <2>5 DEF TxKind
<1>4. CASE /\ txs'[i].status = "reverted" /\ UNCHANGED balance
  <2>1. \A k : Count(k, "ok")' = Count(k, "ok")
    BY <1>1, <1>2, <1>4, Decided
  <2>2. totalSupply' = totalSupply
    BY <1>4, SupplyIsTotal
  <2> QED
    BY <1>4, <2>1, <2>2
<1> QED
  BY <1>3, <1>4, Mining

\* The counts and the balance, where nothing is mined.
LEMMA UnminedCounts ==
    ASSUME SeedTypeOK, RunReads \/ RunSends \/ OthersAct \/ UNCHANGED seedVars
    PROVE  /\ Count("mint", "ok")' = Count("mint", "ok")
           /\ Count("position", "ok")' = Count("position", "ok")
           /\ balance'[Admin] = balance[Admin]
           /\ others \subseteq others'
           /\ "burned" \notin others' => totalSupply' >= totalSupply
<1>1. txs \in Seq(Transaction)
  BY DEF SeedTypeOK
<1>2. totalSupply \in Nat /\ (UNCHANGED balance => totalSupply' = totalSupply)
  BY SupplyIsTotal, SupplyIsNat DEF SeedTypeOK, WfairTypeOK
<1>3. UNCHANGED txs => \A k : Count(k, "ok")' = Count(k, "ok")
  BY DEF Count
<1>4. CASE RunSends
  BY <1>1, <1>2, <1>4, SendsSubmit, Submitted
<1>5. CASE OthersAct
  BY <1>3, <1>5, OthersLeaveAdmin
<1>6. CASE RunReads \/ UNCHANGED seedVars
  BY <1>2, <1>3, <1>6, ReadsLeaveBase DEF seedVars, wfair
<1> QED
  BY <1>4, <1>5, <1>6

\* The numbers that the next three lemmas count with.
LEMMA SeedNumbers ==
    ASSUME SeedTypeOK, SeedTypeOK'
    PROVE  /\ Seed \in Nat /\ Seed > 0
           /\ balance[Admin] \in Nat /\ balance'[Admin] \in Nat
           /\ totalSupply \in Nat /\ totalSupply' \in Nat
           /\ Count("mint", "ok") \in Nat /\ Count("mint", "ok")' \in Nat
           /\ Count("position", "ok") \in Nat /\ Count("position", "ok")' \in Nat
<1>1. txs \in Seq(Transaction) /\ txs' \in Seq(Transaction)
  BY DEF SeedTypeOK, Transaction, Chain, TxKind
<1>2. balance \in [Account -> Nat] /\ balance' \in [Account -> Nat]
  BY DEF SeedTypeOK, WfairTypeOK
<1>3. Seed \in Nat /\ Seed > 0
  BY SeedAssumption
<1>4. balance[Admin] \in Nat /\ balance'[Admin] \in Nat
  BY <1>2, WfairAssumption
<1>5. totalSupply \in Nat /\ totalSupply' \in Nat
  BY <1>2, SupplyIsTotal, SupplyIsNat
<1> QED
  BY <1>1, <1>3, <1>4, <1>5, CountsAreNat

\* One more mint is one more seed.
LEMMA OneMoreSeed ==
    ASSUME NEW k \in Nat, NEW n \in Nat
    PROVE  k * (n + 1) = k * n + k /\ k * n \in Nat
OBVIOUS

\* STEP D takes at least one unit from what STEP A has minted.
LEMMA MintedKept ==
    ASSUME SeedTypeOK, SeedTypeOK', MintedIsMore, [SeedNext]_seedVars
    PROVE  MintedIsMore'
<1>1. CASE MineStep
  <2>1. PICK i \in DOMAIN txs : Mine(i) \/ MineReverted(i)
    BY <1>1 DEF MineStep
  <2>2. Seed * (Count("mint", "ok") + 1) = Seed * Count("mint", "ok") + Seed
    BY SeedNumbers, OneMoreSeed
  <2>3. Seed * Count("mint", "ok") \in Nat
    BY SeedNumbers, OneMoreSeed
  <2>4. balance'[Admin] + Count("position", "ok")' <= Seed * Count("mint", "ok")'
    BY <2>1, <2>2, <2>3, MiningCounts, SeedNumbers DEF MintedIsMore
  <2> QED
    BY <2>4 DEF MintedIsMore
<1>2. CASE RunReads \/ RunSends \/ OthersAct \/ UNCHANGED seedVars
  <2>1. balance'[Admin] + Count("position", "ok")' <= Seed * Count("mint", "ok")'
    BY <1>2, UnminedCounts DEF MintedIsMore
  <2> QED
    BY <2>1 DEF MintedIsMore
<1> QED
  BY <1>1, <1>2, StepKinds

\* NPM.mint needs the whole seed, which a position has begun to spend.
LEMMA OnePositionKept ==
    ASSUME SeedTypeOK, SeedTypeOK', MintedIsMore, OnePositionPerSeed, [SeedNext]_seedVars
    PROVE  OnePositionPerSeed'
<1>1. CASE MineStep
  <2>1. PICK i \in DOMAIN txs : Mine(i) \/ MineReverted(i)
    BY <1>1 DEF MineStep
  <2>2. SUFFICES ASSUME Count("mint", "ok")' <= 1
                 PROVE  Count("position", "ok")' <= Count("mint", "ok")'
    BY DEF OnePositionPerSeed
  <2>3. CASE Count("mint", "ok")' = Count("mint", "ok") + 1
    BY <2>1, <2>2, <2>3, MiningCounts, SeedNumbers DEF OnePositionPerSeed
  <2>4. CASE Count("mint", "ok")' = Count("mint", "ok")
             /\ Count("position", "ok")' = Count("position", "ok")
    BY <2>2, <2>4 DEF OnePositionPerSeed
  <2>5. CASE /\ Count("mint", "ok")' = Count("mint", "ok")
             /\ Count("position", "ok")' = Count("position", "ok") + 1
             /\ balance[Admin] >= Seed
    <3>1. Count("mint", "ok") \in {0, 1}
      BY <2>2, <2>5, SeedNumbers
    <3>2. Count("mint", "ok") = 1 /\ Count("position", "ok") = 0
      <4>1. Seed * 0 = 0 /\ Seed * 1 = Seed
        BY SeedNumbers
      <4> QED
        BY <2>5, <3>1, <4>1, SeedNumbers DEF MintedIsMore
    <3> QED
      BY <2>5, <3>2
  <2> QED
    BY <2>1, <2>3, <2>4, <2>5, MiningCounts
<1>2. CASE RunReads \/ RunSends \/ OthersAct \/ UNCHANGED seedVars
  <2>1. Count("mint", "ok")' <= 1 => Count("position", "ok")' <= Count("mint", "ok")'
    BY <1>2, UnminedCounts DEF OnePositionPerSeed
  <2> QED
    BY <2>1 DEF OnePositionPerSeed
<1> QED
  BY <1>1, <1>2, StepKinds

\* The supply the last check reads has every mint in it, unless one is burned.
LEMMA SupplyKept ==
    ASSUME SeedTypeOK, SeedTypeOK', InNonceOrder, SupplyCountsMints, [SeedNext]_seedVars
    PROVE  SupplyCountsMints'
<1>1. /\ txs \in Seq(Transaction) /\ DOMAIN txs = 1..Len(txs) /\ Len(txs) \in Nat
  BY DEF SeedTypeOK
<1>2. others \subseteq others'
  BY UnminedCounts, Mining, StepKinds DEF MineStep
<1>3. SUFFICES ASSUME "burned" \notin others'
               PROVE  /\ totalSupply' >= Seed * Count("mint", "ok")'
                      /\ txs' # <<>> /\ txs'[Len(txs')].status = "ok" =>
                            txs'[Len(txs')].block.supply >= Seed * Count("mint", "ok")'
  BY DEF SupplyCountsMints, Last
<1>4. Seed * Count("mint", "ok") \in Nat /\ totalSupply >= Seed * Count("mint", "ok")
  BY <1>2, <1>3, SeedNumbers, OneMoreSeed DEF SupplyCountsMints
<1>5. CASE MineStep
  <2>1. PICK i \in DOMAIN txs : Mine(i) \/ MineReverted(i)
    BY <1>5 DEF MineStep
  <2>2. Seed * (Count("mint", "ok") + 1) = Seed * Count("mint", "ok") + Seed
    BY SeedNumbers, OneMoreSeed
  <2>3. totalSupply' >= Seed * Count("mint", "ok")'
    BY <1>4, <2>1, <2>2, MiningCounts, SeedNumbers
  <2>4. /\ Len(txs') = Len(txs) /\ txs[i].status = "pending"
        /\ \A j \in DOMAIN txs \ {i} : txs'[j] = txs[j]
    BY <2>1, Mining
  <2>5. CASE i = Len(txs)
    <3>1. txs'[i].status = "ok" => txs'[i].block = Now'
      BY <2>1, MiningCounts
    <3>2. Now'.supply = totalSupply'
      BY DEF Now
    <3> QED
      BY <2>3, <2>4, <2>5, <3>1, <3>2
  <2>6. CASE i # Len(txs)
    <3>1. txs'[Len(txs')] = txs[Len(txs)] /\ txs[Len(txs)].status = "pending"
      BY <1>1, <2>4, <2>6 DEF InNonceOrder
    <3> QED
      BY <2>3, <3>1
  <2> QED
    BY <2>5, <2>6
<1>6. CASE RunSends
  <2>1. txs'[Len(txs')].status = "pending"
    BY <1>1, <1>6, SendsSubmit, Submitted
  <2> QED
    BY <1>3, <1>4, <1>6, <2>1, UnminedCounts, SeedNumbers
<1>7. CASE RunReads \/ OthersAct \/ UNCHANGED seedVars
  <2>1. UNCHANGED txs
    BY <1>7, ReadsLeaveBase, OthersLeaveAdmin DEF seedVars
  <2>2. Count("mint", "ok")' = Count("mint", "ok") /\ totalSupply' >= totalSupply
    BY <1>3, <1>7, UnminedCounts
  <2> QED
    BY <1>2, <1>3, <1>4, <2>1, <2>2, SeedNumbers DEF SupplyCountsMints, Last
<1> QED
  BY <1>5, <1>6, <1>7, StepKinds

\* amount1Max of the position: it takes the seed at most.
LEMMA InHandKept ==
    ASSUME SeedTypeOK, SeedTypeOK', SeedsStayInHand, [SeedNext]_seedVars
    PROVE  SeedsStayInHand'
<1>1. /\ Seed * (Count("mint", "ok") + 1) = Seed * Count("mint", "ok") + Seed
      /\ Seed * (Count("position", "ok") + 1) = Seed * Count("position", "ok") + Seed
      /\ Seed * Count("mint", "ok") \in Nat /\ Seed * Count("position", "ok") \in Nat
  BY SeedNumbers, OneMoreSeed
<1>2. Seed * Count("mint", "ok") <= balance[Admin] + Seed * Count("position", "ok")
  BY DEF SeedsStayInHand
<1>3. CASE MineStep
  <2>1. PICK i \in DOMAIN txs : Mine(i) \/ MineReverted(i)
    BY <1>3 DEF MineStep
  <2>2. Seed * Count("mint", "ok")' <= balance'[Admin] + Seed * Count("position", "ok")'
    BY <1>1, <1>2, <2>1, MiningCounts, SeedNumbers
  <2> QED
    BY <2>2 DEF SeedsStayInHand
<1>4. CASE RunReads \/ RunSends \/ OthersAct \/ UNCHANGED seedVars
  <2>1. Seed * Count("mint", "ok")' <= balance'[Admin] + Seed * Count("position", "ok")'
    BY <1>2, <1>4, UnminedCounts
  <2> QED
    BY <2>1 DEF SeedsStayInHand
<1> QED
  BY <1>3, <1>4, StepKinds

\* Fewer seeds are fewer mints.
LEMMA FewerSeeds ==
    ASSUME NEW k \in Nat, NEW m \in Nat, NEW n \in Nat, k * m < k * n + k
    PROVE  m <= n
<1>1. SUFFICES ASSUME m > n PROVE FALSE
  OBVIOUS
<1>2. PICK j \in Nat : m = (n + 1) + j
  <2>1. m - (n + 1) \in Nat /\ m = (n + 1) + (m - (n + 1))
    BY <1>1
  <2> QED
    BY <2>1
<1>3. /\ k * m = k * n + k + k * j
      /\ k * j \in Nat /\ k * n \in Nat
  BY <1>2
<1> QED
  BY <1>3

\* stepASkipped: who mints without being blind has seen that no mint is on its
\* way and that the admin holds no seed, and nobody else takes WFAIR from it.
LEMMA MintsWhenShortKept ==
    ASSUME SeedTypeOK, SeedTypeOK', SeedsStayInHand, MintsWhenShort, [SeedNext]_seedVars
    PROVE  MintsWhenShort'
<1> DEFINE m == Count("mint", "ok")
           p == Count("position", "ok")
<1>1. txs \in Seq(Transaction) /\ txs' \in Seq(Transaction)
  BY DEF SeedTypeOK, Transaction, Chain, TxKind
<1>2. s \in Script /\ s' \in Script
  BY DEF SeedTypeOK, Script, ScriptPc, Chain
<1>3. blind \subseteq blind'
  BY RunTypes, OthersLeaveAdmin, Mining, StepKinds DEF MineStep, seedVars
<1>4. SUFFICES ASSUME "mint" \notin blind'
               PROVE  /\ m' <= p' + 1
                      /\ \A i, j \in Those("mint", "pending")' : i = j
                      /\ Those("mint", "pending")' # {} => m' <= p'
                      /\ s'.pc = "mint" /\ "mint" \notin s'.missed =>
                            m' <= p' /\ Those("mint", "pending")' = {}
  BY DEF MintsWhenShort, In
<1>5. /\ m <= p + 1
      /\ \A i, j \in Those("mint", "pending") : i = j
      /\ Those("mint", "pending") # {} => m <= p
      /\ s.pc = "mint" /\ "mint" \notin s.missed => m <= p /\ Those("mint", "pending") = {}
  BY <1>3, <1>4 DEF MintsWhenShort, In
<1>6. UNCHANGED txs => Those("mint", "pending")' = Those("mint", "pending")
  BY DEF Those
<1>7. CASE RunReads
  <2>1. /\ m' = m /\ p' = p
        /\ Those("mint", "pending")' = Those("mint", "pending")
    BY <1>6, <1>7, ReadsLeaveBase, UnminedCounts
  <2>2. ASSUME s'.pc = "mint", "mint" \notin s'.missed
        PROVE  m <= p /\ Those("mint", "pending") = {}
    <3>1. ReadPre
      BY <1>7, <2>2, ReadsLead
    <3>2. \A c, missed : ReadPreState(c, missed) =>
              s' = [s EXCEPT !.pc = "mint", !.start = c, !.missed = missed] /\ ~AlreadyMinted(c)
      <4>1. Off.pc = "off"
        BY DEF Off
      <4>2. \A c, missed : [s EXCEPT !.pc = "allowance", !.start = c, !.skipped = TRUE,
                                     !.missed = missed].pc = "allowance"
        BY <1>2 DEF Script
      <4> QED
        BY <2>2, <4>1, <4>2 DEF ReadPreState
    <3>3. PICK c : ReadPreState(c, Missed(c))
      BY <3>1 DEF ReadPre
    <3>4. /\ s' = [s EXCEPT !.pc = "mint", !.start = c, !.missed = Missed(c)]
          /\ ~AlreadyMinted(c)
      BY <3>2, <3>3
    <3>5. "mint" \notin Missed(c) /\ ~AlreadyMinted(c)
      <4>1. s'.missed = Missed(c)
        BY <1>2, <3>4 DEF Script
      <4> QED
        BY <2>2, <3>4, <4>1
    <3>6. c.admin = balance[Admin] /\ ~(Count("mint", "pending") > 0)
      BY <3>5 DEF Missed
    <3>7. Those("mint", "pending") = {}
      BY <1>1, <3>6, NoneOrSome
    <3>8. balance[Admin] < Seed
      BY <3>5, <3>6, SeedNumbers DEF AlreadyMinted
    <3>9. m <= p
      <4>1. /\ Seed \in Nat /\ m \in Nat /\ p \in Nat /\ balance[Admin] \in Nat
            /\ Seed * m \in Nat /\ Seed * p \in Nat
        BY SeedNumbers, OneMoreSeed
      <4>2. Seed * m <= balance[Admin] + Seed * p
        BY DEF SeedsStayInHand
      <4> HIDE DEF m, p
      <4>3. Seed * m < Seed * p + Seed
        BY <3>8, <4>1, <4>2
      <4> QED
        BY <4>1, <4>3, FewerSeeds
    <3> QED
      BY <3>7, <3>9
  <2> QED
    BY <1>5, <2>1, <2>2
<1>8. CASE RunSends
  <2>1. PICK kind \in TxKind : In(kind) /\ Submit(kind)
    BY <1>8, SendsSubmit
  <2>2. Those("mint", "pending")' = Those("mint", "pending")
                                      \cup (IF "mint" = kind THEN {Len(txs')} ELSE {})
    BY <1>1, <2>1, Submitted
  <2>3. /\ m' = m /\ p' = p /\ s'.pc \in {"wait", "off"}
        /\ s.pc = "mint" => "mint" \notin s.missed
    BY <1>4, <1>8, UnminedCounts, SendsLead DEF In
  <2>4. CASE kind = "mint"
    <3>1. s.pc = "mint"
      BY <2>1, <2>4 DEF In
    <3>2. Those("mint", "pending")' = {Len(txs')} /\ m <= p
      BY <1>5, <2>2, <2>3, <2>4, <3>1
    <3> QED
      BY <1>5, <2>3, <3>2
  <2>5. CASE kind # "mint"
    BY <1>5, <2>2, <2>3, <2>5
  <2> QED
    BY <2>4, <2>5
<1>9. CASE OthersAct
  <2>1. m' = m /\ p' = p
    BY <1>9, UnminedCounts
  <2> QED
    BY <1>5, <1>6, <1>9, <2>1, OthersLeaveAdmin
<1>10. CASE MineStep
  <2>1. PICK n \in DOMAIN txs : Mine(n) \/ MineReverted(n)
    BY <1>10 DEF MineStep
  <2>2. /\ UNCHANGED s /\ txs[n].status = "pending" /\ DOMAIN txs' = DOMAIN txs
        /\ \A j \in DOMAIN txs \ {n} : txs'[j] = txs[j]
        /\ txs'[n].kind = txs[n].kind /\ txs'[n].status \in {"ok", "reverted"}
    BY <2>1, Mining
  <2>3. Those("mint", "pending")' = Those("mint", "pending") \ {n}
    BY <1>1, <2>2, Decided
  <2>4. CASE txs[n].kind = "mint" /\ m' = m + 1 /\ p' = p
    <3>1. n \in Those("mint", "pending")
      BY <2>2, <2>4 DEF Those
    <3>2. Those("mint", "pending")' = {} /\ m <= p
      BY <1>5, <2>3, <3>1
    <3>3. ~(s.pc = "mint" /\ "mint" \notin s.missed)
      BY <1>5, <3>1
    <3>4. m' <= p' + 1
      BY <2>4, <3>2, SeedNumbers
    <3> QED
      BY <2>2, <3>2, <3>3, <3>4
  <2>5. CASE m' = m /\ p' \in {p, p + 1}
    <3>1. m' <= p' + 1 /\ (m <= p => m' <= p')
      BY <1>5, <2>5, SeedNumbers
    <3> QED
      BY <1>5, <2>2, <2>3, <3>1
  <2> QED
    BY <2>1, <2>4, <2>5, MiningCounts
<1>11. CASE UNCHANGED seedVars
  <2>1. m' = m /\ p' = p /\ UNCHANGED <<s, txs>>
    BY <1>11, UnminedCounts DEF seedVars
  <2> QED
    BY <1>5, <1>6, <2>1
<1> QED
  BY <1>7, <1>8, <1>9, <1>10, <1>11, StepKinds

-----------------------------------------------------------------------------
(***************************************************************************)
(* The theorems about the script.                                          *)
(***************************************************************************)

LEMMA SeedInitInv == SeedInit => SeedIInv
<1>1. SUFFICES ASSUME SeedInit PROVE SeedIInv
  OBVIOUS
<1>2. SeedTypeOK
  BY <1>1, SeedInitTypes
<1>3. /\ txs = <<>> /\ s = Off /\ report = "none" /\ balance[Admin] = 0 /\ Off.pc = "off"
  BY <1>1, WfairAssumption DEF SeedInit, WfairInit, Off
<1>4. \A k, t : Those(k, t) = {} /\ Count(k, t) = 0
  <2>1. \A k, t : Those(k, t) = {}
    BY <1>3 DEF Those
  <2> QED
    BY <2>1, CountsAreNat, FS_EmptySet
<1>5. Seed \in Nat /\ Seed > 0 /\ totalSupply \in Nat /\ Seed * 0 = 0
  <2>1. Seed \in Nat /\ Seed > 0 /\ Seed * 0 = 0
    BY SeedAssumption
  <2>2. totalSupply \in Nat
    BY <1>2, SupplyIsTotal, SupplyIsNat DEF SeedTypeOK, WfairTypeOK
  <2> QED
    BY <2>1, <2>2
<1>6. InNonceOrder /\ WaitsForLast /\ SuccessHasReceipt
  BY <1>3 DEF InNonceOrder, WaitsForLast, SuccessHasReceipt, In
<1>7. MintedIsMore /\ OnePositionPerSeed
  BY <1>3, <1>4, <1>5 DEF MintedIsMore, OnePositionPerSeed
<1>8. SupplyCountsMints
  BY <1>3, <1>4, <1>5 DEF SupplyCountsMints
<1>9. SeedsStayInHand /\ MintsWhenShort
  BY <1>3, <1>4, <1>5 DEF SeedsStayInHand, MintsWhenShort, In
<1> QED
  BY <1>2, <1>6, <1>7, <1>8, <1>9 DEF SeedIInv, SeedInv

LEMMA SeedStepInv == SeedIInv /\ [SeedNext]_seedVars => SeedIInv'
<1>1. SUFFICES ASSUME SeedTypeOK, SeedInv, [SeedNext]_seedVars PROVE SeedTypeOK' /\ SeedInv'
  BY DEF SeedIInv
<1>2. SeedTypeOK'
  BY <1>1, SeedNextTypes
<1>3. /\ InNonceOrder /\ WaitsForLast /\ SuccessHasReceipt /\ MintedIsMore
      /\ OnePositionPerSeed /\ SupplyCountsMints /\ SeedsStayInHand /\ MintsWhenShort
  BY <1>1 DEF SeedInv
<1>4. InNonceOrder' /\ WaitsForLast' /\ SuccessHasReceipt'
  BY <1>1, <1>2, <1>3, NonceOrderKept, WaitingKept, SuccessKept
<1>5. /\ MintedIsMore' /\ OnePositionPerSeed' /\ SupplyCountsMints'
      /\ SeedsStayInHand' /\ MintsWhenShort'
  BY <1>1, <1>2, <1>3, MintedKept, OnePositionKept, SupplyKept, InHandKept, MintsWhenShortKept
<1> QED
  BY <1>2, <1>4, <1>5 DEF SeedInv

THEOREM SeedInvariance == SeedSpec => []SeedIInv
  BY SeedInitInv, SeedStepInv, PTL DEF SeedSpec

\* seed-pool.ts and WFAIR.sol: whatever the accounts, the seed, its prices
\* and the bounds, balances and allowances stay numbers, the tick of the pool
\* one of a price, and the script at one of its awaits.
THEOREM SeedTypeCorrect == SeedSpec => []SeedTypeOK
<1>1. SeedIInv => SeedTypeOK
  BY DEF SeedIInv
<1> QED
  BY <1>1, SeedInvariance, PTL

\* seed-pool.ts:516, the balance that STEP A tests: for any seed, however often
\* and wherever the runs before were cut off, mints, those in the mempool
\* included, outnumber positions by more than one only through a mint that could
\* not know of another one.
THEOREM SeedHeldOnce == SeedSpec => []HeldOnce
<1>1. ASSUME SeedIInv, "mint" \notin blind
      PROVE  Count("mint", "pending") + Count("mint", "ok") <= Count("position", "ok") + 1
  <2> DEFINE way == Those("mint", "pending")
  <2>1. /\ txs \in Seq(Transaction) /\ MintsWhenShort
    BY <1>1 DEF SeedIInv, SeedInv, SeedTypeOK
  <2>2. /\ Count("mint", "ok") \in Nat /\ Count("position", "ok") \in Nat
        /\ Count("mint", "pending") = Cardinality(way)
    BY <2>1, CountsAreNat
  <2>3. CASE way = {}
    <3>1. Cardinality(way) = 0
      BY <2>3, FS_EmptySet
    <3> QED
      BY <1>1, <2>1, <2>2, <3>1 DEF MintsWhenShort
  <2>4. CASE way # {}
    <3>1. PICK i : way = {i}
      BY <1>1, <2>1, <2>4 DEF MintsWhenShort
    <3>2. Cardinality(way) = 1
      BY <3>1, FS_Singleton
    <3>3. Count("mint", "ok") <= Count("position", "ok")
      BY <1>1, <2>1, <2>4 DEF MintsWhenShort
    <3> QED
      BY <2>2, <3>2, <3>3
  <2> QED
    BY <2>3, <2>4
<1>2. SeedIInv => HeldOnce
  BY <1>1 DEF HeldOnce
<1> QED
  BY <1>2, SeedInvariance, PTL

\* seed-pool.ts:861-874, "aborting in case of double-mint": a run that
\* reports success leaves nothing in the mempool, the supply at its receipt
\* was the seed, and unless someone burned WFAIR all runs together have
\* minted the seed once and made one position of it.
THEOREM SuccessIsSeededOnce == SeedSpec => []DoneMeansSeededOnce
<1>1. ASSUME SeedIInv, report = "done"
      PROVE  /\ \A i \in DOMAIN txs : txs[i].status # "pending"
             /\ Last.block.supply = Seed
             /\ "burned" \in others \/ (Count("mint", "ok") = 1 /\ Count("position", "ok") = 1)
  <2>1. /\ SeedTypeOK /\ InNonceOrder /\ SuccessHasReceipt /\ MintedIsMore
        /\ OnePositionPerSeed /\ SupplyCountsMints
    BY <1>1 DEF SeedIInv, SeedInv
  <2>2. /\ txs \in Seq(Transaction) /\ DOMAIN txs = 1..Len(txs) /\ Len(txs) \in Nat
        /\ balance[Admin] \in Nat /\ Seed \in Nat /\ Seed > 0
    <3>1. txs \in Seq(Transaction) /\ balance \in [Account -> Nat]
      BY <2>1 DEF SeedTypeOK, WfairTypeOK
    <3>2. Seed \in Nat /\ Seed > 0
      BY SeedAssumption
    <3> QED
      BY <3>1, <3>2, WfairAssumption
  <2>3. /\ txs # <<>> /\ Last.kind = "position" /\ Last.status = "ok" /\ Last.block.supply = Seed
    BY <1>1, <2>1 DEF SuccessHasReceipt
  <2>4. Len(txs) \in DOMAIN txs
    BY <2>2, <2>3
  <2>5. \A i \in DOMAIN txs : txs[i].status # "pending"
    <3>1. SUFFICES ASSUME NEW i \in DOMAIN txs, txs[i].status = "pending" PROVE FALSE
      OBVIOUS
    <3>2. i = Len(txs) \/ i < Len(txs)
      BY <2>2
    <3> QED
      BY <2>1, <2>3, <2>4, <3>1, <3>2 DEF InNonceOrder, Last
  <2>6. /\ Count("mint", "ok") \in Nat /\ Count("position", "ok") \in Nat
        /\ Count("position", "ok") > 0
    <3>1. Len(txs) \in Those("position", "ok")
      BY <2>3, <2>4 DEF Those, Last
    <3> QED
      BY <2>2, <3>1, CountsAreNat, NoneOrSome
  <2>7. Count("mint", "ok") > 0
    <3>1. Seed * 0 = 0
      BY <2>2
    <3> QED
      BY <2>1, <2>2, <2>6, <3>1 DEF MintedIsMore
  <2>8. ASSUME "burned" \notin others PROVE Count("mint", "ok") <= 1
    <3>1. Seed >= Seed * Count("mint", "ok")
      BY <2>1, <2>3, <2>8 DEF SupplyCountsMints
    <3>2. SUFFICES ASSUME Count("mint", "ok") > 1 PROVE FALSE
      BY <2>6
    <3>3. PICK n \in Nat : Count("mint", "ok") = (n + 1) + 1
      <4>1. Count("mint", "ok") - 2 \in Nat
        BY <2>6, <3>2
      <4>2. Count("mint", "ok") = ((Count("mint", "ok") - 2) + 1) + 1
        BY <2>6
      <4> QED
        BY <4>1, <4>2
    <3>4. /\ Seed * ((n + 1) + 1) = Seed * (n + 1) + Seed
          /\ Seed * (n + 1) = Seed * n + Seed /\ Seed * n \in Nat
      BY <2>2, OneMoreSeed
    <3> QED
      BY <2>2, <3>1, <3>3, <3>4
  <2> QED
    BY <2>1, <2>3, <2>5, <2>6, <2>7, <2>8 DEF OnePositionPerSeed
<1>2. SeedIInv => DoneMeansSeededOnce
  BY <1>1 DEF DoneMeansSeededOnce
<1> QED
  BY <1>2, SeedInvariance, PTL
=============================================================================
