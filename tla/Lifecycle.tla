------------------------------ MODULE Lifecycle -------------------------------
(***************************************************************************)
(* One process of the bridge from boot to exit: main and shutdown of       *)
(* index.ts, the watcher loops with their sleep, the queue workers of      *)
(* orchestrator.ts and the API's requests, over the connections they all   *)
(* share.  systemd (Restart=always) starts the next process.               *)
(***************************************************************************)
EXTENDS Naturals

CONSTANTS
    Loop,          \* the watcher loops that are enabled
    FairWatcher,   \* the one that loads the deposit addresses before it loops
    Buyback,       \* the one that asks the node about its destinations first
    Queue,         \* the queues, one worker each
    MaxRequests,   \* bound: requests whose handler runs at a time
    MaxUpsets      \* bound: signals, kills, and calls that fail during a boot

ASSUME LifecycleAssumption ==
    /\ {FairWatcher, Buyback} \subseteq Loop
    /\ {MaxRequests, MaxUpsets} \subseteq Nat

VARIABLES
    stage,      \* what main or shutdown awaits
    aborted,    \* controller.signal.aborted
    loop,       \* loop[w]: where the async function of loop w is
    worker,     \* worker[q]: the BullMQ worker of queue q
    requests,   \* handlers with a client that waits
    orphans,    \* handlers whose client, or the proxy, has given up
    open,       \* the connections in use: "mongo", "redis", "queues"
    upsets

vars == <<stage, aborted, loop, worker, requests, orphans, open, upsets>>

Boot == {"mongo", "redis", "api"}
Stop == {"server", "loops", "workers", "queues", "disconnect", "quit"}

TypeOK ==
    /\ stage \in Boot \union Stop \union {"down", "up"}
    /\ aborted \in BOOLEAN
    /\ loop \in [Loop -> {"off", "boot", "tick", "sleep", "gone"}]
    /\ worker \in [Queue -> {"off", "idle", "busy", "closing", "closed"}]
    /\ {requests, orphans} \subseteq 0..MaxRequests
    /\ open \subseteq {"mongo", "redis", "queues"}
    /\ upsets \in 0..MaxUpsets

Init ==
    /\ stage = "down" /\ aborted = FALSE
    /\ loop = [w \in Loop |-> "off"] /\ worker = [q \in Queue |-> "off"]
    /\ requests = 0 /\ orphans = 0
    /\ open = {}
    /\ upsets = 0

Upset == upsets < MaxUpsets /\ upsets' = upsets + 1

\* Whatever ends the process takes all of it along.
Dies ==
    /\ stage' = "down" /\ aborted' = FALSE
    /\ loop' = [w \in Loop |-> "off"] /\ worker' = [q \in Queue |-> "off"]
    /\ requests' = 0 /\ orphans' = 0
    /\ open' = {}

-----------------------------------------------------------------------------
(***************************************************************************)
(* main.                                                                   *)
(***************************************************************************)
SystemdStarts ==
    /\ stage = "down"
    /\ stage' = "mongo"
    /\ UNCHANGED <<aborted, loop, worker, requests, orphans, open, upsets>>

\* connectMongo; what its migrations cannot do is only logged.
ConnectMongo ==
    /\ stage = "mongo"
    /\ stage' = "redis" /\ open' = {"mongo"}
    /\ UNCHANGED <<aborted, loop, worker, requests, orphans, upsets>>

PingRedis ==
    /\ stage = "redis"
    /\ stage' = "api" /\ open' = open \union {"redis"}
    /\ UNCHANGED <<aborted, loop, worker, requests, orphans, upsets>>

\* Once the API listens, the rest of main awaits nothing: the queues, every
\* loop up to its first await, the workers and the signal handlers.
Serve ==
    /\ stage = "api"
    /\ stage' = "up" /\ open' = open \union {"queues"}
    /\ loop' = [w \in Loop |-> IF w \in {FairWatcher, Buyback} THEN "boot" ELSE "tick"]
    /\ worker' = [q \in Queue |-> "idle"]
    /\ UNCHANGED <<aborted, requests, orphans, upsets>>

\* main().catch, or the server's error event: exit code 1.  A ping without
\* Redis fails nothing, it waits.
BootFails ==
    /\ stage \in {"mongo", "api"}
    /\ Upset
    /\ Dies

\* A crash, SIGKILL, or a signal before its handler is there.
Killed ==
    /\ stage # "down"
    /\ Upset
    /\ Dies

-----------------------------------------------------------------------------
(***************************************************************************)
(* The loops.  while (!signal.aborted) { tick; await sleep(ms, signal) }   *)
(***************************************************************************)
OnlyLoops == UNCHANGED <<stage, aborted, worker, requests, orphans, open>>

\* Mutant: while (true).
Again_Mutant(w) == "tick"

Again(w) == IF aborted THEN "gone" ELSE "tick"

\* getKnownDepositAddressSet, or validateDestinations, has answered.
LoopBoots(w) ==
    /\ loop[w] = "boot"
    /\ loop' = [loop EXCEPT ![w] = Again(w)]
    /\ OnlyLoops /\ UNCHANGED upsets

\* The node did not answer validateaddress: the worker returns, for good.
BuybackRefuses ==
    /\ loop[Buyback] = "boot"
    /\ Upset
    /\ loop' = [loop EXCEPT ![Buyback] = "gone"]
    /\ OnlyLoops

\* The promise of the fair-watcher is rejected and, until shutdown gets to
\* allSettled, nothing handles that: the runtime may end the process or not.
FairWatcherRejects ==
    /\ loop[FairWatcher] = "boot"
    /\ Upset
    /\ \/ stage \in {"up", "server"} /\ Dies
       \/ loop' = [loop EXCEPT ![FairWatcher] = "gone"] /\ OnlyLoops

\* Whether its calls succeed or throw, a tick is followed by the sleep.
TickEnds(w) ==
    /\ loop[w] = "tick"
    /\ loop' = [loop EXCEPT ![w] = "sleep"]
    /\ OnlyLoops /\ UNCHANGED upsets

\* The timer of sleep.
SleepElapses(w) ==
    /\ loop[w] = "sleep"
    /\ loop' = [loop EXCEPT ![w] = Again(w)]
    /\ OnlyLoops /\ UNCHANGED upsets

-----------------------------------------------------------------------------
(***************************************************************************)
(* The queue workers and the requests.                                     *)
(***************************************************************************)
JobStarts(q) ==
    /\ worker[q] = "idle"
    /\ worker' = [worker EXCEPT ![q] = "busy"]
    /\ UNCHANGED <<stage, aborted, loop, requests, orphans, open, upsets>>

JobEnds(q) ==
    /\ worker[q] \in {"busy", "closing"}
    /\ worker' = [worker EXCEPT ![q] = IF @ = "busy" THEN "idle" ELSE "closed"]
    /\ UNCHANGED <<stage, aborted, loop, requests, orphans, open, upsets>>

\* The server accepts until server.close.
RequestArrives ==
    /\ stage = "up" /\ requests + orphans < MaxRequests
    /\ requests' = requests + 1
    /\ UNCHANGED <<stage, aborted, loop, worker, orphans, open, upsets>>

RequestEnds ==
    /\ requests > 0
    /\ requests' = requests - 1
    /\ UNCHANGED <<stage, aborted, loop, worker, orphans, open, upsets>>

\* The connection closes, the handler (an admin trigger awaits a whole tick)
\* goes on.
ClientGivesUp ==
    /\ requests > 0
    /\ Upset
    /\ requests' = requests - 1 /\ orphans' = orphans + 1
    /\ UNCHANGED <<stage, aborted, loop, worker, open>>

OrphanEnds ==
    /\ orphans > 0
    /\ orphans' = orphans - 1
    /\ UNCHANGED <<stage, aborted, loop, worker, requests, open, upsets>>

-----------------------------------------------------------------------------
(***************************************************************************)
(* shutdown, one action per await.                                         *)
(***************************************************************************)

\* SIGINT or SIGTERM; a second one finds shuttingDown.  abort() runs the
\* listeners: a sleeping loop resolves, every worker starts to close.
Signal ==
    /\ stage = "up"
    /\ Upset
    /\ stage' = "server" /\ aborted' = TRUE
    /\ loop' = [w \in Loop |-> IF loop[w] = "sleep" THEN "gone" ELSE loop[w]]
    /\ worker' = [q \in Queue |-> IF worker[q] = "busy" THEN "closing" ELSE "closed"]
    /\ UNCHANGED <<requests, orphans, open>>

Proceed(next) ==
    /\ stage' = next
    /\ UNCHANGED <<aborted, loop, worker, requests, orphans, upsets>>

\* server.close waits for the connections.
ServerClosed ==
    /\ stage = "server" /\ requests = 0
    /\ Proceed("loops") /\ UNCHANGED open

\* Mutant: the watchers' promises are dropped.
LoopsSettled_Mutant == TRUE

LoopsSettled == \A w \in Loop : loop[w] = "gone"

WatchersSettled ==
    /\ stage = "loops" /\ LoopsSettled
    /\ Proceed("workers") /\ UNCHANGED open

WorkersClosed ==
    /\ stage = "workers" /\ \A q \in Queue : worker[q] = "closed"
    /\ Proceed("queues") /\ UNCHANGED open

QueuesClosed ==
    /\ stage = "queues"
    /\ Proceed("disconnect") /\ open' = open \ {"queues"}

Disconnected ==
    /\ stage = "disconnect"
    /\ Proceed("quit") /\ open' = open \ {"mongo"}

\* redis.quit, then process.exit(0).
Exits ==
    /\ stage = "quit"
    /\ Dies
    /\ UNCHANGED upsets

-----------------------------------------------------------------------------
Main == SystemdStarts \/ ConnectMongo \/ PingRedis \/ Serve
Shutdown ==
    \/ ServerClosed \/ WatchersSettled \/ WorkersClosed
    \/ QueuesClosed \/ Disconnected \/ Exits
LoopStep(w) == LoopBoots(w) \/ TickEnds(w) \/ SleepElapses(w)

Next ==
    \/ Main \/ BootFails \/ Killed \/ Signal \/ Shutdown
    \/ \E w \in Loop : LoopStep(w)
    \/ BuybackRefuses \/ FairWatcherRejects
    \/ \E q \in Queue : JobStarts(q) \/ JobEnds(q)
    \/ RequestArrives \/ RequestEnds \/ ClientGivesUp \/ OrphanEnds

Spec == Init /\ [][Next]_vars

\* Redis and MongoDB are reachable again in the end, timers fire, and every
\* tick, job and handler ends: the calls in them answer or throw.
FairSpec ==
    /\ Spec
    /\ WF_vars(Main) /\ WF_vars(Shutdown)
    /\ \A w \in Loop : WF_vars(LoopStep(w))
    /\ \A q \in Queue : WF_vars(JobEnds(q))
    /\ WF_vars(RequestEnds) /\ WF_vars(OrphanEnds)

-----------------------------------------------------------------------------
(***************************************************************************)
(* Properties.                                                             *)
(***************************************************************************)
Working ==
    \/ \E w \in Loop : loop[w] \in {"boot", "tick"}
    \/ \E q \in Queue : worker[q] \in {"busy", "closing"}
    \/ requests > 0

\* index.ts:66-85.  Whatever a signal interrupts, no tick, job or request
\* that is still running has lost MongoDB, Redis or a queue under it: a
\* payment it has made can still be put on file.  The one exception is a
\* handler whose client has given up: server.close does not wait for it, so
\* an admin trigger can be cut off between its payment and its record.
ConnectionsOutliveWork == Working => open = {"mongo", "redis", "queues"}

\* The loop has returned in a process that is not stopping.
Refused(w) == stage = "up" /\ loop[w] = "gone"

\* index.ts and the loops.  However often the process is signalled, killed or
\* fails to boot, a stop ends without SIGKILL, the next process gets to serve,
\* its workers take jobs and each loop ticks again, unless that loop gave up
\* while it started: the buyback worker does so for one validateaddress
\* without an answer, although its destinations are valid.
ServesAgain ==
    /\ []<>(stage = "up")
    /\ \A q \in Queue : []<>(worker[q] = "idle")
    /\ \A w \in Loop : []<>(loop[w] = "tick" \/ Refused(w))

\* masternode-reward-worker.ts:576, "Resolves once `signal` is aborted".  What
\* a stop waits for is bounded: a loop that does not tick at the abort, or no
\* longer, never ticks again in this process.  It may still sleep, and through
\* its whole interval, since sleep does not look at signal.aborted.
NoTickAfterAbort ==
    [][\A w \in Loop : aborted /\ loop[w] # "tick" => loop'[w] # "tick"]_vars
=============================================================================
