----------------------------- MODULE DepositMint ------------------------------
(***************************************************************************)
(* The deposit direction of the bridge, FAIR paid on FairCoin to WFAIR     *)
(* minted on Base: the deposit API, the fair-watcher and the mint worker   *)
(* composed over MongoDB, Redis and the two chains, in a process that is   *)
(* stopped, killed and restarted (index.ts, systemd's Restart=always).     *)
(***************************************************************************)
EXTENDS FairWatcher, MintSigner

CONSTANTS
    AuthModes,     \* values of MINT_AUTH_MODE an operator may deploy with
    MaxSwitches    \* bound: restarts under another one

ASSUME ProcessAssumption == AuthModes \subseteq AuthMode /\ MaxSwitches \in Nat

VARIABLE switches    \* restarts under another MINT_AUTH_MODE so far

chainVars == <<tip, height>>
deployment == <<auth, switches>>

vars == <<intent, row, job, known, mode, upsets, tx, supply, chainVars,
          watcherVars, signerVars, deployment, paused>>

TypeOK ==
    /\ SharedTypeOK
    /\ WatcherTypeOK
    /\ SignerTypeOK
    /\ switches \in 0..MaxSwitches

Init ==
    /\ SharedInit
    /\ WatcherInit
    /\ SignerInit
    /\ auth \in AuthModes
    /\ switches = 0

-----------------------------------------------------------------------------
(***************************************************************************)
(* The process.                                                            *)
(***************************************************************************)

\* A kill loses everything the process only had in memory; a rejection of
\* getKnownDepositAddressSet, outside every catch, ends the process too.
Crash ==
    /\ mode # "down" /\ Fault
    /\ mode' = "down"
    /\ intent' = [a \in Addr |-> IF intent[a].status = "allocated"
                                 THEN [intent[a] EXCEPT !.status = "dropped"]
                                 ELSE intent[a]]
    /\ known' = {}
    /\ f' = FOff
    /\ m' = MOff
    /\ lost' = [d \in Vout |-> Forgotten(d)]
    /\ UNCHANGED <<row, job, tx, supply, chainVars, cursor, origin, slip,
                   deployment, safeTx, paused>>

\* SIGTERM: controller.abort(); the loops and workers wind down by themselves.
Stop ==
    /\ mode = "up" /\ Fault
    /\ mode' = "stopping"
    /\ UNCHANGED <<intent, row, job, known, tx, supply, chainVars,
                   watcherVars, signerVars, deployment, paused>>

\* shutdown has awaited the requests, the watchers, then the workers.
Exit ==
    /\ mode = "stopping" /\ f.pc = "idle" /\ m.pc = "idle"
    /\ \A a \in Addr : intent[a].status # "allocated"
    /\ mode' = "down"
    /\ known' = {}
    /\ f' = FOff
    /\ m' = MOff
    /\ UNCHANGED <<intent, row, job, upsets, tx, supply, chainVars, cursor, origin,
                   slip, deployment, safeTx, paused, lost>>

\* The operator may have put another MINT_AUTH_MODE into .env.
SwitchMode ==
    /\ switches < MaxSwitches /\ switches' = switches + 1
    /\ auth' \in AuthModes \ {auth}
    /\ Fault

Start ==
    /\ mode = "down"
    /\ mode' = "up"
    /\ f' = FBlank
    /\ m' = MIdle
    /\ SwitchMode \/ UNCHANGED <<deployment, upsets>>
    /\ UNCHANGED <<intent, row, job, known, tx, supply, chainVars, cursor,
                   origin, slip, safeTx, paused, lost>>

-----------------------------------------------------------------------------
(***************************************************************************)
(* The chains, the depositors, the operator and time.                      *)
(***************************************************************************)

\* An address is paid only after its intent was answered, any number of times.
Payable(d) == height[d] = 0 /\ intent[VoutLog[d].addr].status \in {"open", "used"}

NewBlock ==
    /\ tip < MaxTip
    /\ tip' = tip + 1
    /\ \E S \in SUBSET {d \in Vout : Payable(d)} :
          height' = [d \in Vout |-> IF d \in S THEN tip + 1 ELSE height[d]]
    /\ UNCHANGED <<intent, row, job, known, mode, upsets, tx, supply, watcherVars,
                   signerVars, deployment, paused>>

\* A transaction of the bridge is mined, and reverts in a paused contract.
Mine(d) ==
    /\ \E i \in DOMAIN tx[d] : Mined(d, i, IF paused THEN "reverted" ELSE "success")
    /\ UNCHANGED <<intent, row, job, known, mode, upsets, chainVars, watcherVars,
                   signerVars, deployment, paused>>

SetPaused(flag) ==
    /\ paused # flag
    /\ paused' = flag
    /\ IF flag THEN Fault ELSE UNCHANGED upsets
    /\ UNCHANGED <<intent, row, job, known, mode, tx, supply, chainVars,
                   watcherVars, signerVars, deployment>>

\* Holders take all the WFAIR back to FairCoin.
BurnAll ==
    /\ supply > 0 /\ ~paused
    /\ Fault
    /\ supply' = 0
    /\ UNCHANGED <<intent, row, job, known, mode, tx, chainVars, watcherVars,
                   signerVars, deployment, paused>>

\* Time passes for every document alike.
Older(age) == IF age < Day THEN age + 1 ELSE age

Tick ==
    /\ intent' = [a \in Addr |-> IF Pending(a)
                                 THEN [intent[a] EXCEPT !.age = Older(@)]
                                 ELSE intent[a]]
    /\ row' = [d \in Vout |-> IF Exists(d)
                              THEN [row[d] EXCEPT !.age = Older(@), !.since = Older(@)]
                              ELSE row[d]]
    /\ UNCHANGED <<job, known, mode, upsets, tx, supply, chainVars, watcherVars,
                   signerVars, deployment, paused>>

-----------------------------------------------------------------------------
AroundApi == UNCHANGED <<mode, chainVars, watcherVars, signerVars, deployment, paused>>

AnswerIntent(a) == (CreateIntent(a) \/ IntentFails(a)) /\ AroundApi

ApiNext(a) ==
    \/ AllocateAddress(a) /\ AroundApi
    \/ AnswerIntent(a)

WatcherNext ==
    /\ WatcherStep
    /\ UNCHANGED <<mode, chainVars, signerVars, deployment, paused>>

\* A deposit is settled after the TVL check read a supply without its mint
\* and before it reads the deposits in flight.
SlipsBy(d) ==
    /\ row[d].status = "MINTING" /\ row'[d].status = "MINTED"
    /\ f.supply \in 0..(supply - 1) /\ f.inflight = -1

AroundSigner(d) ==
    /\ f' = IF SlipsBy(d) THEN [f EXCEPT !.missed = @ + MintWei(d)] ELSE f
    /\ UNCHANGED <<intent, known, mode, chainVars, cursor, origin, slip, deployment,
                   paused>>

SignerNext(d) == SignerStep(d) /\ AroundSigner(d)

Next ==
    \/ \E a \in Addr : ApiNext(a)
    \/ WatcherNext
    \/ \E d \in Vout : SignerNext(d)
    \/ Crash
    \/ Stop
    \/ Exit
    \/ Start
    \/ NewBlock
    \/ \E d \in Vout : Mine(d)
    \/ \E flag \in BOOLEAN : SetPaused(flag)
    \/ BurnAll
    \/ Tick

Spec == Init /\ [][Next]_vars


-----------------------------------------------------------------------------
(***************************************************************************)
(* Safety.                                                                 *)
(***************************************************************************)
Filed(d) == IF row[d].hash # 0 THEN 1 ELSE 0
InHand(d) == IF At(d, "record") THEN 1 ELSE 0
BySafe(d) == IF safeTx[d] = "executed" THEN 1 ELSE 0

\* Every mint sent for a deposit is the one whose hash is on file, the one
\* signDirectEoa holds between writeContract and updateOne, the one the Safe
\* executed, or one the service forgot through a kill or a failed call: over
\* any number of retries signMint adds no duplicate of its own.  Of the two
\* modes only one mints a deposit, until the process is restarted under the
\* other: signMint then looks at that mode's identifier alone.
MintsAccountedFor ==
    \A d \in Vout :
        /\ Len(tx[d]) = lost[d] + Filed(d) + InHand(d) + BySafe(d)
        /\ Filed(d) + InHand(d) + BySafe(d) <= 1 + switches

\* WFAIR is minted only for an output buried under the required
\* confirmations that processBlock admitted, and MINTED is written only when
\* the transaction on file succeeded, whichever transaction was mined when.
MintsAreBacked ==
    \A d \in Vout :
        /\ tx[d] # <<>> =>
              /\ height[d] > 0 /\ height[d] + FairConfirmations <= tip
              /\ Exists(d) /\ VoutSats(d) >= MinSats
        /\ row[d].status = "MINTED" => row[d].hash # 0 /\ Receipt(d) = "success"

\* The supply and the mints still to come stay within MAX_TVL_FAIR, apart
\* from mints beside the one a deposit is owed and from mints settled between
\* the two reads of the TVL check: neither the order in which Promise.all's
\* reads return nor the signer working meanwhile opens another gap.
Successes(d) == {i \in DOMAIN tx[d] : tx[d][i] = "success"}
Owed(d) == IF row[d].status \in {"CONFIRMED", "MINTING", "MINTED"} THEN 1 ELSE 0
Duplicated(d) ==
    LET n == Cardinality(Successes(d))
    IN  MintWei(d) * (IF n > Owed(d) THEN n - Owed(d) ELSE 0)
Outstanding ==
    {d \in Vout : row[d].status \in {"CONFIRMED", "MINTING"} /\ Successes(d) = {}}

TvlBounded ==
    supply + MapThenSumSet(MintWei, Outstanding)
        <= MaxTvl + slip + MapThenSumSet(Duplicated, Vout)

\* The cursor never passes an output to an address the API gave out without
\* a document for it: not through kills, SIGTERM in the middle of a scan,
\* failed ticks, or a reload of the address set after a restart.
DepositsCovered ==
    \A d \in Vout : height[d] \in (origin + 1)..cursor => Exists(d)

\* What a day admits for a Base address stays under the daily cap, but for
\* the outputs that took the document of an intent opened a day before: of
\* those there is one per deposit address at most, and each is under the cap
\* by itself.  Reads before writes, documents that fail, and re-used
\* addresses open no other gap.
DailyCapHolds ==
    \A d \in Vout :
        LET late == Backdated(OwnerOf(d))
        IN  /\ MapThenSumSet(VoutSats, AdmittedToday(OwnerOf(d)) \ late) <= DailyCap
            /\ \A e \in late : VoutSats(e) <= DailyCap
            /\ \A e, g \in late : VoutLog[e].addr = VoutLog[g].addr => e = g

\* The mint pipeline keeps the promise of PayoutLedger as long as the
\* process is not restarted under another MINT_AUTH_MODE: a mint is sent only
\* while no hash is on file, MINTED only with one, FAILED without one or
\* with one that reverted, and all of it for good.
Ledger == INSTANCE PayoutLedger WITH
    Liability <- Vout,
    Bounces <- TRUE,
    paid <- [d \in Vout |-> Len(tx[d])],
    filed <- [d \in Vout |-> row[d].hash],
    state <- [d \in Vout |-> CASE row[d].status = "MINTED" -> "settled"
                               [] row[d].status = "FAILED" -> "void"
                               [] OTHER -> "open"]

MintIsLedger == Ledger!LedgerSpec

-----------------------------------------------------------------------------
(***************************************************************************)
(* Liveness.  systemd restarts the process, requests are answered, the     *)
(* loops and the worker run as long as it is up, transactions are mined    *)
(* and Safe signers act; kills and failed calls are never fair, and their  *)
(* bound makes them finite.                                                *)
(***************************************************************************)
Fairness ==
    /\ \A a \in Addr : WF_vars(AnswerIntent(a))
    /\ WF_vars(WatcherNext)
    /\ \A d \in Vout : WF_vars(SignerProgress(d) /\ AroundSigner(d))
    /\ \A d \in Vout : WF_vars(ExecuteSafe(d) /\ AroundSigner(d))
    /\ \A d \in Vout : WF_vars(JobStalls(d) /\ AroundSigner(d))
    /\ \A d \in Vout : WF_vars(Mine(d))
    /\ WF_vars(Exit)
    /\ WF_vars(Start)
    /\ WF_vars(NewBlock)
    /\ WF_vars(Tick)

FairSpec == Spec /\ Fairness

\* Every confirmed output to an address the API gave out ends as a minted or
\* refused deposit, in the hands of the Safe, or as a job out of attempts that
\* an operator sees in the failed set: a kill between the confirmation and
\* queue.add, between the broadcast and its receipt, or between the write of
\* the Safe's hash and the proposal, does not leave it waiting for ever.
DepositSettled(d) ==
    \/ row[d].status \in {"MINTED", "FAILED"}
    \/ safeTx[d] # "none"
    \/ job[d].state = "failed"

EveryDepositSettles ==
    \A d \in Vout :
        (/\ cursor # -1 /\ height[d] > origin
         /\ height[d] + FairConfirmations <= tip) ~> DepositSettled(d)
=============================================================================
