------------------------------- MODULE SeedPool -------------------------------
(***************************************************************************)
(* src/services/bridge/scripts/seed-pool.ts: a founder's script that mints *)
(* Seed WFAIR to the admin, lets the Uniswap position manager take it,     *)
(* creates the WFAIR/USDC pool and mints a position there, WFAIR only.  It *)
(* keeps nothing on disk: what a run knows of earlier runs it reads from   *)
(* Base, where their transactions may still be in the mempool, through a   *)
(* balanced RPC endpoint, one replica of which may be a block behind.      *)
(***************************************************************************)
EXTENDS Wfair, Sequences

CONSTANTS
    Npm, Pool, Holder,  \* the position manager, the pool, everybody else
    Seed,               \* SEED_AMOUNT_WFAIR_RAW
    Dust,               \* bound: what rounding keeps out of a position
    TickSpacing,        \* TICK_SPACING
    TickInit,           \* the tick of PRICE_INIT_E8
    TickLow,            \* of PRICE_RANGE_LOW_USD_E8
    TickHigh,           \* and of PRICE_RANGE_HIGH_USD_E8
    MaxMints,           \* bound: mint transactions sent that do not revert
    MaxMishaps           \* bound: failed calls, kills, stale reads, reverts,
                        \* pauses and steps of others, in all

ASSUME SeedAssumption ==
    /\ {Npm, Pool, Holder} \subseteq Account \ {Admin}
    /\ IsFiniteSet(Account)
    /\ {Seed, Dust, MaxMints, MaxMishaps} \subseteq Nat /\ Dust < Seed
    /\ TickSpacing \in Nat \ {0} /\ {TickInit, TickLow, TickHigh} \subseteq Int

VARIABLES
    tick,     \* slot0.tick of the pool, NoPool before it is created
    txs,      \* the admin's transactions, in nonce order
    before,   \* Base as it was one block ago
    s,        \* the script and its local variables
    report,   \* how the last run ended
    blind,    \* history: what a run did without being able to know better
    others,   \* history: what others did: minted, burned or moved the price
    mishaps    \* what went wrong so far

seedVars == <<wfair, tick, txs, before, s, report, blind, others, mishaps>>

-----------------------------------------------------------------------------
(***************************************************************************)
(* The price range.  The % of JavaScript has the sign of the dividend.     *)
(***************************************************************************)
JsRem(a, b) == IF a >= 0 THEN a % b ELSE -((-a) % b)
Remainder(t, spacing) == JsRem(JsRem(t, spacing) + spacing, spacing)

snapTickDownToSpacing(t, spacing) == t - Remainder(t, spacing)

snapTickUpToSpacing(t, spacing) ==
    IF Remainder(t, spacing) = 0 THEN t + spacing
    ELSE t + (spacing - Remainder(t, spacing))

\* A high price of WFAIR is a low tick, since WFAIR is token1.
tickLower == snapTickDownToSpacing(TickHigh, TickSpacing)
tickUpper == snapTickUpToSpacing(TickLow, TickSpacing)

TicksMakeSense ==
    /\ tickUpper > tickLower
    /\ TickInit >= tickUpper
    /\ JsRem(tickLower, TickSpacing) = 0 /\ JsRem(tickUpper, TickSpacing) = 0

\* The pool takes WFAIR alone as long as its price is below the range.
WfairOnly(t) == t >= tickUpper

amount1Min == (Seed * 99) \div 100

NoPool == -887273   \* below every tick
PriceTicks == {TickInit, tickUpper, tickUpper - 1, tickLower}

\* What the script can read: of a block, or of the latest one.
Chain == [supply : Nat, admin : Nat, allowance : Nat, tick : Int]
Now == [supply |-> totalSupply, admin |-> balance[Admin],
        allowance |-> allowance[Admin][Npm], tick |-> tick]

TxKind == {"mint", "approve", "create", "position"}
Transaction == [kind : TxKind, status : {"pending", "ok", "reverted"}, block : Chain]

(***************************************************************************)
(* pc: off, pre (state), mint, allowance, approve, pool, create, slot0,    *)
(* position, wait (for a receipt).  start is the state read at pre, skipped *)
(* is stepASkipped, missed what start did not show of Base: a mint already *)
(* sent, or the supply there was.                                          *)
(***************************************************************************)
ScriptPc == {"off", "pre", "mint", "allowance", "approve", "pool", "create", "slot0",
             "position", "wait"}
Genesis == [supply |-> 0, admin |-> 0, allowance |-> 0, tick |-> NoPool]
Script == [pc : ScriptPc, start : Chain, skipped : BOOLEAN,
           missed : SUBSET {"mint", "supply"}]
Off == [pc |-> "off", start |-> Genesis, skipped |-> FALSE, missed |-> {}]

SeedTypeOK ==
    /\ WfairTypeOK
    /\ tick \in PriceTicks \union {NoPool}
    /\ txs \in Seq(Transaction)
    /\ before \in Chain
    /\ s \in Script
    /\ report \in {"none", "aborted", "done"}
    /\ blind \in SUBSET {"mint", "position", "supply"}
    /\ others \in SUBSET {"minted", "burned", "moved"}
    /\ mishaps \in 0..MaxMishaps

SeedInit ==
    /\ WfairInit
    /\ tick = NoPool
    /\ txs = <<>>
    /\ before = Genesis
    /\ s = Off
    /\ report = "none"
    /\ blind = {}
    /\ others = {}
    /\ mishaps = 0

Fault == mishaps < MaxMishaps /\ mishaps' = mishaps + 1

base == <<wfair, tick, before>>

In(pc) == s.pc = pc
Goto(pc) == s' = [s EXCEPT !.pc = pc]
End(how) == s' = Off /\ report' = how

\* main().catch: FATAL, exit 1.
Throw == End("aborted")

Count(kind, status) ==
    Cardinality({i \in DOMAIN txs : txs[i].kind = kind /\ txs[i].status = status})

-----------------------------------------------------------------------------
(***************************************************************************)
(* The script up to and with STEP A.                                       *)
(***************************************************************************)

\* Somebody runs the script until a run reports success.
StartRun ==
    /\ In("off") /\ report # "done"
    /\ TicksMakeSense
    /\ Goto("pre")
    /\ UNCHANGED <<base, txs, report, blind, others, mishaps>>

\* Mutant: the amount must be exceeded.
AlreadyMinted_Mutant(c) == c.admin > Seed

AlreadyMinted(c) == c.admin >= Seed

\* Bound: a run that would send one more mint than there are ends here.
Room == Count("mint", "pending") + Count("mint", "ok") < MaxMints

ReadPreState(c, missed) ==
    IF AlreadyMinted(c)
    THEN s' = [s EXCEPT !.pc = "allowance", !.start = c, !.skipped = TRUE, !.missed = missed]
    ELSE s' = IF Room THEN [s EXCEPT !.pc = "mint", !.start = c, !.missed = missed] ELSE Off

Missed(c) ==
    {what \in {"mint", "supply"} :
        IF what = "mint" THEN c.admin # balance[Admin] \/ Count("mint", "pending") > 0
                         ELSE c.supply # totalSupply}

\* The parallel reads, each of the latest block or of the one before it.
ReadPre ==
    /\ In("pre")
    /\ \E of \in [{"supply", "admin", "tick"} -> {Now, before}] :
          LET c == [Now EXCEPT !.supply = of["supply"].supply, !.admin = of["admin"].admin,
                               !.tick = of["tick"].tick]
          IN  /\ ReadPreState(c, Missed(c))
              /\ IF c = Now THEN UNCHANGED mishaps ELSE Fault
    /\ UNCHANGED <<base, txs, report, blind, others>>

Submit(kind) ==
    txs' = Append(txs, [kind |-> kind, status |-> "pending", block |-> Genesis])

\* What a run sends for not having seen Base as it was.
Unseen(kind) ==
    CASE kind = "mint" -> s.missed \cap {"mint"}
      [] kind = "position" -> s.missed \cap {"supply"}
      [] OTHER -> {}

Sent(kind) ==
    /\ Submit(kind)
    /\ Goto("wait")
    /\ blind' = blind \union Unseen(kind)
    /\ UNCHANGED <<base, report, others, mishaps>>

SendMint == In("mint") /\ CanMint(Admin) /\ Sent("mint")

\* Read at the receipt's block.
MintVerified(c) ==
    /\ c.supply - s.start.supply = Seed
    /\ c.admin - s.start.admin = Seed

-----------------------------------------------------------------------------
(***************************************************************************)
(* STEPs B, C and D.                                                       *)
(***************************************************************************)
ReadAllowance ==
    /\ In("allowance")
    /\ \E c \in {Now, before} :
          /\ Goto(IF c.allowance < Seed THEN "approve" ELSE "pool")
          /\ IF c = Now THEN UNCHANGED mishaps ELSE Fault
    /\ UNCHANGED <<base, txs, report, blind, others>>

SendApprove == In("approve") /\ Sent("approve")

\* existingPool, as it was read before STEP A.
LookForPool ==
    /\ In("pool")
    /\ Goto(IF s.start.tick = NoPool THEN "create" ELSE "slot0")
    /\ UNCHANGED <<base, txs, report, blind, others, mishaps>>

SendCreate == In("create") /\ Sent("create")

\* The tick at the latest block, which a replica may name one too low.
ReadSlot0 ==
    /\ In("slot0")
    /\ \E c \in {Now, before} :
          /\ IF c.tick # NoPool /\ WfairOnly(c.tick)
             THEN Goto("position") /\ UNCHANGED report
             ELSE Throw
          /\ IF c = Now THEN UNCHANGED mishaps ELSE Fault
    /\ UNCHANGED <<base, txs, blind, others>>

\* What NPM.mint needs: the pool asks for no USDC, and WFAIR moves.
PositionPossible(amount) ==
    /\ tick # NoPool /\ WfairOnly(tick)
    /\ CanTransferFrom(Npm, Admin, amount)
    /\ amount >= amount1Min

\* simulateContract, then writeContract.
SendPosition == In("position") /\ PositionPossible(Seed) /\ Sent("position")

\* The gas estimate or the simulation shows a revert.
SendRefused ==
    /\ \/ In("mint") /\ ~CanMint(Admin)
       \/ In("position") /\ ~PositionPossible(Seed)
    /\ Throw
    /\ UNCHANGED <<base, txs, blind, others, mishaps>>

\* What a killed run had sent, and nobody will know the outcome of.
Cut(kind) == {kind} \cap {"position"}

\* The answer of writeContract is lost.
SendUnanswered ==
    \E kind \in TxKind :
        /\ In(kind)
        /\ kind = "mint" => CanMint(Admin)
        /\ kind = "position" => PositionPossible(Seed)
        /\ Fault
        /\ Submit(kind)
        /\ Throw
        /\ blind' = blind \union Unseen(kind) \union Cut(kind)
        /\ UNCHANGED <<base, others>>

-----------------------------------------------------------------------------
(***************************************************************************)
(* Receipts, and what follows them.                                        *)
(***************************************************************************)
Last == txs[Len(txs)]
Receipt(kind) == In("wait") /\ Last.kind = kind /\ Last.status = "ok"

MintReceipt ==
    /\ Receipt("mint")
    /\ IF MintVerified(Last.block) THEN Goto("allowance") /\ UNCHANGED report ELSE Throw
    /\ UNCHANGED <<base, txs, blind, others, mishaps>>

ApproveReceipt ==
    /\ Receipt("approve")
    /\ IF Last.block.allowance >= Seed THEN Goto("pool") /\ UNCHANGED report ELSE Throw
    /\ UNCHANGED <<base, txs, blind, others, mishaps>>

CreateReceipt ==
    /\ Receipt("create")
    /\ IF Last.block.tick # NoPool THEN Goto("slot0") /\ UNCHANGED report ELSE Throw
    /\ UNCHANGED <<base, txs, blind, others, mishaps>>

\* Mutant: STEP A is taken to have minted.
ExpectedDelta_Mutant == Seed

ExpectedDelta == IF s.skipped THEN 0 ELSE Seed

\* Mutant: the last check, of the whole supply, is gone.
SupplyVerified_Mutant(c) == c.supply - s.start.supply = ExpectedDelta

SupplyVerified(c) ==
    /\ c.supply - s.start.supply = ExpectedDelta
    /\ c.supply = Seed

\* STEP E, whose checks of the amounts NPM.mint already enforces, and the
\* verification of the state at the receipt's block.
PositionReceipt ==
    /\ Receipt("position")
    /\ End(IF SupplyVerified(Last.block) THEN "done" ELSE "aborted")
    /\ UNCHANGED <<base, txs, blind, others, mishaps>>

RevertedReceipt ==
    /\ In("wait") /\ Last.status = "reverted"
    /\ Throw
    /\ UNCHANGED <<base, txs, blind, others, mishaps>>

\* A call rejects, the receipt does not come in time, or the run is killed.
Abort ==
    /\ ~In("off") /\ Fault
    /\ Throw
    /\ blind' = IF In("wait") THEN blind \union Cut(Last.kind) ELSE blind
    /\ UNCHANGED <<base, txs, others>>

-----------------------------------------------------------------------------
(***************************************************************************)
(* Base.                                                                   *)
(***************************************************************************)
NewBlock == before' = Now

Executed(kind) ==
    CASE kind = "mint" -> Mint(Admin, Admin, Seed) /\ UNCHANGED tick
      [] kind = "approve" -> Approve(Admin, Npm, Seed) /\ UNCHANGED tick
      [] kind = "create" -> /\ tick' = IF tick = NoPool THEN TickInit ELSE tick
                            /\ UNCHANGED wfair
      [] kind = "position" -> /\ \E dust \in 0..Dust :
                                    /\ PositionPossible(Seed - dust)
                                    /\ TransferFrom(Npm, Admin, Pool, Seed - dust)
                              /\ UNCHANGED tick

\* Whether the call succeeds when its turn comes.
WouldSucceed(kind) ==
    CASE kind = "mint" -> CanMint(Admin)
      [] kind = "position" -> PositionPossible(Seed)
      [] OTHER -> TRUE

IsNext(i) ==
    i \in DOMAIN txs /\ txs[i].status = "pending"
      /\ \A j \in 1..(i - 1) : txs[j].status # "pending"

Mine(i) ==
    /\ IsNext(i)
    /\ NewBlock
    /\ IF WouldSucceed(txs[i].kind)
       THEN /\ Executed(txs[i].kind)
            /\ txs' = [txs EXCEPT ![i].status = "ok", ![i].block = Now']
       ELSE /\ txs' = [txs EXCEPT ![i].status = "reverted"]
            /\ UNCHANGED <<wfair, tick>>
    /\ UNCHANGED <<s, report, blind, others, mishaps>>

\* The deadline of a position has passed, or gas ran out.
MineReverted(i) ==
    /\ IsNext(i) /\ Fault /\ NewBlock
    /\ txs' = [txs EXCEPT ![i].status = "reverted"]
    /\ UNCHANGED <<wfair, tick, s, report, blind, others>>

\* Nothing is modelled any more once a run has reported success.
Disturb(how) ==
    /\ report # "done" /\ Fault /\ NewBlock
    /\ others' = others \union {how}
    /\ UNCHANGED <<txs, s, report, blind>>

\* The bridge mints for a deposit.
DepositMinted == Disturb("minted") /\ Mint(Minter, Holder, 1) /\ UNCHANGED tick

\* Someone who bought WFAIR burns it, through the bridge or not.
HolderBurns ==
    /\ Disturb("burned") /\ balance[Holder] > 0
    /\ BridgeBurn(Holder, balance[Holder]) \/ Burn(Holder, balance[Holder])
    /\ UNCHANGED tick

\* Someone else creates the pool, at any price.
PoolCreated ==
    /\ Disturb("moved") /\ tick = NoPool
    /\ tick' \in PriceTicks
    /\ UNCHANGED wfair

\* A swap moves the price: with a position in the range it buys some of the
\* WFAIR in it, or all, and an empty pool's price moves for nothing.
PriceMoves ==
    /\ Disturb("moved") /\ tick # NoPool
    /\ tick' \in PriceTicks \ {tick}
    /\ IF balance[Pool] = 0 \/ tick' >= tickUpper THEN UNCHANGED wfair
       ELSE \E bought \in {1, balance[Pool]} : Transfer(Pool, Holder, bought)

PauseWfair ==
    /\ report # "done" /\ Fault /\ NewBlock
    /\ Pause(Admin)
    /\ UNCHANGED <<tick, txs, s, report, blind, others>>

UnpauseWfair ==
    /\ NewBlock /\ Unpause(Admin)
    /\ UNCHANGED <<tick, txs, s, report, blind, others, mishaps>>

ScriptStep ==
    \/ ReadPre
    \/ SendMint
    \/ ReadAllowance
    \/ SendApprove
    \/ LookForPool
    \/ SendCreate
    \/ ReadSlot0
    \/ SendPosition
    \/ SendRefused
    \/ MintReceipt
    \/ ApproveReceipt
    \/ CreateReceipt
    \/ PositionReceipt
    \/ RevertedReceipt

MineNext == \E i \in DOMAIN txs : Mine(i)

SeedNext ==
    \/ StartRun
    \/ ScriptStep
    \/ SendUnanswered
    \/ Abort
    \/ MineNext
    \/ \E i \in DOMAIN txs : MineReverted(i)
    \/ DepositMinted
    \/ HolderBurns
    \/ PoolCreated
    \/ PriceMoves
    \/ PauseWfair
    \/ UnpauseWfair

SeedSpec == SeedInit /\ [][SeedNext]_seedVars

\* A run goes on, the founder runs the script again until it succeeds, Base
\* mines what is in the mempool and the admin ends a pause.
FairSeedSpec ==
    /\ SeedSpec
    /\ WF_seedVars(ScriptStep)
    /\ WF_seedVars(StartRun)
    /\ WF_seedVars(MineNext)
    /\ WF_seedVars(UnpauseWfair)

-----------------------------------------------------------------------------
(***************************************************************************)
(* Properties.                                                             *)
(***************************************************************************)

\* "aborting in case of double-mint": a run that reports success stands at
\* the end of exactly one mint of the seed and one position, over all runs,
\* with nothing left in the mempool and nobody else's WFAIR minted before.
\* Only WFAIR burned in between can hide a second mint from that check.
DoneMeansSeededOnce ==
    report = "done" =>
        /\ \A i \in DOMAIN txs : txs[i].status # "pending"
        /\ Last.block.supply = Seed
        /\ "burned" \in others \/ (Count("mint", "ok") = 1 /\ Count("position", "ok") = 1)

\* A seed is minted, beyond the first, only when a position has taken the one
\* before it, whatever became of the runs, or by a run that could not see the
\* mint of an earlier one: the balance that STEP A tests is as good as that.
HeldOnce ==
    \/ Count("mint", "pending") + Count("mint", "ok") <= Count("position", "ok") + 1
    \/ "mint" \in blind

\* A position went through that its run could not confirm: it was cut off, or
\* compared the supply with one it had read too old.
PositionUnnoticed ==
    blind \cap {"position", "supply"} # {} /\ Count("position", "ok") > 0

\* Two runs, or more, are enough: wherever a run was interrupted, a later one
\* completes the seeding, unless others disturbed it, a mint was repeated
\* blindly, or a position went through unnoticed.
EventuallySeeded ==
    <>(report = "done" \/ "mint" \in blind \/ PositionUnnoticed \/ others # {})
=============================================================================
