-------------------------------- MODULE Wfair --------------------------------
(***************************************************************************)
(* src/contracts/src/WFAIR.sol: the WFAIR token on Base.  One operator per *)
(* function, with the sender as first argument; the guard says when it     *)
(* does not revert.  Every balance change goes through _update, which the  *)
(* pause closes; an approval does not.                                     *)
(***************************************************************************)
EXTENDS Integers, FiniteSetsExt

CONSTANTS
    Account,   \* who may hold WFAIR
    Admin,     \* constructor's admin: the Safe, or the founder's account
    Minter     \* constructor's minter: the bridge's account, or none of Account

ASSUME WfairAssumption == Admin \in Account

VARIABLES
    balance,    \* balanceOf
    allowance,  \* allowance[a][s]: what s may take of a's WFAIR
    paused

wfair == <<balance, allowance, paused>>

\* DEFAULT_ADMIN_ROLE would let the admin change the roles; no code does.
MINTER_ROLE == {Admin} \union ({Minter} \intersect Account)
PAUSER_ROLE == {Admin}

WfairTypeOK ==
    /\ balance \in [Account -> Nat]
    /\ allowance \in [Account -> [Account -> Nat]]
    /\ paused \in BOOLEAN

WfairInit ==
    /\ balance = [a \in Account |-> 0]
    /\ allowance = [a \in Account |-> [s \in Account |-> 0]]
    /\ paused = FALSE

totalSupply == MapThenSumSet(LAMBDA a : balance[a], Account)

\* whenNotPaused of _update.
UpdateAllowed == ~paused

CanMint(by) == by \in MINTER_ROLE /\ ~paused

\* mint and mintForDeposit, which differ in their events.
Mint(by, to, amount) ==
    /\ CanMint(by) /\ UpdateAllowed
    /\ balance' = [balance EXCEPT ![to] = @ + amount]
    /\ UNCHANGED <<allowance, paused>>

\* burn of ERC20Burnable, which emits no BridgeBurn.
Burn(by, amount) ==
    /\ UpdateAllowed /\ amount <= balance[by]
    /\ balance' = [balance EXCEPT ![by] = @ - amount]
    /\ UNCHANGED <<allowance, paused>>

BridgeBurn(by, amount) == ~paused /\ amount > 0 /\ Burn(by, amount)

Moved(from, to, amount) ==
    balance' = [a \in Account |-> balance[a] + (IF a = to THEN amount ELSE 0)
                                             - (IF a = from THEN amount ELSE 0)]

Transfer(by, to, amount) ==
    /\ UpdateAllowed /\ amount <= balance[by]
    /\ Moved(by, to, amount)
    /\ UNCHANGED <<allowance, paused>>

CanTransferFrom(by, from, amount) ==
    UpdateAllowed /\ amount <= allowance[from][by] /\ amount <= balance[from]

TransferFrom(by, from, to, amount) ==
    /\ CanTransferFrom(by, from, amount)
    /\ allowance' = [allowance EXCEPT ![from][by] = @ - amount]
    /\ Moved(from, to, amount)
    /\ UNCHANGED paused

Approve(by, spender, amount) ==
    /\ allowance' = [allowance EXCEPT ![by][spender] = amount]
    /\ UNCHANGED <<balance, paused>>

Pause(by) ==
    /\ by \in PAUSER_ROLE /\ ~paused
    /\ paused' = TRUE
    /\ UNCHANGED <<balance, allowance>>

Unpause(by) ==
    /\ by \in PAUSER_ROLE /\ paused
    /\ paused' = FALSE
    /\ UNCHANGED <<balance, allowance>>
=============================================================================
