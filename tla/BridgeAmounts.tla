---------------------------- MODULE BridgeAmounts ----------------------------
(***************************************************************************)
(* The integer arithmetic both directions of the bridge share: the bridge  *)
(* fee and the conversion between WFAIR wei (18 decimals) and FAIR sats    *)
(* (8 decimals).  The code computes with BigInt, so nothing overflows and  *)
(* every division truncates.                                               *)
(***************************************************************************)
EXTENDS Integers

CONSTANTS
    SatsToWei,  \* wei per sat: 10^10 in production, small in a TLC instance
    FeeBps      \* BRIDGE_FEE_BPS, in basis points

BpsDenom == 10000

ASSUME AmountsAssumption ==
    /\ SatsToWei \in Nat \ {0}
    /\ FeeBps \in 0..BpsDenom

\* applyFee(amount, feeBps): what is left of an amount after the fee.
ApplyFee(amount) == (amount * (BpsDenom - FeeBps)) \div BpsDenom

\* amountWei / SATS_TO_WEI: the whole sats in an amount of wei.
WeiToSats(wei) == wei \div SatsToWei

\* sats * SATS_TO_WEI.
SatsAsWei(sats) == sats * SatsToWei
=============================================================================
