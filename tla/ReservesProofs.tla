--------------------------- MODULE ReservesProofs ----------------------------
(***************************************************************************)
(* Proofs about Reserves, for any deposits, burns, amounts, fee and order  *)
(* of the two directions.  IInv is double-entry bookkeeping: what is in    *)
(* custody and what is in circulation are sums over the deposits and the   *)
(* burns, and Backed compares the two sums entry by entry.                 *)
(***************************************************************************)
EXTENDS Reserves, BridgeLemmas

\* The entries: FAIR a deposit brought in and has not been paid back, WFAIR
\* minted for it; FAIR the node paid out for a burn, WFAIR the burn took.
Held == [d \in Deposit |-> IF d \in arrived \ refunded THEN Sats[d] ELSE 0]
Issued == [d \in Deposit |-> MintWei(d) * Cardinality(minted[d])]
Paid == [b \in Burn |-> (ReleaseSats(b) + NetworkFee) * sends[b]]
Burnt == [b \in Burn |-> IF b \in arrived THEN Wei[b] ELSE 0]

-----------------------------------------------------------------------------
(***************************************************************************)
(* The inductive invariant.                                                *)
(***************************************************************************)

\* The wallet and the addresses hold what came in less what was paid out.
CustodyInv ==
    hot + cold + (pool.shared + pool.again) + Total(Paid, Burn)
      = Endowment + pool.received + Total(Held, Deposit)

\* The supply is what was minted less what was burned.
SupplyInv == supply + Total(Burnt, Burn) = SeedWei + Total(Issued, Deposit)

\* A mint has one outcome, and is for a deposit that arrived; a void deposit was
\* refused before a mint was sent or closed with a bounced one; and only a void
\* one is refunded.
DepositInv(d) ==
    /\ minted[d] \cap bounced[d] = {}
    /\ \A i \in minted[d] \union bounced[d] : i <= mints[d]
    /\ d \notin arrived => mints[d] = 0 /\ mintState[d] = "open"
    /\ mintState[d] = "void" => IF mintFiled[d] = 0 THEN mints[d] = 0
                                                    ELSE mintFiled[d] \in bounced[d]
    /\ d \in refunded => mintState[d] = "void"

\* Nothing is released for a burn that was not mined.
BurnInv(b) == b \notin arrived => sends[b] = 0

\* The read that was answered misses no more than what came in, or was burned,
\* since: coins leave custody and WFAIR is minted without making it wrong.
SnapInv ==
    /\ snap.read = "custody" => hot + cold <= snap.value + snap.aside
    /\ snap.read = "supply" => snap.value <= supply + snap.burned

IInv ==
    /\ TypeOK
    /\ CustodyInv
    /\ SupplyInv
    /\ \A d \in Deposit : DepositInv(d)
    /\ \A b \in Burn : BurnInv(b)
    /\ SnapInv

-----------------------------------------------------------------------------
(***************************************************************************)
(* The amounts are naturals, and none of them gains by a conversion.       *)
(***************************************************************************)

LEMMA MintWeiBound ==
    ASSUME NEW d \in Deposit
    PROVE  /\ Sats[d] \in Nat /\ SatsAsWei(Sats[d]) \in Nat
           /\ MintWei(d) \in Nat /\ MintWei(d) <= SatsAsWei(Sats[d])
<1>1. SatsAsWei(Sats[d]) \in Nat /\ Sats[d] \in Nat
  BY ReservesAssumption, AmountsAssumption DEF SatsAsWei
<1>2. QED
  BY <1>1, ApplyFeeBound DEF MintWei

LEMMA ReleaseSatsBound ==
    ASSUME NEW b \in Burn
    PROVE  /\ Wei[b] \in Nat
           /\ ReleaseSats(b) \in Nat /\ SatsAsWei(ReleaseSats(b)) <= Wei[b]
<1> DEFINE whole == WeiToSats(Wei[b])
<1>1. Wei[b] \in Nat
  BY ReservesAssumption
<1>2. whole \in Nat /\ SatsAsWei(whole) <= Wei[b]
  BY <1>1, AmountsAssumption DEF WeiToSats, SatsAsWei
<1> HIDE DEF whole
<1>3. ApplyFee(whole) \in Nat /\ ApplyFee(whole) <= whole
  BY <1>2, ApplyFeeBound
<1>4. SatsAsWei(ApplyFee(whole)) <= SatsAsWei(whole)
  BY <1>2, <1>3, AmountsAssumption DEF SatsAsWei
<1>5. SatsAsWei(ApplyFee(whole)) \in Nat /\ SatsAsWei(whole) \in Nat
  BY <1>2, <1>3, AmountsAssumption DEF SatsAsWei
<1>6. SatsAsWei(ApplyFee(whole)) <= Wei[b]
  BY <1>1, <1>2, <1>4, <1>5
<1>7. QED
  BY <1>1, <1>3, <1>6 DEF ReleaseSats, whole

\* The entries are naturals.
LEMMA EntryType ==
    ASSUME TypeOK
    PROVE  /\ \A d \in Deposit : Held[d] \in Nat /\ Issued[d] \in Nat
                                 /\ IsFiniteSet(minted[d]) /\ Cardinality(minted[d]) \in Nat
           /\ \A b \in Burn : Paid[b] \in Nat /\ Burnt[b] \in Nat
<1>1. ASSUME NEW d \in Deposit
      PROVE  Held[d] \in Nat /\ Issued[d] \in Nat
             /\ IsFiniteSet(minted[d]) /\ Cardinality(minted[d]) \in Nat
  <2>1. minted[d] \in SUBSET (1..MaxPays) /\ MaxPays \in Nat
    BY ReservesAssumption DEF TypeOK
  <2>2. IsFiniteSet(minted[d]) /\ Cardinality(minted[d]) \in Nat
    <3>1. IsFiniteSet(1..MaxPays)
      BY <2>1, FS_Interval
    <3>2. IsFiniteSet(minted[d])
      BY <2>1, <3>1, FS_Subset
    <3>3. QED
      BY <3>2, FS_CardinalityType
  <2>3. MintWei(d) * Cardinality(minted[d]) \in Nat
    BY <2>2, MintWeiBound
  <2>4. QED
    BY <2>2, <2>3, MintWeiBound DEF Held, Issued
<1>2. ASSUME NEW b \in Burn PROVE Paid[b] \in Nat /\ Burnt[b] \in Nat
  <2>1. sends[b] \in Nat /\ ReleaseSats(b) + NetworkFee \in Nat /\ Wei[b] \in Nat
    BY ReleaseSatsBound, ReservesAssumption DEF TypeOK
  <2>2. (ReleaseSats(b) + NetworkFee) * sends[b] \in Nat
    BY <2>1
  <2>3. QED
    BY <2>1, <2>2 DEF Paid, Burnt
<1>3. QED
  BY <1>1, <1>2

\* ... in every state.
EntriesOK ==
    /\ \A d \in Deposit : Held[d] \in Nat /\ Issued[d] \in Nat
    /\ \A b \in Burn : Paid[b] \in Nat /\ Burnt[b] \in Nat

LEMMA SumType ==
    ASSUME TypeOK
    PROVE  /\ Total(Held, Deposit) \in Nat /\ Total(Issued, Deposit) \in Nat
           /\ Total(Paid, Burn) \in Nat /\ Total(Burnt, Burn) \in Nat
BY EntryType, TotalNat, ReservesAssumption

-----------------------------------------------------------------------------
(***************************************************************************)
(* How one entry changes its sum.                                          *)
(***************************************************************************)

\* Sums whose entries stay.
LEMMA CustodyStays ==
    ASSUME IInv, TypeOK', hot' + cold' + (pool'.shared + pool'.again) - pool'.received
                            = hot + cold + (pool.shared + pool.again) - pool.received,
           \A d \in Deposit : Held'[d] = Held[d],
           \A b \in Burn : Paid'[b] = Paid[b]
    PROVE  CustodyInv'
<1>1. Total(Held', Deposit) = Total(Held, Deposit) /\ Total(Paid', Burn) = Total(Paid, Burn)
  BY TotalSame, ReservesAssumption
<1>2. /\ hot \in Nat /\ cold \in Nat /\ hot' \in Nat /\ cold' \in Nat
      /\ pool.shared \in Nat /\ pool.again \in Nat /\ pool.received \in Nat
      /\ pool'.shared \in Nat /\ pool'.again \in Nat /\ pool'.received \in Nat
      /\ Endowment \in Nat /\ Total(Held, Deposit) \in Nat /\ Total(Paid, Burn) \in Nat
  BY SumType, ReservesAssumption DEF IInv, TypeOK
<1> DEFINE coins == hot + cold
           later == hot' + cold'
           gone == pool.shared + pool.again
           spent == pool'.shared + pool'.again
           came == pool.received
           come == pool'.received
           in == Total(Held, Deposit)
           out == Total(Paid, Burn)
<1>3. /\ coins \in Int /\ later \in Int /\ gone \in Int /\ spent \in Int
      /\ came \in Int /\ come \in Int /\ in \in Int /\ out \in Int /\ Endowment \in Int
  BY <1>2
<1>4. coins + gone + out = Endowment + came + in
  BY DEF IInv, CustodyInv
<1>5. later + spent - come = coins + gone - came
  OBVIOUS
<1> HIDE DEF coins, later, gone, spent, came, come, in, out
<1>6. later + spent + out = Endowment + come + in
  BY ONLY <1>3, <1>4, <1>5
<1>7. QED
  BY <1>1, <1>6 DEF CustodyInv, later, spent, come, in, out

LEMMA SupplyStays ==
    ASSUME IInv, TypeOK', supply' = supply,
           \A d \in Deposit : Issued'[d] = Issued[d],
           \A b \in Burn : Burnt'[b] = Burnt[b]
    PROVE  SupplyInv'
<1>1. /\ Total(Issued', Deposit) = Total(Issued, Deposit)
      /\ Total(Burnt', Burn) = Total(Burnt, Burn)
  BY TotalSame, ReservesAssumption
<1>2. QED
  BY <1>1 DEF IInv, SupplyInv

\* One entry changes, and custody or supply with it.
LEMMA CustodyMoves ==
    ASSUME IInv, TypeOK', pool' = pool, NEW dHeld \in Int, NEW dPaid \in Int,
           Total(Held', Deposit) = Total(Held, Deposit) + dHeld,
           Total(Paid', Burn) = Total(Paid, Burn) + dPaid,
           hot' + cold' = hot + cold + dHeld - dPaid
    PROVE  CustodyInv'
<1>1. ASSUME NEW custody \in Int, NEW shared \in Int, NEW in \in Int, NEW out \in Int,
             NEW endowed \in Int, custody + shared + out = endowed + in
      PROVE  (custody + dHeld - dPaid) + shared + (out + dPaid) = endowed + (in + dHeld)
  BY <1>1, SMT
<1>2. /\ hot \in Nat /\ cold \in Nat /\ pool.shared \in Nat /\ pool.again \in Nat
      /\ pool.received \in Nat /\ Endowment \in Nat /\ Total(Held, Deposit) \in Nat /\ Total(Paid, Burn) \in Nat
  BY SumType, ReservesAssumption DEF IInv, TypeOK
<1>3. /\ hot + cold \in Int /\ Endowment + pool.received \in Int
      /\ pool.shared + pool.again \in Int
      /\ (hot + cold) + (pool.shared + pool.again) + Total(Paid, Burn)
           = (Endowment + pool.received) + Total(Held, Deposit)
  BY <1>2 DEF IInv, CustodyInv
<1>4. (hot' + cold') + (pool'.shared + pool'.again) + Total(Paid', Burn)
        = (Endowment + pool'.received) + Total(Held', Deposit)
  BY <1>1, <1>2, <1>3
<1>5. QED
  BY <1>4 DEF CustodyInv

LEMMA SupplyMoves ==
    ASSUME IInv, TypeOK', NEW dIssued \in Int, NEW dBurnt \in Int,
           Total(Issued', Deposit) = Total(Issued, Deposit) + dIssued,
           Total(Burnt', Burn) = Total(Burnt, Burn) + dBurnt,
           supply' = supply + dIssued - dBurnt
    PROVE  SupplyInv'
<1>1. /\ supply \in Nat /\ supply' \in Nat /\ SeedWei \in Nat
      /\ Total(Issued, Deposit) \in Nat /\ Total(Burnt, Burn) \in Nat
  BY SumType, ReservesAssumption DEF IInv, TypeOK
<1>2. QED
  BY <1>1 DEF IInv, SupplyInv

\* The entries of a state are naturals, as are those of the next.
LEMMA NextEntryType == TypeOK' => EntriesOK'
<1>1. TypeOK => EntriesOK
  BY EntryType DEF EntriesOK
<1>2. QED
  BY <1>1, PTL

-----------------------------------------------------------------------------
(***************************************************************************)
(* Every step preserves the invariant.                                     *)
(***************************************************************************)

\* A step that leaves the books, custody and the supply alone.
LEMMA BooksStay ==
    ASSUME IInv, UNCHANGED <<arrived, minted, bounced, mintBook, sendBook, refunded>>
    PROVE  /\ \A d \in Deposit : DepositInv(d)'
           /\ \A b \in Burn : BurnInv(b)'
           /\ \A d \in Deposit : Held'[d] = Held[d] /\ Issued'[d] = Issued[d]
           /\ \A b \in Burn : Paid'[b] = Paid[b] /\ Burnt'[b] = Burnt[b]
<1>1. /\ mints' = mints /\ mintFiled' = mintFiled /\ mintState' = mintState
      /\ sends' = sends
  BY DEF mintBook, sendBook
<1>2. \A d \in Deposit : DepositInv(d)'
  BY <1>1 DEF IInv, DepositInv
<1>3. \A b \in Burn : BurnInv(b)'
  BY <1>1 DEF IInv, BurnInv
<1>4. \A d \in Deposit : Held'[d] = Held[d] /\ Issued'[d] = Issued[d]
  BY DEF Held, Issued
<1>5. \A b \in Burn : Paid'[b] = Paid[b] /\ Burnt'[b] = Burnt[b]
  BY <1>1 DEF Paid, Burnt
<1>6. QED
  BY <1>2, <1>3, <1>4, <1>5

\* A snapshot under way is not disturbed by coins that leave or by a mint.
LEMMA SnapKept ==
    ASSUME IInv, hot' \in Nat, cold' \in Nat, supply' \in Nat,
           hot' + cold' <= hot + cold, supply' >= supply, snap' = snap
    PROVE  snap' \in Snapshot /\ SnapInv'
<1>1. /\ snap \in Snapshot /\ hot \in Nat /\ cold \in Nat /\ supply \in Nat
      /\ SnapInv
  BY DEF IInv, TypeOK
<1>2. snap.value \in Nat /\ snap.aside \in Nat /\ snap.burned \in Nat
  BY <1>1 DEF Snapshot
<1>3. snap'.value = snap.value /\ snap'.aside = snap.aside /\ snap'.burned = snap.burned
      /\ snap'.read = snap.read /\ snap' \in Snapshot
  BY <1>1
<1>4. snap.read = "custody" => hot' + cold' <= snap.value + snap.aside
  <2>1. snap.read = "custody" => hot + cold <= snap.value + snap.aside
    BY <1>1 DEF SnapInv
  <2>2. ASSUME NEW a \in Nat, NEW b \in Nat, NEW c \in Int, NEW v \in Int,
               c <= v, a + b <= c
        PROVE  a + b <= v
    BY ONLY <2>2
  <2>3. hot + cold \in Int /\ snap.value + snap.aside \in Int
    BY <1>1, <1>2
  <2>4. QED
    BY <2>1, <2>2, <2>3
<1>5. snap.read = "supply" => snap.value <= supply' + snap.burned
  <2>1. snap.read = "supply" => snap.value <= supply + snap.burned
    BY <1>1 DEF SnapInv
  <2>2. snap.value <= supply + snap.burned => snap.value <= supply' + snap.burned
    <3>1. ASSUME NEW s \in Nat, NEW u \in Nat, NEW v \in Nat, NEW w \in Nat,
                 u >= s, v <= s + w
          PROVE  v <= u + w
      BY <3>1
    <3>2. QED
      BY <1>1, <1>2, <3>1
  <2>3. QED
    BY <2>1, <2>2
<1>6. QED
  BY <1>3, <1>4, <1>5 DEF SnapInv

\* Coins that come in add to what the wallet's balance leaves out.
LEMMA SnapCameIn ==
    ASSUME IInv, NEW sats \in Nat, CameIn(sats), hot' + cold' = hot + cold + sats,
           supply' = supply
    PROVE  snap' \in Snapshot /\ SnapInv'
<1>1. /\ snap \in Snapshot /\ hot \in Nat /\ cold \in Nat /\ supply \in Nat
      /\ SnapInv
  BY DEF IInv, TypeOK
<1>2. snap.value \in Nat /\ snap.aside \in Nat /\ snap.burned \in Nat
  BY <1>1 DEF Snapshot
<1>3. CASE snap.read = "custody"
  <2>1. snap' = [snap EXCEPT !.aside = snap.aside + sats]
    BY <1>3 DEF CameIn
  <2>2. /\ snap'.read = "custody" /\ snap'.value = snap.value
        /\ snap'.aside = snap.aside + sats /\ snap' \in Snapshot
    BY <1>1, <1>2, <1>3, <2>1 DEF Snapshot
  <2>3. hot + cold <= snap.value + snap.aside
    BY <1>1, <1>3 DEF SnapInv
  <2>4. hot' + cold' <= snap'.value + snap'.aside
    BY <1>1, <1>2, <2>2, <2>3
  <2>5. QED
    BY <2>2, <2>4 DEF SnapInv
<1>4. CASE snap.read # "custody"
  <2>1. snap' = snap
    BY <1>4 DEF CameIn
  <2>2. QED
    BY <1>1, <1>4, <2>1 DEF SnapInv
<1>5. QED
  BY <1>3, <1>4

\* WFAIR that is burned adds to what the supply that was read has too much.
LEMMA SnapBurned ==
    ASSUME IInv, NEW wei \in Nat, BurnedNow(wei), supply' = supply - wei,
           hot' = hot, cold' = cold
    PROVE  snap' \in Snapshot /\ SnapInv'
<1>1. /\ snap \in Snapshot /\ hot \in Nat /\ cold \in Nat /\ supply \in Nat
      /\ SnapInv
  BY DEF IInv, TypeOK
<1>2. snap.value \in Nat /\ snap.aside \in Nat /\ snap.burned \in Nat
  BY <1>1 DEF Snapshot
<1>3. CASE snap.read = "supply"
  <2>1. snap' = [snap EXCEPT !.burned = snap.burned + wei]
    BY <1>3 DEF BurnedNow
  <2>2. /\ snap'.read = "supply" /\ snap'.value = snap.value
        /\ snap'.burned = snap.burned + wei /\ snap' \in Snapshot
    BY <1>1, <1>2, <1>3, <2>1 DEF Snapshot
  <2>3. snap.value <= supply + snap.burned
    BY <1>1, <1>3 DEF SnapInv
  <2>4. snap'.value <= supply' + snap'.burned
    BY <1>1, <1>2, <2>2, <2>3
  <2>5. QED
    BY <2>2, <2>4 DEF SnapInv
<1>4. CASE snap.read # "supply"
  <2>1. snap' = snap
    BY <1>4 DEF BurnedNow
  <2>2. QED
    BY <1>1, <1>4, <2>1 DEF SnapInv
<1>5. QED
  BY <1>3, <1>4

LEMMA DepositArrivesStep ==
    ASSUME IInv, NEW d \in Deposit, DepositArrives(d)
    PROVE  IInv'
<1>1. /\ TypeOK /\ d \notin arrived /\ d \notin Burn
      /\ arrived' = arrived \union {d} /\ cold' = cold + Sats[d] /\ CameIn(Sats[d])
      /\ UNCHANGED <<hot, supply, minted, bounced, mints, mintFiled, mintState,
                     sends, sendFiled, sendState, refunded, pool, doc>>
  BY ReservesAssumption DEF IInv, DepositArrives, mintBook, sendBook
<1>2. TypeOK' /\ SnapInv'
  <2>1. cold' \in Nat /\ hot' + cold' = hot + cold + Sats[d] /\ Sats[d] \in Nat
    BY <1>1, MintWeiBound DEF TypeOK
  <2>2. snap' \in Snapshot /\ SnapInv'
    BY <1>1, <2>1, SnapCameIn
  <2>3. QED
    BY <1>1, <2>1, <2>2 DEF TypeOK
<1>3. d \notin refunded
  BY <1>1 DEF IInv, DepositInv
<1>4. EntriesOK' /\ EntriesOK
  BY <1>1, <1>2, NextEntryType, EntryType DEF EntriesOK
<1>5. Total(Held', Deposit) = Total(Held, Deposit) + Sats[d]
  <2>1. Held[d] = 0 /\ Held'[d] = Sats[d] /\ \A e \in Deposit \ {d} : Held[e] = Held'[e]
    BY <1>1, <1>3 DEF Held
  <2>2. \A e \in Deposit : Held[e] \in Int /\ Held'[e] \in Int
    BY <1>4 DEF EntriesOK
  <2>3. Total(Held', Deposit) = Total(Held, Deposit) + Held'[d] - Held[d]
    BY <2>1, <2>2, TotalChange, ReservesAssumption
  <2>4. Total(Held, Deposit) \in Nat /\ Sats[d] \in Nat
    BY <1>1, SumType, MintWeiBound
  <2>5. QED
    BY <2>1, <2>3, <2>4
<1>6. Total(Paid', Burn) = Total(Paid, Burn) + 0
  <2>1. \A b \in Burn : Paid[b] = Paid'[b]
    BY <1>1 DEF Paid
  <2>2. QED
    BY <1>1, <2>1, TotalSame, SumType, ReservesAssumption
<1>7. CustodyInv'
  <2>1. /\ hot' + cold' = hot + cold + Sats[d] - 0
        /\ Sats[d] \in Int
    BY <1>1, MintWeiBound DEF TypeOK
  <2>2. QED
    BY <1>1, <1>2, <1>5, <1>6, <2>1, CustodyMoves
<1>8. SupplyInv'
  <2>1. (\A e \in Deposit : Issued'[e] = Issued[e]) /\ (\A b \in Burn : Burnt'[b] = Burnt[b])
    BY <1>1 DEF Issued, Burnt
  <2>2. QED
    BY <1>1, <1>2, <2>1, SupplyStays
<1>9. \A e \in Deposit : DepositInv(e)'
  BY <1>1 DEF IInv, DepositInv
<1>10. \A b \in Burn : BurnInv(b)'
  BY <1>1 DEF IInv, BurnInv
<1>11. QED
  BY <1>2, <1>7, <1>8, <1>9, <1>10 DEF IInv

\* A step of PayoutLedger on the mint of d.
LEMMA MintStepStep ==
    ASSUME IInv, NEW d \in Deposit, MintStep(d)
    PROVE  IInv'
<1>1. /\ TypeOK /\ d \in arrived
      /\ UNCHANGED <<hot, cold, supply, arrived, minted, bounced,
                     sends, sendFiled, sendState, refunded, pool, snap, doc>>
  BY DEF IInv, MintStep, sendBook
<1>2. /\ mints \in [Deposit -> 0..MaxPays] /\ mintFiled \in [Deposit -> 0..MaxPays]
      /\ mintState \in [Deposit -> PayoutState] /\ MaxPays \in Nat /\ mintState[d] = "open"
  <2>1. mintState[d] = "open"
    BY DEF MintStep, MintLedger!Pay, MintLedger!File, MintLedger!Settle, MintLedger!Void,
           MintLedger!Bounce
  <2>2. QED
    BY <1>1, <2>1, ReservesAssumption DEF TypeOK
<1>3. DepositInv(d) /\ d \notin refunded
  BY <1>2 DEF IInv, DepositInv
<1>4. /\ mints' \in [Deposit -> 0..MaxPays] /\ mintFiled' \in [Deposit -> 0..MaxPays]
      /\ mintState' \in [Deposit -> PayoutState]
      /\ \A e \in Deposit \ {d} : /\ mints'[e] = mints[e] /\ mintFiled'[e] = mintFiled[e]
                                  /\ mintState'[e] = mintState[e]
      /\ mints[d] <= mints'[d]
      /\ mintState'[d] = "void" => IF mintFiled'[d] = 0 THEN mints'[d] = 0
                                                        ELSE mintFiled'[d] \in bounced[d]
  <2>1. CASE mints[d] < MaxPays /\ MintLedger!Pay(d)
    BY <1>2, <2>1 DEF MintLedger!Pay
  <2>2. CASE MintLedger!File(d)
    BY <1>2, <2>2 DEF MintLedger!File
  <2>3. CASE MintLedger!Settle(d)
    BY <1>2, <2>3 DEF MintLedger!Settle, PayoutState
  <2>4. CASE MayVoid(d) /\ (MintLedger!Void(d) \/ MintLedger!Bounce(d))
    <3>1. mints' = mints /\ mintFiled' = mintFiled
          /\ mintState' = [mintState EXCEPT ![d] = "void"]
      BY <2>4 DEF MintLedger!Void, MintLedger!Bounce
    <3>2. QED
      BY <1>2, <2>4, <3>1 DEF MayVoid, PayoutState
  <2>5. QED
    BY <2>1, <2>2, <2>3, <2>4 DEF MintStep
<1>5. TypeOK'
  BY <1>1, <1>4 DEF TypeOK
<1>6. CustodyInv' /\ SupplyInv'
  <2>1. /\ \A e \in Deposit : Held'[e] = Held[e] /\ Issued'[e] = Issued[e]
        /\ \A b \in Burn : Paid'[b] = Paid[b] /\ Burnt'[b] = Burnt[b]
    BY <1>1 DEF Held, Issued, Paid, Burnt
  <2>2. hot' + cold' + (pool'.shared + pool'.again) - pool'.received
          = hot + cold + (pool.shared + pool.again) - pool.received
    BY <1>1
  <2>3. QED
    BY <1>1, <1>5, <2>1, <2>2, CustodyStays, SupplyStays
<1>7. ASSUME NEW e \in Deposit PROVE DepositInv(e)'
  <2>1. DepositInv(e)
    BY DEF IInv
  <2>2. CASE e = d
    <3>1. \A i \in minted[d] \union bounced[d] : i <= mints'[d]
      <4>1. \A i \in minted[d] \union bounced[d] : i \in Nat /\ i <= mints[d]
        BY <1>1, <1>3 DEF TypeOK, DepositInv
      <4>2. mints[d] \in Nat /\ mints'[d] \in Nat
        BY <1>2, <1>4
      <4>3. QED
        BY <1>4, <4>1, <4>2
    <3>2. QED
      BY <1>1, <1>3, <1>4, <2>2, <3>1 DEF DepositInv
  <2>3. CASE e # d
    BY <1>1, <1>4, <2>1, <2>3 DEF DepositInv
  <2>4. QED
    BY <2>2, <2>3
<1>8. (\A b \in Burn : BurnInv(b)') /\ SnapInv'
  BY <1>1 DEF IInv, BurnInv, SnapInv
<1>9. QED
  BY <1>5, <1>6, <1>7, <1>8 DEF IInv

\* A mint is mined: the supply grows by the entry of d.
LEMMA MintMinedStep ==
    ASSUME IInv, NEW d \in Deposit, NEW i \in 1..MaxPays, MintMined(d, i)
    PROVE  IInv'
<1>1. /\ TypeOK /\ i \in 1..mints[d] /\ i \notin minted[d] /\ i \notin bounced[d]
      /\ minted' = [minted EXCEPT ![d] = minted[d] \union {i}]
      /\ supply' = supply + MintWei(d)
      /\ UNCHANGED <<hot, cold, arrived, bounced, mints, mintFiled, mintState,
                     sends, sendFiled, sendState, refunded, pool, snap, doc>>
  BY DEF IInv, MintMined, Unmined, mintBook, sendBook
<1>2. SnapInv' /\ snap' \in Snapshot
  <2>1. MintWei(d) \in Nat /\ hot \in Nat /\ cold \in Nat /\ supply \in Nat
    BY <1>1, MintWeiBound DEF TypeOK
  <2>2. /\ hot' \in Nat /\ cold' \in Nat /\ supply' \in Nat
        /\ hot' + cold' <= hot + cold /\ supply' >= supply
    BY <1>1, <2>1
  <2>3. QED
    BY <1>1, <2>2, SnapKept
<1>3. /\ minted \in [Deposit -> SUBSET (1..MaxPays)]
      /\ minted' \in [Deposit -> SUBSET (1..MaxPays)]
      /\ minted'[d] = minted[d] \union {i}
      /\ \A e \in Deposit \ {d} : minted'[e] = minted[e]
  BY <1>1 DEF TypeOK
<1>4. supply' \in Nat
  BY <1>1, MintWeiBound DEF TypeOK
<1>5. TypeOK'
  BY <1>1, <1>2, <1>3, <1>4 DEF TypeOK
<1>6. EntriesOK' /\ EntriesOK
  BY <1>1, <1>5, NextEntryType, EntryType DEF EntriesOK
<1>7. Total(Issued', Deposit) = Total(Issued, Deposit) + MintWei(d)
  <2>1. \A e \in Deposit \ {d} : Issued[e] = Issued'[e]
    BY <1>3 DEF Issued
  <2>2. Issued'[d] = Issued[d] + MintWei(d)
    <3> DEFINE n == Cardinality(minted[d])
               w == MintWei(d)
    <3>1. n \in Nat /\ w \in Nat /\ Cardinality(minted'[d]) = n + 1
      BY <1>1, <1>3, EntryType, FS_AddElement, MintWeiBound
    <3>2. Issued'[d] = w * (n + 1) /\ Issued[d] = w * n
      BY <3>1 DEF Issued
    <3> HIDE DEF n, w
    <3>3. w * (n + 1) = w * n + w
      BY <3>1
    <3>4. QED
      BY <3>2, <3>3 DEF w
  <2>3. \A e \in Deposit : Issued[e] \in Int /\ Issued'[e] \in Int
    BY <1>6 DEF EntriesOK
  <2>4. Total(Issued', Deposit) = Total(Issued, Deposit) + Issued'[d] - Issued[d]
    BY <2>1, <2>3, TotalChange, ReservesAssumption
  <2>5. Total(Issued, Deposit) \in Nat /\ MintWei(d) \in Nat /\ Issued[d] \in Nat
    BY <1>1, <1>6, SumType, MintWeiBound DEF EntriesOK
  <2>6. QED
    BY <2>2, <2>4, <2>5
<1>8. Total(Burnt', Burn) = Total(Burnt, Burn) + 0
  <2>1. \A b \in Burn : Burnt[b] = Burnt'[b]
    BY <1>1 DEF Burnt
  <2>2. QED
    BY <1>1, <2>1, TotalSame, SumType, ReservesAssumption
<1>9. SupplyInv'
  <2>1. supply' = supply + MintWei(d) - 0 /\ MintWei(d) \in Int
    BY <1>1, MintWeiBound DEF TypeOK
  <2>2. QED
    BY <1>5, <1>7, <1>8, <2>1, SupplyMoves
<1>10. CustodyInv'
  <2>1. (\A e \in Deposit : Held'[e] = Held[e]) /\ (\A b \in Burn : Paid'[b] = Paid[b])
    BY <1>1 DEF Held, Paid
  <2>2. hot' + cold' + (pool'.shared + pool'.again) - pool'.received
          = hot + cold + (pool.shared + pool.again) - pool.received
    BY <1>1
  <2>3. QED
    BY <1>5, <2>1, <2>2, CustodyStays
<1>11. ASSUME NEW e \in Deposit PROVE DepositInv(e)'
  <2>1. DepositInv(e)
    BY DEF IInv
  <2>2. CASE e = d
    <3>1. i <= mints[d]
      BY <1>1 DEF TypeOK
    <3>2. QED
      BY <1>1, <1>3, <2>1, <2>2, <3>1 DEF DepositInv
  <2>3. CASE e # d
    BY <1>1, <1>3, <2>1, <2>3 DEF DepositInv
  <2>4. QED
    BY <2>2, <2>3
<1>12. \A b \in Burn : BurnInv(b)'
  BY <1>1 DEF IInv, BurnInv
<1>13. QED
  BY <1>2, <1>5, <1>9, <1>10, <1>11, <1>12 DEF IInv

LEMMA MintRevertsStep ==
    ASSUME IInv, NEW d \in Deposit, NEW i \in 1..MaxPays, MintReverts(d, i)
    PROVE  IInv'
<1>1. /\ TypeOK /\ i \in 1..mints[d] /\ i \notin minted[d] /\ i \notin bounced[d]
      /\ bounced' = [bounced EXCEPT ![d] = bounced[d] \union {i}]
      /\ UNCHANGED <<hot, cold, supply, arrived, minted, mints, mintFiled, mintState,
                     sends, sendFiled, sendState, refunded, pool, snap, doc>>
  BY DEF IInv, MintReverts, Unmined, mintBook, sendBook
<1>2. /\ bounced \in [Deposit -> SUBSET (1..MaxPays)]
      /\ bounced' \in [Deposit -> SUBSET (1..MaxPays)]
      /\ bounced'[d] = bounced[d] \union {i}
      /\ \A e \in Deposit \ {d} : bounced'[e] = bounced[e]
  BY <1>1 DEF TypeOK
<1>3. TypeOK'
  BY <1>1, <1>2 DEF TypeOK
<1>4. CustodyInv' /\ SupplyInv'
  <2>1. /\ \A e \in Deposit : Held'[e] = Held[e] /\ Issued'[e] = Issued[e]
        /\ \A b \in Burn : Paid'[b] = Paid[b] /\ Burnt'[b] = Burnt[b]
    BY <1>1 DEF Held, Issued, Paid, Burnt
  <2>2. hot' + cold' + (pool'.shared + pool'.again) - pool'.received
          = hot + cold + (pool.shared + pool.again) - pool.received
    BY <1>1
  <2>3. QED
    BY <1>1, <1>3, <2>1, <2>2, CustodyStays, SupplyStays
<1>5. ASSUME NEW e \in Deposit PROVE DepositInv(e)'
  <2>1. DepositInv(e)
    BY DEF IInv
  <2>2. CASE e = d
    <3>1. i <= mints[d]
      BY <1>1 DEF TypeOK
    <3>2. QED
      BY <1>1, <1>2, <2>1, <2>2, <3>1 DEF DepositInv
  <2>3. CASE e # d
    BY <1>1, <1>2, <2>1, <2>3 DEF DepositInv
  <2>4. QED
    BY <2>2, <2>3
<1>6. (\A b \in Burn : BurnInv(b)') /\ SnapInv'
  BY <1>1 DEF IInv, BurnInv, SnapInv
<1>7. QED
  BY <1>3, <1>4, <1>5, <1>6 DEF IInv

LEMMA RefundDepositStep ==
    ASSUME IInv, NEW d \in Deposit, RefundDeposit(d)
    PROVE  IInv'
<1>1. /\ TypeOK /\ mintState[d] = "void" /\ d \notin refunded
      /\ cold >= Sats[d] /\ cold' = cold - Sats[d] /\ refunded' = refunded \union {d}
      /\ UNCHANGED <<hot, supply, arrived, minted, bounced, mints, mintFiled, mintState,
                     sends, sendFiled, sendState, pool, snap, doc>>
  BY DEF IInv, RefundDeposit, mintBook, sendBook
<1>2. d \in arrived
  BY <1>1 DEF IInv, DepositInv
<1>3. cold' \in Nat /\ Sats[d] \in Nat
  BY <1>1, MintWeiBound DEF TypeOK
<1>4. TypeOK'
  BY <1>1, <1>3 DEF TypeOK
<1>5. EntriesOK' /\ EntriesOK
  BY <1>1, <1>4, NextEntryType, EntryType DEF EntriesOK
<1>6. Total(Held', Deposit) = Total(Held, Deposit) + (0 - Sats[d])
  <2>1. Held[d] = Sats[d] /\ Held'[d] = 0 /\ \A e \in Deposit \ {d} : Held[e] = Held'[e]
    BY <1>1, <1>2 DEF Held
  <2>2. \A e \in Deposit : Held[e] \in Int /\ Held'[e] \in Int
    BY <1>5 DEF EntriesOK
  <2>3. Total(Held', Deposit) = Total(Held, Deposit) + Held'[d] - Held[d]
    BY <2>1, <2>2, TotalChange, ReservesAssumption
  <2>4. Total(Held, Deposit) \in Nat
    BY <1>1, SumType
  <2>5. QED
    BY <1>3, <2>1, <2>3, <2>4
<1>7. Total(Paid', Burn) = Total(Paid, Burn) + 0
  <2>1. \A b \in Burn : Paid[b] = Paid'[b]
    BY <1>1 DEF Paid
  <2>2. QED
    BY <1>1, <2>1, TotalSame, SumType, ReservesAssumption
<1>8. CustodyInv'
  <2>1. hot' + cold' = hot + cold + (0 - Sats[d]) - 0 /\ 0 - Sats[d] \in Int
    BY <1>1, <1>3 DEF TypeOK
  <2>2. QED
    BY <1>1, <1>4, <1>6, <1>7, <2>1, CustodyMoves
<1>9. SupplyInv'
  <2>1. (\A e \in Deposit : Issued'[e] = Issued[e]) /\ (\A b \in Burn : Burnt'[b] = Burnt[b])
    BY <1>1 DEF Issued, Burnt
  <2>2. QED
    BY <1>1, <1>4, <2>1, SupplyStays
<1>10. \A e \in Deposit : DepositInv(e)'
  BY <1>1 DEF IInv, DepositInv
<1>11. (\A b \in Burn : BurnInv(b)') /\ SnapInv'
  <2>1. /\ hot' \in Nat /\ cold' \in Nat /\ supply' \in Nat
        /\ hot' + cold' <= hot + cold /\ supply' >= supply
    BY <1>1, <1>3 DEF TypeOK
  <2>2. SnapInv'
    BY <1>1, <2>1, SnapKept
  <2>3. QED
    BY <1>1, <2>2 DEF IInv, BurnInv
<1>12. QED
  BY <1>4, <1>8, <1>9, <1>10, <1>11 DEF IInv

\* A burn is mined: the supply shrinks by the entry of b.
LEMMA BurnMinedStep ==
    ASSUME IInv, NEW b \in Burn, BurnMined(b)
    PROVE  IInv'
<1>1. /\ TypeOK /\ b \notin arrived /\ b \notin Deposit /\ Wei[b] <= supply
      /\ arrived' = arrived \union {b} /\ supply' = supply - Wei[b]
      /\ BurnedNow(Wei[b])
      /\ UNCHANGED <<hot, cold, minted, bounced, mints, mintFiled, mintState,
                     sends, sendFiled, sendState, refunded, pool, doc>>
  BY ReservesAssumption DEF IInv, BurnMined, mintBook, sendBook
<1>2. SnapInv' /\ snap' \in Snapshot
  BY <1>1, SnapBurned, ReleaseSatsBound
<1>3. supply' \in Nat /\ Wei[b] \in Nat
  BY <1>1, ReleaseSatsBound DEF TypeOK
<1>4. TypeOK'
  BY <1>1, <1>2, <1>3 DEF TypeOK
<1>5. EntriesOK' /\ EntriesOK
  BY <1>1, <1>4, NextEntryType, EntryType DEF EntriesOK
<1>6. Total(Burnt', Burn) = Total(Burnt, Burn) + Wei[b]
  <2>1. Burnt[b] = 0 /\ Burnt'[b] = Wei[b] /\ \A c \in Burn \ {b} : Burnt[c] = Burnt'[c]
    BY <1>1 DEF Burnt
  <2>2. \A c \in Burn : Burnt[c] \in Int /\ Burnt'[c] \in Int
    BY <1>5 DEF EntriesOK
  <2>3. Total(Burnt', Burn) = Total(Burnt, Burn) + Burnt'[b] - Burnt[b]
    BY <2>1, <2>2, TotalChange, ReservesAssumption
  <2>4. Total(Burnt, Burn) \in Nat
    BY <1>1, SumType
  <2>5. QED
    BY <1>3, <2>1, <2>3, <2>4
<1>7. Total(Issued', Deposit) = Total(Issued, Deposit) + 0
  <2>1. \A d \in Deposit : Issued[d] = Issued'[d]
    BY <1>1 DEF Issued
  <2>2. QED
    BY <1>1, <2>1, TotalSame, SumType, ReservesAssumption
<1>8. SupplyInv'
  <2>1. supply' = supply + 0 - Wei[b] /\ Wei[b] \in Int
    BY <1>1, <1>3 DEF TypeOK
  <2>2. QED
    BY <1>4, <1>6, <1>7, <2>1, SupplyMoves
<1>9. CustodyInv'
  <2>1. (\A d \in Deposit : Held'[d] = Held[d]) /\ (\A c \in Burn : Paid'[c] = Paid[c])
    BY <1>1 DEF Held, Paid
  <2>2. hot' + cold' + (pool'.shared + pool'.again) - pool'.received
          = hot + cold + (pool.shared + pool.again) - pool.received
    BY <1>1
  <2>3. QED
    BY <1>4, <2>1, <2>2, CustodyStays
<1>10. \A d \in Deposit : DepositInv(d)'
  BY <1>1 DEF IInv, DepositInv
<1>11. \A c \in Burn : BurnInv(c)'
  BY <1>1 DEF IInv, BurnInv
<1>12. QED
  BY <1>2, <1>4, <1>8, <1>9, <1>10, <1>11 DEF IInv

\* The node pays: the wallet shrinks by one payment and its fee.
LEMMA ReleaseStep ==
    ASSUME IInv, NEW b \in Burn, Release(b)
    PROVE  IInv'
<1> DEFINE amount == ReleaseSats(b) + NetworkFee
<1>1. /\ TypeOK /\ b \in arrived /\ sends[b] < MaxPays
      /\ sends' = [sends EXCEPT ![b] = sends[b] + 1]
      /\ hot >= amount /\ hot' = hot - amount
      /\ UNCHANGED <<cold, supply, arrived, minted, bounced, mints, mintFiled, mintState,
                     sendFiled, sendState, refunded, pool, snap, doc>>
  <2>1. amount \in Nat /\ hot \in Nat /\ ReleaseSats(b) \in Nat /\ NetworkFee \in Nat
    BY ReleaseSatsBound, ReservesAssumption DEF IInv, TypeOK
  <2>2. hot >= amount /\ hot' = hot - amount
    BY <2>1 DEF Release
  <2>3. QED
    BY <2>2 DEF IInv, Release, SendLedger!Pay, mintBook
<1>2. amount \in Nat /\ hot' \in Nat
  <2>1. amount \in Nat
    BY ReleaseSatsBound, ReservesAssumption
  <2> HIDE DEF amount
  <2>2. QED
    BY <1>1, <2>1 DEF TypeOK
<1>3. SnapInv' /\ snap' \in Snapshot
  <2> HIDE DEF amount
  <2>1. /\ hot' \in Nat /\ cold' \in Nat /\ supply' \in Nat
        /\ hot' + cold' <= hot + cold /\ supply' >= supply
    BY <1>1, <1>2 DEF TypeOK
  <2>2. QED
    BY <1>1, <2>1, SnapKept
<1>4. /\ sends \in [Burn -> 0..MaxPays] /\ sends' \in [Burn -> 0..MaxPays]
      /\ sends'[b] = sends[b] + 1 /\ sends[b] \in Nat
      /\ \A c \in Burn \ {b} : sends'[c] = sends[c]
  BY <1>1, ReservesAssumption DEF TypeOK
<1>5. TypeOK'
  BY <1>1, <1>2, <1>3, <1>4 DEF TypeOK
<1>6. EntriesOK' /\ EntriesOK
  BY <1>1, <1>5, NextEntryType, EntryType DEF EntriesOK
<1>7. Total(Paid', Burn) = Total(Paid, Burn) + amount
  <2>1. \A c \in Burn \ {b} : Paid[c] = Paid'[c]
    BY <1>4 DEF Paid
  <2>2. Paid'[b] = Paid[b] + amount
    <3>1. Paid'[b] = amount * (sends[b] + 1) /\ Paid[b] = amount * sends[b]
      BY <1>4 DEF Paid
    <3> HIDE DEF amount
    <3>2. amount * (sends[b] + 1) = amount * sends[b] + amount
      BY <1>2, <1>4
    <3>3. QED
      BY <3>1, <3>2
  <2>3. \A c \in Burn : Paid[c] \in Int /\ Paid'[c] \in Int
    BY <1>6 DEF EntriesOK
  <2>4. Total(Paid', Burn) = Total(Paid, Burn) + Paid'[b] - Paid[b]
    BY <2>1, <2>3, TotalChange, ReservesAssumption
  <2>5. Total(Paid, Burn) \in Nat /\ Paid[b] \in Nat
    BY <1>1, <1>6, SumType DEF EntriesOK
  <2> HIDE DEF amount
  <2>6. QED
    BY <1>2, <2>2, <2>4, <2>5
<1>8. Total(Held', Deposit) = Total(Held, Deposit) + 0
  <2>1. \A d \in Deposit : Held[d] = Held'[d]
    BY <1>1 DEF Held
  <2>2. QED
    BY <1>1, <2>1, TotalSame, SumType, ReservesAssumption
<1>9. CustodyInv'
  <2> HIDE DEF amount
  <2>1. hot' + cold' = hot + cold + 0 - amount /\ amount \in Int /\ pool' = pool
    BY <1>1, <1>2 DEF TypeOK
  <2>2. QED
    BY <1>5, <1>7, <1>8, <2>1, CustodyMoves
<1>10. SupplyInv'
  <2>1. (\A d \in Deposit : Issued'[d] = Issued[d]) /\ (\A c \in Burn : Burnt'[c] = Burnt[c])
    BY <1>1 DEF Issued, Burnt
  <2>2. QED
    BY <1>1, <1>5, <2>1, SupplyStays
<1>11. \A d \in Deposit : DepositInv(d)'
  BY <1>1 DEF IInv, DepositInv
<1>12. \A c \in Burn : BurnInv(c)'
  BY <1>1, <1>4 DEF IInv, BurnInv
<1>13. QED
  BY <1>3, <1>5, <1>9, <1>10, <1>11, <1>12 DEF IInv

\* The other steps of PayoutLedger on the release of b.
LEMMA SendStepStep ==
    ASSUME IInv, NEW b \in Burn, SendStep(b)
    PROVE  IInv'
<1>1. /\ TypeOK
      /\ UNCHANGED <<hot, cold, supply, arrived, minted, bounced, mints, mintFiled, mintState,
                     refunded, pool, snap, doc>>
  BY DEF IInv, SendStep, mintBook
<1>2. /\ sends' = sends /\ sendFiled' \in [Burn -> 0..MaxPays]
      /\ sendState' \in [Burn -> PayoutState]
  BY <1>1 DEF TypeOK, PayoutState, SendStep, SendLedger!File, SendLedger!Settle,
              SendLedger!Void
<1>3. TypeOK'
  BY <1>1, <1>2 DEF TypeOK
<1>4. CustodyInv' /\ SupplyInv'
  <2>1. /\ \A e \in Deposit : Held'[e] = Held[e] /\ Issued'[e] = Issued[e]
        /\ \A c \in Burn : Paid'[c] = Paid[c] /\ Burnt'[c] = Burnt[c]
    BY <1>1, <1>2 DEF Held, Issued, Paid, Burnt
  <2>2. hot' + cold' + (pool'.shared + pool'.again) - pool'.received
          = hot + cold + (pool.shared + pool.again) - pool.received
    BY <1>1
  <2>3. QED
    BY <1>1, <1>3, <2>1, <2>2, CustodyStays, SupplyStays
<1>5. /\ \A d \in Deposit : DepositInv(d)'
      /\ \A c \in Burn : BurnInv(c)'
      /\ SnapInv'
  BY <1>1, <1>2 DEF IInv, DepositInv, BurnInv, SnapInv
<1>6. QED
  BY <1>3, <1>4, <1>5 DEF IInv

\* Coins move within custody, or come in and go out by the reward address.
LEMMA WalletStep ==
    ASSUME IInv,
           \/ Sweep \/ RewardIncome \/ RewardCycle
           \/ \E sats \in Payouts : RewardPayout(sats) \/ RewardAgain(sats)
    PROVE  IInv'
<1>1. /\ TypeOK
      /\ UNCHANGED <<supply, arrived, minted, bounced, mintBook, sendBook, refunded, doc>>
      /\ UNCHANGED <<mints, mintFiled, mintState, sends, sendFiled, sendState>>
  BY DEF IInv, Sweep, RewardIncome, RewardCycle, RewardPayout, RewardAgain, mintBook, sendBook
<1>2. /\ hot \in Nat /\ cold \in Nat /\ supply \in Nat
      /\ Income \in Nat /\ MaxReceived \in Nat /\ MaxCycles \in Nat /\ MaxAgain \in Nat
      /\ \A sats \in Payouts : sats \in Nat
  BY <1>1, ReservesAssumption DEF TypeOK
<1> DEFINE Pool == [received : 0..MaxReceived, cycles : 0..MaxCycles, planned : Nat,
                    shared : Nat, again : 0..MaxAgain]
<1>3. /\ pool \in Pool
      /\ pool.received \in 0..MaxReceived /\ pool.cycles \in 0..MaxCycles
      /\ pool.planned \in Nat /\ pool.shared \in Nat /\ pool.again \in 0..MaxAgain
  BY <1>1 DEF TypeOK
<1>4. /\ hot' \in Nat /\ cold' \in Nat /\ pool' \in Pool
      /\ hot' + cold' + (pool'.shared + pool'.again) - pool'.received
           = hot + cold + (pool.shared + pool.again) - pool.received
      /\ snap' \in Snapshot /\ SnapInv'
  <2>1. CASE Sweep
    <3>1. /\ hot' = hot + cold /\ cold' = 0 /\ pool' = pool /\ snap' = snap
      BY <2>1 DEF Sweep
    <3>2. /\ hot' \in Nat /\ cold' \in Nat /\ supply' \in Nat
          /\ hot' + cold' <= hot + cold /\ supply' >= supply
      BY <1>1, <1>2, <3>1
    <3>3. QED
      BY <1>2, <1>3, <3>1, <3>2, SnapKept
  <2>2. CASE RewardIncome
    <3>1. /\ pool' = [pool EXCEPT !.received = pool.received + Income]
          /\ hot' = hot + Income /\ cold' = cold /\ CameIn(Income)
          /\ pool.received + Income \in 0..MaxReceived
      BY <1>2, <1>3, <2>2 DEF RewardIncome
    <3>2. /\ pool' \in Pool /\ pool'.received = pool.received + Income
          /\ pool'.shared = pool.shared /\ pool'.again = pool.again
      BY <1>3, <3>1
    <3>3. hot' + cold' = hot + cold + Income /\ supply' = supply
      BY <1>1, <1>2, <3>1
    <3>4. snap' \in Snapshot /\ SnapInv'
      BY <1>2, <3>1, <3>3, SnapCameIn
    <3>5. QED
      BY <1>2, <1>3, <3>1, <3>2, <3>4
  <2>3. CASE RewardCycle
    <3>1. /\ pool' = [pool EXCEPT !.cycles = pool.cycles + 1,
                                  !.planned = pool.planned + pool.received]
          /\ hot' = hot /\ cold' = cold /\ snap' = snap
          /\ pool.cycles + 1 \in 0..MaxCycles /\ pool.planned + pool.received \in Nat
      BY <1>2, <1>3, <2>3 DEF RewardCycle, ReceivedByAddress
    <3>2. /\ pool' \in Pool /\ pool'.received = pool.received
          /\ pool'.shared = pool.shared /\ pool'.again = pool.again
      BY <1>3, <3>1
    <3>3. SnapInv' /\ snap' \in Snapshot
      BY <1>1, <1>2, <3>1, SnapKept
    <3>4. QED
      BY <1>2, <1>3, <3>1, <3>2, <3>3
  <2>4. ASSUME NEW sats \in Payouts, RewardPayout(sats) \/ RewardAgain(sats)
        PROVE  /\ hot' \in Nat /\ cold' \in Nat /\ pool' \in Pool
               /\ hot' + cold' + (pool'.shared + pool'.again) - pool'.received
                    = hot + cold + (pool.shared + pool.again) - pool.received
               /\ snap' \in Snapshot /\ SnapInv'
    <3>1. sats \in Nat /\ hot >= sats /\ hot' = hot - sats /\ cold' = cold /\ snap' = snap
      BY <1>2, <2>4 DEF RewardPayout, RewardAgain
    <3>2. /\ pool' \in Pool /\ pool'.received = pool.received
          /\ pool'.shared + pool'.again = (pool.shared + pool.again) + sats
      <4>1. CASE RewardPayout(sats)
        <5>1. pool' = [pool EXCEPT !.shared = pool.shared + sats]
          BY <4>1 DEF RewardPayout
        <5>2. /\ pool' \in Pool /\ pool'.received = pool.received
              /\ pool'.shared = pool.shared + sats /\ pool'.again = pool.again
          BY <1>3, <3>1, <5>1
        <5>3. QED
          BY <1>3, <3>1, <5>2
      <4>2. CASE RewardAgain(sats)
        <5>1. /\ pool' = [pool EXCEPT !.again = pool.again + sats]
              /\ pool.again + sats \in 0..MaxAgain
          BY <1>2, <1>3, <3>1, <4>2 DEF RewardAgain
        <5>2. /\ pool' \in Pool /\ pool'.received = pool.received
              /\ pool'.shared = pool.shared /\ pool'.again = pool.again + sats
          BY <1>3, <5>1
        <5>3. QED
          BY <1>3, <3>1, <5>2
      <4>3. QED
        BY <2>4, <4>1, <4>2
    <3>3. /\ hot' \in Nat /\ cold' \in Nat /\ supply' \in Nat
          /\ hot' + cold' <= hot + cold /\ supply' >= supply
      BY <1>1, <1>2, <3>1
    <3>4. snap' \in Snapshot /\ SnapInv'
      BY <3>1, <3>3, SnapKept
    <3>5. QED
      BY <1>2, <1>3, <3>1, <3>2, <3>3, <3>4
  <2>5. QED
    BY <2>1, <2>2, <2>3, <2>4
<1>5. TypeOK'
  BY <1>1, <1>4 DEF TypeOK
<1>6. /\ \A d \in Deposit : DepositInv(d)'
      /\ \A b \in Burn : BurnInv(b)'
      /\ CustodyInv' /\ SupplyInv'
  BY <1>1, <1>4, <1>5, BooksStay, CustodyStays, SupplyStays
<1>7. QED
  BY <1>4, <1>5, <1>6 DEF IInv

\* The worker reads, writes or fails.
LEMMA SnapshotStep ==
    ASSUME IInv, ReadFirst \/ StoreSnapshot \/ SnapshotFails
    PROVE  IInv'
<1>1. /\ TypeOK
      /\ UNCHANGED <<hot, cold, supply, arrived, minted, bounced, mintBook, sendBook, refunded,
                     pool>>
      /\ UNCHANGED <<mints, mintFiled, mintState, sends, sendFiled, sendState>>
  BY DEF IInv, ReadFirst, StoreSnapshot, SnapshotFails, mintBook, sendBook
<1>2. snap' \in Snapshot /\ doc' \in ReservesDoc /\ SnapInv'
  <2>1. hot \in Nat /\ cold \in Nat /\ supply \in Nat /\ doc \in ReservesDoc /\ NoSnapshot \in Snapshot
    BY <1>1 DEF TypeOK, NoSnapshot, Snapshot
  <2>2. CASE ReadFirst
    <3>1. /\ doc' = doc
          /\ snap' \in {[read |-> "custody", value |-> hot, aside |-> cold, burned |-> 0],
                        [read |-> "supply", value |-> supply, aside |-> 0, burned |-> 0]}
      BY <2>2 DEF ReadFirst
    <3>2. snap' \in Snapshot
      <4>1. /\ [read |-> "custody", value |-> hot, aside |-> cold, burned |-> 0] \in Snapshot
            /\ [read |-> "supply", value |-> supply, aside |-> 0, burned |-> 0] \in Snapshot
        BY <2>1 DEF Snapshot
      <4>2. QED
        BY <3>1, <4>1
    <3>3. SnapInv'
      <4>1. /\ snap'.read = "custody" => snap'.value = hot /\ snap'.aside = cold
            /\ snap'.read = "supply" => snap'.value = supply /\ snap'.burned = 0
        BY <3>1
      <4>2. QED
        BY <1>1, <2>1, <4>1 DEF SnapInv
    <3>4. QED
      BY <2>1, <3>1, <3>2, <3>3
  <2>3. CASE StoreSnapshot \/ SnapshotFails
    <3>1. snap' = NoSnapshot /\ doc' \in {doc, "healthy", "broken"}
      BY <2>3 DEF StoreSnapshot, SnapshotFails
    <3>2. doc' \in ReservesDoc
      BY <2>1, <3>1 DEF ReservesDoc
    <3>3. SnapInv'
      BY <3>1 DEF SnapInv, NoSnapshot
    <3>4. QED
      BY <2>1, <3>1, <3>2, <3>3
  <2>4. QED
    BY <2>2, <2>3
<1>3. TypeOK'
  BY <1>1, <1>2 DEF TypeOK
<1>4. /\ \A d \in Deposit : DepositInv(d)'
      /\ \A b \in Burn : BurnInv(b)'
      /\ CustodyInv' /\ SupplyInv'
  BY <1>1, <1>3, BooksStay, CustodyStays, SupplyStays
<1>5. QED
  BY <1>2, <1>3, <1>4 DEF IInv

LEMMA StutterStep ==
    ASSUME IInv, UNCHANGED vars
    PROVE  IInv'
<1>1. UNCHANGED <<hot, cold, supply, arrived, minted, bounced, mints, mintFiled, mintState,
                  sends, sendFiled, sendState, refunded, pool, snap, doc>>
  BY DEF vars, mintBook, sendBook
<1>2. TypeOK' /\ CustodyInv' /\ SupplyInv' /\ SnapInv'
  BY <1>1 DEF IInv, TypeOK, CustodyInv, SupplyInv, SnapInv, Held, Issued, Paid, Burnt
<1>3. (\A d \in Deposit : DepositInv(d)') /\ (\A b \in Burn : BurnInv(b)')
  BY <1>1 DEF IInv, DepositInv, BurnInv
<1>4. QED
  BY <1>2, <1>3 DEF IInv

LEMMA InitInv == Init => IInv
<1> SUFFICES ASSUME Init PROVE IInv
  OBVIOUS
<1>1. /\ hot = Endowment /\ cold = 0 /\ supply = SeedWei /\ arrived = {} /\ refunded = {}
      /\ minted = [d \in Deposit |-> {}] /\ bounced = [d \in Deposit |-> {}]
      /\ mints = [d \in Deposit |-> 0] /\ mintFiled = [d \in Deposit |-> 0]
      /\ mintState = [d \in Deposit |-> "open"]
      /\ sends = [b \in Burn |-> 0] /\ sendFiled = [b \in Burn |-> 0]
      /\ sendState = [b \in Burn |-> "open"]
      /\ pool = [received |-> 0, cycles |-> 0, planned |-> 0, shared |-> 0, again |-> 0]
      /\ snap = [read |-> "none", value |-> 0, aside |-> 0, burned |-> 0] /\ doc = "none"
  BY DEF Init, MintLedger!LedgerInit, SendLedger!LedgerInit, NoSnapshot
<1>2. /\ Endowment \in Nat /\ SeedWei \in Nat /\ MaxPays \in Nat /\ MaxReceived \in Nat
      /\ MaxCycles \in Nat /\ MaxAgain \in Nat /\ NetworkFee \in Nat
  BY ReservesAssumption
<1>3. TypeOK
  BY <1>1, <1>2 DEF TypeOK, PayoutState, Snapshot, ReservesDoc
<1>4. /\ Total(Held, Deposit) = 0 /\ Total(Issued, Deposit) = 0
      /\ Total(Paid, Burn) = 0 /\ Total(Burnt, Burn) = 0
  <2>1. Held = [d \in Deposit |-> 0]
    BY <1>1 DEF Held
  <2>2. Issued = [d \in Deposit |-> 0]
    BY <1>1, MintWeiBound, FS_EmptySet DEF Issued
  <2>3. Paid = [b \in Burn |-> 0]
    BY <1>1, <1>2, ReleaseSatsBound DEF Paid
  <2>4. Burnt = [b \in Burn |-> 0]
    BY <1>1 DEF Burnt
  <2>5. QED
    BY <2>1, <2>2, <2>3, <2>4, TotalZero, ReservesAssumption
<1>5. CustodyInv /\ SupplyInv
  BY <1>1, <1>2, <1>4 DEF CustodyInv, SupplyInv
<1>6. (\A d \in Deposit : DepositInv(d)) /\ (\A b \in Burn : BurnInv(b)) /\ SnapInv
  BY <1>1 DEF DepositInv, BurnInv, SnapInv
<1>7. QED
  BY <1>3, <1>5, <1>6 DEF IInv

LEMMA StepInv == IInv /\ [Next]_vars => IInv'
<1> SUFFICES ASSUME IInv, [Next]_vars PROVE IInv'
  OBVIOUS
<1>1. ASSUME NEW d \in Deposit, DepositArrives(d) \/ MintStep(d) \/ RefundDeposit(d)
      PROVE  IInv'
  BY <1>1, DepositArrivesStep, MintStepStep, RefundDepositStep
<1>2. ASSUME NEW d \in Deposit, NEW i \in 1..MaxPays, MintMined(d, i) \/ MintReverts(d, i)
      PROVE  IInv'
  BY <1>2, MintMinedStep, MintRevertsStep
<1>3. ASSUME NEW b \in Burn, BurnMined(b) \/ Release(b) \/ SendStep(b)
      PROVE  IInv'
  BY <1>3, BurnMinedStep, ReleaseStep, SendStepStep
<1>4. CASE \/ Sweep \/ RewardIncome \/ RewardCycle
           \/ \E sats \in Payouts : RewardPayout(sats) \/ RewardAgain(sats)
  BY <1>4, WalletStep
<1>5. CASE ReadFirst \/ StoreSnapshot \/ SnapshotFails
  BY <1>5, SnapshotStep
<1>6. CASE UNCHANGED vars
  BY <1>6, StutterStep
<1>7. QED
  BY <1>1, <1>2, <1>3, <1>4, <1>5, <1>6 DEF Next

\* The invariant holds in every reachable state.
THEOREM Invariance == Spec => []IInv
BY InitInv, StepInv, PTL DEF Spec

-----------------------------------------------------------------------------
(***************************************************************************)
(* The backing, entry by entry.                                            *)
(***************************************************************************)

\* What is due for an entry and what leaked out of it, as functions.
MintDues == [d \in Deposit |-> MintDue(d)]
RefundDues == [d \in Deposit |-> RefundDue(d)]
ExtraIssued == [d \in Deposit |-> ExtraMints(d)]
ReleaseDues == [b \in Burn |-> ReleaseDue(b)]
ExtraPaid == [b \in Burn |-> ExtraSends(b)]

\* Claims and Leaks are sums of them.
LEMMA ClaimsAndLeaks ==
    /\ Claims = supply + Total(MintDues, Deposit)
                  + SatsAsWei(Total(RefundDues, Deposit) + Total(ReleaseDues, Burn))
    /\ Leaks = Total(ExtraIssued, Deposit)
                 + SatsAsWei(Total(ExtraPaid, Burn) + OverShared + pool.again
                               + NetworkFee * Total(sends, Burn))
<1>1. MapThenSumSet(MintDue, Deposit) = Total(MintDues, Deposit)
  BY DEF Total, MapThenSumSet, MapThenFoldSet, MintDues
<1>2. MapThenSumSet(RefundDue, Deposit) = Total(RefundDues, Deposit)
  BY DEF Total, MapThenSumSet, MapThenFoldSet, RefundDues
<1>3. MapThenSumSet(ReleaseDue, Burn) = Total(ReleaseDues, Burn)
  BY DEF Total, MapThenSumSet, MapThenFoldSet, ReleaseDues
<1>4. MapThenSumSet(ExtraMints, Deposit) = Total(ExtraIssued, Deposit)
  BY DEF Total, MapThenSumSet, MapThenFoldSet, ExtraIssued
<1>5. MapThenSumSet(ExtraSends, Burn) = Total(ExtraPaid, Burn)
  BY DEF Total, MapThenSumSet, MapThenFoldSet, ExtraPaid
<1>6. NetworkFees = NetworkFee * Total(sends, Burn)
  BY DEF Total, NetworkFees
<1>7. QED
  BY <1>1, <1>2, <1>3, <1>4, <1>5, <1>6 DEF Claims, Leaks

\* What was minted for d, and what is due for it, is covered by what it brought in.
LEMMA DepositBalance ==
    ASSUME IInv, NEW d \in Deposit
    PROVE  /\ MintDues[d] \in Nat /\ RefundDues[d] \in Nat /\ ExtraIssued[d] \in Nat
           /\ Issued[d] + MintDues[d] + SatsToWei * RefundDues[d]
                <= ExtraIssued[d] + SatsToWei * Held[d]
<1> DEFINE n == Cardinality(minted[d])
           extra == Cardinality(minted[d] \ {OnFile(d)})
           w == MintWei(d)
           k == SatsToWei * Sats[d]
<1>1. DepositInv(d) /\ TypeOK
  BY DEF IInv
<1>2. /\ n \in Nat /\ extra \in Nat
      /\ OnFile(d) \in minted[d] => n = extra + 1
      /\ OnFile(d) \notin minted[d] => n = extra
  <2>1. IsFiniteSet(minted[d]) /\ n \in Nat
    BY <1>1, EntryType
  <2>2. IsFiniteSet(minted[d] \ {OnFile(d)})
        /\ extra = IF OnFile(d) \in minted[d] THEN n - 1 ELSE n
    BY <2>1, FS_RemoveElement
  <2>3. extra \in Nat
    BY <2>2, FS_CardinalityType
  <2> HIDE DEF n, extra
  <2>4. QED
    BY <2>1, <2>2, <2>3
<1>3. w \in Nat /\ k \in Nat /\ w <= k /\ Sats[d] \in Nat
  <2>1. Sats[d] * SatsToWei = SatsToWei * Sats[d]
    BY MintWeiBound, AmountsAssumption
  <2>2. QED
    BY <2>1, MintWeiBound DEF SatsAsWei
<1>4. Issued[d] = w * n /\ ExtraIssued[d] = w * extra /\ w * n \in Nat /\ w * extra \in Nat
  <2>1. Issued[d] = w * n /\ ExtraIssued[d] = w * extra
    BY DEF Issued, ExtraIssued, ExtraMints
  <2> HIDE DEF w, n, extra
  <2>2. QED
    BY <1>2, <1>3, <2>1
<1>5. MintDues[d] \in {0, w} /\ RefundDues[d] \in {0, Sats[d]} /\ Held[d] \in {0, Sats[d]}
  BY DEF MintDues, MintDue, RefundDues, RefundDue, Held
<1>6. OnFile(d) \in minted[d] =>
          MintDues[d] = 0 /\ RefundDues[d] = 0 /\ Held[d] = Sats[d]
  <2> SUFFICES ASSUME OnFile(d) \in minted[d]
               PROVE  MintDues[d] = 0 /\ RefundDues[d] = 0 /\ Held[d] = Sats[d]
    OBVIOUS
  <2>1. OnFile(d) \notin bounced[d] /\ mints[d] # 0
    BY <1>1, ReservesAssumption DEF DepositInv, TypeOK
  <2>2. mintState[d] # "void"
    BY <1>1, <2>1 DEF DepositInv, OnFile
  <2>3. d \in arrived \ refunded
    BY <1>1, <2>1, <2>2 DEF DepositInv
  <2>4. QED
    BY <2>1, <2>2, <2>3 DEF MintDues, MintDue, RefundDues, RefundDue, Held
<1>7. OnFile(d) \notin minted[d] =>
          \/ MintDues[d] = 0 /\ RefundDues[d] = 0
          \/ MintDues[d] = w /\ RefundDues[d] = 0 /\ Held[d] = Sats[d]
          \/ MintDues[d] = 0 /\ RefundDues[d] = Sats[d] /\ Held[d] = Sats[d]
  BY <1>1 DEF DepositInv, MintDues, MintDue, RefundDues, RefundDue, Held
<1>8. MintDues[d] \in Nat /\ RefundDues[d] \in Nat /\ ExtraIssued[d] \in Nat
  <2> HIDE DEF w, n, extra
  <2>1. QED
    BY <1>3, <1>4, <1>5
<1>9. SatsToWei * 0 = 0
  BY AmountsAssumption
<1>10. Held[d] = 0 \/ Held[d] = Sats[d]
  BY <1>5
<1>11. CASE OnFile(d) \in minted[d]
  <2>1. /\ Issued[d] = w * n /\ ExtraIssued[d] = w * extra
        /\ MintDues[d] = 0 /\ SatsToWei * RefundDues[d] = 0 /\ SatsToWei * Held[d] = k
        /\ n = extra + 1
    BY <1>2, <1>4, <1>6, <1>9, <1>11
  <2> HIDE DEF w, n, extra, k
  <2>2. w * n = w * extra + w
    <3>1. w * (extra + 1) = w * extra + w
      BY <1>2, <1>3
    <3>2. QED
      BY <2>1, <3>1
  <2>3. Issued[d] + MintDues[d] + SatsToWei * RefundDues[d]
          <= ExtraIssued[d] + SatsToWei * Held[d]
    BY <1>3, <1>4, <2>1, <2>2
  <2>4. QED
    BY <1>8, <2>3
<1>12. CASE OnFile(d) \notin minted[d]
  <2>1. Issued[d] = ExtraIssued[d] /\ ExtraIssued[d] \in Nat
    BY <1>2, <1>4, <1>8, <1>12
  <2>2. /\ SatsToWei * Held[d] \in {0, k}
        /\ MintDues[d] + SatsToWei * RefundDues[d] \in {0, w, k}
        /\ MintDues[d] + SatsToWei * RefundDues[d] = 0 \/ SatsToWei * Held[d] = k
    <3> HIDE DEF w
    <3>1. 0 + k = k /\ w + 0 = w /\ 0 + 0 = 0
      BY <1>3
    <3>2. QED
      BY <1>7, <1>9, <1>10, <1>12, <3>1
  <2> DEFINE due == MintDues[d] + SatsToWei * RefundDues[d]
             held == SatsToWei * Held[d]
  <2>3. due \in Nat /\ held \in Nat /\ due <= held
    <3> HIDE DEF w, k
    <3>1. QED
      BY <1>3, <2>2
  <2>4. Issued[d] + MintDues[d] + SatsToWei * RefundDues[d] = ExtraIssued[d] + due
    <3>1. SatsToWei * RefundDues[d] \in Nat
      BY <1>8, AmountsAssumption
    <3>2. QED
      BY <1>8, <2>1, <3>1
  <2>5. ExtraIssued[d] + due <= ExtraIssued[d] + held
    <3> HIDE DEF due, held
    <3>1. QED
      BY <2>1, <2>3
  <2>6. QED
    BY <1>8, <2>4, <2>5
<1>13. QED
  BY <1>11, <1>12

\* What was paid for b, and what is due for it, is covered by what it took.
LEMMA BurnBalance ==
    ASSUME IInv, NEW b \in Burn
    PROVE  /\ ReleaseDues[b] \in Nat /\ ExtraPaid[b] \in Nat /\ sends[b] \in Nat
           /\ SatsToWei * Paid[b] + SatsToWei * ReleaseDues[b]
                <= Burnt[b] + SatsToWei * ExtraPaid[b] + (SatsToWei * NetworkFee) * sends[b]
<1> DEFINE n == sends[b]
           r == ReleaseSats(b)
           k == SatsToWei
           f == NetworkFee
           w == Wei[b]
<1>1. BurnInv(b) /\ TypeOK
  BY DEF IInv
<1>2. k \in Nat /\ f \in Nat /\ n \in Nat /\ r \in Nat /\ w \in Nat /\ k * r <= w
  <2>1. SatsAsWei(r) = k * r
    BY AmountsAssumption, ReleaseSatsBound DEF SatsAsWei
  <2>2. QED
    BY <1>1, <2>1, AmountsAssumption, ReservesAssumption, ReleaseSatsBound DEF TypeOK
<1>3. Paid[b] = (r + f) * n
  BY DEF Paid
<1>4. ReleaseDues[b] \in {0, r} /\ Burnt[b] \in {0, w}
  BY DEF ReleaseDues, ReleaseDue, Burnt
<1>5. CASE n = 0
  <2>1. Paid[b] = 0 /\ ExtraPaid[b] = 0 /\ (k * f) * n = 0
    <3>1. NonNegative(n - 1) = 0
      BY <1>5 DEF NonNegative
    <3>2. ExtraPaid[b] = r * 0
      BY <3>1 DEF ExtraPaid, ExtraSends
    <3> HIDE DEF n, r, k, f
    <3>3. (r + f) * 0 = 0 /\ r * 0 = 0 /\ (k * f) * 0 = 0
      BY <1>2
    <3>4. QED
      BY <1>3, <1>5, <3>2, <3>3
  <2>2. ReleaseDues[b] = 0 \/ (ReleaseDues[b] = r /\ Burnt[b] = w)
    BY DEF ReleaseDues, ReleaseDue, Burnt
  <2>3. ReleaseDues[b] \in Nat /\ Burnt[b] \in Nat /\ k * ReleaseDues[b] <= Burnt[b]
    <3> HIDE DEF r, k, w
    <3>1. k * 0 = 0
      BY <1>2
    <3>2. QED
      BY <1>2, <1>4, <2>2, <3>1
  <2> HIDE DEF n, r, f, w
  <2>4. k * 0 = 0 /\ k * ReleaseDues[b] \in Nat
    BY <1>2, <2>3
  <2>5. k * Paid[b] + k * ReleaseDues[b] <= Burnt[b] + k * ExtraPaid[b] + (k * f) * n
    BY <2>1, <2>3, <2>4
  <2>6. QED
    BY <1>2, <2>1, <2>3, <2>5 DEF n, f
<1>6. CASE n # 0
  <2>1. ReleaseDues[b] = 0
    BY <1>6 DEF ReleaseDues, ReleaseDue
  <2>2. Burnt[b] = w
    BY <1>1, <1>6 DEF BurnInv, Burnt
  <2>3. ExtraPaid[b] = r * (n - 1)
    <3>1. NonNegative(n - 1) = n - 1
      <4> HIDE DEF n
      <4>1. QED
        BY <1>2, <1>6 DEF NonNegative
    <3>2. QED
      BY <3>1 DEF ExtraPaid, ExtraSends
  <2> HIDE DEF n, r, k, f, w
  <2>4. n - 1 \in Nat /\ r * (n - 1) \in Nat
    BY <1>2, <1>6
  <2>5. k * ((r + f) * n) = k * r + k * (r * (n - 1)) + (k * f) * n
    <3>1. (r + f) * n = r + r * (n - 1) + f * n
      BY <1>2
    <3>2. f * n \in Nat
      BY <1>2
    <3>3. k * (r + r * (n - 1) + f * n) = k * r + k * (r * (n - 1)) + k * (f * n)
      BY <1>2, <2>4, <3>2
    <3>4. k * (f * n) = (k * f) * n
      BY <1>2
    <3>5. QED
      BY <3>1, <3>3, <3>4
  <2>6. /\ k * r \in Nat /\ k * (r * (n - 1)) \in Nat /\ (k * f) * n \in Nat /\ k * 0 = 0
    BY <1>2, <2>4
  <2>7. k * Paid[b] + k * ReleaseDues[b] <= Burnt[b] + k * ExtraPaid[b] + (k * f) * n
    BY <1>2, <1>3, <2>1, <2>2, <2>3, <2>5, <2>6
  <2>8. ReleaseDues[b] \in Nat /\ ExtraPaid[b] \in Nat
    BY <2>1, <2>3, <2>4
  <2>9. QED
    BY <1>2, <2>7, <2>8 DEF n, k, f
<1>7. QED
  BY <1>5, <1>6

\* The same of the sums.
LEMMA DepositsBalance ==
    ASSUME IInv
    PROVE  /\ Total(MintDues, Deposit) \in Nat /\ Total(RefundDues, Deposit) \in Nat
           /\ Total(ExtraIssued, Deposit) \in Nat
           /\ Total(Issued, Deposit) + Total(MintDues, Deposit)
                  + SatsToWei * Total(RefundDues, Deposit)
                <= Total(ExtraIssued, Deposit) + SatsToWei * Total(Held, Deposit)
<1> DEFINE refunds == [d \in Deposit |-> SatsToWei * RefundDues[d]]
           held == [d \in Deposit |-> SatsToWei * Held[d]]
           dues == [d \in Deposit |-> MintDues[d] + refunds[d]]
           claims == [d \in Deposit |-> Issued[d] + dues[d]]
           backing == [d \in Deposit |-> ExtraIssued[d] + held[d]]
<1>1. IsFiniteSet(Deposit) /\ SatsToWei \in Int /\ SatsToWei \in Nat
  BY ReservesAssumption, AmountsAssumption
<1>2. \A d \in Deposit : /\ MintDues[d] \in Nat /\ RefundDues[d] \in Nat /\ ExtraIssued[d] \in Nat
                         /\ Issued[d] \in Nat /\ Held[d] \in Nat
  BY DepositBalance, EntryType DEF IInv
<1>3. \A d \in Deposit : refunds[d] \in Nat /\ held[d] \in Nat
  BY <1>1, <1>2
<1>4. \A d \in Deposit : dues[d] \in Nat /\ backing[d] \in Nat
  BY <1>2, <1>3
<1>5. \A d \in Deposit : claims[d] \in Nat
  BY <1>2, <1>4
<1>6. \A d \in Deposit : claims[d] <= backing[d]
  <2>1. ASSUME NEW d \in Deposit PROVE claims[d] <= backing[d]
    <3>1. claims[d] = Issued[d] + (MintDues[d] + refunds[d])
          /\ backing[d] = ExtraIssued[d] + held[d]
      OBVIOUS
    <3>2. Issued[d] + MintDues[d] + refunds[d] <= ExtraIssued[d] + held[d]
      BY DepositBalance
    <3>3. /\ refunds[d] \in Nat /\ held[d] \in Nat /\ MintDues[d] \in Nat /\ Issued[d] \in Nat
          /\ ExtraIssued[d] \in Nat
      BY <1>2, <1>3
    <3> HIDE DEF refunds, held, claims, backing
    <3>4. QED
      BY <3>1, <3>2, <3>3
  <2>2. QED
    BY <2>1
<1>7. /\ \A d \in Deposit : refunds[d] = SatsToWei * RefundDues[d]
      /\ \A d \in Deposit : held[d] = SatsToWei * Held[d]
      /\ \A d \in Deposit : dues[d] = MintDues[d] + refunds[d]
      /\ \A d \in Deposit : claims[d] = Issued[d] + dues[d]
      /\ \A d \in Deposit : backing[d] = ExtraIssued[d] + held[d]
  OBVIOUS
<1> HIDE DEF refunds, held, dues, claims, backing
<1>8. Total(refunds, Deposit) = SatsToWei * Total(RefundDues, Deposit)
  BY <1>1, <1>2, <1>7, TotalScaled
<1>9. Total(held, Deposit) = SatsToWei * Total(Held, Deposit)
  BY <1>1, <1>2, <1>7, TotalScaled
<1>10. Total(dues, Deposit) = Total(MintDues, Deposit) + Total(refunds, Deposit)
  BY <1>1, <1>2, <1>3, <1>7, TotalPlus
<1>11. Total(claims, Deposit) = Total(Issued, Deposit) + Total(dues, Deposit)
  BY <1>1, <1>2, <1>4, <1>7, TotalPlus
<1>12. Total(backing, Deposit) = Total(ExtraIssued, Deposit) + Total(held, Deposit)
  BY <1>1, <1>2, <1>3, <1>7, TotalPlus
<1>13. Total(claims, Deposit) <= Total(backing, Deposit)
  BY <1>1, <1>4, <1>5, <1>6, TotalMonotonic
<1>14. /\ Total(MintDues, Deposit) \in Nat /\ Total(RefundDues, Deposit) \in Nat
       /\ Total(ExtraIssued, Deposit) \in Nat
  BY <1>1, <1>2, TotalNat
<1>15. Total(Issued, Deposit) \in Nat /\ Total(refunds, Deposit) \in Nat
  BY <1>1, <1>2, <1>3, TotalNat
<1>16. Total(Issued, Deposit) + Total(MintDues, Deposit) + Total(refunds, Deposit)
         <= Total(ExtraIssued, Deposit) + Total(held, Deposit)
  BY <1>10, <1>11, <1>12, <1>13, <1>14, <1>15
<1>17. QED
  BY <1>8, <1>9, <1>14, <1>16

LEMMA BurnsBalance ==
    ASSUME IInv
    PROVE  /\ Total(ReleaseDues, Burn) \in Nat /\ Total(ExtraPaid, Burn) \in Nat
           /\ Total(sends, Burn) \in Nat
           /\ SatsToWei * Total(Paid, Burn) + SatsToWei * Total(ReleaseDues, Burn)
                <= Total(Burnt, Burn) + SatsToWei * Total(ExtraPaid, Burn)
                     + (SatsToWei * NetworkFee) * Total(sends, Burn)
<1> DEFINE paid == [b \in Burn |-> SatsToWei * Paid[b]]
           dues == [b \in Burn |-> SatsToWei * ReleaseDues[b]]
           extra == [b \in Burn |-> SatsToWei * ExtraPaid[b]]
           fees == [b \in Burn |-> (SatsToWei * NetworkFee) * sends[b]]
           claims == [b \in Burn |-> paid[b] + dues[b]]
           some == [b \in Burn |-> Burnt[b] + extra[b]]
           backing == [b \in Burn |-> some[b] + fees[b]]
<1>1. IsFiniteSet(Burn) /\ SatsToWei \in Nat /\ SatsToWei * NetworkFee \in Nat
  BY ReservesAssumption, AmountsAssumption
<1>2. \A b \in Burn : /\ ReleaseDues[b] \in Nat /\ ExtraPaid[b] \in Nat /\ sends[b] \in Nat
                      /\ Paid[b] \in Nat /\ Burnt[b] \in Nat
  BY BurnBalance, EntryType DEF IInv
<1>3. \A b \in Burn : /\ paid[b] \in Nat /\ dues[b] \in Nat /\ extra[b] \in Nat
                      /\ fees[b] \in Nat
  <2>1. ASSUME NEW b \in Burn, NEW k \in Nat
        PROVE  /\ k * Paid[b] \in Nat /\ k * ReleaseDues[b] \in Nat
               /\ k * ExtraPaid[b] \in Nat /\ k * sends[b] \in Nat
    BY <1>2
  <2>2. QED
    BY <1>1, <2>1
<1>4. \A b \in Burn : claims[b] \in Nat /\ some[b] \in Nat
  BY <1>2, <1>3
<1>5. \A b \in Burn : backing[b] \in Nat
  BY <1>3, <1>4
<1>6. \A b \in Burn : claims[b] <= backing[b]
  <2>1. ASSUME NEW b \in Burn PROVE claims[b] <= backing[b]
    <3>1. claims[b] = paid[b] + dues[b] /\ backing[b] = Burnt[b] + extra[b] + fees[b]
      OBVIOUS
    <3>2. paid[b] + dues[b] <= Burnt[b] + extra[b] + fees[b]
      BY BurnBalance
    <3> HIDE DEF paid, dues, extra, fees, claims, backing
    <3>3. QED
      BY <3>1, <3>2
  <2>2. QED
    BY <2>1
<1>7. /\ \A b \in Burn : paid[b] = SatsToWei * Paid[b]
      /\ \A b \in Burn : dues[b] = SatsToWei * ReleaseDues[b]
      /\ \A b \in Burn : extra[b] = SatsToWei * ExtraPaid[b]
      /\ \A b \in Burn : fees[b] = (SatsToWei * NetworkFee) * sends[b]
      /\ \A b \in Burn : claims[b] = paid[b] + dues[b]
      /\ \A b \in Burn : some[b] = Burnt[b] + extra[b]
      /\ \A b \in Burn : backing[b] = some[b] + fees[b]
  OBVIOUS
<1> HIDE DEF paid, dues, extra, fees, claims, some, backing
<1>8. Total(paid, Burn) = SatsToWei * Total(Paid, Burn)
  BY <1>1, <1>2, <1>7, TotalScaled
<1>9. Total(dues, Burn) = SatsToWei * Total(ReleaseDues, Burn)
  BY <1>1, <1>2, <1>7, TotalScaled
<1>10. Total(extra, Burn) = SatsToWei * Total(ExtraPaid, Burn)
  BY <1>1, <1>2, <1>7, TotalScaled
<1>11. Total(fees, Burn) = (SatsToWei * NetworkFee) * Total(sends, Burn)
  <2> DEFINE k == SatsToWei * NetworkFee
  <2>1. k \in Int /\ \A b \in Burn : sends[b] \in Int /\ fees[b] = k * sends[b]
    BY <1>1, <1>2, <1>7
  <2> HIDE DEF k
  <2>2. Total(fees, Burn) = k * Total(sends, Burn)
    BY <1>1, <2>1, TotalScaled
  <2>3. QED
    BY <2>2 DEF k
<1>12. Total(claims, Burn) = Total(paid, Burn) + Total(dues, Burn)
  BY <1>1, <1>3, <1>7, TotalPlus
<1>13. Total(some, Burn) = Total(Burnt, Burn) + Total(extra, Burn)
  BY <1>1, <1>2, <1>3, <1>7, TotalPlus
<1>14. Total(backing, Burn) = Total(some, Burn) + Total(fees, Burn)
  BY <1>1, <1>3, <1>4, <1>7, TotalPlus
<1>15. Total(claims, Burn) <= Total(backing, Burn)
  BY <1>1, <1>4, <1>5, <1>6, TotalMonotonic
<1>16. /\ Total(ReleaseDues, Burn) \in Nat /\ Total(ExtraPaid, Burn) \in Nat
       /\ Total(sends, Burn) \in Nat
  BY <1>1, <1>2, TotalNat
<1>17. QED
  BY <1>8, <1>9, <1>10, <1>11, <1>12, <1>13, <1>14, <1>15, <1>16

-----------------------------------------------------------------------------
(***************************************************************************)
(* The theorems.                                                           *)
(***************************************************************************)

\* Every balance, document and outcome has its type; no balance and no supply
\* ever goes below zero.
THEOREM TypeCorrect == Spec => []TypeOK
<1>1. IInv => TypeOK
  BY DEF IInv
<1>2. QED
  BY <1>1, Invariance, PTL

\* The two sides of the books, multiplied out: k is SatsToWei, the capitals are
\* amounts of FAIR and x, y the part of the leaks and of the claims in WFAIR.
LEMMA Multiplied ==
    ASSUME NEW k \in Nat, NEW custody \in Int, NEW endowed \in Int, NEW received \in Int,
           NEW shared \in Int, NEW over \in Int, NEW held \in Int, NEW paid \in Int,
           NEW extra \in Int, NEW fees \in Int, NEW refunds \in Int, NEW releases \in Int,
           NEW x \in Int, NEW y \in Int,
           custody + shared + paid = endowed + received + held,
           over >= shared - received,
           k * endowed + k * held + k * extra + k * fees + x
             >= k * paid + k * refunds + k * releases + y
    PROVE  custody * k + (x + (extra + over + fees) * k) >= y + (refunds + releases) * k
<1>1. custody = endowed + received + held - shared - paid
  OBVIOUS
<1>2. custody * k = k * endowed + k * received + k * held - k * shared - k * paid
  BY <1>1
<1>3. (extra + over + fees) * k = k * extra + k * over + k * fees
  OBVIOUS
<1>4. (refunds + releases) * k = k * refunds + k * releases
  OBVIOUS
<1>5. k * over >= k * shared - k * received
  <2>1. k * (over - (shared - received)) >= 0
    <3>1. over - (shared - received) \in Nat
      OBVIOUS
    <3>2. QED
      BY <3>1
  <2>2. k * (over - (shared - received)) = k * over - (k * shared - k * received)
    OBVIOUS
  <2>3. k * over \in Int /\ k * shared \in Int /\ k * received \in Int
    OBVIOUS
  <2>4. QED
    BY <2>1, <2>2, <2>3
<1> DEFINE ke == k * endowed
           kr == k * received
           kh == k * held
           ks == k * shared
           kp == k * paid
           kx == k * extra
           ko == k * over
           kf == k * fees
           kd == k * refunds
           kl == k * releases
<1>6. /\ ke \in Int /\ kr \in Int /\ kh \in Int /\ ks \in Int /\ kp \in Int
      /\ kx \in Int /\ ko \in Int /\ kf \in Int /\ kd \in Int /\ kl \in Int
  OBVIOUS
<1>7. ke + kh + kx + kf + x >= kp + kd + kl + y
  OBVIOUS
<1> HIDE DEF ke, kr, kh, ks, kp, kx, ko, kf, kd, kl
<1>8. (ke + kr + kh - ks - kp) + (x + (kx + ko + kf)) >= y + (kd + kl)
  <2>1. ko >= ks - kr
    BY <1>5 DEF ko, ks, kr
  <2>2. QED
    BY <1>6, <1>7, <2>1
<1>9. QED
  BY <1>2, <1>3, <1>4, <1>8 DEF ke, kr, kh, ks, kp, kx, ko, kf, kd, kl

\* WFAIR is a 1:1 wrapped representation of FairCoin: what the node's wallet and the
\* deposit addresses hold covers the supply and every mint, refund and release still
\* due, but for the amounts of the leaks that are named (forgotten payments, income
\* shared out twice, reward shares paid again, network fees), whatever the amounts, the fee and the order of both directions.
THEOREM BackedAlways == Spec => []Backed
<1>1. ASSUME IInv PROVE Backed
  <2> DEFINE H == Total(Held, Deposit)
             I == Total(Issued, Deposit)
             P == Total(Paid, Burn)
             B == Total(Burnt, Burn)
             M == Total(MintDues, Deposit)
             R == Total(RefundDues, Deposit)
             L == Total(ReleaseDues, Burn)
             XM == Total(ExtraIssued, Deposit)
             XP == Total(ExtraPaid, Burn)
             N == Total(sends, Burn)
             F == NetworkFee * N
             gone == pool.shared + pool.again
             over == OverShared + pool.again
  <2>1. /\ H \in Nat /\ I \in Nat /\ P \in Nat /\ B \in Nat
        /\ M \in Nat /\ R \in Nat /\ L \in Nat /\ XM \in Nat /\ XP \in Nat /\ N \in Nat
    BY <1>1, SumType, DepositsBalance, BurnsBalance DEF IInv
  <2>2. /\ SatsToWei \in Nat /\ Endowment \in Nat /\ SeedWei \in Nat /\ NetworkFee \in Nat
        /\ hot \in Nat /\ cold \in Nat /\ supply \in Nat
        /\ pool.shared \in Nat /\ pool.again \in Nat /\ pool.received \in Nat
    BY <1>1, AmountsAssumption, ReservesAssumption DEF IInv, TypeOK
  <2>3. SatsToWei * Endowment >= SeedWei
    BY <2>2, ReservesAssumption DEF SatsAsWei
  <2>4. I + M + SatsToWei * R <= XM + SatsToWei * H
    BY <1>1, DepositsBalance
  <2>5. SatsToWei * P + SatsToWei * L <= B + SatsToWei * XP + (SatsToWei * NetworkFee) * N
    BY <1>1, BurnsBalance
  <2>6. (hot + cold) + gone + P = Endowment + pool.received + H
    BY <1>1, <2>1, <2>2 DEF IInv, CustodyInv
  <2>7. supply + B = SeedWei + I
    BY <1>1 DEF IInv, SupplyInv
  <2>8. gone \in Int /\ over \in Int /\ over >= gone - pool.received
    <3>1. OverShared \in Int /\ OverShared >= pool.shared - pool.received
      BY <2>2 DEF OverShared, NonNegative
    <3>2. QED
      BY <2>2, <3>1
  <2>9. F \in Int /\ SatsToWei * F = (SatsToWei * NetworkFee) * N
    <3> HIDE DEF N
    <3>1. QED
      BY <2>1, <2>2
  <2>10. /\ Claims = supply + M + (R + L) * SatsToWei
         /\ Leaks = XM + (XP + over + F) * SatsToWei
    <3>1. OverShared \in Int
      BY <2>2 DEF OverShared, NonNegative
    <3>2. XP + OverShared + pool.again + F = XP + over + F
      <4> HIDE DEF F, XP
      <4>1. QED
        BY <2>1, <2>2, <2>9, <3>1
    <3>3. QED
      BY <3>2, ClaimsAndLeaks DEF SatsAsWei
  <2> HIDE DEF H, I, P, B, M, R, L, XM, XP, N, F, gone, over
  <2>11. SatsToWei * Endowment + SatsToWei * H + SatsToWei * XP + SatsToWei * F + XM
           >= SatsToWei * P + SatsToWei * R + SatsToWei * L + (supply + M)
    <3> DEFINE ke == SatsToWei * Endowment
               kh == SatsToWei * H
               kx == SatsToWei * XP
               kf == SatsToWei * F
               kp == SatsToWei * P
               kr == SatsToWei * R
               kl == SatsToWei * L
    <3>1. /\ ke \in Int /\ kh \in Int /\ kx \in Int /\ kf \in Int /\ kp \in Int
          /\ kr \in Int /\ kl \in Int
      BY <2>1, <2>2, <2>9
    <3>2. ke >= SeedWei /\ I + M + kr <= XM + kh /\ kp + kl <= B + kx + kf
      BY <2>3, <2>4, <2>5, <2>9
    <3> HIDE DEF ke, kh, kx, kf, kp, kr, kl
    <3>3. ke + kh + kx + kf + XM >= kp + kr + kl + (supply + M)
      BY <2>1, <2>2, <2>7, <3>1, <3>2
    <3>4. QED
      BY <3>3 DEF ke, kh, kx, kf, kp, kr, kl
  <2>12. hot + cold \in Int /\ supply + M \in Int
    BY <2>1, <2>2
  <2>13. (hot + cold) * SatsToWei + (XM + (XP + over + F) * SatsToWei)
           >= (supply + M) + (R + L) * SatsToWei
    BY <2>1, <2>2, <2>6, <2>8, <2>9, <2>11, <2>12, Multiplied
  <2>14. QED
    BY <2>10, <2>13 DEF Backed, SatsAsWei
<1>2. IInv => Backed
  BY <1>1
<1>3. QED
  BY <1>2, Invariance, PTL

\* Whole sats of wei, multiplied out, are never more than the wei.
LEMMA WholeSats ==
    ASSUME NEW k \in Nat \ {0}, NEW w \in Nat, NEW s \in Nat
    PROVE  /\ (w \div k) \in Nat
           /\ ((w \div k) - s) * k \in Int
           /\ ((w \div k) - s) * k <= w - s * k
           /\ (w \div k) - s > 0 => ((w \div k) - s) * k > 0
<1> DEFINE q == w \div k
<1>1. q \in Nat /\ q * k <= w
  OBVIOUS
<1> HIDE DEF q
<1>2. (q - s) * k = q * k - s * k /\ q * k \in Nat /\ s * k \in Nat
  BY <1>1
<1>3. q - s > 0 => (q - s) * k > 0
  <2>1. ASSUME q - s > 0 PROVE (q - s) * k > 0
    <3>1. PICK m \in Nat : q = s + 1 + m
      <4>1. q - s - 1 \in Nat /\ q = s + 1 + (q - s - 1)
        BY <1>1, <2>1
      <4>2. QED
        BY <4>1
    <3>2. q * k = s * k + k + m * k /\ m * k \in Nat
      BY <1>1, <3>1
    <3>3. QED
      BY <1>2, <3>2
  <2>2. QED
    BY <2>1
<1>4. QED
  BY <1>1, <1>2, <1>3 DEF q

\* When the peg is called broken, some WFAIR of the supply that was read is not covered
\* by the custody that was read: with the claims beside the supply, by no more than was
\* left aside, has leaked or was burned in between.
LEMMA AlarmBalance ==
    ASSUME IInv, Backed, StoreSnapshot, doc' = "broken"
    PROVE  /\ Shortfall > 0
           /\ Shortfall + (Claims - supply) <= SatsAsWei(Aside) + Leaks + snap.burned
<1>1. /\ hot \in Nat /\ cold \in Nat /\ supply \in Nat /\ SatsToWei \in Nat \ {0}
      /\ snap \in Snapshot /\ SnapInv
  BY AmountsAssumption DEF IInv, TypeOK
<1>2. /\ snap.value \in Nat /\ snap.aside \in Nat /\ snap.burned \in Nat
      /\ snap.read \in {"custody", "supply"}
  BY <1>1 DEF Snapshot, StoreSnapshot
<1> DEFINE custody == fairCustodySats
           wei == wfairSupplyWei
           aside == Aside
<1>3. /\ custody \in Nat /\ wei \in Nat /\ aside \in Nat
      /\ hot + cold <= custody + aside
      /\ wei <= supply + snap.burned
  <2>1. CASE snap.read = "custody"
    <3>1. custody = snap.value /\ wei = supply /\ aside = snap.aside
      BY <2>1 DEF fairCustodySats, wfairSupplyWei, Aside
    <3>2. hot + cold <= snap.value + snap.aside
      BY <1>1, <2>1 DEF SnapInv
    <3>3. QED
      BY <1>1, <1>2, <3>1, <3>2
  <2>2. CASE snap.read = "supply"
    <3>1. custody = hot /\ wei = snap.value /\ aside = cold
      BY <2>2 DEF fairCustodySats, wfairSupplyWei, Aside
    <3>2. snap.value <= supply + snap.burned
      BY <1>1, <2>2 DEF SnapInv
    <3>3. QED
      BY <1>1, <1>2, <3>1, <3>2
  <2>3. QED
    BY <1>2, <2>1, <2>2
<1>4. /\ (wei \div SatsToWei) - custody > 0
      /\ Shortfall = ((wei \div SatsToWei) - custody) * SatsToWei
  <2>1. ~(custody - (wei \div SatsToWei) >= 0)
    BY DEF StoreSnapshot, pegHealthy, wfairSupplySats, WeiToSats
  <2>2. Shortfall = ((wei \div SatsToWei) - custody) * SatsToWei
    BY DEF Shortfall, SatsAsWei, wfairSupplySats, WeiToSats
  <2> HIDE DEF wei, custody
  <2>3. (wei \div SatsToWei) \in Nat
    BY <1>1, <1>3, WholeSats
  <2>4. QED
    BY <1>3, <2>1, <2>2, <2>3
<1> HIDE DEF wei, custody, aside
<1>5. /\ Shortfall \in Int /\ Shortfall > 0
      /\ Shortfall <= wei - custody * SatsToWei
  BY <1>1, <1>3, <1>4, WholeSats
<1>6. (hot + cold) * SatsToWei <= custody * SatsToWei + aside * SatsToWei
  <2>1. PICK m \in Nat : custody + aside = hot + cold + m
    <3>1. custody + aside - (hot + cold) \in Nat
      BY <1>1, <1>3
    <3>2. custody + aside = hot + cold + (custody + aside - (hot + cold))
      BY <1>1, <1>3
    <3>3. QED
      BY <3>1, <3>2
  <2>2. custody * SatsToWei + aside * SatsToWei = (hot + cold) * SatsToWei + m * SatsToWei
    <3>1. (custody + aside) * SatsToWei = (hot + cold + m) * SatsToWei
      BY <2>1
    <3>2. (custody + aside) * SatsToWei = custody * SatsToWei + aside * SatsToWei
      BY <1>1, <1>3
    <3>3. (hot + cold + m) * SatsToWei = (hot + cold) * SatsToWei + m * SatsToWei
      BY <1>1
    <3>4. QED
      BY <3>1, <3>2, <3>3
  <2>3. /\ m * SatsToWei \in Nat /\ (hot + cold) * SatsToWei \in Nat
    BY <1>1
  <2>4. QED
    BY <2>2, <2>3
<1>7. Claims \in Int /\ Leaks \in Int
  <2> DEFINE M == Total(MintDues, Deposit)
             R == Total(RefundDues, Deposit)
             L == Total(ReleaseDues, Burn)
             XM == Total(ExtraIssued, Deposit)
             XP == Total(ExtraPaid, Burn)
             N == Total(sends, Burn)
  <2>1. M \in Nat /\ R \in Nat /\ L \in Nat /\ XM \in Nat /\ XP \in Nat /\ N \in Nat
    BY DepositsBalance, BurnsBalance
  <2>2. /\ Claims = supply + M + (R + L) * SatsToWei
        /\ Leaks = XM + (XP + OverShared + pool.again + NetworkFee * N) * SatsToWei
    BY ClaimsAndLeaks DEF SatsAsWei
  <2>3. OverShared \in Int /\ NetworkFee \in Nat /\ pool.again \in Int
    BY ReservesAssumption DEF OverShared, NonNegative, IInv, TypeOK
  <2> HIDE DEF M, R, L, XM, XP, N
  <2>4. (R + L) * SatsToWei \in Nat /\ NetworkFee * N \in Int
    BY <1>1, <2>1, <2>3
  <2>5. (XP + OverShared + pool.again + NetworkFee * N) * SatsToWei \in Int
    BY <1>1, <2>1, <2>3, <2>4
  <2>6. QED
    BY <1>1, <2>1, <2>2, <2>4, <2>5
<1>8. (hot + cold) * SatsToWei + Leaks >= Claims
  BY DEF Backed, SatsAsWei
<1>9. Shortfall + (Claims - supply) <= aside * SatsToWei + Leaks + snap.burned
  <2>1. /\ custody * SatsToWei \in Nat /\ aside * SatsToWei \in Nat
        /\ (hot + cold) * SatsToWei \in Nat
    BY <1>1, <1>3
  <2>2. QED
    BY <1>1, <1>2, <1>3, <1>5, <1>6, <1>7, <1>8, <2>1
<1>10. QED
  BY <1>5, <1>9 DEF aside, SatsAsWei

\* What captureSnapshot says is missing has its reasons, amount by amount: the coins its
\* two reads leave out, WFAIR burned between them, and backing that is really gone;
\* whatever is mined, paid, swept or refunded in between, and whichever read is
\* answered first.
THEOREM AlarmsHaveReasons == Spec => AlarmHasReason
<1>1. ASSUME IInv, Backed,
             StoreSnapshot /\ doc' = "broken"
      PROVE  /\ Shortfall > 0
             /\ Shortfall + (Claims - supply) <= SatsAsWei(Aside) + Leaks + snap.burned
  BY <1>1, AlarmBalance
<1>2. IInv /\ Backed =>
        [StoreSnapshot /\ doc' = "broken" =>
           /\ Shortfall > 0
           /\ Shortfall + (Claims - supply) <= SatsAsWei(Aside) + Leaks + snap.burned]_vars
  BY <1>1
<1>3. QED
  BY <1>2, Invariance, BackedAlways, PTL DEF AlarmHasReason
=============================================================================
