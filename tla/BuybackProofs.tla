---------------------------- MODULE BuybackProofs ----------------------------
(***************************************************************************)
(* Proofs about Buyback, for any number of cycles and runners, any shares, *)
(* rate, incomes and faults.                                               *)
(***************************************************************************)
EXTENDS Buyback, BridgeLemmas

-----------------------------------------------------------------------------
(***************************************************************************)
(* The inductive invariant.  Its first part holds however ticks overlap.   *)
(***************************************************************************)

\* The places of a tick that has its cycle.
Working == {"step", "approve", "before", "send", "record", "await", "complete"}

Works(r, c) == t[r].pc \in Working /\ t[r].c = c

Ticking == {r \in Runners : Running(r)}
Creating == {r \in Runners : In(r, "create")}
Worked == {c \in Cycle : \E r \in Runners : Works(r, c)}

\* The ticks that hold an unfiled hash of step k of c, and those that will send
\* this step whatever is on file.
Holds(r, c, k) == In(r, "record") /\ t[r].c = c /\ t[r].k = k
Hand(c, k) == {r \in Runners : Holds(r, c, k)}

Sends(r, c, k) ==
    /\ Works(r, c) /\ t[r].k = k
    /\ \/ t[r].pc \in {"approve", "before", "send"}
       \/ In(r, "step") /\ t[r].hash[k] = 0

Senders(c, k) == {r \in Runners : Sends(r, c, k)}

\* What a tick knows of its cycle.
TickInv(r) ==
    /\ t[r].pc \in Working => t[r].c \in Cycle /\ cycle[t[r].c].status # "none"
    /\ t[r].pc \in Working => \A k \in Step : t[r].hash[k] <= Len(tx[t[r].c][k])
    /\ t[r].pc \in {"approve", "before"} => t[r].k = 0
    /\ t[r].pc \in {"record", "await"} => t[r].sent \in DOMAIN tx[t[r].c][t[r].k]
    /\ t[r].pc \in Working /\ t[r].k # 0 => t[r].acquired # Null
    /\ In(r, "complete") => t[r].k = LastStep

\* A hash on file is that of a transaction, and a cycle not yet stored has none.
DocInv(c) ==
    /\ \A k \in Step : cycle[c].hash[k] <= Len(tx[c][k])
    /\ cycle[c].status = "none" => \A k \in Step : cycle[c].hash[k] = 0 /\ tx[c][k] = <<>>

\* Of a step with n transactions, one on file or none, forgot are forgotten, hand
\* are in the hand of a tick, and send ticks will send one more.  Until a hash is
\* on file every transaction is in hand or forgotten; from then on every one more
\* was, or will be, sent by one of the over ticks that overlapped.
Counted(n, file, forgot, hand, send, over) ==
    /\ file = 0 => n = forgot + hand
    /\ file = 1 => n >= forgot + hand + 1 /\ n + send <= forgot + 1 + over

CountInv(c, k) ==
    Counted(Len(tx[c][k]), OnFile(c, k), lost[c][k], Cardinality(Hand(c, k)),
            Cardinality(Senders(c, k)), overlaps)

\* A process that is down runs no tick.
DownInv == ~up => \A r \in Runners : In(r, "off")

\* One tick runs, and one more for each that overlapped; so do the cycles that are
\* open, may be opened again by a tick that works on them, or are about to be stored.
RunInv == Cardinality(Ticking) <= 1 + overlaps

OpenInv ==
    Cardinality(InFlight \union Worked) + Cardinality(Creating) <= 1 + overlaps

\* There is a document for every cycle about to be stored.
RoomInv == Cardinality(Creating) <= Cardinality(Free)

-----------------------------------------------------------------------------
(***************************************************************************)
(* What holds as long as no two ticks overlapped.                          *)
(***************************************************************************)
Settled(c, k) ==
    cycle[c].hash[k] # 0 /\ tx[c][k][cycle[c].hash[k]].status = "ok"

\* The tick's copies are what is on file, and the steps behind it are done.
AloneTick(r) ==
    LET c == t[r].c
        k == t[r].k
    IN  t[r].pc \in Working =>
        /\ Open(c)
        /\ t[r].acquired = cycle[c].acquired
        /\ \A j \in Step : j < k => Settled(c, j)
        /\ In(r, "complete") => Settled(c, k)
        /\ In(r, "step") => t[r].hash = cycle[c].hash
        /\ t[r].pc \in {"approve", "before", "send", "record"} => cycle[c].hash[k] = 0
        /\ In(r, "await") => t[r].sent = cycle[c].hash[k]
        /\ t[r].fresh => k = 0 /\ t[r].acquired = Null
        /\ t[r].fresh => t[r].pc \in {"send", "record", "await"}
        /\ In(r, "record") /\ k # 0 => tx[c][k][t[r].sent].amount = Share(t[r].acquired, k)

\* The burns on file are of the proceeds on file, and those of the swap on file.
AloneDoc(c) ==
    /\ cycle[c].status = "none" => cycle[c].acquired = Null
    /\ cycle[c].acquired # Null => Settled(c, 0)
    /\ \A k \in Burn : cycle[c].hash[k] # 0 =>
          /\ cycle[c].acquired # Null
          /\ tx[c][k][cycle[c].hash[k]].amount = Share(cycle[c].acquired, k)
    /\ cycle[c].status = "COMPLETE" => \A k \in Step : Settled(c, k)

AloneInv == Alone => (\A r \in Runners : AloneTick(r)) /\ (\A c \in Cycle : AloneDoc(c))

-----------------------------------------------------------------------------
(***************************************************************************)
(* What holds as long as, besides, no hash was forgotten and no cycle      *)
(* failed.                                                                 *)
(***************************************************************************)
Regular == Alone /\ NothingLost /\ \A c \in Cycle : cycle[c].status # "FAILED"

Mined(c, k) == Len(tx[c][k]) = 1 /\ tx[c][k][1].status = "ok"
Gain(c) == IF Mined(c, 0) THEN Rate * tx[c][0][1].amount ELSE 0
Spent(c, k) == IF Mined(c, k) THEN tx[c][k][1].amount ELSE 0

\* The account holds what the swap of the open cycle brought less what its burns
\* took, the proceeds on file are what the swap brought, and a new swap finds none.
MoneyInv ==
    Regular =>
    /\ InFlight = {} => wfair = 0
    /\ \A c \in InFlight : wfair + Spent(c, 1) + Spent(c, 2) + Spent(c, 3) = Gain(c)
    /\ \A c \in Cycle : cycle[c].acquired # Null => cycle[c].acquired = Gain(c)
    /\ \A r \in Runners : t[r].fresh => t[r].before = 0

IInv ==
    /\ TypeOK
    /\ \A r \in Runners : TickInv(r)
    /\ \A c \in Cycle : DocInv(c)
    /\ \A c \in Cycle, k \in Step : CountInv(c, k)
    /\ DownInv
    /\ RunInv
    /\ OpenInv
    /\ RoomInv
    /\ AloneInv
    /\ MoneyInv

-----------------------------------------------------------------------------
(***************************************************************************)
(* Constants, shares and sets.                                             *)
(***************************************************************************)
LEMMA Facts ==
    /\ Loop \in Runners /\ IsFiniteSet(Runners)
    /\ NumCycles \in Nat /\ Threshold \in Nat /\ TreasuryBps \in Nat /\ MasternodeBps \in Nat
    /\ Rate \in Nat /\ Income \in Nat /\ MaxIncome \in Nat /\ MaxUpsets \in Nat
    /\ MaxOverlaps \in Nat
    /\ TreasuryBps + MasternodeBps <= 10000
    /\ IsFiniteSet(Cycle)
<1>1. NumCycles \in Nat
  BY BuybackAssumption
<1>2. IsFiniteSet(Cycle)
  BY <1>1, FS_Interval DEF Cycle
<1>3. QED
  BY <1>2, BuybackAssumption

\* The shares are naturals and add up to the total.
LEMMA Shares ==
    ASSUME NEW total \in Nat
    PROVE  /\ \A k \in Burn : Share(total, k) \in Nat
           /\ Share(total, 1) + Share(total, 2) + Share(total, 3) = total
<1> DEFINE treasury == (total * TreasuryBps) \div 10000
           masternode == (total * MasternodeBps) \div 10000
<1>1. TreasuryBps \in Nat /\ MasternodeBps \in Nat /\ TreasuryBps + MasternodeBps <= 10000
  BY Facts
<1>2. total * TreasuryBps \in Nat /\ total * MasternodeBps \in Nat
  BY <1>1
<1>3. /\ treasury \in Nat /\ masternode \in Nat
      /\ treasury * 10000 <= total * TreasuryBps
      /\ masternode * 10000 <= total * MasternodeBps
  <2> DEFINE a == total * TreasuryBps
             b == total * MasternodeBps
  <2>1. a \in Nat /\ b \in Nat
    BY <1>2
  <2> HIDE DEF a, b
  <2>2. /\ a \div 10000 \in Nat /\ (a \div 10000) * 10000 <= a
        /\ b \div 10000 \in Nat /\ (b \div 10000) * 10000 <= b
    BY <2>1
  <2>3. QED
    BY <2>2 DEF a, b
<1>4. total * TreasuryBps + total * MasternodeBps <= total * 10000
  <2>1. total * TreasuryBps + total * MasternodeBps = total * (TreasuryBps + MasternodeBps)
    BY <1>1
  <2>2. total * (TreasuryBps + MasternodeBps) <= total * 10000
    BY <1>1
  <2>3. QED
    BY <2>1, <2>2
<1>5. Share(total, 1) = total - treasury - masternode /\ Share(total, 2) = treasury
      /\ Share(total, 3) = masternode
  BY DEF Share
<1> HIDE DEF treasury, masternode
<1>6. treasury + masternode <= total
  BY <1>2, <1>3, <1>4
<1>7. \A k \in Burn : k = 1 \/ k = 2 \/ k = 3
  BY DEF Burn
<1>8. total - treasury - masternode \in Nat
  BY <1>3, <1>6
<1>9. Share(total, 1) + Share(total, 2) + Share(total, 3) = total
  BY <1>3, <1>5
<1>10. QED
  BY <1>3, <1>5, <1>7, <1>8, <1>9

-----------------------------------------------------------------------------
(***************************************************************************)
(* What each step does, field by field, and that it keeps the types.       *)
(***************************************************************************)

\* The tick of r is the only one that moves.
OnlyTick(r) == \A q \in Runners \ {r} : t'[q] = t[q]

\* ... to the head of the loop, or with no other change than its place.
GoesIdle(r) == t'[r] = Idle
GoesTo(r, pc) == t'[r] = [t[r] EXCEPT !.pc = pc]

\* The documents of c and d # c, the transactions of no cycle change.
OnlyCycle(c) == \A d \in Cycle \ {c} : cycle'[d] = cycle[d]

LEMMA IdleIs ==
    /\ Idle \in TickState /\ Idle.pc = "idle" /\ Idle.c = 0 /\ Idle.k = 0
    /\ Idle.hash = [k \in Step |-> 0] /\ Idle.acquired = Null /\ Idle.fresh = FALSE
    /\ Idle.before = 0 /\ Idle.sent = 0 /\ Idle.balance = 0
    /\ Off \in TickState /\ Off.pc = "off" /\ Off.fresh = FALSE
<1> DEFINE none == [k \in Step |-> 0]
<1>1. none \in [Step -> Nat] /\ 0 \in 0..NumCycles /\ 0 \in Step /\ Null \in Nat \union {Null}
      /\ "idle" \in TickPc /\ "off" \in TickPc
  BY Facts DEF Step, TickPc
<1>2. Idle = [pc |-> "idle", c |-> 0, k |-> 0, hash |-> none, acquired |-> Null,
              fresh |-> FALSE, before |-> 0, sent |-> 0, balance |-> 0]
  BY DEF Idle
<1>3. none = [k \in Step |-> 0]
  OBVIOUS
<1> HIDE DEF none
<1>4. Idle \in TickState
  BY <1>1, <1>2 DEF TickState
<1>5. Off \in TickState /\ Off.pc = "off" /\ Off.fresh = FALSE
  BY <1>1, <1>2, <1>4 DEF Off, TickState
<1>6. QED
  BY <1>2, <1>3, <1>4, <1>5

\* The value of t after a step of r.
LEMMA Becomes ==
    ASSUME TypeOK, NEW r \in Runners, NEW x \in TickState, Become(r, x)
    PROVE  t' \in [Runners -> TickState] /\ t'[r] = x /\ OnlyTick(r)
BY DEF TypeOK, Become, OnlyTick

LEMMA StartTickFx ==
    ASSUME TypeOK, NEW r \in Runners, StartTick(r)
    PROVE  /\ TypeOK' /\ OnlyTick(r) /\ In(r, "idle")
           /\ t'[r].pc = "claim" /\ t'[r].fresh = FALSE
           /\ UNCHANGED <<cycle, tx, usdc, wfair, allowance, incomes, up, lost>>
           /\ (\E q \in Runners : Running(q)) => overlaps' = overlaps + 1
           /\ ~(\E q \in Runners : Running(q)) => overlaps' = overlaps
<1> DEFINE x == [Idle EXCEPT !.pc = "claim", !.balance = usdc]
<1>1. x \in TickState /\ x.pc = "claim" /\ x.fresh = FALSE
  <2>1. usdc \in Nat
    BY DEF TypeOK
  <2>2. QED
    BY <2>1, IdleIs DEF TickState, TickPc
<1>2. Become(r, x) /\ In(r, "idle")
      /\ UNCHANGED <<cycle, tx, usdc, wfair, allowance, incomes, up, lost>>
  BY DEF StartTick, chain
<1> HIDE DEF x
<1>3. t' \in [Runners -> TickState] /\ t'[r] = x /\ OnlyTick(r)
  BY <1>1, <1>2, Becomes
<1>4. /\ (\E q \in Runners : Running(q)) =>
            overlaps' = overlaps + 1 /\ overlaps < MaxOverlaps
            /\ upsets' = upsets + 3 /\ upsets + 3 <= MaxUpsets
      /\ ~(\E q \in Runners : Running(q)) => overlaps' = overlaps /\ upsets' = upsets
  BY DEF StartTick, Overlap
<1>5. overlaps' \in 0..MaxOverlaps /\ upsets' \in 0..MaxUpsets
  BY <1>4, Facts DEF TypeOK
<1>6. TypeOK'
  BY <1>2, <1>3, <1>5 DEF TypeOK
<1>7. QED
  BY <1>1, <1>2, <1>3, <1>4, <1>6

LEMMA ClaimFx ==
    ASSUME TypeOK, NEW r \in Runners, ClaimOrLoad(r)
    PROVE  /\ TypeOK' /\ OnlyTick(r) /\ In(r, "claim")
           /\ UNCHANGED <<cycle, tx, usdc, wfair, allowance, incomes, up, lost, overlaps>>
           /\ \/ /\ InFlight # {} /\ t'[r].c \in InFlight /\ t'[r].pc = "step"
                 /\ t'[r].hash = cycle[t'[r].c].hash
                 /\ t'[r].acquired = cycle[t'[r].c].acquired
                 /\ t'[r].k = 0 /\ t'[r].fresh = FALSE
              \/ /\ InFlight = {} /\ Room /\ t'[r] = [t[r] EXCEPT !.pc = "create"]
              \/ t'[r] = Idle
<1> DEFINE c == Min(InFlight)
           x == IF InFlight # {} THEN Resume(c)
                ELSE IF t[r].balance >= Threshold /\ Room
                THEN [t[r] EXCEPT !.pc = "create"]
                ELSE Idle
<1>1. InFlight # {} => /\ c \in InFlight /\ c \in Cycle
  <2>1. InFlight \in SUBSET Cycle /\ Cycle \in SUBSET Nat
    BY Facts DEF InFlight, Cycle
  <2>2. QED
    BY <2>1, MinIsElement
<1>2. InFlight # {} => /\ Resume(c) \in TickState /\ Resume(c).c = c /\ Resume(c).pc = "step"
                       /\ Resume(c).hash = cycle[c].hash /\ Resume(c).acquired = cycle[c].acquired
                       /\ Resume(c).k = 0 /\ Resume(c).fresh = FALSE
  <2> SUFFICES ASSUME InFlight # {}
               PROVE  /\ Resume(c) \in TickState /\ Resume(c).c = c /\ Resume(c).pc = "step"
                      /\ Resume(c).hash = cycle[c].hash /\ Resume(c).acquired = cycle[c].acquired
                      /\ Resume(c).k = 0 /\ Resume(c).fresh = FALSE
    OBVIOUS
  <2> HIDE DEF c
  <2>1. cycle[c].hash \in [Step -> Nat] /\ cycle[c].acquired \in Nat \union {Null}
        /\ c \in 0..NumCycles
    BY <1>1, Facts DEF TypeOK, CycleDoc, Cycle
  <2>2. QED
    BY <2>1, IdleIs DEF Resume, TickState, TickPc
<1>3. [t[r] EXCEPT !.pc = "create"] \in TickState
  BY DEF TypeOK, TickState, TickPc
<1>4. x \in TickState
  BY <1>2, <1>3, IdleIs
<1>5. Become(r, x) /\ In(r, "claim") /\ Local(r)
  BY DEF ClaimOrLoad
<1>6. /\ x = Resume(c) \/ x = [t[r] EXCEPT !.pc = "create"] \/ x = Idle
      /\ InFlight # {} => x = Resume(c)
      /\ x = [t[r] EXCEPT !.pc = "create"] => Room \/ x = Resume(c) \/ x = Idle
      /\ InFlight = {} => (Room /\ x = [t[r] EXCEPT !.pc = "create"]) \/ x = Idle
  OBVIOUS
<1> HIDE DEF x, c
<1>7. t' \in [Runners -> TickState] /\ t'[r] = x /\ OnlyTick(r)
  BY <1>4, <1>5, Becomes
<1>8. UNCHANGED <<cycle, tx, usdc, wfair, allowance, incomes, up, lost, overlaps, upsets>>
  BY <1>5 DEF Local, chain
<1>9. TypeOK'
  BY <1>7, <1>8 DEF TypeOK
<1>10. QED
  BY <1>1, <1>2, <1>5, <1>6, <1>7, <1>8, <1>9

LEMMA CreateFx ==
    ASSUME TypeOK, NEW r \in Runners, CreateCycle(r), Free # {}
    PROVE  /\ TypeOK' /\ OnlyTick(r) /\ In(r, "create")
           /\ \E c \in Free : /\ t'[r].c = c /\ OnlyCycle(c)
                              /\ cycle'[c].status = "PENDING"
                              /\ cycle'[c].hash = cycle[c].hash
                              /\ cycle'[c].acquired = cycle[c].acquired
           /\ t'[r].pc = "step" /\ t'[r].k = 0 /\ t'[r].fresh = FALSE
           /\ t'[r].hash = [k \in Step |-> 0] /\ t'[r].acquired = Null
           /\ UNCHANGED <<tx, usdc, wfair, allowance, incomes, up, lost, overlaps>>
<1> DEFINE c == Min(Free)
           x == [Idle EXCEPT !.pc = "step", !.c = c]
<1>1. c \in Free /\ c \in Cycle
  <2>1. Free \in SUBSET Cycle /\ Cycle \in SUBSET Nat
    BY Facts DEF Free, Cycle
  <2>2. QED
    BY <2>1, MinIsElement
<1>2. /\ In(r, "create") /\ Become(r, x)
      /\ cycle' = [cycle EXCEPT ![c].status = "PENDING", ![c].usdc = t[r].balance]
      /\ UNCHANGED <<tx, usdc, wfair, allowance, incomes, up, lost, overlaps, upsets>>
  BY DEF CreateCycle, chain
<1> HIDE DEF c
<1>3. /\ x \in TickState /\ x.pc = "step" /\ x.c = c /\ x.k = 0 /\ x.fresh = FALSE
      /\ x.hash = [k \in Step |-> 0] /\ x.acquired = Null
  <2>1. c \in 0..NumCycles
    BY <1>1, Facts DEF Cycle
  <2>2. QED
    BY <2>1, IdleIs DEF TickState, TickPc
<1> HIDE DEF x
<1>4. t' \in [Runners -> TickState] /\ t'[r] = x /\ OnlyTick(r)
  BY <1>2, <1>3, Becomes
<1>5. cycle[c] \in CycleDoc /\ t[r].balance \in Nat
  BY <1>1 DEF TypeOK, TickState
<1>6. /\ cycle' = [cycle EXCEPT ![c] = [cycle[c] EXCEPT !.status = "PENDING",
                                                        !.usdc = t[r].balance]]
  BY <1>1, <1>2 DEF TypeOK
<1>7. /\ [cycle[c] EXCEPT !.status = "PENDING", !.usdc = t[r].balance] \in CycleDoc
      /\ [cycle[c] EXCEPT !.status = "PENDING", !.usdc = t[r].balance].status = "PENDING"
      /\ [cycle[c] EXCEPT !.status = "PENDING", !.usdc = t[r].balance].hash = cycle[c].hash
      /\ [cycle[c] EXCEPT !.status = "PENDING", !.usdc = t[r].balance].acquired
            = cycle[c].acquired
  BY <1>5 DEF CycleDoc, CycleStatus
<1>8. /\ cycle' \in [Cycle -> CycleDoc] /\ OnlyCycle(c)
      /\ cycle'[c].status = "PENDING" /\ cycle'[c].hash = cycle[c].hash
      /\ cycle'[c].acquired = cycle[c].acquired
  BY <1>1, <1>6, <1>7 DEF TypeOK, OnlyCycle
<1>9. TypeOK'
  BY <1>2, <1>4, <1>8 DEF TypeOK
<1>10. QED
  BY <1>1, <1>2, <1>3, <1>4, <1>8, <1>9

\* A step writes the status and the proceeds of one document.
Writes(c, status, acquired) ==
    /\ OnlyCycle(c)
    /\ cycle'[c].status = status /\ cycle'[c].acquired = acquired
    /\ cycle'[c].hash = cycle[c].hash

\* The tick is on the same step of the same cycle, with the same copies.
SameStep(r) ==
    /\ t'[r].c = t[r].c /\ t'[r].k = t[r].k
    /\ t'[r].hash = t[r].hash /\ t'[r].acquired = t[r].acquired

\* Neither the chain nor the process nor a count changes.
Elsewhere == UNCHANGED <<tx, usdc, wfair, allowance, incomes, up, lost, overlaps>>

LEMMA StatusWritten ==
    ASSUME TypeOK, NEW c \in Cycle, NEW status \in CycleStatus,
           cycle' = [cycle EXCEPT ![c].status = status]
    PROVE  cycle' \in [Cycle -> CycleDoc] /\ Writes(c, status, cycle[c].acquired)
<1>1. cycle[c] \in CycleDoc /\ cycle \in [Cycle -> CycleDoc]
  BY DEF TypeOK
<1>2. cycle' = [cycle EXCEPT ![c] = [cycle[c] EXCEPT !.status = status]]
  BY <1>1
<1>3. /\ [cycle[c] EXCEPT !.status = status] \in CycleDoc
      /\ [cycle[c] EXCEPT !.status = status].status = status
      /\ [cycle[c] EXCEPT !.status = status].hash = cycle[c].hash
      /\ [cycle[c] EXCEPT !.status = status].acquired = cycle[c].acquired
  BY <1>1 DEF CycleDoc
<1>4. QED
  BY <1>1, <1>2, <1>3 DEF Writes, OnlyCycle

\* The types of what a tick knows.
LEMMA TickTypes ==
    ASSUME TypeOK, NEW r \in Runners
    PROVE  /\ t[r] \in TickState /\ t[r].pc \in TickPc /\ t[r].k \in Step
           /\ t[r].hash \in [Step -> Nat] /\ t[r].hash[t[r].k] \in Nat
           /\ t[r].acquired \in Nat \union {Null} /\ t[r].fresh \in BOOLEAN
           /\ t[r].before \in Nat /\ t[r].sent \in Nat
BY DEF TypeOK, TickState

\* A tick that goes to another place.
LEMMA Goes ==
    ASSUME TypeOK, NEW r \in Runners, NEW pc \in TickPc, Goto(r, pc)
    PROVE  /\ t' \in [Runners -> TickState] /\ OnlyTick(r)
           /\ t'[r].pc = pc /\ SameStep(r) /\ t'[r].fresh = t[r].fresh
           /\ t'[r].before = t[r].before /\ t'[r].sent = t[r].sent
<1> DEFINE x == [t[r] EXCEPT !.pc = pc]
<1>1. /\ x \in TickState /\ x.pc = pc /\ x.c = t[r].c /\ x.k = t[r].k /\ x.hash = t[r].hash
      /\ x.acquired = t[r].acquired /\ x.fresh = t[r].fresh /\ x.before = t[r].before
      /\ x.sent = t[r].sent
  BY TickTypes DEF TickState
<1>2. Become(r, x)
  BY DEF Goto
<1> HIDE DEF x
<1>3. QED
  BY <1>1, <1>2, Becomes DEF SameStep

\* A tick that ends.
LEMMA Ends ==
    ASSUME TypeOK, NEW r \in Runners, Become(r, Idle)
    PROVE  /\ t' \in [Runners -> TickState] /\ OnlyTick(r)
           /\ t'[r].pc = "idle" /\ t'[r].fresh = FALSE
BY IdleIs, Becomes

LEMMA EnterStepFx ==
    ASSUME TypeOK, NEW r \in Runners, TickInv(r), EnterStep(r)
    PROVE  /\ TypeOK' /\ OnlyTick(r) /\ In(r, "step") /\ SameStep(r) /\ Elsewhere
           /\ t'[r].fresh = t[r].fresh /\ t'[r].before = t[r].before
           /\ \/ /\ t[r].hash[t[r].k] # 0 /\ cycle' = cycle
                 /\ t'[r].pc = "await" /\ t'[r].sent = t[r].hash[t[r].k]
              \/ /\ t[r].hash[t[r].k] = 0
                 /\ t'[r].pc = IF t[r].k = 0 THEN "approve" ELSE "send"
                 /\ \E status \in CycleStatus \ {"none", "COMPLETE", "FAILED"} :
                        Writes(t[r].c, status, cycle[t[r].c].acquired)
<1> DEFINE c == t[r].c
           k == t[r].k
<1>1. In(r, "step") /\ Elsewhere /\ UNCHANGED upsets
  BY DEF EnterStep, Elsewhere, chain
<1>2. c \in Cycle /\ k \in Step /\ (k # 0 => t[r].acquired \in Nat)
  BY <1>1, TickTypes DEF TickInv, In, Working
<1>3. ASSUME HashOnFile(r) # 0
      PROVE  /\ t' \in [Runners -> TickState] /\ OnlyTick(r) /\ SameStep(r)
             /\ t'[r].fresh = t[r].fresh /\ t'[r].before = t[r].before
             /\ t[r].hash[t[r].k] # 0 /\ cycle' = cycle
             /\ t'[r].pc = "await" /\ t'[r].sent = t[r].hash[t[r].k]
  <2> DEFINE y == [t[r] EXCEPT !.pc = "await"]
             x == [t[r] EXCEPT !.pc = "await", !.sent = HashOnFile(r)]
  <2>1. /\ y \in TickState /\ y.pc = "await" /\ y.c = t[r].c /\ y.k = t[r].k
        /\ y.hash = t[r].hash /\ y.acquired = t[r].acquired /\ y.fresh = t[r].fresh
        /\ y.before = t[r].before
    BY TickTypes DEF TickState, TickPc
  <2>2. x = [y EXCEPT !.sent = HashOnFile(r)]
    BY TickTypes DEF TickState
  <2> HIDE DEF y
  <2>3. HashOnFile(r) \in Nat /\ HashOnFile(r) = t[r].hash[t[r].k]
    BY TickTypes DEF HashOnFile
  <2>4. /\ x \in TickState /\ x.pc = "await" /\ x.c = t[r].c /\ x.k = t[r].k
        /\ x.hash = t[r].hash /\ x.acquired = t[r].acquired /\ x.fresh = t[r].fresh
        /\ x.before = t[r].before /\ x.sent = HashOnFile(r)
    BY <2>1, <2>2, <2>3 DEF TickState
  <2>5. Become(r, x) /\ cycle' = cycle
    BY <1>3 DEF EnterStep
  <2> HIDE DEF x
  <2>6. QED
    BY <1>3, <2>3, <2>4, <2>5, Becomes DEF SameStep
<1>4. ASSUME HashOnFile(r) = 0
      PROVE  /\ t' \in [Runners -> TickState] /\ OnlyTick(r) /\ SameStep(r)
             /\ t'[r].fresh = t[r].fresh /\ t'[r].before = t[r].before
             /\ t[r].hash[t[r].k] = 0 /\ cycle' \in [Cycle -> CycleDoc]
             /\ t'[r].pc = IF t[r].k = 0 THEN "approve" ELSE "send"
             /\ \E status \in CycleStatus \ {"none", "COMPLETE", "FAILED"} :
                    Writes(t[r].c, status, cycle[t[r].c].acquired)
  <2> DEFINE amount == IF k = 0 THEN cycle[c].amount
                       ELSE [cycle[c].amount EXCEPT ![k] = Share(t[r].acquired, k)]
  <2>1. /\ Goto(r, IF k = 0 THEN "approve" ELSE "send")
        /\ cycle' = [cycle EXCEPT
              ![c].status = StepStatus[k],
              ![c].amount = IF k = 0 THEN @ ELSE [@ EXCEPT ![k] = Share(t[r].acquired, k)]]
    BY <1>4 DEF EnterStep
  <2>2. cycle[c] \in CycleDoc /\ cycle \in [Cycle -> CycleDoc]
    BY <1>2 DEF TypeOK
  <2>3. cycle' = [cycle EXCEPT ![c] = [cycle[c] EXCEPT !.status = StepStatus[k],
                                                       !.amount = amount]]
    BY <1>2, <2>1, <2>2 DEF CycleDoc
  <2>4. StepStatus[k] \in CycleStatus \ {"none", "COMPLETE", "FAILED"}
    BY <1>2 DEF StepStatus, CycleStatus, Step
  <2>5. amount \in [Burn -> Nat \union {Null}]
    <3>1. k # 0 => k \in Burn
      BY <1>2 DEF Step, Burn
    <3>2. k # 0 => Share(t[r].acquired, k) \in Nat
      BY <1>2, <3>1, Shares
    <3>3. QED
      BY <2>2, <3>1, <3>2 DEF CycleDoc
  <2> HIDE DEF amount
  <2>6. PICK y : y = [cycle[c] EXCEPT !.status = StepStatus[k]]
    OBVIOUS
  <2>7. /\ y \in CycleDoc /\ y.status = StepStatus[k] /\ y.hash = cycle[c].hash
        /\ y.acquired = cycle[c].acquired
    BY <2>2, <2>4, <2>6 DEF CycleDoc
  <2>8. [cycle[c] EXCEPT !.status = StepStatus[k], !.amount = amount]
           = [y EXCEPT !.amount = amount]
    BY <2>2, <2>6 DEF CycleDoc
  <2>9. PICK z : z = [y EXCEPT !.amount = amount]
    OBVIOUS
  <2>10. /\ z \in CycleDoc /\ z.status = StepStatus[k] /\ z.hash = cycle[c].hash
         /\ z.acquired = cycle[c].acquired
    BY <2>5, <2>7, <2>9 DEF CycleDoc
  <2>11. cycle' = [cycle EXCEPT ![c] = z]
    BY <2>3, <2>8, <2>9
  <2>12. cycle' \in [Cycle -> CycleDoc] /\ Writes(c, StepStatus[k], cycle[c].acquired)
    BY <1>2, <2>2, <2>10, <2>11 DEF Writes, OnlyCycle
  <2>13. (IF k = 0 THEN "approve" ELSE "send") \in TickPc
    BY DEF TickPc
  <2>14. QED
    BY <1>4, <2>1, <2>4, <2>12, <2>13, Goes DEF HashOnFile
<1>5. TypeOK'
  BY <1>1, <1>3, <1>4 DEF TypeOK, Elsewhere
<1>6. QED
  BY <1>1, <1>3, <1>4, <1>5

LEMMA EnsureApprovalFx ==
    ASSUME TypeOK, NEW r \in Runners, TickInv(r), EnsureApproval(r)
    PROVE  /\ TypeOK' /\ OnlyTick(r) /\ In(r, "approve") /\ SameStep(r)
           /\ t'[r].pc = "before" /\ t'[r].fresh = t[r].fresh /\ t'[r].before = t[r].before
           /\ UNCHANGED <<cycle, tx, usdc, wfair, incomes, up, lost, overlaps>>
<1>1. /\ In(r, "approve") /\ Goto(r, "before")
      /\ allowance' = IF allowance >= cycle[t[r].c].usdc THEN allowance ELSE cycle[t[r].c].usdc
      /\ UNCHANGED <<cycle, tx, usdc, wfair, incomes, up, lost, upsets, overlaps>>
  BY DEF EnsureApproval
<1>2. cycle[t[r].c] \in CycleDoc
  BY <1>1 DEF TypeOK, TickInv, In, Working
<1>3. allowance' \in Nat
  BY <1>1, <1>2 DEF TypeOK, CycleDoc
<1>4. "before" \in TickPc
  BY DEF TickPc
<1>5. /\ t' \in [Runners -> TickState] /\ OnlyTick(r) /\ t'[r].pc = "before" /\ SameStep(r)
      /\ t'[r].fresh = t[r].fresh /\ t'[r].before = t[r].before
  BY <1>1, <1>4, Goes
<1>6. TypeOK'
  BY <1>1, <1>3, <1>5 DEF TypeOK
<1>7. QED
  BY <1>1, <1>5, <1>6

LEMMA ReadWfairBeforeFx ==
    ASSUME TypeOK, NEW r \in Runners, ReadWfairBefore(r)
    PROVE  /\ TypeOK' /\ OnlyTick(r) /\ In(r, "before") /\ SameStep(r) /\ Elsewhere
           /\ cycle' = cycle /\ t'[r].pc = "send" /\ t'[r].fresh = TRUE
           /\ t'[r].before = wfair
<1> DEFINE y == [t[r] EXCEPT !.pc = "send"]
           z == [y EXCEPT !.fresh = TRUE]
           x == [t[r] EXCEPT !.pc = "send", !.fresh = TRUE, !.before = wfair]
<1>1. /\ y \in TickState /\ y.pc = "send" /\ y.c = t[r].c /\ y.k = t[r].k
      /\ y.hash = t[r].hash /\ y.acquired = t[r].acquired
  BY TickTypes DEF TickState, TickPc
<1>2. x = [z EXCEPT !.before = wfair] /\ wfair \in Nat
  BY TickTypes DEF TickState, TypeOK
<1> HIDE DEF y
<1>3. /\ z \in TickState /\ z.pc = "send" /\ z.c = t[r].c /\ z.k = t[r].k
      /\ z.hash = t[r].hash /\ z.acquired = t[r].acquired /\ z.fresh = TRUE
  BY <1>1 DEF TickState
<1> HIDE DEF z
<1>4. /\ x \in TickState /\ x.pc = "send" /\ x.c = t[r].c /\ x.k = t[r].k
      /\ x.hash = t[r].hash /\ x.acquired = t[r].acquired /\ x.fresh = TRUE
      /\ x.before = wfair
  BY <1>2, <1>3 DEF TickState
<1>5. Become(r, x) /\ In(r, "before") /\ Elsewhere /\ cycle' = cycle /\ upsets' = upsets
  BY DEF ReadWfairBefore, Local, Elsewhere, chain
<1> HIDE DEF x
<1>6. t' \in [Runners -> TickState] /\ t'[r] = x /\ OnlyTick(r)
  BY <1>4, <1>5, Becomes
<1>7. TypeOK'
  BY <1>5, <1>6 DEF TypeOK, Elsewhere
<1>8. QED
  BY <1>4, <1>5, <1>6, <1>7 DEF SameStep

\* A transaction is sent for step k of cycle c.
TxAdded(c, k, x) ==
    /\ tx'[c][k] = Append(tx[c][k], x)
    /\ \A d \in Cycle, j \in Step : d # c \/ j # k => tx'[d][j] = tx[d][j]

\* Shares and budgets are naturals.
LEMMA AmountType ==
    ASSUME TypeOK, NEW r \in Runners, TickInv(r), t[r].pc \in Working
    PROVE  Amount(r) \in Nat
<1>1. t[r].c \in Cycle /\ t[r].k \in Step /\ (t[r].k # 0 => t[r].acquired \in Nat)
  BY TickTypes DEF TickInv
<1>2. cycle[t[r].c].usdc \in Nat
  BY <1>1 DEF TypeOK, CycleDoc
<1>3. t[r].k # 0 => t[r].k \in Burn
  BY <1>1 DEF Step, Burn
<1>4. t[r].k # 0 => Share(t[r].acquired, t[r].k) \in Nat
  BY <1>1, <1>3, Shares
<1>5. QED
  BY <1>2, <1>4 DEF Amount

LEMMA BroadcastFx ==
    ASSUME TypeOK, NEW r \in Runners, TickInv(r), Broadcast(r)
    PROVE  /\ tx' \in [Cycle -> [Step -> Seq(Transaction)]]
           /\ TxAdded(t[r].c, t[r].k, [amount |-> Amount(r), status |-> "pending"])
           /\ In(r, "send") /\ t[r].c \in Cycle /\ t[r].k \in Step
           /\ UNCHANGED <<usdc, wfair, allowance, incomes>>
<1> DEFINE c == t[r].c
           k == t[r].k
           x == [amount |-> Amount(r), status |-> "pending"]
<1>1. /\ In(r, "send") /\ UNCHANGED <<usdc, wfair, allowance, incomes>>
      /\ tx' = [tx EXCEPT ![c][k] = Append(@, x)]
  BY DEF Broadcast
<1>2. c \in Cycle /\ k \in Step /\ t[r].pc \in Working
  BY <1>1, TickTypes DEF TickInv, In, Working
<1>3. x \in Transaction
  BY <1>2, AmountType DEF Transaction
<1> HIDE DEF x, c, k
<1>4. tx \in [Cycle -> [Step -> Seq(Transaction)]] /\ tx[c] \in [Step -> Seq(Transaction)]
      /\ tx[c][k] \in Seq(Transaction)
  BY <1>2 DEF TypeOK
<1>5. Append(tx[c][k], x) \in Seq(Transaction)
  BY <1>3, <1>4
<1>6. tx' = [tx EXCEPT ![c] = [tx[c] EXCEPT ![k] = Append(tx[c][k], x)]]
  BY <1>1
<1>7. tx' \in [Cycle -> [Step -> Seq(Transaction)]]
  BY <1>2, <1>4, <1>5, <1>6
<1>8. TxAdded(c, k, x)
  BY <1>2, <1>4, <1>6 DEF TxAdded
<1>9. QED
  BY <1>1, <1>2, <1>7, <1>8 DEF c, k, x

LEMMA SendTxFx ==
    ASSUME TypeOK, NEW r \in Runners, TickInv(r), SendTx(r)
    PROVE  /\ TypeOK' /\ OnlyTick(r) /\ In(r, "send") /\ SameStep(r)
           /\ TxAdded(t[r].c, t[r].k, [amount |-> Amount(r), status |-> "pending"])
           /\ t'[r].pc = "record" /\ t'[r].fresh = t[r].fresh /\ t'[r].before = t[r].before
           /\ t'[r].sent = Len(tx[t[r].c][t[r].k]) + 1
           /\ UNCHANGED <<cycle, usdc, wfair, allowance, incomes, up, lost, overlaps>>
<1> DEFINE n == Len(tx[t[r].c][t[r].k]) + 1
           y == [t[r] EXCEPT !.pc = "record"]
           x == [t[r] EXCEPT !.pc = "record", !.sent = n]
<1>1. Broadcast(r) /\ Become(r, x) /\ UNCHANGED <<cycle, up, lost, upsets, overlaps>>
  BY DEF SendTx
<1>2. /\ tx' \in [Cycle -> [Step -> Seq(Transaction)]]
      /\ TxAdded(t[r].c, t[r].k, [amount |-> Amount(r), status |-> "pending"])
      /\ In(r, "send") /\ t[r].c \in Cycle /\ t[r].k \in Step
      /\ UNCHANGED <<usdc, wfair, allowance, incomes>>
  BY <1>1, BroadcastFx
<1>3. n \in Nat
  BY <1>2 DEF TypeOK
<1>4. /\ y \in TickState /\ y.pc = "record" /\ y.c = t[r].c /\ y.k = t[r].k
      /\ y.hash = t[r].hash /\ y.acquired = t[r].acquired /\ y.fresh = t[r].fresh
      /\ y.before = t[r].before
  BY TickTypes DEF TickState, TickPc
<1>5. x = [y EXCEPT !.sent = n]
  BY TickTypes DEF TickState
<1> HIDE DEF y, n
<1>6. /\ x \in TickState /\ x.pc = "record" /\ x.c = t[r].c /\ x.k = t[r].k
      /\ x.hash = t[r].hash /\ x.acquired = t[r].acquired /\ x.fresh = t[r].fresh
      /\ x.before = t[r].before /\ x.sent = n
  BY <1>3, <1>4, <1>5 DEF TickState
<1> HIDE DEF x
<1>7. t' \in [Runners -> TickState] /\ t'[r] = x /\ OnlyTick(r)
  BY <1>1, <1>6, Becomes
<1>8. TypeOK'
  BY <1>1, <1>2, <1>7 DEF TypeOK
<1>9. QED
  BY <1>1, <1>2, <1>6, <1>7, <1>8 DEF SameStep, n

LEMMA SendRejectedFx ==
    ASSUME TypeOK, NEW r \in Runners, SendRejected(r)
    PROVE  /\ TypeOK' /\ OnlyTick(r) /\ In(r, "send") /\ Elsewhere /\ cycle' = cycle
           /\ t'[r].pc = "idle" /\ t'[r].fresh = FALSE
<1>1. In(r, "send") /\ Become(r, Idle) /\ Elsewhere /\ cycle' = cycle /\ upsets' = upsets
  BY DEF SendRejected, Local, Elsewhere, chain
<1>2. t' \in [Runners -> TickState] /\ OnlyTick(r) /\ t'[r].pc = "idle" /\ t'[r].fresh = FALSE
  BY <1>1, Ends
<1>3. TypeOK'
  BY <1>1, <1>2 DEF TypeOK, Elsewhere
<1>4. QED
  BY <1>1, <1>2, <1>3

\* The hash of a transaction of step k of cycle c is forgotten.
LostAdded(c, k) ==
    /\ lost'[c][k] = lost[c][k] + 1
    /\ \A d \in Cycle, j \in Step : d # c \/ j # k => lost'[d][j] = lost[d][j]

LEMMA LostFx ==
    ASSUME TypeOK, NEW c \in Cycle, NEW k \in Step, lost' = [lost EXCEPT ![c][k] = @ + 1]
    PROVE  lost' \in [Cycle -> [Step -> Nat]] /\ LostAdded(c, k)
<1>1. lost \in [Cycle -> [Step -> Nat]] /\ lost[c] \in [Step -> Nat] /\ lost[c][k] \in Nat
  BY DEF TypeOK
<1>2. lost' = [lost EXCEPT ![c] = [lost[c] EXCEPT ![k] = lost[c][k] + 1]]
  OBVIOUS
<1>3. lost[c][k] + 1 \in Nat
  BY <1>1
<1>4. lost' \in [Cycle -> [Step -> Nat]]
  BY <1>1, <1>2, <1>3
<1>5. LostAdded(c, k)
  BY <1>1, <1>2 DEF LostAdded
<1>6. QED
  BY <1>4, <1>5

\* A failure is counted.
LEMMA FaultFx ==
    ASSUME TypeOK, Fault
    PROVE  upsets' \in 0..MaxUpsets
BY Facts DEF TypeOK, Fault

LEMMA SendUnansweredFx ==
    ASSUME TypeOK, NEW r \in Runners, TickInv(r), SendUnanswered(r)
    PROVE  /\ TypeOK' /\ OnlyTick(r) /\ In(r, "send")
           /\ TxAdded(t[r].c, t[r].k, [amount |-> Amount(r), status |-> "pending"])
           /\ LostAdded(t[r].c, t[r].k)
           /\ t'[r].pc = "idle" /\ t'[r].fresh = FALSE
           /\ UNCHANGED <<cycle, usdc, wfair, allowance, incomes, up, overlaps>>
<1>1. /\ Broadcast(r) /\ Become(r, Idle) /\ Fault
      /\ lost' = [lost EXCEPT ![t[r].c][t[r].k] = @ + 1] /\ UNCHANGED <<cycle, up, overlaps>>
  BY DEF SendUnanswered
<1>2. /\ tx' \in [Cycle -> [Step -> Seq(Transaction)]]
      /\ TxAdded(t[r].c, t[r].k, [amount |-> Amount(r), status |-> "pending"])
      /\ In(r, "send") /\ t[r].c \in Cycle /\ t[r].k \in Step
      /\ UNCHANGED <<usdc, wfair, allowance, incomes>>
  BY <1>1, BroadcastFx
<1>3. lost' \in [Cycle -> [Step -> Nat]] /\ LostAdded(t[r].c, t[r].k)
  BY <1>1, <1>2, LostFx
<1>4. t' \in [Runners -> TickState] /\ OnlyTick(r) /\ t'[r].pc = "idle" /\ t'[r].fresh = FALSE
  BY <1>1, Ends
<1>5. TypeOK'
  BY <1>1, <1>2, <1>3, <1>4, FaultFx DEF TypeOK
<1>6. QED
  BY <1>1, <1>2, <1>3, <1>4, <1>5

\* The n-th transaction of step k of cycle c is put on file.
Filed(c, k, n) ==
    /\ OnlyCycle(c)
    /\ cycle'[c].status = cycle[c].status /\ cycle'[c].acquired = cycle[c].acquired
    /\ cycle'[c].hash[k] = n
    /\ \A j \in Step \ {k} : cycle'[c].hash[j] = cycle[c].hash[j]

LEMMA FileHashFx ==
    ASSUME TypeOK, NEW r \in Runners, FileHash(r), t[r].c \in Cycle
    PROVE  cycle' \in [Cycle -> CycleDoc] /\ Filed(t[r].c, t[r].k, t[r].sent)
<1> DEFINE c == t[r].c
           k == t[r].k
           n == t[r].sent
<1>1. cycle' = [cycle EXCEPT ![c].hash[k] = n]
  BY DEF FileHash
<1>2. c \in Cycle /\ k \in Step /\ n \in Nat
  BY TickTypes
<1> HIDE DEF c, k, n
<1>3. /\ cycle \in [Cycle -> CycleDoc] /\ cycle[c] \in CycleDoc
      /\ cycle[c].hash \in [Step -> Nat]
  BY <1>2 DEF TypeOK, CycleDoc
<1> DEFINE h == [cycle[c].hash EXCEPT ![k] = n]
<1>4. cycle' = [cycle EXCEPT ![c] = [cycle[c] EXCEPT !.hash = h]]
  BY <1>1
<1>5. h \in [Step -> Nat] /\ h[k] = n /\ \A j \in Step \ {k} : h[j] = cycle[c].hash[j]
  BY <1>2, <1>3
<1> HIDE DEF h
<1>6. PICK z : z = [cycle[c] EXCEPT !.hash = h]
  OBVIOUS
<1>7. /\ z \in CycleDoc /\ z.status = cycle[c].status /\ z.hash = h
      /\ z.acquired = cycle[c].acquired
  BY <1>3, <1>5, <1>6 DEF CycleDoc
<1>8. cycle' \in [Cycle -> CycleDoc] /\ cycle'[c] = z /\ OnlyCycle(c)
  BY <1>2, <1>3, <1>4, <1>6, <1>7 DEF OnlyCycle
<1>9. Filed(c, k, n)
  BY <1>5, <1>7, <1>8 DEF Filed
<1>10. QED
  BY <1>8, <1>9 DEF c, k, n

LEMMA RecordTxFx ==
    ASSUME TypeOK, NEW r \in Runners, TickInv(r), RecordTx(r)
    PROVE  /\ TypeOK' /\ OnlyTick(r) /\ In(r, "record") /\ SameStep(r) /\ Elsewhere
           /\ Filed(t[r].c, t[r].k, t[r].sent)
           /\ t'[r].pc = "await" /\ t'[r].fresh = t[r].fresh /\ t'[r].before = t[r].before
           /\ t'[r].sent = t[r].sent
<1>1. In(r, "record") /\ FileHash(r) /\ Goto(r, "await") /\ Elsewhere /\ upsets' = upsets
  BY DEF RecordTx, Elsewhere, chain
<1>2. t[r].c \in Cycle /\ "await" \in TickPc
  BY <1>1 DEF TickInv, In, Working, TickPc
<1>3. cycle' \in [Cycle -> CycleDoc] /\ Filed(t[r].c, t[r].k, t[r].sent)
  BY <1>1, <1>2, FileHashFx
<1>4. /\ t' \in [Runners -> TickState] /\ OnlyTick(r) /\ SameStep(r)
      /\ t'[r].pc = "await" /\ t'[r].fresh = t[r].fresh /\ t'[r].before = t[r].before
      /\ t'[r].sent = t[r].sent
  BY <1>1, <1>2, Goes
<1>5. TypeOK'
  BY <1>1, <1>3, <1>4 DEF TypeOK, Elsewhere
<1>6. QED
  BY <1>1, <1>3, <1>4, <1>5

LEMMA RecordFailsFx ==
    ASSUME TypeOK, NEW r \in Runners, TickInv(r), RecordFails(r)
    PROVE  /\ TypeOK' /\ OnlyTick(r) /\ In(r, "record")
           /\ t'[r].pc = "idle" /\ t'[r].fresh = FALSE
           /\ UNCHANGED <<tx, usdc, wfair, allowance, incomes, up, overlaps>>
           /\ \/ Filed(t[r].c, t[r].k, t[r].sent) /\ lost' = lost
              \/ LostAdded(t[r].c, t[r].k) /\ cycle' = cycle
<1>1. /\ In(r, "record") /\ Become(r, Idle) /\ Fault
      /\ UNCHANGED <<tx, usdc, wfair, allowance, incomes, up, overlaps>>
      /\ \/ FileHash(r) /\ UNCHANGED lost
         \/ lost' = [lost EXCEPT ![t[r].c][t[r].k] = @ + 1] /\ UNCHANGED cycle
  BY DEF RecordFails, chain
<1>2. t[r].c \in Cycle /\ t[r].k \in Step
  BY <1>1, TickTypes DEF TickInv, In, Working
<1>3. \/ cycle' \in [Cycle -> CycleDoc] /\ Filed(t[r].c, t[r].k, t[r].sent) /\ lost' = lost
      \/ /\ lost' \in [Cycle -> [Step -> Nat]] /\ LostAdded(t[r].c, t[r].k)
         /\ cycle' = cycle
  BY <1>1, <1>2, FileHashFx, LostFx
<1>4. t' \in [Runners -> TickState] /\ OnlyTick(r) /\ t'[r].pc = "idle" /\ t'[r].fresh = FALSE
  BY <1>1, Ends
<1>5. upsets' \in 0..MaxUpsets
  BY <1>1, FaultFx
<1>6. TypeOK'
  BY <1>1, <1>3, <1>4, <1>5 DEF TypeOK
<1>7. QED
  BY <1>1, <1>3, <1>4, <1>6

\* A cycle is given up, or it is complete.
LEMMA ClosesFx ==
    ASSUME TypeOK, NEW r \in Runners, t[r].c \in Cycle, NEW status \in CycleStatus,
           cycle' = [cycle EXCEPT ![t[r].c].status = status], Become(r, Idle),
           Elsewhere, upsets' = upsets
    PROVE  /\ TypeOK' /\ OnlyTick(r) /\ t'[r].pc = "idle" /\ t'[r].fresh = FALSE
           /\ Writes(t[r].c, status, cycle[t[r].c].acquired)
<1>1. cycle' \in [Cycle -> CycleDoc] /\ Writes(t[r].c, status, cycle[t[r].c].acquired)
  BY StatusWritten
<1>2. t' \in [Runners -> TickState] /\ OnlyTick(r) /\ t'[r].pc = "idle" /\ t'[r].fresh = FALSE
  BY Ends
<1>3. TypeOK'
  BY <1>1, <1>2 DEF TypeOK, Elsewhere
<1>4. QED
  BY <1>1, <1>2, <1>3

LEMMA AwaitRevertedFx ==
    ASSUME TypeOK, NEW r \in Runners, TickInv(r), AwaitReverted(r)
    PROVE  /\ TypeOK' /\ OnlyTick(r) /\ In(r, "await") /\ Elsewhere
           /\ t'[r].pc = "idle" /\ t'[r].fresh = FALSE
           /\ Writes(t[r].c, "FAILED", cycle[t[r].c].acquired)
<1>1. /\ In(r, "await") /\ cycle' = [cycle EXCEPT ![t[r].c].status = "FAILED"]
      /\ Become(r, Idle) /\ Elsewhere /\ upsets' = upsets
  BY DEF AwaitReverted, Elsewhere, chain
<1>2. t[r].c \in Cycle /\ "FAILED" \in CycleStatus
  BY <1>1 DEF TickInv, In, Working, CycleStatus
<1>3. QED
  BY <1>1, <1>2, ClosesFx

LEMMA CompleteCycleFx ==
    ASSUME TypeOK, NEW r \in Runners, TickInv(r), CompleteCycle(r)
    PROVE  /\ TypeOK' /\ OnlyTick(r) /\ In(r, "complete") /\ Elsewhere
           /\ t'[r].pc = "idle" /\ t'[r].fresh = FALSE
           /\ Writes(t[r].c, "COMPLETE", cycle[t[r].c].acquired)
<1>1. /\ In(r, "complete") /\ cycle' = [cycle EXCEPT ![t[r].c].status = "COMPLETE"]
      /\ Become(r, Idle) /\ Elsewhere /\ upsets' = upsets
  BY DEF CompleteCycle, Elsewhere, chain
<1>2. t[r].c \in Cycle /\ "COMPLETE" \in CycleStatus
  BY <1>1 DEF TickInv, In, Working, CycleStatus
<1>3. QED
  BY <1>1, <1>2, ClosesFx

LEMMA TickErrorFx ==
    ASSUME TypeOK, NEW r \in Runners, TickError(r)
    PROVE  /\ TypeOK' /\ OnlyTick(r) /\ Running(r) /\ ~In(r, "record") /\ Elsewhere
           /\ cycle' = cycle /\ t'[r].pc = "idle" /\ t'[r].fresh = FALSE
<1>1. /\ Running(r) /\ ~In(r, "record") /\ Fault /\ Become(r, Idle) /\ Elsewhere
      /\ cycle' = cycle
  BY DEF TickError, Elsewhere, chain
<1>2. t' \in [Runners -> TickState] /\ OnlyTick(r) /\ t'[r].pc = "idle" /\ t'[r].fresh = FALSE
  BY <1>1, Ends
<1>3. TypeOK'
  BY <1>1, <1>2, FaultFx DEF TypeOK, Elsewhere
<1>4. QED
  BY <1>1, <1>2, <1>3

LEMMA AwaitBurnFx ==
    ASSUME TypeOK, NEW r \in Runners, TickInv(r), AwaitBurn(r)
    PROVE  /\ TypeOK' /\ OnlyTick(r) /\ In(r, "await") /\ Elsewhere /\ cycle' = cycle
           /\ t[r].k # 0 /\ tx[t[r].c][t[r].k][t[r].sent].status = "ok"
           /\ t'[r].c = t[r].c /\ t'[r].acquired = t[r].acquired
           /\ t'[r].fresh = t[r].fresh /\ t'[r].before = t[r].before
           /\ \/ t[r].k = LastStep /\ t'[r].pc = "complete" /\ t'[r].k = t[r].k
                 /\ t'[r].hash = t[r].hash
              \/ t[r].k < LastStep /\ t'[r].pc = "step" /\ t'[r].k = t[r].k + 1
                 /\ t'[r].hash = cycle[t[r].c].hash
<1> DEFINE k == t[r].k
           y == [t[r] EXCEPT !.pc = "complete"]
           x == [t[r] EXCEPT !.pc = "complete", !.sent = 0]
           a == [t[r] EXCEPT !.pc = "step"]
           b == [a EXCEPT !.k = k + 1]
           d == [b EXCEPT !.sent = 0]
           z == [t[r] EXCEPT !.pc = "step", !.k = @ + 1, !.sent = 0,
                             !.hash = cycle[t[r].c].hash]
<1>1. /\ In(r, "await") /\ k # 0 /\ tx[t[r].c][k][t[r].sent].status = "ok"
      /\ Become(r, IF k = LastStep THEN x ELSE z)
      /\ Elsewhere /\ cycle' = cycle /\ upsets' = upsets
  BY DEF AwaitBurn, Local, Elsewhere, chain, Succeeded, TxStatus
<1>2. k \in Step /\ t[r].c \in Cycle
  BY <1>1, TickTypes DEF TickInv, In, Working
<1>3. cycle[t[r].c].hash \in [Step -> Nat]
  BY <1>2 DEF TypeOK, CycleDoc
<1>4. /\ x \in TickState /\ x.pc = "complete" /\ x.c = t[r].c /\ x.k = k
      /\ x.hash = t[r].hash /\ x.acquired = t[r].acquired /\ x.fresh = t[r].fresh
      /\ x.before = t[r].before
  <2>1. /\ y \in TickState /\ y.pc = "complete" /\ y.c = t[r].c /\ y.k = k
        /\ y.hash = t[r].hash /\ y.acquired = t[r].acquired /\ y.fresh = t[r].fresh
        /\ y.before = t[r].before
    BY TickTypes DEF TickState, TickPc
  <2>2. x = [y EXCEPT !.sent = 0]
    BY TickTypes DEF TickState
  <2> HIDE DEF y
  <2>3. QED
    BY <2>1, <2>2 DEF TickState
<1>5. k # LastStep => /\ k < LastStep /\ k + 1 \in Step
  BY <1>2 DEF LastStep, Step
<1>6. k # LastStep =>
         /\ z \in TickState /\ z.pc = "step" /\ z.c = t[r].c /\ z.k = k + 1
         /\ z.hash = cycle[t[r].c].hash /\ z.acquired = t[r].acquired
         /\ z.fresh = t[r].fresh /\ z.before = t[r].before
  <2> SUFFICES ASSUME k # LastStep
               PROVE  /\ z \in TickState /\ z.pc = "step" /\ z.c = t[r].c /\ z.k = k + 1
                      /\ z.hash = cycle[t[r].c].hash /\ z.acquired = t[r].acquired
                      /\ z.fresh = t[r].fresh /\ z.before = t[r].before
    OBVIOUS
  <2>1. /\ a \in TickState /\ a.pc = "step" /\ a.c = t[r].c /\ a.acquired = t[r].acquired
        /\ a.fresh = t[r].fresh /\ a.before = t[r].before
    BY TickTypes DEF TickState, TickPc
  <2>2. z = [d EXCEPT !.hash = cycle[t[r].c].hash]
    BY TickTypes DEF TickState
  <2> HIDE DEF a
  <2>3. /\ b \in TickState /\ b.pc = "step" /\ b.c = t[r].c /\ b.acquired = t[r].acquired
        /\ b.fresh = t[r].fresh /\ b.k = k + 1 /\ b.before = t[r].before
    BY <1>5, <2>1 DEF TickState
  <2> HIDE DEF b
  <2>4. /\ d \in TickState /\ d.pc = "step" /\ d.c = t[r].c /\ d.acquired = t[r].acquired
        /\ d.fresh = t[r].fresh /\ d.k = k + 1 /\ d.before = t[r].before
    BY <2>3 DEF TickState
  <2> HIDE DEF d
  <2>5. QED
    BY <1>3, <2>2, <2>4 DEF TickState
<1> HIDE DEF x, z
<1>7. k = LastStep => t' \in [Runners -> TickState] /\ t'[r] = x /\ OnlyTick(r)
  BY <1>1, <1>4, Becomes
<1>8. k # LastStep => t' \in [Runners -> TickState] /\ t'[r] = z /\ OnlyTick(r)
  BY <1>1, <1>6, Becomes
<1>9. TypeOK'
  BY <1>1, <1>7, <1>8 DEF TypeOK, Elsewhere
<1>10. QED
  BY <1>1, <1>4, <1>5, <1>6, <1>7, <1>8, <1>9

LEMMA AwaitSwapFx ==
    ASSUME TypeOK, NEW r \in Runners, TickInv(r), AwaitSwap(r)
    PROVE  /\ TypeOK' /\ OnlyTick(r) /\ In(r, "await") /\ Elsewhere
           /\ t[r].k = 0 /\ tx[t[r].c][0][t[r].sent].status = "ok"
           /\ t'[r].fresh = FALSE
           /\ \/ /\ t[r].fresh /\ t'[r].pc = "idle"
                 /\ Writes(t[r].c, "FAILED", cycle[t[r].c].acquired)
              \/ /\ Acquired(r) \in Nat
                 /\ Writes(t[r].c, cycle[t[r].c].status, Acquired(r))
                 /\ t'[r].pc = "step" /\ t'[r].c = t[r].c /\ t'[r].k = 1
                 /\ t'[r].hash = cycle[t[r].c].hash /\ t'[r].acquired = Acquired(r)
<1> DEFINE c == t[r].c
           n == Acquired(r)
           h == cycle[c].hash
           a == [t[r] EXCEPT !.pc = "step"]
           b == [a EXCEPT !.k = 1]
           d == [b EXCEPT !.sent = 0]
           e == [d EXCEPT !.fresh = FALSE]
           f == [e EXCEPT !.before = 0]
           g == [f EXCEPT !.acquired = n]
           z == [t[r] EXCEPT !.pc = "step", !.k = 1, !.sent = 0, !.fresh = FALSE,
                             !.before = 0, !.acquired = n, !.hash = h]
<1>1. /\ In(r, "await") /\ t[r].k = 0 /\ tx[c][0][t[r].sent].status = "ok"
      /\ Elsewhere /\ upsets' = upsets
  BY DEF AwaitSwap, Elsewhere, chain, Succeeded, TxStatus
<1>2. \/ /\ t[r].fresh /\ n <= 0
         /\ cycle' = [cycle EXCEPT ![c].status = "FAILED"] /\ Become(r, Idle)
      \/ /\ ~(t[r].fresh /\ n <= 0)
         /\ cycle' = [cycle EXCEPT ![c].acquired = n] /\ Become(r, z)
  BY DEF AwaitSwap
<1>3. c \in Cycle /\ t[r].fresh \in BOOLEAN /\ t[r].before \in Nat /\ wfair \in Nat
      /\ t[r].acquired \in Nat \union {Null} /\ "FAILED" \in CycleStatus
  BY <1>1, TickTypes DEF TickInv, In, Working, TypeOK, CycleStatus
<1>4. ASSUME t[r].fresh, cycle' = [cycle EXCEPT ![c].status = "FAILED"], Become(r, Idle)
      PROVE  /\ TypeOK' /\ OnlyTick(r) /\ t'[r].pc = "idle" /\ t'[r].fresh = FALSE
             /\ Writes(c, "FAILED", cycle[c].acquired)
  BY <1>1, <1>3, <1>4, ClosesFx
<1>5. ASSUME ~(t[r].fresh /\ n <= 0), cycle' = [cycle EXCEPT ![c].acquired = n], Become(r, z)
      PROVE  /\ TypeOK' /\ OnlyTick(r) /\ n \in Nat /\ t'[r].fresh = FALSE
             /\ Writes(c, cycle[c].status, n)
             /\ t'[r].pc = "step" /\ t'[r].c = c /\ t'[r].k = 1
             /\ t'[r].hash = h /\ t'[r].acquired = n
  <2>1. n \in Nat
    BY <1>3, <1>5 DEF Acquired
  <2>2. /\ cycle[c] \in CycleDoc /\ cycle \in [Cycle -> CycleDoc] /\ h \in [Step -> Nat]
    BY <1>3 DEF TypeOK, CycleDoc
  <2>3. /\ a \in TickState /\ a.pc = "step" /\ a.c = c
    BY TickTypes DEF TickState, TickPc
  <2>4. z = [g EXCEPT !.hash = h]
    BY TickTypes DEF TickState
  <2> HIDE DEF a, n, h
  <2>5. b \in TickState /\ b.pc = "step" /\ b.c = c /\ b.k = 1
    BY <2>3 DEF TickState, Step
  <2> HIDE DEF b
  <2>6. d \in TickState /\ d.pc = "step" /\ d.c = c /\ d.k = 1
    BY <2>5 DEF TickState
  <2> HIDE DEF d
  <2>7. e \in TickState /\ e.pc = "step" /\ e.c = c /\ e.k = 1 /\ e.fresh = FALSE
    BY <2>6 DEF TickState
  <2> HIDE DEF e
  <2>8. f \in TickState /\ f.pc = "step" /\ f.c = c /\ f.k = 1 /\ f.fresh = FALSE
    BY <2>7 DEF TickState
  <2> HIDE DEF f
  <2>9. /\ g \in TickState /\ g.pc = "step" /\ g.c = c /\ g.k = 1 /\ g.fresh = FALSE
        /\ g.acquired = n
    BY <2>1, <2>8 DEF TickState
  <2> HIDE DEF g
  <2>10. /\ z \in TickState /\ z.pc = "step" /\ z.c = c /\ z.k = 1 /\ z.fresh = FALSE
         /\ z.acquired = n /\ z.hash = h
    BY <2>2, <2>4, <2>9 DEF TickState
  <2> HIDE DEF z
  <2>11. t' \in [Runners -> TickState] /\ t'[r] = z /\ OnlyTick(r)
    BY <1>5, <2>10, Becomes
  <2>12. cycle' = [cycle EXCEPT ![c] = [cycle[c] EXCEPT !.acquired = n]]
    BY <1>3, <1>5, <2>2
  <2>13. PICK y : y = [cycle[c] EXCEPT !.acquired = n]
    OBVIOUS
  <2>14. y \in CycleDoc /\ y.status = cycle[c].status /\ y.hash = cycle[c].hash
         /\ y.acquired = n
    BY <2>1, <2>2, <2>13 DEF CycleDoc
  <2>15. cycle' \in [Cycle -> CycleDoc] /\ Writes(c, cycle[c].status, n)
    BY <1>3, <2>2, <2>12, <2>13, <2>14 DEF Writes, OnlyCycle
  <2>16. TypeOK'
    BY <1>1, <2>11, <2>15 DEF TypeOK, Elsewhere
  <2>17. QED
    BY <2>1, <2>10, <2>11, <2>15, <2>16
<1> HIDE DEF n, z, h
<1>6. QED
  BY <1>1, <1>2, <1>4, <1>5 DEF n, h

\* The i-th transaction of step k of cycle c is mined.
TxMined(c, k, i, status) ==
    /\ tx[c][k][i].status = "pending" /\ i \in DOMAIN tx[c][k]
    /\ Len(tx'[c][k]) = Len(tx[c][k])
    /\ tx'[c][k][i].status = status /\ tx'[c][k][i].amount = tx[c][k][i].amount
    /\ \A j \in DOMAIN tx[c][k] \ {i} : tx'[c][k][j] = tx[c][k][j]
    /\ \A d \in Cycle, j \in Step : d # c \/ j # k => tx'[d][j] = tx[d][j]

LEMMA SetTxStatusFx ==
    ASSUME TypeOK, NEW c \in Cycle, NEW k \in Step, NEW i \in DOMAIN tx[c][k],
           NEW status \in {"ok", "reverted"}, tx[c][k][i].status = "pending",
           SetTxStatus(c, k, i, status)
    PROVE  tx' \in [Cycle -> [Step -> Seq(Transaction)]] /\ TxMined(c, k, i, status)
<1>1. /\ tx \in [Cycle -> [Step -> Seq(Transaction)]] /\ tx[c] \in [Step -> Seq(Transaction)]
      /\ tx[c][k] \in Seq(Transaction)
  BY DEF TypeOK
<1> DEFINE s == tx[c][k]
           x == [s[i] EXCEPT !.status = status]
           u == [s EXCEPT ![i] = x]
<1>2. s[i] \in Transaction
  BY <1>1
<1>3. x \in Transaction /\ x.status = status /\ x.amount = s[i].amount
  BY <1>2 DEF Transaction
<1>4. tx' = [tx EXCEPT ![c] = [tx[c] EXCEPT ![k] = u]]
  BY <1>1 DEF SetTxStatus
<1> HIDE DEF x
<1>5. /\ u \in Seq(Transaction) /\ Len(u) = Len(s) /\ u[i] = x
      /\ \A j \in DOMAIN s \ {i} : u[j] = s[j]
  BY <1>1, <1>3
<1> HIDE DEF u
<1>6. tx' \in [Cycle -> [Step -> Seq(Transaction)]] /\ tx'[c][k] = u
      /\ \A d \in Cycle, j \in Step : d # c \/ j # k => tx'[d][j] = tx[d][j]
  BY <1>1, <1>4, <1>5
<1>7. QED
  BY <1>3, <1>5, <1>6 DEF TxMined

\* Neither a document nor a tick nor a count changes.
OnBase == UNCHANGED <<cycle, t, up, lost, overlaps>>

LEMMA MineFx ==
    ASSUME TypeOK, NEW c \in Cycle, NEW k \in Step, Mine(c, k)
    PROVE  /\ TypeOK' /\ OnBase
           /\ \E i \in DOMAIN tx[c][k] :
                 \/ TxMined(c, k, i, "reverted") /\ wfair' = wfair
                 \/ /\ TxMined(c, k, i, "ok")
                    /\ k = 0 => wfair' = wfair + Rate * tx[c][0][i].amount
                    /\ k # 0 => wfair' = wfair - tx[c][k][i].amount
<1>1. PICK i \in DOMAIN tx[c][k] : IF k = 0 THEN MineSwap(c, i) ELSE MineBurn(c, k, i)
  BY DEF Mine
<1> DEFINE a == tx[c][k][i].amount
<1>2. a \in Nat /\ Rate * a \in Nat /\ Rate \in Nat /\ usdc \in Nat /\ wfair \in Nat
      /\ allowance \in Nat
  <2>1. tx[c][k] \in Seq(Transaction)
    BY DEF TypeOK
  <2>2. a \in Nat
    <3>1. tx[c][k][i] \in Transaction
      BY <2>1
    <3>2. QED
      BY <3>1 DEF Transaction
  <2> HIDE DEF a
  <2>3. QED
    BY <2>2, Facts DEF TypeOK
<1>3. tx[c][k][i].status = "pending" /\ OnBase /\ UNCHANGED <<incomes, upsets>>
  BY <1>1 DEF MineSwap, MineBurn, OnBase
<1>4. \/ SetTxStatus(c, k, i, "reverted") /\ UNCHANGED <<usdc, wfair, allowance>>
      \/ /\ SetTxStatus(c, k, i, "ok")
         /\ k = 0 => /\ usdc >= a /\ allowance >= a
                     /\ usdc' = usdc - a /\ allowance' = allowance - a
                     /\ wfair' = wfair + Rate * a
         /\ k # 0 => /\ wfair >= a /\ wfair' = wfair - a
                     /\ UNCHANGED <<usdc, allowance>>
  BY <1>1 DEF MineSwap, MineBurn, Affordable
<1> HIDE DEF a
<1>5. usdc' \in Nat /\ wfair' \in Nat /\ allowance' \in Nat
  BY <1>2, <1>4
<1>6. /\ tx' \in [Cycle -> [Step -> Seq(Transaction)]]
      /\ \/ TxMined(c, k, i, "reverted") /\ wfair' = wfair
         \/ /\ TxMined(c, k, i, "ok")
            /\ k = 0 => wfair' = wfair + Rate * a
            /\ k # 0 => wfair' = wfair - a
  BY <1>3, <1>4, SetTxStatusFx
<1>7. TypeOK'
  BY <1>3, <1>5, <1>6 DEF TypeOK, OnBase
<1>8. QED
  BY <1>3, <1>6, <1>7 DEF a

LEMMA MineRevertedFx ==
    ASSUME TypeOK, NEW c \in Cycle, NEW k \in Step, NEW i \in DOMAIN tx[c][k],
           MineReverted(c, k, i)
    PROVE  TypeOK' /\ OnBase /\ TxMined(c, k, i, "reverted") /\ wfair' = wfair
<1>1. /\ tx[c][k][i].status = "pending" /\ Fault /\ SetTxStatus(c, k, i, "reverted")
      /\ UNCHANGED <<cycle, usdc, wfair, allowance, incomes, up, t, lost, overlaps>>
  BY DEF MineReverted
<1>2. tx' \in [Cycle -> [Step -> Seq(Transaction)]] /\ TxMined(c, k, i, "reverted")
  BY <1>1, SetTxStatusFx
<1>3. TypeOK'
  BY <1>1, <1>2, FaultFx DEF TypeOK
<1>4. QED
  BY <1>1, <1>2, <1>3 DEF OnBase

LEMMA ReceiveUsdcFx ==
    ASSUME TypeOK, ReceiveUsdc
    PROVE  TypeOK' /\ OnBase /\ tx' = tx /\ wfair' = wfair
<1>1. /\ incomes < MaxIncome /\ incomes' = incomes + 1 /\ usdc' = usdc + Income
      /\ UNCHANGED <<cycle, tx, wfair, allowance, up, t, lost, upsets, overlaps>>
  BY DEF ReceiveUsdc
<1>2. incomes' \in 0..MaxIncome /\ usdc' \in Nat
  BY <1>1, Facts DEF TypeOK
<1>3. TypeOK'
  BY <1>1, <1>2 DEF TypeOK
<1>4. QED
  BY <1>1, <1>3 DEF OnBase

\* The ticks of a process that ends or begins are over.
NoTicks == \A r \in Runners : t'[r].pc \in {"off", "idle"} /\ t'[r].fresh = FALSE

LEMMA HandIs ==
    ASSUME NEW c \in Cycle, NEW k \in Step
    PROVE  HandHeld(c, k) = Cardinality(Hand(c, k)) /\ HandHeld(c, k) \in Nat
<1>1. Hand(c, k) \in SUBSET Runners /\ HandHeld(c, k) = Cardinality(Hand(c, k))
  BY DEF Hand, HandHeld, Holds
<1>2. QED
  BY <1>1, Facts, FS_Subset, FS_CardinalityType

LEMMA CrashFx ==
    ASSUME TypeOK, Crash
    PROVE  /\ TypeOK' /\ NoTicks
           /\ \A c \in Cycle, k \in Step : lost'[c][k] = lost[c][k] + HandHeld(c, k)
           /\ UNCHANGED <<cycle, tx, usdc, wfair, allowance, incomes, overlaps>>
<1>1. /\ Fault /\ up' = FALSE /\ t' = [r \in Runners |-> Off]
      /\ lost' = [c \in Cycle |-> [k \in Step |-> lost[c][k] + HandHeld(c, k)]]
      /\ UNCHANGED <<cycle, tx, usdc, wfair, allowance, incomes, overlaps>>
  BY DEF Crash, chain
<1>2. t' \in [Runners -> TickState] /\ NoTicks
  BY <1>1, IdleIs DEF NoTicks
<1>3. \A c \in Cycle, k \in Step : lost[c][k] + HandHeld(c, k) \in Nat
  BY HandIs DEF TypeOK
<1>4. lost' \in [Cycle -> [Step -> Nat]]
  BY <1>1, <1>3
<1>5. TypeOK'
  BY <1>1, <1>2, <1>4, FaultFx DEF TypeOK
<1>6. QED
  BY <1>1, <1>2, <1>5

LEMMA StartFx ==
    ASSUME TypeOK, Start
    PROVE  /\ TypeOK' /\ NoTicks
           /\ UNCHANGED <<cycle, tx, usdc, wfair, allowance, incomes, lost, overlaps>>
<1>1. /\ up' = TRUE /\ t' = [r \in Runners |-> Idle] /\ upsets' = upsets
      /\ UNCHANGED <<cycle, tx, usdc, wfair, allowance, incomes, lost, overlaps>>
  BY DEF Start, chain
<1>2. t' \in [Runners -> TickState] /\ NoTicks
  BY <1>1, IdleIs DEF NoTicks
<1>3. TypeOK'
  BY <1>1, <1>2 DEF TypeOK
<1>4. QED
  BY <1>1, <1>2, <1>3

-----------------------------------------------------------------------------
(***************************************************************************)
(* The first part of the invariant: what ticks know, what documents and    *)
(* the chain have in common, and the counts.                               *)
(***************************************************************************)

\* How the counts of ticks follow from the one tick that moves.
LEMMA HandMoves ==
    ASSUME NEW r \in Runners, OnlyTick(r), NEW c \in Cycle, NEW k \in Step
    PROVE  /\ Cardinality(Hand(c, k)) \in Nat /\ Cardinality(Hand(c, k))' \in Nat
           /\ Holds(r, c, k)' /\ ~Holds(r, c, k) =>
                 Cardinality(Hand(c, k))' = Cardinality(Hand(c, k)) + 1
           /\ ~Holds(r, c, k)' /\ Holds(r, c, k) =>
                 Cardinality(Hand(c, k))' = Cardinality(Hand(c, k)) - 1
           /\ (Holds(r, c, k)' <=> Holds(r, c, k)) =>
                 Cardinality(Hand(c, k))' = Cardinality(Hand(c, k))
<1>1. Hand(c, k) \in SUBSET Runners /\ Hand(c, k)' \in SUBSET Runners
  BY DEF Hand
<1>2. \A q \in Runners \ {r} : q \in Hand(c, k) <=> q \in Hand(c, k)'
  BY DEF Hand, Holds, In, OnlyTick
<1>3. /\ r \in Hand(c, k) <=> Holds(r, c, k)
      /\ r \in Hand(c, k)' <=> Holds(r, c, k)'
  BY DEF Hand
<1>4. QED
  BY <1>1, <1>2, <1>3, Facts, CardChange

LEMMA SendersMove ==
    ASSUME NEW r \in Runners, OnlyTick(r), NEW c \in Cycle, NEW k \in Step
    PROVE  /\ Cardinality(Senders(c, k)) \in Nat /\ Cardinality(Senders(c, k))' \in Nat
           /\ Sends(r, c, k)' /\ ~Sends(r, c, k) =>
                 Cardinality(Senders(c, k))' = Cardinality(Senders(c, k)) + 1
           /\ ~Sends(r, c, k)' /\ Sends(r, c, k) =>
                 Cardinality(Senders(c, k))' = Cardinality(Senders(c, k)) - 1
           /\ (Sends(r, c, k)' <=> Sends(r, c, k)) =>
                 Cardinality(Senders(c, k))' = Cardinality(Senders(c, k))
<1>1. Senders(c, k) \in SUBSET Runners /\ Senders(c, k)' \in SUBSET Runners
  BY DEF Senders
<1>2. \A q \in Runners \ {r} : q \in Senders(c, k) <=> q \in Senders(c, k)'
  BY DEF Senders, Sends, Works, In, OnlyTick
<1>3. /\ r \in Senders(c, k) <=> Sends(r, c, k)
      /\ r \in Senders(c, k)' <=> Sends(r, c, k)'
  BY DEF Senders
<1>4. QED
  BY <1>1, <1>2, <1>3, Facts, CardChange

LEMMA TickingMoves ==
    ASSUME NEW r \in Runners, OnlyTick(r)
    PROVE  /\ Cardinality(Ticking) \in Nat /\ Cardinality(Ticking)' \in Nat
           /\ Running(r)' /\ ~Running(r) => Cardinality(Ticking)' = Cardinality(Ticking) + 1
           /\ ~Running(r)' /\ Running(r) => Cardinality(Ticking)' = Cardinality(Ticking) - 1
           /\ (Running(r)' <=> Running(r)) => Cardinality(Ticking)' = Cardinality(Ticking)
<1>1. Ticking \in SUBSET Runners /\ Ticking' \in SUBSET Runners
  BY DEF Ticking
<1>2. \A q \in Runners \ {r} : q \in Ticking <=> q \in Ticking'
  BY DEF Ticking, Running, OnlyTick
<1>3. /\ r \in Ticking <=> Running(r)
      /\ r \in Ticking' <=> Running(r)'
  BY DEF Ticking
<1>4. QED
  BY <1>1, <1>2, <1>3, Facts, CardChange

LEMMA CreatingMoves ==
    ASSUME NEW r \in Runners, OnlyTick(r)
    PROVE  /\ Cardinality(Creating) \in Nat /\ Cardinality(Creating)' \in Nat
           /\ In(r, "create")' /\ ~In(r, "create") =>
                 Cardinality(Creating)' = Cardinality(Creating) + 1
           /\ ~In(r, "create")' /\ In(r, "create") =>
                 Cardinality(Creating)' = Cardinality(Creating) - 1
           /\ (In(r, "create")' <=> In(r, "create")) =>
                 Cardinality(Creating)' = Cardinality(Creating)
<1>1. Creating \in SUBSET Runners /\ Creating' \in SUBSET Runners
  BY DEF Creating
<1>2. \A q \in Runners \ {r} : q \in Creating <=> q \in Creating'
  BY DEF Creating, In, OnlyTick
<1>3. /\ r \in Creating <=> In(r, "create")
      /\ r \in Creating' <=> In(r, "create")'
  BY DEF Creating
<1>4. QED
  BY <1>1, <1>2, <1>3, Facts, CardChange

\* Documents stay stored and transactions stay sent.
Forward ==
    /\ \A c \in Cycle : cycle[c].status # "none" => cycle'[c].status # "none"
    /\ \A c \in Cycle, k \in Step : DOMAIN tx[c][k] \subseteq DOMAIN tx'[c][k]

\* Lengths, and the domains they stand for.
LEMMA Lengths ==
    ASSUME TypeOK, NEW c \in Cycle, NEW k \in Step
    PROVE  /\ tx[c][k] \in Seq(Transaction) /\ Len(tx[c][k]) \in Nat
           /\ DOMAIN tx[c][k] = 1..Len(tx[c][k])
           /\ lost[c][k] \in Nat /\ cycle[c].hash[k] \in Nat
           /\ cycle[c].hash \in [Step -> Nat] /\ overlaps \in Nat
<1>1. tx[c][k] \in Seq(Transaction) /\ cycle[c] \in CycleDoc /\ lost[c][k] \in Nat
  BY DEF TypeOK
<1>2. overlaps \in Nat
  BY Facts DEF TypeOK
<1>3. QED
  BY <1>1, <1>2 DEF CycleDoc

LEMMA LengthsNext ==
    ASSUME TypeOK', NEW c \in Cycle, NEW k \in Step
    PROVE  /\ tx'[c][k] \in Seq(Transaction) /\ Len(tx'[c][k]) \in Nat
           /\ DOMAIN tx'[c][k] = 1..Len(tx'[c][k])
           /\ lost'[c][k] \in Nat /\ cycle'[c].hash[k] \in Nat
           /\ cycle'[c].hash \in [Step -> Nat] /\ overlaps' \in Nat
<1>1. tx'[c][k] \in Seq(Transaction) /\ cycle'[c] \in CycleDoc /\ lost'[c][k] \in Nat
  BY DEF TypeOK
<1>2. overlaps' \in Nat
  BY Facts DEF TypeOK
<1>3. QED
  BY <1>1, <1>2 DEF CycleDoc

\* A tick that does not move knows what it knew.
LEMMA TickKept ==
    ASSUME TypeOK, TypeOK', NEW q \in Runners, TickInv(q), Forward, t'[q] = t[q]
    PROVE  TickInv(q)'
<1>1. t[q].pc \in Working => /\ t[q].c \in Cycle /\ t[q].k \in Step
                             /\ cycle[t[q].c].status # "none"
                             /\ \A k \in Step : t[q].hash[k] <= Len(tx[t[q].c][k])
  BY TickTypes DEF TickInv
<1>2. \A c \in Cycle, k \in Step : /\ Len(tx[c][k]) \in Nat /\ Len(tx'[c][k]) \in Nat
                                   /\ Len(tx[c][k]) <= Len(tx'[c][k])
  <2> SUFFICES ASSUME NEW c \in Cycle, NEW k \in Step
               PROVE  /\ Len(tx[c][k]) \in Nat /\ Len(tx'[c][k]) \in Nat
                      /\ Len(tx[c][k]) <= Len(tx'[c][k])
    OBVIOUS
  <2>1. /\ Len(tx[c][k]) \in Nat /\ Len(tx'[c][k]) \in Nat
        /\ 1..Len(tx[c][k]) \subseteq 1..Len(tx'[c][k])
    BY Lengths, LengthsNext DEF Forward
  <2>2. QED
    BY <2>1
<1>3. t[q].pc \in Working => \A k \in Step : t[q].hash[k] <= Len(tx'[t[q].c][k])
  <2> SUFFICES ASSUME t[q].pc \in Working, NEW k \in Step
               PROVE  t[q].hash[k] <= Len(tx'[t[q].c][k])
    OBVIOUS
  <2>1. t[q].hash[k] \in Nat
    BY TickTypes
  <2>2. QED
    BY <1>1, <1>2, <2>1
<1>4. t[q].pc \in {"record", "await"} => t[q].sent \in DOMAIN tx'[t[q].c][t[q].k]
  BY <1>1 DEF TickInv, Forward, Working
<1>5. QED
  BY <1>1, <1>3, <1>4 DEF TickInv, Forward, In

\* A tick that has no cycle knows nothing.
LEMMA TickIdle ==
    ASSUME NEW r \in Runners, t'[r].pc \in {"off", "idle", "claim", "create"}
    PROVE  TickInv(r)'
BY DEF TickInv, In, Working

\* The steps that neither send a transaction nor file or forget its hash.
PlainStep(r) ==
    \/ StartTick(r) \/ ClaimOrLoad(r) \/ CreateCycle(r) \/ EnterStep(r)
    \/ EnsureApproval(r) \/ ReadWfairBefore(r) \/ SendRejected(r)
    \/ AwaitSwap(r) \/ AwaitBurn(r) \/ AwaitReverted(r) \/ CompleteCycle(r) \/ TickError(r)

\* Such a step moves no hash, and the tick does not decide to send what is on file.
Plain(r) ==
    /\ OnlyTick(r) /\ tx' = tx /\ lost' = lost
    /\ overlaps' >= overlaps
    /\ \A c \in Cycle : /\ cycle'[c].hash = cycle[c].hash
                        /\ cycle[c].status # "none" => cycle'[c].status # "none"
    /\ ~In(r, "record") /\ ~In(r, "record")'
    /\ \A c \in Cycle, k \in Step : Sends(r, c, k)' => Sends(r, c, k) \/ cycle[c].hash[k] = 0

\* A tick about to store a cycle finds a document for it.
LEMMA FreeIsThere ==
    ASSUME RoomInv, NEW r \in Runners, In(r, "create")
    PROVE  Free # {}
<1>1. Creating \in SUBSET Runners /\ r \in Creating
  BY DEF Creating
<1>2. IsFiniteSet(Creating)
  BY <1>1, Facts, FS_Subset
<1>3. Cardinality(Creating) \in Nat /\ Cardinality(Creating) # 0
  BY <1>1, <1>2, FS_CardinalityType, FS_EmptySet
<1>4. Cardinality({}) = 0
  BY FS_EmptySet
<1>5. QED
  BY <1>3, <1>4 DEF RoomInv

\* One document written, its hashes kept.
LEMMA WritesPlain ==
    ASSUME NEW c \in Cycle, NEW status \in CycleStatus \ {"none"}, NEW n, Writes(c, status, n)
    PROVE  \A d \in Cycle : /\ cycle'[d].hash = cycle[d].hash
                            /\ cycle[d].status # "none" => cycle'[d].status # "none"
BY DEF Writes, OnlyCycle

\* A tick that ends, or only reads, sends nothing.
LEMMA IdlePlain ==
    ASSUME NEW r \in Runners, t'[r].pc \in {"off", "idle", "claim", "create"}
    PROVE  /\ ~In(r, "record")' /\ \A c \in Cycle, k \in Step : ~Sends(r, c, k)'
           /\ TickInv(r)'
BY TickIdle DEF In, Sends, Works, Working

LEMMA ClaimPlain ==
    ASSUME TypeOK, NEW r \in Runners, \A c \in Cycle : DocInv(c), ClaimOrLoad(r)
    PROVE  Plain(r) /\ TickInv(r)'
<1>1. /\ OnlyTick(r) /\ In(r, "claim")
      /\ UNCHANGED <<cycle, tx, usdc, wfair, allowance, incomes, up, lost, overlaps>>
      /\ \/ /\ t'[r].c \in InFlight /\ t'[r].pc = "step"
            /\ t'[r].hash = cycle[t'[r].c].hash /\ t'[r].k = 0
         \/ t'[r] = [t[r] EXCEPT !.pc = "create"]
         \/ t'[r] = Idle
  BY ClaimFx
<1>2. t'[r].pc \in {"step", "create", "idle"}
  BY <1>1, IdleIs, TickTypes DEF TickState
<1>3. ASSUME t'[r].pc = "step"
      PROVE  /\ t'[r].c \in Cycle /\ Open(t'[r].c)
             /\ t'[r].hash = cycle[t'[r].c].hash /\ t'[r].k = 0
  <2>1. [t[r] EXCEPT !.pc = "create"].pc = "create"
    BY TickTypes DEF TickState
  <2>2. QED
    BY <1>1, <1>3, <2>1, IdleIs DEF InFlight
<1>4. ASSUME t'[r].pc = "step"
      PROVE  /\ ~In(r, "record")' /\ TickInv(r)'
             /\ \A c \in Cycle, k \in Step : Sends(r, c, k)' => cycle[c].hash[k] = 0
  <2>1. cycle[t'[r].c].status # "none"
    BY <1>3, <1>4 DEF Open
  <2>2. \A k \in Step : t'[r].hash[k] <= Len(tx'[t'[r].c][k])
    BY <1>1, <1>3, <1>4 DEF DocInv
  <2>3. TickInv(r)'
    BY <1>1, <1>3, <1>4, <2>1, <2>2 DEF TickInv, In
  <2>4. QED
    BY <1>3, <1>4, <2>3 DEF Sends, Works, In
<1>5. ~In(r, "record") /\ overlaps' >= overlaps
  BY <1>1, Facts DEF In, TypeOK
<1>6. QED
  BY <1>1, <1>2, <1>4, <1>5, IdlePlain DEF Plain

LEMMA CreatePlain ==
    ASSUME TypeOK, NEW r \in Runners, RoomInv, \A c \in Cycle : DocInv(c), CreateCycle(r)
    PROVE  Plain(r) /\ TickInv(r)'
<1>1. Free # {}
  BY FreeIsThere DEF CreateCycle
<1>2. /\ TypeOK' /\ OnlyTick(r) /\ In(r, "create")
      /\ t'[r].pc = "step" /\ t'[r].k = 0 /\ t'[r].hash = [k \in Step |-> 0]
      /\ UNCHANGED <<tx, lost, overlaps>>
  BY <1>1, CreateFx
<1>3. PICK c \in Free : /\ t'[r].c = c /\ OnlyCycle(c) /\ cycle'[c].status = "PENDING"
                        /\ cycle'[c].hash = cycle[c].hash
  BY <1>1, CreateFx
<1>4. /\ c \in Cycle /\ cycle[c].status = "none"
      /\ \A k \in Step : cycle[c].hash[k] = 0 /\ tx[c][k] = <<>>
  BY <1>3 DEF Free, DocInv
<1>5. \A d \in Cycle : /\ cycle'[d].hash = cycle[d].hash
                       /\ cycle[d].status # "none" => cycle'[d].status # "none"
  BY <1>3 DEF OnlyCycle
<1>6. \A k \in Step : t'[r].hash[k] <= Len(tx'[c][k])
  <2>1. \A k \in Step : t'[r].hash[k] = 0 /\ tx'[c][k] = <<>>
    BY <1>2, <1>4
  <2>2. Len(<<>>) = 0
    OBVIOUS
  <2>3. QED
    BY <2>1, <2>2
<1>7. TickInv(r)'
  BY <1>2, <1>3, <1>4, <1>5, <1>6 DEF TickInv, In
<1>8. \A d \in Cycle, k \in Step : Sends(r, d, k)' => cycle[d].hash[k] = 0
  BY <1>2, <1>3, <1>4 DEF Sends, Works
<1>9. ~In(r, "record") /\ ~In(r, "record")' /\ overlaps' >= overlaps
  BY <1>2, Facts DEF In, TypeOK
<1>10. QED
  BY <1>2, <1>5, <1>7, <1>8, <1>9 DEF Plain

LEMMA EnterStepPlain ==
    ASSUME TypeOK, NEW r \in Runners, TickInv(r), EnterStep(r)
    PROVE  Plain(r) /\ TickInv(r)'
<1>1. /\ TypeOK' /\ OnlyTick(r) /\ In(r, "step") /\ SameStep(r) /\ Elsewhere
      /\ \/ /\ t[r].hash[t[r].k] # 0 /\ cycle' = cycle
            /\ t'[r].pc = "await" /\ t'[r].sent = t[r].hash[t[r].k]
         \/ /\ t[r].hash[t[r].k] = 0
            /\ t'[r].pc = IF t[r].k = 0 THEN "approve" ELSE "send"
            /\ \E status \in CycleStatus \ {"none", "COMPLETE", "FAILED"} :
                   Writes(t[r].c, status, cycle[t[r].c].acquired)
  BY EnterStepFx
<1>2. /\ t[r].c \in Cycle /\ cycle[t[r].c].status # "none" /\ t[r].k \in Step
      /\ \A k \in Step : t[r].hash[k] <= Len(tx[t[r].c][k])
      /\ t[r].k # 0 => t[r].acquired # Null
  BY <1>1, TickTypes DEF TickInv, In, Working
<1>3. \A d \in Cycle : /\ cycle'[d].hash = cycle[d].hash
                       /\ cycle[d].status # "none" => cycle'[d].status # "none"
  BY <1>1, <1>2, WritesPlain
<1>4. t'[r].pc = "await" => t'[r].sent \in DOMAIN tx[t[r].c][t[r].k]
  <2>1. /\ Len(tx[t[r].c][t[r].k]) \in Nat
        /\ DOMAIN tx[t[r].c][t[r].k] = 1..Len(tx[t[r].c][t[r].k])
    BY <1>2, Lengths
  <2>2. t[r].hash[t[r].k] \in Nat /\ t[r].hash[t[r].k] <= Len(tx[t[r].c][t[r].k])
    BY <1>2, TickTypes
  <2>3. QED
    BY <1>1, <2>1, <2>2
<1>5. /\ t'[r].pc \in {"await", "approve", "send"}
      /\ t'[r].pc = "approve" => t[r].k = 0
      /\ t'[r].c = t[r].c /\ t'[r].k = t[r].k /\ t'[r].hash = t[r].hash
      /\ t'[r].acquired = t[r].acquired /\ tx' = tx /\ lost' = lost /\ overlaps' = overlaps
  BY <1>1 DEF SameStep, Elsewhere
<1>6. TickInv(r)'
  BY <1>2, <1>3, <1>4, <1>5 DEF TickInv, In
<1>7. \A d \in Cycle, k \in Step : Sends(r, d, k)' => Sends(r, d, k)
  BY <1>1, <1>5 DEF Sends, Works, In, Working
<1>8. ~In(r, "record") /\ ~In(r, "record")' /\ overlaps' >= overlaps
  BY <1>1, <1>5, Facts DEF In, TypeOK
<1>9. QED
  BY <1>1, <1>3, <1>5, <1>6, <1>7, <1>8 DEF Plain

LEMMA ApprovePlain ==
    ASSUME TypeOK, NEW r \in Runners, TickInv(r), EnsureApproval(r) \/ ReadWfairBefore(r)
    PROVE  Plain(r) /\ TickInv(r)'
<1>1. /\ OnlyTick(r) /\ SameStep(r) /\ UNCHANGED <<cycle, tx, lost, overlaps>>
      /\ \/ In(r, "approve") /\ t'[r].pc = "before"
         \/ In(r, "before") /\ t'[r].pc = "send"
  BY EnsureApprovalFx, ReadWfairBeforeFx DEF Elsewhere
<1>2. TickInv(r)'
  BY <1>1 DEF TickInv, In, SameStep, Working
<1>3. \A d \in Cycle, k \in Step : Sends(r, d, k)' => Sends(r, d, k)
  BY <1>1 DEF Sends, Works, In, Working, SameStep
<1>4. ~In(r, "record") /\ ~In(r, "record")' /\ overlaps' >= overlaps
  BY <1>1, Facts DEF In, TypeOK
<1>5. QED
  BY <1>1, <1>2, <1>3, <1>4 DEF Plain

LEMMA AwaitSwapPlain ==
    ASSUME TypeOK, NEW r \in Runners, TickInv(r), \A c \in Cycle : DocInv(c), AwaitSwap(r)
    PROVE  Plain(r) /\ TickInv(r)'
<1>1. /\ TypeOK' /\ OnlyTick(r) /\ In(r, "await") /\ Elsewhere
      /\ \/ /\ t'[r].pc = "idle" /\ Writes(t[r].c, "FAILED", cycle[t[r].c].acquired)
         \/ /\ Acquired(r) \in Nat
            /\ Writes(t[r].c, cycle[t[r].c].status, Acquired(r))
            /\ t'[r].pc = "step" /\ t'[r].c = t[r].c /\ t'[r].k = 1
            /\ t'[r].hash = cycle[t[r].c].hash /\ t'[r].acquired = Acquired(r)
  BY AwaitSwapFx
<1>2. /\ t[r].c \in Cycle /\ cycle[t[r].c].status # "none"
      /\ cycle[t[r].c].status \in CycleStatus /\ "FAILED" \in CycleStatus
  BY <1>1 DEF TickInv, In, Working, TypeOK, CycleDoc, CycleStatus
<1>3. \A d \in Cycle : /\ cycle'[d].hash = cycle[d].hash
                       /\ cycle[d].status # "none" => cycle'[d].status # "none"
  BY <1>1, <1>2, WritesPlain
<1>4. ~In(r, "record") /\ overlaps' >= overlaps /\ tx' = tx /\ lost' = lost
  BY <1>1, Facts DEF In, TypeOK, Elsewhere
<1>5. ASSUME t'[r].pc = "step"
      PROVE  /\ ~In(r, "record")' /\ TickInv(r)'
             /\ \A c \in Cycle, k \in Step : Sends(r, c, k)' => cycle[c].hash[k] = 0
  <2>1. /\ Acquired(r) \in Nat /\ t'[r].c = t[r].c /\ t'[r].k = 1
        /\ t'[r].hash = cycle[t[r].c].hash /\ t'[r].acquired = Acquired(r)
    BY <1>1, <1>5
  <2>2. \A k \in Step : t'[r].hash[k] <= Len(tx'[t'[r].c][k])
    BY <1>2, <1>4, <2>1 DEF DocInv
  <2>3. t'[r].acquired # Null
    BY <2>1 DEF Null
  <2>4. TickInv(r)'
    BY <1>2, <1>3, <1>5, <2>1, <2>2, <2>3 DEF TickInv, In
  <2>5. QED
    BY <1>5, <2>1, <2>4 DEF Sends, Works, In
<1>6. QED
  BY <1>1, <1>3, <1>4, <1>5, IdlePlain DEF Plain

LEMMA AwaitBurnPlain ==
    ASSUME TypeOK, NEW r \in Runners, TickInv(r), \A c \in Cycle : DocInv(c), AwaitBurn(r)
    PROVE  Plain(r) /\ TickInv(r)'
<1>1. /\ OnlyTick(r) /\ In(r, "await") /\ Elsewhere /\ cycle' = cycle
      /\ t[r].k # 0 /\ t'[r].c = t[r].c /\ t'[r].acquired = t[r].acquired
      /\ \/ t[r].k = LastStep /\ t'[r].pc = "complete" /\ t'[r].k = t[r].k
            /\ t'[r].hash = t[r].hash
         \/ t[r].k < LastStep /\ t'[r].pc = "step" /\ t'[r].k = t[r].k + 1
            /\ t'[r].hash = cycle[t[r].c].hash
  BY AwaitBurnFx
<1>2. /\ t[r].c \in Cycle /\ cycle[t[r].c].status # "none" /\ t[r].k \in Step
      /\ t[r].acquired # Null /\ \A k \in Step : t[r].hash[k] <= Len(tx[t[r].c][k])
  BY <1>1, TickTypes DEF TickInv, In, Working
<1>3. \A k \in Step : t'[r].hash[k] <= Len(tx'[t'[r].c][k])
  BY <1>1, <1>2 DEF DocInv, Elsewhere
<1>4. TickInv(r)'
  BY <1>1, <1>2, <1>3 DEF TickInv, In, Elsewhere
<1>5. \A c \in Cycle, k \in Step : Sends(r, c, k)' => cycle[c].hash[k] = 0
  BY <1>1 DEF Sends, Works, In
<1>6. ~In(r, "record") /\ ~In(r, "record")' /\ overlaps' >= overlaps /\ tx' = tx /\ lost' = lost
  BY <1>1, Facts DEF In, TypeOK, Elsewhere
<1>7. QED
  BY <1>1, <1>4, <1>5, <1>6 DEF Plain

LEMMA EndsPlain ==
    ASSUME TypeOK, NEW r \in Runners, TickInv(r),
           AwaitReverted(r) \/ CompleteCycle(r) \/ SendRejected(r) \/ TickError(r)
    PROVE  Plain(r) /\ TickInv(r)'
<1>1. /\ OnlyTick(r) /\ ~In(r, "record") /\ t'[r].pc = "idle" /\ Elsewhere
      /\ \/ cycle' = cycle
         \/ /\ t[r].c \in Cycle
            /\ \E status \in {"FAILED", "COMPLETE"} :
                   Writes(t[r].c, status, cycle[t[r].c].acquired)
  BY AwaitRevertedFx, CompleteCycleFx, SendRejectedFx, TickErrorFx
     DEF In, TickInv, Working
<1>2. "FAILED" \in CycleStatus \ {"none"} /\ "COMPLETE" \in CycleStatus \ {"none"}
  BY DEF CycleStatus
<1>3. \A d \in Cycle : /\ cycle'[d].hash = cycle[d].hash
                       /\ cycle[d].status # "none" => cycle'[d].status # "none"
  BY <1>1, <1>2, WritesPlain
<1>4. overlaps' >= overlaps /\ tx' = tx /\ lost' = lost
  BY <1>1, Facts DEF TypeOK, Elsewhere
<1>5. QED
  BY <1>1, <1>3, <1>4, IdlePlain DEF Plain

LEMMA StartTickPlain ==
    ASSUME TypeOK, NEW r \in Runners, StartTick(r)
    PROVE  Plain(r) /\ TickInv(r)'
<1>1. /\ OnlyTick(r) /\ In(r, "idle") /\ t'[r].pc = "claim"
      /\ UNCHANGED <<cycle, tx, lost>> /\ (overlaps' = overlaps + 1 \/ overlaps' = overlaps)
  BY StartTickFx
<1>2. ~In(r, "record") /\ overlaps' >= overlaps
  BY <1>1, Facts DEF In, TypeOK
<1>3. QED
  BY <1>1, <1>2, IdlePlain DEF Plain

LEMMA PlainIs ==
    ASSUME TypeOK, NEW r \in Runners, TickInv(r), \A c \in Cycle : DocInv(c), RoomInv,
           PlainStep(r)
    PROVE  TypeOK' /\ Plain(r) /\ TickInv(r)'
<1>1. Plain(r) /\ TickInv(r)'
  BY StartTickPlain, ClaimPlain, CreatePlain, EnterStepPlain, ApprovePlain, AwaitSwapPlain,
     AwaitBurnPlain, EndsPlain
     DEF PlainStep
<1>2. TypeOK'
  BY StartTickFx, ClaimFx, CreateFx, FreeIsThere, EnterStepFx, EnsureApprovalFx,
     ReadWfairBeforeFx, SendRejectedFx, AwaitSwapFx, AwaitBurnFx, AwaitRevertedFx,
     CompleteCycleFx, TickErrorFx
     DEF PlainStep, CreateCycle
<1>3. QED
  BY <1>1, <1>2

\* What a step that is not the tick's own may do to a document and its transactions.
LEMMA PlainDoc ==
    ASSUME NEW r \in Runners, Plain(r), NEW c \in Cycle, DocInv(c)
    PROVE  DocInv(c)'
BY DEF Plain, DocInv

\* The counts after a step with the arithmetic it takes.
LEMMA CountedPlain ==
    ASSUME NEW n \in Nat, NEW file \in {0, 1}, NEW forgot \in Nat, NEW hand \in Nat,
           NEW send \in Nat, NEW over \in Nat, Counted(n, file, forgot, hand, send, over),
           NEW next \in Nat, file = 1 => next <= send, NEW later \in Nat, over <= later
    PROVE  Counted(n, file, forgot, hand, next, later)
BY DEF Counted

LEMMA CountKept ==
    ASSUME TypeOK, TypeOK', NEW r \in Runners, OnlyTick(r), NEW c \in Cycle, NEW k \in Step,
           CountInv(c, k), overlaps' >= overlaps,
           Len(tx'[c][k]) = Len(tx[c][k]), lost'[c][k] = lost[c][k],
           OnFile(c, k)' = OnFile(c, k), Holds(r, c, k)' <=> Holds(r, c, k),
           OnFile(c, k) = 1 => (Sends(r, c, k)' => Sends(r, c, k))
    PROVE  CountInv(c, k)'
<1> DEFINE n == Len(tx[c][k])
           h == Cardinality(Hand(c, k))
           g == Cardinality(Hand(c, k))'
           s == Cardinality(Senders(c, k))
           u == Cardinality(Senders(c, k))'
           l == lost[c][k]
<1>1. /\ n \in Nat /\ l \in Nat /\ overlaps \in Nat /\ overlaps' \in Nat
      /\ overlaps <= overlaps'
  BY Lengths, LengthsNext
<1>2. h \in Nat /\ g = h
  BY HandMoves
<1>3. s \in Nat /\ u \in Nat /\ (OnFile(c, k) = 1 => u <= s)
  <2>1. /\ s \in Nat /\ u \in Nat
        /\ Sends(r, c, k)' /\ ~Sends(r, c, k) => u = s + 1
        /\ ~Sends(r, c, k)' /\ Sends(r, c, k) => u = s - 1
        /\ (Sends(r, c, k)' <=> Sends(r, c, k)) => u = s
    BY SendersMove
  <2> HIDE DEF s, u
  <2>2. QED
    BY <2>1
<1>4. Counted(n, OnFile(c, k), l, h, s, overlaps)
  BY DEF CountInv
<1>5. Counted(n, OnFile(c, k), l, g, u, overlaps')
  BY <1>1, <1>2, <1>3, <1>4, CountedPlain DEF OnFile
<1>6. QED
  BY <1>5 DEF CountInv

LEMMA PlainCount ==
    ASSUME TypeOK, TypeOK', NEW r \in Runners, Plain(r), NEW c \in Cycle, NEW k \in Step,
           CountInv(c, k)
    PROVE  CountInv(c, k)'
<1>1. /\ OnlyTick(r) /\ overlaps' >= overlaps /\ tx'[c][k] = tx[c][k]
      /\ lost'[c][k] = lost[c][k] /\ OnFile(c, k)' = OnFile(c, k)
      /\ ~Holds(r, c, k) /\ ~Holds(r, c, k)'
      /\ OnFile(c, k) = 1 => (Sends(r, c, k)' => Sends(r, c, k))
  BY DEF Plain, OnFile, Holds
<1>2. QED
  BY <1>1, CountKept

LEMMA CountedSend ==
    ASSUME NEW n \in Nat, NEW file \in {0, 1}, NEW forgot \in Nat, NEW hand \in Nat,
           NEW send \in Nat, NEW over \in Nat, Counted(n, file, forgot, hand, send, over)
    PROVE  /\ Counted(n + 1, file, forgot, hand + 1, send - 1, over)
           /\ Counted(n + 1, file, forgot + 1, hand, send - 1, over)
BY DEF Counted

LEMMA CountedRecord ==
    ASSUME NEW n \in Nat, NEW file \in {0, 1}, NEW forgot \in Nat, NEW hand \in Nat,
           NEW send \in Nat, NEW over \in Nat, Counted(n, file, forgot, hand, send, over)
    PROVE  /\ hand + send <= 1 + over => Counted(n, 1, forgot, hand - 1, send, over)
           /\ Counted(n, file, forgot + 1, hand - 1, send, over)
BY DEF Counted

LEMMA CountedEnd ==
    ASSUME NEW n \in Nat, NEW file \in {0, 1}, NEW forgot \in Nat, NEW hand \in Nat,
           NEW send \in Nat, NEW over \in Nat, Counted(n, file, forgot, hand, send, over)
    PROVE  Counted(n, file, forgot + hand, 0, 0, over)
BY DEF Counted

-----------------------------------------------------------------------------
\* A transaction is sent: it is in the tick's hand, or forgotten at once.
SendStep(r) == SendTx(r) \/ SendUnanswered(r)

LEMMA SendIs ==
    ASSUME TypeOK, NEW r \in Runners, TickInv(r), SendStep(r)
    PROVE  /\ TypeOK' /\ OnlyTick(r) /\ In(r, "send") /\ cycle' = cycle
           /\ t[r].c \in Cycle /\ t[r].k \in Step /\ cycle[t[r].c].status # "none"
           /\ TxAdded(t[r].c, t[r].k, [amount |-> Amount(r), status |-> "pending"])
           /\ UNCHANGED <<usdc, wfair, allowance, incomes, up, overlaps>>
           /\ \/ /\ lost' = lost /\ t'[r].pc = "record" /\ SameStep(r)
                 /\ t'[r].sent = Len(tx[t[r].c][t[r].k]) + 1
                 /\ t'[r].fresh = t[r].fresh /\ t'[r].before = t[r].before
              \/ /\ LostAdded(t[r].c, t[r].k) /\ t'[r].pc = "idle" /\ t'[r].fresh = FALSE
<1>1. CASE SendTx(r)
  BY <1>1, SendTxFx, TickTypes DEF In, TickInv, Working
<1>2. CASE SendUnanswered(r)
  BY <1>2, SendUnansweredFx, TickTypes DEF In, TickInv, Working
<1>3. QED
  BY <1>1, <1>2 DEF SendStep

LEMMA AddedLast ==
    ASSUME TypeOK, NEW c \in Cycle, NEW k \in Step, NEW x, TxAdded(c, k, x)
    PROVE  /\ Len(tx[c][k]) \in Nat /\ Len(tx'[c][k]) = Len(tx[c][k]) + 1
           /\ tx'[c][k][Len(tx[c][k]) + 1] = x
<1>1. tx[c][k] \in Seq(Transaction)
  BY DEF TypeOK
<1>2. QED
  BY <1>1 DEF TxAdded

LEMMA AddedLength ==
    ASSUME TypeOK, NEW c \in Cycle, NEW k \in Step, NEW x, TxAdded(c, k, x),
           NEW d \in Cycle, NEW j \in Step
    PROVE  /\ d # c \/ j # k => tx'[d][j] = tx[d][j]
           /\ \A i \in DOMAIN tx[d][j] : tx'[d][j][i] = tx[d][j][i]
           /\ DOMAIN tx[d][j] \subseteq DOMAIN tx'[d][j]
<1>1. tx[d][j] \in Seq(Transaction) /\ tx[c][k] \in Seq(Transaction)
  BY DEF TypeOK
<1>2. QED
  BY <1>1 DEF TxAdded

LEMMA SendKeeps ==
    ASSUME TypeOK, NEW r \in Runners, TickInv(r), SendStep(r), \A c \in Cycle : DocInv(c)
    PROVE  Forward /\ TickInv(r)' /\ \A c \in Cycle : DocInv(c)'
<1> DEFINE c == t[r].c
           k == t[r].k
<1>1. /\ TypeOK' /\ OnlyTick(r) /\ In(r, "send") /\ cycle' = cycle
      /\ c \in Cycle /\ k \in Step /\ cycle[c].status # "none"
      /\ TxAdded(c, k, [amount |-> Amount(r), status |-> "pending"])
      /\ \/ /\ t'[r].pc = "record" /\ SameStep(r) /\ t'[r].sent = Len(tx[c][k]) + 1
         \/ t'[r].pc = "idle"
  BY SendIs
<1>2. Forward
  BY <1>1, AddedLength DEF Forward
<1>3. \A d \in Cycle, j \in Step : /\ Len(tx[d][j]) \in Nat /\ Len(tx'[d][j]) \in Nat
                                   /\ Len(tx[d][j]) <= Len(tx'[d][j])
  <2> SUFFICES ASSUME NEW d \in Cycle, NEW j \in Step
               PROVE  /\ Len(tx[d][j]) \in Nat /\ Len(tx'[d][j]) \in Nat
                      /\ Len(tx[d][j]) <= Len(tx'[d][j])
    OBVIOUS
  <2>1. /\ Len(tx[d][j]) \in Nat /\ Len(tx'[d][j]) \in Nat
        /\ 1..Len(tx[d][j]) \subseteq 1..Len(tx'[d][j])
    BY <1>1, <1>2, Lengths, LengthsNext DEF Forward
  <2>2. QED
    BY <2>1
<1>4. ASSUME NEW d \in Cycle PROVE DocInv(d)'
  <2>1. \A j \in Step : cycle'[d].hash[j] <= Len(tx'[d][j])
    BY <1>1, <1>3, Lengths DEF DocInv
  <2>2. cycle'[d].status = "none" => \A j \in Step : cycle'[d].hash[j] = 0 /\ tx'[d][j] = <<>>
    BY <1>1, AddedLength DEF DocInv
  <2>3. QED
    BY <2>1, <2>2 DEF DocInv
<1>5. ASSUME t'[r].pc = "record" PROVE TickInv(r)'
  <2>1. /\ t'[r].c = c /\ t'[r].k = k /\ t'[r].hash = t[r].hash
        /\ t'[r].acquired = t[r].acquired /\ t'[r].sent = Len(tx[c][k]) + 1
    BY <1>1, <1>5 DEF SameStep
  <2>2. t'[r].sent \in DOMAIN tx'[c][k]
    <3>0. PICK x : TxAdded(c, k, x)
      BY <1>1
    <3>1. Len(tx'[c][k]) = Len(tx[c][k]) + 1 /\ Len(tx[c][k]) \in Nat
      BY <1>1, <3>0, AddedLast
    <3>2. DOMAIN tx'[c][k] = 1..Len(tx'[c][k])
      BY <1>1, LengthsNext
    <3>3. PICK n \in Nat : n = Len(tx[c][k])
      BY <3>1
    <3>4. n + 1 \in 1..(n + 1)
      OBVIOUS
    <3>5. t'[r].sent = n + 1 /\ DOMAIN tx'[c][k] = 1..(n + 1)
      BY <2>1, <3>1, <3>2, <3>3
    <3>6. QED
      BY <3>4, <3>5
  <2>3. \A j \in Step : t[r].hash[j] \in Nat /\ t[r].hash[j] <= Len(tx[c][j])
    BY <1>1, TickTypes DEF TickInv, In, Working
  <2>4. \A j \in Step : t[r].hash[j] <= Len(tx'[c][j])
    BY <1>1, <1>3, <2>3
  <2>5. k # 0 => t[r].acquired # Null
    BY <1>1 DEF TickInv, In, Working
  <2>6. QED
    BY <1>1, <1>5, <2>1, <2>2, <2>4, <2>5 DEF TickInv, In
<1>6. QED
  BY <1>1, <1>2, <1>4, <1>5, TickIdle

LEMMA SendCount ==
    ASSUME TypeOK, NEW r \in Runners, TickInv(r), SendStep(r), NEW d \in Cycle, NEW j \in Step,
           CountInv(d, j)
    PROVE  CountInv(d, j)'
<1> DEFINE c == t[r].c
           k == t[r].k
           n == Len(tx[d][j])
           h == Cardinality(Hand(d, j))
           g == Cardinality(Hand(d, j))'
           s == Cardinality(Senders(d, j))
           u == Cardinality(Senders(d, j))'
           l == lost[d][j]
<1>1. /\ TypeOK' /\ OnlyTick(r) /\ In(r, "send") /\ cycle' = cycle
      /\ c \in Cycle /\ k \in Step /\ overlaps' = overlaps
      /\ TxAdded(c, k, [amount |-> Amount(r), status |-> "pending"])
      /\ \/ lost' = lost /\ t'[r].pc = "record" /\ SameStep(r)
         \/ LostAdded(c, k) /\ t'[r].pc = "idle"
  BY SendIs
<1>2. OnFile(d, j)' = OnFile(d, j) /\ OnFile(d, j) \in {0, 1} /\ overlaps \in Nat
  BY <1>1, Lengths DEF OnFile
<1>3. ~Holds(r, d, j) /\ ~Sends(r, d, j)' /\ (Holds(r, d, j)' => d = c /\ j = k)
      /\ (t'[r].pc = "idle" => ~Holds(r, d, j)')
  BY <1>1 DEF Holds, Sends, Works, In, SameStep
<1>4. CASE d # c \/ j # k
  <2>1. /\ Len(tx'[d][j]) = Len(tx[d][j]) /\ lost'[d][j] = lost[d][j]
        /\ overlaps' >= overlaps
    BY <1>1, <1>2, <1>4, AddedLength DEF LostAdded
  <2>2. QED
    BY <1>1, <1>2, <1>3, <1>4, <2>1, CountKept
<1>5. CASE d = c /\ j = k
  <2>1. n \in Nat /\ l \in Nat /\ Len(tx'[d][j]) = n + 1
    BY <1>1, <1>5, AddedLast, Lengths
  <2>2. Sends(r, d, j)
    BY <1>1, <1>5 DEF Sends, Works, In, Working
  <2>3. s \in Nat /\ u = s - 1 /\ h \in Nat
    BY <1>1, <1>3, <2>2, SendersMove, HandMoves
  <2>4. Counted(n, OnFile(d, j), l, h, s, overlaps)
    BY DEF CountInv
  <2>5. /\ Counted(n + 1, OnFile(d, j), l, h + 1, s - 1, overlaps)
        /\ Counted(n + 1, OnFile(d, j), l + 1, h, s - 1, overlaps)
    BY <1>2, <2>1, <2>3, <2>4, CountedSend
  <2>6. CASE lost' = lost /\ t'[r].pc = "record" /\ SameStep(r)
    <3>1. Holds(r, d, j)'
      BY <1>5, <2>6 DEF Holds, In, SameStep
    <3>2. g = h + 1
      BY <1>1, <1>3, <3>1, HandMoves
    <3>3. Counted(Len(tx'[d][j]), OnFile(d, j)', lost'[d][j], g, u, overlaps')
      BY <1>1, <1>2, <2>1, <2>3, <2>5, <2>6, <3>2
    <3>4. QED
      BY <3>3 DEF CountInv
  <2>7. CASE LostAdded(c, k) /\ t'[r].pc = "idle"
    <3>1. g = h
      BY <1>1, <1>3, <2>7, HandMoves
    <3>2. lost'[d][j] = l + 1
      BY <1>5, <2>7 DEF LostAdded
    <3>3. Counted(Len(tx'[d][j]), OnFile(d, j)', lost'[d][j], g, u, overlaps')
      BY <1>1, <1>2, <2>1, <2>3, <2>5, <3>1, <3>2
    <3>4. QED
      BY <3>3 DEF CountInv
  <2>8. QED
    BY <1>1, <2>6, <2>7
<1>6. QED
  BY <1>4, <1>5

-----------------------------------------------------------------------------
\* A hash is put on file, or forgotten.
RecordStep(r) == RecordTx(r) \/ RecordFails(r)

LEMMA RecordIs ==
    ASSUME TypeOK, NEW r \in Runners, TickInv(r), RecordStep(r)
    PROVE  /\ TypeOK' /\ OnlyTick(r) /\ In(r, "record")
           /\ t[r].c \in Cycle /\ t[r].k \in Step /\ cycle[t[r].c].status # "none"
           /\ t[r].sent \in DOMAIN tx[t[r].c][t[r].k] /\ t[r].sent # 0
           /\ UNCHANGED <<tx, usdc, wfair, allowance, incomes, up, overlaps>>
           /\ \/ /\ Filed(t[r].c, t[r].k, t[r].sent) /\ lost' = lost
                 /\ \/ /\ t'[r].pc = "await" /\ SameStep(r) /\ t'[r].sent = t[r].sent
                       /\ t'[r].fresh = t[r].fresh /\ t'[r].before = t[r].before
                    \/ t'[r].pc = "idle" /\ t'[r].fresh = FALSE
              \/ /\ LostAdded(t[r].c, t[r].k) /\ cycle' = cycle
                 /\ t'[r].pc = "idle" /\ t'[r].fresh = FALSE
<1>1. ASSUME In(r, "record")
      PROVE  /\ t[r].c \in Cycle /\ t[r].k \in Step /\ cycle[t[r].c].status # "none"
             /\ t[r].sent \in DOMAIN tx[t[r].c][t[r].k] /\ t[r].sent # 0
  <2>1. /\ t[r].c \in Cycle /\ t[r].k \in Step /\ cycle[t[r].c].status # "none"
        /\ t[r].sent \in DOMAIN tx[t[r].c][t[r].k]
    BY <1>1, TickTypes DEF In, TickInv, Working
  <2>2. DOMAIN tx[t[r].c][t[r].k] = 1..Len(tx[t[r].c][t[r].k])
        /\ Len(tx[t[r].c][t[r].k]) \in Nat
    BY <2>1, Lengths
  <2>3. t[r].sent # 0
    BY <2>1, <2>2
  <2>4. QED
    BY <2>1, <2>3
<1>2. CASE RecordTx(r)
  BY <1>1, <1>2, RecordTxFx DEF Elsewhere
<1>3. CASE RecordFails(r)
  BY <1>1, <1>3, RecordFailsFx
<1>4. QED
  BY <1>2, <1>3 DEF RecordStep

LEMMA RecordKeeps ==
    ASSUME TypeOK, NEW r \in Runners, TickInv(r), RecordStep(r), \A c \in Cycle : DocInv(c)
    PROVE  Forward /\ TickInv(r)' /\ \A c \in Cycle : DocInv(c)'
<1> DEFINE c == t[r].c
           k == t[r].k
<1>1. /\ TypeOK' /\ In(r, "record") /\ tx' = tx
      /\ c \in Cycle /\ k \in Step /\ cycle[c].status # "none"
      /\ t[r].sent \in DOMAIN tx[c][k]
      /\ \/ Filed(c, k, t[r].sent) \/ cycle' = cycle
      /\ \/ /\ t'[r].pc = "await" /\ SameStep(r) /\ t'[r].sent = t[r].sent
         \/ t'[r].pc = "idle"
  BY RecordIs
<1>2. \A d \in Cycle : /\ cycle'[d].status = cycle[d].status
                       /\ d # c => cycle'[d].hash = cycle[d].hash
                       /\ \A j \in Step \ {k} : cycle'[d].hash[j] = cycle[d].hash[j]
                       /\ cycle'[c].hash[k] \in {cycle[c].hash[k], t[r].sent}
  BY <1>1 DEF Filed, OnlyCycle
<1>3. t[r].sent <= Len(tx[c][k])
  <2>1. DOMAIN tx[c][k] = 1..Len(tx[c][k]) /\ Len(tx[c][k]) \in Nat
    BY <1>1, Lengths
  <2>2. QED
    BY <1>1, <2>1
<1>4. ASSUME NEW d \in Cycle PROVE DocInv(d)'
  <2>1. \A j \in Step : cycle'[d].hash[j] <= Len(tx'[d][j])
    <3> SUFFICES ASSUME NEW j \in Step PROVE cycle'[d].hash[j] <= Len(tx[d][j])
      BY <1>1
    <3>1. CASE d = c /\ j = k
      BY <1>2, <1>3, <3>1 DEF DocInv
    <3>2. CASE d # c \/ j # k
      BY <1>2, <3>2 DEF DocInv
    <3>3. QED
      BY <3>1, <3>2
  <2>2. cycle'[d].status = "none" => \A j \in Step : cycle'[d].hash[j] = 0 /\ tx'[d][j] = <<>>
    BY <1>1, <1>2 DEF DocInv
  <2>3. QED
    BY <2>1, <2>2 DEF DocInv
<1>5. Forward
  BY <1>1, <1>2 DEF Forward
<1>6. t'[r].pc = "await" => TickInv(r)'
  BY <1>1, <1>2 DEF TickInv, In, SameStep, Working
<1>7. QED
  BY <1>1, <1>4, <1>5, <1>6, TickIdle

\* The ticks that hold a hash and those that will send are ticks that run.
LEMMA HandsRun ==
    ASSUME TypeOK, RunInv, NEW c \in Cycle, NEW k \in Step
    PROVE  Cardinality(Hand(c, k)) + Cardinality(Senders(c, k)) <= 1 + overlaps
<1> DEFINE H == Hand(c, k)
           S == Senders(c, k)
<1>1. H \in SUBSET Runners /\ S \in SUBSET Runners /\ Ticking \in SUBSET Runners
  BY DEF Hand, Senders, Ticking
<1>2. H \union S \in SUBSET Ticking
  BY DEF Hand, Senders, Holds, Sends, Works, Ticking, Running, In, Working
<1>3. H \intersect S = {}
  BY DEF Hand, Senders, Holds, Sends, Works, In
<1>4. IsFiniteSet(H) /\ IsFiniteSet(S) /\ IsFiniteSet(Ticking)
  BY <1>1, Facts, FS_Subset
<1> HIDE DEF H, S
<1>5. Cardinality(H \union S) = Cardinality(H) + Cardinality(S) - Cardinality(H \intersect S)
  BY <1>4, FS_Union
<1>6. Cardinality(H \intersect S) = 0
  BY <1>3, FS_EmptySet
<1>7. Cardinality(H \union S) <= Cardinality(Ticking)
  BY <1>2, <1>4, FS_Subset
<1>8. Cardinality(H) \in Nat /\ Cardinality(S) \in Nat /\ Cardinality(Ticking) \in Nat
  BY <1>4, FS_CardinalityType
<1>9. Cardinality(H) + Cardinality(S) <= Cardinality(Ticking)
  BY <1>5, <1>6, <1>7, <1>8
<1>10. Cardinality(Ticking) <= 1 + overlaps /\ overlaps \in Nat
  BY Lengths DEF RunInv
<1>11. Cardinality(H) + Cardinality(S) <= 1 + overlaps
  BY <1>8, <1>9, <1>10
<1>12. QED
  BY <1>11 DEF H, S

LEMMA RecordCount ==
    ASSUME TypeOK, NEW r \in Runners, TickInv(r), RecordStep(r), RunInv,
           NEW d \in Cycle, NEW j \in Step, CountInv(d, j)
    PROVE  CountInv(d, j)'
<1> DEFINE c == t[r].c
           k == t[r].k
           n == Len(tx[d][j])
           h == Cardinality(Hand(d, j))
           g == Cardinality(Hand(d, j))'
           s == Cardinality(Senders(d, j))
           u == Cardinality(Senders(d, j))'
           l == lost[d][j]
<1>1. /\ TypeOK' /\ OnlyTick(r) /\ In(r, "record") /\ tx' = tx /\ overlaps' = overlaps
      /\ c \in Cycle /\ k \in Step /\ t[r].sent # 0
      /\ \/ Filed(c, k, t[r].sent) /\ lost' = lost
         \/ LostAdded(c, k) /\ cycle' = cycle
      /\ t'[r].pc \in {"await", "idle"}
  BY RecordIs
<1>2. OnFile(d, j) \in {0, 1} /\ overlaps \in Nat /\ n \in Nat /\ l \in Nat
  BY Lengths DEF OnFile
<1>3. ~Sends(r, d, j) /\ ~Sends(r, d, j)' /\ ~Holds(r, d, j)' /\ (Holds(r, d, j) <=> d = c /\ j = k)
  BY <1>1 DEF Holds, Sends, Works, In
<1>4. CASE d # c \/ j # k
  <2>1. /\ Len(tx'[d][j]) = Len(tx[d][j]) /\ lost'[d][j] = lost[d][j]
        /\ overlaps' >= overlaps
    BY <1>1, <1>2, <1>4 DEF LostAdded
  <2>2. cycle'[d].hash[j] = cycle[d].hash[j]
    BY <1>1, <1>4 DEF Filed, OnlyCycle
  <2>3. OnFile(d, j)' = OnFile(d, j)
    BY <2>2 DEF OnFile
  <2>4. QED
    BY <1>1, <1>3, <1>4, <2>1, <2>3, CountKept
<1>5. CASE d = c /\ j = k
  <2>1. s \in Nat /\ u = s /\ h \in Nat /\ g = h - 1
    BY <1>1, <1>3, <1>5, SendersMove, HandMoves
  <2>2. Counted(n, OnFile(d, j), l, h, s, overlaps)
    BY DEF CountInv
  <2>3. h + s <= 1 + overlaps
    BY HandsRun
  <2>4. /\ Counted(n, 1, l, h - 1, s, overlaps)
        /\ Counted(n, OnFile(d, j), l + 1, h - 1, s, overlaps)
    BY <1>2, <2>1, <2>2, <2>3, CountedRecord
  <2>5. CASE Filed(c, k, t[r].sent) /\ lost' = lost
    <3>1. OnFile(d, j)' = 1
      BY <1>1, <1>5, <2>5 DEF Filed, OnFile
    <3>2. Counted(Len(tx'[d][j]), OnFile(d, j)', lost'[d][j], g, u, overlaps')
      BY <1>1, <2>1, <2>4, <2>5, <3>1
    <3>3. QED
      BY <3>2 DEF CountInv
  <2>6. CASE LostAdded(c, k) /\ cycle' = cycle
    <3>1. OnFile(d, j)' = OnFile(d, j) /\ lost'[d][j] = l + 1
      BY <1>5, <2>6 DEF LostAdded, OnFile
    <3>2. Counted(Len(tx'[d][j]), OnFile(d, j)', lost'[d][j], g, u, overlaps')
      BY <1>1, <2>1, <2>4, <3>1
    <3>3. QED
      BY <3>2 DEF CountInv
  <2>7. QED
    BY <1>1, <2>5, <2>6
<1>6. QED
  BY <1>4, <1>5

-----------------------------------------------------------------------------
\* Base moves: transactions are mined and USDC arrives.
BaseStep ==
    \/ \E c \in Cycle, k \in Step : Mine(c, k)
    \/ \E c \in Cycle, k \in Step : \E i \in DOMAIN tx[c][k] : MineReverted(c, k, i)
    \/ ReceiveUsdc

LEMMA MinedLength ==
    ASSUME TypeOK, TypeOK', NEW c \in Cycle, NEW k \in Step, NEW i, NEW status,
           TxMined(c, k, i, status), NEW d \in Cycle, NEW j \in Step
    PROVE  /\ DOMAIN tx'[d][j] = DOMAIN tx[d][j] /\ Len(tx'[d][j]) = Len(tx[d][j])
           /\ tx[d][j] = <<>> => tx'[d][j] = <<>>
           /\ \A n \in DOMAIN tx[d][j] :
                 /\ tx'[d][j][n].amount = tx[d][j][n].amount
                 /\ tx[d][j][n].status = "ok" => tx'[d][j][n].status = "ok"
<1>1. /\ tx[d][j] \in Seq(Transaction) /\ tx'[d][j] \in Seq(Transaction)
      /\ DOMAIN tx[d][j] = 1..Len(tx[d][j]) /\ DOMAIN tx'[d][j] = 1..Len(tx'[d][j])
  BY Lengths, LengthsNext
<1>2. CASE d # c \/ j # k
  BY <1>2 DEF TxMined
<1>3. CASE d = c /\ j = k
  <2>1. Len(tx'[d][j]) = Len(tx[d][j]) /\ DOMAIN tx'[d][j] = DOMAIN tx[d][j]
    BY <1>1, <1>3 DEF TxMined
  <2>2. tx[d][j] # <<>>
    BY <1>1, <1>3 DEF TxMined
  <2>3. \A n \in DOMAIN tx[d][j] :
           /\ tx'[d][j][n].amount = tx[d][j][n].amount
           /\ tx[d][j][n].status = "ok" => tx'[d][j][n].status = "ok"
    BY <1>3 DEF TxMined
  <2>4. QED
    BY <2>1, <2>2, <2>3
<1>4. QED
  BY <1>2, <1>3

LEMMA BaseIs ==
    ASSUME TypeOK, BaseStep
    PROVE  /\ TypeOK' /\ OnBase
           /\ \A d \in Cycle, j \in Step :
                 /\ DOMAIN tx'[d][j] = DOMAIN tx[d][j] /\ Len(tx'[d][j]) = Len(tx[d][j])
                 /\ tx[d][j] = <<>> => tx'[d][j] = <<>>
                 /\ \A n \in DOMAIN tx[d][j] :
                       /\ tx'[d][j][n].amount = tx[d][j][n].amount
                       /\ tx[d][j][n].status = "ok" => tx'[d][j][n].status = "ok"
<1>1. CASE \E c \in Cycle, k \in Step : Mine(c, k)
  BY <1>1, MineFx, MinedLength
<1>2. CASE \E c \in Cycle, k \in Step : \E i \in DOMAIN tx[c][k] : MineReverted(c, k, i)
  BY <1>2, MineRevertedFx, MinedLength
<1>3. CASE ReceiveUsdc
  BY <1>3, ReceiveUsdcFx
<1>4. QED
  BY <1>1, <1>2, <1>3 DEF BaseStep

\* A step of Base leaves the sets of ticks alone.
LEMMA BaseSets ==
    ASSUME OnBase
    PROVE  /\ \A c \in Cycle, k \in Step : Hand(c, k)' = Hand(c, k) /\ Senders(c, k)' = Senders(c, k)
           /\ Ticking' = Ticking /\ Creating' = Creating /\ Worked' = Worked
           /\ InFlight' = InFlight /\ Free' = Free
BY DEF OnBase, Hand, Holds, Senders, Sends, Works, Ticking, Running, Creating, Worked, In,
       InFlight, Open, Free

LEMMA BaseKeeps ==
    ASSUME TypeOK, BaseStep, \A r \in Runners : TickInv(r), \A c \in Cycle : DocInv(c),
           \A c \in Cycle, k \in Step : CountInv(c, k)
    PROVE  /\ \A r \in Runners : TickInv(r)'
           /\ \A c \in Cycle : DocInv(c)'
           /\ \A c \in Cycle, k \in Step : CountInv(c, k)'
<1>1. /\ TypeOK' /\ OnBase
      /\ \A d \in Cycle, j \in Step :
            /\ DOMAIN tx'[d][j] = DOMAIN tx[d][j] /\ Len(tx'[d][j]) = Len(tx[d][j])
            /\ tx[d][j] = <<>> => tx'[d][j] = <<>>
  BY BaseIs
<1>2. Forward
  BY <1>1 DEF Forward, OnBase
<1>3. \A r \in Runners : TickInv(r)'
  BY <1>1, <1>2, TickKept DEF OnBase
<1>4. \A c \in Cycle : DocInv(c)'
  BY <1>1 DEF DocInv, OnBase
<1>5. ASSUME NEW c \in Cycle, NEW k \in Step PROVE CountInv(c, k)'
  <2>1. /\ Hand(c, k)' = Hand(c, k) /\ Senders(c, k)' = Senders(c, k)
        /\ OnFile(c, k)' = OnFile(c, k) /\ lost' = lost /\ overlaps' = overlaps
        /\ Len(tx'[c][k]) = Len(tx[c][k])
    BY <1>1, BaseSets DEF OnFile, OnBase
  <2>2. QED
    BY <2>1 DEF CountInv
<1>6. QED
  BY <1>3, <1>4, <1>5

-----------------------------------------------------------------------------
\* The process ends or begins.
ProcessStep == Crash \/ Start

\* When it begins no tick holds a hash: a killed one holds none.
LEMMA ProcessIs ==
    ASSUME TypeOK, ProcessStep, DownInv
    PROVE  /\ TypeOK' /\ NoTicks /\ DownInv'
           /\ UNCHANGED <<cycle, tx, usdc, wfair, allowance, incomes, overlaps>>
           /\ \A c \in Cycle, k \in Step : lost'[c][k] = lost[c][k] + Cardinality(Hand(c, k))
<1>1. CASE Crash
  <2>1. t' = [r \in Runners |-> Off]
    BY <1>1 DEF Crash
  <2>2. DownInv'
    BY <2>1, IdleIs DEF DownInv, In
  <2>3. QED
    BY <1>1, <2>2, CrashFx, HandIs
<1>2. CASE Start
  <2>0. DownInv'
    BY <1>2 DEF Start, DownInv
  <2>1. \A c \in Cycle, k \in Step : Hand(c, k) = {}
    BY <1>2 DEF DownInv, Start, Hand, Holds, In
  <2>2. ASSUME NEW c \in Cycle, NEW k \in Step
        PROVE  lost'[c][k] = lost[c][k] + Cardinality(Hand(c, k))
    <3>1. Cardinality(Hand(c, k)) = 0 /\ lost' = lost
      BY <1>2, <2>1, FS_EmptySet, StartFx
    <3>2. QED
      BY <3>1, Lengths
  <2>3. QED
    BY <1>2, <2>0, <2>2, StartFx
<1>3. QED
  BY <1>1, <1>2 DEF ProcessStep

LEMMA ProcessKeeps ==
    ASSUME TypeOK, ProcessStep, DownInv, \A c \in Cycle : DocInv(c), OpenInv, RoomInv,
           \A c \in Cycle, k \in Step : CountInv(c, k)
    PROVE  /\ \A r \in Runners : TickInv(r)'
           /\ \A c \in Cycle : DocInv(c)'
           /\ \A c \in Cycle, k \in Step : CountInv(c, k)'
           /\ RunInv' /\ OpenInv' /\ RoomInv'
<1>1. /\ TypeOK' /\ NoTicks
      /\ UNCHANGED <<cycle, tx, usdc, wfair, allowance, incomes, overlaps>>
      /\ \A c \in Cycle, k \in Step : lost'[c][k] = lost[c][k] + Cardinality(Hand(c, k))
  BY ProcessIs
<1>2. \A c \in Cycle, k \in Step : Hand(c, k)' = {} /\ Senders(c, k)' = {}
  BY <1>1 DEF NoTicks, Hand, Holds, Senders, Sends, Works, In, Working
<1>3. Ticking' = {} /\ Creating' = {} /\ Worked' = {} /\ InFlight' = InFlight /\ Free' = Free
  BY <1>1 DEF NoTicks, Ticking, Running, Creating, Worked, Works, In, Working, InFlight, Open, Free
<1>4. Cardinality({}) = 0
  BY FS_EmptySet
<1>5. \A r \in Runners : TickInv(r)'
  BY <1>1, TickIdle DEF NoTicks
<1>6. \A c \in Cycle : DocInv(c)'
  BY <1>1 DEF DocInv
<1>7. ASSUME NEW c \in Cycle, NEW k \in Step PROVE CountInv(c, k)'
  <2> DEFINE n == Len(tx[c][k])
             h == Cardinality(Hand(c, k))
             s == Cardinality(Senders(c, k))
             l == lost[c][k]
  <2>1. n \in Nat /\ l \in Nat /\ overlaps \in Nat /\ OnFile(c, k) \in {0, 1}
    BY Lengths DEF OnFile
  <2>2. h \in Nat /\ s \in Nat
    BY Facts, FS_Subset, FS_CardinalityType DEF Hand, Senders
  <2>3. Counted(n, OnFile(c, k), l, h, s, overlaps)
    BY DEF CountInv
  <2>4. Counted(n, OnFile(c, k), l + h, 0, 0, overlaps)
    BY <2>1, <2>2, <2>3, CountedEnd
  <2>5. /\ Cardinality(Hand(c, k))' = 0 /\ Cardinality(Senders(c, k))' = 0
        /\ OnFile(c, k)' = OnFile(c, k)
    BY <1>1, <1>2, <1>4 DEF OnFile
  <2>6. Counted(Len(tx'[c][k]), OnFile(c, k)', lost'[c][k], Cardinality(Hand(c, k))',
                Cardinality(Senders(c, k))', overlaps')
    BY <1>1, <2>4, <2>5
  <2>7. QED
    BY <2>6 DEF CountInv
<1>8. RunInv'
  <2>1. Cardinality(Ticking)' = 0 /\ overlaps' \in Nat
    BY <1>1, <1>3, <1>4, Facts DEF TypeOK
  <2>2. PICK p \in Nat : p = overlaps'
    BY <2>1
  <2>3. 0 <= 1 + p
    OBVIOUS
  <2>4. QED
    BY <2>1, <2>2, <2>3 DEF RunInv
<1>9. OpenInv' /\ RoomInv'
  <2>1. IsFiniteSet(InFlight \union Worked) /\ IsFiniteSet(Creating) /\ IsFiniteSet(Free)
    BY Facts, FS_Subset DEF InFlight, Worked, Creating, Free
  <2>2. InFlight \in SUBSET (InFlight \union Worked)
    OBVIOUS
  <2>3. /\ Cardinality(InFlight) <= Cardinality(InFlight \union Worked)
        /\ Cardinality(InFlight) \in Nat /\ Cardinality(InFlight \union Worked) \in Nat
        /\ Cardinality(Creating) \in Nat /\ Cardinality(Free) \in Nat
    BY <2>1, <2>2, FS_Subset, FS_CardinalityType
  <2>4. InFlight' \union Worked' = InFlight /\ overlaps' = overlaps /\ overlaps \in Nat
    BY <1>1, <1>3, Facts DEF TypeOK
  <2>5. Cardinality(InFlight) + 0 <= 1 + overlaps
    BY <2>3, <2>4 DEF OpenInv
  <2>6. OpenInv'
    BY <1>3, <1>4, <2>4, <2>5 DEF OpenInv
  <2>7. RoomInv'
    BY <1>3, <1>4, <2>3 DEF RoomInv
  <2>8. QED
    BY <2>6, <2>7
<1>10. QED
  BY <1>5, <1>6, <1>7, <1>8, <1>9

-----------------------------------------------------------------------------
(***************************************************************************)
(* How many ticks run and how many cycles are open.                        *)
(***************************************************************************)
TickMove(r) == PlainStep(r) \/ SendStep(r) \/ RecordStep(r)

\* A tick that moves runs, or has just begun.
LEMMA MoveIs ==
    ASSUME TypeOK, NEW r \in Runners, TickInv(r), \A c \in Cycle : DocInv(c), RoomInv,
           TickMove(r)
    PROVE  /\ OnlyTick(r) /\ up' = up /\ overlaps' >= overlaps
           /\ Running(r) \/ StartTick(r)
           /\ t'[r].pc # "off" /\ ~In(r, "off")
<1>1. CASE SendStep(r) \/ RecordStep(r)
  <2>1. /\ OnlyTick(r) /\ up' = up /\ overlaps' = overlaps /\ t'[r].pc # "off"
        /\ In(r, "send") \/ In(r, "record")
    BY <1>1, SendIs, RecordIs
  <2>2. QED
    BY <2>1, Lengths, Facts DEF In, Running, TypeOK
<1>2. CASE PlainStep(r)
  <2>1. OnlyTick(r) /\ overlaps' >= overlaps
    BY <1>2, PlainIs DEF Plain
  <2>2. /\ up' = up /\ t'[r].pc # "off"
        /\ StartTick(r) \/ (Running(r) /\ ~In(r, "off"))
    <3>1. CASE StartTick(r)
      <4>1. t'[r].pc = "claim" /\ up' = up
        BY <3>1, StartTickFx
      <4>2. QED
        BY <3>1, <4>1
    <3>2. CASE ClaimOrLoad(r)
      <4>1. [t[r] EXCEPT !.pc = "create"].pc = "create"
        BY TickTypes DEF TickState
      <4>2. QED
        BY <3>2, <4>1, ClaimFx, IdleIs DEF Running, In
    <3>3. CASE CreateCycle(r)
      <4>1. Free # {}
        BY <3>3, FreeIsThere DEF CreateCycle
      <4>2. QED
        BY <3>3, <4>1, CreateFx DEF Running, In
    <3>4. CASE EnterStep(r)
      BY <3>4, EnterStepFx DEF Running, In, Elsewhere
    <3>5. CASE EnsureApproval(r) \/ ReadWfairBefore(r)
      BY <3>5, EnsureApprovalFx, ReadWfairBeforeFx DEF Running, In, Elsewhere
    <3>6. CASE SendRejected(r) \/ TickError(r)
      BY <3>6, SendRejectedFx, TickErrorFx DEF Running, In, Elsewhere
    <3>7. CASE AwaitSwap(r) \/ AwaitBurn(r)
      BY <3>7, AwaitSwapFx, AwaitBurnFx DEF Running, In, Elsewhere
    <3>8. CASE AwaitReverted(r) \/ CompleteCycle(r)
      BY <3>8, AwaitRevertedFx, CompleteCycleFx DEF Running, In, Elsewhere
    <3>9. QED
      BY <1>2, <3>1, <3>2, <3>3, <3>4, <3>5, <3>6, <3>7, <3>8 DEF PlainStep
  <2>3. StartTick(r) => ~In(r, "off")
    BY DEF StartTick, In
  <2>4. QED
    BY <2>1, <2>2, <2>3
<1>3. QED
  BY <1>1, <1>2 DEF TickMove

LEMMA MoveDown ==
    ASSUME TypeOK, NEW r \in Runners, TickInv(r), \A c \in Cycle : DocInv(c), RoomInv,
           TickMove(r), DownInv
    PROVE  DownInv'
BY MoveIs DEF DownInv

LEMMA MoveRun ==
    ASSUME TypeOK, TypeOK', NEW r \in Runners, TickInv(r), \A c \in Cycle : DocInv(c), RoomInv,
           TickMove(r), RunInv
    PROVE  RunInv'
<1>1. /\ OnlyTick(r) /\ overlaps' >= overlaps /\ (Running(r) \/ StartTick(r))
      /\ overlaps \in Nat /\ overlaps' \in Nat
  BY MoveIs, Facts DEF TypeOK
<1>2. PICK n \in Nat : n = Cardinality(Ticking)
  BY <1>1, TickingMoves
<1>3. PICK m \in Nat : m = Cardinality(Ticking)'
  BY <1>1, TickingMoves
<1>4. PICK o \in Nat, p \in Nat : o = overlaps /\ p = overlaps' /\ p >= o
  BY <1>1
<1>5. /\ Running(r)' /\ ~Running(r) => m = n + 1
      /\ ~Running(r)' /\ Running(r) => m = n - 1
      /\ (Running(r)' <=> Running(r)) => m = n
  BY <1>1, <1>2, <1>3, TickingMoves
<1>6. n <= 1 + o /\ o <= p
  BY <1>2, <1>4 DEF RunInv
<1>7. m <= 1 + p
  <2>1. CASE Running(r)
    <3>1. m = n \/ m = n - 1
      BY <1>5, <2>1
    <3>2. QED
      BY <1>6, <3>1
  <2>2. CASE ~Running(r) /\ \E q \in Runners : Running(q)
    <3>1. overlaps' = overlaps + 1
      BY <1>1, <2>2, StartTickFx
    <3>2. QED
      BY <1>4, <1>5, <1>6, <3>1
  <2>3. CASE ~\E q \in Runners : Running(q)
    <3>1. Ticking = {}
      BY <2>3 DEF Ticking
    <3>2. n = 0
      BY <1>2, <3>1, FS_EmptySet
    <3>3. QED
      BY <1>5, <3>2
  <2>4. QED
    BY <2>1, <2>2, <2>3
<1>8. QED
  BY <1>3, <1>4, <1>7 DEF RunInv

\* A step that neither plans nor stores a cycle: what is open or worked on was so.
Calm(r) ==
    /\ \A c \in Cycle : Open(c)' => Open(c) \/ Works(r, c)
    /\ \A c \in Cycle : Works(r, c)' => Open(c) \/ Works(r, c)
    /\ \A c \in Cycle : cycle'[c].status = "none" <=> cycle[c].status = "none"
    /\ ~In(r, "create")'

\* The document of the cycle at hand is written, or none is.
LEMMA CalmWrites ==
    ASSUME NEW r \in Runners, t[r].pc \in Working, TickInv(r),
           t'[r].pc \in Working => t'[r].c = t[r].c, t'[r].pc # "create",
           \/ cycle' = cycle
           \/ \E status : /\ status # "none"
                          /\ \E n : Writes(t[r].c, status, n)
           \/ \E k, n : Filed(t[r].c, k, n)
    PROVE  Calm(r)
<1> DEFINE c == t[r].c
<1>1. c \in Cycle /\ cycle[c].status # "none" /\ Works(r, c)
  BY DEF TickInv, Works
<1>2. \A d \in Cycle : d # c => cycle'[d] = cycle[d]
  BY DEF Writes, Filed, OnlyCycle
<1>3. cycle'[c].status # "none"
  BY <1>1 DEF Writes, Filed
<1>4. \A d \in Cycle : Open(d)' => Open(d) \/ d = c
  BY <1>2 DEF Open
<1>5. \A d \in Cycle : Works(r, d)' => d = c
  BY DEF Works
<1>6. QED
  BY <1>1, <1>2, <1>3, <1>4, <1>5 DEF Calm, In

LEMMA CalmReads ==
    ASSUME NEW r \in Runners, cycle' = cycle, t'[r].pc \notin Working \union {"create"}
    PROVE  Calm(r)
BY DEF Calm, Open, Works, In

\* The steps but those that plan or store a cycle.
LEMMA CalmIs ==
    ASSUME TypeOK, NEW r \in Runners, TickInv(r), TickMove(r), ~CreateCycle(r)
    PROVE  Calm(r) \/ (ClaimOrLoad(r) /\ InFlight = {} /\ Room /\ In(r, "create")')
<1>1. CASE SendStep(r)
  <2>1. /\ In(r, "send") /\ cycle' = cycle
        /\ (t'[r].pc = "record" /\ t'[r].c = t[r].c) \/ t'[r].pc = "idle"
    BY <1>1, SendIs DEF SameStep
  <2>2. QED
    BY <2>1, CalmWrites DEF In, Working
<1>2. CASE RecordStep(r)
  <2>1. /\ In(r, "record") /\ (cycle' = cycle \/ Filed(t[r].c, t[r].k, t[r].sent))
        /\ (t'[r].pc = "await" /\ t'[r].c = t[r].c) \/ t'[r].pc = "idle"
    BY <1>2, RecordIs DEF SameStep
  <2>2. QED
    BY <2>1, CalmWrites DEF In, Working
<1>3. CASE StartTick(r)
  <2>1. cycle' = cycle /\ t'[r].pc = "claim"
    BY <1>3, StartTickFx
  <2>2. QED
    BY <2>1, CalmReads DEF Working
<1>4. CASE ClaimOrLoad(r)
  <2>1. cycle' = cycle
    BY <1>4, ClaimFx
  <2>2. CASE t'[r].c \in InFlight /\ t'[r].pc = "step"
    <3>1. \A c \in Cycle : Works(r, c)' => Open(c)
      BY <2>2 DEF Works, InFlight
    <3>2. QED
      BY <2>1, <2>2, <3>1 DEF Calm, Open, In
  <2>3. CASE InFlight = {} /\ Room /\ t'[r] = [t[r] EXCEPT !.pc = "create"]
    <3>1. In(r, "create")'
      BY <2>3, TickTypes DEF In, TickState
    <3>2. QED
      BY <1>4, <2>3, <3>1
  <2>4. CASE t'[r] = Idle
    BY <2>1, <2>4, CalmReads, IdleIs DEF Working
  <2>5. QED
    BY <1>4, <2>2, <2>3, <2>4, ClaimFx
<1>5. CASE EnterStep(r)
  <2>1. /\ In(r, "step") /\ SameStep(r) /\ t'[r].pc \in {"await", "approve", "send"}
        /\ \/ cycle' = cycle
           \/ \E status \in CycleStatus \ {"none", "COMPLETE", "FAILED"} :
                  Writes(t[r].c, status, cycle[t[r].c].acquired)
    BY <1>5, EnterStepFx
  <2>2. QED
    BY <2>1, CalmWrites DEF In, Working, SameStep
<1>6. CASE EnsureApproval(r) \/ ReadWfairBefore(r)
  <2>1. /\ In(r, "approve") \/ In(r, "before")
        /\ SameStep(r) /\ cycle' = cycle /\ t'[r].pc \in {"before", "send"}
    BY <1>6, EnsureApprovalFx, ReadWfairBeforeFx
  <2>2. QED
    BY <2>1, CalmWrites DEF In, Working, SameStep
<1>7. CASE SendRejected(r) \/ TickError(r)
  <2>1. cycle' = cycle /\ t'[r].pc = "idle"
    BY <1>7, SendRejectedFx, TickErrorFx
  <2>2. QED
    BY <2>1, CalmReads DEF Working
<1>8. CASE AwaitSwap(r)
  <2>1. In(r, "await") /\ cycle[t[r].c].status # "none"
    BY <1>8, AwaitSwapFx DEF TickInv, In, Working
  <2>2. \/ t'[r].pc = "idle" /\ Writes(t[r].c, "FAILED", cycle[t[r].c].acquired)
        \/ /\ t'[r].pc = "step" /\ t'[r].c = t[r].c
           /\ Writes(t[r].c, cycle[t[r].c].status, Acquired(r))
    BY <1>8, AwaitSwapFx
  <2>3. QED
    BY <2>1, <2>2, CalmWrites DEF In, Working
<1>9. CASE AwaitBurn(r)
  <2>1. /\ In(r, "await") /\ cycle' = cycle /\ t'[r].c = t[r].c
        /\ t'[r].pc \in {"complete", "step"}
    BY <1>9, AwaitBurnFx
  <2>2. QED
    BY <2>1, CalmWrites DEF In, Working
<1>10. CASE AwaitReverted(r) \/ CompleteCycle(r)
  <2>1. /\ In(r, "await") \/ In(r, "complete")
        /\ t'[r].pc = "idle"
        /\ \/ Writes(t[r].c, "FAILED", cycle[t[r].c].acquired)
           \/ Writes(t[r].c, "COMPLETE", cycle[t[r].c].acquired)
    BY <1>10, AwaitRevertedFx, CompleteCycleFx
  <2>2. QED
    BY <2>1, CalmWrites DEF In, Working
<1>11. QED
  BY <1>1, <1>2, <1>3, <1>4, <1>5, <1>6, <1>7, <1>8, <1>9, <1>10 DEF TickMove, PlainStep

\* The three sets are finite and counted by naturals.
LEMMA OpenSets ==
    /\ IsFiniteSet(InFlight \union Worked) /\ IsFiniteSet(Creating) /\ IsFiniteSet(Free)
    /\ Cardinality(InFlight \union Worked) \in Nat
    /\ Cardinality(Creating) \in Nat /\ Cardinality(Free) \in Nat
<1>1. /\ InFlight \union Worked \in SUBSET Cycle /\ Creating \in SUBSET Runners
      /\ Free \in SUBSET Cycle
  BY DEF InFlight, Worked, Creating, Free
<1>2. QED
  BY <1>1, Facts, FS_Subset, FS_CardinalityType

LEMMA CalmOpen ==
    ASSUME TypeOK, TypeOK', NEW r \in Runners, OnlyTick(r), Calm(r), overlaps' >= overlaps,
           OpenInv, RoomInv
    PROVE  OpenInv' /\ RoomInv'
<1>1. (InFlight \union Worked)' \in SUBSET (InFlight \union Worked)
  <2>1. InFlight' \in SUBSET (InFlight \union Worked)
    BY DEF Calm, InFlight, Worked
  <2>2. Worked' \in SUBSET (InFlight \union Worked)
    <3>1. ASSUME NEW c \in Cycle, NEW q \in Runners, Works(q, c)'
          PROVE  c \in InFlight \union Worked
      <4>1. CASE q = r
        BY <3>1, <4>1 DEF Calm, InFlight, Worked
      <4>2. CASE q # r
        <5>1. Works(q, c)
          BY <3>1, <4>2 DEF Works, OnlyTick
        <5>2. QED
          BY <5>1 DEF Worked
      <4>3. QED
        BY <4>1, <4>2
    <3>2. QED
      BY <3>1 DEF Worked
  <2>3. QED
    BY <2>1, <2>2
<1>2. Creating' \in SUBSET Creating
  BY DEF Calm, Creating, In, OnlyTick
<1>3. Free' = Free
  BY DEF Calm, Free
<1>4. /\ Cardinality((InFlight \union Worked)') <= Cardinality(InFlight \union Worked)
      /\ Cardinality((InFlight \union Worked)') \in Nat
      /\ Cardinality(Creating') <= Cardinality(Creating) /\ Cardinality(Creating') \in Nat
  BY <1>1, <1>2, OpenSets, FS_Subset, FS_CardinalityType
<1>5. PICK a \in Nat, b \in Nat, m \in Nat, n \in Nat :
         /\ a = Cardinality(InFlight \union Worked) /\ b = Cardinality((InFlight \union Worked)')
         /\ m = Cardinality(Creating) /\ n = Cardinality(Creating')
  BY <1>4, OpenSets
<1>6. PICK o \in Nat, p \in Nat : o = overlaps /\ p = overlaps'
  BY Facts DEF TypeOK
<1>7. b <= a /\ n <= m /\ a + m <= 1 + o /\ o <= p
  BY <1>4, <1>5, <1>6 DEF OpenInv
<1>8. b + n <= 1 + p
  BY <1>7
<1>9. OpenInv'
  BY <1>5, <1>6, <1>8 DEF OpenInv
<1>10. PICK f \in Nat : f = Cardinality(Free)
  BY OpenSets
<1>11. n <= m /\ m <= f
  BY <1>4, <1>5, <1>10 DEF RoomInv
<1>12. n <= f
  BY <1>11
<1>13. RoomInv'
  BY <1>3, <1>5, <1>10, <1>12 DEF RoomInv
<1>14. QED
  BY <1>9, <1>13

\* The cycles that ticks work on are no more than those ticks.
LEMMA WorkedBound ==
    /\ Cardinality(Worked) <= Cardinality({q \in Runners : t[q].pc \in Working})
    /\ IsFiniteSet(Worked)
<1> DEFINE S == {q \in Runners : t[q].pc \in Working /\ t[q].c \in Cycle}
           W == {q \in Runners : t[q].pc \in Working}
           f == [q \in S |-> t[q].c]
<1>1. IsFiniteSet(S) /\ IsFiniteSet(W) /\ S \in SUBSET W
  BY Facts, FS_Subset
<1>2. \A c \in Worked : \E q \in S : f[q] = c
  BY DEF Worked, Works
<1>3. \A q \in S : f[q] \in Worked
  BY DEF Worked, Works
<1>4. f \in Surjection(S, Worked)
  BY <1>2, <1>3 DEF Surjection
<1> HIDE DEF f, S, W
<1>5. IsFiniteSet(Worked) /\ Cardinality(Worked) <= Cardinality(S)
  BY <1>1, <1>4, FS_Surjection
<1>6. Cardinality(S) <= Cardinality(W)
  BY <1>1, FS_Subset
<1>7. Cardinality(S) \in Nat /\ Cardinality(W) \in Nat /\ Cardinality(Worked) \in Nat
  BY <1>1, <1>5, FS_CardinalityType
<1>8. Cardinality(Worked) <= Cardinality(W)
  BY <1>5, <1>6, <1>7
<1>9. QED
  BY <1>5, <1>8 DEF W

\* A tick plans a cycle when none is open: it counts with the ticks that run.
LEMMA PlanOpen ==
    ASSUME TypeOK, NEW r \in Runners, ClaimOrLoad(r), InFlight = {}, Room, In(r, "create")',
           RunInv
    PROVE  OpenInv' /\ RoomInv'
<1> DEFINE W == {q \in Runners : t[q].pc \in Working}
<1>1. OnlyTick(r) /\ In(r, "claim") /\ cycle' = cycle /\ overlaps' = overlaps
  BY ClaimFx
<1>2. InFlight' = {} /\ Free' = Free
  BY <1>1 DEF InFlight, Open, Free
<1>3. Worked' = Worked
  <2>1. \A q \in Runners, c \in Cycle : Works(q, c)' <=> Works(q, c)
    BY <1>1 DEF Works, In, Working, OnlyTick
  <2>2. QED
    BY <2>1 DEF Worked
<1>4. Creating' = Creating \union {r} /\ r \notin Creating
  BY <1>1 DEF Creating, In, OnlyTick
<1>5. /\ W \union Creating' \in SUBSET Ticking /\ W \intersect Creating' = {}
      /\ W \in SUBSET Runners /\ Creating' \in SUBSET Runners /\ Ticking \in SUBSET Runners
  BY <1>1, <1>4 DEF Ticking, Running, Creating, In, Working
<1>6. Cardinality(Worked) <= Cardinality(W) /\ IsFiniteSet(Worked)
  BY WorkedBound
<1> HIDE DEF W
<1>7. IsFiniteSet(W) /\ IsFiniteSet(Creating') /\ IsFiniteSet(Ticking) /\ IsFiniteSet(Creating)
  BY <1>5, OpenSets, Facts, FS_Subset
<1>8. /\ Cardinality(W \union Creating')
            = Cardinality(W) + Cardinality(Creating') - Cardinality(W \intersect Creating')
      /\ Cardinality(W \union Creating') <= Cardinality(Ticking)
      /\ Cardinality(W \intersect Creating') = 0
  BY <1>5, <1>7, FS_Union, FS_Subset, FS_EmptySet
<1>9. Cardinality(Creating') = Cardinality(Creating) + 1
  BY <1>4, <1>7, FS_AddElement
<1>10. PICK w \in Nat, k \in Nat, n \in Nat, m \in Nat :
          /\ w = Cardinality(Worked) /\ k = Cardinality(W)
          /\ n = Cardinality(Creating') /\ m = Cardinality(Ticking)
  BY <1>6, <1>7, FS_CardinalityType
<1>11. PICK o \in Nat : o = overlaps /\ o = overlaps'
  BY <1>1, Facts DEF TypeOK
<1>12. w <= k /\ k + n - 0 <= m /\ m <= 1 + o
  BY <1>6, <1>8, <1>10, <1>11 DEF RunInv
<1>13. w + n <= 1 + o
  BY <1>12
<1>14. InFlight' \union Worked' = Worked
  BY <1>2, <1>3
<1>15. OpenInv'
  BY <1>10, <1>11, <1>13, <1>14 DEF OpenInv
<1>16. RoomInv'
  <2>1. Cardinality(Free) > Cardinality(Creating)
    BY DEF Room, Creating
  <2>2. Cardinality(Free) \in Nat /\ Cardinality(Creating) \in Nat
    BY OpenSets
  <2>3. Cardinality(Creating) + 1 <= Cardinality(Free)
    BY <2>1, <2>2
  <2>4. QED
    BY <1>2, <1>9, <2>3 DEF RoomInv
<1>17. QED
  BY <1>15, <1>16

\* A cycle is stored: the tick that planned it works on it.
LEMMA StoreOpen ==
    ASSUME TypeOK, NEW r \in Runners, CreateCycle(r), OpenInv, RoomInv
    PROVE  OpenInv' /\ RoomInv'
<1> DEFINE M == InFlight \union Worked
<1>0. Free # {}
  BY FreeIsThere DEF CreateCycle
<1>1. /\ OnlyTick(r) /\ In(r, "create") /\ t'[r].pc = "step" /\ overlaps' = overlaps
  BY <1>0, CreateFx
<1>2. PICK c \in Free : t'[r].c = c /\ OnlyCycle(c) /\ cycle'[c].status = "PENDING"
  BY <1>0, CreateFx
<1>3. c \in Cycle /\ cycle[c].status = "none"
  BY <1>2 DEF Free
<1>4. (InFlight \union Worked)' \in SUBSET (M \union {c})
  <2>1. \A d \in Cycle : Open(d)' => Open(d) \/ d = c
    BY <1>2 DEF Open, OnlyCycle
  <2>2. ASSUME NEW q \in Runners, NEW d \in Cycle, Works(q, d)' PROVE d = c \/ Works(q, d)
    BY <1>1, <1>2, <2>2 DEF Works, OnlyTick
  <2>3. QED
    BY <2>1, <2>2 DEF InFlight, Worked
<1>5. Creating' = Creating \ {r} /\ r \in Creating
  BY <1>1 DEF Creating, In, OnlyTick
<1>6. Free' = Free \ {c}
  BY <1>2, <1>3 DEF Free, OnlyCycle
<1>7. /\ IsFiniteSet(M) /\ IsFiniteSet(Creating) /\ IsFiniteSet(Free)
      /\ Cardinality(M) \in Nat /\ Cardinality(Creating) \in Nat /\ Cardinality(Free) \in Nat
  BY OpenSets
<1> HIDE DEF M
<1>8. /\ Cardinality(Creating') = Cardinality(Creating) - 1
      /\ Cardinality(Free') = Cardinality(Free) - 1
  BY <1>2, <1>5, <1>6, <1>7, FS_RemoveElement
<1>9. IsFiniteSet(M \union {c}) /\ Cardinality(M \union {c}) <= Cardinality(M) + 1
  <2>1. /\ IsFiniteSet(M \union {c})
        /\ \/ Cardinality(M \union {c}) = Cardinality(M)
           \/ Cardinality(M \union {c}) = Cardinality(M) + 1
    BY <1>7, FS_AddElement
  <2>2. QED
    BY <1>7, <2>1
<1>10. /\ Cardinality((InFlight \union Worked)') <= Cardinality(M \union {c})
       /\ Cardinality((InFlight \union Worked)') \in Nat /\ Cardinality(M \union {c}) \in Nat
  BY <1>4, <1>9, FS_Subset, FS_CardinalityType
<1>11. PICK a \in Nat, b \in Nat, g \in Nat, m \in Nat, f \in Nat :
          /\ a = Cardinality(M) /\ b = Cardinality((InFlight \union Worked)')
          /\ g = Cardinality(M \union {c}) /\ m = Cardinality(Creating) /\ f = Cardinality(Free)
  BY <1>7, <1>10
<1>12. PICK o \in Nat : o = overlaps /\ o = overlaps'
  BY <1>1, Facts DEF TypeOK
<1>13. g <= a + 1 /\ b <= g /\ a + m <= 1 + o /\ m <= f
  BY <1>9, <1>10, <1>11, <1>12 DEF OpenInv, RoomInv, M
<1>14. b + (m - 1) <= 1 + o /\ m - 1 <= f - 1
  BY <1>13
<1>15. OpenInv'
  BY <1>8, <1>11, <1>12, <1>14 DEF OpenInv
<1>16. RoomInv'
  BY <1>8, <1>11, <1>14 DEF RoomInv
<1>17. QED
  BY <1>15, <1>16

LEMMA MoveOpen ==
    ASSUME TypeOK, TypeOK', NEW r \in Runners, TickInv(r), \A c \in Cycle : DocInv(c), RunInv,
           OpenInv, RoomInv, TickMove(r)
    PROVE  OpenInv' /\ RoomInv'
BY MoveIs, CalmIs, CalmOpen, PlanOpen, StoreOpen

-----------------------------------------------------------------------------
(***************************************************************************)
(* The second part: one tick at a time.                                    *)
(***************************************************************************)

\* A tick that runs alone is the only one.
LEMMA OnlyRunner ==
    ASSUME TypeOK, RunInv, Alone, NEW r \in Runners, Running(r), NEW q \in Runners, q # r
    PROVE  ~Running(q)
<1>1. IsFiniteSet(Ticking) /\ r \in Ticking
  BY Facts, FS_Subset DEF Ticking
<1>2. Cardinality(Ticking) <= 1 /\ Cardinality(Ticking) \in Nat /\ Cardinality(Ticking) # 0
  BY <1>1, FS_CardinalityType, FS_EmptySet DEF RunInv, Alone
<1>3. Cardinality(Ticking) = 1
  BY <1>2
<1>4. PICK x : Ticking = {x}
  BY <1>1, <1>3, FS_Singleton
<1>5. QED
  BY <1>1, <1>4 DEF Ticking

\* Transactions are added and mined, never taken back.
Improves ==
    \A c \in Cycle, k \in Step : \A n \in DOMAIN tx[c][k] :
        /\ tx'[c][k][n].amount = tx[c][k][n].amount
        /\ tx[c][k][n].status = "ok" => tx'[c][k][n].status = "ok"

\* A hash on file has its transaction.
LEMMA HashPlace ==
    ASSUME TypeOK, NEW c \in Cycle, DocInv(c), NEW k \in Step, cycle[c].hash[k] # 0
    PROVE  cycle[c].hash[k] \in DOMAIN tx[c][k]
<1>1. /\ DOMAIN tx[c][k] = 1..Len(tx[c][k]) /\ Len(tx[c][k]) \in Nat
      /\ cycle[c].hash[k] \in Nat /\ cycle[c].hash[k] <= Len(tx[c][k])
  BY Lengths DEF DocInv
<1>2. QED
  BY <1>1

LEMMA SettledKept ==
    ASSUME TypeOK, NEW c \in Cycle, DocInv(c), NEW k \in Step, Improves,
           cycle'[c].hash[k] = cycle[c].hash[k], Settled(c, k)
    PROVE  Settled(c, k)'
BY HashPlace DEF Settled, Improves

\* A document whose hashes and proceeds stay says what it said.
LEMMA AloneDocKept ==
    ASSUME TypeOK, NEW c \in Cycle, DocInv(c), AloneDoc(c), Improves,
           cycle'[c].hash = cycle[c].hash, cycle'[c].acquired = cycle[c].acquired,
           cycle'[c].status = "none" => cycle[c].status = "none",
           cycle'[c].status = "COMPLETE" => \A k \in Step : Settled(c, k)
    PROVE  AloneDoc(c)'
<1>1. \A k \in Step : Settled(c, k) => Settled(c, k)'
  BY SettledKept
<1>2. 0 \in Step /\ \A k \in Burn : k \in Step
  BY DEF Burn, Step
<1>3. \A k \in Burn : cycle[c].hash[k] # 0 =>
         tx'[c][k][cycle[c].hash[k]].amount = tx[c][k][cycle[c].hash[k]].amount
  BY <1>2, HashPlace DEF Improves
<1>4. QED
  BY <1>1, <1>2, <1>3 DEF AloneDoc

\* No other tick works while one moves alone, before or after.
OthersRest(r) == \A q \in Runners \ {r} : t'[q].pc \notin Working

LEMMA Rests ==
    ASSUME TypeOK, TypeOK', NEW r \in Runners, TickInv(r), \A c \in Cycle : DocInv(c), RoomInv,
           RunInv, TickMove(r), Alone'
    PROVE  Alone /\ OthersRest(r)
<1>1. /\ OnlyTick(r) /\ overlaps' >= overlaps /\ overlaps \in Nat /\ overlaps' = 0
      /\ Running(r) \/ StartTick(r)
  BY MoveIs, Facts DEF TypeOK, Alone
<1>2. Alone
  BY <1>1 DEF Alone
<1>3. ASSUME NEW q \in Runners \ {r} PROVE ~Running(q)
  <2>1. CASE Running(r)
    BY <1>2, <2>1, OnlyRunner
  <2>2. CASE StartTick(r)
    <3>1. ~(overlaps' = overlaps + 1)
      BY <1>1
    <3>2. QED
      BY <2>2, <3>1, StartTickFx
  <2>3. QED
    BY <1>1, <2>1, <2>2
<1>4. QED
  BY <1>1, <1>2, <1>3 DEF OthersRest, OnlyTick, Running, Working

\* The invariant of ticks that run alone, without its condition.
AloneParts == (\A r \in Runners : AloneTick(r)) /\ (\A c \in Cycle : AloneDoc(c))

LEMMA AloneRest ==
    ASSUME NEW r \in Runners, t'[r].pc \notin Working
    PROVE  AloneTick(r)'
BY DEF AloneTick

\* The parts for a step of r, from those of r and of the documents.
LEMMA AloneJoin ==
    ASSUME NEW r \in Runners, OthersRest(r), AloneTick(r)', \A c \in Cycle : AloneDoc(c)'
    PROVE  AloneParts'
BY AloneRest DEF AloneParts, OthersRest

\* A tick that ends, or reads, and leaves the documents.
LEMMA AloneReads ==
    ASSUME TypeOK, \A c \in Cycle : DocInv(c), AloneParts, cycle' = cycle, tx' = tx
    PROVE  \A c \in Cycle : AloneDoc(c)'
<1>1. Improves
  BY DEF Improves
<1>2. ASSUME NEW c \in Cycle PROVE AloneDoc(c)'
  BY <1>1, AloneDocKept DEF AloneParts, AloneDoc
<1>3. QED
  BY <1>2

LEMMA AloneClaim ==
    ASSUME TypeOK, \A c \in Cycle : DocInv(c), AloneParts, NEW r \in Runners, ClaimOrLoad(r)
    PROVE  AloneTick(r)' /\ \A c \in Cycle : AloneDoc(c)'
<1>1. cycle' = cycle /\ tx' = tx
  BY ClaimFx
<1>2. \/ /\ t'[r].c \in InFlight /\ t'[r].pc = "step" /\ t'[r].hash = cycle[t'[r].c].hash
         /\ t'[r].acquired = cycle[t'[r].c].acquired /\ t'[r].k = 0 /\ t'[r].fresh = FALSE
      \/ t'[r].pc \notin Working
  <2>1. [t[r] EXCEPT !.pc = "create"].pc = "create"
    BY TickTypes DEF TickState
  <2>2. QED
    BY <2>1, ClaimFx, IdleIs DEF Working
<1>3. ASSUME t'[r].c \in InFlight, t'[r].pc = "step", t'[r].hash = cycle[t'[r].c].hash,
             t'[r].acquired = cycle[t'[r].c].acquired, t'[r].k = 0, t'[r].fresh = FALSE
      PROVE  AloneTick(r)'
  <2>0. PICK c \in InFlight : c = t'[r].c
    BY <1>3
  <2>1. Open(c)'
    BY <1>1 DEF InFlight, Open
  <2>2. \A j \in Step : ~(j < 0)
    BY DEF Step
  <2>3. QED
    BY <1>1, <1>3, <2>0, <2>1, <2>2 DEF AloneTick, In
<1>4. QED
  BY <1>1, <1>2, <1>3, AloneRest, AloneReads

LEMMA AloneCreate ==
    ASSUME TypeOK, \A c \in Cycle : DocInv(c), RoomInv, AloneParts, NEW r \in Runners,
           CreateCycle(r)
    PROVE  AloneTick(r)' /\ \A c \in Cycle : AloneDoc(c)'
<1>0. Free # {}
  BY FreeIsThere DEF CreateCycle
<1>1. /\ t'[r].pc = "step" /\ t'[r].k = 0 /\ t'[r].fresh = FALSE
      /\ t'[r].hash = [k \in Step |-> 0] /\ t'[r].acquired = Null
      /\ tx' = tx
  BY <1>0, CreateFx
<1>2. PICK c \in Free : /\ t'[r].c = c /\ OnlyCycle(c)
                        /\ cycle'[c].status = "PENDING" /\ cycle'[c].hash = cycle[c].hash
                        /\ cycle'[c].acquired = cycle[c].acquired
  BY <1>0, CreateFx
<1>3. /\ c \in Cycle /\ cycle[c].status = "none" /\ cycle[c].acquired = Null
      /\ \A k \in Step : cycle[c].hash[k] = 0
  BY <1>2 DEF Free, AloneParts, AloneDoc, DocInv
<1>4. cycle'[c].hash = [k \in Step |-> 0]
  <2>1. cycle[c].hash \in [Step -> Nat]
    BY <1>3 DEF TypeOK, CycleDoc
  <2>2. QED
    BY <1>2, <1>3, <2>1
<1>5. AloneTick(r)'
  <2>1. Open(c)'
    BY <1>2 DEF Open
  <2>2. \A j \in Step : ~(j < 0)
    BY DEF Step
  <2>3. QED
    BY <1>1, <1>2, <1>3, <1>4, <2>1, <2>2 DEF AloneTick, In
<1>6. ASSUME NEW d \in Cycle PROVE AloneDoc(d)'
  <2>1. Improves
    BY <1>1 DEF Improves
  <2>2. CASE d = c
    BY <1>2, <1>3, <2>1, <2>2, AloneDocKept DEF AloneParts
  <2>3. CASE d # c
    BY <1>2, <2>1, <2>3, AloneDocKept DEF AloneParts, OnlyCycle, AloneDoc
  <2>4. QED
    BY <2>2, <2>3
<1>7. QED
  BY <1>5, <1>6

\* One document written on the way, its proceeds and hashes kept.
LEMMA AloneWrites ==
    ASSUME TypeOK, \A c \in Cycle : DocInv(c), AloneParts, tx' = tx, NEW c \in Cycle,
           NEW status, status # "none", Writes(c, status, cycle[c].acquired),
           status = "COMPLETE" => \A k \in Step : Settled(c, k)
    PROVE  \A d \in Cycle : AloneDoc(d)'
<1>1. Improves
  BY DEF Improves
<1>2. ASSUME NEW d \in Cycle PROVE AloneDoc(d)'
  <2>1. CASE d = c
    BY <1>1, <2>1, AloneDocKept DEF AloneParts, Writes
  <2>2. CASE d # c
    BY <1>1, <2>2, AloneDocKept DEF AloneParts, Writes, OnlyCycle, AloneDoc
  <2>3. QED
    BY <2>1, <2>2
<1>3. QED
  BY <1>2

LEMMA AloneEnterStep ==
    ASSUME TypeOK, \A c \in Cycle : DocInv(c), AloneParts, NEW r \in Runners, TickInv(r),
           EnterStep(r)
    PROVE  AloneTick(r)' /\ \A c \in Cycle : AloneDoc(c)'
<1>1. PICK c \in Cycle, k \in Step : c = t[r].c /\ k = t[r].k
  BY EnterStepFx, TickTypes DEF TickInv, In, Working
<1>2. /\ In(r, "step") /\ SameStep(r) /\ tx' = tx /\ t'[r].fresh = t[r].fresh
      /\ \/ /\ t[r].hash[k] # 0 /\ cycle' = cycle
            /\ t'[r].pc = "await" /\ t'[r].sent = t[r].hash[k]
         \/ /\ t[r].hash[k] = 0 /\ t'[r].pc \in {"approve", "send"}
            /\ \E status \in CycleStatus \ {"none", "COMPLETE", "FAILED"} :
                   Writes(c, status, cycle[c].acquired)
  BY <1>1, EnterStepFx DEF Elsewhere
<1>3. /\ Open(c) /\ t[r].acquired = cycle[c].acquired /\ t[r].hash = cycle[c].hash
      /\ \A j \in Step : j < k => Settled(c, j)
      /\ ~t[r].fresh
  BY <1>1, <1>2 DEF AloneParts, AloneTick, In, Working
<1>4. /\ cycle'[c].hash = cycle[c].hash /\ cycle'[c].acquired = cycle[c].acquired
      /\ Open(c)'
  BY <1>2, <1>3 DEF Writes, Open
<1>5. \A j \in Step : j < k => Settled(c, j)'
  BY <1>2, <1>3, <1>4 DEF Settled
<1>6. /\ t'[r].c = c /\ t'[r].k = k /\ t'[r].acquired = t[r].acquired
      /\ t'[r].hash = t[r].hash /\ t'[r].fresh = t[r].fresh
  BY <1>1, <1>2 DEF SameStep
<1>7. AloneTick(r)'
  BY <1>2, <1>3, <1>4, <1>5, <1>6 DEF AloneTick, In
<1>8. \A d \in Cycle : AloneDoc(d)'
  BY <1>2, AloneReads, AloneWrites
<1>9. QED
  BY <1>7, <1>8

LEMMA AloneApprove ==
    ASSUME TypeOK, \A c \in Cycle : DocInv(c), AloneParts, NEW r \in Runners, TickInv(r),
           EnsureApproval(r) \/ ReadWfairBefore(r)
    PROVE  AloneTick(r)' /\ \A c \in Cycle : AloneDoc(c)'
<1>1. /\ SameStep(r) /\ cycle' = cycle /\ tx' = tx
      /\ \/ In(r, "approve") /\ t'[r].pc = "before" /\ t'[r].fresh = t[r].fresh
         \/ In(r, "before") /\ t'[r].pc = "send" /\ t'[r].fresh = TRUE
  BY EnsureApprovalFx, ReadWfairBeforeFx DEF Elsewhere
<1>2. PICK c \in Cycle : c = t[r].c
  BY <1>1 DEF TickInv, In, Working
<1>3. /\ t[r].k = 0 /\ Open(c) /\ t[r].acquired = cycle[c].acquired
      /\ cycle[c].hash[0] = 0 /\ ~t[r].fresh
  BY <1>1, <1>2 DEF TickInv, AloneParts, AloneTick, In, Working
<1>4. cycle[c].acquired = Null
  BY <1>3 DEF AloneParts, AloneDoc, Settled
<1>5. \A j \in Step : ~(j < 0)
  BY DEF Step
<1>6. /\ t'[r].c = c /\ t'[r].k = 0 /\ t'[r].acquired = Null /\ Open(c)'
  BY <1>1, <1>2, <1>3, <1>4 DEF SameStep, Open
<1>7. AloneTick(r)'
  BY <1>1, <1>3, <1>4, <1>5, <1>6 DEF AloneTick, In
<1>8. QED
  BY <1>1, <1>7, AloneReads

LEMMA AddedImproves ==
    ASSUME TypeOK, NEW c \in Cycle, NEW k \in Step, NEW x, TxAdded(c, k, x)
    PROVE  Improves
BY AddedLength DEF Improves

LEMMA AloneSend ==
    ASSUME TypeOK, \A c \in Cycle : DocInv(c), AloneParts, NEW r \in Runners, TickInv(r),
           SendStep(r)
    PROVE  AloneTick(r)' /\ \A c \in Cycle : AloneDoc(c)'
<1>1. PICK c \in Cycle, k \in Step : c = t[r].c /\ k = t[r].k
  BY SendIs
<1>2. PICK x : x = [amount |-> Amount(r), status |-> "pending"]
  OBVIOUS
<1>3. /\ In(r, "send") /\ cycle' = cycle /\ TxAdded(c, k, x)
      /\ \/ /\ t'[r].pc = "record" /\ SameStep(r) /\ t'[r].sent = Len(tx[c][k]) + 1
            /\ t'[r].fresh = t[r].fresh
         \/ t'[r].pc = "idle"
  BY <1>1, <1>2, SendIs
<1>4. Improves
  BY <1>3, AddedImproves
<1>5. ASSUME NEW d \in Cycle PROVE AloneDoc(d)'
  BY <1>3, <1>4, AloneDocKept DEF AloneParts, AloneDoc
<1>6. ASSUME t'[r].pc = "record" PROVE AloneTick(r)'
  <2>1. /\ Open(c) /\ t[r].acquired = cycle[c].acquired /\ cycle[c].hash[k] = 0
        /\ \A j \in Step : j < k => Settled(c, j)
        /\ t[r].fresh => k = 0 /\ t[r].acquired = Null
    BY <1>1, <1>3 DEF AloneParts, AloneTick, In, Working
  <2>2. /\ t'[r].c = c /\ t'[r].k = k /\ t'[r].acquired = t[r].acquired
        /\ t'[r].sent = Len(tx[c][k]) + 1 /\ t'[r].fresh = t[r].fresh
    BY <1>1, <1>3, <1>6 DEF SameStep
  <2>3. \A j \in Step : j < k => Settled(c, j)'
    BY <1>3, <1>4, <2>1, SettledKept
  <2>4. k # 0 => tx'[c][k][t'[r].sent].amount = Share(t[r].acquired, k)
    <3>1. tx'[c][k][t'[r].sent] = x
      BY <1>3, <2>2, AddedLast
    <3>2. x.amount = Amount(r)
      BY <1>2
    <3>3. QED
      BY <1>1, <3>1, <3>2 DEF Amount
  <2>5. Open(c)'
    BY <1>3, <2>1 DEF Open
  <2>6. QED
    BY <1>3, <1>6, <2>1, <2>2, <2>3, <2>4, <2>5 DEF AloneTick, In
<1>7. QED
  BY <1>3, <1>5, <1>6, AloneRest DEF Working

LEMMA AloneRecord ==
    ASSUME TypeOK, \A c \in Cycle : DocInv(c), AloneParts, NEW r \in Runners, TickInv(r),
           RecordStep(r)
    PROVE  AloneTick(r)' /\ \A c \in Cycle : AloneDoc(c)'
<1>1. PICK c \in Cycle, k \in Step : c = t[r].c /\ k = t[r].k
  BY RecordIs
<1>2. /\ In(r, "record") /\ tx' = tx /\ t[r].sent # 0
      /\ \/ cycle' = cycle /\ t'[r].pc = "idle"
         \/ /\ Filed(c, k, t[r].sent)
            /\ \/ /\ t'[r].pc = "await" /\ SameStep(r) /\ t'[r].sent = t[r].sent
                  /\ t'[r].fresh = t[r].fresh
               \/ t'[r].pc = "idle"
  BY <1>1, RecordIs
<1>3. /\ Open(c) /\ t[r].acquired = cycle[c].acquired /\ cycle[c].hash[k] = 0
      /\ \A j \in Step : j < k => Settled(c, j)
      /\ t[r].fresh => k = 0 /\ t[r].acquired = Null
      /\ k # 0 => tx[c][k][t[r].sent].amount = Share(t[r].acquired, k)
      /\ k # 0 => t[r].acquired # Null
  BY <1>1, <1>2 DEF AloneParts, AloneTick, TickInv, In, Working
<1>4. CASE cycle' = cycle /\ t'[r].pc = "idle"
  BY <1>2, <1>4, AloneReads, AloneRest DEF Working
<1>5. CASE Filed(c, k, t[r].sent)
  <2>1. /\ cycle'[c].status = cycle[c].status /\ cycle'[c].acquired = cycle[c].acquired
        /\ cycle'[c].hash[k] = t[r].sent
        /\ \A j \in Step \ {k} : cycle'[c].hash[j] = cycle[c].hash[j]
        /\ \A d \in Cycle \ {c} : cycle'[d] = cycle[d]
    BY <1>5 DEF Filed, OnlyCycle
  <2>2. \A j \in Step : Settled(c, j) => Settled(c, j)'
    BY <1>2, <1>3, <2>1 DEF Settled
  <2>3. AloneDoc(c)'
    <3>1. 0 \in Step /\ \A j \in Burn : j \in Step /\ j # 0
      BY DEF Step, Burn
    <3>2. cycle'[c].acquired # Null => Settled(c, 0)'
      BY <2>1, <2>2, <3>1 DEF AloneParts, AloneDoc
    <3>3. \A j \in Burn : cycle'[c].hash[j] # 0 =>
             /\ cycle'[c].acquired # Null
             /\ tx'[c][j][cycle'[c].hash[j]].amount = Share(cycle'[c].acquired, j)
      <4>1. ASSUME NEW j \in Burn, cycle'[c].hash[j] # 0
            PROVE  /\ cycle'[c].acquired # Null
                   /\ tx'[c][j][cycle'[c].hash[j]].amount = Share(cycle'[c].acquired, j)
        <5>1. CASE j = k
          BY <1>2, <1>3, <2>1, <3>1, <5>1
        <5>2. CASE j # k
          BY <1>2, <2>1, <3>1, <4>1, <5>2 DEF AloneParts, AloneDoc
        <5>3. QED
          BY <5>1, <5>2
      <4>2. QED
        BY <4>1
    <3>4. cycle'[c].status # "none" /\ cycle'[c].status # "COMPLETE"
      BY <1>3, <2>1 DEF Open
    <3>5. QED
      BY <3>2, <3>3, <3>4 DEF AloneDoc
  <2>4. ASSUME NEW d \in Cycle \ {c} PROVE AloneDoc(d)'
    <3>1. cycle'[d] = cycle[d] /\ Improves
      BY <1>2, <2>1 DEF Improves
    <3>2. QED
      BY <3>1, AloneDocKept DEF AloneParts, AloneDoc
  <2>5. ASSUME t'[r].pc = "await" PROVE AloneTick(r)'
    <3>1. /\ t'[r].c = c /\ t'[r].k = k /\ t'[r].acquired = t[r].acquired
          /\ t'[r].sent = t[r].sent /\ t'[r].fresh = t[r].fresh
      BY <1>1, <1>2, <2>5 DEF SameStep
    <3>2. Open(c)'
      BY <1>3, <2>1 DEF Open
    <3>3. QED
      BY <1>3, <2>1, <2>2, <2>5, <3>1, <3>2 DEF AloneTick, In
  <2>6. t'[r].pc = "await" \/ t'[r].pc \notin Working
    BY <1>2 DEF Working
  <2>7. QED
    BY <2>3, <2>4, <2>5, <2>6, AloneRest
<1>6. QED
  BY <1>2, <1>4, <1>5

LEMMA AloneAwaitSwap ==
    ASSUME TypeOK, \A c \in Cycle : DocInv(c), AloneParts, NEW r \in Runners, TickInv(r),
           AwaitSwap(r)
    PROVE  AloneTick(r)' /\ \A c \in Cycle : AloneDoc(c)'
<1>1. PICK c \in Cycle : c = t[r].c
  BY AwaitSwapFx DEF TickInv, In, Working
<1>2. /\ In(r, "await") /\ tx' = tx /\ t[r].k = 0 /\ t'[r].fresh = FALSE
      /\ tx[c][0][t[r].sent].status = "ok"
      /\ \/ t'[r].pc = "idle" /\ Writes(c, "FAILED", cycle[c].acquired)
         \/ /\ Acquired(r) \in Nat
            /\ Writes(c, cycle[c].status, Acquired(r))
            /\ t'[r].pc = "step" /\ t'[r].c = c /\ t'[r].k = 1
            /\ t'[r].hash = cycle[c].hash /\ t'[r].acquired = Acquired(r)
  BY <1>1, AwaitSwapFx DEF Elsewhere
<1>3. /\ Open(c) /\ t[r].acquired = cycle[c].acquired /\ t[r].sent = cycle[c].hash[0]
      /\ t[r].fresh => t[r].acquired = Null
  BY <1>1, <1>2 DEF AloneParts, AloneTick, In, Working
<1>4. t[r].sent # 0
  <2>1. t[r].sent \in DOMAIN tx[c][0] /\ 0 \in Step
    BY <1>1, <1>2 DEF TickInv, In, Step
  <2>2. DOMAIN tx[c][0] = 1..Len(tx[c][0]) /\ Len(tx[c][0]) \in Nat
    BY <2>1, Lengths
  <2>3. QED
    BY <2>1, <2>2
<1>5. Settled(c, 0)
  BY <1>2, <1>3, <1>4 DEF Settled
<1>6. CASE t'[r].pc = "idle" /\ Writes(c, "FAILED", cycle[c].acquired)
  <2>1. \A d \in Cycle : AloneDoc(d)'
    <3>1. PICK status : status = "FAILED"
      OBVIOUS
    <3>2. Writes(c, status, cycle[c].acquired) /\ status # "none" /\ status # "COMPLETE"
      BY <1>6, <3>1
    <3>3. QED
      BY <1>2, <3>2, AloneWrites
  <2>2. QED
    BY <1>6, <2>1, AloneRest DEF Working
<1>7. CASE /\ Acquired(r) \in Nat
           /\ Writes(c, cycle[c].status, Acquired(r))
           /\ t'[r].pc = "step" /\ t'[r].c = c /\ t'[r].k = 1
           /\ t'[r].hash = cycle[c].hash /\ t'[r].acquired = Acquired(r)
  <2>1. PICK a \in Nat : a = Acquired(r)
    BY <1>7
  <2>2. cycle[c].acquired # Null => a = cycle[c].acquired
    BY <1>3, <2>1 DEF Acquired
  <2>3. /\ cycle'[c].status = cycle[c].status /\ cycle'[c].acquired = a /\ a # Null
        /\ cycle'[c].hash = cycle[c].hash
        /\ \A d \in Cycle \ {c} : cycle'[d] = cycle[d]
    BY <1>7, <2>1 DEF Writes, OnlyCycle, Null
  <2>4. Settled(c, 0)'
    BY <1>2, <1>5, <2>3 DEF Settled
  <2>5. AloneDoc(c)'
    <3>1. \A k \in Burn : cycle'[c].hash[k] # 0 =>
             /\ cycle'[c].acquired # Null
             /\ tx'[c][k][cycle'[c].hash[k]].amount = Share(cycle'[c].acquired, k)
      BY <1>2, <2>2, <2>3 DEF AloneParts, AloneDoc
    <3>2. cycle'[c].status # "none" /\ cycle'[c].status # "COMPLETE"
      BY <1>3, <2>3 DEF Open
    <3>3. QED
      BY <2>4, <3>1, <3>2 DEF AloneDoc
  <2>6. ASSUME NEW d \in Cycle \ {c} PROVE AloneDoc(d)'
    <3>1. cycle'[d] = cycle[d] /\ Improves
      BY <1>2, <2>3 DEF Improves
    <3>2. QED
      BY <3>1, AloneDocKept DEF AloneParts, AloneDoc
  <2>7. AloneTick(r)'
    <3>1. Open(c)'
      BY <1>3, <2>3 DEF Open
    <3>2. \A j \in Step : j < 1 => Settled(c, j)'
      <4>1. \A j \in Step : j < 1 => j = 0
        BY DEF Step
      <4>2. QED
        BY <2>4, <4>1
    <3>3. t'[r].acquired = cycle'[c].acquired /\ t'[r].hash = cycle'[c].hash
      BY <1>7, <2>1, <2>3
    <3>4. QED
      BY <1>2, <1>7, <3>1, <3>2, <3>3 DEF AloneTick, In
  <2>8. QED
    BY <2>5, <2>6, <2>7
<1>8. QED
  BY <1>2, <1>6, <1>7

LEMMA AloneAwaitBurn ==
    ASSUME TypeOK, \A c \in Cycle : DocInv(c), AloneParts, NEW r \in Runners, TickInv(r),
           AwaitBurn(r)
    PROVE  AloneTick(r)' /\ \A c \in Cycle : AloneDoc(c)'
<1>1. PICK c \in Cycle, k \in Step : c = t[r].c /\ k = t[r].k
  BY AwaitBurnFx, TickTypes DEF TickInv, In, Working
<1>2. /\ In(r, "await") /\ tx' = tx /\ cycle' = cycle /\ k # 0
      /\ tx[c][k][t[r].sent].status = "ok"
      /\ t'[r].c = c /\ t'[r].acquired = t[r].acquired /\ t'[r].fresh = t[r].fresh
      /\ \/ k = LastStep /\ t'[r].pc = "complete" /\ t'[r].k = k /\ t'[r].hash = t[r].hash
         \/ t'[r].pc = "step" /\ t'[r].k = k + 1 /\ t'[r].hash = cycle[c].hash
  BY <1>1, AwaitBurnFx DEF Elsewhere
<1>3. /\ Open(c) /\ t[r].acquired = cycle[c].acquired /\ t[r].sent = cycle[c].hash[k]
      /\ \A j \in Step : j < k => Settled(c, j)
      /\ ~t[r].fresh
  BY <1>1, <1>2 DEF AloneParts, AloneTick, In, Working
<1>4. t[r].sent # 0
  <2>1. t[r].sent \in DOMAIN tx[c][k]
    BY <1>1, <1>2 DEF TickInv, In
  <2>2. DOMAIN tx[c][k] = 1..Len(tx[c][k]) /\ Len(tx[c][k]) \in Nat
    BY Lengths
  <2>3. QED
    BY <2>1, <2>2
<1>5. Settled(c, k)
  BY <1>2, <1>3, <1>4 DEF Settled
<1>6. \A j \in Step : j < k + 1 => Settled(c, j)
  <2>1. \A j \in Step : j < k + 1 => j < k \/ j = k
    BY DEF Step
  <2>2. QED
    BY <1>3, <1>5, <2>1
<1>7. \A j \in Step : Settled(c, j) => Settled(c, j)'
  BY <1>2 DEF Settled
<1>8. Open(c)'
  BY <1>2, <1>3 DEF Open
<1>9. AloneTick(r)'
  BY <1>2, <1>3, <1>5, <1>6, <1>7, <1>8 DEF AloneTick, In
<1>10. QED
  BY <1>2, <1>9, AloneReads

LEMMA AloneEnds ==
    ASSUME TypeOK, \A c \in Cycle : DocInv(c), AloneParts, NEW r \in Runners, TickInv(r),
           \/ AwaitReverted(r) \/ CompleteCycle(r) \/ SendRejected(r) \/ TickError(r)
           \/ StartTick(r)
    PROVE  AloneTick(r)' /\ \A c \in Cycle : AloneDoc(c)'
<1>1. CASE SendRejected(r) \/ TickError(r) \/ StartTick(r)
  <2>1. cycle' = cycle /\ tx' = tx /\ t'[r].pc \notin Working
    BY <1>1, SendRejectedFx, TickErrorFx, StartTickFx DEF Elsewhere, Working
  <2>2. QED
    BY <2>1, AloneReads, AloneRest
<1>2. CASE AwaitReverted(r)
  <2>1. /\ In(r, "await") /\ tx' = tx /\ t'[r].pc \notin Working
        /\ Writes(t[r].c, "FAILED", cycle[t[r].c].acquired)
    BY <1>2, AwaitRevertedFx DEF Elsewhere, Working
  <2>2. PICK c \in Cycle : c = t[r].c
    BY <2>1 DEF TickInv, In, Working
  <2>3. PICK status : status = "FAILED"
    OBVIOUS
  <2>4. Writes(c, status, cycle[c].acquired) /\ status # "none" /\ status # "COMPLETE"
    BY <2>1, <2>2, <2>3
  <2>5. \A d \in Cycle : AloneDoc(d)'
    BY <2>1, <2>4, AloneWrites
  <2>6. QED
    BY <2>1, <2>5, AloneRest
<1>3. CASE CompleteCycle(r)
  <2>1. /\ In(r, "complete") /\ tx' = tx /\ t'[r].pc \notin Working
        /\ Writes(t[r].c, "COMPLETE", cycle[t[r].c].acquired)
    BY <1>3, CompleteCycleFx DEF Elsewhere, Working
  <2>2. t[r].c \in Cycle /\ t[r].k = LastStep
    BY <2>1 DEF TickInv, In, Working
  <2>3. \A j \in Step : Settled(t[r].c, j)
    <3>1. Settled(t[r].c, 3) /\ \A j \in Step : j < 3 => Settled(t[r].c, j)
      BY <2>1, <2>2 DEF AloneParts, AloneTick, In, Working, LastStep
    <3>2. \A j \in Step : j < 3 \/ j = 3
      BY DEF Step
    <3>3. QED
      BY <3>1, <3>2
  <2>4. QED
    BY <2>1, <2>2, <2>3, AloneWrites, AloneRest
<1>4. QED
  BY <1>1, <1>2, <1>3

LEMMA AloneMove ==
    ASSUME TypeOK, TypeOK', NEW r \in Runners, TickInv(r), \A c \in Cycle : DocInv(c), RoomInv,
           RunInv, AloneInv, TickMove(r)
    PROVE  AloneInv'
<1>1. SUFFICES ASSUME Alone' PROVE AloneParts'
  BY DEF AloneInv, AloneParts
<1>2. Alone /\ OthersRest(r) /\ AloneParts
  BY <1>1, Rests DEF AloneInv, AloneParts
<1>3. AloneTick(r)' /\ \A c \in Cycle : AloneDoc(c)'
  BY <1>2, AloneClaim, AloneCreate, AloneEnterStep, AloneApprove, AloneSend, AloneRecord,
     AloneAwaitSwap, AloneAwaitBurn, AloneEnds DEF TickMove, PlainStep
<1>4. QED
  BY <1>2, <1>3, AloneJoin

\* Base adds nothing to the documents and takes no receipt back.
LEMMA AloneBase ==
    ASSUME TypeOK, \A c \in Cycle : DocInv(c), \A r \in Runners : TickInv(r), AloneInv, BaseStep
    PROVE  AloneInv'
<1>1. SUFFICES ASSUME Alone' PROVE AloneParts'
  BY DEF AloneInv, AloneParts
<1>2. OnBase /\ Improves /\ cycle' = cycle /\ t' = t
  BY BaseIs DEF OnBase, Improves
<1>3. AloneParts
  BY <1>1, <1>2 DEF OnBase, Alone, AloneInv, AloneParts
<1>4. ASSUME NEW c \in Cycle PROVE AloneDoc(c)'
  BY <1>2, <1>3, AloneDocKept DEF AloneParts, AloneDoc
<1>5. ASSUME NEW c \in Cycle, NEW k \in Step, Settled(c, k) PROVE Settled(c, k)'
  BY <1>2, <1>5, SettledKept
<1>6. ASSUME NEW r \in Runners PROVE AloneTick(r)'
  <2>1. CASE t[r].pc \in Working
    <3>1. PICK c \in Cycle, k \in Step : c = t[r].c /\ k = t[r].k
      BY <2>1, TickTypes DEF TickInv
    <3>2. Open(c) => Open(c)'
      BY <1>2 DEF Open
    <3>3. In(r, "record") => tx'[c][k][t[r].sent].amount = tx[c][k][t[r].sent].amount
      <4>1. In(r, "record") => t[r].sent \in DOMAIN tx[c][k]
        BY <3>1 DEF TickInv, In
      <4>2. QED
        BY <1>2, <4>1 DEF Improves
    <3>4. QED
      BY <1>2, <1>3, <1>5, <2>1, <3>1, <3>2, <3>3 DEF AloneParts, AloneTick, In
  <2>2. CASE t[r].pc \notin Working
    BY <1>2, <2>2, AloneRest
  <2>3. QED
    BY <2>1, <2>2
<1>7. QED
  BY <1>4, <1>6 DEF AloneParts

\* A process that stops or starts runs no tick.
LEMMA AloneProcess ==
    ASSUME TypeOK, \A c \in Cycle : DocInv(c), AloneInv, ProcessStep, DownInv
    PROVE  AloneInv'
<1>1. SUFFICES ASSUME Alone' PROVE AloneParts'
  BY DEF AloneInv, AloneParts
<1>2. NoTicks /\ cycle' = cycle /\ tx' = tx /\ overlaps' = overlaps
  BY ProcessIs
<1>3. AloneParts
  BY <1>1, <1>2 DEF Alone, AloneInv, AloneParts
<1>4. \A c \in Cycle : AloneDoc(c)'
  BY <1>2, <1>3, AloneReads
<1>5. \A r \in Runners : AloneTick(r)'
  BY <1>2, AloneRest DEF NoTicks, Working
<1>6. QED
  BY <1>4, <1>5 DEF AloneParts

-----------------------------------------------------------------------------
(***************************************************************************)
(* The third part: where the WFAIR is.                                     *)
(***************************************************************************)

\* The invariant of the account, without its condition, and the states it is about.
MoneyParts ==
    /\ InFlight = {} => wfair = 0
    /\ \A c \in InFlight : wfair + Spent(c, 1) + Spent(c, 2) + Spent(c, 3) = Gain(c)
    /\ \A c \in Cycle : cycle[c].acquired # Null => cycle[c].acquired = Gain(c)
    /\ \A r \in Runners : t[r].fresh => t[r].before = 0

Sound ==
    /\ TypeOK
    /\ \A r \in Runners : TickInv(r)
    /\ \A c \in Cycle : DocInv(c)
    /\ \A c \in Cycle, k \in Step : CountInv(c, k)
    /\ RunInv /\ OpenInv /\ RoomInv
    /\ AloneParts
    /\ Regular
    /\ MoneyParts

\* One transaction of each step at most: the one on file, or in hand.
LEMMA RegularTx ==
    ASSUME Sound, NEW c \in Cycle, NEW k \in Step
    PROVE  /\ Len(tx[c][k]) \in {0, 1}
           /\ cycle[c].hash[k] # 0 => Len(tx[c][k]) = 1 /\ cycle[c].hash[k] = 1
           /\ cycle[c].hash[k] = 0 /\ Hand(c, k) = {} => Len(tx[c][k]) = 0
<1>1. /\ TypeOK /\ overlaps = 0 /\ lost[c][k] = 0 /\ RunInv /\ CountInv(c, k)
      /\ cycle[c].hash[k] <= Len(tx[c][k])
  BY DEF Sound, Regular, Alone, NothingLost, DocInv
<1>2. /\ IsFiniteSet(Hand(c, k)) /\ Cardinality(Hand(c, k)) \in Nat
      /\ Cardinality(Senders(c, k)) \in Nat
  BY Facts, FS_Subset, FS_CardinalityType DEF Hand, Senders
<1>3. PICK h \in Nat, s \in Nat, n \in Nat, m \in Nat :
         /\ h = Cardinality(Hand(c, k)) /\ s = Cardinality(Senders(c, k))
         /\ n = Len(tx[c][k]) /\ m = cycle[c].hash[k]
  BY <1>1, <1>2, Lengths
<1>4. h + s <= 1 + 0
  BY <1>1, <1>3, HandsRun
<1>5. /\ m = 0 => n = h
      /\ m # 0 => n >= h + 1 /\ n + s <= 1
  <2>1. Counted(n, OnFile(c, k), 0, h, s, 0)
    BY <1>1, <1>3 DEF CountInv
  <2>2. /\ m = 0 => OnFile(c, k) = 0
        /\ m # 0 => OnFile(c, k) = 1
    BY <1>3 DEF OnFile
  <2>3. QED
    BY <2>1, <2>2 DEF Counted
<1>6. m <= n
  BY <1>1, <1>3
<1>7. /\ n = 0 \/ n = 1
      /\ m # 0 => n = 1 /\ m = 1
      /\ m = 0 /\ h = 0 => n = 0
  BY <1>4, <1>5, <1>6
<1>8. Hand(c, k) = {} => h = 0
  BY <1>3, FS_EmptySet
<1>9. QED
  BY <1>3, <1>7, <1>8

\* A tick that runs and files nothing leaves no hash in hand.
LEMMA NoHand ==
    ASSUME Sound, NEW r \in Runners, Running(r), ~In(r, "record"),
           NEW c \in Cycle, NEW k \in Step
    PROVE  Hand(c, k) = {}
<1>1. TypeOK /\ RunInv /\ Alone
  BY DEF Sound, Regular
<1>2. ASSUME NEW q \in Runners, Holds(q, c, k) PROVE FALSE
  <2>1. Running(q) /\ q # r
    BY <1>2 DEF Holds, In, Running
  <2>2. QED
    BY <1>1, <2>1, OnlyRunner
<1>3. QED
  BY <1>2 DEF Hand

LEMMA SettledMined ==
    ASSUME Sound, NEW c \in Cycle, NEW k \in Step, Settled(c, k)
    PROVE  Mined(c, k) /\ cycle[c].hash[k] = 1
BY RegularTx DEF Settled, Mined

\* A step with no transaction brings and takes nothing.
LEMMA NoneMined ==
    ASSUME Sound, NEW r \in Runners, Running(r), ~In(r, "record"),
           NEW c \in Cycle, NEW k \in Step, cycle[c].hash[k] = 0
    PROVE  ~Mined(c, k) /\ Spent(c, k) = 0 /\ (k = 0 => Gain(c) = 0)
BY NoHand, RegularTx DEF Mined, Spent, Gain

\* What comes and goes is counted by naturals.
LEMMA MoneyTypes ==
    ASSUME TypeOK, NEW c \in Cycle
    PROVE  /\ wfair \in Nat /\ Gain(c) \in Nat
           /\ Spent(c, 1) \in Nat /\ Spent(c, 2) \in Nat /\ Spent(c, 3) \in Nat
<1>1. ASSUME NEW k \in Step, Mined(c, k) PROVE tx[c][k][1].amount \in Nat
  <2>1. tx[c][k] \in Seq(Transaction) /\ 1 \in DOMAIN tx[c][k]
    BY <1>1, Lengths DEF Mined
  <2>2. tx[c][k][1] \in Transaction
    BY <2>1
  <2>3. QED
    BY <2>2 DEF Transaction
<1>2. ASSUME NEW n \in Nat PROVE Rate * n \in Nat
  BY Facts
<1>3. 0 \in Step /\ 1 \in Step /\ 2 \in Step /\ 3 \in Step
  BY DEF Step
<1>4. wfair \in Nat
  BY DEF TypeOK
<1>5. QED
  BY <1>1, <1>2, <1>3, <1>4 DEF Gain, Spent

\* The account while no burn of the open cycle was sent, and before its swap was.
LEMMA BeforeBurns ==
    ASSUME Sound, NEW r \in Runners, Running(r), ~In(r, "record"), NEW c \in InFlight,
           \A k \in Burn : cycle[c].hash[k] = 0
    PROVE  /\ wfair = Gain(c)
           /\ cycle[c].hash[0] = 0 => wfair = 0
<1>1. c \in Cycle /\ TypeOK
  BY DEF InFlight, Sound
<1>2. wfair + Spent(c, 1) + Spent(c, 2) + Spent(c, 3) = Gain(c)
  BY DEF Sound, MoneyParts
<1>3. 0 \in Step /\ \A k \in Burn : k \in Step
  BY DEF Step, Burn
<1>4. 1 \in Burn /\ 2 \in Burn /\ 3 \in Burn
  BY DEF Burn
<1>5. Spent(c, 1) = 0 /\ Spent(c, 2) = 0 /\ Spent(c, 3) = 0
  BY <1>1, <1>3, <1>4, NoneMined
<1>6. wfair = Gain(c)
  BY <1>1, <1>2, <1>5, MoneyTypes
<1>7. cycle[c].hash[0] = 0 => Gain(c) = 0
  BY <1>1, <1>3, NoneMined
<1>8. QED
  BY <1>6, <1>7

\* A cycle whose proceeds are not on file has no burn on file.
LEMMA NoBurns ==
    ASSUME Sound, NEW c \in Cycle, cycle[c].acquired = Null
    PROVE  \A k \in Burn : cycle[c].hash[k] = 0
BY DEF Sound, AloneParts, AloneDoc

\* There is one open cycle at most, and none when one is about to be stored.
LEMMA OneInFlight ==
    ASSUME Sound
    PROVE  /\ \A c \in InFlight, d \in InFlight : c = d
           /\ Creating # {} => InFlight = {}
<1>1. InFlight \in SUBSET (InFlight \union Worked)
  OBVIOUS
<1>2. /\ IsFiniteSet(InFlight) /\ Cardinality(InFlight) \in Nat
      /\ Cardinality(InFlight) <= Cardinality(InFlight \union Worked)
  BY <1>1, OpenSets, FS_Subset, FS_CardinalityType
<1>3. PICK a \in Nat, b \in Nat, m \in Nat :
         /\ a = Cardinality(InFlight) /\ b = Cardinality(InFlight \union Worked)
         /\ m = Cardinality(Creating)
  BY <1>2, OpenSets
<1>4. b + m <= 1 + 0
  BY <1>3 DEF Sound, OpenInv, Regular, Alone
<1>5. a + m <= 1
  BY <1>2, <1>3, <1>4
<1>6. a = 0 => InFlight = {}
  BY <1>2, <1>3, FS_EmptySet
<1>7. a = 1 => \E x : InFlight = {x}
  BY <1>2, <1>3, FS_Singleton
<1>8. Creating # {} => m # 0
  BY <1>3, OpenSets, FS_EmptySet
<1>9. /\ a = 0 \/ a = 1
      /\ m # 0 => a = 0
  BY <1>5
<1>10. QED
  BY <1>6, <1>7, <1>8, <1>9

\* A failed cycle stays failed and a forgotten hash forgotten: before a regular
\* state every state was.
Lasting ==
    /\ \A c \in Cycle : cycle[c].status = "FAILED" => cycle'[c].status = "FAILED"
    /\ \A c \in Cycle, k \in Step : lost'[c][k] = 0 => lost[c][k] = 0

LEMMA RegularBack ==
    ASSUME Alone, Lasting, Regular'
    PROVE  Regular
BY DEF Lasting, Regular, NothingLost

\* A forgotten hash more.
LEMMA LostLasts ==
    ASSUME TypeOK, NEW c \in Cycle, NEW k \in Step, LostAdded(c, k) \/ lost' = lost
    PROVE  \A d \in Cycle, j \in Step : lost'[d][j] = 0 => lost[d][j] = 0
<1>1. lost[c][k] \in Nat
  BY DEF TypeOK
<1>2. PICK n \in Nat : n = lost[c][k]
  BY <1>1
<1>3. n + 1 # 0
  OBVIOUS
<1>4. QED
  BY <1>2, <1>3 DEF LostAdded

\* The document of the open cycle at hand is written, or none is.
LEMMA OwnLasts ==
    ASSUME NEW c \in Cycle, Open(c),
           \/ cycle' = cycle
           \/ \E status, n : Writes(c, status, n)
           \/ \E k, n : Filed(c, k, n)
    PROVE  \A d \in Cycle : cycle[d].status = "FAILED" => cycle'[d].status = "FAILED"
<1>1. \/ \A d \in Cycle : d # c => cycle'[d] = cycle[d]
      \/ cycle' = cycle
  BY DEF Writes, Filed, OnlyCycle
<1>2. QED
  BY <1>1 DEF Open

LEMMA MoveLasts ==
    ASSUME TypeOK, NEW r \in Runners, TickInv(r), RoomInv, AloneTick(r), TickMove(r)
    PROVE  Lasting
<1>1. ASSUME t[r].pc \in Working, \A c \in Cycle, k \in Step : lost'[c][k] = 0 => lost[c][k] = 0,
             \/ cycle' = cycle
             \/ \E status, n : Writes(t[r].c, status, n)
             \/ \E k, n : Filed(t[r].c, k, n)
      PROVE  Lasting
  <2>1. t[r].c \in Cycle /\ Open(t[r].c)
    BY <1>1 DEF TickInv, AloneTick
  <2>2. \A d \in Cycle : cycle[d].status = "FAILED" => cycle'[d].status = "FAILED"
    BY <1>1, <2>1, OwnLasts
  <2>3. QED
    BY <1>1, <2>2 DEF Lasting
<1>2. CASE SendStep(r)
  <2>1. /\ cycle' = cycle /\ (lost' = lost \/ LostAdded(t[r].c, t[r].k))
        /\ t[r].c \in Cycle /\ t[r].k \in Step
    BY <1>2, SendIs
  <2>2. \A d \in Cycle, j \in Step : lost'[d][j] = 0 => lost[d][j] = 0
    BY <2>1, LostLasts
  <2>3. QED
    BY <2>1, <2>2 DEF Lasting
<1>3. CASE RecordStep(r)
  <2>1. /\ cycle' = cycle \/ Filed(t[r].c, t[r].k, t[r].sent)
        /\ lost' = lost \/ LostAdded(t[r].c, t[r].k)
        /\ t[r].c \in Cycle /\ t[r].k \in Step /\ In(r, "record")
    BY <1>3, RecordIs
  <2>2. \A d \in Cycle, j \in Step : lost'[d][j] = 0 => lost[d][j] = 0
    BY <2>1, LostLasts
  <2>3. QED
    BY <1>1, <2>1, <2>2 DEF In, Working
<1>4. CASE StartTick(r) \/ ClaimOrLoad(r) \/ SendRejected(r) \/ TickError(r) \/ AwaitBurn(r)
           \/ EnsureApproval(r) \/ ReadWfairBefore(r)
  <2>1. cycle' = cycle /\ lost' = lost
    BY <1>4, StartTickFx, ClaimFx, SendRejectedFx, TickErrorFx, AwaitBurnFx, EnsureApprovalFx,
       ReadWfairBeforeFx DEF Elsewhere
  <2>2. QED
    BY <2>1 DEF Lasting
<1>5. CASE CreateCycle(r)
  <2>1. Free # {}
    BY <1>5, FreeIsThere DEF CreateCycle
  <2>2. lost' = lost /\ \E c \in Free : OnlyCycle(c)
    BY <1>5, <2>1, CreateFx
  <2>3. QED
    BY <2>2 DEF Lasting, OnlyCycle, Free
<1>6. CASE EnterStep(r) \/ AwaitSwap(r) \/ AwaitReverted(r) \/ CompleteCycle(r)
  <2>1. /\ In(r, "step") \/ In(r, "await") \/ In(r, "complete")
        /\ lost' = lost
        /\ cycle' = cycle \/ \E status, n : Writes(t[r].c, status, n)
    BY <1>6, EnterStepFx, AwaitSwapFx, AwaitRevertedFx, CompleteCycleFx DEF Elsewhere
  <2>2. QED
    BY <1>1, <2>1 DEF In, Working
<1>7. QED
  BY <1>2, <1>3, <1>4, <1>5, <1>6 DEF TickMove, PlainStep

\* What a step leaves when it neither opens nor ends a cycle, moves no WFAIR and
\* writes no proceeds.
Quiet ==
    /\ wfair' = wfair /\ InFlight' = InFlight
    /\ \A c \in Cycle : /\ cycle'[c].acquired = cycle[c].acquired
                        /\ Gain(c)' = Gain(c)
                        /\ \A k \in Burn : Spent(c, k)' = Spent(c, k)

Fresh == \A r \in Runners : t'[r].fresh => t'[r].before = 0

LEMMA QuietMoney ==
    ASSUME MoneyParts, Quiet, Fresh
    PROVE  MoneyParts'
<1>1. 1 \in Burn /\ 2 \in Burn /\ 3 \in Burn /\ \A c \in InFlight : c \in Cycle
  BY DEF Burn, InFlight
<1>2. ASSUME NEW c \in InFlight'
      PROVE  wfair' + Spent(c, 1)' + Spent(c, 2)' + Spent(c, 3)' = Gain(c)'
  <2>1. c \in InFlight /\ c \in Cycle
    BY <1>1, <1>2 DEF Quiet
  <2>2. /\ wfair' = wfair /\ Spent(c, 1)' = Spent(c, 1) /\ Spent(c, 2)' = Spent(c, 2)
        /\ Spent(c, 3)' = Spent(c, 3) /\ Gain(c)' = Gain(c)
    BY <1>1, <2>1 DEF Quiet
  <2>3. wfair + Spent(c, 1) + Spent(c, 2) + Spent(c, 3) = Gain(c)
    BY <2>1 DEF MoneyParts
  <2>4. QED
    BY <2>2, <2>3
<1>3. InFlight' = {} => wfair' = 0
  BY DEF Quiet, MoneyParts
<1>4. \A c \in Cycle : cycle'[c].acquired # Null => cycle'[c].acquired = Gain(c)'
  BY DEF Quiet, MoneyParts
<1>5. QED
  BY <1>2, <1>3, <1>4 DEF MoneyParts, Fresh

\* The tick of r says nothing new of the balance before its swap.
LEMMA FreshKept ==
    ASSUME MoneyParts, NEW r \in Runners, OnlyTick(r),
           \/ t'[r].fresh = FALSE
           \/ t'[r].fresh = t[r].fresh /\ t'[r].before = t[r].before
    PROVE  Fresh
BY DEF MoneyParts, Fresh, OnlyTick

LEMMA SameMined ==
    ASSUME tx' = tx, NEW c \in Cycle
    PROVE  Gain(c)' = Gain(c) /\ \A k \in Burn : Spent(c, k)' = Spent(c, k)
BY DEF Gain, Spent, Mined

\* The steps that only read, plan or announce.
LEMMA MoneyReads ==
    ASSUME Sound, NEW r \in Runners, TickInv(r),
           \/ StartTick(r) \/ ClaimOrLoad(r) \/ EnterStep(r) \/ EnsureApproval(r)
           \/ SendRejected(r) \/ TickError(r) \/ AwaitBurn(r) \/ RecordStep(r)
    PROVE  MoneyParts'
<1>1. TypeOK /\ MoneyParts /\ AloneTick(r)
  BY DEF Sound, AloneParts
<1>2. tx' = tx /\ wfair' = wfair /\ OnlyTick(r)
  BY <1>1, StartTickFx, ClaimFx, EnterStepFx, EnsureApprovalFx, SendRejectedFx, TickErrorFx,
     AwaitBurnFx, RecordIs DEF Elsewhere
<1>3. \/ t'[r].fresh = FALSE
      \/ t'[r].fresh = t[r].fresh /\ t'[r].before = t[r].before
  <2>1. CASE ClaimOrLoad(r)
    <3>1. /\ [t[r] EXCEPT !.pc = "create"].fresh = t[r].fresh
          /\ [t[r] EXCEPT !.pc = "create"].before = t[r].before
      BY <1>1, TickTypes DEF TickState
    <3>2. QED
      BY <1>1, <2>1, <3>1, ClaimFx, IdleIs
  <2>2. CASE ~ClaimOrLoad(r)
    BY <1>1, <2>2, StartTickFx, EnterStepFx, EnsureApprovalFx, SendRejectedFx, TickErrorFx,
       AwaitBurnFx, RecordIs
  <2>3. QED
    BY <2>1, <2>2
<1>4. InFlight' = InFlight /\ \A c \in Cycle : cycle'[c].acquired = cycle[c].acquired
  <2>1. CASE cycle' = cycle
    BY <2>1 DEF InFlight, Open
  <2>2. CASE EnterStep(r) /\ cycle' # cycle
    <3>1. PICK c \in Cycle : c = t[r].c
      BY <1>1, <2>2, EnterStepFx DEF TickInv, In, Working
    <3>2. PICK status \in CycleStatus \ {"none", "COMPLETE", "FAILED"} :
             Writes(c, status, cycle[c].acquired)
      BY <1>1, <2>2, <3>1, EnterStepFx
    <3>3. Open(c)
      BY <1>1, <2>2, <3>1, EnterStepFx DEF AloneTick, In, Working
    <3>4. /\ Open(c)'
          /\ \A d \in Cycle : d # c => cycle'[d] = cycle[d]
          /\ cycle'[c].acquired = cycle[c].acquired
      BY <3>2 DEF Open, Writes, OnlyCycle
    <3>5. \A d \in Cycle : Open(d)' <=> Open(d)
      BY <3>3, <3>4 DEF Open
    <3>6. QED
      BY <3>4, <3>5 DEF InFlight
  <2>3. CASE RecordStep(r) /\ cycle' # cycle
    <3>1. PICK c \in Cycle, k \in Step : Filed(c, k, t[r].sent)
      BY <1>1, <2>3, RecordIs
    <3>2. \A d \in Cycle : /\ cycle'[d].status = cycle[d].status
                           /\ cycle'[d].acquired = cycle[d].acquired
      BY <3>1 DEF Filed, OnlyCycle
    <3>3. QED
      BY <3>2 DEF InFlight, Open
  <2>4. EnterStep(r) \/ RecordStep(r) \/ cycle' = cycle
    BY <1>1, StartTickFx, ClaimFx, EnsureApprovalFx, SendRejectedFx, TickErrorFx, AwaitBurnFx
  <2>5. QED
    BY <2>1, <2>2, <2>3, <2>4
<1>5. Quiet
  BY <1>2, <1>4, SameMined DEF Quiet
<1>6. Fresh
  BY <1>1, <1>2, <1>3, FreshKept
<1>7. QED
  BY <1>1, <1>5, <1>6, QuietMoney

\* The transactions of one step change, and it is mined neither before nor after.
LEMMA OtherMined ==
    ASSUME NEW c \in Cycle, NEW k \in Step, ~Mined(c, k), ~Mined(c, k)',
           \A d \in Cycle, j \in Step : d # c \/ j # k => tx'[d][j] = tx[d][j],
           NEW d \in Cycle
    PROVE  Gain(d)' = Gain(d) /\ \A j \in Burn : Spent(d, j)' = Spent(d, j)
<1>1. ASSUME NEW j \in Step, d # c \/ j # k
      PROVE  Mined(d, j)' = Mined(d, j) /\ tx'[d][j] = tx[d][j]
  BY <1>1 DEF Mined
<1>2. 0 \in Step /\ \A j \in Burn : j \in Step
  BY DEF Step, Burn
<1>3. Gain(d)' = Gain(d)
  <2>1. CASE d = c /\ k = 0
    BY <2>1 DEF Gain
  <2>2. CASE ~(d = c /\ k = 0)
    BY <1>1, <1>2, <2>2 DEF Gain
  <2>3. QED
    BY <2>1, <2>2
<1>4. ASSUME NEW j \in Burn PROVE Spent(d, j)' = Spent(d, j)
  <2>1. CASE d = c /\ j = k
    BY <2>1 DEF Spent
  <2>2. CASE ~(d = c /\ j = k)
    BY <1>1, <1>2, <2>2 DEF Spent
  <2>3. QED
    BY <2>1, <2>2
<1>5. QED
  BY <1>3, <1>4

LEMMA MoneySend ==
    ASSUME Sound, NEW r \in Runners, TickInv(r), SendStep(r)
    PROVE  MoneyParts'
<1>1. TypeOK /\ MoneyParts /\ AloneTick(r)
  BY DEF Sound, AloneParts
<1>2. PICK c \in Cycle, k \in Step : c = t[r].c /\ k = t[r].k
  BY <1>1, SendIs
<1>3. PICK x : x = [amount |-> Amount(r), status |-> "pending"]
  OBVIOUS
<1>4. /\ OnlyTick(r) /\ In(r, "send") /\ cycle' = cycle /\ wfair' = wfair
      /\ TxAdded(c, k, x)
      /\ \/ t'[r].fresh = FALSE
         \/ t'[r].fresh = t[r].fresh /\ t'[r].before = t[r].before
  BY <1>1, <1>2, <1>3, SendIs
<1>5. Running(r) /\ ~In(r, "record") /\ cycle[c].hash[k] = 0
  BY <1>1, <1>2, <1>4 DEF Running, In, AloneTick, Working
<1>6. Len(tx[c][k]) = 0
  BY <1>5, NoHand, RegularTx
<1>7. ~Mined(c, k)
  BY <1>6 DEF Mined
<1>8. tx'[c][k][1] = x
  <2>1. tx'[c][k][Len(tx[c][k]) + 1] = x
    BY <1>1, <1>4, AddedLast
  <2>2. QED
    BY <1>6, <2>1
<1>9. ~Mined(c, k)'
  BY <1>3, <1>8 DEF Mined
<1>10. \A d \in Cycle : Gain(d)' = Gain(d) /\ \A j \in Burn : Spent(d, j)' = Spent(d, j)
  BY <1>4, <1>7, <1>9, OtherMined DEF TxAdded
<1>11. Quiet
  BY <1>4, <1>10 DEF Quiet, InFlight, Open
<1>12. Fresh
  BY <1>1, <1>4, FreshKept
<1>13. QED
  BY <1>1, <1>11, <1>12, QuietMoney

\* The account is empty before a swap.
LEMMA MoneyBefore ==
    ASSUME Sound, NEW r \in Runners, TickInv(r), ReadWfairBefore(r)
    PROVE  MoneyParts'
<1>1. TypeOK /\ MoneyParts /\ AloneTick(r)
  BY DEF Sound, AloneParts
<1>2. /\ OnlyTick(r) /\ In(r, "before") /\ cycle' = cycle /\ tx' = tx /\ wfair' = wfair
      /\ t'[r].before = wfair
  BY <1>1, ReadWfairBeforeFx DEF Elsewhere
<1>3. PICK c \in Cycle : c = t[r].c
  BY <1>2 DEF TickInv, In, Working
<1>4. /\ Running(r) /\ ~In(r, "record") /\ Open(c) /\ cycle[c].hash[0] = 0
  BY <1>1, <1>2, <1>3 DEF Running, In, AloneTick, Working, TickInv
<1>5. cycle[c].acquired = Null
  BY <1>4 DEF Sound, AloneParts, AloneDoc, Settled
<1>6. c \in InFlight
  BY <1>4 DEF InFlight
<1>7. wfair = 0
  BY <1>4, <1>5, <1>6, NoBurns, BeforeBurns
<1>8. Fresh
  BY <1>1, <1>2, <1>7 DEF Fresh, MoneyParts, OnlyTick
<1>9. Quiet
  BY <1>2, SameMined DEF Quiet, InFlight, Open
<1>10. QED
  BY <1>1, <1>8, <1>9, QuietMoney

\* A new cycle finds no WFAIR.
LEMMA MoneyCreate ==
    ASSUME Sound, NEW r \in Runners, TickInv(r), CreateCycle(r)
    PROVE  MoneyParts'
<1>1. TypeOK /\ MoneyParts /\ RoomInv
  BY DEF Sound
<1>2. Free # {}
  BY <1>1, FreeIsThere DEF CreateCycle
<1>3. /\ OnlyTick(r) /\ In(r, "create") /\ tx' = tx /\ wfair' = wfair /\ t'[r].fresh = FALSE
  BY <1>1, <1>2, CreateFx
<1>4. PICK c \in Free : /\ OnlyCycle(c) /\ cycle'[c].status = "PENDING"
                        /\ cycle'[c].acquired = cycle[c].acquired
  BY <1>1, <1>2, CreateFx
<1>5. c \in Cycle /\ \A k \in Step : tx[c][k] = <<>>
  BY <1>4 DEF Free, Sound, DocInv
<1>6. InFlight = {} /\ wfair = 0
  BY <1>1, <1>3, OneInFlight DEF Creating, MoneyParts
<1>7. InFlight' = {c}
  <2>1. Open(c)' /\ \A d \in Cycle \ {c} : ~Open(d)'
    BY <1>4, <1>6 DEF Open, OnlyCycle, InFlight
  <2>2. QED
    BY <1>5, <2>1 DEF InFlight
<1>8. \A d \in Cycle : /\ Gain(d)' = Gain(d) /\ cycle'[d].acquired = cycle[d].acquired
  BY <1>3, <1>4, SameMined DEF OnlyCycle
<1>9. Gain(c)' = 0 /\ Spent(c, 1)' = 0 /\ Spent(c, 2)' = 0 /\ Spent(c, 3)' = 0
  <2>1. ASSUME NEW k \in Step PROVE ~Mined(c, k)'
    <3>1. tx'[c][k] = <<>>
      BY <1>3, <1>5
    <3>2. Len(tx'[c][k]) = 0
      BY <3>1
    <3>3. QED
      BY <3>2 DEF Mined
  <2>2. 0 \in Step /\ 1 \in Step /\ 2 \in Step /\ 3 \in Step
    BY DEF Step
  <2>3. QED
    BY <2>1, <2>2 DEF Gain, Spent
<1>10. \A q \in Runners : t'[q].fresh => t'[q].before = 0
  BY <1>1, <1>3 DEF MoneyParts, OnlyTick
<1>11. \A d \in InFlight' : wfair' + Spent(d, 1)' + Spent(d, 2)' + Spent(d, 3)' = Gain(d)'
  <2>1. wfair' + Spent(c, 1)' + Spent(c, 2)' + Spent(c, 3)' = Gain(c)'
    BY <1>3, <1>6, <1>9
  <2>2. QED
    BY <1>7, <2>1
<1>12. \A d \in Cycle : cycle'[d].acquired # Null => cycle'[d].acquired = Gain(d)'
  BY <1>1, <1>8 DEF MoneyParts
<1>13. QED
  BY <1>7, <1>10, <1>11, <1>12 DEF MoneyParts

\* What is written as the proceeds is what the swap brought.
LEMMA MoneyAwaitSwap ==
    ASSUME Sound, NEW r \in Runners, TickInv(r), AwaitSwap(r), Regular'
    PROVE  MoneyParts'
<1>1. TypeOK /\ MoneyParts /\ AloneTick(r)
  BY DEF Sound, AloneParts
<1>2. PICK c \in Cycle : c = t[r].c
  BY <1>1, AwaitSwapFx DEF TickInv, In, Working
<1>3. /\ OnlyTick(r) /\ In(r, "await") /\ tx' = tx /\ wfair' = wfair /\ t'[r].fresh = FALSE
      /\ \/ Writes(c, "FAILED", cycle[c].acquired)
         \/ Acquired(r) \in Nat /\ Writes(c, cycle[c].status, Acquired(r))
  BY <1>1, <1>2, AwaitSwapFx DEF Elsewhere
<1>4. Acquired(r) \in Nat /\ Writes(c, cycle[c].status, Acquired(r))
  BY <1>3 DEF Writes, Regular
<1>5. /\ Running(r) /\ ~In(r, "record") /\ Open(c) /\ t[r].acquired = cycle[c].acquired
      /\ t[r].fresh => t[r].acquired = Null /\ t[r].before = 0
  BY <1>1, <1>2, <1>3 DEF Running, In, AloneTick, Working, MoneyParts
<1>6. Acquired(r) = Gain(c)
  <2>1. CASE t[r].acquired # Null
    <3>1. ~t[r].fresh
      BY <1>5, <2>1
    <3>2. Acquired(r) = cycle[c].acquired /\ cycle[c].acquired # Null
      BY <1>5, <2>1, <3>1 DEF Acquired
    <3>3. QED
      BY <1>1, <3>2 DEF MoneyParts
  <2>2. CASE t[r].acquired = Null
    <3>1. wfair \in Nat
      BY <1>1 DEF TypeOK
    <3>2. Acquired(r) = wfair
      BY <1>5, <2>2, <3>1 DEF Acquired
    <3>3. c \in InFlight
      BY <1>5 DEF InFlight
    <3>4. wfair = Gain(c)
      BY <1>5, <2>2, <3>3, NoBurns, BeforeBurns
    <3>5. QED
      BY <3>2, <3>4
  <2>3. QED
    BY <2>1, <2>2
<1>7. /\ InFlight' = InFlight
      /\ \A d \in Cycle \ {c} : cycle'[d].acquired = cycle[d].acquired
      /\ cycle'[c].acquired = Gain(c)
  BY <1>4, <1>6 DEF Writes, OnlyCycle, InFlight, Open
<1>8. \A d \in Cycle : Gain(d)' = Gain(d) /\ \A k \in Burn : Spent(d, k)' = Spent(d, k)
  BY <1>3, SameMined
<1>9. \A d \in Cycle : cycle'[d].acquired # Null => cycle'[d].acquired = Gain(d)'
  BY <1>1, <1>7, <1>8 DEF MoneyParts
<1>10. \A d \in InFlight' : wfair' + Spent(d, 1)' + Spent(d, 2)' + Spent(d, 3)' = Gain(d)'
  <2>1. ASSUME NEW d \in InFlight PROVE wfair' + Spent(d, 1)' + Spent(d, 2)' + Spent(d, 3)' = Gain(d)'
    <3>1. d \in Cycle /\ 1 \in Burn /\ 2 \in Burn /\ 3 \in Burn
      BY DEF InFlight, Burn
    <3>2. wfair + Spent(d, 1) + Spent(d, 2) + Spent(d, 3) = Gain(d)
      BY <1>1 DEF MoneyParts
    <3>3. QED
      BY <1>3, <1>8, <3>1, <3>2
  <2>2. QED
    BY <1>7, <2>1
<1>11. InFlight' = {} => wfair' = 0
  BY <1>1, <1>3, <1>7 DEF MoneyParts
<1>12. Fresh
  BY <1>1, <1>3, FreshKept
<1>13. QED
  BY <1>9, <1>10, <1>11, <1>12 DEF MoneyParts, Fresh

\* When its last burn is mined a cycle has spent all that its swap brought.
LEMMA AllSpent ==
    ASSUME Sound, NEW c \in Cycle, \A k \in Step : Settled(c, k)
    PROVE  Spent(c, 1) + Spent(c, 2) + Spent(c, 3) = Gain(c)
<1>1. 1 \in Burn /\ 2 \in Burn /\ 3 \in Burn /\ \A k \in Burn : k \in Step
  BY DEF Burn, Step
<1>2. ASSUME NEW k \in Burn
      PROVE  /\ cycle[c].acquired # Null
             /\ Mined(c, k) /\ tx[c][k][1].amount = Share(cycle[c].acquired, k)
  <2>1. Mined(c, k) /\ cycle[c].hash[k] = 1
    BY <1>1, SettledMined
  <2>2. /\ cycle[c].acquired # Null
        /\ tx[c][k][cycle[c].hash[k]].amount = Share(cycle[c].acquired, k)
    BY <2>1 DEF Sound, AloneParts, AloneDoc
  <2>3. QED
    BY <2>1, <2>2
<1>3. PICK n \in Nat : n = cycle[c].acquired /\ n = Gain(c)
  <2>1. cycle[c].acquired \in Nat \union {Null} /\ cycle[c].acquired # Null
    BY <1>1, <1>2 DEF Sound, TypeOK, CycleDoc
  <2>2. cycle[c].acquired = Gain(c)
    BY <2>1 DEF Sound, MoneyParts
  <2>3. QED
    BY <2>1, <2>2
<1>4. Spent(c, 1) = Share(n, 1) /\ Spent(c, 2) = Share(n, 2) /\ Spent(c, 3) = Share(n, 3)
  BY <1>1, <1>2, <1>3 DEF Spent
<1>5. QED
  BY <1>3, <1>4, Shares

LEMMA MoneyComplete ==
    ASSUME Sound, NEW r \in Runners, TickInv(r), CompleteCycle(r)
    PROVE  MoneyParts'
<1>1. TypeOK /\ MoneyParts /\ AloneTick(r)
  BY DEF Sound, AloneParts
<1>2. /\ OnlyTick(r) /\ In(r, "complete") /\ tx' = tx /\ wfair' = wfair /\ t'[r].fresh = FALSE
      /\ Writes(t[r].c, "COMPLETE", cycle[t[r].c].acquired)
  BY <1>1, CompleteCycleFx DEF Elsewhere
<1>3. PICK c \in Cycle : c = t[r].c
  BY <1>2 DEF TickInv, In, Working
<1>4. Open(c) /\ \A k \in Step : Settled(c, k)
  <2>1. /\ Open(c) /\ t[r].k = 3 /\ Settled(c, 3) /\ \A j \in Step : j < 3 => Settled(c, j)
    BY <1>1, <1>2, <1>3 DEF TickInv, AloneTick, In, Working, LastStep
  <2>2. \A j \in Step : j < 3 \/ j = 3
    BY DEF Step
  <2>3. QED
    BY <2>1, <2>2
<1>5. wfair = 0
  <2>1. wfair + Spent(c, 1) + Spent(c, 2) + Spent(c, 3) = Gain(c)
    BY <1>1, <1>4 DEF InFlight, MoneyParts
  <2>2. Spent(c, 1) + Spent(c, 2) + Spent(c, 3) = Gain(c)
    BY <1>4, AllSpent
  <2>3. PICK w \in Nat, x \in Nat, y \in Nat, z \in Nat :
           w = wfair /\ x = Spent(c, 1) /\ y = Spent(c, 2) /\ z = Spent(c, 3)
    BY <1>1, MoneyTypes
  <2>4. w + x + y + z = x + y + z
    BY <2>1, <2>2, <2>3
  <2>5. w = 0
    BY <2>4
  <2>6. QED
    BY <2>3, <2>5
<1>6. InFlight' = {}
  <2>1. \A d \in Cycle : Open(d) => d = c
    BY <1>4, OneInFlight DEF InFlight
  <2>2. \A d \in Cycle : ~Open(d)'
    BY <1>2, <1>3, <2>1 DEF Writes, OnlyCycle, Open
  <2>3. QED
    BY <2>2 DEF InFlight
<1>7. \A d \in Cycle : cycle'[d].acquired # Null => cycle'[d].acquired = Gain(d)'
  <2>1. \A d \in Cycle : cycle'[d].acquired = cycle[d].acquired
    BY <1>2 DEF Writes, OnlyCycle
  <2>2. QED
    BY <1>1, <1>2, <2>1, SameMined DEF MoneyParts
<1>8. Fresh
  BY <1>1, <1>2, FreshKept
<1>9. QED
  BY <1>2, <1>5, <1>6, <1>7, <1>8 DEF MoneyParts, Fresh

\* A pending transaction is the only one of its step, and its cycle is open.
LEMMA PendingIs ==
    ASSUME Sound, NEW c \in Cycle, NEW k \in Step, NEW i \in DOMAIN tx[c][k],
           tx[c][k][i].status = "pending"
    PROVE  i = 1 /\ Len(tx[c][k]) = 1 /\ ~Mined(c, k) /\ ~Settled(c, k) /\ c \in InFlight
<1>1. TypeOK
  BY DEF Sound
<1>2. DOMAIN tx[c][k] = 1..Len(tx[c][k])
  BY <1>1, Lengths
<1>3. i = 1 /\ Len(tx[c][k]) = 1
  BY <1>2, RegularTx
<1>4. ~Mined(c, k)
  BY <1>3 DEF Mined
<1>5. ~Settled(c, k)
  BY <1>4, SettledMined
<1>6. cycle[c].status # "COMPLETE"
  BY <1>5 DEF Sound, AloneParts, AloneDoc
<1>7. cycle[c].status # "none"
  <2>1. tx[c][k] # <<>>
    BY <1>3
  <2>2. QED
    BY <2>1 DEF Sound, DocInv
<1>8. cycle[c].status # "FAILED"
  BY DEF Sound, Regular
<1>9. QED
  BY <1>3, <1>4, <1>5, <1>6, <1>7, <1>8 DEF InFlight, Open

LEMMA MoneyReverted ==
    ASSUME Sound, OnBase, NEW c \in Cycle, NEW k \in Step, NEW i,
           TxMined(c, k, i, "reverted"), wfair' = wfair
    PROVE  Quiet
<1>1. i \in DOMAIN tx[c][k] /\ tx[c][k][i].status = "pending"
  BY DEF TxMined
<1>2. i = 1 /\ ~Mined(c, k)
  BY <1>1, PendingIs
<1>3. ~Mined(c, k)'
  BY <1>2 DEF TxMined, Mined
<1>4. \A d \in Cycle : Gain(d)' = Gain(d) /\ \A j \in Burn : Spent(d, j)' = Spent(d, j)
  BY <1>2, <1>3, OtherMined DEF TxMined
<1>5. QED
  BY <1>4 DEF Quiet, OnBase, InFlight, Open

\* A mined transaction counts from now on with its amount, and no other does.
LEMMA NewlyMined ==
    ASSUME Sound, NEW c \in Cycle, NEW k \in Step, NEW i, TxMined(c, k, i, "ok")
    PROVE  /\ c \in InFlight /\ ~Settled(c, k)
           /\ \A d \in Cycle : (d # c \/ k # 0) => Gain(d)' = Gain(d)
           /\ \A d \in Cycle, j \in Burn : (d # c \/ j # k) => Spent(d, j)' = Spent(d, j)
           /\ k = 0 => Gain(c) = 0 /\ Gain(c)' = Rate * tx[c][k][i].amount
           /\ k # 0 => Spent(c, k) = 0 /\ Spent(c, k)' = tx[c][k][i].amount
<1>1. i \in DOMAIN tx[c][k] /\ tx[c][k][i].status = "pending"
  BY DEF TxMined
<1>2. i = 1 /\ Len(tx[c][k]) = 1 /\ ~Mined(c, k) /\ c \in InFlight /\ ~Settled(c, k)
  BY <1>1, PendingIs
<1>3. Mined(c, k)' /\ tx'[c][k][1].amount = tx[c][k][i].amount
  BY <1>2 DEF TxMined, Mined
<1>4. ASSUME NEW d \in Cycle, NEW j \in Step, d # c \/ j # k
      PROVE  Mined(d, j)' = Mined(d, j) /\ tx'[d][j] = tx[d][j]
  BY <1>4 DEF TxMined, Mined
<1>5. 0 \in Step /\ \A j \in Burn : j \in Step
  BY DEF Step, Burn
<1>6. ASSUME NEW d \in Cycle, d # c \/ k # 0 PROVE Gain(d)' = Gain(d)
  BY <1>4, <1>5, <1>6 DEF Gain
<1>7. ASSUME NEW d \in Cycle, NEW j \in Burn, d # c \/ j # k PROVE Spent(d, j)' = Spent(d, j)
  BY <1>4, <1>5, <1>7 DEF Spent
<1>8. k = 0 => Gain(c) = 0 /\ Gain(c)' = Rate * tx[c][k][i].amount
  BY <1>2, <1>3 DEF Gain
<1>9. k # 0 => Spent(c, k) = 0 /\ Spent(c, k)' = tx[c][k][i].amount
  BY <1>2, <1>3 DEF Spent
<1>10. QED
  BY <1>2, <1>6, <1>7, <1>8, <1>9

LEMMA MoneySwapMined ==
    ASSUME Sound, OnBase, NEW c \in Cycle, NEW i, TxMined(c, 0, i, "ok"),
           wfair' = wfair + Rate * tx[c][0][i].amount
    PROVE  MoneyParts'
<1>1. /\ c \in InFlight /\ ~Settled(c, 0)
      /\ \A d \in Cycle : d # c => Gain(d)' = Gain(d)
      /\ \A d \in Cycle, j \in Burn : Spent(d, j)' = Spent(d, j)
      /\ Gain(c) = 0 /\ Gain(c)' = Rate * tx[c][0][i].amount
  <2>1. 0 \in Step /\ \A j \in Burn : j # 0
    BY DEF Step, Burn
  <2>2. QED
    BY <2>1, NewlyMined
<1>2. cycle' = cycle /\ t' = t /\ InFlight' = InFlight
  BY DEF OnBase, InFlight, Open
<1>3. \A d \in InFlight : d = c
  BY <1>1, OneInFlight
<1>4. wfair + Spent(c, 1) + Spent(c, 2) + Spent(c, 3) = 0
  BY <1>1 DEF Sound, MoneyParts
<1>5. wfair' + Spent(c, 1)' + Spent(c, 2)' + Spent(c, 3)' = Gain(c)'
  <2>1. /\ 1 \in Burn /\ 2 \in Burn /\ 3 \in Burn /\ TypeOK
    BY DEF Burn, Sound
  <2>2. PICK w \in Nat, x \in Nat, y \in Nat, z \in Nat :
           w = wfair /\ x = Spent(c, 1) /\ y = Spent(c, 2) /\ z = Spent(c, 3)
    BY <2>1, MoneyTypes
  <2>3. w = 0 /\ x = 0 /\ y = 0 /\ z = 0
    <3>1. w + x + y + z = 0
      BY <1>4, <2>2
    <3>2. QED
      BY <3>1
  <2>4. PICK g : g = Rate * tx[c][0][i].amount
    OBVIOUS
  <2>5. wfair' = 0 + g /\ Spent(c, 1)' = 0 /\ Spent(c, 2)' = 0 /\ Spent(c, 3)' = 0
        /\ Gain(c)' = g
    BY <1>1, <2>1, <2>2, <2>3, <2>4
  <2>6. g \in Nat
    <3>1. tx[c][0] \in Seq(Transaction) /\ i \in DOMAIN tx[c][0]
      BY <2>1, Lengths DEF TxMined, Step
    <3>2. tx[c][0][i] \in Transaction
      BY <3>1
    <3>3. tx[c][0][i].amount \in Nat
      BY <3>2 DEF Transaction
    <3>4. QED
      BY <2>4, <3>3, Facts
  <2>7. QED
    BY <2>5, <2>6
<1>6. cycle[c].acquired = Null
  BY <1>1 DEF Sound, AloneParts, AloneDoc
<1>7. \A d \in Cycle : cycle'[d].acquired # Null => cycle'[d].acquired = Gain(d)'
  BY <1>1, <1>2, <1>6 DEF Sound, MoneyParts
<1>8. \A r \in Runners : t'[r].fresh => t'[r].before = 0
  BY <1>2 DEF Sound, MoneyParts
<1>9. QED
  BY <1>1, <1>2, <1>3, <1>5, <1>7, <1>8 DEF MoneyParts

LEMMA MoneyBurnMined ==
    ASSUME Sound, OnBase, NEW c \in Cycle, NEW k \in Burn, NEW i, TxMined(c, k, i, "ok"),
           wfair' = wfair - tx[c][k][i].amount
    PROVE  MoneyParts'
<1>0. k \in Step /\ k # 0
  BY DEF Step, Burn
<1>1. PICK a : a = tx[c][k][i].amount
  OBVIOUS
<1>2. /\ c \in InFlight
      /\ \A d \in Cycle : Gain(d)' = Gain(d)
      /\ \A j \in Burn : j # k => Spent(c, j)' = Spent(c, j)
      /\ Spent(c, k) = 0 /\ Spent(c, k)' = a
  BY <1>0, <1>1, NewlyMined
<1>3. cycle' = cycle /\ t' = t /\ InFlight' = InFlight
  BY DEF OnBase, InFlight, Open
<1>4. \A d \in InFlight : d = c
  BY <1>2, OneInFlight
<1>5. wfair' + Spent(c, 1)' + Spent(c, 2)' + Spent(c, 3)' = Gain(c)'
  <2>1. a \in Nat
    <3>1. tx[c][k] \in Seq(Transaction) /\ i \in DOMAIN tx[c][k]
      BY <1>0, Lengths DEF TxMined, Sound
    <3>2. tx[c][k][i] \in Transaction
      BY <3>1
    <3>3. QED
      BY <1>1, <3>2 DEF Transaction
  <2>2. 1 \in Burn /\ 2 \in Burn /\ 3 \in Burn /\ (k = 1 \/ k = 2 \/ k = 3)
    BY DEF Burn
  <2>3. PICK w \in Nat, x \in Nat, y \in Nat, z \in Nat, g \in Nat :
           /\ w = wfair /\ x = Spent(c, 1) /\ y = Spent(c, 2) /\ z = Spent(c, 3)
           /\ g = Gain(c)
    BY MoneyTypes DEF Sound
  <2>4. w + x + y + z = g
    BY <1>2, <2>3 DEF Sound, MoneyParts
  <2>5. wfair' = w - a /\ Gain(c)' = g
    BY <1>1, <1>2, <2>3
  <2>6. CASE k = 1
    <3>1. x = 0 /\ Spent(c, 1)' = a /\ Spent(c, 2)' = y /\ Spent(c, 3)' = z
      BY <1>2, <2>2, <2>3, <2>6
    <3>2. (w - a) + a + y + z = g
      BY <2>1, <2>4, <3>1
    <3>3. QED
      BY <2>5, <3>1, <3>2
  <2>7. CASE k = 2
    <3>1. y = 0 /\ Spent(c, 2)' = a /\ Spent(c, 1)' = x /\ Spent(c, 3)' = z
      BY <1>2, <2>2, <2>3, <2>7
    <3>2. (w - a) + x + a + z = g
      BY <2>1, <2>4, <3>1
    <3>3. QED
      BY <2>5, <3>1, <3>2
  <2>8. CASE k = 3
    <3>1. z = 0 /\ Spent(c, 3)' = a /\ Spent(c, 1)' = x /\ Spent(c, 2)' = y
      BY <1>2, <2>2, <2>3, <2>8
    <3>2. (w - a) + x + y + a = g
      BY <2>1, <2>4, <3>1
    <3>3. QED
      BY <2>5, <3>1, <3>2
  <2>9. QED
    BY <2>2, <2>6, <2>7, <2>8
<1>6. \A d \in Cycle : cycle'[d].acquired # Null => cycle'[d].acquired = Gain(d)'
  BY <1>2, <1>3 DEF Sound, MoneyParts
<1>7. \A r \in Runners : t'[r].fresh => t'[r].before = 0
  BY <1>3 DEF Sound, MoneyParts
<1>8. QED
  BY <1>2, <1>3, <1>4, <1>5, <1>6, <1>7 DEF MoneyParts

LEMMA MoneyBase ==
    ASSUME Sound, BaseStep
    PROVE  MoneyParts'
<1>1. TypeOK /\ MoneyParts
  BY DEF Sound
<1>2. ASSUME OnBase, Quiet PROVE MoneyParts'
  <2>1. Fresh
    BY <1>1, <1>2 DEF Fresh, MoneyParts, OnBase
  <2>2. QED
    BY <1>1, <1>2, <2>1, QuietMoney
<1>3. ASSUME NEW c \in Cycle, NEW k \in Step, Mine(c, k) PROVE MoneyParts'
  <2>1. OnBase
    BY <1>1, <1>3, MineFx
  <2>2. PICK i \in DOMAIN tx[c][k] :
           \/ TxMined(c, k, i, "reverted") /\ wfair' = wfair
           \/ /\ TxMined(c, k, i, "ok")
              /\ k = 0 => wfair' = wfair + Rate * tx[c][0][i].amount
              /\ k # 0 => wfair' = wfair - tx[c][k][i].amount
    BY <1>1, <1>3, MineFx
  <2>3. CASE TxMined(c, k, i, "reverted") /\ wfair' = wfair
    BY <1>2, <2>1, <2>3, MoneyReverted
  <2>4. CASE k = 0 /\ TxMined(c, k, i, "ok") /\ wfair' = wfair + Rate * tx[c][0][i].amount
    BY <2>1, <2>4, MoneySwapMined
  <2>5. CASE k # 0 /\ TxMined(c, k, i, "ok") /\ wfair' = wfair - tx[c][k][i].amount
    <3>1. k \in Burn
      BY <2>5 DEF Step, Burn
    <3>2. QED
      BY <2>1, <2>5, <3>1, MoneyBurnMined
  <2>6. QED
    BY <2>2, <2>3, <2>4, <2>5
<1>4. ASSUME NEW c \in Cycle, NEW k \in Step, NEW i \in DOMAIN tx[c][k], MineReverted(c, k, i)
      PROVE  MoneyParts'
  <2>1. OnBase /\ TxMined(c, k, i, "reverted") /\ wfair' = wfair
    BY <1>1, <1>4, MineRevertedFx
  <2>2. QED
    BY <1>2, <2>1, MoneyReverted
<1>5. CASE ReceiveUsdc
  <2>1. OnBase /\ tx' = tx /\ wfair' = wfair
    BY <1>1, <1>5, ReceiveUsdcFx
  <2>2. Quiet
    BY <2>1, SameMined DEF Quiet, OnBase, InFlight, Open
  <2>3. QED
    BY <1>2, <2>1, <2>2
<1>6. QED
  BY <1>3, <1>4, <1>5 DEF BaseStep

LEMMA MoneyProcess ==
    ASSUME Sound, ProcessStep, DownInv
    PROVE  MoneyParts'
<1>1. TypeOK /\ MoneyParts
  BY DEF Sound
<1>2. NoTicks /\ cycle' = cycle /\ tx' = tx /\ wfair' = wfair
  BY <1>1, ProcessIs
<1>3. Quiet
  BY <1>2, SameMined DEF Quiet, InFlight, Open
<1>4. Fresh
  BY <1>2 DEF Fresh, NoTicks
<1>5. QED
  BY <1>1, <1>3, <1>4, QuietMoney

LEMMA MoneyTick ==
    ASSUME Sound, NEW r \in Runners, TickInv(r), TickMove(r), Regular'
    PROVE  MoneyParts'
<1>1. TypeOK
  BY DEF Sound
<1>2. ~AwaitReverted(r)
  <2>1. ASSUME AwaitReverted(r) PROVE FALSE
    <3>1. In(r, "await") /\ Writes(t[r].c, "FAILED", cycle[t[r].c].acquired)
      BY <1>1, <2>1, AwaitRevertedFx
    <3>2. t[r].c \in Cycle
      BY <3>1 DEF TickInv, In, Working
    <3>3. QED
      BY <3>1, <3>2 DEF Writes, Regular
  <2>2. QED
    BY <2>1
<1>3. QED
  BY <1>2, MoneyReads, MoneySend, MoneyBefore, MoneyCreate, MoneyAwaitSwap, MoneyComplete
     DEF TickMove, PlainStep

-----------------------------------------------------------------------------
(***************************************************************************)
(* The invariant, and what it says of the properties of Buyback.           *)
(***************************************************************************)
LEMMA InitInv ==
    ASSUME Init
    PROVE  IInv
<1> DEFINE empty == [k \in Step |-> <<>>]
           zero == [k \in Step |-> 0]
           null == [k \in Burn |-> Null]
<1>1. TypeOK
  <2>1. /\ empty \in [Step -> Seq(Transaction)] /\ zero \in [Step -> Nat]
        /\ null \in [Burn -> Nat \union {Null}]
    OBVIOUS
  <2>2. NoCycle = [status |-> "none", usdc |-> 0, acquired |-> Null, hash |-> zero,
                   amount |-> null]
    BY DEF NoCycle
  <2>3. cycle = [c \in Cycle |-> NoCycle] /\ tx = [c \in Cycle |-> empty]
        /\ lost = [c \in Cycle |-> zero] /\ t = [r \in Runners |-> Idle]
    BY DEF Init
  <2> HIDE DEF empty, zero, null
  <2>4. NoCycle \in CycleDoc
    BY <2>1, <2>2 DEF CycleDoc, CycleStatus
  <2>5. /\ cycle \in [Cycle -> CycleDoc] /\ tx \in [Cycle -> [Step -> Seq(Transaction)]]
        /\ lost \in [Cycle -> [Step -> Nat]] /\ t \in [Runners -> TickState]
    BY <2>1, <2>3, <2>4, IdleIs
  <2>6. /\ usdc = 0 /\ wfair = 0 /\ allowance = 0 /\ incomes = 0 /\ up = TRUE /\ upsets = 0
        /\ overlaps = 0
    BY DEF Init
  <2>7. incomes \in 0..MaxIncome /\ upsets \in 0..MaxUpsets /\ overlaps \in 0..MaxOverlaps
    BY <2>6, Facts
  <2>8. QED
    BY <2>5, <2>6, <2>7 DEF TypeOK
<1>2. \A c \in Cycle : /\ cycle[c].status = "none" /\ cycle[c].acquired = Null
                       /\ \A k \in Step : /\ cycle[c].hash[k] = 0 /\ tx[c][k] = <<>>
                                          /\ lost[c][k] = 0
  BY DEF Init, NoCycle
<1>3. \A r \in Runners : t[r].pc = "idle" /\ t[r].fresh = FALSE
  BY IdleIs DEF Init
<1>4. up = TRUE /\ overlaps = 0 /\ wfair = 0
  BY DEF Init
<1>5. /\ Ticking = {} /\ Creating = {} /\ Worked = {} /\ InFlight = {}
      /\ \A c \in Cycle, k \in Step : Hand(c, k) = {} /\ Senders(c, k) = {}
  BY <1>2, <1>3 DEF Ticking, Creating, Worked, InFlight, Open, Hand, Holds, Senders, Sends,
     Works, Working, Running, In
<1>6. Cardinality({}) = 0
  BY FS_EmptySet
<1>7. \A r \in Runners : TickInv(r)
  BY <1>3 DEF TickInv, Working, In
<1>8. \A c \in Cycle : DocInv(c)
  <2>1. ASSUME NEW c \in Cycle, NEW k \in Step PROVE cycle[c].hash[k] <= Len(tx[c][k])
    <3>1. cycle[c].hash[k] = 0 /\ tx[c][k] = <<>>
      BY <1>2
    <3>2. Len(tx[c][k]) = 0
      BY <3>1
    <3>3. QED
      BY <3>1, <3>2
  <2>2. QED
    BY <1>2, <2>1 DEF DocInv
<1>9. \A c \in Cycle, k \in Step : CountInv(c, k)
  <2>1. Counted(0, 0, 0, 0, 0, 0)
    BY DEF Counted
  <2>2. ASSUME NEW c \in Cycle, NEW k \in Step PROVE CountInv(c, k)
    <3>1. Len(tx[c][k]) = 0
      <4>1. tx[c][k] = <<>>
        BY <1>2
      <4>2. QED
        BY <4>1
    <3>2. OnFile(c, k) = 0 /\ lost[c][k] = 0
      BY <1>2 DEF OnFile
    <3>3. Cardinality(Hand(c, k)) = 0 /\ Cardinality(Senders(c, k)) = 0
      BY <1>5, <1>6
    <3>4. QED
      BY <1>4, <2>1, <3>1, <3>2, <3>3 DEF CountInv
  <2>3. QED
    BY <2>2
<1>10. DownInv /\ RunInv /\ OpenInv
  <2>1. 0 <= 1 + 0 /\ 0 + 0 <= 1 + 0
    OBVIOUS
  <2>2. InFlight \union Worked = {}
    BY <1>5
  <2>3. QED
    BY <1>4, <1>5, <1>6, <2>1, <2>2 DEF DownInv, RunInv, OpenInv
<1>11. RoomInv
  BY <1>5, <1>6, OpenSets DEF RoomInv
<1>12. AloneInv
  <2>1. \A r \in Runners : AloneTick(r)
    BY <1>3 DEF AloneTick, Working
  <2>2. \A k \in Burn : k \in Step
    BY DEF Burn, Step
  <2>3. \A c \in Cycle : AloneDoc(c)
    BY <1>2, <2>2 DEF AloneDoc
  <2>4. QED
    BY <2>1, <2>3 DEF AloneInv
<1>13. MoneyInv
  BY <1>2, <1>3, <1>4, <1>5 DEF MoneyInv
<1>14. QED
  BY <1>1, <1>7, <1>8, <1>9, <1>10, <1>11, <1>12, <1>13 DEF IInv

LEMMA SoundIs ==
    ASSUME IInv, Regular
    PROVE  Sound
BY DEF IInv, Regular, AloneInv, AloneParts, MoneyInv, MoneyParts, Sound

\* A tick keeps the invariant.
LEMMA TickInvariant ==
    ASSUME IInv, NEW r \in Runners, TickMove(r)
    PROVE  IInv'
<1>1. /\ TypeOK /\ TickInv(r) /\ (\A q \in Runners : TickInv(q)) /\ (\A c \in Cycle : DocInv(c))
      /\ (\A c \in Cycle, k \in Step : CountInv(c, k))
      /\ DownInv /\ RunInv /\ OpenInv /\ RoomInv /\ AloneInv
  BY DEF IInv
<1>2. /\ TypeOK' /\ OnlyTick(r) /\ TickInv(r)' /\ Forward
      /\ \A c \in Cycle : DocInv(c)'
      /\ \A c \in Cycle, k \in Step : CountInv(c, k)'
  <2>1. CASE PlainStep(r)
    <3>1. TypeOK' /\ Plain(r) /\ TickInv(r)'
      BY <1>1, <2>1, PlainIs
    <3>2. OnlyTick(r) /\ Forward
      BY <3>1 DEF Plain, Forward
    <3>3. QED
      BY <1>1, <3>1, <3>2, PlainDoc, PlainCount
  <2>2. CASE SendStep(r)
    BY <1>1, <2>2, SendIs, SendKeeps, SendCount
  <2>3. CASE RecordStep(r)
    BY <1>1, <2>3, RecordIs, RecordKeeps, RecordCount
  <2>4. QED
    BY <2>1, <2>2, <2>3 DEF TickMove
<1>3. \A q \in Runners : TickInv(q)'
  <2>1. ASSUME NEW q \in Runners, q # r PROVE TickInv(q)'
    <3>1. t'[q] = t[q]
      BY <1>2, <2>1 DEF OnlyTick
    <3>2. QED
      BY <1>1, <1>2, <3>1, TickKept
  <2>2. QED
    BY <1>2, <2>1
<1>4. DownInv' /\ RunInv' /\ OpenInv' /\ RoomInv'
  BY <1>1, <1>2, MoveDown, MoveRun, MoveOpen
<1>5. AloneInv'
  BY <1>1, <1>2, AloneMove
<1>6. MoneyInv'
  <2>1. SUFFICES ASSUME Regular' PROVE MoneyParts'
    BY DEF MoneyInv, MoneyParts
  <2>2. Alone
    BY <1>1, <1>2, <2>1, Rests DEF Regular
  <2>3. Lasting
    <3>1. AloneTick(r)
      BY <1>1, <2>2 DEF AloneInv
    <3>2. QED
      BY <1>1, <3>1, MoveLasts
  <2>4. Sound
    BY <2>1, <2>2, <2>3, RegularBack, SoundIs
  <2>5. QED
    BY <1>1, <2>1, <2>4, MoneyTick
<1>7. QED
  BY <1>2, <1>3, <1>4, <1>5, <1>6 DEF IInv

LEMMA BaseInvariant ==
    ASSUME IInv, BaseStep
    PROVE  IInv'
<1>1. /\ TypeOK /\ (\A q \in Runners : TickInv(q)) /\ (\A c \in Cycle : DocInv(c))
      /\ (\A c \in Cycle, k \in Step : CountInv(c, k))
      /\ DownInv /\ RunInv /\ OpenInv /\ RoomInv /\ AloneInv
  BY DEF IInv
<1>2. TypeOK' /\ OnBase
  BY <1>1, BaseIs
<1>3. /\ \A r \in Runners : TickInv(r)'
      /\ \A c \in Cycle : DocInv(c)'
      /\ \A c \in Cycle, k \in Step : CountInv(c, k)'
  BY <1>1, BaseKeeps
<1>4. DownInv' /\ RunInv' /\ OpenInv' /\ RoomInv'
  <2>1. /\ Ticking' = Ticking /\ Creating' = Creating /\ Worked' = Worked
        /\ InFlight' = InFlight /\ Free' = Free /\ overlaps' = overlaps /\ up' = up /\ t' = t
    BY <1>2, BaseSets DEF OnBase
  <2>2. QED
    BY <1>1, <2>1 DEF DownInv, RunInv, OpenInv, RoomInv, In
<1>5. AloneInv'
  BY <1>1, AloneBase
<1>6. MoneyInv'
  <2>1. SUFFICES ASSUME Regular' PROVE MoneyParts'
    BY DEF MoneyInv, MoneyParts
  <2>2. Regular
    BY <1>2, <2>1 DEF OnBase, Regular, Alone, NothingLost
  <2>3. QED
    BY <2>2, SoundIs, MoneyBase
<1>7. QED
  BY <1>2, <1>3, <1>4, <1>5, <1>6 DEF IInv

LEMMA ProcessInvariant ==
    ASSUME IInv, ProcessStep
    PROVE  IInv'
<1>1. /\ TypeOK /\ (\A c \in Cycle : DocInv(c)) /\ (\A c \in Cycle, k \in Step : CountInv(c, k))
      /\ DownInv /\ OpenInv /\ RoomInv /\ AloneInv
  BY DEF IInv
<1>2. /\ TypeOK' /\ DownInv' /\ cycle' = cycle /\ overlaps' = overlaps
      /\ \A c \in Cycle, k \in Step : lost'[c][k] = lost[c][k] + Cardinality(Hand(c, k))
  BY <1>1, ProcessIs
<1>3. /\ \A r \in Runners : TickInv(r)'
      /\ \A c \in Cycle : DocInv(c)'
      /\ \A c \in Cycle, k \in Step : CountInv(c, k)'
      /\ RunInv' /\ OpenInv' /\ RoomInv'
  BY <1>1, ProcessKeeps
<1>4. AloneInv'
  BY <1>1, AloneProcess
<1>5. MoneyInv'
  <2>1. SUFFICES ASSUME Regular' PROVE MoneyParts'
    BY DEF MoneyInv, MoneyParts
  <2>2. NothingLost
    <3>1. ASSUME NEW c \in Cycle, NEW k \in Step PROVE lost[c][k] = 0
      <4>1. PICK h \in Nat, l \in Nat : h = Cardinality(Hand(c, k)) /\ l = lost[c][k]
        BY <1>1, HandIs, Lengths
      <4>2. l + h = 0
        BY <1>2, <2>1, <4>1 DEF Regular, NothingLost
      <4>3. l = 0
        BY <4>2
      <4>4. QED
        BY <4>1, <4>3
    <3>2. QED
      BY <3>1 DEF NothingLost
  <2>3. Regular
    BY <1>2, <2>1, <2>2 DEF Regular, Alone
  <2>4. QED
    BY <1>1, <2>3, SoundIs, MoneyProcess
<1>6. QED
  BY <1>2, <1>3, <1>4, <1>5 DEF IInv

LEMMA NextInv ==
    ASSUME IInv, [Next]_vars
    PROVE  IInv'
<1>1. CASE Next
  <2>1. \/ \E r \in Runners : TickMove(r)
        \/ BaseStep
        \/ ProcessStep
    BY <1>1 DEF Next, TickStep, TickMove, PlainStep, SendStep, RecordStep, BaseStep, ProcessStep
  <2>2. QED
    BY <2>1, TickInvariant, BaseInvariant, ProcessInvariant
<1>2. CASE UNCHANGED vars
  <2>1. /\ cycle' = cycle /\ tx' = tx /\ wfair' = wfair /\ usdc' = usdc
        /\ allowance' = allowance /\ incomes' = incomes /\ up' = up /\ t' = t
        /\ lost' = lost /\ upsets' = upsets /\ overlaps' = overlaps
    BY <1>2 DEF vars, chain
  <2>2. TypeOK' = TypeOK
    BY <2>1 DEF TypeOK
  <2>3. \A r \in Runners : TickInv(r)' = TickInv(r)
    BY <2>1 DEF TickInv, In
  <2>4. \A c \in Cycle : DocInv(c)' = DocInv(c)
    BY <2>1 DEF DocInv
  <2>5. /\ \A c \in Cycle, k \in Step : Hand(c, k)' = Hand(c, k) /\ Senders(c, k)' = Senders(c, k)
        /\ Ticking' = Ticking /\ Creating' = Creating /\ Worked' = Worked
        /\ InFlight' = InFlight /\ Free' = Free
    BY <2>1, BaseSets DEF OnBase
  <2>6. \A c \in Cycle, k \in Step : CountInv(c, k)' = CountInv(c, k)
    BY <2>1, <2>5 DEF CountInv, OnFile
  <2>7. DownInv' = DownInv /\ RunInv' = RunInv /\ OpenInv' = OpenInv /\ RoomInv' = RoomInv
    BY <2>1, <2>5 DEF DownInv, RunInv, OpenInv, RoomInv, In
  <2>8. AloneInv' = AloneInv
    BY <2>1 DEF AloneInv, Alone, AloneTick, AloneDoc, Settled, Open, In
  <2>9. MoneyInv' = MoneyInv
    BY <2>1, <2>5 DEF MoneyInv, Regular, Alone, NothingLost, Gain, Spent, Mined
  <2>10. QED
    BY <2>2, <2>3, <2>4, <2>6, <2>7, <2>8, <2>9 DEF IInv
<1>3. QED
  BY <1>1, <1>2

\* Buybacks keep their inductive invariant: what is on file, in hand and forgotten
\* of each step (workers/buyback-worker.ts), however many ticks overlap.
THEOREM Invariance == Spec => []IInv
<1>1. Init => IInv
  BY InitInv
<1>2. IInv /\ [Next]_vars => IInv'
  BY NextInv
<1>3. QED
  BY <1>1, <1>2, PTL DEF Spec

\* Documents, transactions and ticks of workers/buyback-worker.ts have their types.
THEOREM TypeCorrect == Spec => []TypeOK
<1>1. IInv => TypeOK
  BY DEF IInv
<1>2. QED
  BY <1>1, Invariance, PTL

\* Every transaction sent by runSwapStep and runBurnStep is on file, in the hand of
\* a tick, forgotten by a failure, or one more of a tick that overlapped.
THEOREM TxsAreAccountedFor == Spec => []TxsAccountedFor
<1>1. ASSUME IInv PROVE TxsAccountedFor
  <2>1. ASSUME NEW c \in Cycle, NEW k \in Step
        PROVE  Len(tx[c][k]) - (lost[c][k] + HandHeld(c, k) + OnFile(c, k)) \in 0..overlaps
    <3>1. TypeOK /\ CountInv(c, k)
      BY <1>1 DEF IInv
    <3>2. PICK n \in Nat, l \in Nat, h \in Nat, s \in Nat, o \in Nat :
             /\ n = Len(tx[c][k]) /\ l = lost[c][k] /\ h = Cardinality(Hand(c, k))
             /\ s = Cardinality(Senders(c, k)) /\ o = overlaps
      <4>1. Cardinality(Senders(c, k)) \in Nat /\ Cardinality(Hand(c, k)) \in Nat
        BY Facts, FS_Subset, FS_CardinalityType DEF Senders, Hand
      <4>2. QED
        BY <3>1, <4>1, Lengths
    <3>3. h = HandHeld(c, k)
      BY <3>2, HandIs
    <3>4. PICK f \in {0, 1} : f = OnFile(c, k)
      BY DEF OnFile
    <3>5. Counted(n, f, l, h, s, o)
      BY <3>1, <3>2, <3>4 DEF CountInv
    <3>6. n - (l + h + f) \in 0..o
      BY <3>5 DEF Counted
    <3>7. QED
      BY <3>2, <3>3, <3>4, <3>6
  <2>2. QED
    BY <2>1 DEF TxsAccountedFor
<1>2. QED
  BY <1>1, Invariance, PTL

\* claimOrLoadInFlightCycle leaves one cycle open, and one more for each tick that
\* overlapped another.
THEOREM OneCycleIsOpen == Spec => []OneOpenCycle
<1>1. ASSUME IInv PROVE OneOpenCycle
  <2>1. InFlight \in SUBSET (InFlight \union Worked)
    OBVIOUS
  <2>2. /\ Cardinality(InFlight) \in Nat
        /\ Cardinality(InFlight) <= Cardinality(InFlight \union Worked)
    BY <2>1, OpenSets, FS_Subset, FS_CardinalityType
  <2>3. PICK a \in Nat, b \in Nat, m \in Nat, o \in Nat :
           /\ a = Cardinality(InFlight) /\ b = Cardinality(InFlight \union Worked)
           /\ m = Cardinality(Creating) /\ o = overlaps
    BY <1>1, <2>2, OpenSets, Facts DEF IInv, TypeOK
  <2>4. b + m <= 1 + o
    BY <1>1, <2>3 DEF IInv, OpenInv
  <2>5. a <= 1 + o
    BY <2>2, <2>3, <2>4
  <2>6. QED
    BY <2>3, <2>5 DEF OneOpenCycle, InFlight
<1>2. QED
  BY <1>1, Invariance, PTL

\* The amounts of the three burns, added up.
LEMMA BurnsSum ==
    ASSUME NEW a, \A k \in Burn : a[k] \in Nat
    PROVE  Total(a, Burn) = a[1] + a[2] + a[3]
<1>1. IsFiniteSet({}) /\ IsFiniteSet({1}) /\ IsFiniteSet({1, 2}) /\ IsFiniteSet({1, 2, 3})
  BY FS_EmptySet, FS_AddElement
<1>2. /\ {1} \ {1} = {} /\ {1, 2} \ {2} = {1} /\ {1, 2, 3} \ {3} = {1, 2}
      /\ Burn = {1, 2, 3}
  BY DEF Burn
<1>3. a[1] \in Int /\ a[2] \in Int /\ a[3] \in Int
  BY <1>2
<1>4. \A k \in {1, 2, 3} : a[k] \in Int
  BY <1>3
<1>5. Total(a, {1, 2, 3}) = a[3] + Total(a, {1, 2})
  BY <1>1, <1>2, <1>4, TotalRemove
<1>6. Total(a, {1, 2}) = a[2] + Total(a, {1})
  BY <1>1, <1>2, <1>3, TotalRemove
<1>7. Total(a, {1}) = a[1] + Total(a, {})
  BY <1>1, <1>2, <1>3, TotalRemove
<1>8. QED
  BY <1>2, <1>3, <1>5, <1>6, <1>7, TotalEmpty

\* When CompleteCycle writes COMPLETE the four side-effects are confirmed, and the
\* burns add up to the proceeds that runSwapStep filed.
THEOREM CompleteIsDistributed == Spec => []CompleteMeansDistributed
<1>1. ASSUME IInv PROVE CompleteMeansDistributed
  <2>1. SUFFICES ASSUME Alone, NEW c \in Cycle, cycle[c].status = "COMPLETE"
                 PROVE  /\ \A k \in Step : /\ OnFile(c, k) = 1
                                           /\ tx[c][k][cycle[c].hash[k]].status = "ok"
                        /\ MapThenSumSet(LAMBDA k : tx[c][k][cycle[c].hash[k]].amount, Burn)
                              = cycle[c].acquired
    BY DEF CompleteMeansDistributed
  <2>2. TypeOK /\ AloneDoc(c) /\ \A k \in Step : Settled(c, k)
    BY <1>1, <2>1 DEF IInv, AloneInv, AloneDoc
  <2>3. \A k \in Step : OnFile(c, k) = 1 /\ tx[c][k][cycle[c].hash[k]].status = "ok"
    BY <2>2 DEF Settled, OnFile
  <2>4. 1 \in Burn /\ 2 \in Burn /\ 3 \in Burn /\ \A k \in Burn : k \in Step
    BY DEF Burn, Step
  <2>5. PICK n \in Nat : n = cycle[c].acquired
    <3>1. cycle[c].hash[1] # 0
      BY <2>2, <2>4 DEF Settled
    <3>2. cycle[c].acquired # Null
      BY <2>2, <2>4, <3>1 DEF AloneDoc
    <3>3. QED
      BY <2>2, <3>2 DEF TypeOK, CycleDoc
  <2>6. \A k \in Burn : tx[c][k][cycle[c].hash[k]].amount = Share(n, k)
    BY <2>2, <2>4, <2>5 DEF AloneDoc, Settled
  <2> DEFINE a == [k \in Burn |-> tx[c][k][cycle[c].hash[k]].amount]
  <2>7. /\ \A k \in Burn : a[k] \in Nat
        /\ a[1] + a[2] + a[3] = n
    BY <2>4, <2>6, Shares
  <2>8. MapThenSumSet(LAMBDA k : tx[c][k][cycle[c].hash[k]].amount, Burn) = Total(a, Burn)
    <3>1. Total([k \in Burn |-> tx[c][k][cycle[c].hash[k]].amount], Burn)
            = MapThenSumSet(LAMBDA k : tx[c][k][cycle[c].hash[k]].amount, Burn)
      BY ZenonT(60) DEF Total, MapThenSumSet, MapThenFoldSet
    <3>2. QED
      BY <3>1
  <2> HIDE DEF a
  <2>9. Total(a, Burn) = a[1] + a[2] + a[3]
    BY <2>7, BurnsSum
  <2>10. MapThenSumSet(LAMBDA k : tx[c][k][cycle[c].hash[k]].amount, Burn) = cycle[c].acquired
    BY <2>5, <2>7, <2>8, <2>9
  <2>11. QED
    BY <2>3, <2>10
<1>2. QED
  BY <1>1, Invariance, PTL

\* Between cycles the account holds no WFAIR: splitByBps leaves nothing of what
\* runSwapStep filed, and that is what the swap brought.
THEOREM NothingIsLeft == Spec => []NoWfairLeft
<1>1. ASSUME IInv PROVE NoWfairLeft
  <2>1. SUFFICES ASSUME Alone, NothingLost,
                        \A c \in Cycle : cycle[c].status \in {"none", "COMPLETE"}
                 PROVE  wfair = 0
    BY DEF NoWfairLeft
  <2>2. Regular /\ InFlight = {}
    BY <2>1 DEF Regular, InFlight, Open
  <2>3. QED
    BY <1>1, <2>2 DEF IInv, MoneyInv
<1>2. QED
  BY <1>1, Invariance, PTL
=============================================================================
