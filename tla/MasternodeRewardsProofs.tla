----------------------- MODULE MasternodeRewardsProofs ------------------------
(***************************************************************************)
(* Proofs about MasternodeRewards, for any number of masternodes, cycles   *)
(* and runners, any fee, minimum, incomes and faults.                      *)
(***************************************************************************)
EXTENDS MasternodeRewards, BridgeLemmas

-----------------------------------------------------------------------------
(***************************************************************************)
(* The inductive invariant.  Its first part holds however ticks overlap.   *)
(***************************************************************************)

\* The places of a tick inside executeCycle, and those where it has a cycle.
Paying == {"pay", "record", "mark", "fail"}
Working == Paying \union {"fetch"}

Ticking == {r \in Runners : Running(r)}
Creating == {r \in Runners : t[r].pc \in {"read", "create"}}

Listed(c) == {n \in Node : cycle[c].payouts[n].status # "none"}

\* The ticks that hold an unfiled txid of payout n of c, and those that will send
\* it whatever is on file.
Hand(c, n) == {r \in Runners : Holds(r, c, n)}

Sends(r, c, n) ==
    /\ t[r].pc \in Paying /\ t[r].c = c
    /\ n \in t[r].todo /\ t[r].read[n].txid = 0
    /\ In(r, "pay") \/ ~IsNext(r, n)

Senders(c, n) == {r \in Runners : Sends(r, c, n)}

\* What a tick has read of payout n: the list never changes and a txid never goes
\* away; a payout behind the tick has one, unless it was marked FAILED.
ReadInv(r, n) ==
    LET payout == cycle[t[r].c].payouts[n]
    IN  /\ t[r].read[n].status = "none" <=> payout.status = "none"
        /\ t[r].read[n].txid # 0 => payout.txid # 0
        /\ n \in t[r].todo => t[r].read[n].status # "none"
        /\ n \notin t[r].todo /\ payout.status # "none" /\ ~t[r].failed => payout.txid # 0
        /\ In(r, "mark") /\ IsNext(r, n) => payout.txid # 0

TickInv(r) ==
    /\ t[r].pc \in Working => t[r].c \in Cycle /\ cycle[t[r].c].status # "none"
    /\ t[r].pc \in Paying => \A n \in Node : ReadInv(r, n)
    /\ t[r].pc \in {"record", "mark"} => t[r].txid # 0

\* A payment is of a payout that is listed, a cycle not yet stored lists none, and a
\* COMPLETE one has a txid for all it lists; the shares and the fees fit the pool.
DocInv(c) ==
    /\ cycle[c].status = "none" => Listed(c) = {}
    /\ \A n \in Node \ Listed(c) :
          cycle[c].payouts[n].txid = 0 /\ sends[c][n] = 0 /\ lost[c][n] = 0
    /\ cycle[c].status = "COMPLETE" => \A n \in Listed(c) : cycle[c].payouts[n].txid # 0
    /\ (cycle[c].share + PayoutFee) * Cardinality(Listed(c)) <= cycle[c].pool

\* Of a payout with n payments, one on file or none, forgot are forgotten, hand are
\* in the hand of a tick, and send ticks will make one more.  Until a txid is on file
\* every payment is in hand or forgotten; from then on every one more was, or will
\* be, made by one of the over ticks that overlapped.
Counted(n, file, forgot, hand, send, over) ==
    /\ file = 0 => n = forgot + hand
    /\ file = 1 => n >= forgot + hand + 1 /\ n + send <= forgot + 1 + over

CountInv(c, n) ==
    Counted(sends[c][n], OnFile(c, n), lost[c][n], Cardinality(Hand(c, n)),
            Cardinality(Senders(c, n)), overlaps)

\* A process that is down runs no tick.
DownInv == ~up => \A r \in Runners : In(r, "off")

\* One tick runs, and one more for each that overlapped.
RunInv == Cardinality(Ticking) <= 1 + overlaps

\* There is a document for every cycle about to be stored.
RoomInv == Cardinality(Creating) <= Cardinality(Free)

\* As long as no two ticks overlapped, a tick's cycle is open, what is behind the
\* tick is BROADCAST unless it was marked FAILED, and so is all of a COMPLETE cycle.
AloneTick(r) ==
    LET c == t[r].c
    IN  /\ t[r].pc \in Working => cycle[c].status = "PAYING_OUT"
        /\ t[r].pc \in Paying /\ ~t[r].failed =>
              \A n \in Listed(c) \ t[r].todo : cycle[c].payouts[n].status = "BROADCAST"

AloneDoc(c) ==
    cycle[c].status = "COMPLETE" =>
        \A n \in Listed(c) : cycle[c].payouts[n].status = "BROADCAST"

AloneInv == Alone => (\A r \in Runners : AloneTick(r)) /\ (\A c \in Cycle : AloneDoc(c))

IInv ==
    /\ TypeOK
    /\ \A r \in Runners : TickInv(r)
    /\ \A c \in Cycle : DocInv(c)
    /\ \A c \in Cycle, n \in Node : CountInv(c, n)
    /\ DownInv
    /\ RunInv
    /\ RoomInv
    /\ AloneInv

-----------------------------------------------------------------------------
(***************************************************************************)
(* Constants and sets.                                                     *)
(***************************************************************************)
LEMMA Facts ==
    /\ Loop \in Runners /\ IsFiniteSet(Runners)
    /\ NumNodes \in Nat /\ NumCycles \in Nat /\ MinBalance \in Nat /\ PayoutFee \in Nat
    /\ Income \in Nat /\ MaxReceived \in Nat /\ MaxUpsets \in Nat /\ MaxOverlaps \in Nat
    /\ IsFiniteSet(Node) /\ IsFiniteSet(Cycle)
    /\ Node \subseteq Nat /\ Cycle \subseteq Nat
<1>1. NumNodes \in Nat /\ NumCycles \in Nat
  BY RewardAssumption
<1>2. IsFiniteSet(Node) /\ IsFiniteSet(Cycle)
  BY <1>1, FS_Interval DEF Node, Cycle
<1>3. Node \subseteq Nat /\ Cycle \subseteq Nat
  BY <1>1 DEF Node, Cycle
<1>4. QED
  BY <1>2, <1>3, RewardAssumption

\* A share and the fee, for each of count masternodes, fit the pool.
LEMMA ShareFits ==
    ASSUME NEW pool \in Nat, NEW count \in Nat, count > 0
    PROVE  LET share == PerMasternodeSats(pool, count)
           IN  share \in Nat /\ (share > 0 => (share + PayoutFee) * count <= pool)
<1> DEFINE fees == PayoutFee * count
           rest == pool - fees
           share == PerMasternodeSats(pool, count)
<1>1. PayoutFee \in Nat /\ fees \in Nat
  BY Facts
<1>2. CASE pool <= fees
  BY <1>2 DEF PerMasternodeSats
<1>3. CASE ~(pool <= fees)
  <2>1. rest \in Nat /\ pool = rest + fees
    BY <1>1, <1>3
  <2>2. share = rest \div count
    BY <1>3 DEF PerMasternodeSats
  <2> HIDE DEF rest, share
  <2>3. share \in Nat /\ share * count <= rest
    BY <2>1, <2>2
  <2>4. (share + PayoutFee) * count = share * count + fees
    BY <1>1, <2>3
  <2> HIDE DEF fees
  <2>5. share * count \in Nat
    BY <2>3
  <2>6. (share + PayoutFee) * count <= pool
    BY <1>1, <2>1, <2>3, <2>4, <2>5
  <2>7. QED
    BY <2>3, <2>6 DEF share
<1>4. QED
  BY <1>2, <1>3

\* The least payout still to handle is one of the masternodes.
LEMMA OneIsNext ==
    ASSUME NEW r, NEW n \in Node, NEW m \in Node, IsNext(r, n), IsNext(r, m)
    PROVE  n = m
BY Facts DEF IsNext

-----------------------------------------------------------------------------
(***************************************************************************)
(* What each step does, field by field, and that it keeps the types.       *)
(***************************************************************************)

\* The tick of r is the only one that moves.
OnlyTick(r) == \A q \in Runners \ {r} : t'[q] = t[q]

\* The document of c is the only one that changes.
OnlyCycle(c) == \A d \in Cycle \ {c} : cycle'[d] = cycle[d]

\* Neither the node nor the process nor a count changes.
Elsewhere == UNCHANGED <<received, up, sends, lost, overlaps>>

\* The tick handles the same payouts of the same cycle.
SamePayouts(r) ==
    /\ t'[r].c = t[r].c /\ t'[r].read = t[r].read
    /\ t'[r].todo = t[r].todo /\ t'[r].failed = t[r].failed

LEMMA IdleIs ==
    /\ Idle \in TickState /\ Idle.pc = "idle" /\ Idle.failed = FALSE
    /\ Off \in TickState /\ Off.pc = "off"
<1> DEFINE none == [n \in Node |-> NoPayout]
<1>1. NoPayout \in Payout
  BY DEF NoPayout, Payout, PayoutStatus
<1>2. none \in [Node -> Payout] /\ 0 \in 0..NumCycles /\ "idle" \in TickPc /\ "off" \in TickPc
  BY <1>1, Facts DEF TickPc
<1>3. Idle = [pc |-> "idle", c |-> 0, read |-> none, todo |-> {}, txid |-> 0,
              failed |-> FALSE, pool |-> 0, nodes |-> {}]
  BY DEF Idle
<1> HIDE DEF none
<1>4. Idle \in TickState
  BY <1>2, <1>3 DEF TickState
<1>5. Off \in TickState /\ Off.pc = "off"
  BY <1>2, <1>3, <1>4 DEF Off, TickState
<1>6. QED
  BY <1>3, <1>4, <1>5

\* The types of what a tick knows.
LEMMA TickTypes ==
    ASSUME TypeOK, NEW r \in Runners
    PROVE  /\ t[r] \in TickState /\ t[r].pc \in TickPc /\ t[r].c \in 0..NumCycles
           /\ t[r].read \in [Node -> Payout] /\ t[r].todo \in SUBSET Node
           /\ t[r].txid \in Nat /\ t[r].failed \in BOOLEAN /\ t[r].pool \in Nat
           /\ t[r].nodes \in SUBSET Node
BY DEF TypeOK, TickState

\* The types of a document.
LEMMA DocTypes ==
    ASSUME TypeOK, NEW c \in Cycle
    PROVE  /\ cycle \in [Cycle -> CycleDoc] /\ cycle[c] \in CycleDoc
           /\ cycle[c].status \in CycleStatus /\ cycle[c].recent \in BOOLEAN
           /\ cycle[c].pool \in Nat /\ cycle[c].share \in Nat
           /\ cycle[c].payouts \in [Node -> Payout]
BY DEF TypeOK, CycleDoc

LEMMA PayoutTypes ==
    ASSUME TypeOK, NEW c \in Cycle, NEW n \in Node
    PROVE  /\ cycle[c].payouts[n] \in Payout
           /\ cycle[c].payouts[n].status \in PayoutStatus /\ cycle[c].payouts[n].txid \in Nat
           /\ sends[c][n] \in Nat /\ lost[c][n] \in Nat
           /\ OnFile(c, n) \in {0, 1} /\ (OnFile(c, n) = 0 <=> cycle[c].payouts[n].txid = 0)
<1>1. cycle[c].payouts[n] \in Payout
  BY DocTypes
<1>2. sends[c][n] \in Nat /\ lost[c][n] \in Nat
  BY DEF TypeOK
<1>3. QED
  BY <1>1, <1>2 DEF Payout, OnFile

\* The value of t after a step of r.
LEMMA Becomes ==
    ASSUME TypeOK, NEW r \in Runners, NEW x \in TickState, Become(r, x)
    PROVE  t' \in [Runners -> TickState] /\ t'[r] = x /\ OnlyTick(r)
BY DEF TypeOK, Become, OnlyTick

\* A tick that goes to another place.
LEMMA Goes ==
    ASSUME TypeOK, NEW r \in Runners, NEW pc \in TickPc, Goto(r, pc)
    PROVE  /\ t' \in [Runners -> TickState] /\ OnlyTick(r)
           /\ t'[r].pc = pc /\ t'[r].txid = t[r].txid /\ SamePayouts(r)
<1> DEFINE x == [t[r] EXCEPT !.pc = pc]
<1>1. /\ x \in TickState /\ x.pc = pc /\ x.c = t[r].c /\ x.read = t[r].read
      /\ x.todo = t[r].todo /\ x.failed = t[r].failed /\ x.txid = t[r].txid
  BY TickTypes DEF TickState
<1>2. Become(r, x)
  BY DEF Goto
<1> HIDE DEF x
<1>3. QED
  BY <1>1, <1>2, Becomes DEF SamePayouts

\* A tick that goes to another place and takes or drops a txid.
LEMMA GoesWith ==
    ASSUME TypeOK, NEW r \in Runners, NEW pc \in TickPc, NEW txid \in Nat,
           Become(r, [t[r] EXCEPT !.pc = pc, !.txid = txid])
    PROVE  /\ t' \in [Runners -> TickState] /\ OnlyTick(r)
           /\ t'[r].pc = pc /\ t'[r].txid = txid /\ SamePayouts(r)
<1> DEFINE x == [t[r] EXCEPT !.pc = pc, !.txid = txid]
<1>1. /\ x \in TickState /\ x.pc = pc /\ x.c = t[r].c /\ x.read = t[r].read
      /\ x.todo = t[r].todo /\ x.failed = t[r].failed /\ x.txid = txid
  BY TickTypes DEF TickState
<1>2. Become(r, x)
  OBVIOUS
<1> HIDE DEF x
<1>3. QED
  BY <1>1, <1>2, Becomes DEF SamePayouts

\* A tick that ends.
LEMMA Ends ==
    ASSUME TypeOK, NEW r \in Runners, Become(r, Idle)
    PROVE  t' \in [Runners -> TickState] /\ OnlyTick(r) /\ t'[r].pc = "idle"
BY IdleIs, Becomes

\* The tick is done with payout n.
LEMMA HandledIs ==
    ASSUME TypeOK, NEW r \in Runners, NEW n, NEW failed \in BOOLEAN, Handled(r, n, failed)
    PROVE  /\ t' \in [Runners -> TickState] /\ OnlyTick(r) /\ t'[r].pc = "pay"
           /\ t'[r].c = t[r].c /\ t'[r].read = t[r].read /\ t'[r].todo = t[r].todo \ {n}
           /\ (t'[r].failed <=> t[r].failed \/ failed)
<1> DEFINE todo == t[r].todo \ {n}
           worse == t[r].failed \/ failed
           y == [t[r] EXCEPT !.pc = "pay", !.todo = todo]
           x == [y EXCEPT !.txid = 0, !.failed = worse]
<1>1. todo \in SUBSET Node /\ worse \in BOOLEAN /\ "pay" \in TickPc
  BY TickTypes DEF TickPc
<1>2. Become(r, x)
  BY TickTypes DEF Handled, TickState
<1> HIDE DEF todo, worse
<1>3. /\ y \in TickState /\ y.pc = "pay" /\ y.c = t[r].c /\ y.read = t[r].read
      /\ y.todo = todo
  BY <1>1, TickTypes DEF TickState
<1> HIDE DEF y
<1>4. /\ x \in TickState /\ x.pc = "pay" /\ x.c = t[r].c /\ x.read = t[r].read
      /\ x.todo = todo /\ x.failed = worse
  BY <1>1, <1>3 DEF TickState
<1> HIDE DEF x
<1>5. QED
  BY <1>2, <1>4, Becomes DEF todo, worse

\* A tick that starts on what is on file of cycle c.
Executes(r, c) ==
    /\ t'[r].pc = "pay" /\ t'[r].c = c /\ t'[r].failed = FALSE
    /\ t'[r].read = cycle[c].payouts
    /\ t'[r].todo = Unpaid(cycle[c].payouts)

LEMMA ExecutesIs ==
    ASSUME TypeOK, NEW r \in Runners, NEW c \in Cycle, Become(r, Executing(c))
    PROVE  t' \in [Runners -> TickState] /\ OnlyTick(r) /\ Executes(r, c)
<1> DEFINE payouts == cycle[c].payouts
           todo == Unpaid(payouts)
           y == [Idle EXCEPT !.pc = "pay", !.c = c]
           x == [y EXCEPT !.read = payouts, !.todo = todo]
<1>1. /\ payouts \in [Node -> Payout] /\ todo \in SUBSET Node /\ c \in 0..NumCycles
      /\ "pay" \in TickPc
  BY DocTypes, Facts DEF Unpaid, Cycle, TickPc
<1>2. Become(r, x)
  BY IdleIs DEF Executing, TickState
<1> HIDE DEF payouts, todo
<1>3. y \in TickState /\ y.pc = "pay" /\ y.c = c /\ y.failed = FALSE
  BY <1>1, IdleIs DEF TickState
<1> HIDE DEF y
<1>4. /\ x \in TickState /\ x.pc = "pay" /\ x.c = c /\ x.failed = FALSE
      /\ x.read = payouts /\ x.todo = todo
  BY <1>1, <1>3 DEF TickState
<1> HIDE DEF x
<1>5. QED
  BY <1>2, <1>4, Becomes DEF Executes, payouts, todo

\* The payout of n in cycle c is the only thing that a step writes to the documents.
PayoutWritten(c, n, status, txid) ==
    /\ OnlyCycle(c)
    /\ cycle'[c].status = cycle[c].status
    /\ cycle'[c].pool = cycle[c].pool /\ cycle'[c].share = cycle[c].share
    /\ cycle'[c].payouts[n].status = status /\ cycle'[c].payouts[n].txid = txid
    /\ \A m \in Node \ {n} : cycle'[c].payouts[m] = cycle[c].payouts[m]

LEMMA SetPayoutFx ==
    ASSUME TypeOK, NEW c \in Cycle, NEW n \in Node, NEW payout \in Payout,
           cycle' = [cycle EXCEPT ![c].payouts[n] = payout]
    PROVE  cycle' \in [Cycle -> CycleDoc] /\ PayoutWritten(c, n, payout.status, payout.txid)
<1> DEFINE p == [cycle[c].payouts EXCEPT ![n] = payout]
<1>1. cycle \in [Cycle -> CycleDoc] /\ cycle[c] \in CycleDoc
      /\ cycle[c].payouts \in [Node -> Payout]
  BY DocTypes
<1>2. cycle' = [cycle EXCEPT ![c] = [cycle[c] EXCEPT !.payouts = p]]
  BY <1>1
<1>3. /\ p \in [Node -> Payout] /\ p[n] = payout
      /\ \A m \in Node \ {n} : p[m] = cycle[c].payouts[m]
  BY <1>1
<1> HIDE DEF p
<1>4. PICK z : z = [cycle[c] EXCEPT !.payouts = p]
  OBVIOUS
<1>5. /\ z \in CycleDoc /\ z.status = cycle[c].status /\ z.pool = cycle[c].pool
      /\ z.share = cycle[c].share /\ z.payouts = p
  BY <1>1, <1>3, <1>4 DEF CycleDoc
<1>6. cycle' \in [Cycle -> CycleDoc] /\ cycle'[c] = z /\ OnlyCycle(c)
  BY <1>1, <1>2, <1>4, <1>5 DEF OnlyCycle
<1>7. QED
  BY <1>3, <1>5, <1>6 DEF PayoutWritten

LEMMA SetStatusFx ==
    ASSUME TypeOK, NEW c \in Cycle, NEW n \in Node, NEW status \in PayoutStatus,
           cycle' = [cycle EXCEPT ![c].payouts[n].status = status]
    PROVE  /\ cycle' \in [Cycle -> CycleDoc]
           /\ PayoutWritten(c, n, status, cycle[c].payouts[n].txid)
<1> DEFINE payout == [cycle[c].payouts[n] EXCEPT !.status = status]
<1>1. payout \in Payout /\ payout.status = status /\ payout.txid = cycle[c].payouts[n].txid
  BY PayoutTypes DEF Payout
<1>2. cycle' = [cycle EXCEPT ![c].payouts[n] = payout]
  BY DocTypes
<1> HIDE DEF payout
<1>3. cycle' \in [Cycle -> CycleDoc] /\ PayoutWritten(c, n, payout.status, payout.txid)
  BY <1>1, <1>2, SetPayoutFx
<1>4. QED
  BY <1>1, <1>3 DEF PayoutWritten

LEMMA SetTxidFx ==
    ASSUME TypeOK, NEW c \in Cycle, NEW n \in Node, NEW txid \in Nat,
           cycle' = [cycle EXCEPT ![c].payouts[n].txid = txid]
    PROVE  /\ cycle' \in [Cycle -> CycleDoc]
           /\ PayoutWritten(c, n, cycle[c].payouts[n].status, txid)
<1> DEFINE payout == [cycle[c].payouts[n] EXCEPT !.txid = txid]
<1>1. payout \in Payout /\ payout.txid = txid /\ payout.status = cycle[c].payouts[n].status
  BY PayoutTypes DEF Payout
<1>2. cycle' = [cycle EXCEPT ![c].payouts[n] = payout]
  BY DocTypes
<1> HIDE DEF payout
<1>3. cycle' \in [Cycle -> CycleDoc] /\ PayoutWritten(c, n, payout.status, payout.txid)
  BY <1>1, <1>2, SetPayoutFx
<1>4. QED
  BY <1>1, <1>3 DEF PayoutWritten

\* A counter of payments goes up by one.
OneMore(counter, new, c, n) ==
    /\ new[c][n] = counter[c][n] + 1
    /\ \A d \in Cycle, m \in Node : d # c \/ m # n => new[d][m] = counter[d][m]

LEMMA OneMoreIs ==
    ASSUME NEW counter \in [Cycle -> [Node -> Nat]], NEW new, NEW c \in Cycle, NEW n \in Node,
           new = [counter EXCEPT ![c][n] = @ + 1]
    PROVE  new \in [Cycle -> [Node -> Nat]] /\ OneMore(counter, new, c, n)
<1>1. new = [counter EXCEPT ![c] = [counter[c] EXCEPT ![n] = counter[c][n] + 1]]
  OBVIOUS
<1>2. counter[c] \in [Node -> Nat] /\ counter[c][n] + 1 \in Nat
  OBVIOUS
<1>3. QED
  BY <1>1, <1>2 DEF OneMore

LEMMA FaultFx ==
    ASSUME TypeOK, Fault
    PROVE  upsets' \in 0..MaxUpsets
BY Facts DEF TypeOK, Fault

LEMMA StartTickFx ==
    ASSUME TypeOK, NEW r \in Runners, StartTick(r)
    PROVE  /\ TypeOK' /\ OnlyTick(r) /\ In(r, "idle") /\ up
           /\ UNCHANGED <<cycle, received, up, sends, lost>>
           /\ \/ t'[r].pc = "gate"
              \/ \E c \in Cycle : Resumable(c) /\ Executes(r, c)
           /\ (\E q \in Runners : Running(q)) => overlaps' = overlaps + 1
           /\ ~(\E q \in Runners : Running(q)) => overlaps' = overlaps
<1> DEFINE open == {c \in Cycle : Resumable(c)}
           gate == [Idle EXCEPT !.pc = "gate"]
<1>1. /\ In(r, "idle") /\ up /\ UNCHANGED <<cycle, received, up, sends, lost>>
      /\ Become(r, IF open = {} THEN gate ELSE Executing(Min(open)))
  BY DEF StartTick
<1>2. gate \in TickState /\ gate.pc = "gate"
  BY IdleIs DEF TickState, TickPc
<1>3. open # {} => Min(open) \in open
  BY Facts, MinIsElement
<1> HIDE DEF open, gate
<1>4. /\ t' \in [Runners -> TickState] /\ OnlyTick(r)
      /\ t'[r].pc = "gate" \/ \E c \in Cycle : Resumable(c) /\ Executes(r, c)
  <2>1. CASE open = {}
    BY <1>1, <1>2, <2>1, Becomes
  <2>2. CASE open # {}
    BY <1>1, <1>3, <2>2, ExecutesIs DEF open
  <2>3. QED
    BY <2>1, <2>2
<1>5. /\ (\E q \in Runners : Running(q)) =>
            overlaps' = overlaps + 1 /\ overlaps < MaxOverlaps
            /\ upsets' = upsets + 2 /\ upsets + 2 <= MaxUpsets
      /\ ~(\E q \in Runners : Running(q)) => overlaps' = overlaps /\ upsets' = upsets
  BY DEF StartTick, Overlap
<1>6. overlaps' \in 0..MaxOverlaps /\ upsets' \in 0..MaxUpsets
  BY <1>5, Facts DEF TypeOK
<1>7. TypeOK'
  BY <1>1, <1>4, <1>6 DEF TypeOK
<1>8. QED
  BY <1>1, <1>4, <1>5, <1>7

LEMMA CadenceGateFx ==
    ASSUME TypeOK, NEW r \in Runners, CadenceGate(r)
    PROVE  /\ TypeOK' /\ OnlyTick(r) /\ In(r, "gate") /\ Elsewhere /\ cycle' = cycle
           /\ t'[r].pc = "idle" \/ (Room /\ t'[r].pc = "read")
<1> DEFINE x == [t[r] EXCEPT !.pc = "read"]
<1>1. /\ In(r, "gate") /\ Elsewhere /\ cycle' = cycle /\ upsets' = upsets
      /\ Become(r, Idle) \/ (Room /\ Become(r, x))
  BY DEF CadenceGate, Elsewhere
<1>2. x \in TickState /\ x.pc = "read"
  BY TickTypes DEF TickState, TickPc
<1> HIDE DEF x
<1>3. /\ t' \in [Runners -> TickState] /\ OnlyTick(r)
      /\ t'[r].pc = "idle" \/ (Room /\ t'[r].pc = "read")
  BY <1>1, <1>2, Ends, Becomes
<1>4. TypeOK'
  BY <1>1, <1>3 DEF TypeOK, Elsewhere
<1>5. QED
  BY <1>1, <1>3, <1>4

LEMMA ReadPoolFx ==
    ASSUME TypeOK, NEW r \in Runners, ReadPool(r)
    PROVE  /\ TypeOK' /\ OnlyTick(r) /\ In(r, "read") /\ Elsewhere /\ cycle' = cycle
           /\ t'[r].pc = "create"
<1>1. In(r, "read") /\ Elsewhere /\ cycle' = cycle /\ upsets' = upsets
  BY DEF ReadPool, Elsewhere
<1>2. PICK nodes \in SUBSET Node :
         Become(r, [t[r] EXCEPT !.pc = "create", !.pool = received, !.nodes = nodes])
  BY DEF ReadPool
<1> DEFINE y == [t[r] EXCEPT !.pc = "create", !.pool = received]
           x == [y EXCEPT !.nodes = nodes]
<1>3. received \in Nat /\ "create" \in TickPc
  BY Facts DEF TypeOK, TickPc
<1>4. Become(r, x)
  BY <1>2, TickTypes DEF TickState
<1>5. y \in TickState /\ y.pc = "create"
  BY <1>3, TickTypes DEF TickState
<1> HIDE DEF y
<1>6. x \in TickState /\ x.pc = "create"
  BY <1>5 DEF TickState
<1> HIDE DEF x
<1>7. t' \in [Runners -> TickState] /\ OnlyTick(r) /\ t'[r].pc = "create"
  BY <1>4, <1>6, Becomes
<1>8. TypeOK'
  BY <1>1, <1>7 DEF TypeOK, Elsewhere
<1>9. QED
  BY <1>1, <1>7, <1>8

LEMMA NewCycleIs ==
    ASSUME NEW status \in CycleStatus, NEW pool \in Nat, NEW share \in Nat,
           NEW nodes \in SUBSET Node
    PROVE  LET doc == NewCycle(status, pool, share, nodes)
           IN  /\ doc \in CycleDoc /\ doc.status = status /\ doc.pool = pool
               /\ doc.share = share
               /\ \A n \in Node : /\ doc.payouts[n].txid = 0
                                  /\ doc.payouts[n].status # "none" <=> n \in nodes
<1> DEFINE payouts == [n \in Node |-> IF n \in nodes THEN [status |-> "PENDING", txid |-> 0]
                                                     ELSE NoPayout]
           doc == NewCycle(status, pool, share, nodes)
<1>1. doc = [status |-> status, recent |-> TRUE, pool |-> pool, share |-> share,
             payouts |-> payouts]
  BY DEF NewCycle
<1>2. [status |-> "PENDING", txid |-> 0] \in Payout /\ NoPayout \in Payout
  BY DEF Payout, PayoutStatus, NoPayout
<1>3. /\ payouts \in [Node -> Payout]
      /\ \A n \in Node : /\ payouts[n].txid = 0
                         /\ payouts[n].status # "none" <=> n \in nodes
  BY <1>2 DEF NoPayout
<1> HIDE DEF payouts, doc
<1>4. doc \in CycleDoc
  BY <1>1, <1>3 DEF CycleDoc
<1>5. QED
  BY <1>1, <1>3, <1>4 DEF doc

\* A cycle is stored with a payout for each of nodes, none of them made, and they fit
\* the pool.
Stored(c, nodes) ==
    /\ OnlyCycle(c)
    /\ \A n \in Node : /\ cycle'[c].payouts[n].txid = 0
                       /\ cycle'[c].payouts[n].status # "none" <=> n \in nodes
    /\ (cycle'[c].share + PayoutFee) * Cardinality(nodes) <= cycle'[c].pool

LEMMA StoredIs ==
    ASSUME TypeOK, NEW c \in Cycle, NEW status \in CycleStatus, NEW pool \in Nat,
           NEW share \in Nat, NEW nodes \in SUBSET Node,
           (share + PayoutFee) * Cardinality(nodes) <= pool,
           cycle' = [cycle EXCEPT ![c] = NewCycle(status, pool, share, nodes)]
    PROVE  cycle' \in [Cycle -> CycleDoc] /\ Stored(c, nodes) /\ cycle'[c].status = status
<1> DEFINE doc == NewCycle(status, pool, share, nodes)
<1>1. /\ doc \in CycleDoc /\ doc.status = status /\ doc.pool = pool /\ doc.share = share
      /\ \A n \in Node : /\ doc.payouts[n].txid = 0
                         /\ doc.payouts[n].status # "none" <=> n \in nodes
  BY NewCycleIs
<1> HIDE DEF doc
<1>2. cycle' \in [Cycle -> CycleDoc] /\ cycle'[c] = doc /\ OnlyCycle(c)
  BY <1>1, DocTypes DEF OnlyCycle, doc
<1>3. QED
  BY <1>1, <1>2 DEF Stored

LEMMA CreateCycleFx ==
    ASSUME TypeOK, NEW r \in Runners, CreateCycle(r), Free # {}
    PROVE  /\ TypeOK' /\ OnlyTick(r) /\ In(r, "create") /\ Elsewhere
           /\ \E c \in Free, nodes \in SUBSET Node :
                 /\ Stored(c, nodes)
                 /\ \/ t'[r].pc = "idle" /\ cycle'[c].status = "SKIPPED"
                    \/ /\ t'[r].pc = "fetch" /\ t'[r].c = c
                       /\ cycle'[c].status = "PAYING_OUT"
<1> DEFINE pool == t[r].pool
           nodes == t[r].nodes
           count == Cardinality(nodes)
           share == PerMasternodeSats(pool, count)
           c == Min(Free)
           y == [t[r] EXCEPT !.pc = "fetch"]
           x == [t[r] EXCEPT !.pc = "fetch", !.c = c]
<1>1. /\ In(r, "create") /\ Elsewhere /\ upsets' = upsets
      /\ \/ /\ cycle' = [cycle EXCEPT ![c] = NewCycle("SKIPPED", pool, 0, {})]
            /\ Become(r, Idle)
         \/ /\ ~(pool < MinBalance \/ count = 0) /\ share <= 0
            /\ cycle' = [cycle EXCEPT ![c] = NewCycle("SKIPPED", pool, share, {})]
            /\ Become(r, Idle)
         \/ /\ ~(pool < MinBalance \/ count = 0) /\ ~(share <= 0)
            /\ cycle' = [cycle EXCEPT ![c] = NewCycle("PAYING_OUT", pool, share, nodes)]
            /\ Become(r, x)
  BY DEF CreateCycle, Elsewhere
<1>2. /\ pool \in Nat /\ nodes \in SUBSET Node /\ count \in Nat
  <2>1. pool \in Nat /\ nodes \in SUBSET Node
    BY TickTypes
  <2>2. QED
    BY <2>1, Facts, FS_Subset, FS_CardinalityType
<1>3. count # 0 => share \in Nat /\ (share > 0 => (share + PayoutFee) * count <= pool)
  <2> HIDE DEF pool, nodes, count
  <2>1. QED
    BY <1>2, ShareFits
<1>4. c \in Free /\ c \in Cycle
  <2>1. Free \in SUBSET Cycle /\ Cycle \in SUBSET Nat
    BY Facts DEF Free
  <2>2. QED
    BY <2>1, MinIsElement
<1>5. /\ \A s \in Nat : (s + PayoutFee) * Cardinality({}) <= pool
      /\ {"SKIPPED", "PAYING_OUT"} \subseteq CycleStatus /\ "fetch" \in TickPc
      /\ {} \in SUBSET Node
  BY <1>2, Facts, FS_EmptySet DEF CycleStatus, TickPc
<1>6. x \in TickState /\ x.pc = "fetch" /\ x.c = c
  <2>1. c \in 0..NumCycles
    BY <1>4, Facts DEF Cycle
  <2>2. y \in TickState /\ y.pc = "fetch" /\ x = [y EXCEPT !.c = c]
    BY <1>5, TickTypes DEF TickState
  <2> HIDE DEF y
  <2>3. QED
    BY <2>1, <2>2 DEF TickState
<1> HIDE DEF pool, nodes, count, share, c, x
<1>7. CASE /\ cycle' = [cycle EXCEPT ![c] = NewCycle("SKIPPED", pool, 0, {})]
           /\ Become(r, Idle)
  <2>1. cycle' \in [Cycle -> CycleDoc] /\ Stored(c, {}) /\ cycle'[c].status = "SKIPPED"
    BY <1>2, <1>4, <1>5, <1>7, StoredIs
  <2>2. t' \in [Runners -> TickState] /\ OnlyTick(r) /\ t'[r].pc = "idle"
    BY <1>7, Ends
  <2>3. TypeOK'
    BY <1>1, <2>1, <2>2 DEF TypeOK, Elsewhere
  <2>4. QED
    BY <1>1, <1>4, <1>5, <2>1, <2>2, <2>3
<1>8. CASE /\ count # 0 /\ share <= 0
           /\ cycle' = [cycle EXCEPT ![c] = NewCycle("SKIPPED", pool, share, {})]
           /\ Become(r, Idle)
  <2>1. cycle' \in [Cycle -> CycleDoc] /\ Stored(c, {}) /\ cycle'[c].status = "SKIPPED"
    BY <1>2, <1>3, <1>4, <1>5, <1>8, StoredIs
  <2>2. t' \in [Runners -> TickState] /\ OnlyTick(r) /\ t'[r].pc = "idle"
    BY <1>8, Ends
  <2>3. TypeOK'
    BY <1>1, <2>1, <2>2 DEF TypeOK, Elsewhere
  <2>4. QED
    BY <1>1, <1>4, <1>5, <2>1, <2>2, <2>3
<1>9. CASE /\ count # 0 /\ ~(share <= 0)
           /\ cycle' = [cycle EXCEPT ![c] = NewCycle("PAYING_OUT", pool, share, nodes)]
           /\ Become(r, x)
  <2>1. share \in Nat /\ (share + PayoutFee) * Cardinality(nodes) <= pool
    BY <1>3, <1>9 DEF count
  <2>2. cycle' \in [Cycle -> CycleDoc] /\ Stored(c, nodes) /\ cycle'[c].status = "PAYING_OUT"
    BY <1>2, <1>4, <1>5, <1>9, <2>1, StoredIs
  <2>3. t' \in [Runners -> TickState] /\ OnlyTick(r) /\ t'[r].pc = "fetch" /\ t'[r].c = c
    BY <1>6, <1>9, Becomes
  <2>4. TypeOK'
    BY <1>1, <2>2, <2>3 DEF TypeOK, Elsewhere
  <2>5. QED
    BY <1>1, <1>2, <1>4, <2>2, <2>3, <2>4
<1>10. QED
  BY <1>1, <1>7, <1>8, <1>9

LEMMA FetchCycleFx ==
    ASSUME TypeOK, NEW r \in Runners, TickInv(r), FetchCycle(r)
    PROVE  /\ TypeOK' /\ OnlyTick(r) /\ In(r, "fetch") /\ Elsewhere /\ cycle' = cycle
           /\ t[r].c \in Cycle /\ Executes(r, t[r].c)
<1>1. /\ In(r, "fetch") /\ Become(r, Executing(t[r].c)) /\ Elsewhere /\ cycle' = cycle
      /\ upsets' = upsets
  BY DEF FetchCycle, Elsewhere
<1>2. t[r].c \in Cycle
  BY <1>1 DEF TickInv, In, Working, Paying
<1>3. t' \in [Runners -> TickState] /\ OnlyTick(r) /\ Executes(r, t[r].c)
  BY <1>1, <1>2, ExecutesIs
<1>4. TypeOK'
  BY <1>1, <1>3 DEF TypeOK, Elsewhere
<1>5. QED
  BY <1>1, <1>2, <1>3, <1>4

\* The tick is done with payout n.
Done(r, n, failed) ==
    /\ t'[r].pc = "pay" /\ t'[r].c = t[r].c /\ t'[r].read = t[r].read
    /\ t'[r].todo = t[r].todo \ {n} /\ (t'[r].failed <=> t[r].failed \/ failed)

LEMMA ReconcilePayoutFx ==
    ASSUME TypeOK, NEW r \in Runners, TickInv(r), NEW n \in Node, ReconcilePayout(r, n)
    PROVE  /\ TypeOK' /\ OnlyTick(r) /\ Elsewhere /\ t[r].c \in Cycle
           /\ In(r, "pay") /\ IsNext(r, n) /\ t[r].read[n].txid # 0
           /\ \/ /\ PayoutWritten(t[r].c, n, "BROADCAST", t[r].read[n].txid)
                 /\ Done(r, n, FALSE)
              \/ /\ PayoutWritten(t[r].c, n, "FAILED", cycle[t[r].c].payouts[n].txid)
                 /\ Done(r, n, TRUE)
<1> DEFINE c == t[r].c
           payout == [status |-> "BROADCAST", txid |-> t[r].read[n].txid]
<1>1. /\ In(r, "pay") /\ IsNext(r, n) /\ t[r].read[n].txid # 0 /\ Elsewhere
      /\ \/ /\ cycle' = [cycle EXCEPT ![c].payouts[n] = payout]
            /\ Handled(r, n, FALSE) /\ upsets' = upsets
         \/ /\ cycle' = [cycle EXCEPT ![c].payouts[n].status = "FAILED"]
            /\ Handled(r, n, TRUE) /\ Fault
  BY DEF ReconcilePayout, ToSend, SetPayout, SetStatus, Elsewhere
<1>2. c \in Cycle
  BY <1>1 DEF TickInv, In, Working, Paying
<1>3. /\ payout \in Payout /\ payout.status = "BROADCAST"
      /\ payout.txid = t[r].read[n].txid /\ "FAILED" \in PayoutStatus
  BY TickTypes DEF Payout, PayoutStatus
<1> HIDE DEF c, payout
<1>4. CASE /\ cycle' = [cycle EXCEPT ![c].payouts[n] = payout]
           /\ Handled(r, n, FALSE) /\ upsets' = upsets
  <2>1. cycle' \in [Cycle -> CycleDoc] /\ PayoutWritten(c, n, payout.status, payout.txid)
    BY <1>2, <1>3, <1>4, SetPayoutFx
  <2>2. PayoutWritten(c, n, "BROADCAST", t[r].read[n].txid)
    BY <1>3, <2>1 DEF PayoutWritten
  <2>3. t' \in [Runners -> TickState] /\ OnlyTick(r) /\ Done(r, n, FALSE)
    BY <1>4, HandledIs DEF Done
  <2>4. TypeOK'
    BY <1>1, <1>4, <2>1, <2>3 DEF TypeOK, Elsewhere
  <2>5. QED
    BY <1>1, <1>2, <2>2, <2>3, <2>4 DEF c
<1>5. CASE /\ cycle' = [cycle EXCEPT ![c].payouts[n].status = "FAILED"]
           /\ Handled(r, n, TRUE) /\ Fault
  <2>1. /\ cycle' \in [Cycle -> CycleDoc]
        /\ PayoutWritten(c, n, "FAILED", cycle[c].payouts[n].txid)
    BY <1>2, <1>3, <1>5, SetStatusFx
  <2>2. t' \in [Runners -> TickState] /\ OnlyTick(r) /\ Done(r, n, TRUE)
    BY <1>5, HandledIs DEF Done
  <2>3. TypeOK'
    BY <1>1, <1>5, <2>1, <2>2, FaultFx DEF TypeOK, Elsewhere
  <2>4. QED
    BY <1>1, <1>2, <2>1, <2>2, <2>3 DEF c
<1>6. QED
  BY <1>1, <1>4, <1>5

LEMMA SendPayoutFx ==
    ASSUME TypeOK, NEW r \in Runners, TickInv(r), NEW n \in Node, SendPayout(r, n)
    PROVE  /\ TypeOK' /\ OnlyTick(r) /\ UNCHANGED <<cycle, received, up, lost, overlaps>>
           /\ In(r, "pay") /\ IsNext(r, n) /\ t[r].c \in Cycle /\ t[r].read[n].txid = 0
           /\ OneMore(sends, sends', t[r].c, n)
           /\ t'[r].pc = "record" /\ t'[r].txid # 0 /\ SamePayouts(r)
<1> DEFINE c == t[r].c
           txid == sends[c][n] + 1
<1>1. /\ In(r, "pay") /\ IsNext(r, n) /\ t[r].read[n].txid = 0
      /\ sends' = [sends EXCEPT ![c][n] = @ + 1]
      /\ Become(r, [t[r] EXCEPT !.pc = "record", !.txid = txid])
      /\ UNCHANGED <<cycle, received, up, lost, upsets, overlaps>>
  BY DEF SendPayout, ToSend, AddTo
<1>2. c \in Cycle
  BY <1>1 DEF TickInv, In, Working, Paying
<1>3. txid \in Nat /\ txid # 0 /\ "record" \in TickPc /\ sends \in [Cycle -> [Node -> Nat]]
  BY <1>2, PayoutTypes DEF TypeOK, TickPc
<1>4. sends' \in [Cycle -> [Node -> Nat]] /\ OneMore(sends, sends', c, n)
  BY <1>1, <1>2, <1>3, OneMoreIs
<1> HIDE DEF txid
<1>5. /\ t' \in [Runners -> TickState] /\ OnlyTick(r) /\ t'[r].pc = "record"
      /\ t'[r].txid = txid /\ SamePayouts(r)
  BY <1>1, <1>3, GoesWith
<1>6. TypeOK'
  BY <1>1, <1>4, <1>5 DEF TypeOK
<1>7. QED
  BY <1>1, <1>2, <1>3, <1>4, <1>5, <1>6

LEMMA SendFailsFx ==
    ASSUME TypeOK, NEW r \in Runners, TickInv(r), NEW n \in Node, SendFails(r, n)
    PROVE  /\ TypeOK' /\ OnlyTick(r) /\ UNCHANGED <<cycle, received, up, overlaps>>
           /\ In(r, "pay") /\ IsNext(r, n) /\ t[r].c \in Cycle /\ t[r].read[n].txid = 0
           /\ t'[r].pc = "fail" /\ SamePayouts(r)
           /\ \/ sends' = sends /\ lost' = lost
              \/ OneMore(sends, sends', t[r].c, n) /\ OneMore(lost, lost', t[r].c, n)
<1> DEFINE c == t[r].c
<1>1. /\ In(r, "pay") /\ IsNext(r, n) /\ t[r].read[n].txid = 0
      /\ Goto(r, "fail") /\ Fault
      /\ \/ sends' = sends /\ lost' = lost
         \/ /\ sends' = [sends EXCEPT ![c][n] = @ + 1]
            /\ lost' = [lost EXCEPT ![c][n] = @ + 1]
      /\ UNCHANGED <<cycle, received, up, overlaps>>
  BY DEF SendFails, ToSend, AddTo
<1>2. c \in Cycle /\ "fail" \in TickPc
  BY <1>1 DEF TickInv, In, Working, Paying, TickPc
<1>3. sends \in [Cycle -> [Node -> Nat]] /\ lost \in [Cycle -> [Node -> Nat]]
  BY DEF TypeOK
<1>4. \/ sends' = sends /\ lost' = lost
      \/ /\ sends' \in [Cycle -> [Node -> Nat]] /\ OneMore(sends, sends', c, n)
         /\ lost' \in [Cycle -> [Node -> Nat]] /\ OneMore(lost, lost', c, n)
  BY <1>1, <1>2, <1>3, OneMoreIs
<1>5. t' \in [Runners -> TickState] /\ OnlyTick(r) /\ t'[r].pc = "fail" /\ SamePayouts(r)
  BY <1>1, <1>2, Goes
<1>6. TypeOK'
  BY <1>1, <1>3, <1>4, <1>5, FaultFx DEF TypeOK
<1>7. QED
  BY <1>1, <1>2, <1>4, <1>5, <1>6

LEMMA PersistPayoutTxidFx ==
    ASSUME TypeOK, NEW r \in Runners, TickInv(r), NEW n \in Node, PersistPayoutTxid(r, n)
    PROVE  /\ TypeOK' /\ OnlyTick(r) /\ Elsewhere
           /\ In(r, "record") /\ IsNext(r, n) /\ t[r].c \in Cycle
           /\ PayoutWritten(t[r].c, n, cycle[t[r].c].payouts[n].status, t[r].txid)
           /\ t[r].txid # 0
           /\ t'[r].pc = "mark" /\ t'[r].txid = t[r].txid /\ SamePayouts(r)
<1> DEFINE c == t[r].c
<1>1. /\ In(r, "record") /\ IsNext(r, n) /\ Goto(r, "mark") /\ Elsewhere /\ upsets' = upsets
      /\ cycle' = [cycle EXCEPT ![c].payouts[n].txid = t[r].txid]
  BY DEF PersistPayoutTxid, SetTxid, Elsewhere
<1>2. c \in Cycle /\ "mark" \in TickPc /\ t[r].txid \in Nat /\ t[r].txid # 0
  BY <1>1, TickTypes DEF TickInv, In, Working, Paying, TickPc
<1>3. /\ cycle' \in [Cycle -> CycleDoc]
      /\ PayoutWritten(c, n, cycle[c].payouts[n].status, t[r].txid)
  BY <1>1, <1>2, SetTxidFx
<1>4. /\ t' \in [Runners -> TickState] /\ OnlyTick(r) /\ t'[r].pc = "mark"
      /\ t'[r].txid = t[r].txid /\ SamePayouts(r)
  BY <1>1, <1>2, Goes
<1>5. TypeOK'
  BY <1>1, <1>3, <1>4 DEF TypeOK, Elsewhere
<1>6. QED
  BY <1>1, <1>2, <1>3, <1>4, <1>5

\* The document after SetBroadcast.
LEMMA SetBroadcastFx ==
    ASSUME TypeOK, NEW r \in Runners, NEW n \in Node, t[r].c \in Cycle, SetBroadcast(r, n)
    PROVE  /\ cycle' \in [Cycle -> CycleDoc]
           /\ PayoutWritten(t[r].c, n, "BROADCAST", t[r].txid)
<1> DEFINE payout == [status |-> "BROADCAST", txid |-> t[r].txid]
<1>1. cycle' = [cycle EXCEPT ![t[r].c].payouts[n] = payout]
  BY DEF SetBroadcast, SetPayout
<1>2. payout \in Payout /\ payout.status = "BROADCAST" /\ payout.txid = t[r].txid
  BY TickTypes DEF Payout, PayoutStatus
<1> HIDE DEF payout
<1>3. /\ cycle' \in [Cycle -> CycleDoc]
      /\ PayoutWritten(t[r].c, n, payout.status, payout.txid)
  BY <1>1, <1>2, SetPayoutFx
<1>4. QED
  BY <1>2, <1>3 DEF PayoutWritten

LEMMA MarkPayoutBroadcastFx ==
    ASSUME TypeOK, NEW r \in Runners, TickInv(r), NEW n \in Node, MarkPayoutBroadcast(r, n)
    PROVE  /\ TypeOK' /\ OnlyTick(r) /\ Elsewhere
           /\ In(r, "mark") /\ IsNext(r, n) /\ t[r].c \in Cycle /\ t[r].txid # 0
           /\ PayoutWritten(t[r].c, n, "BROADCAST", t[r].txid)
           /\ Done(r, n, FALSE)
<1>1. /\ In(r, "mark") /\ IsNext(r, n) /\ SetBroadcast(r, n) /\ Handled(r, n, FALSE)
      /\ Elsewhere /\ upsets' = upsets
  BY DEF MarkPayoutBroadcast, Elsewhere
<1>2. t[r].c \in Cycle /\ t[r].txid # 0
  BY <1>1 DEF TickInv, In, Working, Paying
<1>3. cycle' \in [Cycle -> CycleDoc] /\ PayoutWritten(t[r].c, n, "BROADCAST", t[r].txid)
  BY <1>1, <1>2, SetBroadcastFx
<1>4. t' \in [Runners -> TickState] /\ OnlyTick(r) /\ Done(r, n, FALSE)
  BY <1>1, HandledIs DEF Done
<1>5. TypeOK'
  BY <1>1, <1>3, <1>4 DEF TypeOK, Elsewhere
<1>6. QED
  BY <1>1, <1>2, <1>3, <1>4, <1>5

LEMMA WriteFailsFx ==
    ASSUME TypeOK, NEW r \in Runners, TickInv(r), NEW n \in Node, WriteFails(r, n)
    PROVE  /\ TypeOK' /\ OnlyTick(r) /\ UNCHANGED <<received, up, sends, overlaps>>
           /\ t[r].pc \in {"record", "mark"} /\ IsNext(r, n) /\ t[r].c \in Cycle
           /\ t[r].txid # 0
           /\ t'[r].pc = "fail" /\ SamePayouts(r)
           /\ \/ /\ In(r, "record") /\ lost' = lost
                 /\ PayoutWritten(t[r].c, n, cycle[t[r].c].payouts[n].status, t[r].txid)
              \/ /\ In(r, "record") /\ OneMore(lost, lost', t[r].c, n) /\ cycle' = cycle
              \/ /\ In(r, "mark") /\ lost' = lost
                 /\ PayoutWritten(t[r].c, n, "BROADCAST", t[r].txid)
              \/ /\ In(r, "mark") /\ lost' = lost /\ cycle' = cycle
<1> DEFINE c == t[r].c
<1>1. /\ t[r].pc \in {"record", "mark"} /\ IsNext(r, n) /\ Fault
      /\ Become(r, [t[r] EXCEPT !.pc = "fail", !.txid = 0])
      /\ UNCHANGED <<received, up, sends, overlaps>>
  BY DEF WriteFails
<1>2. \/ /\ In(r, "record") /\ lost' = lost
         /\ cycle' = [cycle EXCEPT ![c].payouts[n].txid = t[r].txid]
      \/ /\ In(r, "record") /\ lost' = [lost EXCEPT ![c][n] = @ + 1] /\ cycle' = cycle
      \/ /\ In(r, "mark") /\ lost' = lost /\ SetBroadcast(r, n)
      \/ /\ In(r, "mark") /\ lost' = lost /\ cycle' = cycle
  BY DEF WriteFails, SetTxid, AddTo, In
<1>3. c \in Cycle /\ t[r].txid \in Nat /\ t[r].txid # 0 /\ "fail" \in TickPc
  BY <1>1, TickTypes DEF TickInv, Working, Paying, TickPc
<1>4. lost \in [Cycle -> [Node -> Nat]] /\ cycle \in [Cycle -> CycleDoc]
  BY DEF TypeOK
<1>5. /\ lost' \in [Cycle -> [Node -> Nat]] /\ cycle' \in [Cycle -> CycleDoc]
      /\ \/ /\ In(r, "record") /\ lost' = lost
            /\ PayoutWritten(c, n, cycle[c].payouts[n].status, t[r].txid)
         \/ /\ In(r, "record") /\ OneMore(lost, lost', c, n) /\ cycle' = cycle
         \/ /\ In(r, "mark") /\ lost' = lost
            /\ PayoutWritten(c, n, "BROADCAST", t[r].txid)
         \/ /\ In(r, "mark") /\ lost' = lost /\ cycle' = cycle
  <2>1. CASE /\ In(r, "record") /\ lost' = lost
             /\ cycle' = [cycle EXCEPT ![c].payouts[n].txid = t[r].txid]
    BY <1>3, <1>4, <2>1, SetTxidFx
  <2>2. CASE In(r, "record") /\ lost' = [lost EXCEPT ![c][n] = @ + 1] /\ cycle' = cycle
    BY <1>3, <1>4, <2>2, OneMoreIs
  <2>3. CASE In(r, "mark") /\ lost' = lost /\ SetBroadcast(r, n)
    BY <1>3, <1>4, <2>3, SetBroadcastFx
  <2>4. CASE In(r, "mark") /\ lost' = lost /\ cycle' = cycle
    BY <1>4, <2>4
  <2>5. QED
    BY <1>2, <2>1, <2>2, <2>3, <2>4
<1>6. /\ t' \in [Runners -> TickState] /\ OnlyTick(r) /\ t'[r].pc = "fail" /\ SamePayouts(r)
  BY <1>1, <1>3, GoesWith
<1>7. upsets' \in 0..MaxUpsets /\ sends \in [Cycle -> [Node -> Nat]]
  BY <1>1, FaultFx DEF TypeOK
<1>8. TypeOK'
  BY <1>1, <1>5, <1>6, <1>7 DEF TypeOK
<1>9. QED
  BY <1>1, <1>3, <1>5, <1>6, <1>8

LEMMA MarkPayoutFailedFx ==
    ASSUME TypeOK, NEW r \in Runners, TickInv(r), NEW n \in Node, MarkPayoutFailed(r, n)
    PROVE  /\ TypeOK' /\ OnlyTick(r) /\ Elsewhere
           /\ In(r, "fail") /\ IsNext(r, n) /\ t[r].c \in Cycle
           /\ PayoutWritten(t[r].c, n, "FAILED", cycle[t[r].c].payouts[n].txid)
           /\ Done(r, n, TRUE)
<1> DEFINE c == t[r].c
<1>1. /\ In(r, "fail") /\ IsNext(r, n) /\ Handled(r, n, TRUE) /\ Elsewhere
      /\ upsets' = upsets
      /\ cycle' = [cycle EXCEPT ![c].payouts[n].status = "FAILED"]
  BY DEF MarkPayoutFailed, SetStatus, Elsewhere
<1>2. c \in Cycle /\ "FAILED" \in PayoutStatus
  BY <1>1 DEF TickInv, In, Working, Paying, PayoutStatus
<1>3. /\ cycle' \in [Cycle -> CycleDoc]
      /\ PayoutWritten(c, n, "FAILED", cycle[c].payouts[n].txid)
  BY <1>1, <1>2, SetStatusFx
<1>4. t' \in [Runners -> TickState] /\ OnlyTick(r) /\ Done(r, n, TRUE)
  BY <1>1, HandledIs DEF Done
<1>5. TypeOK'
  BY <1>1, <1>3, <1>4 DEF TypeOK, Elsewhere
<1>6. QED
  BY <1>1, <1>2, <1>3, <1>4, <1>5

\* A cycle is closed with this status.
Closed(c, status) ==
    /\ OnlyCycle(c)
    /\ cycle'[c].status = status /\ cycle'[c].payouts = cycle[c].payouts
    /\ cycle'[c].pool = cycle[c].pool /\ cycle'[c].share = cycle[c].share

LEMMA FinaliseCycleFx ==
    ASSUME TypeOK, NEW r \in Runners, TickInv(r), FinaliseCycle(r)
    PROVE  /\ TypeOK' /\ OnlyTick(r) /\ Elsewhere
           /\ In(r, "pay") /\ t[r].todo = {} /\ t[r].c \in Cycle
           /\ t'[r].pc = "idle"
           /\ \/ /\ cycle[t[r].c].status = "PAYING_OUT"
                 /\ Closed(t[r].c, IF t[r].failed THEN "FAILED" ELSE "COMPLETE")
              \/ cycle' = cycle
<1> DEFINE c == t[r].c
           status == IF t[r].failed THEN "FAILED" ELSE "COMPLETE"
<1>1. /\ In(r, "pay") /\ t[r].todo = {} /\ Become(r, Idle) /\ Elsewhere /\ upsets' = upsets
      /\ \/ /\ cycle[c].status = "PAYING_OUT"
            /\ cycle' = [cycle EXCEPT ![c].status = status]
         \/ cycle' = cycle
  BY DEF FinaliseCycle, Outcome, Elsewhere
<1>2. c \in Cycle
  BY <1>1 DEF TickInv, In, Working, Paying
<1>3. status \in CycleStatus
  BY DEF CycleStatus
<1>4. cycle \in [Cycle -> CycleDoc] /\ cycle[c] \in CycleDoc
  BY <1>2, DocTypes
<1> HIDE DEF status
<1>5. ASSUME cycle' = [cycle EXCEPT ![c].status = status]
      PROVE  cycle' \in [Cycle -> CycleDoc] /\ Closed(c, status)
  <2>1. cycle' = [cycle EXCEPT ![c] = [cycle[c] EXCEPT !.status = status]]
    BY <1>4, <1>5
  <2>2. PICK z : z = [cycle[c] EXCEPT !.status = status]
    OBVIOUS
  <2>3. /\ z \in CycleDoc /\ z.status = status /\ z.payouts = cycle[c].payouts
        /\ z.pool = cycle[c].pool /\ z.share = cycle[c].share
    BY <1>3, <1>4, <2>2 DEF CycleDoc
  <2>4. cycle' \in [Cycle -> CycleDoc] /\ cycle'[c] = z /\ OnlyCycle(c)
    BY <1>2, <1>4, <2>1, <2>2, <2>3 DEF OnlyCycle
  <2>5. QED
    BY <2>3, <2>4 DEF Closed
<1>6. t' \in [Runners -> TickState] /\ OnlyTick(r) /\ t'[r].pc = "idle"
  BY <1>1, Ends
<1>7. cycle' \in [Cycle -> CycleDoc]
  BY <1>1, <1>4, <1>5
<1>8. TypeOK'
  BY <1>1, <1>6, <1>7 DEF TypeOK, Elsewhere
<1>9. QED
  BY <1>1, <1>2, <1>5, <1>6, <1>8 DEF status

LEMMA TickErrorFx ==
    ASSUME TypeOK, NEW r \in Runners, TickError(r)
    PROVE  /\ TypeOK' /\ OnlyTick(r) /\ Running(r) /\ ~In(r, "record") /\ Elsewhere
           /\ cycle' = cycle /\ t'[r].pc = "idle"
<1>1. /\ Running(r) /\ ~In(r, "record") /\ Fault /\ Become(r, Idle) /\ Elsewhere
      /\ cycle' = cycle
  BY DEF TickError, Elsewhere, In
<1>2. t' \in [Runners -> TickState] /\ OnlyTick(r) /\ t'[r].pc = "idle"
  BY <1>1, Ends
<1>3. TypeOK'
  BY <1>1, <1>2, FaultFx DEF TypeOK, Elsewhere
<1>4. QED
  BY <1>1, <1>2, <1>3

\* No tick runs.
NoTicks == \A r \in Runners : t'[r].pc \in {"off", "idle"}

HandSize(c, n) == Cardinality(Hand(c, n))

LEMMA CrashFx ==
    ASSUME TypeOK, Crash
    PROVE  /\ TypeOK' /\ NoTicks /\ UNCHANGED <<cycle, received, sends, overlaps>>
           /\ \A r \in Runners : In(r, "off")'
           /\ \A c \in Cycle, n \in Node : lost'[c][n] = lost[c][n] + HandSize(c, n)
<1>1. /\ Fault /\ up' = FALSE /\ t' = [r \in Runners |-> Off]
      /\ lost' = [c \in Cycle |-> [n \in Node |-> lost[c][n] + HandSize(c, n)]]
      /\ UNCHANGED <<cycle, received, sends, overlaps>>
  BY DEF Crash, HandSize, Hand
<1>2. t' \in [Runners -> TickState] /\ NoTicks /\ \A r \in Runners : In(r, "off")'
  BY <1>1, IdleIs DEF NoTicks, In
<1>3. \A c \in Cycle, n \in Node : lost[c][n] + HandSize(c, n) \in Nat
  <2> SUFFICES ASSUME NEW c \in Cycle, NEW n \in Node
               PROVE  lost[c][n] + HandSize(c, n) \in Nat
    OBVIOUS
  <2>1. HandSize(c, n) \in Nat
    BY Facts, FS_Subset, FS_CardinalityType DEF HandSize, Hand
  <2>2. QED
    BY <2>1, PayoutTypes
<1>4. lost' \in [Cycle -> [Node -> Nat]]
  BY <1>1, <1>3
<1>5. TypeOK'
  BY <1>1, <1>2, <1>4, FaultFx DEF TypeOK
<1>6. QED
  BY <1>1, <1>2, <1>5

LEMMA StartFx ==
    ASSUME TypeOK, Start
    PROVE  /\ TypeOK' /\ NoTicks /\ UNCHANGED <<cycle, received, sends, lost, overlaps>>
           /\ ~up /\ up'
<1>1. /\ t' = [r \in Runners |-> Idle] /\ ~up /\ up' = TRUE
      /\ UNCHANGED <<cycle, received, sends, lost, upsets, overlaps>>
  BY DEF Start
<1>2. t' \in [Runners -> TickState] /\ NoTicks
  BY <1>1, IdleIs DEF NoTicks
<1>3. TypeOK'
  BY <1>1, <1>2 DEF TypeOK
<1>4. QED
  BY <1>1, <1>2, <1>3

LEMMA ReceiveFx ==
    ASSUME TypeOK, Receive
    PROVE  TypeOK' /\ UNCHANGED <<cycle, up, t, sends, lost, overlaps>>
<1>1. received + Income <= MaxReceived /\ received' = received + Income
      /\ UNCHANGED <<cycle, up, t, sends, lost, upsets, overlaps>>
  BY DEF Receive
<1>2. received' \in 0..MaxReceived
  BY <1>1, Facts DEF TypeOK
<1>3. QED
  BY <1>1, <1>2 DEF TypeOK

\* All that a document holds but recent.
LEMMA IntervalPassesFx ==
    ASSUME TypeOK, IntervalPasses
    PROVE  /\ TypeOK' /\ UNCHANGED <<received, up, t, sends, lost, overlaps>>
           /\ \A c \in Cycle : /\ cycle'[c].status = cycle[c].status
                               /\ cycle'[c].payouts = cycle[c].payouts
                               /\ cycle'[c].pool = cycle[c].pool
                               /\ cycle'[c].share = cycle[c].share
<1>1. /\ cycle' = [c \in Cycle |-> [cycle[c] EXCEPT !.recent = FALSE]]
      /\ UNCHANGED <<received, up, t, sends, lost, upsets, overlaps>>
  BY DEF IntervalPasses
<1>2. \A c \in Cycle : /\ cycle'[c] \in CycleDoc
                       /\ cycle'[c].status = cycle[c].status
                       /\ cycle'[c].payouts = cycle[c].payouts
                       /\ cycle'[c].pool = cycle[c].pool
                       /\ cycle'[c].share = cycle[c].share
  BY <1>1, DocTypes DEF CycleDoc
<1>3. cycle' \in [Cycle -> CycleDoc]
  BY <1>1, <1>2
<1>4. QED
  BY <1>1, <1>2, <1>3 DEF TypeOK

-----------------------------------------------------------------------------
(***************************************************************************)
(* The shapes of steps.  A step of executeCycle's loop touches one payout  *)
(* of the tick's cycle; the other steps of a tick leave the payouts alone, *)
(* store a cycle or close one.                                             *)
(***************************************************************************)
LoopStep(r, n) ==
    \/ ReconcilePayout(r, n)
    \/ SendPayout(r, n)
    \/ SendFails(r, n)
    \/ PersistPayoutTxid(r, n)
    \/ MarkPayoutBroadcast(r, n)
    \/ WriteFails(r, n)
    \/ MarkPayoutFailed(r, n)

QuietStep(r) ==
    \/ StartTick(r)
    \/ CadenceGate(r)
    \/ ReadPool(r)
    \/ FetchCycle(r)
    \/ TickError(r)

\* Only payout n of cycle c may change, and its txid does not go away.
Touches(c, n) ==
    /\ \A d \in Cycle : /\ cycle'[d].status = cycle[d].status
                        /\ cycle'[d].pool = cycle[d].pool
                        /\ cycle'[d].share = cycle[d].share
    /\ \A d \in Cycle, m \in Node : d # c \/ m # n =>
          /\ cycle'[d].payouts[m] = cycle[d].payouts[m]
          /\ sends'[d][m] = sends[d][m]
          /\ lost'[d][m] = lost[d][m]
    /\ cycle'[c].payouts[n].status # "none"
    /\ cycle[c].payouts[n].txid # 0 => cycle'[c].payouts[n].txid # 0

\* What becomes of the tick.
Handles(r, c, n) ==
    LET payout == cycle'[c].payouts[n]
    IN  \/ /\ SamePayouts(r) /\ t'[r].pc \in {"record", "mark", "fail"}
           /\ t'[r].pc # "fail" => t'[r].txid # 0
           /\ t'[r].pc = "mark" => payout.txid # 0
        \/ Done(r, n, FALSE) /\ payout.status = "BROADCAST" /\ payout.txid # 0
        \/ Done(r, n, TRUE)

\* What becomes of the payout's counts: nothing, or it is paid, or a payment of it is
\* put on file, or forgotten.
Counts(r, c, n) ==
    \/ /\ sends'[c][n] = sends[c][n] /\ lost'[c][n] = lost[c][n]
       /\ OnFile(c, n)' = OnFile(c, n) /\ ~In(r, "record") /\ ~In(r, "record")'
    \/ /\ In(r, "pay") /\ t[r].read[n].txid = 0
       /\ sends'[c][n] = sends[c][n] + 1 /\ OnFile(c, n)' = OnFile(c, n)
       /\ \/ In(r, "record")' /\ SamePayouts(r) /\ lost'[c][n] = lost[c][n]
          \/ In(r, "fail")' /\ lost'[c][n] = lost[c][n] + 1
    \/ /\ In(r, "record") /\ ~In(r, "record")' /\ sends'[c][n] = sends[c][n]
       /\ \/ OnFile(c, n)' = 1 /\ lost'[c][n] = lost[c][n]
          \/ OnFile(c, n)' = OnFile(c, n) /\ lost'[c][n] = lost[c][n] + 1

LEMMA WrittenTouches ==
    ASSUME TypeOK, NEW c \in Cycle, NEW n \in Node, NEW status \in PayoutStatus, NEW txid,
           PayoutWritten(c, n, status, txid), status # "none",
           cycle[c].payouts[n].txid # 0 => txid # 0,
           sends' = sends,
           \A d \in Cycle, m \in Node : d # c \/ m # n => lost'[d][m] = lost[d][m]
    PROVE  Touches(c, n)
BY DEF PayoutWritten, OnlyCycle, Touches

LEMMA CountedTouches ==
    ASSUME TypeOK, NEW c \in Cycle, NEW n \in Node, cycle' = cycle,
           cycle[c].payouts[n].status # "none",
           \A d \in Cycle, m \in Node : d # c \/ m # n =>
               sends'[d][m] = sends[d][m] /\ lost'[d][m] = lost[d][m]
    PROVE  Touches(c, n)
BY DEF Touches

\* The payout at hand is listed.
LEMMA NextIsListed ==
    ASSUME TypeOK, NEW r \in Runners, TickInv(r), t[r].pc \in Paying, NEW n \in Node,
           IsNext(r, n)
    PROVE  /\ t[r].c \in Cycle /\ cycle[t[r].c].payouts[n].status # "none"
           /\ cycle[t[r].c].payouts[n].status \in PayoutStatus
           /\ t[r].read[n].txid # 0 => cycle[t[r].c].payouts[n].txid # 0
           /\ In(r, "mark") => cycle[t[r].c].payouts[n].txid # 0
<1>1. t[r].c \in Cycle /\ ReadInv(r, n)
  BY DEF TickInv, Working
<1>2. QED
  BY <1>1, PayoutTypes DEF ReadInv, IsNext

LEMMA LoopIs ==
    ASSUME TypeOK, NEW r \in Runners, TickInv(r), NEW n \in Node, LoopStep(r, n),
           NEW c, t[r].c = c
    PROVE  /\ TypeOK' /\ OnlyTick(r) /\ UNCHANGED <<received, up, overlaps>>
           /\ t[r].pc \in Paying /\ IsNext(r, n) /\ c \in Cycle
           /\ Touches(c, n) /\ Handles(r, c, n) /\ Counts(r, c, n)
<1>1. CASE ReconcilePayout(r, n)
  <2>1. /\ TypeOK' /\ OnlyTick(r) /\ Elsewhere /\ c \in Cycle
        /\ In(r, "pay") /\ IsNext(r, n) /\ t[r].read[n].txid # 0
    BY <1>1, ReconcilePayoutFx
  <2>2. PICK status \in PayoutStatus,
             txid \in {t[r].read[n].txid, cycle[c].payouts[n].txid} :
           /\ status # "none" /\ PayoutWritten(c, n, status, txid) /\ txid # 0
           /\ (status = "BROADCAST" /\ Done(r, n, FALSE)) \/ Done(r, n, TRUE)
    BY <1>1, <2>1, NextIsListed, ReconcilePayoutFx DEF In, Paying, PayoutStatus
  <2>3. Touches(c, n)
    BY <2>1, <2>2, WrittenTouches DEF Elsewhere
  <2>4. Handles(r, c, n)
    BY <2>2 DEF Handles, PayoutWritten
  <2>5. OnFile(c, n) = 1 /\ OnFile(c, n)' = 1
    BY <2>1, <2>2, NextIsListed DEF In, Paying, PayoutWritten, OnFile
  <2>6. Counts(r, c, n)
    BY <2>1, <2>2, <2>5 DEF Counts, Elsewhere, In, Done
  <2>7. QED
    BY <2>1, <2>3, <2>4, <2>6 DEF In, Paying, Elsewhere
<1>2. CASE SendPayout(r, n)
  <2>1. /\ TypeOK' /\ OnlyTick(r) /\ UNCHANGED <<cycle, received, up, lost, overlaps>>
        /\ In(r, "pay") /\ IsNext(r, n) /\ c \in Cycle /\ t[r].read[n].txid = 0
        /\ OneMore(sends, sends', c, n)
        /\ t'[r].pc = "record" /\ t'[r].txid # 0 /\ SamePayouts(r)
    BY <1>2, SendPayoutFx
  <2>2. Touches(c, n)
    BY <2>1, NextIsListed, CountedTouches DEF In, Paying, OneMore
  <2>3. Handles(r, c, n)
    BY <2>1 DEF Handles
  <2>4. Counts(r, c, n)
    BY <2>1 DEF Counts, OneMore, In, OnFile
  <2>5. QED
    BY <2>1, <2>2, <2>3, <2>4 DEF In, Paying
<1>3. CASE SendFails(r, n)
  <2>1. /\ TypeOK' /\ OnlyTick(r) /\ UNCHANGED <<cycle, received, up, overlaps>>
        /\ In(r, "pay") /\ IsNext(r, n) /\ c \in Cycle /\ t[r].read[n].txid = 0
        /\ t'[r].pc = "fail" /\ SamePayouts(r)
        /\ \/ sends' = sends /\ lost' = lost
           \/ OneMore(sends, sends', c, n) /\ OneMore(lost, lost', c, n)
    BY <1>3, SendFailsFx
  <2>2. Touches(c, n)
    BY <2>1, NextIsListed, CountedTouches DEF In, Paying, OneMore
  <2>3. Handles(r, c, n)
    BY <2>1 DEF Handles
  <2>4. Counts(r, c, n)
    BY <2>1 DEF Counts, OneMore, In, OnFile
  <2>5. QED
    BY <2>1, <2>2, <2>3, <2>4 DEF In, Paying
<1>4. CASE PersistPayoutTxid(r, n)
  <2>1. /\ TypeOK' /\ OnlyTick(r) /\ Elsewhere /\ In(r, "record") /\ IsNext(r, n)
        /\ c \in Cycle /\ PayoutWritten(c, n, cycle[c].payouts[n].status, t[r].txid)
        /\ t[r].txid # 0 /\ t'[r].pc = "mark" /\ t'[r].txid = t[r].txid /\ SamePayouts(r)
    BY <1>4, PersistPayoutTxidFx
  <2>2. Touches(c, n)
    BY <2>1, NextIsListed, WrittenTouches DEF In, Paying, Elsewhere
  <2>3. Handles(r, c, n) /\ OnFile(c, n)' = 1
    BY <2>1 DEF Handles, PayoutWritten, OnFile, SamePayouts
  <2>4. Counts(r, c, n)
    BY <2>1, <2>3 DEF Counts, In, Elsewhere
  <2>5. QED
    BY <2>1, <2>2, <2>3, <2>4 DEF In, Paying, Elsewhere
<1>5. CASE MarkPayoutBroadcast(r, n)
  <2>1. /\ TypeOK' /\ OnlyTick(r) /\ Elsewhere /\ In(r, "mark") /\ IsNext(r, n)
        /\ c \in Cycle /\ t[r].txid # 0 /\ PayoutWritten(c, n, "BROADCAST", t[r].txid)
        /\ Done(r, n, FALSE) /\ "BROADCAST" \in PayoutStatus
    BY <1>5, MarkPayoutBroadcastFx DEF PayoutStatus
  <2>2. Touches(c, n)
    BY <2>1, WrittenTouches DEF Elsewhere
  <2>3. OnFile(c, n) = 1 /\ OnFile(c, n)' = 1
    BY <2>1, NextIsListed DEF In, Paying, PayoutWritten, OnFile
  <2>4. Handles(r, c, n)
    BY <2>1 DEF Handles, PayoutWritten
  <2>5. Counts(r, c, n)
    BY <2>1, <2>3 DEF Counts, In, Elsewhere, Done
  <2>6. QED
    BY <2>1, <2>2, <2>4, <2>5 DEF In, Paying, Elsewhere
<1>6. CASE WriteFails(r, n)
  <2>1. /\ TypeOK' /\ OnlyTick(r) /\ UNCHANGED <<received, up, sends, overlaps>>
        /\ t[r].pc \in {"record", "mark"} /\ IsNext(r, n) /\ c \in Cycle
        /\ t[r].txid # 0 /\ t'[r].pc = "fail" /\ SamePayouts(r)
        /\ \/ /\ In(r, "record") /\ lost' = lost
              /\ PayoutWritten(c, n, cycle[c].payouts[n].status, t[r].txid)
           \/ /\ In(r, "record") /\ OneMore(lost, lost', c, n) /\ cycle' = cycle
           \/ /\ In(r, "mark") /\ lost' = lost
              /\ PayoutWritten(c, n, "BROADCAST", t[r].txid)
           \/ /\ In(r, "mark") /\ lost' = lost /\ cycle' = cycle
        /\ "BROADCAST" \in PayoutStatus
    BY <1>6, WriteFailsFx DEF PayoutStatus
  <2>2. /\ cycle[c].payouts[n].status # "none" /\ cycle[c].payouts[n].status \in PayoutStatus
        /\ In(r, "mark") => OnFile(c, n) = 1
    BY <2>1, NextIsListed DEF Paying, OnFile
  <2>3. Handles(r, c, n)
    BY <2>1 DEF Handles
  <2>4. Touches(c, n)
    BY <2>1, <2>2, WrittenTouches, CountedTouches DEF OneMore
  <2>5. Counts(r, c, n)
    BY <2>1, <2>2 DEF Counts, In, OneMore, PayoutWritten, OnFile
  <2>6. QED
    BY <2>1, <2>3, <2>4, <2>5 DEF In, Paying
<1>7. CASE MarkPayoutFailed(r, n)
  <2>1. /\ TypeOK' /\ OnlyTick(r) /\ Elsewhere /\ In(r, "fail") /\ IsNext(r, n)
        /\ c \in Cycle /\ PayoutWritten(c, n, "FAILED", cycle[c].payouts[n].txid)
        /\ Done(r, n, TRUE) /\ "FAILED" \in PayoutStatus
    BY <1>7, MarkPayoutFailedFx DEF PayoutStatus
  <2>2. Touches(c, n)
    BY <2>1, WrittenTouches DEF Elsewhere
  <2>3. Handles(r, c, n) /\ OnFile(c, n)' = OnFile(c, n)
    BY <2>1 DEF Handles, PayoutWritten, OnFile
  <2>4. Counts(r, c, n)
    BY <2>1, <2>3 DEF Counts, In, Elsewhere, Done
  <2>5. QED
    BY <2>1, <2>2, <2>3, <2>4 DEF In, Paying, Elsewhere
<1>8. QED
  BY <1>1, <1>2, <1>3, <1>4, <1>5, <1>6, <1>7 DEF LoopStep

\* A tick at rest, or one that starts on what is on file.
Settles(r) ==
    \/ t'[r].pc \notin Working
    \/ \E c \in Cycle : /\ Executes(r, c)
                        /\ cycle[c].status = "PAYING_OUT" \/ (In(r, "fetch") /\ t[r].c = c)

LEMMA QuietIs ==
    ASSUME TypeOK, NEW r \in Runners, TickInv(r), QuietStep(r)
    PROVE  /\ TypeOK' /\ OnlyTick(r) /\ UNCHANGED <<cycle, received, up, sends, lost>>
           /\ Settles(r) /\ ~In(r, "record") /\ ~In(r, "off")
           /\ overlaps' = overlaps \/ overlaps' = overlaps + 1
           /\ Running(r) => overlaps' = overlaps
           /\ In(r, "gate") \/ (t'[r].pc \in {"read", "create"} => In(r, "read"))
<1>1. CASE StartTick(r)
  <2>1. /\ TypeOK' /\ OnlyTick(r) /\ In(r, "idle")
        /\ UNCHANGED <<cycle, received, up, sends, lost>>
        /\ overlaps' = overlaps \/ overlaps' = overlaps + 1
    BY <1>1, StartTickFx
  <2>2. t'[r].pc = "gate" \/ \E c \in Cycle : Resumable(c) /\ Executes(r, c)
    BY <1>1, StartTickFx
  <2>3. CASE t'[r].pc = "gate"
    BY <2>1, <2>3 DEF Settles, Working, Paying, In, Running
  <2>4. CASE \E c \in Cycle : Resumable(c) /\ Executes(r, c)
    <3>1. PICK c \in Cycle : Resumable(c) /\ Executes(r, c)
      BY <2>4
    <3>2. Settles(r)
      BY <3>1 DEF Settles, Resumable
    <3>3. t'[r].pc = "pay"
      BY <3>1 DEF Executes
    <3>4. QED
      BY <2>1, <3>2, <3>3 DEF In, Running
  <2>5. QED
    BY <2>2, <2>3, <2>4
<1>2. CASE CadenceGate(r)
  BY <1>2, CadenceGateFx DEF Settles, Working, Paying, In, Elsewhere
<1>3. CASE ReadPool(r)
  BY <1>3, ReadPoolFx DEF Settles, Working, Paying, In, Elsewhere
<1>4. CASE FetchCycle(r)
  BY <1>4, FetchCycleFx DEF Settles, In, Elsewhere, Executes
<1>5. CASE TickError(r)
  BY <1>5, TickErrorFx DEF Settles, Working, Paying, In, Elsewhere, Running
<1>6. QED
  BY <1>1, <1>2, <1>3, <1>4, <1>5 DEF QuietStep

-----------------------------------------------------------------------------
(***************************************************************************)
(* What ticks know, and the documents.                                     *)
(***************************************************************************)

\* A document stays what it is but for the payouts' progress, and a txid stays on file.
Forward ==
    \A c \in Cycle : cycle[c].status # "none" =>
        /\ cycle'[c].status # "none"
        /\ cycle'[c].pool = cycle[c].pool /\ cycle'[c].share = cycle[c].share
        /\ \A n \in Node :
              LET old == cycle[c].payouts[n]
                  new == cycle'[c].payouts[n]
              IN  /\ old.status = "none" <=> new.status = "none"
                  /\ old.txid # 0 => new.txid # 0

LEMMA TickKept ==
    ASSUME NEW q \in Runners, TickInv(q), Forward, t'[q] = t[q]
    PROVE  TickInv(q)'
<1>1. /\ t[q].pc \in Working => t[q].c \in Cycle /\ cycle[t[q].c].status # "none"
      /\ t[q].pc \in Paying => \A n \in Node : ReadInv(q, n)
      /\ t[q].pc \in {"record", "mark"} => t[q].txid # 0
  BY DEF TickInv
<1>2. t[q].pc \in Working => cycle'[t[q].c].status # "none"
  BY <1>1 DEF Forward
<1>3. ASSUME t[q].pc \in Paying, NEW n \in Node PROVE ReadInv(q, n)'
  <2>1. ReadInv(q, n) /\ t[q].c \in Cycle /\ cycle[t[q].c].status # "none"
    BY <1>1, <1>3 DEF Working
  <2>2. LET old == cycle[t[q].c].payouts[n]
            new == cycle'[t[q].c].payouts[n]
        IN  /\ old.status = "none" <=> new.status = "none"
            /\ old.txid # 0 => new.txid # 0
    BY <2>1 DEF Forward
  <2>3. QED
    BY <2>1, <2>2 DEF ReadInv, In, IsNext
<1>4. QED
  BY <1>1, <1>2, <1>3 DEF TickInv

LEMMA TickRests ==
    ASSUME NEW r \in Runners, t'[r].pc \notin Working
    PROVE  TickInv(r)'
BY DEF TickInv, Working, Paying

\* A tick that starts on what is on file.
LEMMA TickExecutes ==
    ASSUME TypeOK, NEW r \in Runners, NEW c \in Cycle, Executes(r, c), cycle' = cycle,
           cycle[c].status # "none"
    PROVE  TickInv(r)'
<1>1. /\ t'[r].pc = "pay" /\ t'[r].c = c /\ t'[r].failed = FALSE
      /\ t'[r].read = cycle[c].payouts /\ t'[r].todo = Unpaid(cycle[c].payouts)
  BY DEF Executes
<1>2. ASSUME NEW n \in Node PROVE ReadInv(r, n)'
  <2>1. n \in t'[r].todo => cycle[c].payouts[n].status # "none"
    BY <1>1 DEF Unpaid
  <2>2. n \notin t'[r].todo /\ cycle[c].payouts[n].status # "none" =>
           cycle[c].payouts[n].txid # 0
    BY <1>1 DEF Unpaid
  <2>3. QED
    BY <1>1, <2>1, <2>2 DEF ReadInv, In
<1>3. QED
  BY <1>1, <1>2 DEF TickInv, Working, Paying

LEMMA TouchesForward ==
    ASSUME NEW c \in Cycle, NEW n \in Node, Touches(c, n),
           cycle[c].payouts[n].status # "none"
    PROVE  Forward
<1> SUFFICES ASSUME NEW d \in Cycle, cycle[d].status # "none"
             PROVE  /\ cycle'[d].status # "none"
                    /\ cycle'[d].pool = cycle[d].pool /\ cycle'[d].share = cycle[d].share
                    /\ \A m \in Node :
                          LET old == cycle[d].payouts[m]
                              new == cycle'[d].payouts[m]
                          IN  /\ old.status = "none" <=> new.status = "none"
                              /\ old.txid # 0 => new.txid # 0
  BY DEF Forward
<1>1. /\ cycle'[d].status = cycle[d].status /\ cycle'[d].pool = cycle[d].pool
      /\ cycle'[d].share = cycle[d].share
  BY DEF Touches
<1>2. ASSUME NEW m \in Node
      PROVE  LET old == cycle[d].payouts[m]
                 new == cycle'[d].payouts[m]
             IN  /\ old.status = "none" <=> new.status = "none"
                 /\ old.txid # 0 => new.txid # 0
  <2>1. CASE d = c /\ m = n
    BY <2>1 DEF Touches
  <2>2. CASE d # c \/ m # n
    <3>1. cycle'[d].payouts[m] = cycle[d].payouts[m]
      BY <2>2 DEF Touches
    <3>2. QED
      BY <3>1
  <2>3. QED
    BY <2>1, <2>2
<1>3. QED
  BY <1>1, <1>2

\* A tick in executeCycle's loop that takes a step of it.
LEMMA TickLoops ==
    ASSUME TypeOK, NEW r \in Runners, TickInv(r), NEW n \in Node, NEW c \in Cycle,
           t[r].c = c, t[r].pc \in Paying, IsNext(r, n), Forward, Handles(r, c, n)
    PROVE  TickInv(r)'
<1>1. cycle[c].status # "none" /\ \A m \in Node : ReadInv(r, m)
  BY DEF TickInv, Working
<1>2. \A m \in Node : LET old == cycle[c].payouts[m]
                          new == cycle'[c].payouts[m]
                      IN  /\ old.status = "none" <=> new.status = "none"
                          /\ old.txid # 0 => new.txid # 0
  BY <1>1 DEF Forward
<1>3. cycle'[c].status # "none"
  BY <1>1 DEF Forward
<1>4. CASE /\ SamePayouts(r) /\ t'[r].pc \in {"record", "mark", "fail"}
           /\ t'[r].pc # "fail" => t'[r].txid # 0
           /\ t'[r].pc = "mark" => cycle'[c].payouts[n].txid # 0
  <2>1. /\ t'[r].c = c /\ t'[r].read = t[r].read
        /\ t'[r].todo = t[r].todo /\ t'[r].failed = t[r].failed
    BY <1>4 DEF SamePayouts
  <2>2. ASSUME NEW m \in Node PROVE ReadInv(r, m)'
    <3>1. IsNext(r, m)' => m = n
      BY <2>1, OneIsNext DEF IsNext
    <3>2. QED
      BY <1>1, <1>2, <1>4, <2>1, <3>1 DEF ReadInv, In
  <2>3. QED
    BY <1>3, <1>4, <2>1, <2>2 DEF TickInv
<1>5. ASSUME NEW failed \in BOOLEAN, Done(r, n, failed),
             ~failed => cycle'[c].payouts[n].txid # 0
      PROVE  TickInv(r)'
  <2>1. /\ t'[r].pc = "pay" /\ t'[r].c = c /\ t'[r].read = t[r].read
        /\ t'[r].todo = t[r].todo \ {n} /\ (t'[r].failed <=> t[r].failed \/ failed)
    BY <1>5 DEF Done
  <2>2. ASSUME NEW m \in Node PROVE ReadInv(r, m)'
    <3>1. ~t'[r].failed => ~t[r].failed /\ ~failed
      BY <2>1
    <3>2. /\ m \in t'[r].todo => m \in t[r].todo
          /\ m \notin t'[r].todo => m \notin t[r].todo \/ m = n
      BY <2>1
    <3>3. QED
      BY <1>1, <1>2, <1>5, <2>1, <3>1, <3>2 DEF ReadInv, In
  <2>3. QED
    BY <1>3, <2>1, <2>2 DEF TickInv, Paying
<1>6. QED
  BY <1>4, <1>5 DEF Handles

\* A cycle that is stored takes no step back: it had no payouts.
LEMMA StoredForward ==
    ASSUME NEW c \in Free, NEW nodes, Stored(c, nodes)
    PROVE  Forward
BY DEF Stored, OnlyCycle, Forward, Free

LEMMA ClosedForward ==
    ASSUME NEW c \in Cycle, NEW status, status # "none", Closed(c, status)
    PROVE  Forward
BY DEF Closed, OnlyCycle, Forward

\* The facts of a document that make up its part of the invariant.
LEMMA DocKept ==
    ASSUME NEW c \in Cycle, DocInv(c), Forward, cycle[c].status # "none",
           \A n \in Node \ Listed(c) :
              /\ cycle'[c].payouts[n].txid = cycle[c].payouts[n].txid
              /\ sends'[c][n] = sends[c][n] /\ lost'[c][n] = lost[c][n],
           cycle'[c].status = "COMPLETE" /\ cycle[c].status # "COMPLETE" =>
              \A n \in Listed(c) : cycle[c].payouts[n].txid # 0
    PROVE  DocInv(c)' /\ Listed(c)' = Listed(c)
<1>1. /\ cycle'[c].status # "none"
      /\ cycle'[c].pool = cycle[c].pool /\ cycle'[c].share = cycle[c].share
      /\ \A n \in Node : /\ cycle[c].payouts[n].status = "none"
                               <=> cycle'[c].payouts[n].status = "none"
                         /\ cycle[c].payouts[n].txid # 0 => cycle'[c].payouts[n].txid # 0
  BY DEF Forward
<1>2. Listed(c)' = Listed(c)
  BY <1>1 DEF Listed
<1>3. /\ \A n \in Node \ Listed(c) :
            cycle[c].payouts[n].txid = 0 /\ sends[c][n] = 0 /\ lost[c][n] = 0
      /\ cycle[c].status = "COMPLETE" => \A n \in Listed(c) : cycle[c].payouts[n].txid # 0
      /\ (cycle[c].share + PayoutFee) * Cardinality(Listed(c)) <= cycle[c].pool
  BY DEF DocInv
<1>4. \A n \in Node \ Listed(c)' :
         cycle'[c].payouts[n].txid = 0 /\ sends'[c][n] = 0 /\ lost'[c][n] = 0
  BY <1>2, <1>3
<1>5. cycle'[c].status = "COMPLETE" => \A n \in Listed(c)' : cycle'[c].payouts[n].txid # 0
  <2>1. Listed(c) \in SUBSET Node
    BY DEF Listed
  <2>2. QED
    BY <1>1, <1>2, <1>3, <2>1
<1>6. (cycle'[c].share + PayoutFee) * Cardinality(Listed(c)') <= cycle'[c].pool
  BY <1>1, <1>2, <1>3
<1>7. QED
  BY <1>1, <1>2, <1>4, <1>5, <1>6 DEF DocInv

\* A document that nothing touches.
LEMMA DocSame ==
    ASSUME NEW c \in Cycle, DocInv(c),
           cycle'[c].status = cycle[c].status, cycle'[c].payouts = cycle[c].payouts,
           cycle'[c].pool = cycle[c].pool, cycle'[c].share = cycle[c].share,
           \A n \in Node : sends'[c][n] = sends[c][n] /\ lost'[c][n] = lost[c][n]
    PROVE  DocInv(c)'
<1>1. Listed(c)' = Listed(c)
  BY DEF Listed
<1>2. QED
  BY <1>1 DEF DocInv

LEMMA TouchesDoc ==
    ASSUME TypeOK, NEW c \in Cycle, NEW n \in Node, Touches(c, n),
           cycle[c].payouts[n].status # "none", NEW d \in Cycle, DocInv(d)
    PROVE  DocInv(d)'
<1>1. /\ cycle'[d].status = cycle[d].status /\ cycle'[d].pool = cycle[d].pool
      /\ cycle'[d].share = cycle[d].share
      /\ \A m \in Node : d # c \/ m # n =>
            /\ cycle'[d].payouts[m] = cycle[d].payouts[m]
            /\ sends'[d][m] = sends[d][m] /\ lost'[d][m] = lost[d][m]
  BY DEF Touches
<1>2. CASE d = c
  <2>1. n \in Listed(d)
    BY <1>2 DEF Listed
  <2>2. cycle[d].status # "none"
    BY <2>1 DEF DocInv
  <2>3. Forward
    BY TouchesForward
  <2>4. QED
    BY <1>1, <2>1, <2>2, <2>3, DocKept
<1>3. CASE d # c
  <2>1. ASSUME NEW m \in Node
        PROVE  /\ cycle'[d].payouts[m].status = cycle[d].payouts[m].status
               /\ cycle'[d].payouts[m].txid = cycle[d].payouts[m].txid
               /\ sends'[d][m] = sends[d][m] /\ lost'[d][m] = lost[d][m]
    BY <1>1, <1>3
  <2>2. Listed(d)' = Listed(d) /\ Listed(d) \in SUBSET Node
    BY <2>1 DEF Listed
  <2>3. QED
    BY <1>1, <2>1, <2>2 DEF DocInv
<1>4. QED
  BY <1>2, <1>3

\* A cycle is stored.
LEMMA StoredDoc ==
    ASSUME TypeOK, NEW c \in Free, NEW nodes \in SUBSET Node, Stored(c, nodes),
           cycle'[c].status \notin {"none", "COMPLETE"}, sends' = sends, lost' = lost,
           NEW d \in Cycle, DocInv(d)
    PROVE  DocInv(d)'
<1>1. CASE d # c
  BY <1>1, DocSame DEF Stored, OnlyCycle
<1>2. CASE d = c
  <2>1. Listed(d) = {} /\ \A n \in Node : sends[d][n] = 0 /\ lost[d][n] = 0
    BY <1>2 DEF Free, DocInv
  <2>2. /\ \A n \in Node : /\ cycle'[d].payouts[n].txid = 0
                           /\ cycle'[d].payouts[n].status # "none" <=> n \in nodes
        /\ (cycle'[d].share + PayoutFee) * Cardinality(nodes) <= cycle'[d].pool
    BY <1>2 DEF Stored
  <2>3. Listed(d)' = nodes
    BY <2>2 DEF Listed
  <2>4. QED
    BY <1>2, <2>1, <2>2, <2>3 DEF DocInv
<1>3. QED
  BY <1>1, <1>2

\* A cycle is closed by a tick that has handled all of its payouts.
LEMMA ClosedDoc ==
    ASSUME TypeOK, NEW r \in Runners, TickInv(r), In(r, "pay"), t[r].todo = {},
           NEW c \in Cycle, t[r].c = c, NEW status \in {"FAILED", "COMPLETE"},
           Closed(c, status), status = "COMPLETE" => ~t[r].failed,
           sends' = sends, lost' = lost, NEW d \in Cycle, DocInv(d)
    PROVE  DocInv(d)'
<1>1. CASE d # c
  BY <1>1, DocSame DEF Closed, OnlyCycle
<1>2. CASE d = c
  <2>1. cycle[d].status # "none" /\ \A n \in Node : ReadInv(r, n)
    BY <1>2 DEF TickInv, In, Working, Paying
  <2>2. ~t[r].failed => \A n \in Listed(d) : cycle[d].payouts[n].txid # 0
    BY <1>2, <2>1 DEF ReadInv, Listed
  <2>3. Forward
    BY ClosedForward
  <2>4. cycle'[d].status = status /\ cycle'[d].payouts = cycle[d].payouts
    BY <1>2 DEF Closed
  <2>5. QED
    BY <2>1, <2>2, <2>3, <2>4, DocKept
<1>3. QED
  BY <1>1, <1>2

-----------------------------------------------------------------------------
(***************************************************************************)
(* The counts of payments.                                                 *)
(***************************************************************************)

\* How the counts of ticks follow from the one tick that moves.
LEMMA HandMoves ==
    ASSUME NEW r \in Runners, OnlyTick(r), NEW c \in Cycle, NEW n \in Node
    PROVE  /\ Cardinality(Hand(c, n)) \in Nat /\ Cardinality(Hand(c, n))' \in Nat
           /\ Holds(r, c, n)' /\ ~Holds(r, c, n) =>
                 Cardinality(Hand(c, n))' = Cardinality(Hand(c, n)) + 1
           /\ ~Holds(r, c, n)' /\ Holds(r, c, n) =>
                 Cardinality(Hand(c, n))' = Cardinality(Hand(c, n)) - 1
           /\ (Holds(r, c, n)' <=> Holds(r, c, n)) =>
                 Cardinality(Hand(c, n))' = Cardinality(Hand(c, n))
<1>1. Hand(c, n) \in SUBSET Runners /\ Hand(c, n)' \in SUBSET Runners
  BY DEF Hand
<1>2. \A q \in Runners \ {r} : q \in Hand(c, n) <=> q \in Hand(c, n)'
  BY DEF Hand, Holds, In, IsNext, OnlyTick
<1>3. /\ r \in Hand(c, n) <=> Holds(r, c, n)
      /\ r \in Hand(c, n)' <=> Holds(r, c, n)'
  BY DEF Hand
<1>4. QED
  BY <1>1, <1>2, <1>3, Facts, CardChange

LEMMA SendersMove ==
    ASSUME NEW r \in Runners, OnlyTick(r), NEW c \in Cycle, NEW n \in Node
    PROVE  /\ Cardinality(Senders(c, n)) \in Nat /\ Cardinality(Senders(c, n))' \in Nat
           /\ Sends(r, c, n)' /\ ~Sends(r, c, n) =>
                 Cardinality(Senders(c, n))' = Cardinality(Senders(c, n)) + 1
           /\ ~Sends(r, c, n)' /\ Sends(r, c, n) =>
                 Cardinality(Senders(c, n))' = Cardinality(Senders(c, n)) - 1
           /\ (Sends(r, c, n)' <=> Sends(r, c, n)) =>
                 Cardinality(Senders(c, n))' = Cardinality(Senders(c, n))
<1>1. Senders(c, n) \in SUBSET Runners /\ Senders(c, n)' \in SUBSET Runners
  BY DEF Senders
<1>2. \A q \in Runners \ {r} : q \in Senders(c, n) <=> q \in Senders(c, n)'
  BY DEF Senders, Sends, In, IsNext, OnlyTick
<1>3. /\ r \in Senders(c, n) <=> Sends(r, c, n)
      /\ r \in Senders(c, n)' <=> Sends(r, c, n)'
  BY DEF Senders
<1>4. QED
  BY <1>1, <1>2, <1>3, Facts, CardChange

\* The ticks that hold a payment of n and those that will make one are different.
LEMMA HandsRun ==
    ASSUME TypeOK, RunInv, NEW c \in Cycle, NEW n \in Node
    PROVE  Cardinality(Hand(c, n)) + Cardinality(Senders(c, n)) <= 1 + overlaps
<1> DEFINE H == Hand(c, n)
           S == Senders(c, n)
<1>1. H \in SUBSET Runners /\ S \in SUBSET Runners /\ Ticking \in SUBSET Runners
  BY DEF Hand, Senders, Ticking
<1>2. H \union S \in SUBSET Ticking
  BY DEF Hand, Senders, Holds, Sends, Ticking, Running, In, Paying
<1>3. H \intersect S = {}
  BY DEF Hand, Senders, Holds, Sends, In
<1>4. IsFiniteSet(H) /\ IsFiniteSet(S) /\ IsFiniteSet(Ticking)
  BY <1>1, Facts, FS_Subset
<1> HIDE DEF H, S
<1>5. Cardinality(H \union S) = Cardinality(H) + Cardinality(S) - Cardinality(H \intersect S)
  BY <1>4, FS_Union
<1>6. Cardinality(H \intersect S) = 0
  BY <1>3, FS_EmptySet
<1>7. Cardinality(H \union S) <= Cardinality(Ticking)
  BY <1>2, <1>4, FS_Subset
<1>8. Cardinality(H) \in Nat /\ Cardinality(S) \in Nat /\ Cardinality(Ticking) \in Nat
  BY <1>4, FS_CardinalityType
<1>9. Cardinality(H) + Cardinality(S) <= Cardinality(Ticking)
  BY <1>5, <1>6, <1>7, <1>8
<1>10. Cardinality(Ticking) <= 1 + overlaps /\ overlaps \in Nat
  BY Facts DEF RunInv, TypeOK
<1>11. Cardinality(H) + Cardinality(S) <= 1 + overlaps
  BY <1>8, <1>9, <1>10
<1>12. QED
  BY <1>11 DEF H, S

\* The arithmetic of each kind of step.
LEMMA CountedPlain ==
    ASSUME NEW n \in Nat, NEW file \in {0, 1}, NEW forgot \in Nat, NEW hand \in Nat,
           NEW send \in Nat, NEW over \in Nat, Counted(n, file, forgot, hand, send, over),
           NEW next \in Nat, file = 1 => next <= send, NEW later \in Nat, over <= later
    PROVE  Counted(n, file, forgot, hand, next, later)
BY DEF Counted

LEMMA CountedSend ==
    ASSUME NEW n \in Nat, NEW file \in {0, 1}, NEW forgot \in Nat, NEW hand \in Nat,
           NEW send \in Nat, NEW over \in Nat, Counted(n, file, forgot, hand, send, over)
    PROVE  /\ Counted(n + 1, file, forgot, hand + 1, send - 1, over)
           /\ Counted(n + 1, file, forgot + 1, hand, send - 1, over)
BY DEF Counted

LEMMA CountedRecord ==
    ASSUME NEW n \in Nat, NEW file \in {0, 1}, NEW forgot \in Nat, NEW hand \in Nat,
           NEW send \in Nat, NEW over \in Nat, Counted(n, file, forgot, hand, send, over)
    PROVE  /\ hand + send <= 1 + over => Counted(n, 1, forgot, hand - 1, send, over)
           /\ Counted(n, file, forgot + 1, hand - 1, send, over)
BY DEF Counted

LEMMA CountedEnd ==
    ASSUME NEW n \in Nat, NEW file \in {0, 1}, NEW forgot \in Nat, NEW hand \in Nat,
           NEW send \in Nat, NEW over \in Nat, Counted(n, file, forgot, hand, send, over)
    PROVE  Counted(n, file, forgot + hand, 0, 0, over)
BY DEF Counted

\* A step that makes, files and forgets no payment of n.
LEMMA CountKept ==
    ASSUME TypeOK, TypeOK', NEW r \in Runners, OnlyTick(r), NEW c \in Cycle, NEW n \in Node,
           CountInv(c, n), overlaps' >= overlaps,
           sends'[c][n] = sends[c][n], lost'[c][n] = lost[c][n],
           OnFile(c, n)' = OnFile(c, n), Holds(r, c, n)' <=> Holds(r, c, n),
           OnFile(c, n) = 1 => (Sends(r, c, n)' => Sends(r, c, n))
    PROVE  CountInv(c, n)'
<1> DEFINE p == sends[c][n]
           h == Cardinality(Hand(c, n))
           g == Cardinality(Hand(c, n))'
           s == Cardinality(Senders(c, n))
           u == Cardinality(Senders(c, n))'
           l == lost[c][n]
<1>1. /\ p \in Nat /\ l \in Nat /\ overlaps \in Nat /\ overlaps' \in Nat
      /\ overlaps <= overlaps'
  BY PayoutTypes, Facts DEF TypeOK
<1>2. h \in Nat /\ g = h
  BY HandMoves
<1>3. s \in Nat /\ u \in Nat /\ (OnFile(c, n) = 1 => u <= s)
  <2>1. /\ s \in Nat /\ u \in Nat
        /\ Sends(r, c, n)' /\ ~Sends(r, c, n) => u = s + 1
        /\ ~Sends(r, c, n)' /\ Sends(r, c, n) => u = s - 1
        /\ (Sends(r, c, n)' <=> Sends(r, c, n)) => u = s
    BY SendersMove
  <2> HIDE DEF s, u
  <2>2. QED
    BY <2>1
<1>4. Counted(p, OnFile(c, n), l, h, s, overlaps)
  BY DEF CountInv
<1>5. Counted(p, OnFile(c, n), l, g, u, overlaps')
  BY <1>1, <1>2, <1>3, <1>4, CountedPlain DEF OnFile
<1>6. QED
  BY <1>5 DEF CountInv

\* The same, when no payment of n is in r's hand before or after, and r may only give
\* up a payment it was to make.
LEMMA CountPlain ==
    ASSUME TypeOK, TypeOK', NEW r \in Runners, OnlyTick(r), NEW c \in Cycle, NEW n \in Node,
           CountInv(c, n), overlaps' >= overlaps,
           cycle'[c].payouts = cycle[c].payouts, sends' = sends, lost' = lost,
           ~In(r, "record"), Settles(r)
    PROVE  CountInv(c, n)'
<1>1. OnFile(c, n)' = OnFile(c, n)
  BY DEF OnFile
<1>2. ~Holds(r, c, n) /\ ~Holds(r, c, n)'
  BY DEF Holds, In, Settles, Executes, Working, Paying
<1>3. OnFile(c, n) = 1 => ~Sends(r, c, n)'
  <2>1. CASE t'[r].pc \notin Working
    BY <2>1 DEF Sends, Working
  <2>2. CASE \E d \in Cycle : Executes(r, d)
    <3>1. PICK d \in Cycle : Executes(r, d)
      BY <2>2
    <3>2. Sends(r, c, n)' => c = d /\ cycle[c].payouts[n].txid = 0
      BY <3>1 DEF Executes, Sends
    <3>3. QED
      BY <3>2 DEF OnFile
  <2>3. QED
    BY <2>1, <2>2 DEF Settles
<1>4. QED
  BY <1>1, <1>2, <1>3, CountKept

\* Other payouts than the one at hand.
LEMMA OthersHeld ==
    ASSUME NEW r \in Runners, NEW n \in Node, NEW c \in Cycle, t[r].c = c,
           t[r].pc \in Paying, IsNext(r, n), Handles(r, c, n),
           NEW d \in Cycle, NEW m \in Node, d # c \/ m # n
    PROVE  /\ Holds(r, d, m)' <=> Holds(r, d, m)
           /\ Sends(r, d, m)' => Sends(r, d, m)
<1>1. /\ t'[r].c = c /\ t'[r].read = t[r].read
      /\ t'[r].todo \subseteq t[r].todo
      /\ SamePayouts(r) \/ In(r, "pay")'
  BY DEF Handles, SamePayouts, Done, In
<1>2. ~Holds(r, d, m)
  BY OneIsNext DEF Holds
<1>3. ~Holds(r, d, m)'
  <2>1. CASE SamePayouts(r)
    <3>1. t'[r].todo = t[r].todo
      BY <2>1 DEF SamePayouts
    <3>2. IsNext(r, m)' <=> IsNext(r, m)
      BY <3>1 DEF IsNext
    <3>3. QED
      BY <1>1, <3>2, OneIsNext DEF Holds
  <2>2. CASE In(r, "pay")'
    BY <2>2 DEF Holds, In
  <2>3. QED
    BY <1>1, <2>1, <2>2
<1>4. ASSUME Sends(r, d, m)' PROVE Sends(r, d, m)
  <2>1. d = c /\ m \in t[r].todo /\ t[r].read[m].txid = 0
    BY <1>1, <1>4 DEF Sends
  <2>2. m # n /\ ~IsNext(r, m)
    BY <2>1, OneIsNext
  <2>3. QED
    BY <2>1, <2>2 DEF Sends
<1>5. QED
  BY <1>2, <1>3, <1>4

\* A tick that took a step with payout n will not pay it again.
LEMMA OneSend ==
    ASSUME NEW r \in Runners, NEW n \in Node, NEW c \in Cycle, t[r].c = c,
           IsNext(r, n), Handles(r, c, n)
    PROVE  ~Sends(r, c, n)' /\ (In(r, "record")' => Holds(r, c, n)')
<1>1. CASE SamePayouts(r) /\ t'[r].pc \in {"record", "mark", "fail"}
  BY <1>1 DEF SamePayouts, Sends, IsNext, In, Holds
<1>2. CASE \E failed \in BOOLEAN : Done(r, n, failed)
  BY <1>2 DEF Done, Sends, In
<1>3. QED
  BY <1>1, <1>2 DEF Handles

LEMMA LoopCount ==
    ASSUME TypeOK, NEW r \in Runners, TickInv(r), RunInv, NEW n \in Node, LoopStep(r, n),
           NEW c, t[r].c = c, NEW d \in Cycle, NEW m \in Node, CountInv(d, m)
    PROVE  CountInv(d, m)'
<1> DEFINE p == sends[d][m]
           h == Cardinality(Hand(d, m))
           g == Cardinality(Hand(d, m))'
           s == Cardinality(Senders(d, m))
           u == Cardinality(Senders(d, m))'
           l == lost[d][m]
           f == OnFile(d, m)
<1>1. /\ TypeOK' /\ OnlyTick(r) /\ overlaps' = overlaps
      /\ t[r].pc \in Paying /\ IsNext(r, n) /\ c \in Cycle
      /\ Touches(c, n) /\ Handles(r, c, n) /\ Counts(r, c, n)
  BY LoopIs
<1>2. /\ p \in Nat /\ l \in Nat /\ f \in {0, 1} /\ overlaps \in Nat
  BY PayoutTypes, Facts DEF TypeOK
<1>3. overlaps' >= overlaps
  BY <1>1, <1>2
<1>4. CASE d # c \/ m # n
  <2>1. /\ sends'[d][m] = p /\ lost'[d][m] = l /\ OnFile(d, m)' = f
    BY <1>1, <1>4 DEF Touches, OnFile
  <2>2. /\ Holds(r, d, m)' <=> Holds(r, d, m)
        /\ Sends(r, d, m)' => Sends(r, d, m)
    BY <1>1, <1>4, OthersHeld
  <2>3. QED
    BY <1>1, <1>3, <2>1, <2>2, CountKept
<1>5. CASE d = c /\ m = n
  <2>1. ~Sends(r, d, m)' /\ (In(r, "record")' <=> Holds(r, d, m)')
        /\ (In(r, "record") <=> Holds(r, d, m))
    BY <1>1, <1>5, OneSend DEF Holds
  <2>2. /\ h \in Nat /\ g \in Nat /\ s \in Nat /\ u \in Nat
        /\ Holds(r, d, m)' /\ ~Holds(r, d, m) => g = h + 1
        /\ ~Holds(r, d, m)' /\ Holds(r, d, m) => g = h - 1
        /\ (Holds(r, d, m)' <=> Holds(r, d, m)) => g = h
        /\ Sends(r, d, m) => u = s - 1
        /\ ~Sends(r, d, m) => u = s
    BY <1>1, <2>1, HandMoves, SendersMove
  <2>3. Counted(p, f, l, h, s, overlaps)
    BY DEF CountInv
  <2>4. CASE /\ sends'[c][n] = sends[c][n] /\ lost'[c][n] = lost[c][n]
             /\ OnFile(c, n)' = OnFile(c, n) /\ ~In(r, "record") /\ ~In(r, "record")'
    BY <1>1, <1>3, <1>5, <2>1, <2>4, CountKept
  <2>5. CASE /\ In(r, "pay") /\ t[r].read[n].txid = 0
             /\ sends'[c][n] = sends[c][n] + 1 /\ OnFile(c, n)' = OnFile(c, n)
             /\ \/ In(r, "record")' /\ SamePayouts(r) /\ lost'[c][n] = lost[c][n]
                \/ In(r, "fail")' /\ lost'[c][n] = lost[c][n] + 1
    <3>1. Sends(r, d, m) /\ ~In(r, "record")
      BY <1>1, <1>5, <2>5 DEF Sends, IsNext, In
    <3>2. /\ Counted(p + 1, f, l, h + 1, s - 1, overlaps)
          /\ Counted(p + 1, f, l + 1, h, s - 1, overlaps)
      BY <1>2, <2>2, <2>3, CountedSend
    <3>3. u = s - 1
      BY <2>2, <3>1
    <3>4. \/ g = h + 1 /\ lost'[d][m] = l
          \/ g = h /\ lost'[d][m] = l + 1
      <4>1. CASE In(r, "record")' /\ lost'[c][n] = lost[c][n]
        BY <1>5, <2>1, <2>2, <3>1, <4>1
      <4>2. CASE In(r, "fail")' /\ lost'[c][n] = lost[c][n] + 1
        <5>1. ~In(r, "record")'
          BY <4>2 DEF In
        <5>2. QED
          BY <1>5, <2>1, <2>2, <3>1, <4>2, <5>1
      <4>3. QED
        BY <2>5, <4>1, <4>2
    <3>5. sends'[d][m] = p + 1 /\ OnFile(d, m)' = f
      BY <1>5, <2>5
    <3>6. Counted(sends'[d][m], OnFile(d, m)', lost'[d][m], g, u, overlaps')
      BY <1>1, <3>2, <3>3, <3>4, <3>5
    <3>7. QED
      BY <3>6 DEF CountInv
  <2>6. CASE /\ In(r, "record") /\ ~In(r, "record")' /\ sends'[c][n] = sends[c][n]
             /\ \/ OnFile(c, n)' = 1 /\ lost'[c][n] = lost[c][n]
                \/ OnFile(c, n)' = OnFile(c, n) /\ lost'[c][n] = lost[c][n] + 1
    <3>1. ~Sends(r, d, m)
      BY <1>1, <1>5, <2>6 DEF Sends, In
    <3>2. g = h - 1 /\ u = s
      BY <2>1, <2>2, <2>6, <3>1
    <3>3. h + s <= 1 + overlaps
      BY HandsRun
    <3>4. /\ Counted(p, 1, l, h - 1, s, overlaps)
          /\ Counted(p, f, l + 1, h - 1, s, overlaps)
      BY <1>2, <2>2, <2>3, <3>3, CountedRecord
    <3>5. /\ sends'[d][m] = p
          /\ \/ OnFile(d, m)' = 1 /\ lost'[d][m] = l
             \/ OnFile(d, m)' = f /\ lost'[d][m] = l + 1
      BY <1>5, <2>6
    <3>6. Counted(sends'[d][m], OnFile(d, m)', lost'[d][m], g, u, overlaps')
      BY <1>1, <3>2, <3>4, <3>5
    <3>7. QED
      BY <3>6 DEF CountInv
  <2>7. QED
    BY <1>1, <2>4, <2>5, <2>6 DEF Counts
<1>6. QED
  BY <1>4, <1>5

\* A cycle is stored: it has been paid nothing.
LEMMA StoredCount ==
    ASSUME TypeOK, TypeOK', NEW r \in Runners, OnlyTick(r), In(r, "create"), ~In(r, "record")',
           t'[r].pc \notin Paying, NEW c \in Free, NEW nodes \in SUBSET Node,
           Stored(c, nodes), sends' = sends, lost' = lost, overlaps' = overlaps,
           NEW d \in Cycle, NEW n \in Node, CountInv(d, n), DocInv(d)
    PROVE  CountInv(d, n)'
<1>1. OnFile(d, n)' = OnFile(d, n)
  <2>1. CASE d = c
    <3>1. cycle[d].payouts[n].txid = 0 /\ cycle'[d].payouts[n].txid = 0
      BY <2>1 DEF Free, DocInv, Stored
    <3>2. QED
      BY <3>1 DEF OnFile
  <2>2. CASE d # c
    BY <2>2 DEF Stored, OnlyCycle, OnFile
  <2>3. QED
    BY <2>1, <2>2
<1>2. ~Holds(r, d, n) /\ ~Holds(r, d, n)' /\ ~Sends(r, d, n)'
  BY DEF Holds, Sends, In, Paying
<1>3. overlaps' >= overlaps
  BY Facts DEF TypeOK
<1>4. QED
  BY <1>1, <1>2, <1>3, CountKept

-----------------------------------------------------------------------------
(***************************************************************************)
(* How many ticks run, and the room for the cycles they store.             *)
(***************************************************************************)
LEMMA TickingMoves ==
    ASSUME NEW r \in Runners, OnlyTick(r)
    PROVE  /\ Cardinality(Ticking) \in Nat /\ Cardinality(Ticking)' \in Nat
           /\ Running(r)' /\ ~Running(r) => Cardinality(Ticking)' = Cardinality(Ticking) + 1
           /\ ~Running(r)' /\ Running(r) => Cardinality(Ticking)' = Cardinality(Ticking) - 1
           /\ (Running(r)' <=> Running(r)) => Cardinality(Ticking)' = Cardinality(Ticking)
<1>1. Ticking \in SUBSET Runners /\ Ticking' \in SUBSET Runners
  BY DEF Ticking
<1>2. \A q \in Runners \ {r} : q \in Ticking <=> q \in Ticking'
  BY DEF Ticking, Running, OnlyTick
<1>3. /\ r \in Ticking <=> Running(r)
      /\ r \in Ticking' <=> Running(r)'
  BY DEF Ticking
<1>4. QED
  BY <1>1, <1>2, <1>3, Facts, CardChange

Creates(r) == t[r].pc \in {"read", "create"}

LEMMA CreatingMoves ==
    ASSUME NEW r \in Runners, OnlyTick(r)
    PROVE  /\ Cardinality(Creating) \in Nat /\ Cardinality(Creating)' \in Nat
           /\ Creates(r)' /\ ~Creates(r) =>
                 Cardinality(Creating)' = Cardinality(Creating) + 1
           /\ ~Creates(r)' /\ Creates(r) =>
                 Cardinality(Creating)' = Cardinality(Creating) - 1
           /\ (Creates(r)' <=> Creates(r)) =>
                 Cardinality(Creating)' = Cardinality(Creating)
<1>1. Creating \in SUBSET Runners /\ Creating' \in SUBSET Runners
  BY DEF Creating
<1>2. \A q \in Runners \ {r} : q \in Creating <=> q \in Creating'
  BY DEF Creating, OnlyTick
<1>3. /\ r \in Creating <=> Creates(r)
      /\ r \in Creating' <=> Creates(r)'
  BY DEF Creating, Creates
<1>4. QED
  BY <1>1, <1>2, <1>3, Facts, CardChange

LEMMA FreeIsFinite ==
    IsFiniteSet(Free) /\ Cardinality(Free) \in Nat
BY Facts, FS_Subset, FS_CardinalityType DEF Free

\* There is a document for the tick that is about to store one.
LEMMA FreeIsThere ==
    ASSUME RoomInv, NEW r \in Runners, Creates(r)
    PROVE  Free # {}
<1>1. r \in Creating /\ IsFiniteSet(Creating)
  BY Facts, FS_Subset DEF Creates, Creating
<1>2. Cardinality(Creating) # 0 /\ Cardinality(Creating) \in Nat
  BY <1>1, FS_EmptySet, FS_CardinalityType
<1>3. Cardinality(Free) # 0
  BY <1>2, FreeIsFinite DEF RoomInv
<1>4. QED
  BY <1>3, FS_EmptySet

\* One more tick runs only when one begins; and it counts if another one runs.
LEMMA RunKept ==
    ASSUME TypeOK, NEW r \in Runners, OnlyTick(r), RunInv,
           overlaps' = overlaps \/ overlaps' = overlaps + 1,
           \/ Running(r)
           \/ (\E q \in Runners : Running(q)) => overlaps' = overlaps + 1
    PROVE  RunInv'
<1>1. PICK n \in Nat, m \in Nat : n = Cardinality(Ticking) /\ m = Cardinality(Ticking)'
  BY TickingMoves
<1>2. PICK o \in Nat, p \in Nat : o = overlaps /\ p = overlaps'
  BY Facts DEF TypeOK
<1>3. n <= 1 + o /\ o <= p
  BY <1>1, <1>2 DEF RunInv
<1>4. /\ Running(r)' /\ ~Running(r) => m = n + 1
      /\ ~Running(r)' /\ Running(r) => m = n - 1
      /\ (Running(r)' <=> Running(r)) => m = n
  BY <1>1, TickingMoves
<1>5. m <= 1 + p
  <2>1. CASE Running(r)
    <3>1. m = n \/ m = n - 1
      BY <1>4, <2>1
    <3>2. QED
      BY <1>3, <3>1
  <2>2. CASE ~Running(r) /\ \E q \in Runners : Running(q)
    <3>1. p = o + 1 /\ (m = n \/ m = n + 1)
      BY <1>2, <1>4, <2>2
    <3>2. QED
      BY <1>3, <3>1
  <2>3. CASE ~\E q \in Runners : Running(q)
    <3>1. Ticking = {}
      BY <2>3 DEF Ticking
    <3>2. n = 0
      BY <1>1, <3>1, FS_EmptySet
    <3>3. m = n \/ m = n + 1 \/ m = n - 1
      BY <1>4
    <3>4. QED
      BY <3>2, <3>3
  <2>4. QED
    BY <2>1, <2>2, <2>3
<1>6. QED
  BY <1>1, <1>2, <1>5 DEF RunInv

\* No cycle is stored and no tick is about to store one that was not.
LEMMA RoomKept ==
    ASSUME NEW r \in Runners, OnlyTick(r), RoomInv, Creates(r)' => Creates(r),
           \A c \in Cycle : cycle[c].status = "none" <=> cycle'[c].status = "none"
    PROVE  RoomInv'
<1>1. Free' = Free
  BY DEF Free
<1>2. PICK n \in Nat, m \in Nat, f \in Nat :
         n = Cardinality(Creating) /\ m = Cardinality(Creating)' /\ f = Cardinality(Free)
  BY CreatingMoves, FreeIsFinite
<1>3. n <= f /\ (m = n \/ m = n - 1)
  BY <1>2, CreatingMoves DEF RoomInv
<1>4. m <= f
  BY <1>3
<1>5. QED
  BY <1>1, <1>2, <1>4 DEF RoomInv

\* The gate lets a tick through only if there is a document left for it.
LEMMA RoomGate ==
    ASSUME NEW r \in Runners, OnlyTick(r), cycle' = cycle, Room, ~Creates(r)
    PROVE  RoomInv'
<1>1. Free' = Free
  BY DEF Free
<1>2. PICK n \in Nat, m \in Nat, f \in Nat :
         n = Cardinality(Creating) /\ m = Cardinality(Creating)' /\ f = Cardinality(Free)
  BY CreatingMoves, FreeIsFinite
<1>3. f > n /\ (m = n \/ m = n + 1)
  BY <1>2, CreatingMoves DEF Room, Creating
<1>4. m <= f
  BY <1>3
<1>5. QED
  BY <1>1, <1>2, <1>4 DEF RoomInv

\* The tick that stores a cycle uses the document that was there for it.
LEMMA RoomStored ==
    ASSUME NEW r \in Runners, OnlyTick(r), RoomInv, Creates(r), ~Creates(r)',
           NEW c \in Free, OnlyCycle(c), cycle'[c].status # "none"
    PROVE  RoomInv'
<1>1. Free' = Free \ {c}
  BY DEF Free, OnlyCycle
<1>2. Cardinality(Free') = Cardinality(Free) - 1
  BY <1>1, FreeIsFinite, FS_RemoveElement
<1>3. PICK n \in Nat, m \in Nat, f \in Nat :
         n = Cardinality(Creating) /\ m = Cardinality(Creating)' /\ f = Cardinality(Free)
  BY CreatingMoves, FreeIsFinite
<1>4. n <= f /\ m = n - 1
  BY <1>3, CreatingMoves DEF RoomInv
<1>5. m <= f - 1
  BY <1>4
<1>6. QED
  BY <1>2, <1>3, <1>5 DEF RoomInv

-----------------------------------------------------------------------------
(***************************************************************************)
(* One tick at a time.                                                     *)
(***************************************************************************)

\* A tick that runs alone is the only one.
LEMMA OnlyRunner ==
    ASSUME TypeOK, RunInv, Alone, NEW r \in Runners, Running(r), NEW q \in Runners, q # r
    PROVE  ~Running(q)
<1>1. IsFiniteSet(Ticking) /\ r \in Ticking
  BY Facts, FS_Subset DEF Ticking
<1>2. Cardinality(Ticking) <= 1 /\ Cardinality(Ticking) \in Nat /\ Cardinality(Ticking) # 0
  BY <1>1, FS_CardinalityType, FS_EmptySet DEF RunInv, Alone
<1>3. Cardinality(Ticking) = 1
  BY <1>2
<1>4. PICK x : Ticking = {x}
  BY <1>1, <1>3, FS_Singleton
<1>5. QED
  BY <1>1, <1>4 DEF Ticking

\* The other ticks are at rest.
OthersRest(r) == \A q \in Runners \ {r} : t'[q].pc \in {"off", "idle"}

LEMMA Rest ==
    ASSUME TypeOK, RunInv, Alone, NEW r \in Runners, OnlyTick(r),
           Running(r) \/ ~\E q \in Runners : Running(q)
    PROVE  OthersRest(r)
<1> SUFFICES ASSUME NEW q \in Runners, q # r PROVE t'[q].pc \in {"off", "idle"}
  BY DEF OthersRest
<1>1. ~Running(q)
  BY OnlyRunner
<1>2. QED
  BY <1>1 DEF Running, OnlyTick

LEMMA AloneJoin ==
    ASSUME NEW r \in Runners, OthersRest(r), AloneTick(r)', \A c \in Cycle : AloneDoc(c)'
    PROVE  AloneInv'
<1>1. \A q \in Runners \ {r} : AloneTick(q)'
  BY DEF OthersRest, AloneTick, Working, Paying
<1>2. QED
  BY <1>1 DEF AloneInv

LEMMA AloneRests ==
    ASSUME NEW r \in Runners, t'[r].pc \notin Working
    PROVE  AloneTick(r)'
BY DEF AloneTick, Working, Paying

\* A tick that starts has an open cycle, and leaves out only what is BROADCAST.
LEMMA AloneExecutes ==
    ASSUME NEW r \in Runners, NEW c \in Cycle, Executes(r, c), cycle' = cycle,
           cycle[c].status = "PAYING_OUT"
    PROVE  AloneTick(r)'
<1>1. /\ t'[r].pc = "pay" /\ t'[r].c = c
      /\ t'[r].todo = Unpaid(cycle[c].payouts)
  BY DEF Executes
<1>2. \A n \in Listed(c)' \ t'[r].todo : cycle[c].payouts[n].status = "BROADCAST"
  BY <1>1 DEF Listed, Unpaid
<1>3. QED
  BY <1>1, <1>2 DEF AloneTick

LEMMA AloneQuiet ==
    ASSUME NEW r \in Runners, Settles(r), cycle' = cycle, AloneTick(r),
           OthersRest(r), \A c \in Cycle : AloneDoc(c)
    PROVE  AloneInv'
<1>1. AloneTick(r)'
  <2>1. CASE \E c \in Cycle : /\ Executes(r, c)
                              /\ cycle[c].status = "PAYING_OUT"
                                    \/ (In(r, "fetch") /\ t[r].c = c)
    <3>1. PICK c \in Cycle : /\ Executes(r, c)
                             /\ cycle[c].status = "PAYING_OUT"
                                   \/ (In(r, "fetch") /\ t[r].c = c)
      BY <2>1
    <3>2. cycle[c].status = "PAYING_OUT"
      BY <3>1 DEF AloneTick, In, Working
    <3>3. QED
      BY <3>1, <3>2, AloneExecutes
  <2>2. QED
    BY <2>1, AloneRests DEF Settles
<1>2. \A c \in Cycle : AloneDoc(c)'
  BY DEF AloneDoc, Listed
<1>3. QED
  BY <1>1, <1>2, AloneJoin

LEMMA AloneLoop ==
    ASSUME TypeOK, NEW r \in Runners, TickInv(r), NEW n \in Node, NEW c \in Cycle,
           t[r].c = c, t[r].pc \in Paying, IsNext(r, n), Touches(c, n), Handles(r, c, n),
           AloneTick(r), OthersRest(r), \A d \in Cycle : AloneDoc(d)
    PROVE  AloneInv'
<1>1. cycle[c].status = "PAYING_OUT" /\ cycle'[c].status = "PAYING_OUT"
  BY DEF AloneTick, Working, Touches
<1>2. ~t[r].failed => \A m \in Listed(c) \ t[r].todo : cycle[c].payouts[m].status = "BROADCAST"
  BY DEF AloneTick
<1>3. cycle[c].payouts[n].status # "none"
  BY NextIsListed
<1>4. /\ Listed(c)' = Listed(c) /\ Listed(c) \in SUBSET Node
      /\ \A m \in Node \ {n} : cycle'[c].payouts[m] = cycle[c].payouts[m]
  BY <1>3 DEF Listed, Touches
<1>5. n \in t[r].todo
  BY DEF IsNext
<1>6. AloneTick(r)'
  <2>1. CASE SamePayouts(r)
    <3>1. t'[r].c = c /\ t'[r].todo = t[r].todo /\ t'[r].failed = t[r].failed
      BY <2>1 DEF SamePayouts
    <3>2. ~t'[r].failed =>
             \A m \in Listed(c)' \ t'[r].todo : cycle'[c].payouts[m].status = "BROADCAST"
      BY <1>2, <1>4, <1>5, <3>1
    <3>3. QED
      BY <1>1, <3>1, <3>2 DEF AloneTick
  <2>2. CASE Done(r, n, FALSE) /\ cycle'[c].payouts[n].status = "BROADCAST"
    <3>1. t'[r].c = c /\ t'[r].todo = t[r].todo \ {n} /\ (t'[r].failed <=> t[r].failed)
      BY <2>2 DEF Done
    <3>2. ~t'[r].failed =>
             \A m \in Listed(c)' \ t'[r].todo : cycle'[c].payouts[m].status = "BROADCAST"
      BY <1>2, <1>4, <1>5, <2>2, <3>1
    <3>3. QED
      BY <1>1, <3>1, <3>2 DEF AloneTick
  <2>3. CASE Done(r, n, TRUE)
    BY <1>1, <2>3 DEF Done, AloneTick
  <2>4. QED
    BY <2>1, <2>2, <2>3 DEF Handles
<1>7. ASSUME NEW d \in Cycle PROVE AloneDoc(d)'
  <2>1. CASE d = c
    BY <1>1, <2>1 DEF AloneDoc
  <2>2. CASE d # c
    <3>1. \A m \in Node : cycle'[d].payouts[m] = cycle[d].payouts[m]
      BY <2>2 DEF Touches
    <3>2. cycle'[d].status = cycle[d].status /\ AloneDoc(d)
      BY DEF Touches
    <3>3. QED
      BY <3>1, <3>2 DEF AloneDoc, Listed
  <2>3. QED
    BY <2>1, <2>2
<1>8. QED
  BY <1>6, <1>7, AloneJoin

\* A cycle is stored: it is not COMPLETE, and a tick that has it finds it open.
LEMMA AloneStored ==
    ASSUME NEW r \in Runners, NEW c \in Cycle, OnlyCycle(c),
           cycle'[c].status # "COMPLETE", t'[r].pc \notin Paying,
           t'[r].pc = "fetch" => t'[r].c = c /\ cycle'[c].status = "PAYING_OUT",
           OthersRest(r), \A d \in Cycle : AloneDoc(d)
    PROVE  AloneInv'
<1>1. AloneTick(r)'
  BY DEF AloneTick, Working
<1>2. ASSUME NEW d \in Cycle PROVE AloneDoc(d)'
  <2>1. CASE d = c
    BY <2>1 DEF AloneDoc
  <2>2. CASE d # c
    BY <2>2 DEF AloneDoc, Listed, OnlyCycle
  <2>3. QED
    BY <2>1, <2>2
<1>3. QED
  BY <1>1, <1>2, AloneJoin

\* A cycle is closed: COMPLETE only if all of its payouts are BROADCAST.
LEMMA AloneClosed ==
    ASSUME NEW r \in Runners, In(r, "pay"), t[r].todo = {}, NEW c \in Cycle, t[r].c = c,
           NEW status, Closed(c, status), status = "COMPLETE" => ~t[r].failed,
           t'[r].pc = "idle", AloneTick(r), OthersRest(r), \A d \in Cycle : AloneDoc(d)
    PROVE  AloneInv'
<1>1. AloneTick(r)'
  BY AloneRests DEF Working, Paying
<1>2. ASSUME NEW d \in Cycle PROVE AloneDoc(d)'
  <2>1. CASE d = c
    <3>1. cycle'[d].status = status /\ cycle'[d].payouts = cycle[d].payouts
      BY <2>1 DEF Closed
    <3>2. ~t[r].failed => \A n \in Listed(d) : cycle[d].payouts[n].status = "BROADCAST"
      BY <2>1 DEF AloneTick, In, Paying
    <3>3. Listed(d)' = Listed(d)
      BY <3>1 DEF Listed
    <3>4. QED
      BY <3>1, <3>2, <3>3 DEF AloneDoc
  <2>2. CASE d # c
    BY <2>2 DEF AloneDoc, Listed, Closed, OnlyCycle
  <2>3. QED
    BY <2>1, <2>2
<1>3. QED
  BY <1>1, <1>2, AloneJoin

-----------------------------------------------------------------------------
(***************************************************************************)
(* The invariant: initially, and after every step.                         *)
(***************************************************************************)
LEMMA InitInv == Init => IInv
<1> SUFFICES ASSUME Init PROVE IInv
  OBVIOUS
<1>1. /\ cycle = [c \in Cycle |-> NoCycle] /\ received = 0 /\ up = TRUE
      /\ t = [r \in Runners |-> Idle]
      /\ sends = [c \in Cycle |-> [n \in Node |-> 0]]
      /\ lost = [c \in Cycle |-> [n \in Node |-> 0]]
      /\ upsets = 0 /\ overlaps = 0
  BY DEF Init
<1>2. NoCycle \in CycleDoc /\ \A n \in Node : NoCycle.payouts[n] = NoPayout
  <2> DEFINE none == [n \in Node |-> NoPayout]
  <2>1. none \in [Node -> Payout] /\ \A n \in Node : none[n] = NoPayout
    BY DEF NoPayout, Payout, PayoutStatus
  <2>2. NoCycle = [status |-> "none", recent |-> FALSE, pool |-> 0, share |-> 0,
                   payouts |-> none]
    BY DEF NoCycle
  <2> HIDE DEF none
  <2>3. QED
    BY <2>1, <2>2 DEF CycleDoc, CycleStatus
<1>3. \A c \in Cycle : /\ cycle[c].status = "none" /\ Listed(c) = {}
                       /\ \A n \in Node : /\ cycle[c].payouts[n].txid = 0
                                          /\ sends[c][n] = 0 /\ lost[c][n] = 0
  BY <1>1, <1>2 DEF NoPayout, NoCycle, Listed
<1>4. TypeOK
  <2>1. cycle \in [Cycle -> CycleDoc] /\ t \in [Runners -> TickState]
    BY <1>1, <1>2, IdleIs
  <2>2. /\ received \in 0..MaxReceived /\ upsets \in 0..MaxUpsets
        /\ overlaps \in 0..MaxOverlaps
    BY <1>1, Facts
  <2>3. sends \in [Cycle -> [Node -> Nat]] /\ lost \in [Cycle -> [Node -> Nat]]
    BY <1>1
  <2>4. QED
    BY <1>1, <2>1, <2>2, <2>3 DEF TypeOK
<1>5. \A r \in Runners : t[r].pc = "idle"
  BY <1>1, IdleIs
<1>6. \A r \in Runners : TickInv(r)
  BY <1>5 DEF TickInv, Working, Paying
<1>7. \A c \in Cycle : DocInv(c)
  <2> SUFFICES ASSUME NEW c \in Cycle PROVE DocInv(c)
    OBVIOUS
  <2>1. Listed(c) = {} /\ cycle[c].status = "none" /\ Cardinality(Listed(c)) = 0
    BY <1>3, FS_EmptySet
  <2>2. cycle[c].share \in Nat /\ cycle[c].pool \in Nat /\ PayoutFee \in Nat
    BY <1>4, DocTypes, Facts
  <2>3. (cycle[c].share + PayoutFee) * 0 <= cycle[c].pool
    BY <2>2
  <2>4. QED
    BY <1>3, <2>1, <2>3 DEF DocInv
<1>8. \A c \in Cycle, n \in Node : CountInv(c, n)
  <2> SUFFICES ASSUME NEW c \in Cycle, NEW n \in Node PROVE CountInv(c, n)
    OBVIOUS
  <2>1. Hand(c, n) = {} /\ Senders(c, n) = {}
    BY <1>5 DEF Hand, Holds, Senders, Sends, In, Paying
  <2>2. Cardinality(Hand(c, n)) = 0 /\ Cardinality(Senders(c, n)) = 0 /\ OnFile(c, n) = 0
    BY <1>3, <2>1, FS_EmptySet DEF OnFile
  <2>3. Counted(0, 0, 0, 0, 0, 0)
    BY DEF Counted
  <2>4. QED
    BY <1>1, <1>3, <2>2, <2>3 DEF CountInv
<1>9. Ticking = {} /\ Creating = {} /\ Cardinality({}) = 0
  BY <1>5, FS_EmptySet DEF Ticking, Running, Creating
<1>10. RunInv /\ RoomInv
  <2>1. Cardinality(Free) \in Nat
    BY FreeIsFinite
  <2>2. QED
    BY <1>1, <1>9, <2>1 DEF RunInv, RoomInv
<1>11. DownInv
  BY <1>1 DEF DownInv
<1>12. AloneInv
  BY <1>3, <1>5 DEF AloneInv, AloneTick, AloneDoc, Working, Paying
<1>13. QED
  BY <1>4, <1>6, <1>7, <1>8, <1>10, <1>11, <1>12 DEF IInv

\* The ticks that do not move keep what they know.
LEMMA TicksKept ==
    ASSUME NEW r \in Runners, OnlyTick(r), Forward, \A q \in Runners : TickInv(q),
           TickInv(r)'
    PROVE  \A q \in Runners : TickInv(q)'
<1> SUFFICES ASSUME NEW q \in Runners, q # r PROVE TickInv(q)'
  OBVIOUS
<1>1. t'[q] = t[q] /\ TickInv(q)
  BY DEF OnlyTick
<1>2. QED
  BY <1>1, TickKept

\* A tick moves while the process runs.
LEMMA UpKept ==
    ASSUME DownInv, NEW r \in Runners, ~In(r, "off"), up' = up
    PROVE  DownInv'
BY DEF DownInv

LEMMA QuietInvariant ==
    ASSUME IInv, NEW r \in Runners, QuietStep(r)
    PROVE  IInv'
<1>1. /\ TypeOK /\ TickInv(r) /\ RunInv /\ RoomInv /\ DownInv /\ AloneInv
      /\ \A q \in Runners : TickInv(q)
      /\ \A c \in Cycle : DocInv(c)
      /\ \A c \in Cycle, n \in Node : CountInv(c, n)
  BY DEF IInv
<1>2. /\ TypeOK' /\ OnlyTick(r) /\ UNCHANGED <<cycle, received, up, sends, lost>>
      /\ Settles(r) /\ ~In(r, "record") /\ ~In(r, "off")
      /\ overlaps' = overlaps \/ overlaps' = overlaps + 1
      /\ Running(r) => overlaps' = overlaps
      /\ In(r, "gate") \/ (t'[r].pc \in {"read", "create"} => In(r, "read"))
  BY <1>1, QuietIs
<1>3. overlaps \in Nat /\ overlaps' >= overlaps
  BY <1>1, <1>2, Facts DEF TypeOK
<1>4. Forward
  BY <1>2 DEF Forward
<1>5. TickInv(r)'
  <2>1. CASE t'[r].pc \notin Working
    BY <2>1, TickRests
  <2>2. CASE \E c \in Cycle : /\ Executes(r, c)
                              /\ cycle[c].status = "PAYING_OUT"
                                    \/ (In(r, "fetch") /\ t[r].c = c)
    <3>1. PICK c \in Cycle : /\ Executes(r, c)
                             /\ cycle[c].status = "PAYING_OUT"
                                   \/ (In(r, "fetch") /\ t[r].c = c)
      BY <2>2
    <3>2. cycle[c].status # "none"
      BY <1>1, <3>1 DEF TickInv, In, Working
    <3>3. QED
      BY <1>1, <1>2, <3>1, <3>2, TickExecutes
  <2>3. QED
    BY <1>2, <2>1, <2>2 DEF Settles
<1>6. \A q \in Runners : TickInv(q)'
  BY <1>1, <1>2, <1>4, <1>5, TicksKept
<1>7. \A c \in Cycle : DocInv(c)'
  BY <1>1, <1>2, DocSame
<1>8. \A c \in Cycle, n \in Node : CountInv(c, n)'
  BY <1>1, <1>2, <1>3, CountPlain
<1>9. DownInv'
  BY <1>1, <1>2, UpKept
<1>10. Running(r) \/ ((\E q \in Runners : Running(q)) => overlaps' = overlaps + 1)
  BY <1>1, StartTickFx, CadenceGateFx, ReadPoolFx, FetchCycleFx, TickErrorFx
     DEF QuietStep, Running, In
<1>11. RunInv'
  BY <1>1, <1>2, <1>10, RunKept
<1>12. RoomInv'
  <2>1. CASE CadenceGate(r) /\ Creates(r)'
    <3>1. Room /\ In(r, "gate")
      BY <1>1, <2>1, CadenceGateFx DEF Creates
    <3>2. QED
      BY <1>2, <3>1, RoomGate DEF Creates, In
  <2>2. CASE Creates(r)' => Creates(r)
    BY <1>1, <1>2, <2>2, RoomKept
  <2>3. CadenceGate(r) \/ (Creates(r)' => Creates(r))
    BY <1>1, <1>2, StartTickFx, ReadPoolFx, FetchCycleFx, TickErrorFx
       DEF QuietStep, Creates, In
  <2>4. QED
    BY <2>1, <2>2, <2>3
<1>13. AloneInv'
  <2>1. CASE Alone'
    <3>1. Alone /\ overlaps' = overlaps
      BY <1>2, <1>3, <2>1 DEF Alone
    <3>2. Running(r) \/ ~\E q \in Runners : Running(q)
      BY <1>3, <1>10, <3>1
    <3>3. OthersRest(r)
      BY <1>1, <1>2, <3>1, <3>2, Rest
    <3>4. AloneTick(r) /\ \A c \in Cycle : AloneDoc(c)
      BY <1>1, <3>1 DEF AloneInv
    <3>5. QED
      BY <1>2, <3>3, <3>4, AloneQuiet
  <2>2. CASE ~Alone'
    BY <2>2 DEF AloneInv
  <2>3. QED
    BY <2>1, <2>2
<1>14. QED
  BY <1>2, <1>6, <1>7, <1>8, <1>9, <1>11, <1>12, <1>13 DEF IInv

LEMMA LoopInvariant ==
    ASSUME IInv, NEW r \in Runners, NEW n \in Node, LoopStep(r, n)
    PROVE  IInv'
<1>1. /\ TypeOK /\ TickInv(r) /\ RunInv /\ RoomInv /\ DownInv /\ AloneInv
      /\ \A q \in Runners : TickInv(q)
      /\ \A c \in Cycle : DocInv(c)
      /\ \A c \in Cycle, m \in Node : CountInv(c, m)
  BY DEF IInv
<1>2. PICK c : t[r].c = c
  OBVIOUS
<1>3. /\ TypeOK' /\ OnlyTick(r) /\ UNCHANGED <<received, up, overlaps>>
      /\ t[r].pc \in Paying /\ IsNext(r, n) /\ c \in Cycle
      /\ Touches(c, n) /\ Handles(r, c, n)
  BY <1>1, <1>2, LoopIs
<1>4. cycle[c].payouts[n].status # "none"
  BY <1>1, <1>2, <1>3, NextIsListed
<1>5. Forward
  BY <1>3, <1>4, TouchesForward
<1>6. TickInv(r)'
  BY <1>1, <1>2, <1>3, <1>5, TickLoops
<1>7. \A q \in Runners : TickInv(q)'
  BY <1>1, <1>3, <1>5, <1>6, TicksKept
<1>8. \A d \in Cycle : DocInv(d)'
  BY <1>1, <1>3, <1>4, TouchesDoc
<1>9. \A d \in Cycle, m \in Node : CountInv(d, m)'
  BY <1>1, <1>2, LoopCount
<1>10. Running(r) /\ ~In(r, "off") /\ ~Creates(r)'
  BY <1>3 DEF Running, In, Paying, Creates, Handles, Done
<1>11. DownInv' /\ RunInv'
  BY <1>1, <1>3, <1>10, UpKept, RunKept
<1>12. \A d \in Cycle : cycle[d].status = "none" <=> cycle'[d].status = "none"
  BY <1>3 DEF Touches
<1>13. RoomInv'
  BY <1>1, <1>3, <1>10, <1>12, RoomKept
<1>14. AloneInv'
  <2>1. CASE Alone'
    <3>1. Alone
      BY <1>3, <2>1 DEF Alone
    <3>2. OthersRest(r)
      BY <1>1, <1>3, <1>10, <3>1, Rest
    <3>3. AloneTick(r) /\ \A d \in Cycle : AloneDoc(d)
      BY <1>1, <3>1 DEF AloneInv
    <3>4. QED
      BY <1>1, <1>2, <1>3, <3>2, <3>3, AloneLoop
  <2>2. CASE ~Alone'
    BY <2>2 DEF AloneInv
  <2>3. QED
    BY <2>1, <2>2
<1>15. QED
  BY <1>3, <1>7, <1>8, <1>9, <1>11, <1>13, <1>14 DEF IInv

LEMMA CreateInvariant ==
    ASSUME IInv, NEW r \in Runners, CreateCycle(r)
    PROVE  IInv'
<1>1. /\ TypeOK /\ TickInv(r) /\ RunInv /\ RoomInv /\ DownInv /\ AloneInv
      /\ \A q \in Runners : TickInv(q)
      /\ \A c \in Cycle : DocInv(c)
      /\ \A c \in Cycle, m \in Node : CountInv(c, m)
  BY DEF IInv
<1>2. In(r, "create") /\ Creates(r)
  BY DEF CreateCycle, Creates, In
<1>3. Free # {}
  BY <1>1, <1>2, FreeIsThere
<1>4. TypeOK' /\ OnlyTick(r) /\ Elsewhere
  BY <1>1, <1>3, CreateCycleFx
<1>5. PICK c \in Free, nodes \in SUBSET Node :
         /\ Stored(c, nodes)
         /\ \/ t'[r].pc = "idle" /\ cycle'[c].status = "SKIPPED"
            \/ /\ t'[r].pc = "fetch" /\ t'[r].c = c
               /\ cycle'[c].status = "PAYING_OUT"
  BY <1>1, <1>3, CreateCycleFx
<1>6. c \in Cycle /\ OnlyCycle(c) /\ cycle'[c].status \notin {"none", "COMPLETE"}
  BY <1>5 DEF Free, Stored
<1>7. Forward
  BY <1>5, StoredForward
<1>8. TickInv(r)'
  BY <1>5, <1>6 DEF TickInv, Working, Paying
<1>9. \A q \in Runners : TickInv(q)'
  BY <1>1, <1>4, <1>7, <1>8, TicksKept
<1>10. \A d \in Cycle : DocInv(d)'
  BY <1>1, <1>4, <1>5, <1>6, StoredDoc DEF Elsewhere
<1>11. t'[r].pc \notin Paying /\ ~In(r, "record")' /\ ~Creates(r)'
  BY <1>5 DEF Paying, In, Creates
<1>12. \A d \in Cycle, m \in Node : CountInv(d, m)'
  BY <1>1, <1>2, <1>4, <1>5, <1>11, StoredCount DEF Elsewhere
<1>13. Running(r) /\ ~In(r, "off")
  BY <1>2 DEF Running, In
<1>14. DownInv' /\ RunInv'
  BY <1>1, <1>4, <1>13, UpKept, RunKept DEF Elsewhere
<1>15. RoomInv'
  BY <1>1, <1>2, <1>4, <1>6, <1>11, RoomStored
<1>16. AloneInv'
  <2>1. CASE Alone'
    <3>1. Alone
      BY <1>4, <2>1 DEF Alone, Elsewhere
    <3>2. OthersRest(r)
      BY <1>1, <1>4, <1>13, <3>1, Rest
    <3>3. \A d \in Cycle : AloneDoc(d)
      BY <1>1, <3>1 DEF AloneInv
    <3>4. QED
      BY <1>5, <1>6, <1>11, <3>2, <3>3, AloneStored
  <2>2. CASE ~Alone'
    BY <2>2 DEF AloneInv
  <2>3. QED
    BY <2>1, <2>2
<1>17. QED
  BY <1>4, <1>9, <1>10, <1>12, <1>14, <1>15, <1>16 DEF IInv

LEMMA FinaliseInvariant ==
    ASSUME IInv, NEW r \in Runners, FinaliseCycle(r)
    PROVE  IInv'
<1>1. /\ TypeOK /\ TickInv(r) /\ RunInv /\ RoomInv /\ DownInv /\ AloneInv
      /\ \A q \in Runners : TickInv(q)
      /\ \A c \in Cycle : DocInv(c)
      /\ \A c \in Cycle, m \in Node : CountInv(c, m)
  BY DEF IInv
<1>2. PICK c, status : t[r].c = c /\ status = IF t[r].failed THEN "FAILED" ELSE "COMPLETE"
  OBVIOUS
<1>3. /\ TypeOK' /\ OnlyTick(r) /\ Elsewhere
      /\ In(r, "pay") /\ t[r].todo = {} /\ c \in Cycle /\ t'[r].pc = "idle"
      /\ (cycle[c].status = "PAYING_OUT" /\ Closed(c, status)) \/ cycle' = cycle
  BY <1>1, <1>2, FinaliseCycleFx
<1>4. /\ status \in {"FAILED", "COMPLETE"} /\ (status = "COMPLETE" => ~t[r].failed)
  BY <1>2
<1>5. Forward
  <2>1. CASE Closed(c, status)
    BY <1>3, <1>4, <2>1, ClosedForward
  <2>2. CASE cycle' = cycle
    BY <2>2 DEF Forward
  <2>3. QED
    BY <1>3, <2>1, <2>2
<1>6. t'[r].pc \notin Working /\ ~Creates(r)' /\ ~In(r, "record") /\ Settles(r)
  BY <1>3 DEF Working, Paying, Creates, Settles, In
<1>7. \A q \in Runners : TickInv(q)'
  BY <1>1, <1>3, <1>5, <1>6, TickRests, TicksKept
<1>8. \A d \in Cycle : DocInv(d)'
  <2>1. CASE Closed(c, status)
    BY <1>1, <1>2, <1>3, <1>4, <2>1, ClosedDoc DEF Elsewhere
  <2>2. CASE cycle' = cycle
    BY <1>1, <1>3, <2>2, DocSame DEF Elsewhere
  <2>3. QED
    BY <1>3, <2>1, <2>2
<1>9. \A d \in Cycle : /\ cycle'[d].payouts = cycle[d].payouts
                       /\ cycle[d].status = "none" <=> cycle'[d].status = "none"
  BY <1>3, <1>4 DEF Closed, OnlyCycle
<1>10. overlaps' >= overlaps
  BY <1>1, <1>3, Facts DEF TypeOK, Elsewhere
<1>11. \A d \in Cycle, m \in Node : CountInv(d, m)'
  BY <1>1, <1>3, <1>6, <1>9, <1>10, CountPlain DEF Elsewhere
<1>12. Running(r) /\ ~In(r, "off")
  BY <1>3 DEF Running, In
<1>13. DownInv' /\ RunInv' /\ RoomInv'
  BY <1>1, <1>3, <1>6, <1>9, <1>12, UpKept, RunKept, RoomKept DEF Elsewhere
<1>14. AloneInv'
  <2>1. CASE Alone'
    <3>1. Alone
      BY <1>3, <2>1 DEF Alone, Elsewhere
    <3>2. OthersRest(r)
      BY <1>1, <1>3, <1>12, <3>1, Rest
    <3>3. AloneTick(r) /\ \A d \in Cycle : AloneDoc(d)
      BY <1>1, <3>1 DEF AloneInv
    <3>4. CASE Closed(c, status)
      BY <1>2, <1>3, <1>4, <3>2, <3>3, <3>4, AloneClosed
    <3>5. CASE cycle' = cycle
      BY <1>6, <3>2, <3>3, <3>5, AloneQuiet
    <3>6. QED
      BY <1>3, <3>4, <3>5
  <2>2. CASE ~Alone'
    BY <2>2 DEF AloneInv
  <2>3. QED
    BY <2>1, <2>2
<1>15. QED
  BY <1>3, <1>7, <1>8, <1>11, <1>13, <1>14 DEF IInv

\* The process stops or starts: what was in hand is forgotten.
ProcessStep == Crash \/ Start

LEMMA ProcessIs ==
    ASSUME TypeOK, ProcessStep, DownInv
    PROVE  /\ TypeOK' /\ NoTicks /\ DownInv'
           /\ UNCHANGED <<cycle, received, sends, overlaps>>
           /\ \A c \in Cycle, n \in Node : lost'[c][n] = lost[c][n] + Cardinality(Hand(c, n))
<1>1. CASE Crash
  BY <1>1, CrashFx DEF DownInv, HandSize
<1>2. CASE Start
  <2>1. /\ TypeOK' /\ NoTicks /\ UNCHANGED <<cycle, received, sends, lost, overlaps>>
        /\ ~up /\ up'
    BY <1>2, StartFx
  <2>2. DownInv'
    BY <2>1 DEF DownInv
  <2>3. ASSUME NEW c \in Cycle, NEW n \in Node
        PROVE  lost'[c][n] = lost[c][n] + Cardinality(Hand(c, n))
    <3>1. Hand(c, n) = {}
      BY <2>1 DEF DownInv, Hand, Holds, In
    <3>2. Cardinality(Hand(c, n)) = 0 /\ lost[c][n] \in Nat
      BY <3>1, FS_EmptySet, PayoutTypes
    <3>3. QED
      BY <2>1, <3>2
  <2>4. QED
    BY <2>1, <2>2, <2>3
<1>3. QED
  BY <1>1, <1>2 DEF ProcessStep

LEMMA ProcessInvariant ==
    ASSUME IInv, ProcessStep
    PROVE  IInv'
<1>1. /\ TypeOK /\ RunInv /\ RoomInv /\ DownInv /\ AloneInv
      /\ \A c \in Cycle : DocInv(c)
      /\ \A c \in Cycle, m \in Node : CountInv(c, m)
      /\ \A q \in Runners : TickInv(q)
  BY DEF IInv
<1>2. /\ TypeOK' /\ NoTicks /\ DownInv' /\ UNCHANGED <<cycle, received, sends, overlaps>>
      /\ \A c \in Cycle, n \in Node : lost'[c][n] = lost[c][n] + Cardinality(Hand(c, n))
  BY <1>1, ProcessIs
<1>3. \A r \in Runners : TickInv(r)'
  BY <1>2, TickRests DEF NoTicks, Working, Paying
<1>4. \A c \in Cycle, n \in Node : Hand(c, n)' = {} /\ Senders(c, n)' = {}
  BY <1>2 DEF NoTicks, Hand, Holds, Senders, Sends, In, Paying
<1>5. Ticking' = {} /\ Creating' = {} /\ Free' = Free /\ Cardinality({}) = 0
  BY <1>2, FS_EmptySet DEF NoTicks, Ticking, Running, Creating, Free
<1>6. ASSUME NEW c \in Cycle PROVE DocInv(c)'
  <2>1. \A n \in Node \ Listed(c) : lost'[c][n] = 0
    <3> SUFFICES ASSUME NEW n \in Node \ Listed(c) PROVE lost'[c][n] = 0
      OBVIOUS
    <3>1. Hand(c, n) = {}
      <4> SUFFICES ASSUME NEW r \in Runners, Holds(r, c, n) PROVE FALSE
        BY DEF Hand
      <4>1. t[r].pc \in Paying /\ IsNext(r, n) /\ t[r].c = c
        BY DEF Holds, In, Paying
      <4>2. cycle[c].payouts[n].status # "none"
        BY <1>1, <4>1, NextIsListed
      <4>3. QED
        BY <4>2 DEF Listed
    <3>2. lost[c][n] = 0
      BY <1>1 DEF DocInv
    <3>3. QED
      BY <1>2, <1>5, <3>1, <3>2
  <2>2. Listed(c)' = Listed(c)
    BY <1>2 DEF Listed
  <2>3. QED
    BY <1>1, <1>2, <2>1, <2>2 DEF DocInv
<1>7. ASSUME NEW c \in Cycle, NEW n \in Node PROVE CountInv(c, n)'
  <2> DEFINE p == sends[c][n]
             h == Cardinality(Hand(c, n))
             s == Cardinality(Senders(c, n))
             l == lost[c][n]
  <2>1. p \in Nat /\ l \in Nat /\ overlaps \in Nat /\ OnFile(c, n) \in {0, 1}
    BY <1>1, PayoutTypes, Facts DEF TypeOK
  <2>2. h \in Nat /\ s \in Nat
    BY Facts, FS_Subset, FS_CardinalityType DEF Hand, Senders
  <2>3. Counted(p, OnFile(c, n), l, h, s, overlaps)
    BY <1>1 DEF CountInv
  <2>4. Counted(p, OnFile(c, n), l + h, 0, 0, overlaps)
    BY <2>1, <2>2, <2>3, CountedEnd
  <2>5. /\ Cardinality(Hand(c, n))' = 0 /\ Cardinality(Senders(c, n))' = 0
        /\ OnFile(c, n)' = OnFile(c, n)
    BY <1>2, <1>4, <1>5 DEF OnFile
  <2>6. Counted(sends'[c][n], OnFile(c, n)', lost'[c][n], Cardinality(Hand(c, n))',
                Cardinality(Senders(c, n))', overlaps')
    BY <1>2, <2>4, <2>5
  <2>7. QED
    BY <2>6 DEF CountInv
<1>8. RunInv'
  <2>1. Cardinality(Ticking)' = 0 /\ overlaps' \in Nat
    BY <1>2, <1>5, Facts DEF TypeOK
  <2>2. PICK p \in Nat : p = overlaps'
    BY <2>1
  <2>3. 0 <= 1 + p
    OBVIOUS
  <2>4. QED
    BY <2>1, <2>2, <2>3 DEF RunInv
<1>9. RoomInv'
  <2>1. Cardinality(Free) \in Nat
    BY FreeIsFinite
  <2>2. QED
    BY <1>5, <2>1 DEF RoomInv
<1>10. AloneInv'
  <2>1. \A r \in Runners : AloneTick(r)'
    BY <1>2, AloneRests DEF NoTicks, Working, Paying
  <2>2. Alone' => \A c \in Cycle : AloneDoc(c)'
    BY <1>1, <1>2 DEF AloneInv, Alone, AloneDoc, Listed
  <2>3. QED
    BY <2>1, <2>2 DEF AloneInv
<1>11. QED
  BY <1>2, <1>3, <1>6, <1>7, <1>8, <1>9, <1>10 DEF IInv

\* Income arrives, time passes, or nothing happens: no tick moves, no payout changes.
OutsideStep == Receive \/ IntervalPasses \/ UNCHANGED vars

LEMMA OutsideInvariant ==
    ASSUME IInv, OutsideStep
    PROVE  IInv'
<1>1. /\ TypeOK /\ RunInv /\ RoomInv /\ DownInv /\ AloneInv
      /\ \A c \in Cycle : DocInv(c)
      /\ \A c \in Cycle, m \in Node : CountInv(c, m)
      /\ \A q \in Runners : TickInv(q)
  BY DEF IInv
<1>2. /\ TypeOK' /\ UNCHANGED <<up, t, sends, lost, overlaps>>
      /\ \A c \in Cycle : /\ cycle'[c].status = cycle[c].status
                          /\ cycle'[c].payouts = cycle[c].payouts
                          /\ cycle'[c].pool = cycle[c].pool
                          /\ cycle'[c].share = cycle[c].share
  <2>1. CASE Receive \/ IntervalPasses
    BY <1>1, <2>1, ReceiveFx, IntervalPassesFx
  <2>2. CASE UNCHANGED vars
    BY <1>1, <2>2 DEF vars, TypeOK
  <2>3. QED
    BY <2>1, <2>2 DEF OutsideStep
<1>3. Forward
  BY <1>2 DEF Forward
<1>4. \A q \in Runners : TickInv(q)'
  BY <1>1, <1>2, <1>3, TickKept
<1>5. \A c \in Cycle : DocInv(c)'
  BY <1>1, <1>2, DocSame
<1>6. ASSUME NEW c \in Cycle, NEW n \in Node PROVE CountInv(c, n)'
  <2>1. OnFile(c, n)' = OnFile(c, n)
    BY <1>2 DEF OnFile
  <2>2. Hand(c, n)' = Hand(c, n) /\ Senders(c, n)' = Senders(c, n)
    BY <1>2 DEF Hand, Holds, Senders, Sends, In, IsNext
  <2>3. QED
    BY <1>1, <1>2, <2>1, <2>2 DEF CountInv
<1>7. Ticking' = Ticking /\ Creating' = Creating /\ Free' = Free
  BY <1>2 DEF Ticking, Running, Creating, Free
<1>8. DownInv' /\ RunInv' /\ RoomInv'
  BY <1>1, <1>2, <1>7 DEF DownInv, RunInv, RoomInv, In
<1>9. AloneInv'
  <2>1. ASSUME NEW r \in Runners, AloneTick(r), TickInv(r) PROVE AloneTick(r)'
    <3>1. t[r].pc \in Working => t[r].c \in Cycle
      BY <2>1 DEF TickInv
    <3>2. QED
      BY <1>2, <2>1, <3>1 DEF AloneTick, Listed, Working
  <2>2. ASSUME NEW c \in Cycle, AloneDoc(c) PROVE AloneDoc(c)'
    BY <1>2, <2>2 DEF AloneDoc, Listed
  <2>3. QED
    BY <1>1, <1>2, <2>1, <2>2 DEF AloneInv, Alone
<1>10. QED
  BY <1>2, <1>4, <1>5, <1>6, <1>8, <1>9 DEF IInv

LEMMA NextInv == IInv /\ [Next]_vars => IInv'
<1> SUFFICES ASSUME IInv, [Next]_vars PROVE IInv'
  OBVIOUS
<1>1. CASE \E r \in Runners : QuietStep(r)
  BY <1>1, QuietInvariant
<1>2. CASE \E r \in Runners, n \in Node : LoopStep(r, n)
  BY <1>2, LoopInvariant
<1>3. CASE \E r \in Runners : CreateCycle(r)
  BY <1>3, CreateInvariant
<1>4. CASE \E r \in Runners : FinaliseCycle(r)
  BY <1>4, FinaliseInvariant
<1>5. CASE ProcessStep
  BY <1>5, ProcessInvariant
<1>6. CASE OutsideStep
  BY <1>6, OutsideInvariant
<1>7. QED
  BY <1>1, <1>2, <1>3, <1>4, <1>5, <1>6
     DEF Next, TickStep, PayoutStep, QuietStep, LoopStep, ProcessStep, OutsideStep

-----------------------------------------------------------------------------
(***************************************************************************)
(* How many payments the service forgets: one for a failed call, and for a *)
(* kill no more than there were ticks to hold one.                         *)
(***************************************************************************)
Forgot(c) == Total(lost[c], Node)

LossInv ==
    /\ 2 * overlaps <= upsets
    /\ \A c \in Cycle : Forgot(c) <= Mishaps * (1 + overlaps)

\* Nothing is forgotten, one payment is, or all those in hand are.
Calm ==
    /\ lost' = lost
    /\ \/ upsets' = upsets /\ overlaps' = overlaps
       \/ upsets' = upsets + 1 /\ overlaps' = overlaps
       \/ upsets' = upsets + 2 /\ overlaps' = overlaps + 1

Slips ==
    /\ upsets' = upsets + 1 /\ overlaps' = overlaps
    /\ \E c \in Cycle, n \in Node : OneMore(lost, lost', c, n)

Kills ==
    /\ upsets' = upsets + 1 /\ overlaps' = overlaps
    /\ \A c \in Cycle, n \in Node : lost'[c][n] = lost[c][n] + HandSize(c, n)

LEMMA NextForgets ==
    ASSUME IInv, [Next]_vars
    PROVE  Calm \/ Slips \/ Kills
<1>1. TypeOK /\ \A r \in Runners : TickInv(r)
  BY DEF IInv
<1>2. CASE \E r \in Runners : TickStep(r)
  <2>1. PICK r \in Runners : TickStep(r)
    BY <1>2
  <2>2. CASE \E n \in Node : PayoutStep(r, n)
    BY <2>2 DEF PayoutStep, ReconcilePayout, SendPayout, PersistPayoutTxid,
                MarkPayoutBroadcast, MarkPayoutFailed, Fault, Calm
  <2>3. CASE ~ \E n \in Node : PayoutStep(r, n)
    BY <2>1, <2>3 DEF TickStep, StartTick, CadenceGate, ReadPool, CreateCycle, FetchCycle,
                      FinaliseCycle, Overlap, Calm
  <2>4. QED
    BY <2>2, <2>3
<1>3. CASE \E r \in Runners, n \in Node : SendFails(r, n)
  <2>1. PICK r \in Runners, n \in Node : SendFails(r, n)
    BY <1>3
  <2>2. /\ t[r].c \in Cycle /\ overlaps' = overlaps
        /\ lost' = lost \/ OneMore(lost, lost', t[r].c, n)
    BY <1>1, <2>1, SendFailsFx
  <2>3. upsets' = upsets + 1
    BY <2>1 DEF SendFails, Fault
  <2>4. QED
    BY <2>2, <2>3 DEF Calm, Slips
<1>4. CASE \E r \in Runners, n \in Node : WriteFails(r, n)
  <2>1. PICK r \in Runners, n \in Node : WriteFails(r, n)
    BY <1>4
  <2>2. /\ t[r].c \in Cycle /\ overlaps' = overlaps
        /\ lost' = lost \/ OneMore(lost, lost', t[r].c, n)
    BY <1>1, <2>1, WriteFailsFx
  <2>3. upsets' = upsets + 1
    BY <2>1 DEF WriteFails, Fault
  <2>4. QED
    BY <2>2, <2>3 DEF Calm, Slips
<1>5. CASE Crash
  <2>1. upsets' = upsets + 1
    BY <1>5 DEF Crash, Fault
  <2>2. QED
    BY <1>1, <1>5, <2>1, CrashFx DEF Kills
<1>6. CASE \/ \E r \in Runners : TickError(r)
           \/ Start \/ Receive \/ IntervalPasses \/ UNCHANGED vars
  BY <1>6 DEF TickError, Fault, Start, Receive, IntervalPasses, vars, Calm
<1>7. QED
  BY <1>2, <1>3, <1>4, <1>5, <1>6 DEF Next

\* A tick holds at most one payment, so the payments in hand are no more than the ticks.
LEMMA HandsTotal ==
    ASSUME IInv, NEW c \in Cycle
    PROVE  /\ Total([n \in Node |-> HandSize(c, n)], Node) <= 1 + overlaps
           /\ \A n \in Node : HandSize(c, n) \in Nat
<1> DEFINE h == [n \in Node |-> HandSize(c, n)]
           Held(T) == {r \in Runners : \E n \in T : Holds(r, c, n)}
           Good == {T \in SUBSET Node : Total(h, T) = Cardinality(Held(T))}
<1>1. \A n \in Node : /\ Hand(c, n) \in SUBSET Runners /\ IsFiniteSet(Hand(c, n))
                      /\ HandSize(c, n) \in Nat /\ h[n] = Cardinality(Hand(c, n))
                      /\ h[n] \in Int
  <2> SUFFICES ASSUME NEW n \in Node
               PROVE  /\ Hand(c, n) \in SUBSET Runners /\ IsFiniteSet(Hand(c, n))
                      /\ HandSize(c, n) \in Nat /\ h[n] = Cardinality(Hand(c, n))
                      /\ h[n] \in Int
    OBVIOUS
  <2>1. Hand(c, n) \in SUBSET Runners
    BY DEF Hand
  <2>2. IsFiniteSet(Hand(c, n))
    BY <2>1, Facts, FS_Subset
  <2>3. QED
    BY <2>1, <2>2, FS_CardinalityType DEF HandSize
<1>2. ASSUME NEW T \in SUBSET Node PROVE IsFiniteSet(Held(T)) /\ IsFiniteSet(T)
  <2>1. Held(T) \in SUBSET Runners
    OBVIOUS
  <2>2. QED
    BY <2>1, Facts, FS_Subset
<1> HIDE DEF h
<1>3. ASSUME NEW T \in SUBSET Node, \A U \in SUBSET T : U # T => U \in Good
      PROVE  T \in Good
  <2>1. CASE T = {}
    <3>1. Held(T) = {}
      BY <2>1
    <3>2. QED
      BY <2>1, <3>1, TotalEmpty, FS_EmptySet
  <2>2. ASSUME NEW x \in T PROVE T \in Good
    <3> DEFINE U == T \ {x}
    <3>1. U \in Good /\ U \in SUBSET Node
      <4>1. U \in SUBSET T /\ U # T
        OBVIOUS
      <4>2. QED
        BY <1>3, <4>1
    <3>2. Total(h, T) = h[x] + Total(h, U)
      <4>1. \A y \in T : h[y] \in Int
        BY <1>1
      <4>2. QED
        BY <1>2, <4>1, TotalRemove
    <3>3. Held(T) = Hand(c, x) \union Held(U)
      BY DEF Hand
    <3>4. Hand(c, x) \intersect Held(U) = {}
      <4> SUFFICES ASSUME NEW r \in Runners, Holds(r, c, x), NEW n \in U, Holds(r, c, n)
                   PROVE  FALSE
        BY DEF Hand
      <4>1. n = x
        BY OneIsNext DEF Holds
      <4>2. QED
        BY <4>1
    <3>5. IsFiniteSet(Hand(c, x)) /\ IsFiniteSet(Held(U))
      BY <1>1, <1>2, <3>1
    <3> HIDE DEF Held
    <3>6. Cardinality(Held(T)) = Cardinality(Hand(c, x)) + Cardinality(Held(U))
      <4>1. Cardinality(Hand(c, x) \intersect Held(U)) = 0
        BY <3>4, FS_EmptySet
      <4>2. Cardinality(Hand(c, x)) \in Nat /\ Cardinality(Held(U)) \in Nat
        BY <3>5, FS_CardinalityType
      <4>3. Cardinality(Hand(c, x) \union Held(U))
              = Cardinality(Hand(c, x)) + Cardinality(Held(U))
                  - Cardinality(Hand(c, x) \intersect Held(U))
        BY <3>5, FS_Union
      <4>4. QED
        BY <3>3, <4>1, <4>2, <4>3
    <3>7. h[x] = Cardinality(Hand(c, x))
      BY <1>1
    <3>8. QED
      BY <3>1, <3>2, <3>6, <3>7
  <2>3. QED
    BY <2>1, <2>2
<1>4. Total(h, Node) = Cardinality(Held(Node))
  <2>1. Good \in SUBSET SUBSET Node
    OBVIOUS
  <2> HIDE DEF Good
  <2>2. Node \in Good
    BY <1>3, <2>1, Facts, SubsetInduction
  <2>3. QED
    BY <2>2 DEF Good
<1>5. Held(Node) \in SUBSET Ticking
  BY DEF Holds, Ticking, Running, In
<1>6. Cardinality(Held(Node)) <= Cardinality(Ticking) /\ Cardinality(Held(Node)) \in Nat
      /\ Cardinality(Ticking) \in Nat
  <2>1. IsFiniteSet(Ticking)
    BY Facts, FS_Subset DEF Ticking
  <2>2. QED
    BY <1>5, <2>1, FS_Subset, FS_CardinalityType
<1>7. Cardinality(Ticking) <= 1 + overlaps /\ overlaps \in Nat
  BY Facts DEF IInv, RunInv, TypeOK
<1> HIDE DEF Held
<1>8. Total(h, Node) <= 1 + overlaps
  BY <1>4, <1>6, <1>7
<1>9. QED
  BY <1>1, <1>8 DEF h

\* The bound grows with each mishap and each overlap.
LEMMA BoundGrows ==
    ASSUME NEW m \in Nat, NEW k \in Nat, NEW n \in Nat, NEW j \in Nat, m <= n, k <= j
    PROVE  m * k <= n * j
<1>1. PICK a \in Nat, b \in Nat : n = m + a /\ j = k + b
  <2>1. n - m \in Nat /\ j - k \in Nat /\ n = m + (n - m) /\ j = k + (j - k)
    OBVIOUS
  <2>2. QED
    BY <2>1
<1>2. n * j = m * k + m * b + a * k + a * b
  BY <1>1
<1>3. m * b \in Nat /\ a * k \in Nat /\ a * b \in Nat /\ m * k \in Nat
  BY <1>1
<1>4. QED
  BY <1>2, <1>3

LEMMA BoundKept ==
    ASSUME NEW u \in Nat, NEW o \in Nat, NEW w \in Nat, NEW p \in Nat, 2 * o <= u,
           \/ w = u /\ p = o
           \/ w = u + 1 /\ p = o
           \/ w = u + 2 /\ p = o + 1
    PROVE  2 * p <= w /\ (u - 2 * o) * (1 + o) <= (w - 2 * p) * (1 + p)
<1>1. /\ u - 2 * o \in Nat /\ w - 2 * p \in Nat /\ 1 + o \in Nat /\ 1 + p \in Nat
      /\ u - 2 * o <= w - 2 * p /\ 1 + o <= 1 + p
  OBVIOUS
<1>2. (u - 2 * o) * (1 + o) <= (w - 2 * p) * (1 + p)
  BY <1>1, BoundGrows
<1>3. QED
  BY <1>1, <1>2

LEMMA ForgotIsNat ==
    ASSUME TypeOK, NEW c \in Cycle
    PROVE  Forgot(c) \in Nat /\ \A n \in Node : lost[c][n] \in Nat
<1>1. \A n \in Node : lost[c][n] \in Nat
  BY DEF TypeOK
<1>2. QED
  BY <1>1, Facts, TotalNat DEF Forgot

LEMMA LossInit == Init => LossInv
<1> SUFFICES ASSUME Init PROVE LossInv
  OBVIOUS
<1>1. upsets = 0 /\ overlaps = 0
  BY DEF Init
<1>2. ASSUME NEW c \in Cycle PROVE Forgot(c) = 0
  <2>1. lost[c] = [n \in Node |-> 0]
    BY DEF Init
  <2>2. QED
    BY <2>1, Facts, TotalZero DEF Forgot
<1>3. QED
  BY <1>1, <1>2 DEF LossInv, Mishaps

LEMMA LossStep ==
    ASSUME IInv, LossInv, [Next]_vars, IInv'
    PROVE  LossInv'
<1>1. TypeOK /\ TypeOK'
  BY DEF IInv
<1>2. upsets \in Nat /\ overlaps \in Nat /\ upsets' \in Nat /\ overlaps' \in Nat
  BY <1>1, Facts DEF TypeOK
<1>3. Mishaps \in Nat /\ 1 + overlaps \in Nat
  BY <1>2 DEF LossInv, Mishaps
<1>4. \A c \in Cycle : Forgot(c) \in Nat /\ Forgot(c)' \in Nat
  <2>1. \A c \in Cycle : Forgot(c) \in Nat
    BY <1>1, ForgotIsNat
  <2>2. (\A c \in Cycle : Forgot(c) \in Nat)'
    <3>1. TypeOK => \A c \in Cycle : Forgot(c) \in Nat
      BY ForgotIsNat
    <3>2. \A c \in Cycle : \A n \in Node : lost'[c][n] \in Nat
      BY <1>1 DEF TypeOK
    <3>3. QED
      BY <3>2, Facts, TotalNat DEF Forgot
  <2>3. QED
    BY <2>1, <2>2
<1>5. CASE Calm
  <2>1. \A c \in Cycle : Forgot(c)' = Forgot(c)
    BY <1>5 DEF Calm, Forgot
  <2>2. PICK u \in Nat, o \in Nat, w \in Nat, p \in Nat :
           /\ u = upsets /\ o = overlaps /\ w = upsets' /\ p = overlaps'
           /\ 2 * o <= u
           /\ \/ w = u /\ p = o
              \/ w = u + 1 /\ p = o
              \/ w = u + 2 /\ p = o + 1
    BY <1>2, <1>5 DEF Calm, LossInv
  <2>3. 2 * p <= w /\ (u - 2 * o) * (1 + o) <= (w - 2 * p) * (1 + p)
    BY <2>2, BoundKept
  <2>4. Mishaps * (1 + overlaps) = (u - 2 * o) * (1 + o)
    BY <2>2 DEF Mishaps
  <2>5. Mishaps' * (1 + overlaps') = (w - 2 * p) * (1 + p)
    BY <2>2 DEF Mishaps
  <2>6. PICK x \in Int, y \in Int :
           x = (u - 2 * o) * (1 + o) /\ y = (w - 2 * p) * (1 + p)
    OBVIOUS
  <2>7. \A c \in Cycle : Forgot(c) <= x
    BY <2>4, <2>6 DEF LossInv
  <2>8. \A c \in Cycle : Forgot(c)' <= y
    BY <1>4, <2>1, <2>3, <2>6, <2>7
  <2>9. 2 * overlaps' <= upsets'
    BY <2>2, <2>3
  <2>10. QED
    BY <2>5, <2>6, <2>8, <2>9 DEF LossInv
<1>6. CASE Slips \/ Kills
  <2>1. /\ upsets' = upsets + 1 /\ overlaps' = overlaps
    BY <1>6 DEF Slips, Kills
  <2>2. 2 * overlaps' <= upsets' /\ Mishaps' = Mishaps + 1
    BY <1>2, <2>1 DEF LossInv, Mishaps
  <2>3. \A c \in Cycle : Forgot(c)' <= Forgot(c) + (1 + overlaps)
    <3> SUFFICES ASSUME NEW c \in Cycle PROVE Forgot(c)' <= Forgot(c) + (1 + overlaps)
      OBVIOUS
    <3>1. PICK v, w : /\ v = lost[c] /\ w = lost'[c]
                      /\ \A n \in Node : v[n] \in Nat /\ w[n] \in Nat
      BY <1>1 DEF TypeOK
    <3>2. CASE Slips
      <4>1. PICK d \in Cycle, m \in Node : OneMore(lost, lost', d, m)
        BY <3>2 DEF Slips
      <4>2. CASE c = d
        <5>1. w[m] = v[m] + 1 /\ \A n \in Node \ {m} : v[n] = w[n]
          BY <3>1, <4>1, <4>2 DEF OneMore
        <5>2. \A n \in Node : v[n] \in Int /\ w[n] \in Int
          BY <3>1
        <5>3. Total(w, Node) = Total(v, Node) + w[m] - v[m]
          BY <5>1, <5>2, Facts, TotalChange
        <5>4. Forgot(c)' = Forgot(c) + w[m] - v[m]
          BY <3>1, <5>3 DEF Forgot
        <5>5. QED
          BY <1>2, <1>4, <3>1, <5>1, <5>4
      <4>3. CASE c # d
        <5>1. \A n \in Node : v[n] = w[n]
          BY <3>1, <4>1, <4>3 DEF OneMore
        <5>2. Total(v, Node) = Total(w, Node)
          BY <5>1, Facts, TotalSame
        <5>3. Forgot(c)' = Forgot(c)
          BY <3>1, <5>2 DEF Forgot
        <5>4. QED
          BY <1>2, <1>4, <5>3
      <4>4. QED
        BY <4>2, <4>3
    <3>3. CASE Kills
      <4> DEFINE h == [n \in Node |-> HandSize(c, n)]
      <4>1. Total(h, Node) <= 1 + overlaps /\ \A n \in Node : h[n] \in Nat
        BY HandsTotal
      <4>2. \A n \in Node : w[n] = v[n] + h[n]
        BY <3>1, <3>3 DEF Kills
      <4> HIDE DEF h
      <4>3. Total(w, Node) = Total(v, Node) + Total(h, Node)
        <5>1. \A n \in Node : v[n] \in Int /\ h[n] \in Int
          BY <3>1, <4>1
        <5>2. IsFiniteSet(Node)
          BY Facts
        <5>3. QED
          BY <4>2, <5>1, <5>2, TotalPlus
      <4>4. Total(h, Node) \in Nat
        BY <4>1, Facts, TotalNat
      <4>5. Forgot(c)' = Forgot(c) + Total(h, Node)
        BY <3>1, <4>3 DEF Forgot
      <4>6. QED
        BY <1>2, <1>4, <4>1, <4>4, <4>5
    <3>4. QED
      BY <1>6, <3>2, <3>3
  <2>4. Mishaps' * (1 + overlaps') = Mishaps * (1 + overlaps) + (1 + overlaps)
    BY <1>2, <1>3, <2>1, <2>2
  <2>5. PICK x \in Int, k \in Int : x = Mishaps * (1 + overlaps) /\ k = 1 + overlaps
    BY <1>2, <1>3
  <2>6. \A c \in Cycle : Forgot(c)' <= x + k
    BY <1>4, <2>3, <2>5 DEF LossInv
  <2>7. QED
    BY <2>2, <2>4, <2>5, <2>6 DEF LossInv
<1>7. QED
  BY <1>5, <1>6, NextForgets

-----------------------------------------------------------------------------
(***************************************************************************)
(* The theorems.                                                           *)
(***************************************************************************)

\* The inductive invariant holds in every state that ticks of the worker's loop and of
\* POST /masternode-rewards/trigger reach, in any order and with any overlaps, whatever
\* calls fail and wherever the process stops (masternode-reward-worker.ts).
THEOREM Invariance == Spec => []IInv
<1>1. Init => IInv
  BY InitInv
<1>2. IInv /\ [Next]_vars => IInv'
  BY NextInv
<1>3. QED
  BY <1>1, <1>2, PTL DEF Spec

\* The documents of masternode_reward_cycles, the ticks and the counts keep their types:
\* a tick never leaves the cycles and masternodes there are.
THEOREM TypeCorrect == Spec => []TypeOK
<1>1. IInv => TypeOK
  BY DEF IInv
<1>2. QED
  BY <1>1, Invariance, PTL

\* Every payment the node made for a payout is on file, in the hand of a tick, forgotten
\* by a failed call or a kill, or one of as many more as ticks overlapped: executeCycle
\* never sends a payout that it read with a txid.
THEOREM PayoutsAreAccountedFor == Spec => []PayoutsAccountedFor
<1>1. IInv => PayoutsAccountedFor
  <2> SUFFICES ASSUME IInv, NEW c \in Cycle, NEW n \in Node
               PROVE  sends[c][n] - (lost[c][n] + HandHeld(c, n) + OnFile(c, n))
                        \in 0..overlaps
    BY DEF PayoutsAccountedFor
  <2>1. TypeOK /\ CountInv(c, n)
    BY DEF IInv
  <2>2. PICK p \in Nat, l \in Nat, f \in {0, 1}, o \in Nat, h \in Nat, s \in Nat :
           /\ p = sends[c][n] /\ l = lost[c][n] /\ f = OnFile(c, n) /\ o = overlaps
           /\ h = Cardinality(Hand(c, n)) /\ s = Cardinality(Senders(c, n))
    <3>1. Cardinality(Hand(c, n)) \in Nat /\ Cardinality(Senders(c, n)) \in Nat
      BY Facts, FS_Subset, FS_CardinalityType DEF Hand, Senders
    <3>2. /\ sends[c][n] \in Nat /\ lost[c][n] \in Nat /\ OnFile(c, n) \in {0, 1}
          /\ overlaps \in Nat
      BY <2>1, PayoutTypes, Facts DEF TypeOK
    <3>3. QED
      BY <3>1, <3>2
  <2>3. Counted(p, f, l, h, s, o)
    BY <2>1, <2>2 DEF CountInv
  <2>4. p - (l + h + f) \in 0..o
    BY <2>3 DEF Counted
  <2>5. HandHeld(c, n) = h
    BY <2>2 DEF HandHeld, Hand
  <2>6. QED
    BY <2>2, <2>4, <2>5
<1>2. QED
  BY <1>1, Invariance, PTL

\* A cycle that finaliseCycle made COMPLETE has a txid for every payout, and as long as
\* no tick overlapped all of them are BROADCAST.
THEOREM CompleteIsPaid == Spec => []CompleteMeansPaid
<1>1. IInv => CompleteMeansPaid
  <2> SUFFICES ASSUME IInv, NEW c \in Cycle, NEW n \in Node, cycle[c].status = "COMPLETE",
                      cycle[c].payouts[n].status # "none"
               PROVE  /\ OnFile(c, n) = 1
                      /\ Alone => cycle[c].payouts[n].status = "BROADCAST"
    BY DEF CompleteMeansPaid
  <2>1. DocInv(c) /\ AloneInv /\ n \in Listed(c)
    BY DEF IInv, Listed
  <2>2. OnFile(c, n) = 1
    BY <2>1 DEF DocInv, OnFile
  <2>3. QED
    BY <2>1, <2>2 DEF AloneInv, AloneDoc
<1>2. QED
  BY <1>1, Invariance, PTL

\* What is paid of one payout without being forgotten.
Paid(c, n) == sends[c][n] - lost[c][n]

LEMMA PaidBound ==
    ASSUME IInv, NEW c \in Cycle, NEW n \in Node
    PROVE  Paid(c, n) \in Int /\ Paid(c, n) <= 1 + overlaps
<1>1. TypeOK /\ RunInv /\ CountInv(c, n)
  BY DEF IInv
<1>2. PICK p \in Nat, l \in Nat, f \in {0, 1}, o \in Nat, h \in Nat, s \in Nat :
         /\ p = sends[c][n] /\ l = lost[c][n] /\ f = OnFile(c, n) /\ o = overlaps
         /\ h = Cardinality(Hand(c, n)) /\ s = Cardinality(Senders(c, n))
  <2>1. Cardinality(Hand(c, n)) \in Nat /\ Cardinality(Senders(c, n)) \in Nat
    BY Facts, FS_Subset, FS_CardinalityType DEF Hand, Senders
  <2>2. /\ sends[c][n] \in Nat /\ lost[c][n] \in Nat /\ OnFile(c, n) \in {0, 1}
        /\ overlaps \in Nat
    BY <1>1, PayoutTypes, Facts DEF TypeOK
  <2>3. QED
    BY <2>1, <2>2
<1>3. Counted(p, f, l, h, s, o) /\ h + s <= 1 + o
  BY <1>1, <1>2, HandsRun DEF CountInv
<1>4. p - l <= 1 + o
  BY <1>3 DEF Counted
<1>5. QED
  BY <1>2, <1>4 DEF Paid

\* What is forgotten stays under its bound in every state.
LEMMA LossBounded == Spec => [](IInv /\ LossInv)
<1>1. Init => IInv /\ LossInv
  BY InitInv, LossInit
<1>2. IInv /\ LossInv /\ [Next]_vars => (IInv /\ LossInv)'
  BY NextInv, LossStep
<1>3. QED
  BY <1>1, <1>2, PTL DEF Spec

\* The arithmetic of what a cycle spends, with price for a payment.
LEMMA SpendArith ==
    ASSUME NEW price \in Nat, NEW pool \in Nat, NEW count \in Nat, NEW k \in Nat,
           NEW m \in Nat, NEW filed \in Int, NEW forgot \in Nat,
           price * count <= pool, filed <= k * count, forgot <= m * k
    PROVE  price * (filed + forgot) <= k * (pool + price * m)
<1>1. price * filed <= k * pool
  <2>1. PICK most \in Nat, spent \in Nat : most = k * count /\ spent = price * count
    OBVIOUS
  <2>2. price * filed <= price * most
    <3>1. filed <= most
      BY <2>1
    <3>2. QED
      BY <3>1
  <2>3. price * most = k * spent
    BY <2>1
  <2>4. k * spent <= k * pool
    <3>1. spent <= pool
      BY <2>1
    <3>2. QED
      BY <3>1
  <2>5. PICK x \in Int, y \in Int, z \in Int, w \in Int :
           x = price * filed /\ y = price * most /\ z = k * spent /\ w = k * pool
    OBVIOUS
  <2>6. QED
    BY <2>2, <2>3, <2>4, <2>5
<1>2. price * forgot <= k * (price * m)
  <2>1. PICK most \in Nat : most = m * k
    OBVIOUS
  <2>2. price * forgot <= price * most
    <3>1. forgot <= most
      BY <2>1
    <3>2. QED
      BY <3>1
  <2>3. price * most = k * (price * m)
    BY <2>1
  <2>4. QED
    BY <2>2, <2>3
<1>3. price * (filed + forgot) = price * filed + price * forgot
  OBVIOUS
<1>4. k * (pool + price * m) = k * pool + k * (price * m)
  <2>1. PICK x \in Nat : x = price * m
    OBVIOUS
  <2>2. k * (pool + x) = k * pool + k * x
    OBVIOUS
  <2>3. QED
    BY <2>1, <2>2
<1>5. PICK a \in Int, b \in Int, x \in Int, y \in Int :
         /\ a = price * filed /\ b = k * pool
         /\ x = price * forgot /\ y = k * (price * m)
  <2>1. price * m \in Nat
    OBVIOUS
  <2>2. QED
    BY <2>1
<1>6. QED
  BY <1>1, <1>2, <1>3, <1>4, <1>5

\* What the node pays for a cycle, with its fees, fits the pool that
\* runMasternodeRewardTick read but for one share more for each failed call and each
\* kill; ticks that overlap may do all of that again, once each.
THEOREM SpendingFitsPool == Spec => []SpentWithinPool
<1>1. IInv /\ LossInv => SpentWithinPool
  <2> SUFFICES ASSUME IInv, LossInv, NEW c \in Cycle
               PROVE  Spent(c) <= (1 + overlaps) * (cycle[c].pool + Price(c) * Mishaps)
    BY DEF SpentWithinPool
  <2> DEFINE v == [n \in Node |-> Paid(c, n)]
             count == Cardinality(Listed(c))
  <2>1. TypeOK /\ DocInv(c) /\ Listed(c) \in SUBSET Node /\ overlaps \in Nat
        /\ upsets \in Nat
    BY Facts DEF IInv, TypeOK, Listed
  <2>2. PICK price \in Nat, pool \in Nat, k \in Nat, m \in Nat :
           price = Price(c) /\ pool = cycle[c].pool /\ k = 1 + overlaps /\ m = Mishaps
    <3>1. Price(c) \in Nat /\ cycle[c].pool \in Nat
      BY <2>1, DocTypes, Facts DEF Price
    <3>2. Mishaps \in Nat
      BY <2>1 DEF LossInv, Mishaps
    <3>3. QED
      BY <2>1, <3>1, <3>2
  <2>3. count \in Nat
    BY <2>1, Facts, FS_Subset, FS_CardinalityType
  <2>4. price * count <= pool
    BY <2>1, <2>2 DEF DocInv, Price
  <2>5. \A n \in Node : v[n] \in Int /\ v[n] <= k
    BY <2>2, PaidBound
  <2>6. \A n \in Node \ Listed(c) : v[n] = 0
    BY <2>1 DEF DocInv, Paid
  <2>7. Forgot(c) \in Nat /\ Forgot(c) <= m * k /\ \A n \in Node : lost[c][n] \in Nat
    BY <2>1, <2>2, ForgotIsNat DEF LossInv
  <2>8. \A n \in Node : sends[c][n] \in Nat /\ sends[c][n] = v[n] + lost[c][n]
    BY <2>1, <2>7 DEF Paid, TypeOK
  <2>9. Spent(c) = price * Total(sends[c], Node)
    <3>1. Total([n \in Node |-> sends[c][n]], Node)
            = MapThenSumSet(LAMBDA n : sends[c][n], Node)
      BY ZenonT(60) DEF Total, MapThenSumSet, MapThenFoldSet
    <3>2. sends[c] = [n \in Node |-> sends[c][n]]
      BY <2>1 DEF TypeOK
    <3>3. QED
      BY <2>2, <3>1, <3>2 DEF Spent
  <2> HIDE DEF v, count
  <2>10. Total(v, Node) <= k * count /\ Total(v, Node) \in Int
    BY <2>1, <2>5, <2>6, Facts, TotalBounded, TotalInt DEF count
  <2>11. Total(sends[c], Node) = Total(v, Node) + Forgot(c)
    <3>1. PICK u, w : u = sends[c] /\ w = lost[c]
      OBVIOUS
    <3>2. \A n \in Node : v[n] \in Int /\ w[n] \in Int
      BY <2>5, <2>7, <3>1
    <3>3. Total(u, Node) = Total(v, Node) + Total(w, Node)
      <4>1. IsFiniteSet(Node)
        BY Facts
      <4>2. \A n \in Node : u[n] = v[n] + w[n]
        BY <2>8, <3>1
      <4>3. QED
        BY <3>2, <4>1, <4>2, TotalPlus
    <3>4. QED
      BY <3>1, <3>3 DEF Forgot
  <2>12. price * (Total(v, Node) + Forgot(c)) <= k * (pool + price * m)
    BY <2>3, <2>4, <2>7, <2>10, SpendArith
  <2>13. QED
    BY <2>2, <2>9, <2>11, <2>12
<1>2. QED
  BY <1>1, LossBounded, PTL
=============================================================================
