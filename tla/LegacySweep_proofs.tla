------------------------- MODULE LegacySweep_proofs -------------------------
(***************************************************************************)
(* The sweep node for any invoices, overlapping ticks, confirmations,      *)
(* chunks and failures.  A block up to final never changes again, so what  *)
(* a tick has read of one stays right however long the tick waits          *)
(* (ScanOk); of the head of the chain a tick may only believe that a       *)
(* payment, once seen, is there until a reorganisation takes it (HoldOk).  *)
(***************************************************************************)
EXTENDS LegacySweep, FiniteSetTheorems, TLAPS

Payment == [block : Nat, amount : Nat, from : Invoices \cup {NoInvoice}]
Payments == [Invoices -> Payment]

TickRec == [
    pc : {"idle", "reconcile", "ask", "align", "tell", "told", "head", "scan",
          "logs", "row", "sweep", "look", "send", "wait", "report", "reported"},
    todo : SUBSET Invoices, cur : Invoices \cup {NoInvoice}, seen : Nat,
    logs : SUBSET (Invoices \X (Nat \ {0})),
    from : 0..(MaxHeight + 1), latest : 0..MaxHeight]

ChainInv ==
    /\ height \in Nat /\ height <= MaxHeight
    /\ final \in Nat /\ final <= height /\ height - Confirmations <= final
    /\ balance \in [Invoices -> Nat] /\ deposits \in [Invoices -> 0..MaxDeposits]
    /\ payment \in Payments
    /\ undone \subseteq Invoices
    /\ \A i \in Invoices :
         /\ payment[i].block <= height
         /\ payment[i].block = 0 <=> payment[i].amount = 0

\* Blocks 1..n are in the cache.
ScannedTo(n, pm, rows) ==
    \A i \in Invoices : pm[i].block \in 1..n => rows[i] = pm[i].amount

\* What a scanning tick knows.
ScanOk(tk, pm, fin, rows) ==
    tk.pc \in {"scan", "logs", "row"} =>
        /\ tk.latest <= fin /\ tk.from <= fin + 1
        /\ ScannedTo(tk.from - 1, pm, rows)
        /\ tk.pc \in {"logs", "row"} =>
             /\ tk.from <= tk.latest
             /\ \A log \in tk.logs : pm[log[1]].block \in 1..fin
                                     /\ log[2] = pm[log[1]].amount
             /\ \A i \in Invoices : pm[i].block \in 1..ChunkEnd(tk) =>
                    rows[i] = pm[i].amount \/ <<i, pm[i].amount>> \in tk.logs

\* What a tick knows of its invoice.
HoldOk(tk, pm, und, reps, drp) ==
    /\ tk.pc \in {"row", "ask", "align", "tell", "told", "look", "send", "wait", "report",
                  "reported"} => tk.cur \in Invoices
    /\ tk.pc = "tell" => tk.seen # 0
    /\ tk.cur \in Invoices \ und =>
         /\ tk.pc \in {"align", "tell"} => tk.seen \in {0, pm[tk.cur].amount}
         /\ tk.pc \in {"told", "report", "reported"} => pm[tk.cur].block # 0
         /\ tk.pc = "told" => reps[tk.cur] # {}
         /\ tk.pc = "reported" => reps[tk.cur] # {} \/ tk.cur \in drp

TicksInv ==
    /\ tick \in [Ticks -> TickRec]
    /\ \A t \in Ticks : /\ ScanOk(tick[t], payment, final, paidRow)
                        /\ HoldOk(tick[t], payment, undone, reports, dropped)

CacheTypes ==
    /\ cached \subseteq Invoices /\ swept \subseteq Invoices /\ dropped \subseteq Invoices
    /\ paidRow \in [Invoices -> Nat] /\ lastScanned \in Nat
    /\ reports \in [Invoices -> SUBSET Nat]
    /\ exact \subseteq Invoices /\ faults \in 0..MaxFaults

\* What the cache and the web server say of an invoice.
SaidOk(pm, und, rows, reps, swp, drp) ==
    \A i \in Invoices \ und :
        /\ rows[i] \in {0, pm[i].amount}
        /\ reps[i] # {} => pm[i].block # 0 /\ reps[i] \subseteq {0, pm[i].amount}
        /\ i \in swp => pm[i].block # 0 /\ (reps[i] # {} \/ i \in drp)

CacheInv ==
    /\ CacheTypes /\ lastScanned <= final
    /\ ScannedTo(lastScanned, payment, paidRow)
    /\ SaidOk(payment, undone, paidRow, reports, swept, dropped)

LegacyInv == ChainInv /\ TicksInv /\ CacheInv

-----------------------------------------------------------------------------
(* What may change under a tick that waits.                                *)

\* Final blocks stay.
FinalStays(pm, pm2, fin) ==
    \A i \in Invoices : pm2[i] # pm[i] =>
        pm[i].block \notin 1..fin /\ pm2[i].block \notin 1..fin

\* Payments stay, but for those in und.
PaymentStays(pm, pm2, und) ==
    \A i \in Invoices \ und : pm[i].block # 0 => pm2[i] = pm[i]

\* A right row of a final payment stays.
RowsStay(pm, fin, rows, rows2) ==
    \A i \in Invoices : pm[i].block \in 1..fin /\ rows[i] = pm[i].amount => rows2[i] = rows[i]

Paid0(pm) == \A i \in Invoices : pm[i].block = 0 <=> pm[i].amount = 0

LEMMA ScanStays ==
    ASSUME NEW tk \in TickRec, NEW pm \in Payments, NEW pm2 \in Payments,
           NEW fin \in Nat, NEW fin2 \in Nat, fin <= fin2, NEW rows, NEW rows2,
           ScanOk(tk, pm, fin, rows), FinalStays(pm, pm2, fin),
           RowsStay(pm, fin, rows, rows2)
    PROVE  ScanOk(tk, pm2, fin2, rows2)
<1> SUFFICES ASSUME tk.pc \in {"scan", "logs", "row"} PROVE ScanOk(tk, pm2, fin2, rows2)
    BY DEF ScanOk
<1>1. /\ tk.from \in Nat /\ tk.latest \in Nat
      /\ tk.latest <= fin /\ tk.from - 1 <= fin /\ ScannedTo(tk.from - 1, pm, rows)
    BY LegacyAssumption DEF ScanOk, TickRec
<1>2. tk.latest <= fin2 /\ tk.from <= fin2 + 1
    BY <1>1
<1>3. ScannedTo(tk.from - 1, pm2, rows2)
    BY <1>1 DEF ScannedTo, FinalStays, RowsStay, Payments
<1>4. ASSUME tk.pc \in {"logs", "row"}
      PROVE  /\ tk.from <= tk.latest
             /\ \A log \in tk.logs : pm2[log[1]].block \in 1..fin2
                                     /\ log[2] = pm2[log[1]].amount
             /\ \A i \in Invoices : pm2[i].block \in 1..ChunkEnd(tk) =>
                    rows2[i] = pm2[i].amount \/ <<i, pm2[i].amount>> \in tk.logs
  <2>1. ChunkEnd(tk) \in Int /\ ChunkEnd(tk) <= fin
      BY <1>1, LegacyAssumption DEF ChunkEnd
  <2>2. \A log \in tk.logs : log[1] \in Invoices
      BY DEF TickRec
  <2>3. \A log \in tk.logs : pm2[log[1]] = pm[log[1]]
      BY <1>4, <2>2 DEF ScanOk, FinalStays
  <2>4. \A log \in tk.logs : pm2[log[1]].block \in 1..fin2 /\ log[2] = pm2[log[1]].amount
      BY <1>4, <2>3 DEF ScanOk
  <2>5. ASSUME NEW i \in Invoices, pm2[i].block \in 1..ChunkEnd(tk)
        PROVE  rows2[i] = pm2[i].amount \/ <<i, pm2[i].amount>> \in tk.logs
    <3>1. pm2[i].block \in 1..fin
        BY <2>1, <2>5
    <3>2. pm2[i] = pm[i]
        BY <3>1 DEF FinalStays
    <3> QED BY <1>4, <2>5, <3>1, <3>2 DEF ScanOk, RowsStay
  <2> QED BY <1>4, <2>4, <2>5 DEF ScanOk
<1> QED BY <1>2, <1>3, <1>4 DEF ScanOk

LEMMA HoldStays ==
    ASSUME NEW tk \in TickRec, NEW pm \in Payments, NEW pm2 \in Payments, Paid0(pm),
           NEW und, NEW und2, NEW reps, NEW reps2, NEW drp, NEW drp2,
           und \subseteq und2, drp \subseteq drp2,
           \A i \in Invoices : reps[i] # {} => reps2[i] # {},
           HoldOk(tk, pm, und, reps, drp), PaymentStays(pm, pm2, und2)
    PROVE  HoldOk(tk, pm2, und2, reps2, drp2)
BY DEF HoldOk, PaymentStays, Paid0

LEMMA ScannedStays ==
    ASSUME NEW pm \in Payments, NEW pm2 \in Payments, NEW fin \in Nat,
           NEW n \in Nat, n <= fin, NEW rows, NEW rows2,
           ScannedTo(n, pm, rows), FinalStays(pm, pm2, fin), RowsStay(pm, fin, rows, rows2)
    PROVE  ScannedTo(n, pm2, rows2)
BY DEF ScannedTo, FinalStays, RowsStay, Payments

LEMMA SaidStays ==
    ASSUME NEW pm \in Payments, NEW pm2 \in Payments, Paid0(pm), NEW und, NEW und2,
           und \subseteq und2, PaymentStays(pm, pm2, und2),
           NEW rows, NEW reps, NEW swp, NEW drp,
           SaidOk(pm, und, rows, reps, swp, drp)
    PROVE  SaidOk(pm2, und2, rows, reps, swp, drp)
BY DEF SaidOk, PaymentStays, Paid0

-----------------------------------------------------------------------------
(* The chain moves.                                                        *)

ChainMoves ==
    /\ ChainInv' /\ final <= final' /\ undone \subseteq undone'
    /\ FinalStays(payment, payment', final) /\ PaymentStays(payment, payment', undone')

LEMMA PaymentFields ==
    ASSUME ChainInv, NEW i \in Invoices
    PROVE  /\ payment[i] \in Payment /\ payment[i].from \in Invoices \cup {NoInvoice}
           /\ payment[i].block \in Nat /\ payment[i].amount \in Nat
           /\ balance[i] \in Nat /\ deposits[i] \in Nat
BY LegacyAssumption DEF ChainInv, Payments, Payment

\* The chain stands still.
LEMMA StillMoves ==
    ASSUME ChainInv, UNCHANGED chain
    PROVE  ChainMoves
<1>1. /\ height' = height /\ final' = final /\ balance' = balance
      /\ payment' = payment /\ deposits' = deposits /\ undone' = undone
    BY DEF chain
<1>2. ChainInv'
    BY <1>1 DEF ChainInv
<1> QED BY <1>1, <1>2 DEF ChainMoves, ChainInv, FinalStays, PaymentStays

LEMMA GrowMoves ==
    ASSUME ChainInv, height < MaxHeight, Grow
    PROVE  /\ height' = height + 1 /\ height' \in Nat /\ height' <= MaxHeight
           /\ final' \in Nat /\ final <= final' /\ final' <= height'
           /\ height' - Confirmations <= final'
BY LegacyAssumption DEF ChainInv, Grow

\* A block in which each invoice of S is paid by the forwarder of from[i].
LEMMA BlockMoves ==
    ASSUME ChainInv, NEW S \in SUBSET Invoices, NEW from \in [S -> Invoices],
           \A i \in S : CanPay(i, from[i]), SweepInBlock(from)
    PROVE  ChainMoves
<1>1. /\ height' = height + 1 /\ height' \in Nat /\ height' <= MaxHeight
      /\ final' \in Nat /\ final <= final' /\ final' <= height'
      /\ height' - Confirmations <= final'
    BY GrowMoves DEF SweepInBlock
<1>2. DOMAIN from = S /\ undone' = undone /\ deposits' = deposits
    BY DEF SweepInBlock
<1>3. ASSUME NEW i \in Invoices
      PROVE  /\ payment'[i] \in Payment /\ balance'[i] \in Nat
             /\ payment'[i].block <= height'
             /\ payment'[i].block = 0 <=> payment'[i].amount = 0
             /\ payment'[i] # payment[i] =>
                    payment[i].block = 0 /\ payment'[i].block = height + 1
  <2>1. /\ payment[i] \in Payment /\ payment[i].block <= height
        /\ payment[i].block \in Nat /\ height \in Nat
        /\ payment[i].block = 0 <=> payment[i].amount = 0
      BY PaymentFields DEF ChainInv
  <2>2. balance'[i] \in Nat
      BY PaymentFields DEF SweepInBlock
  <2>3. CASE i \in S
    <3>1. /\ from[i] \in Invoices /\ balance[from[i]] \in Nat /\ balance[from[i]] # 0
          /\ payment[i].block = 0
        BY <2>3, PaymentFields DEF CanPay, Paid
    <3>2. payment'[i] = [block |-> height + 1, amount |-> balance[from[i]], from |-> from[i]]
        BY <1>2, <2>3 DEF SweepInBlock
    <3>3. /\ payment'[i] \in Payment /\ payment'[i].block = height + 1
          /\ payment'[i].amount = balance[from[i]]
        BY <2>1, <3>1, <3>2 DEF Payment
    <3> QED BY <1>1, <2>1, <2>2, <3>1, <3>3
  <2>4. CASE i \notin S
    <3>1. payment'[i] = payment[i]
        BY <1>2, <2>4 DEF SweepInBlock
    <3> QED BY <1>1, <2>1, <2>2, <3>1
  <2> QED BY <2>3, <2>4
<1>4. payment' \in Payments /\ balance' \in [Invoices -> Nat]
    BY <1>3 DEF SweepInBlock, Payments
<1>5. ChainInv'
    BY <1>1, <1>2, <1>3, <1>4 DEF ChainInv
<1>6. FinalStays(payment, payment', final) /\ PaymentStays(payment, payment', undone')
  <2>1. height + 1 \notin 1..final /\ 0 \notin 1..final
      BY DEF ChainInv
  <2> QED BY <1>3, <2>1 DEF FinalStays, PaymentStays
<1> QED BY <1>1, <1>2, <1>5, <1>6 DEF ChainMoves

LEMMA NewBlockMoves ==
    ASSUME ChainInv, NewBlock
    PROVE  ChainMoves
<1>1. height < MaxHeight
  <2>1. IsFiniteSet({i \in Invoices : ~Paid(i)})
      BY LegacyAssumption, FS_Subset
  <2>2. Cardinality({i \in Invoices : ~Paid(i)}) \in Nat
      BY <2>1, FS_CardinalityType
  <2> QED BY <2>2, LegacyAssumption DEF NewBlock, ChainInv
<1>2. /\ height' = height + 1 /\ height' \in Nat /\ height' <= MaxHeight
      /\ final' \in Nat /\ final <= final' /\ final' <= height'
      /\ height' - Confirmations <= final'
    BY <1>1, GrowMoves DEF NewBlock
<1>3. /\ balance' = balance /\ payment' = payment /\ deposits' = deposits
      /\ undone' = undone
    BY DEF NewBlock
<1>4. \A i \in Invoices : payment'[i].block <= height'
    BY <1>2, <1>3, PaymentFields DEF ChainInv
<1>5. ChainInv'
    BY <1>2, <1>3, <1>4 DEF ChainInv
<1> QED BY <1>2, <1>3, <1>5 DEF ChainMoves, FinalStays, PaymentStays

LEMMA DepositMoves ==
    ASSUME ChainInv, NEW i \in Invoices, Deposit(i)
    PROVE  ChainMoves
<1>1. /\ height' = height /\ final' = final /\ payment' = payment /\ undone' = undone
    BY DEF Deposit
<1>2. balance' \in [Invoices -> Nat] /\ deposits' \in [Invoices -> 0..MaxDeposits]
    BY LegacyAssumption DEF Deposit, ChainInv
<1>3. ChainInv'
    BY <1>1, <1>2 DEF ChainInv
<1> QED BY <1>1, <1>3 DEF ChainMoves, ChainInv, FinalStays, PaymentStays

LEMMA PayReceiverMoves ==
    ASSUME ChainInv, NEW i \in Invoices, PayReceiver(i)
    PROVE  ChainMoves
<1>1. /\ height' = height + 1 /\ height' \in Nat /\ height' <= MaxHeight
      /\ final' \in Nat /\ final <= final' /\ final' <= height'
      /\ height' - Confirmations <= final'
    BY GrowMoves DEF PayReceiver
<1> DEFINE new == [block |-> height + 1, amount |-> 1, from |-> NoInvoice]
<1>2. /\ balance' = balance /\ undone' = undone /\ payment[i].block = 0
      /\ payment' = [payment EXCEPT ![i] = new]
      /\ deposits' = [deposits EXCEPT ![i] = @ + 1]
      /\ deposits[i] < MaxDeposits
    BY DEF PayReceiver, Paid
<1>3. new \in Payment /\ new.block = height + 1 /\ new.amount = 1
    BY DEF Payment, ChainInv
<1> HIDE DEF new
<1>4. /\ payment' \in Payments /\ payment'[i] = new
      /\ \A j \in Invoices : j # i => payment'[j] = payment[j]
    BY <1>2, <1>3 DEF ChainInv, Payments
<1>5. deposits' \in [Invoices -> 0..MaxDeposits]
  <2>1. deposits[i] + 1 \in 0..MaxDeposits
      BY <1>2, LegacyAssumption DEF ChainInv
  <2> QED BY <1>2, <2>1 DEF ChainInv
<1>6. ASSUME NEW j \in Invoices
      PROVE  /\ payment'[j].block <= height'
             /\ payment'[j].block = 0 <=> payment'[j].amount = 0
  <2>1. /\ payment[j].block \in Nat /\ payment[j].amount \in Nat
        /\ payment[j].block <= height /\ height \in Nat
        /\ payment[j].block = 0 <=> payment[j].amount = 0
      BY PaymentFields DEF ChainInv
  <2>2. CASE j = i
      BY <1>1, <1>3, <1>4, <2>1, <2>2
  <2>3. CASE j # i
      BY <1>1, <1>4, <2>1, <2>3
  <2> QED BY <2>2, <2>3
<1>7. ChainInv'
    BY <1>1, <1>2, <1>4, <1>5, <1>6 DEF ChainInv
<1>8. FinalStays(payment, payment', final) /\ PaymentStays(payment, payment', undone')
  <2>1. height + 1 \notin 1..final /\ 0 \notin 1..final
      BY DEF ChainInv
  <2> QED BY <1>2, <1>3, <1>4, <2>1 DEF FinalStays, PaymentStays
<1> QED BY <1>1, <1>2, <1>7, <1>8 DEF ChainMoves

\* Only a block after the final one is replaced.
LEMMA ReorganiseMoves ==
    ASSUME ChainInv, Reorganise
    PROVE  ChainMoves
<1> DEFINE lost == {i \in Invoices : payment[i].block = height}
           Lost(f) == {i \in lost : payment[i].from = f}
<1>1. /\ payment' = [i \in Invoices |-> IF i \in lost THEN Unpaid ELSE payment[i]]
      /\ balance' = [f \in Invoices |->
            IF Lost(f) = {} THEN balance[f]
            ELSE balance[f] + payment[CHOOSE i \in Lost(f) : TRUE].amount]
      /\ undone' = undone \cup lost /\ height' = height - 1 /\ final' = final
      /\ deposits' = deposits /\ final < height
    BY DEF Reorganise
<1>2. /\ height \in Nat /\ height <= MaxHeight /\ final \in Nat
      /\ height' \in Nat /\ height' < height /\ height' <= MaxHeight /\ final <= height'
      /\ height' - Confirmations <= final
    BY <1>1, LegacyAssumption DEF ChainInv
<1>3. ASSUME NEW f \in Invoices
      PROVE  balance'[f] \in Nat
  <2>1. balance[f] \in Nat
      BY PaymentFields
  <2>2. CASE Lost(f) = {}
      BY <1>1, <2>1, <2>2
  <2>3. CASE Lost(f) # {}
    <3> DEFINE i == CHOOSE j \in Lost(f) : TRUE
    <3>1. i \in Lost(f)
        BY <2>3
    <3>2. payment[i].amount \in Nat
        BY <3>1, PaymentFields
    <3>3. balance'[f] = balance[f] + payment[i].amount
        BY <1>1, <2>3
    <3> HIDE DEF i
    <3> QED BY <2>1, <3>2, <3>3
  <2> QED BY <2>2, <2>3
<1>4. ASSUME NEW i \in Invoices
      PROVE  /\ payment'[i] \in Payment
             /\ payment'[i].block <= height'
             /\ payment'[i].block = 0 <=> payment'[i].amount = 0
             /\ payment'[i] # payment[i] => /\ payment[i].block \notin 1..final
                                            /\ payment'[i].block \notin 1..final
                                            /\ i \in undone'
  <2>1. /\ payment[i] \in Payment /\ payment[i].block \in Nat /\ payment[i].block <= height
        /\ payment[i].block = 0 <=> payment[i].amount = 0
      BY PaymentFields DEF ChainInv
  <2>2. CASE i \in lost
    <3>1. payment'[i] = Unpaid /\ i \in undone' /\ payment[i].block = height
        BY <1>1, <2>2
    <3>2. Unpaid \in Payment /\ Unpaid.block = 0 /\ Unpaid.amount = 0
        BY DEF Unpaid, Payment
    <3> QED BY <1>1, <1>2, <3>1, <3>2
  <2>3. CASE i \notin lost
    <3>1. payment'[i] = payment[i] /\ payment[i].block # height
        BY <1>1, <2>3
    <3> QED BY <1>1, <1>2, <2>1, <3>1
  <2> QED BY <2>2, <2>3
<1>5. /\ payment' \in Payments /\ balance' \in [Invoices -> Nat]
      /\ undone' \subseteq Invoices /\ undone \subseteq undone'
    BY <1>1, <1>3, <1>4 DEF Payments, ChainInv
<1>6. ChainInv'
    BY <1>1, <1>2, <1>4, <1>5 DEF ChainInv
<1>7. FinalStays(payment, payment', final) /\ PaymentStays(payment, payment', undone')
    BY <1>4 DEF FinalStays, PaymentStays
<1> QED BY <1>1, <1>2, <1>5, <1>6, <1>7 DEF ChainMoves

-----------------------------------------------------------------------------
(* What the other ticks and the cache keep.                                *)

\* Rows of final payments, reports and losses stay.
CacheGrows ==
    /\ RowsStay(payment, final, paidRow, paidRow')
    /\ \A i \in Invoices : reports[i] # {} => reports'[i] # {}
    /\ dropped \subseteq dropped'

LEMMA WaitingKeeps ==
    ASSUME LegacyInv, ChainMoves, CacheGrows, NEW v \in Ticks
    PROVE  /\ ScanOk(tick[v], payment', final', paidRow')
           /\ HoldOk(tick[v], payment', undone', reports', dropped')
<1>1. /\ tick[v] \in TickRec /\ payment \in Payments /\ payment' \in Payments
      /\ final \in Nat /\ final' \in Nat /\ final <= final' /\ Paid0(payment)
      /\ ScanOk(tick[v], payment, final, paidRow)
      /\ HoldOk(tick[v], payment, undone, reports, dropped)
    BY DEF LegacyInv, TicksInv, ChainInv, ChainMoves, Paid0
<1>2. ScanOk(tick[v], payment', final', paidRow')
    BY <1>1, ScanStays DEF ChainMoves, CacheGrows
<1>3. HoldOk(tick[v], payment', undone', reports', dropped')
    BY <1>1, HoldStays DEF ChainMoves, CacheGrows
<1> QED BY <1>2, <1>3

\* Tick t goes on as tk, the others wait.
LEMMA TickGoes ==
    ASSUME LegacyInv, ChainMoves, CacheGrows, NEW t \in Ticks, NEW tk \in TickRec, Goes(t, tk),
           ScanOk(tk, payment', final', paidRow'),
           HoldOk(tk, payment', undone', reports', dropped')
    PROVE  TicksInv'
<1>1. tick' \in [Ticks -> TickRec]
    BY DEF LegacyInv, TicksInv, Goes
<1>2. \A v \in Ticks : tick'[v] = IF v = t THEN tk ELSE tick[v]
    BY DEF LegacyInv, TicksInv, Goes
<1> QED BY <1>1, <1>2, WaitingKeeps DEF TicksInv

\* The cache waits while the chain moves.
LEMMA CacheWaits ==
    ASSUME LegacyInv, ChainMoves, UNCHANGED <<cache, reports, dropped, exact>>,
           faults' \in 0..MaxFaults
    PROVE  CacheInv' /\ CacheGrows
<1>1. /\ cached' = cached /\ paidRow' = paidRow /\ lastScanned' = lastScanned
      /\ swept' = swept /\ reports' = reports /\ dropped' = dropped /\ exact' = exact
    BY DEF cache
<1>2. /\ payment \in Payments /\ payment' \in Payments /\ final \in Nat /\ final' \in Nat
      /\ final <= final' /\ Paid0(payment) /\ undone \subseteq undone'
      /\ lastScanned \in Nat /\ lastScanned <= final
      /\ FinalStays(payment, payment', final) /\ PaymentStays(payment, payment', undone')
      /\ ScannedTo(lastScanned, payment, paidRow)
      /\ SaidOk(payment, undone, paidRow, reports, swept, dropped)
    BY DEF LegacyInv, ChainInv, ChainMoves, CacheInv, CacheTypes, Paid0
<1>3. CacheGrows
    BY <1>1 DEF CacheGrows, RowsStay
<1>4. ScannedTo(lastScanned', payment', paidRow')
    BY <1>1, <1>2, <1>3, ScannedStays DEF CacheGrows
<1>5. SaidOk(payment', undone', paidRow', reports', swept', dropped')
    BY <1>1, <1>2, SaidStays
<1>6. CacheTypes' /\ lastScanned' <= final'
    BY <1>1, <1>2 DEF LegacyInv, CacheInv, CacheTypes
<1> QED BY <1>3, <1>4, <1>5, <1>6 DEF CacheInv

\* A step of the chain alone.
LEMMA ChainKeeps ==
    ASSUME LegacyInv, ChainMoves, UNCHANGED <<cache, tick, reports, dropped, exact>>,
           faults' \in 0..MaxFaults
    PROVE  LegacyInv'
<1>1. CacheInv' /\ CacheGrows
    BY CacheWaits
<1>2. TicksInv'
    BY <1>1, WaitingKeeps DEF LegacyInv, TicksInv
<1> QED BY <1>1, <1>2 DEF LegacyInv, ChainMoves

\* A step of tick t that changes nothing else.
LEMMA GoesOn ==
    ASSUME LegacyInv, NEW t \in Ticks, NEW tk \in TickRec, Goes(t, tk),
           UNCHANGED <<chain, cache, reports, dropped, exact>>, faults' \in 0..MaxFaults,
           ScanOk(tk, payment, final, paidRow),
           HoldOk(tk, payment, undone, reports, dropped)
    PROVE  LegacyInv'
<1>1. ChainMoves
    BY StillMoves DEF LegacyInv
<1>2. CacheInv' /\ CacheGrows
    BY <1>1, CacheWaits
<1>3. /\ payment' = payment /\ final' = final /\ undone' = undone /\ paidRow' = paidRow
      /\ reports' = reports /\ dropped' = dropped
    BY DEF chain, cache
<1>4. TicksInv'
    BY <1>1, <1>2, <1>3, TickGoes
<1> QED BY <1>1, <1>2, <1>4 DEF LegacyInv, ChainMoves

-----------------------------------------------------------------------------
(* The tick, action by action.                                             *)

LEMMA TickFacts ==
    ASSUME LegacyInv, NEW t \in Ticks
    PROVE  /\ tick[t] \in TickRec
           /\ ScanOk(tick[t], payment, final, paidRow)
           /\ HoldOk(tick[t], payment, undone, reports, dropped)
           /\ tick[t].todo \subseteq Invoices /\ tick[t].cur \in Invoices \cup {NoInvoice}
           /\ tick[t].from \in 0..(MaxHeight + 1) /\ tick[t].latest \in 0..MaxHeight
           /\ faults \in 0..MaxFaults
BY DEF LegacyInv, TicksInv, TickRec, CacheInv, CacheTypes

\* A tick that starts, is over or is between two invoices knows nothing.
Resting == {"idle", "reconcile", "head", "sweep"}

LEMMA Rests ==
    ASSUME NEW tk, tk.pc \in Resting,
           NEW pm, NEW fin, NEW rows, NEW und, NEW reps, NEW drp
    PROVE  ScanOk(tk, pm, fin, rows) /\ HoldOk(tk, pm, und, reps, drp)
BY DEF Resting, ScanOk, HoldOk

LEMMA IdleForms ==
    /\ IdleTick \in TickRec /\ IdleTick.pc \in Resting
    /\ [IdleTick EXCEPT !.pc = "head"] \in TickRec
    /\ [IdleTick EXCEPT !.pc = "head"].pc \in Resting
    /\ \A S \in SUBSET Invoices : \A phase \in Resting :
         /\ [IdleTick EXCEPT !.pc = phase, !.todo = S] \in TickRec
         /\ [IdleTick EXCEPT !.pc = phase, !.todo = S].pc \in Resting
<1>1. IdleTick \in TickRec /\ IdleTick.pc = "idle"
    BY LegacyAssumption DEF IdleTick, TickRec
<1>2. /\ [IdleTick EXCEPT !.pc = "head"] \in TickRec
      /\ [IdleTick EXCEPT !.pc = "head"].pc = "head"
    BY <1>1 DEF TickRec
<1>3. ASSUME NEW S \in SUBSET Invoices, NEW phase \in Resting
      PROVE  /\ [IdleTick EXCEPT !.pc = phase, !.todo = S] \in TickRec
             /\ [IdleTick EXCEPT !.pc = phase, !.todo = S].pc = phase
    BY <1>1 DEF TickRec, Resting
<1> QED BY <1>1, <1>2, <1>3 DEF Resting

LEMMA NextForms ==
    ASSUME NEW tk \in TickRec, NEW phase \in {"reconcile", "sweep"}
    PROVE  /\ [tk EXCEPT !.pc = phase, !.cur = NoInvoice] \in TickRec
           /\ [tk EXCEPT !.pc = phase, !.cur = NoInvoice].pc \in Resting
           /\ [tk EXCEPT !.pc = phase, !.cur = NoInvoice, !.seen = 0] \in TickRec
           /\ [tk EXCEPT !.pc = phase, !.cur = NoInvoice, !.seen = 0].pc \in Resting
<1>1. 0 \in Nat
    BY LegacyAssumption
<1>2. tk.seen \in Nat
    BY DEF TickRec
<1>3. ASSUME NEW n \in Nat
      PROVE  /\ [tk EXCEPT !.pc = phase, !.cur = NoInvoice, !.seen = n] \in TickRec
             /\ [tk EXCEPT !.pc = phase, !.cur = NoInvoice, !.seen = n].pc = phase
    BY DEF TickRec
<1>4. /\ [tk EXCEPT !.pc = phase, !.cur = NoInvoice] \in TickRec
      /\ [tk EXCEPT !.pc = phase, !.cur = NoInvoice].pc = phase
    BY DEF TickRec
<1> QED BY <1>1, <1>3, <1>4 DEF Resting

LEMMA ReconcileKeeps ==
    ASSUME LegacyInv, NEW t \in Ticks, Reconcile(t), UNCHANGED exact
    PROVE  LegacyInv'
<1>1. faults' \in 0..MaxFaults /\ UNCHANGED <<chain, cache, reports, dropped, exact>>
    BY TickFacts DEF Reconcile, Same
<1>2. CASE Goes(t, [IdleTick EXCEPT !.pc = "head"])
    BY <1>1, <1>2, GoesOn, Rests, IdleForms
<1>3. ASSUME NEW i \in tick[t].todo \ swept,
             Goes(t, [tick[t] EXCEPT !.pc = "ask", !.cur = i,
                                     !.todo = (tick[t].todo \ swept) \ {i}])
      PROVE  LegacyInv'
  <2> DEFINE tk == [tick[t] EXCEPT !.pc = "ask", !.cur = i,
                                   !.todo = (tick[t].todo \ swept) \ {i}]
  <2>1. tk \in TickRec /\ ScanOk(tk, payment, final, paidRow)
        /\ HoldOk(tk, payment, undone, reports, dropped)
      BY TickFacts DEF TickRec, ScanOk, HoldOk
  <2> QED BY <1>1, <1>3, <2>1, GoesOn
<1> QED BY <1>2, <1>3 DEF Reconcile

LEMMA AskReceiverKeeps ==
    ASSUME LegacyInv, NEW t \in Ticks, AskReceiver(t), UNCHANGED exact
    PROVE  LegacyInv'
<1> DEFINE tk == [tick[t] EXCEPT !.pc = "align", !.seen = payment[tick[t].cur].amount]
<1>1. faults' \in 0..MaxFaults /\ UNCHANGED <<chain, cache, reports, dropped, exact>>
    BY TickFacts DEF AskReceiver, Same
<1>2. tick[t].cur \in Invoices /\ tick[t] \in TickRec
    BY TickFacts DEF AskReceiver, HoldOk
<1>3. payment[tick[t].cur].amount \in Nat
    BY <1>2, PaymentFields DEF LegacyInv
<1>4. tk \in TickRec
    BY <1>2, <1>3 DEF TickRec
<1>5. tk.pc = "align" /\ tk.cur = tick[t].cur /\ tk.seen = payment[tick[t].cur].amount
    BY <1>2 DEF TickRec
<1>6. ScanOk(tk, payment, final, paidRow) /\ HoldOk(tk, payment, undone, reports, dropped)
    BY <1>2, <1>5 DEF ScanOk, HoldOk
<1> QED BY <1>1, <1>4, <1>6, GoesOn DEF AskReceiver

LEMMA GetHeadKeeps ==
    ASSUME LegacyInv, NEW t \in Ticks, GetHead(t), UNCHANGED exact
    PROVE  LegacyInv'
<1> DEFINE tk == [tick[t] EXCEPT !.pc = "scan", !.latest = Confirmed, !.from = ScanFrom]
<1>1. faults' \in 0..MaxFaults /\ UNCHANGED <<chain, cache, reports, dropped, exact>>
    BY TickFacts DEF GetHead, Same
<1>2. /\ final \in Nat /\ final <= MaxHeight /\ height - Confirmations <= final
      /\ height \in Nat /\ lastScanned \in Nat /\ lastScanned <= final
      /\ ScannedTo(lastScanned, payment, paidRow)
    BY LegacyAssumption DEF LegacyInv, ChainInv, CacheInv, CacheTypes
<1>3. Confirmed \in 0..MaxHeight /\ Confirmed <= final
    BY <1>2, LegacyAssumption DEF Confirmed
<1>4. /\ ScanFrom \in 0..(MaxHeight + 1) /\ ScanFrom <= final + 1
      /\ ScanFrom - 1 <= lastScanned
    BY <1>2, LegacyAssumption DEF ScanFrom
<1>5. ScannedTo(ScanFrom - 1, payment, paidRow)
    BY <1>2, <1>4 DEF ScannedTo
<1>6. tick[t] \in TickRec /\ tk \in TickRec
    BY <1>3, <1>4, TickFacts DEF TickRec
<1>7. tk.pc = "scan" /\ tk.latest = Confirmed /\ tk.from = ScanFrom /\ tk.cur = tick[t].cur
    BY <1>6 DEF TickRec
<1>8. ScanOk(tk, payment, final, paidRow)
    BY <1>3, <1>4, <1>5, <1>7 DEF ScanOk
<1>9. HoldOk(tk, payment, undone, reports, dropped)
    BY <1>7 DEF HoldOk
<1> QED BY <1>1, <1>6, <1>8, <1>9, GoesOn DEF GetHead

LEMMA GetLogsKeeps ==
    ASSUME LegacyInv, NEW t \in Ticks, GetLogs(t), UNCHANGED exact
    PROVE  LegacyInv'
<1> DEFINE found == {<<i, payment[i].amount>> :
                        i \in {j \in Invoices : Paid(j) /\
                                 payment[j].block \in tick[t].from..ChunkEnd(tick[t])}}
           tk == [tick[t] EXCEPT !.pc = "logs", !.logs = found]
<1>1. faults' \in 0..MaxFaults /\ UNCHANGED <<chain, cache, reports, dropped, exact>>
    BY TickFacts DEF GetLogs, Same
<1>2. CASE Goes(t, [IdleTick EXCEPT !.pc = "sweep", !.todo = AwaitingSweep])
  <2>1. AwaitingSweep \in SUBSET Invoices
      BY DEF AwaitingSweep, LegacyInv, CacheInv, CacheTypes
  <2>2. /\ [IdleTick EXCEPT !.pc = "sweep", !.todo = AwaitingSweep] \in TickRec
        /\ [IdleTick EXCEPT !.pc = "sweep", !.todo = AwaitingSweep].pc \in Resting
      BY <2>1, IdleForms DEF Resting
  <2> QED BY <1>1, <1>2, <2>2, GoesOn, Rests
<1>3. CASE tick[t].pc = "scan" /\ tick[t].from <= tick[t].latest /\ Goes(t, tk)
  <2>1. /\ tick[t] \in TickRec /\ tick[t].from \in Nat /\ tick[t].latest \in Nat
        /\ tick[t].latest <= final /\ tick[t].from <= final + 1 /\ final \in Nat
        /\ ScannedTo(tick[t].from - 1, payment, paidRow)
      BY <1>3, TickFacts, LegacyAssumption DEF ScanOk, LegacyInv, ChainInv
  <2>2. ChunkEnd(tick[t]) \in Int /\ ChunkEnd(tick[t]) <= final
      BY <2>1, LegacyAssumption DEF ChunkEnd
  <2>3. \A i \in Invoices : /\ payment[i].block \in Nat /\ payment[i].amount \in Nat
                            /\ payment[i].block = 0 <=> payment[i].amount = 0
      BY PaymentFields DEF LegacyInv, ChainInv
  <2>4. \A log \in found : /\ log \in Invoices \X (Nat \ {0})
                           /\ payment[log[1]].block \in 1..final
                           /\ log[2] = payment[log[1]].amount
    <3> SUFFICES ASSUME NEW i \in Invoices, payment[i].block # 0,
                        payment[i].block \in tick[t].from..ChunkEnd(tick[t])
                 PROVE  /\ payment[i].amount \in (Nat \ {0})
                        /\ payment[i].block \in 1..final
        BY DEF Paid
    <3> QED BY <2>1, <2>2, <2>3, LegacyAssumption
  <2>5. \A i \in Invoices : payment[i].block \in 1..ChunkEnd(tick[t]) =>
            paidRow[i] = payment[i].amount \/ <<i, payment[i].amount>> \in found
    <3> SUFFICES ASSUME NEW i \in Invoices, payment[i].block \in 1..ChunkEnd(tick[t])
                 PROVE  paidRow[i] = payment[i].amount \/ <<i, payment[i].amount>> \in found
        OBVIOUS
    <3>1. CASE payment[i].block \in 1..(tick[t].from - 1)
        BY <2>1, <3>1 DEF ScannedTo
    <3>2. CASE payment[i].block \in tick[t].from..ChunkEnd(tick[t])
        BY <3>2, <2>3 DEF Paid
    <3> QED BY <2>1, <2>2, <2>3, <3>1, <3>2
  <2> HIDE DEF found
  <2>6. tk \in TickRec
      BY <2>1, <2>4 DEF TickRec
  <2>7. /\ tk.pc = "logs" /\ tk.logs = found /\ tk.from = tick[t].from
        /\ tk.latest = tick[t].latest /\ tk.cur = tick[t].cur
        /\ ChunkEnd(tk) = ChunkEnd(tick[t])
      BY <2>1 DEF TickRec, ChunkEnd
  <2> HIDE DEF tk
  <2>8. ScanOk(tk, payment, final, paidRow)
      BY <1>3, <2>1, <2>4, <2>5, <2>7 DEF ScanOk
  <2>9. HoldOk(tk, payment, undone, reports, dropped)
      BY <2>7 DEF HoldOk
  <2> QED BY <1>1, <1>3, <2>6, <2>8, <2>9, GoesOn
<1> QED BY <1>2, <1>3 DEF GetLogs

LEMMA NextSweepKeeps ==
    ASSUME LegacyInv, NEW t \in Ticks, NextSweep(t), UNCHANGED exact
    PROVE  LegacyInv'
<1>1. faults' \in 0..MaxFaults /\ UNCHANGED <<chain, cache, reports, dropped, exact>>
    BY TickFacts DEF NextSweep, Same
<1>2. CASE Goes(t, IdleTick)
    BY <1>1, <1>2, GoesOn, Rests, IdleForms
<1>3. ASSUME NEW i \in tick[t].todo,
             Goes(t, [tick[t] EXCEPT !.pc = "look", !.cur = i, !.todo = @ \ {i}])
      PROVE  LegacyInv'
  <2> DEFINE tk == [tick[t] EXCEPT !.pc = "look", !.cur = i, !.todo = @ \ {i}]
  <2>1. tk \in TickRec /\ ScanOk(tk, payment, final, paidRow)
        /\ HoldOk(tk, payment, undone, reports, dropped)
      BY TickFacts DEF TickRec, ScanOk, HoldOk
  <2> QED BY <1>1, <1>3, <2>1, GoesOn
<1> QED BY <1>2, <1>3 DEF NextSweep

\* A tick with its invoice in hand that goes on to phase.
LEMMA HandForms ==
    ASSUME LegacyInv, NEW t \in Ticks, tick[t].cur \in Invoices,
           NEW phase \in {"tell", "told", "look", "send", "wait", "report", "reported"}
    PROVE  LET tk == [tick[t] EXCEPT !.pc = phase]
           IN  /\ tk \in TickRec /\ tk.pc = phase
               /\ tk.cur = tick[t].cur /\ tk.seen = tick[t].seen
               /\ \A rows : ScanOk(tk, payment, final, rows)
<1>1. tick[t] \in TickRec
    BY TickFacts
<1>2. /\ [tick[t] EXCEPT !.pc = phase] \in TickRec /\ [tick[t] EXCEPT !.pc = phase].pc = phase
      /\ [tick[t] EXCEPT !.pc = phase].cur = tick[t].cur
      /\ [tick[t] EXCEPT !.pc = phase].seen = tick[t].seen
    BY <1>1 DEF TickRec
<1> QED BY <1>2 DEF ScanOk

LEMMA LookAtReceiverKeeps ==
    ASSUME LegacyInv, NEW t \in Ticks, LookAtReceiver(t), UNCHANGED exact
    PROVE  LegacyInv'
<1> DEFINE phase == IF Paid(tick[t].cur) THEN "report" ELSE "send"
           tk == [tick[t] EXCEPT !.pc = phase]
<1>1. faults' \in 0..MaxFaults /\ UNCHANGED <<chain, cache, reports, dropped, exact>>
    BY TickFacts DEF LookAtReceiver, Same
<1>2. tick[t].cur \in Invoices
    BY TickFacts DEF LookAtReceiver, HoldOk
<1>3. /\ tk \in TickRec /\ tk.pc = phase /\ tk.cur = tick[t].cur
      /\ ScanOk(tk, payment, final, paidRow)
  <2>1. phase \in {"tell", "told", "look", "send", "wait", "report", "reported"}
      OBVIOUS
  <2> HIDE DEF phase
  <2> QED BY <1>2, <2>1, HandForms
<1>4. HoldOk(tk, payment, undone, reports, dropped)
    BY <1>2, <1>3 DEF HoldOk, Paid
<1> QED BY <1>1, <1>3, <1>4, GoesOn DEF LookAtReceiver

LEMMA SendKeeps ==
    ASSUME LegacyInv, NEW t \in Ticks, Send(t), UNCHANGED exact
    PROVE  LegacyInv'
<1>1. faults' \in 0..MaxFaults /\ UNCHANGED <<chain, cache, reports, dropped, exact>>
    BY TickFacts DEF Send, Same
<1>2. CASE Goes(t, [tick[t] EXCEPT !.pc = "wait"])
  <2> DEFINE tk == [tick[t] EXCEPT !.pc = "wait"]
  <2>1. tick[t].cur \in Invoices
      BY TickFacts DEF Send, HoldOk
  <2>2. /\ tk \in TickRec /\ tk.pc = "wait" /\ tk.cur = tick[t].cur
        /\ ScanOk(tk, payment, final, paidRow)
      BY <2>1, HandForms
  <2>3. HoldOk(tk, payment, undone, reports, dropped)
      BY <2>1, <2>2 DEF HoldOk
  <2> QED BY <1>1, <1>2, <2>2, <2>3, GoesOn
<1>3. CASE NextInvoice(t)
    BY <1>1, <1>3, TickFacts, NextForms, GoesOn, Rests DEF NextInvoice
<1> QED BY <1>2, <1>3 DEF Send

LEMMA MinedKeeps ==
    ASSUME LegacyInv, NEW t \in Ticks, Mined(t), UNCHANGED exact
    PROVE  LegacyInv'
<1> DEFINE i == tick[t].cur
           tk == [tick[t] EXCEPT !.pc = "report"]
<1>1. faults' \in 0..MaxFaults /\ UNCHANGED <<cache, reports, dropped, exact>>
    BY TickFacts DEF Mined
<1>2. CASE UNCHANGED chain /\ NextInvoice(t)
  <2>1. UNCHANGED <<chain, cache, reports, dropped, exact>>
      BY <1>1, <1>2
  <2> QED BY <1>1, <1>2, <2>1, TickFacts, NextForms, GoesOn, Rests DEF NextInvoice
<1> DEFINE own == [j \in {i} |-> j]
<1>3. CASE CanPay(i, i) /\ SweepInBlock(own) /\ Goes(t, tk)
  <2>1. i \in Invoices
      BY TickFacts DEF Mined, HoldOk
  <2>2. ChainMoves
    <3>1. {i} \in SUBSET Invoices /\ own \in [{i} -> Invoices] /\ own[i] = i
        BY <2>1
    <3>2. \A j \in {i} : CanPay(j, own[j])
        BY <1>3, <3>1
    <3> HIDE DEF own
    <3> QED BY <1>3, <3>1, <3>2, BlockMoves DEF LegacyInv
  <2>3. CacheInv' /\ CacheGrows
      BY <1>1, <2>2, CacheWaits
  <2>4. payment'[i].block # 0
    <3>1. payment'[i] = [block |-> height + 1, amount |-> balance[i], from |-> i]
        BY <1>3, <2>1 DEF SweepInBlock
    <3>2. height \in Nat
        BY DEF LegacyInv, ChainInv
    <3> QED BY <3>1, <3>2
  <2>5. tk \in TickRec /\ tk.pc = "report" /\ tk.cur = i
      BY <2>1, HandForms
  <2>6. ScanOk(tk, payment', final', paidRow')
        /\ HoldOk(tk, payment', undone', reports', dropped')
      BY <2>1, <2>4, <2>5 DEF ScanOk, HoldOk
  <2>7. TicksInv'
      BY <1>3, <2>2, <2>3, <2>5, <2>6, TickGoes
  <2> QED BY <2>2, <2>3, <2>7 DEF LegacyInv, ChainMoves
<1> QED BY <1>2, <1>3 DEF Mined

-----------------------------------------------------------------------------
(* Steps of a tick on the cache or to the web server.                      *)

LEMMA ChainSame ==
    ASSUME UNCHANGED chain
    PROVE  /\ payment' = payment /\ final' = final /\ undone' = undone
           /\ height' = height /\ balance' = balance /\ deposits' = deposits
BY DEF chain

LEMMA CacheStep ==
    ASSUME LegacyInv, NEW t \in Ticks, NEW tk \in TickRec, Goes(t, tk), UNCHANGED chain,
           CacheGrows, CacheInv', ScanOk(tk, payment, final, paidRow'),
           HoldOk(tk, payment, undone, reports', dropped')
    PROVE  LegacyInv'
<1>1. ChainMoves
    BY StillMoves DEF LegacyInv
<1>2. TicksInv'
    BY <1>1, ChainSame, TickGoes
<1> QED BY <1>1, <1>2 DEF LegacyInv, ChainMoves

LEMMA CacheFacts ==
    ASSUME LegacyInv
    PROVE  /\ CacheTypes /\ lastScanned \in Nat /\ final \in Nat /\ lastScanned <= final
           /\ ScannedTo(lastScanned, payment, paidRow)
           /\ SaidOk(payment, undone, paidRow, reports, swept, dropped)
           /\ \A i \in Invoices : /\ payment[i].block \in Nat
                                  /\ payment[i].amount \in Nat
                                  /\ payment[i].block = 0 <=> payment[i].amount = 0
BY PaymentFields DEF LegacyInv, ChainInv, CacheInv, CacheTypes

\* Only the table of invoices changes.
LEMMA CachedGrows ==
    ASSUME LegacyInv, UNCHANGED <<paidRow, lastScanned, swept, reports, dropped, exact>>,
           UNCHANGED chain, cached' \subseteq Invoices, faults' \in 0..MaxFaults
    PROVE  CacheInv' /\ CacheGrows
BY CacheFacts, ChainSame DEF CacheInv, CacheTypes, CacheGrows, RowsStay

LEMMA SyncPageKeeps ==
    ASSUME LegacyInv, NEW t \in Ticks, SyncPage(t), UNCHANGED exact
    PROVE  LegacyInv'
<1>1. cached' \subseteq Invoices
    BY CacheFacts DEF SyncPage, CacheTypes
<1>2. /\ UNCHANGED <<paidRow, lastScanned, swept, reports, dropped, exact>>
      /\ UNCHANGED chain /\ tick' = tick /\ faults' \in 0..MaxFaults
    BY TickFacts DEF SyncPage, Same
<1>3. CacheInv' /\ CacheGrows
    BY <1>1, <1>2, CachedGrows
<1>4. ChainMoves
    BY <1>2, StillMoves DEF LegacyInv
<1>5. TicksInv'
    BY <1>2, <1>3, <1>4, WaitingKeeps DEF LegacyInv, TicksInv
<1> QED BY <1>3, <1>4, <1>5 DEF LegacyInv, ChainMoves

LEMMA SyncInvoicesKeeps ==
    ASSUME LegacyInv, NEW t \in Ticks, SyncInvoices(t), UNCHANGED exact
    PROVE  LegacyInv'
<1>1. cached' \subseteq Invoices
    BY CacheFacts DEF SyncInvoices, CacheTypes
<1>2. /\ UNCHANGED <<paidRow, lastScanned, swept, reports, dropped, exact>>
      /\ UNCHANGED chain /\ faults' \in 0..MaxFaults
    BY TickFacts DEF SyncInvoices, Same
<1>3. CacheInv' /\ CacheGrows
    BY <1>1, <1>2, CachedGrows
<1>4. /\ [IdleTick EXCEPT !.pc = "reconcile", !.todo = cached'] \in TickRec
      /\ [IdleTick EXCEPT !.pc = "reconcile", !.todo = cached'].pc \in Resting
    BY <1>1, IdleForms DEF Resting
<1> QED BY <1>2, <1>3, <1>4, CacheStep, Rests DEF SyncInvoices

LEMMA AlignKeeps ==
    ASSUME LegacyInv, NEW t \in Ticks, Align(t), UNCHANGED exact
    PROVE  LegacyInv'
<1> DEFINE i == tick[t].cur
           tk == [tick[t] EXCEPT !.pc = "tell"]
<1>1. /\ UNCHANGED <<cached, lastScanned, swept, reports, dropped, exact>>
      /\ UNCHANGED chain /\ faults' \in 0..MaxFaults
    BY TickFacts DEF Align, Same
<1>2. /\ i \in Invoices /\ tick[t].seen \in Nat
      /\ i \notin undone => tick[t].seen \in {0, payment[i].amount}
    BY TickFacts DEF Align, HoldOk, TickRec
<1>3. CASE tick[t].seen = 0
  <2>1. UNCHANGED <<chain, cache, reports, dropped, exact>>
      BY <1>1, <1>3 DEF Align, cache
  <2> QED BY <1>1, <1>3, <2>1, TickFacts, NextForms, GoesOn, Rests DEF Align
<1>4. CASE tick[t].seen # 0
  <2>1. /\ Goes(t, tk)
        /\ paidRow' = [paidRow EXCEPT ![i] = IF @ = 0 THEN tick[t].seen ELSE @]
      BY <1>4 DEF Align
  <2>2. /\ paidRow' \in [Invoices -> Nat]
        /\ \A j \in Invoices : j # i \/ paidRow[j] # 0 => paidRow'[j] = paidRow[j]
        /\ paidRow'[i] \in {paidRow[i], tick[t].seen}
      BY <1>2, <2>1, CacheFacts DEF CacheTypes
  <2>3. CacheGrows
      BY <1>1, <2>2, CacheFacts DEF CacheGrows, RowsStay
  <2>4. ScannedTo(lastScanned, payment, paidRow')
      BY <2>2, CacheFacts DEF ScannedTo
  <2>5. SaidOk(payment, undone, paidRow', reports, swept, dropped)
      BY <1>2, <2>2, CacheFacts DEF SaidOk
  <2>6. CacheInv'
      BY <1>1, <2>2, <2>4, <2>5, CacheFacts, ChainSame DEF CacheInv, CacheTypes
  <2>7. /\ tk \in TickRec /\ tk.pc = "tell" /\ tk.cur = i /\ tk.seen = tick[t].seen
        /\ ScanOk(tk, payment, final, paidRow')
      BY <1>2, HandForms
  <2>8. HoldOk(tk, payment, undone, reports', dropped')
      BY <1>2, <1>4, <2>7 DEF HoldOk
  <2> QED BY <1>1, <2>1, <2>3, <2>6, <2>7, <2>8, CacheStep
<1> QED BY <1>3, <1>4

\* The web server is told amount of the invoice in hand.
LEMMA ToldKeeps ==
    ASSUME LegacyInv, NEW i \in Invoices, NEW amount \in Nat, Told(i, amount),
           i \notin undone => payment[i].block # 0 /\ amount \in {0, payment[i].amount},
           UNCHANGED <<chain, cache, dropped, exact>>, faults' \in 0..MaxFaults
    PROVE  CacheInv' /\ CacheGrows /\ reports'[i] # {}
<1>1. /\ UNCHANGED <<cached, paidRow, lastScanned, swept, dropped, exact>> /\ UNCHANGED chain
    BY DEF cache
<1>2. /\ reports' \in [Invoices -> SUBSET Nat]
      /\ reports'[i] = {amount} /\ \A j \in Invoices : j # i => reports'[j] = reports[j]
    BY CacheFacts DEF Told, CacheTypes
<1>3. CacheGrows
    BY <1>1, <1>2 DEF CacheGrows, RowsStay
<1>4. SaidOk(payment, undone, paidRow, reports', swept, dropped)
    BY <1>2, CacheFacts DEF SaidOk
<1> QED BY <1>1, <1>2, <1>3, <1>4, CacheFacts, ChainSame DEF CacheInv, CacheTypes

LEMMA TellKeeps ==
    ASSUME LegacyInv, NEW t \in Ticks, Tell(t), UNCHANGED exact
    PROVE  LegacyInv'
<1> DEFINE i == tick[t].cur
           tk == [tick[t] EXCEPT !.pc = "told"]
<1>1. /\ i \in Invoices /\ tick[t].seen \in Nat
      /\ i \notin undone => payment[i].block # 0 /\ tick[t].seen \in {0, payment[i].amount}
    BY TickFacts, CacheFacts DEF Tell, HoldOk, TickRec
<1>2. /\ UNCHANGED <<chain, cache, dropped, exact>> /\ UNCHANGED chain
      /\ faults' \in 0..MaxFaults
    BY TickFacts DEF Tell
<1>3. CacheInv' /\ CacheGrows /\ reports'[i] # {}
    BY <1>1, <1>2, ToldKeeps DEF Tell
<1>4. /\ tk \in TickRec /\ tk.pc = "told" /\ tk.cur = i
      /\ ScanOk(tk, payment, final, paidRow')
    BY <1>1, HandForms
<1>5. HoldOk(tk, payment, undone, reports', dropped')
    BY <1>1, <1>3, <1>4 DEF HoldOk
<1> QED BY <1>2, <1>3, <1>4, <1>5, CacheStep DEF Tell

LEMMA ReportSweepKeeps ==
    ASSUME LegacyInv, NEW t \in Ticks, ReportSweep(t), UNCHANGED exact
    PROVE  LegacyInv'
<1> DEFINE i == tick[t].cur
           tk == [tick[t] EXCEPT !.pc = "reported"]
<1>1. /\ i \in Invoices /\ (i \notin undone => payment[i].block # 0)
    BY TickFacts DEF ReportSweep, HoldOk
<1>2. /\ paidRow[i] \in Nat
      /\ i \notin undone => paidRow[i] \in {0, payment[i].amount}
    BY <1>1, CacheFacts DEF CacheTypes, SaidOk
<1>3. /\ UNCHANGED <<chain, cache, dropped, exact>> /\ UNCHANGED chain
      /\ faults' \in 0..MaxFaults
    BY TickFacts DEF ReportSweep
<1>4. CacheInv' /\ CacheGrows /\ reports'[i] # {}
    BY <1>1, <1>2, <1>3, ToldKeeps DEF ReportSweep
<1>5. /\ tk \in TickRec /\ tk.pc = "reported" /\ tk.cur = i
      /\ ScanOk(tk, payment, final, paidRow')
    BY <1>1, HandForms
<1>6. HoldOk(tk, payment, undone, reports', dropped')
    BY <1>1, <1>4, <1>5 DEF HoldOk
<1> QED BY <1>3, <1>4, <1>5, <1>6, CacheStep DEF ReportSweep

LEMMA RecordKeeps ==
    ASSUME LegacyInv, NEW t \in Ticks, NEW phase \in {"reconcile", "sweep"},
           tick[t].pc \in {"told", "reported"}, Record(t, phase), UNCHANGED exact
    PROVE  LegacyInv'
<1> DEFINE i == tick[t].cur
<1>1. /\ i \in Invoices
      /\ i \notin undone => payment[i].block # 0 /\ (reports[i] # {} \/ i \in dropped)
    BY TickFacts DEF HoldOk
<1>2. /\ UNCHANGED <<cached, paidRow, lastScanned, reports, dropped, exact>> /\ UNCHANGED chain
      /\ faults' \in 0..MaxFaults /\ swept' = swept \cup {i}
    BY TickFacts DEF Record, Same
<1>3. CacheGrows
    BY <1>2 DEF CacheGrows, RowsStay
<1>4. SaidOk(payment, undone, paidRow, reports, swept', dropped)
    BY <1>1, <1>2, CacheFacts DEF SaidOk
<1>5. CacheInv'
    BY <1>1, <1>2, <1>4, CacheFacts, ChainSame DEF CacheInv, CacheTypes
<1> QED BY <1>2, <1>3, <1>5, TickFacts, NextForms, CacheStep, Rests DEF Record

LEMMA StoreLogKeeps ==
    ASSUME LegacyInv, NEW t \in Ticks, StoreLog(t), UNCHANGED exact
    PROVE  LegacyInv'
<1>1. /\ UNCHANGED <<cached, lastScanned, swept, reports, dropped, exact>>
      /\ UNCHANGED chain /\ faults' \in 0..MaxFaults /\ tick[t].pc = "logs"
    BY TickFacts DEF StoreLog, Same
<1>2. PICK log \in tick[t].logs :
        /\ paidRow' = [paidRow EXCEPT ![log[1]] = log[2]]
        /\ Goes(t, IF log[1] \in cached
                   THEN [tick[t] EXCEPT !.logs = @ \ {log}]
                   ELSE [tick[t] EXCEPT !.logs = @ \ {log}, !.pc = "row", !.cur = log[1]])
    BY DEF StoreLog
<1> DEFINE i == log[1]
           left == tick[t].logs \ {log}
           tk == IF i \in cached THEN [tick[t] EXCEPT !.logs = left]
                 ELSE [tick[t] EXCEPT !.logs = left, !.pc = "row", !.cur = i]
<1>3. /\ tick[t] \in TickRec /\ i \in Invoices /\ log[2] \in (Nat \ {0})
      /\ log = <<i, log[2]>> /\ left \subseteq tick[t].logs
    BY TickFacts DEF TickRec
<1>4. /\ tick[t].latest <= final /\ tick[t].from <= final + 1
      /\ ScannedTo(tick[t].from - 1, payment, paidRow)
      /\ tick[t].from <= tick[t].latest
      /\ \A l \in tick[t].logs : payment[l[1]].block \in 1..final /\ l[2] = payment[l[1]].amount
      /\ \A j \in Invoices : payment[j].block \in 1..ChunkEnd(tick[t]) =>
             paidRow[j] = payment[j].amount \/ <<j, payment[j].amount>> \in tick[t].logs
    BY <1>1, TickFacts DEF ScanOk
<1>5. log[2] = payment[i].amount
    BY <1>4
<1>6. /\ paidRow' \in [Invoices -> Nat]
      /\ paidRow'[i] = payment[i].amount
      /\ \A j \in Invoices : j # i => paidRow'[j] = paidRow[j]
    BY <1>2, <1>3, <1>5, CacheFacts DEF CacheTypes
<1>7. /\ tk \in TickRec /\ tk.pc \in {"logs", "row"} /\ tk.logs = left
      /\ tk.from = tick[t].from /\ tk.latest = tick[t].latest
      /\ tk.pc = "row" => tk.cur \in Invoices
      /\ ChunkEnd(tk) = ChunkEnd(tick[t])
  <2>1. CASE i \in cached
    <3>1. tk = [tick[t] EXCEPT !.logs = left]
        BY <2>1
    <3> HIDE DEF tk, left, i
    <3> QED BY <1>1, <1>3, <3>1 DEF TickRec, ChunkEnd
  <2>2. CASE i \notin cached
    <3>1. tk = [tick[t] EXCEPT !.logs = left, !.pc = "row", !.cur = i]
        BY <2>2
    <3> HIDE DEF tk, left, i
    <3> QED BY <1>1, <1>3, <3>1 DEF TickRec, ChunkEnd
  <2> QED BY <2>1, <2>2
<1>8. Goes(t, tk)
    BY <1>2
<1> HIDE DEF tk
<1>9. CacheGrows
    BY <1>1, <1>6 DEF CacheGrows, RowsStay
<1>10. ScannedTo(lastScanned, payment, paidRow') /\ ScannedTo(tick[t].from - 1, payment, paidRow')
    BY <1>4, <1>6, CacheFacts DEF ScannedTo
<1>11. SaidOk(payment, undone, paidRow', reports, swept, dropped)
    BY <1>6, CacheFacts DEF SaidOk
<1>12. CacheInv'
    BY <1>1, <1>6, <1>10, <1>11, CacheFacts, ChainSame DEF CacheInv, CacheTypes
<1>13. \A j \in Invoices : payment[j].block \in 1..ChunkEnd(tick[t]) =>
          paidRow'[j] = payment[j].amount \/ <<j, payment[j].amount>> \in left
    BY <1>3, <1>4, <1>6
<1>14. ScanOk(tk, payment, final, paidRow')
    BY <1>3, <1>4, <1>7, <1>10, <1>13 DEF ScanOk
<1>15. HoldOk(tk, payment, undone, reports', dropped')
    BY <1>7 DEF HoldOk
<1> QED BY <1>1, <1>7, <1>8, <1>9, <1>12, <1>14, <1>15, CacheStep

\* From the row of a log back to the logs, made or not.
LEMMA RowForm ==
    ASSUME LegacyInv, NEW t \in Ticks, tick[t].pc = "row"
    PROVE  LET tk == [tick[t] EXCEPT !.pc = "logs", !.cur = NoInvoice]
           IN  /\ tk \in TickRec /\ ScanOk(tk, payment, final, paidRow)
               /\ \A drp : HoldOk(tk, payment, undone, reports, drp)
<1> DEFINE tk == [tick[t] EXCEPT !.pc = "logs", !.cur = NoInvoice]
<1>1. /\ tk \in TickRec /\ tk.pc = "logs" /\ tk.logs = tick[t].logs
      /\ tk.from = tick[t].from /\ tk.latest = tick[t].latest
      /\ ChunkEnd(tk) = ChunkEnd(tick[t])
    BY TickFacts DEF TickRec, ChunkEnd
<1> HIDE DEF tk
<1>2. ScanOk(tk, payment, final, paidRow)
    BY <1>1, TickFacts DEF ScanOk
<1>3. \A drp : HoldOk(tk, payment, undone, reports, drp)
    BY <1>1 DEF HoldOk
<1> QED BY <1>1, <1>2, <1>3 DEF tk

LEMMA MakeRowKeeps ==
    ASSUME LegacyInv, NEW t \in Ticks, MakeRow(t), UNCHANGED exact
    PROVE  LegacyInv'
<1>1. cached' \subseteq Invoices
    BY CacheFacts, TickFacts DEF MakeRow, CacheTypes, HoldOk
<1>2. /\ UNCHANGED <<paidRow, lastScanned, swept, reports, dropped, exact>>
      /\ UNCHANGED chain /\ faults' \in 0..MaxFaults
    BY TickFacts DEF MakeRow, Same
<1>3. CacheInv' /\ CacheGrows
    BY <1>1, <1>2, CachedGrows
<1> QED BY <1>2, <1>3, RowForm, CacheStep DEF MakeRow

LEMMA AdvanceScanKeeps ==
    ASSUME LegacyInv, NEW t \in Ticks, AdvanceScan(t), UNCHANGED exact
    PROVE  LegacyInv'
<1> DEFINE end == ChunkEnd(tick[t])
           tk == [tick[t] EXCEPT !.pc = "scan", !.from = end + 1]
<1>1. /\ UNCHANGED <<cached, paidRow, swept, reports, dropped, exact>>
      /\ UNCHANGED chain /\ faults' \in 0..MaxFaults /\ lastScanned' = end
    BY TickFacts DEF AdvanceScan, Same
<1>2. /\ tick[t] \in TickRec /\ tick[t].from \in Nat /\ tick[t].latest \in 0..MaxHeight
      /\ tick[t].latest <= final /\ tick[t].from <= tick[t].latest /\ final \in Nat
      /\ \A i \in Invoices : payment[i].block \in 1..end => paidRow[i] = payment[i].amount
  <2>1. /\ tick[t] \in TickRec /\ ScanOk(tick[t], payment, final, paidRow)
        /\ tick[t].pc = "logs" /\ tick[t].logs = {} /\ final \in Nat
        /\ tick[t].latest \in 0..MaxHeight /\ tick[t].from \in 0..(MaxHeight + 1)
      BY TickFacts, CacheFacts DEF AdvanceScan
  <2>2. /\ tick[t].latest <= final /\ tick[t].from <= tick[t].latest
        /\ \A i \in Invoices : payment[i].block \in 1..end => paidRow[i] = payment[i].amount
      BY <2>1 DEF ScanOk
  <2> QED BY <2>1, <2>2, LegacyAssumption
<1>3. end \in Nat /\ end <= final /\ end + 1 \in 0..(MaxHeight + 1)
    BY <1>2, LegacyAssumption DEF ChunkEnd
<1>4. ScannedTo(end, payment, paidRow)
    BY <1>2 DEF ScannedTo
<1> HIDE DEF end
<1>5. /\ tk \in TickRec /\ tk.pc = "scan" /\ tk.from = end + 1
      /\ tk.latest = tick[t].latest
    BY <1>2, <1>3 DEF TickRec
<1> HIDE DEF tk
<1>6. CacheGrows
    BY <1>1 DEF CacheGrows, RowsStay
<1>7. CacheInv'
    BY <1>1, <1>3, <1>4, CacheFacts, ChainSame DEF CacheInv, CacheTypes
<1>8. ScanOk(tk, payment, final, paidRow')
  <2>1. tk.from - 1 = end /\ tk.from <= final + 1
      BY <1>2, <1>3, <1>5
  <2>2. ScannedTo(tk.from - 1, payment, paidRow')
      BY <1>1, <1>4, <2>1
  <2> QED BY <1>2, <1>5, <2>1, <2>2 DEF ScanOk
<1>9. HoldOk(tk, payment, undone, reports', dropped')
    BY <1>5 DEF HoldOk
<1> QED BY <1>1, <1>5, <1>6, <1>7, <1>8, <1>9, CacheStep DEF AdvanceScan, tk, end

-----------------------------------------------------------------------------
(* Failures, and the whole next-state relation.                            *)

LEMMA DropKeeps ==
    ASSUME LegacyInv, NEW drp \in SUBSET Invoices, dropped' = dropped \cup drp,
           UNCHANGED <<chain, cache, reports, exact>>, faults' \in 0..MaxFaults
    PROVE  CacheInv' /\ CacheGrows
<1>1. /\ UNCHANGED <<cached, paidRow, lastScanned, swept, reports, exact>> /\ UNCHANGED chain
    BY DEF cache
<1>2. SaidOk(payment, undone, paidRow, reports, swept, dropped')
    BY CacheFacts DEF SaidOk
<1> QED BY <1>1, <1>2, CacheFacts, ChainSame
        DEF CacheInv, CacheTypes, CacheGrows, RowsStay

LEMMA FaultCounts ==
    ASSUME LegacyInv, Fault
    PROVE  faults' \in 0..MaxFaults
BY CacheFacts, LegacyAssumption DEF Fault, CacheTypes

LEMMA CallFailsKeeps ==
    ASSUME LegacyInv, NEW t \in Ticks, CallFails(t), UNCHANGED exact
    PROVE  LegacyInv'
<1> DEFINE tk == tick[t]
           next == CASE tk.pc \in {"head", "scan"} -> IdleTick
                     [] tk.pc = "row" -> [tk EXCEPT !.pc = "logs", !.cur = NoInvoice]
                     [] tk.pc = "ask" -> [tk EXCEPT !.pc = "reconcile", !.cur = NoInvoice]
                     [] tk.pc = "look" -> [tk EXCEPT !.pc = "send"]
                     [] tk.pc \in {"send", "wait"} ->
                            [tk EXCEPT !.pc = "sweep", !.cur = NoInvoice]
                     [] OTHER -> tk
<1>1. /\ tk # next /\ Goes(t, next)
      /\ dropped' = IF tk.pc = "row" THEN dropped \cup {tk.cur} ELSE dropped
      /\ UNCHANGED <<chain, cache, reports>> /\ UNCHANGED chain
    BY DEF CallFails
<1>2. faults' \in 0..MaxFaults
    BY FaultCounts DEF CallFails
<1>3. CASE tk.pc = "row"
  <2>1. next = [tk EXCEPT !.pc = "logs", !.cur = NoInvoice]
      BY <1>3
  <2>2. tk.cur \in Invoices
      BY <1>3, TickFacts DEF HoldOk
  <2>3. CacheInv' /\ CacheGrows
    <3>1. /\ {tk.cur} \in SUBSET Invoices /\ dropped' = dropped \cup {tk.cur}
          /\ UNCHANGED <<chain, cache, reports, exact>>
        BY <1>1, <1>3, <2>2
    <3> QED BY <1>2, <3>1, DropKeeps
  <2>4. reports' = reports /\ paidRow' = paidRow
      BY <1>1 DEF cache
  <2>5. /\ next \in TickRec /\ ScanOk(next, payment, final, paidRow)
        /\ HoldOk(next, payment, undone, reports, dropped')
    <3> HIDE DEF next
    <3>1. /\ next \in TickRec /\ ScanOk(next, payment, final, paidRow)
          /\ \A drp : HoldOk(next, payment, undone, reports, drp)
        BY <1>3, <2>1, RowForm
    <3> QED BY <3>1
  <2> HIDE DEF next
  <2> QED BY <1>1, <2>3, <2>4, <2>5, CacheStep
<1>4. CASE tk.pc # "row"
  <2>1. UNCHANGED <<chain, cache, reports, dropped, exact>>
      BY <1>1, <1>4
  <2>2. CASE tk.pc \in {"head", "scan"}
    <3>1. Goes(t, IdleTick)
        BY <1>1, <2>2
    <3> QED BY <1>2, <2>1, <3>1, GoesOn, Rests, IdleForms
  <2>3. CASE tk.pc = "ask"
    <3>1. Goes(t, [tk EXCEPT !.pc = "reconcile", !.cur = NoInvoice])
        BY <1>1, <2>3
    <3> QED BY <1>2, <2>1, <3>1, TickFacts, NextForms, GoesOn, Rests
  <2>4. CASE tk.pc = "look"
    <3> DEFINE new == [tk EXCEPT !.pc = "send"]
    <3>1. Goes(t, new)
        BY <1>1, <2>4
    <3>2. tk.cur \in Invoices
        BY <2>4, TickFacts DEF HoldOk
    <3>3. /\ new \in TickRec /\ new.pc = "send" /\ new.cur = tk.cur
          /\ ScanOk(new, payment, final, paidRow)
        BY <3>2, HandForms
    <3>4. HoldOk(new, payment, undone, reports, dropped)
        BY <3>2, <3>3 DEF HoldOk
    <3> QED BY <1>2, <2>1, <3>1, <3>3, <3>4, GoesOn
  <2>5. CASE tk.pc \in {"send", "wait"}
    <3>1. Goes(t, [tk EXCEPT !.pc = "sweep", !.cur = NoInvoice])
        BY <1>1, <2>5
    <3> QED BY <1>2, <2>1, <3>1, TickFacts, NextForms, GoesOn, Rests
  <2>6. tk.pc \in {"head", "scan", "ask", "look", "send", "wait"}
      BY <1>1, <1>4
  <2> QED BY <2>2, <2>3, <2>4, <2>5, <2>6
<1> QED BY <1>3, <1>4

LEMMA PostFailsKeeps ==
    ASSUME LegacyInv, NEW t \in Ticks, PostFails(t), UNCHANGED exact
    PROVE  LegacyInv'
<1> DEFINE i == tick[t].cur
<1>1. /\ faults' \in 0..MaxFaults /\ UNCHANGED <<chain, cache>> /\ UNCHANGED chain
    BY FaultCounts DEF PostFails
<1>2. CASE /\ tick[t].pc = "tell" /\ (Told(i, tick[t].seen) \/ UNCHANGED reports)
           /\ Goes(t, [tick[t] EXCEPT !.pc = "reconcile", !.cur = NoInvoice, !.seen = 0])
           /\ UNCHANGED dropped
  <2>1. CASE UNCHANGED reports
    <3>1. UNCHANGED <<chain, cache, reports, dropped, exact>>
        BY <1>1, <1>2, <2>1
    <3> QED BY <1>1, <1>2, <3>1, TickFacts, NextForms, GoesOn, Rests
  <2>2. CASE Told(i, tick[t].seen)
    <3>1. /\ i \in Invoices /\ tick[t].seen \in Nat
          /\ i \notin undone =>
               payment[i].block # 0 /\ tick[t].seen \in {0, payment[i].amount}
        BY <1>2, TickFacts, CacheFacts DEF HoldOk, TickRec
    <3>2. UNCHANGED <<chain, cache, dropped, exact>>
        BY <1>1, <1>2
    <3>3. CacheInv' /\ CacheGrows
        BY <1>1, <2>2, <3>1, <3>2, ToldKeeps
    <3> QED BY <1>1, <1>2, <3>3, TickFacts, NextForms, CacheStep, Rests
  <2> QED BY <1>2, <2>1, <2>2
<1>3. CASE /\ tick[t].pc = "report" /\ Goes(t, [tick[t] EXCEPT !.pc = "reported"])
           /\ dropped' = dropped \cup {i} /\ UNCHANGED reports
  <2> DEFINE tk == [tick[t] EXCEPT !.pc = "reported"]
  <2>1. /\ i \in Invoices /\ (i \notin undone => payment[i].block # 0)
      BY <1>3, TickFacts DEF HoldOk
  <2>2. UNCHANGED <<chain, cache, reports, exact>>
      BY <1>1, <1>3
  <2>3. CacheInv' /\ CacheGrows
      BY <1>1, <1>3, <2>1, <2>2, DropKeeps
  <2>4. /\ tk \in TickRec /\ tk.pc = "reported" /\ tk.cur = i
        /\ ScanOk(tk, payment, final, paidRow')
      BY <2>1, HandForms
  <2>5. HoldOk(tk, payment, undone, reports', dropped')
      BY <1>3, <2>1, <2>4 DEF HoldOk
  <2> QED BY <1>1, <1>3, <2>3, <2>4, <2>5, CacheStep
<1> QED BY <1>2, <1>3 DEF PostFails

LEMMA CrashKeeps ==
    ASSUME LegacyInv, Crash, UNCHANGED exact
    PROVE  LegacyInv'
<1>1. /\ faults' \in 0..MaxFaults /\ UNCHANGED <<cache, reports, dropped, exact>>
      /\ UNCHANGED chain /\ tick' = [t \in Ticks |-> IdleTick]
    BY FaultCounts DEF Crash
<1>2. ChainMoves
    BY <1>1, StillMoves DEF LegacyInv
<1>3. CacheInv'
    BY <1>1, <1>2, CacheWaits
<1>4. TicksInv'
    BY <1>1, Rests, IdleForms DEF TicksInv
<1> QED BY <1>2, <1>3, <1>4 DEF LegacyInv, ChainMoves

LEMMA ChainStepKeeps ==
    ASSUME LegacyInv, UNCHANGED exact,
           AnyoneSweeps \/ NewBlock \/ Reorganise \/ \E i \in Invoices : Deposit(i) \/ PayReceiver(i)
    PROVE  LegacyInv'
<1>1. CASE AnyoneSweeps
  <2>1. PICK S \in SUBSET Invoices : \E from \in [S -> Invoices] :
            (\A i \in S : CanPay(i, from[i])) /\ SweepInBlock(from)
      BY <1>1 DEF AnyoneSweeps
  <2>2. ChainMoves
    <3>1. PICK from \in [S -> Invoices] :
              (\A i \in S : CanPay(i, from[i])) /\ SweepInBlock(from)
        BY <2>1
    <3> QED BY <3>1, BlockMoves DEF LegacyInv
  <2> QED BY <1>1, <2>2, ChainKeeps, CacheFacts DEF AnyoneSweeps, CacheTypes
<1>2. CASE NewBlock
  <2>1. ChainMoves
      BY <1>2, NewBlockMoves DEF LegacyInv
  <2>2. UNCHANGED <<cache, tick, reports, dropped, exact>> /\ faults' \in 0..MaxFaults
      BY <1>2, CacheFacts DEF NewBlock, CacheTypes
  <2> QED BY <2>1, <2>2, ChainKeeps
<1>3. CASE Reorganise
  <2>1. ChainMoves
      BY <1>3, ReorganiseMoves DEF LegacyInv
  <2>2. UNCHANGED <<cache, tick, reports, dropped, exact>> /\ faults' \in 0..MaxFaults
      BY <1>3, FaultCounts DEF Reorganise
  <2> QED BY <2>1, <2>2, ChainKeeps
<1>4. ASSUME NEW i \in Invoices, Deposit(i) PROVE LegacyInv'
  <2>1. ChainMoves
      BY <1>4, DepositMoves DEF LegacyInv
  <2>2. UNCHANGED <<cache, tick, reports, dropped, exact>> /\ faults' \in 0..MaxFaults
      BY <1>4, CacheFacts DEF Deposit, CacheTypes
  <2> QED BY <2>1, <2>2, ChainKeeps
<1>5. ASSUME NEW i \in Invoices, PayReceiver(i) PROVE LegacyInv'
  <2>1. ChainMoves
      BY <1>5, PayReceiverMoves DEF LegacyInv
  <2>2. UNCHANGED <<cache, tick, reports, dropped, exact>> /\ faults' \in 0..MaxFaults
      BY <1>5, CacheFacts DEF PayReceiver, CacheTypes
  <2> QED BY <2>1, <2>2, ChainKeeps
<1> QED BY <1>1, <1>2, <1>3, <1>4, <1>5

LEMMA NextKeeps ==
    ASSUME LegacyInv, LegacyNext
    PROVE  LegacyInv'
<1>1. UNCHANGED exact
    BY DEF LegacyNext
<1>2. CASE AnyoneSweeps \/ NewBlock \/ Reorganise
           \/ \E i \in Invoices : Deposit(i) \/ PayReceiver(i)
    BY <1>1, <1>2, ChainStepKeeps
<1>3. CASE Crash
    BY <1>1, <1>3, CrashKeeps
<1>4. ASSUME NEW t \in Ticks, SyncPage(t) \/ Step(t) \/ CallFails(t) \/ PostFails(t)
      PROVE  LegacyInv'
  <2>1. CASE SyncPage(t)
      BY <1>1, <2>1, SyncPageKeeps
  <2>2. CASE SyncInvoices(t)
      BY <1>1, <2>2, SyncInvoicesKeeps
  <2>3. CASE Reconcile(t)
      BY <1>1, <2>3, ReconcileKeeps
  <2>4. CASE AskReceiver(t)
      BY <1>1, <2>4, AskReceiverKeeps
  <2>5. CASE Align(t)
      BY <1>1, <2>5, AlignKeeps
  <2>6. CASE Tell(t)
      BY <1>1, <2>6, TellKeeps
  <2>7. CASE RecordReconciled(t)
      BY <1>1, <2>7, RecordKeeps DEF RecordReconciled
  <2>8. CASE GetHead(t)
      BY <1>1, <2>8, GetHeadKeeps
  <2>9. CASE GetLogs(t)
      BY <1>1, <2>9, GetLogsKeeps
  <2>10. CASE StoreLog(t)
      BY <1>1, <2>10, StoreLogKeeps
  <2>11. CASE MakeRow(t)
      BY <1>1, <2>11, MakeRowKeeps
  <2>12. CASE AdvanceScan(t)
      BY <1>1, <2>12, AdvanceScanKeeps
  <2>13. CASE NextSweep(t)
      BY <1>1, <2>13, NextSweepKeeps
  <2>14. CASE LookAtReceiver(t)
      BY <1>1, <2>14, LookAtReceiverKeeps
  <2>15. CASE Send(t)
      BY <1>1, <2>15, SendKeeps
  <2>16. CASE Mined(t)
      BY <1>1, <2>16, MinedKeeps
  <2>17. CASE ReportSweep(t)
      BY <1>1, <2>17, ReportSweepKeeps
  <2>18. CASE RecordSwept(t)
      BY <1>1, <2>18, RecordKeeps DEF RecordSwept
  <2>19. CASE CallFails(t)
      BY <1>1, <2>19, CallFailsKeeps
  <2>20. CASE PostFails(t)
      BY <1>1, <2>20, PostFailsKeeps
  <2> QED BY <1>4, <2>1, <2>2, <2>3, <2>4, <2>5, <2>6, <2>7, <2>8, <2>9, <2>10, <2>11,
             <2>12, <2>13, <2>14, <2>15, <2>16, <2>17, <2>18, <2>19, <2>20 DEF Step
<1> QED BY <1>2, <1>3, <1>4 DEF LegacyNext

-----------------------------------------------------------------------------
(* Theorems                                                                *)

\* The inductive invariant: a tick knows of final blocks only what stays true,
\* and of the head of the chain only what a reorganisation can take back.
THEOREM LegacyInvariance == LegacySpec => []LegacyInv
<1>1. LegacyInit => LegacyInv
  <2> SUFFICES ASSUME LegacyInit PROVE LegacyInv
      OBVIOUS
  <2>1. ChainInv
      BY LegacyAssumption DEF LegacyInit, ChainInv, Payments, Payment, Unpaid
  <2>2. TicksInv
      BY Rests, IdleForms DEF LegacyInit, TicksInv
  <2>3. CacheInv
      BY LegacyAssumption DEF LegacyInit, CacheInv, CacheTypes, ScannedTo, SaidOk, Unpaid
  <2> QED BY <2>1, <2>2, <2>3 DEF LegacyInv
<1>2. LegacyInv /\ UNCHANGED legacyVars => LegacyInv'
  <2> SUFFICES ASSUME LegacyInv, UNCHANGED legacyVars PROVE LegacyInv'
      OBVIOUS
  <2>1. UNCHANGED <<cache, tick, reports, dropped, exact>> /\ UNCHANGED chain
        /\ faults' \in 0..MaxFaults
      BY CacheFacts DEF legacyVars, CacheTypes
  <2> QED BY <2>1, ChainKeeps, StillMoves DEF LegacyInv
<1> QED BY <1>1, <1>2, NextKeeps, PTL DEF LegacySpec

\* Every variable keeps its type; heights and amounts stay in their bounds.
THEOREM LegacyTypeCorrect == LegacySpec => []LegacyTypeOK
<1>1. LegacyInv => LegacyTypeOK
  <2> SUFFICES ASSUME LegacyInv PROVE LegacyTypeOK
      OBVIOUS
  <2>1. /\ height \in 0..MaxHeight /\ final \in 0..MaxHeight /\ lastScanned \in 0..MaxHeight
      BY CacheFacts, LegacyAssumption DEF LegacyInv, ChainInv
  <2>2. payment \in [Invoices -> [block : 0..MaxHeight, amount : Nat,
                                   from : Invoices \cup {NoInvoice}]]
    <3>1. ASSUME NEW i \in Invoices
          PROVE  payment[i].block \in 0..MaxHeight
        BY PaymentFields, LegacyAssumption DEF LegacyInv, ChainInv
    <3> QED BY <3>1 DEF LegacyInv, ChainInv, Payments, Payment
  <2> QED BY <2>1, <2>2 DEF LegacyInv, ChainInv, TicksInv, TickRec, CacheInv, CacheTypes,
             LegacyTypeOK
<1> QED BY <1>1, LegacyInvariance, PTL

\* What the web server was told, and what the node is done with, agrees with the
\* receiver, unless a reorganisation took the payment back.
THEOREM NodeIsRight == LegacySpec => []NodeFollowsChain
<1>1. LegacyInv => NodeFollowsChain
    BY CacheFacts DEF LegacyInv, ChainInv, SaidOk, NodeFollowsChain, Paid
<1> QED BY <1>1, LegacyInvariance, PTL

\* Whatever the ticks do to each other and to the height they have reached, a
\* payment in a scanned block is in the cache.
THEOREM ScanMissesNothing == LegacySpec => []ScanComplete
<1>1. LegacyInv => ScanComplete
    BY CacheFacts DEF ScannedTo, ScanComplete, Paid
<1> QED BY <1>1, LegacyInvariance, PTL
=============================================================================
