---------------------------- MODULE LegacySweep ----------------------------
(***************************************************************************)
(* The sweep node (node/sweep-node.ts, node/cache.ts) on an EVM chain, with*)
(* the contracts it sweeps (contracts/InvoiceSweeper.sol, Forwarder.sol,   *)
(* Receiver.sol).  start() calls runOnce at every interval and never waits *)
(* for it, so several ticks may run at once over one SQLite cache.         *)
(*                                                                         *)
(* Only attempts with status "swept" are ever read again, and of a row of  *)
(* paid_invoices only the amount matters.  startBlock is 0, a block without*)
(* payments.  Limits of pages and batches are left out, and a row made     *)
(* from a log is taken to have the terms of its invoice.  All is paid in   *)
(* one token.                                                              *)
(***************************************************************************)
EXTENDS Integers, FiniteSets

CONSTANTS
    Invoices,
    NoInvoice,
    Ticks,              \* runs of runOnce that may overlap
    Price,              \* amount or minAmount of an invoice
    Confirmations,
    Overlap,            \* logScanOverlap
    Chunk,              \* logScanChunkSize
    MaxHeight,          \* bound: blocks
    MaxDeposits,        \* bound: payments made for one invoice
    MaxFaults           \* bound: failed calls, lost posts, crashes, reorganisations

ASSUME LegacyAssumption ==
    /\ IsFiniteSet(Invoices) /\ NoInvoice \notin Invoices
    /\ Price \in Nat \ {0}
    /\ Confirmations \in Nat /\ Overlap \in Nat /\ Chunk \in Nat \ {0}
    /\ MaxHeight \in Nat /\ MaxDeposits \in Nat /\ MaxFaults \in Nat

VARIABLES
    exact,              \* invoices with an amount; the others have a minAmount
    height,             \* the chain's last block
    balance,            \* of each invoice's own forwarder
    final,              \* the last block with enough confirmations, so far
    payment,            \* Receiver.invoicePayments, with its block; block 0: not paid
    deposits,           \* payments made for each invoice, counted for the bound
    cached,             \* table invoices
    paidRow,            \* table paid_invoices: the amount, 0 for no row
    lastScanned,        \* chain_progress.last_scanned_block
    swept,              \* table sweep_attempts: invoices with status "swept"
    tick,
    reports,            \* the amount of the last report (0: without one)
    undone,             \* history: invoices whose payment a reorganisation took back
    dropped,            \* history: invoices a failure made the node give up
    faults

chain == <<height, final, balance, payment, deposits, undone>>
cache == <<cached, paidRow, lastScanned, swept>>
legacyVars == <<exact, chain, cache, tick, reports, dropped, faults>>

(* from: the invoice whose forwarder paid, NoInvoice for a payer's own call *)
Unpaid == [block |-> 0, amount |-> 0, from |-> NoInvoice]

IdleTick == [pc |-> "idle", todo |-> {}, cur |-> NoInvoice, seen |-> 0,
             logs |-> {}, from |-> 0, latest |-> 0]

LegacyInit ==
    /\ exact \in SUBSET Invoices
    /\ height \in 0..MaxHeight /\ lastScanned = 0 /\ faults = 0
    /\ final = IF height > Confirmations THEN height - Confirmations ELSE 0
    /\ balance = [i \in Invoices |-> 0] /\ deposits = [i \in Invoices |-> 0]
    /\ payment = [i \in Invoices |-> Unpaid]
    /\ cached = {} /\ swept = {} /\ undone = {} /\ dropped = {}
    /\ paidRow = [i \in Invoices |-> 0]
    /\ tick = [t \in Ticks |-> IdleTick]
    /\ reports = [i \in Invoices |-> {}]

-----------------------------------------------------------------------------
(* The chain and the web server *)

Paid(i) == payment[i].block # 0

CanPay_Again(i, f) == balance[f] # 0

(* Forwarder.sweepEth and Receiver._assignPayment: f's forwarder is not empty *)
(* and i is not paid.  Whose forwarder it is makes no difference to them.     *)
CanPay(i, f) == balance[f] # 0 /\ ~Paid(i)

Grow ==
    /\ height' = height + 1
    /\ final' = IF height + 1 - Confirmations > final THEN height + 1 - Confirmations
                ELSE final

(* sweepEth and sweepToken of one invoice, bulkExecute of several: one block, *)
(* one revert undoes them all.  Each invoice i is paid by the forwarder of    *)
(* from[i].                                                                   *)
SweepInBlock(from) ==
    /\ height < MaxHeight /\ Grow
    /\ payment' = [i \in Invoices |-> IF i \in DOMAIN from
                      THEN [block |-> height + 1, amount |-> balance[from[i]], from |-> from[i]]
                      ELSE payment[i]]
    /\ balance' = [f \in Invoices |->
                      IF \E i \in DOMAIN from : from[i] = f THEN 0 ELSE balance[f]]
    /\ UNCHANGED <<deposits, undone>>

(* The sweeper is open to everyone, createInvoice too, and so is a forwarder  *)
(* once it is there: a caller may give it the id and data of another invoice. *)
(* Also a transaction of a tick that died.                                    *)
AnyoneSweeps ==
    /\ \E S \in SUBSET Invoices : \E from \in [S -> Invoices] :
          /\ S # {} /\ \A i \in S : CanPay(i, from[i])
          /\ \A i, j \in S : from[i] = from[j] => i = j
          /\ SweepInBlock(from)
    /\ UNCHANGED <<cache, tick, reports, dropped, faults>>

Deposit(i) ==
    /\ deposits[i] < MaxDeposits
    /\ deposits' = [deposits EXCEPT ![i] = @ + 1]
    /\ balance' = [balance EXCEPT ![i] = @ + 1]
    /\ UNCHANGED <<height, final, payment, undone, cache, tick, reports, dropped, faults>>

(* receiveEthInvoice and receiveTokenInvoice take a payer's call as well *)
PayReceiver(i) ==
    /\ deposits[i] < MaxDeposits /\ ~Paid(i)
    /\ height < MaxHeight /\ Grow
    /\ deposits' = [deposits EXCEPT ![i] = @ + 1]
    /\ payment' = [payment EXCEPT ![i] =
                      [block |-> height + 1, amount |-> 1, from |-> NoInvoice]]
    /\ UNCHANGED <<balance, undone, cache, tick, reports, dropped, faults>>

(* leaves room for the blocks that pay *)
NewBlock ==
    /\ height + Cardinality({i \in Invoices : ~Paid(i)}) < MaxHeight
    /\ Grow
    /\ UNCHANGED <<balance, payment, deposits, undone, cache, tick,
                   reports, dropped, faults>>

Fault == faults < MaxFaults /\ faults' = faults + 1

(* The last block is replaced, without enough confirmations; a deeper       *)
(* reorganisation is several of these.  The deposits are made again.        *)
Reorganise ==
    /\ Fault /\ final < height
    /\ height' = height - 1
    /\ LET lost == {i \in Invoices : payment[i].block = height}
           Lost(f) == {i \in lost : payment[i].from = f}     \* one at most
       IN  /\ payment' = [i \in Invoices |-> IF i \in lost THEN Unpaid ELSE payment[i]]
           /\ balance' = [f \in Invoices |->
                 IF Lost(f) = {} THEN balance[f]
                 ELSE balance[f] + payment[CHOOSE i \in Lost(f) : TRUE].amount]
           /\ undone' = undone \cup lost
    /\ UNCHANGED <<final, deposits, cache, tick, reports, dropped>>

-----------------------------------------------------------------------------
(* One tick: runOnce *)

Same == UNCHANGED <<chain, reports, dropped, faults>>

Goes(t, tk) == tick' = [tick EXCEPT ![t] = tk]

(* syncInvoices, whichever invoices lookbackMs leaves on a page: a page that *)
(* is not the last one, or the last before a call that fails                 *)
SyncPage(t) ==
    /\ tick[t].pc = "idle"
    /\ \E recent \in SUBSET Invoices : cached' = cached \cup recent
    /\ UNCHANGED <<paidRow, lastScanned, swept, tick>> /\ Same

(* the last page; then listInvoicesByChain                                  *)
SyncInvoices(t) ==
    /\ tick[t].pc = "idle"
    /\ \E recent \in SUBSET Invoices : cached' = cached \cup recent
    /\ Goes(t, [IdleTick EXCEPT !.pc = "reconcile", !.todo = cached'])
    /\ UNCHANGED <<paidRow, lastScanned, swept>> /\ Same

(* hasSuccessfulSweep: the next invoice to ask the receiver about *)
Reconcile(t) ==
    /\ tick[t].pc = "reconcile"
    /\ LET left == tick[t].todo \ swept IN
       \/ /\ left = {}
          /\ Goes(t, [IdleTick EXCEPT !.pc = "head"])
       \/ \E i \in left :
            Goes(t, [tick[t] EXCEPT !.pc = "ask", !.cur = i, !.todo = left \ {i}])
    /\ UNCHANGED cache /\ Same

(* invoicePayment is read at the head of the chain *)
AskReceiver(t) ==
    /\ tick[t].pc = "ask"
    /\ Goes(t, [tick[t] EXCEPT !.pc = "align", !.seen = payment[tick[t].cur].amount])
    /\ UNCHANGED cache /\ Same

Align(t) ==
    /\ tick[t].pc = "align"
    /\ LET i == tick[t].cur IN
       IF tick[t].seen = 0
       THEN /\ Goes(t, [tick[t] EXCEPT !.pc = "reconcile", !.cur = NoInvoice])
            /\ UNCHANGED paidRow
       ELSE /\ paidRow' = [paidRow EXCEPT ![i] = IF @ = 0 THEN tick[t].seen ELSE @]
            /\ Goes(t, [tick[t] EXCEPT !.pc = "tell"])
    /\ UNCHANGED <<cached, lastScanned, swept>> /\ Same

(* postInvoiceTrack as the web server handles it *)
Told(i, amount) == reports' = [reports EXCEPT ![i] = {amount}]

(* reconcileReceiverPaymentState: the post; swept only if it was answered *)
Tell(t) ==
    /\ tick[t].pc = "tell"
    /\ Told(tick[t].cur, tick[t].seen)
    /\ Goes(t, [tick[t] EXCEPT !.pc = "told"])
    /\ UNCHANGED <<chain, cache, dropped, faults>>

(* recordSweepAttempt, and on to the next invoice *)
Record(t, phase) ==
    /\ swept' = swept \cup {tick[t].cur}
    /\ Goes(t, [tick[t] EXCEPT !.pc = phase, !.cur = NoInvoice, !.seen = 0])
    /\ UNCHANGED <<cached, paidRow, lastScanned>> /\ Same

RecordReconciled(t) == tick[t].pc = "told" /\ Record(t, "reconcile")

ScanFrom == IF lastScanned - Overlap + 1 > 0 THEN lastScanned - Overlap + 1 ELSE 0

Confirmed_Unclipped == height - Confirmations
Confirmed_Head == height

Confirmed == IF height > Confirmations THEN height - Confirmations ELSE 0

(* scanEvmPaidLogs *)
GetHead(t) ==
    /\ tick[t].pc = "head"
    /\ Goes(t, [tick[t] EXCEPT !.pc = "scan", !.latest = Confirmed, !.from = ScanFrom])
    /\ UNCHANGED cache /\ Same

ChunkEnd(tk) ==
    IF tk.from + Chunk - 1 < tk.latest THEN tk.from + Chunk - 1 ELSE tk.latest

AwaitingSweep_PaidOnly == {i \in cached \ swept : paidRow[i] # 0}

AwaitingSweep == cached \ swept

(* getLogs; or the scan is over: listAwaitingSweepInvoices *)
GetLogs(t) ==
    /\ tick[t].pc = "scan"
    /\ IF tick[t].from <= tick[t].latest
       THEN Goes(t, [tick[t] EXCEPT !.pc = "logs",
              !.logs = {<<i, payment[i].amount>> :
                          i \in {j \in Invoices : Paid(j) /\
                                   payment[j].block \in tick[t].from..ChunkEnd(tick[t])}}])
       ELSE Goes(t, [IdleTick EXCEPT !.pc = "sweep", !.todo = AwaitingSweep])
    /\ UNCHANGED cache /\ Same

(* upsertPaidInvoice *)
StoreLog(t) ==
    /\ tick[t].pc = "logs"
    /\ \E log \in tick[t].logs :
         /\ paidRow' = [paidRow EXCEPT ![log[1]] = log[2]]
         /\ Goes(t, IF log[1] \in cached
                    THEN [tick[t] EXCEPT !.logs = @ \ {log}]
                    ELSE [tick[t] EXCEPT !.logs = @ \ {log}, !.pc = "row", !.cur = log[1]])
    /\ UNCHANGED <<cached, lastScanned, swept>> /\ Same

(* ensureInvoiceRowFromEvmPaid, once it knows the invoice's address *)
MakeRow(t) ==
    /\ tick[t].pc = "row"
    /\ cached' = cached \cup {tick[t].cur}
    /\ Goes(t, [tick[t] EXCEPT !.pc = "logs", !.cur = NoInvoice])
    /\ UNCHANGED <<paidRow, lastScanned, swept>> /\ Same

(* setLastScannedBlock *)
AdvanceScan(t) ==
    /\ tick[t].pc = "logs" /\ tick[t].logs = {}
    /\ lastScanned' = ChunkEnd(tick[t])
    /\ Goes(t, [tick[t] EXCEPT !.pc = "scan", !.from = ChunkEnd(tick[t]) + 1])
    /\ UNCHANGED <<cached, paidRow, swept>> /\ Same

(* checkAndSweep: the list is not read again *)
NextSweep(t) ==
    /\ tick[t].pc = "sweep"
    /\ \/ tick[t].todo = {} /\ Goes(t, IdleTick)
       \/ \E i \in tick[t].todo :
            Goes(t, [tick[t] EXCEPT !.pc = "look", !.cur = i, !.todo = @ \ {i}])
    /\ UNCHANGED cache /\ Same

(* trySweepEvm *)
LookAtReceiver(t) ==
    /\ tick[t].pc = "look"
    /\ Goes(t, [tick[t] EXCEPT !.pc = IF Paid(tick[t].cur) THEN "report" ELSE "send"])
    /\ UNCHANGED cache /\ Same

NextInvoice(t) == Goes(t, [tick[t] EXCEPT !.pc = "sweep", !.cur = NoInvoice])

(* the balance is read twice, by trySweepEvm and by sdk.sweepInvoice just    *)
(* before it sends; a transaction that would revert is refused               *)
Sendable(i) == CanPay(i, i) /\ balance[i] >= Price /\ (i \in exact => balance[i] = Price)

Send(t) ==
    /\ tick[t].pc = "send"
    /\ IF Sendable(tick[t].cur)
       THEN Goes(t, [tick[t] EXCEPT !.pc = "wait"])
       ELSE NextInvoice(t)
    /\ UNCHANGED cache /\ Same

(* tx.wait(): the block with the sweep, or with its revert *)
Mined(t) ==
    /\ tick[t].pc = "wait"
    /\ IF CanPay(tick[t].cur, tick[t].cur)
       THEN SweepInBlock([i \in {tick[t].cur} |-> i]) /\ Goes(t, [tick[t] EXCEPT !.pc = "report"])
       ELSE UNCHANGED chain /\ NextInvoice(t)
    /\ UNCHANGED <<cache, reports, dropped, faults>>

(* the post carries the cached amount, if there is one *)
ReportSweep(t) ==
    /\ tick[t].pc = "report"
    /\ Told(tick[t].cur, paidRow[tick[t].cur])
    /\ Goes(t, [tick[t] EXCEPT !.pc = "reported"])
    /\ UNCHANGED <<chain, cache, dropped, faults>>

(* trySweepEvm does not look at the answer to its post *)
RecordSwept(t) == tick[t].pc = "reported" /\ Record(t, "sweep")

-----------------------------------------------------------------------------
(* Failures *)

(* a call of the node fails: a tick that scans ends, elsewhere the catch     *)
(* goes on, from a row of a log with the next log                            *)
CallFails(t) ==
    /\ Fault
    /\ LET tk == tick[t]
           next == CASE tk.pc \in {"head", "scan"} -> IdleTick
                     [] tk.pc = "row" -> [tk EXCEPT !.pc = "logs", !.cur = NoInvoice]
                     [] tk.pc = "ask" -> [tk EXCEPT !.pc = "reconcile", !.cur = NoInvoice]
                     [] tk.pc = "look" -> [tk EXCEPT !.pc = "send"]
                     [] tk.pc \in {"send", "wait"} ->
                            [tk EXCEPT !.pc = "sweep", !.cur = NoInvoice]
                     [] OTHER -> tk IN
       /\ tk # next /\ Goes(t, next)
       /\ dropped' = IF tk.pc = "row" THEN dropped \cup {tk.cur} ELSE dropped
    /\ UNCHANGED <<chain, cache, reports>>

(* the request or the answer of a post is lost *)
PostFails(t) ==
    /\ Fault
    /\ LET i == tick[t].cur IN
       \/ /\ tick[t].pc = "tell"
          /\ \/ Told(i, tick[t].seen)
             \/ UNCHANGED reports
          /\ Goes(t, [tick[t] EXCEPT !.pc = "reconcile", !.cur = NoInvoice, !.seen = 0])
          /\ UNCHANGED dropped
       \/ /\ tick[t].pc = "report"
          /\ Goes(t, [tick[t] EXCEPT !.pc = "reported"])
          /\ dropped' = dropped \cup {i} /\ UNCHANGED reports
    /\ UNCHANGED <<chain, cache>>

(* the process dies and is started again *)
Crash ==
    /\ Fault
    /\ tick' = [t \in Ticks |-> IdleTick]
    /\ UNCHANGED <<chain, cache, reports, dropped>>

Step(t) ==
    \/ SyncInvoices(t) \/ Reconcile(t) \/ AskReceiver(t) \/ Align(t) \/ Tell(t)
    \/ RecordReconciled(t) \/ GetHead(t) \/ GetLogs(t) \/ StoreLog(t) \/ MakeRow(t)
    \/ AdvanceScan(t) \/ NextSweep(t) \/ LookAtReceiver(t) \/ Send(t) \/ Mined(t)
    \/ ReportSweep(t) \/ RecordSwept(t)

LegacyNext ==
    /\ \/ AnyoneSweeps \/ NewBlock \/ Reorganise \/ Crash
       \/ \E i \in Invoices : Deposit(i) \/ PayReceiver(i)
       \/ \E t \in Ticks : SyncPage(t) \/ Step(t) \/ CallFails(t) \/ PostFails(t)
    /\ UNCHANGED exact

LegacySpec == LegacyInit /\ [][LegacyNext]_legacyVars

(* setInterval; calls are answered, transactions are mined, blocks follow *)
FairLegacySpec ==
    /\ LegacySpec
    /\ WF_legacyVars(NewBlock /\ UNCHANGED exact)
    /\ \A t \in Ticks : WF_legacyVars(Step(t) /\ UNCHANGED exact)

-----------------------------------------------------------------------------
(* Properties *)

\* Every variable has its type.
LegacyTypeOK ==
    /\ height \in 0..MaxHeight /\ final \in 0..MaxHeight /\ lastScanned \in 0..MaxHeight
    /\ balance \in [Invoices -> Nat] /\ deposits \in [Invoices -> 0..MaxDeposits]
    /\ payment \in [Invoices -> [block : 0..MaxHeight, amount : Nat,
                                 from : Invoices \cup {NoInvoice}]]
    /\ cached \subseteq Invoices /\ swept \subseteq Invoices
    /\ paidRow \in [Invoices -> Nat]
    /\ reports \in [Invoices -> SUBSET Nat]
    /\ exact \subseteq Invoices /\ undone \subseteq Invoices /\ dropped \subseteq Invoices
    /\ faults \in 0..MaxFaults
    /\ tick \in [Ticks -> [
         pc : {"idle", "reconcile", "ask", "align", "tell", "told", "head",
               "scan", "logs", "row", "sweep", "look", "send", "wait", "report",
               "reported"},
         todo : SUBSET Invoices, cur : Invoices \cup {NoInvoice}, seen : Nat,
         logs : SUBSET (Invoices \X (Nat \ {0})),
         from : 0..(MaxHeight + 1), latest : 0..MaxHeight]]

\* Unless a reorganisation took the payment back, what the web server was told
\* of an invoice agrees with the receiver's record, which no second payment
\* replaces, from whichever forwarder; and an invoice the node is done with is
\* paid there and reported, or its report was lost (Receiver's paid flag,
\* reconcileReceiverPaymentState, trySweepEvm).
NodeFollowsChain ==
    \A i \in Invoices \ undone :
        /\ reports[i] # {} => Paid(i) /\ reports[i] \subseteq {0, payment[i].amount}
        /\ i \in swept => Paid(i) /\ (reports[i] # {} \/ i \in dropped)

\* Every payment in a block that counts as scanned is in the cache, whatever
\* ticks overlap or die and whichever unconfirmed blocks are replaced
\* (scanEvmPaidLogs, chain_progress).
ScanComplete ==
    \A i \in Invoices : Paid(i) /\ payment[i].block <= lastScanned =>
        paidRow[i] = payment[i].amount

\* Somebody had the money of i's forwarder recorded for another invoice.
Diverted(i) == \E j \in Invoices \ {i} : payment[j].from = i

\* A cached invoice with enough in its address is paid in the end, unless it
\* asks for an exact amount and got another, or somebody diverts its money; and
\* a payment by anyone to an invoice that is cached, or whose block is
\* confirmed, is reported in the end, unless its report was lost.  A
\* reorganisation voids both (start, checkAndSweep,
\* reconcileReceiverPaymentState, ensureInvoiceRowFromEvmPaid).  What is to be
\* answered stays until it is, so that it is answered again and again.
PaymentsArrive ==
    \A i \in Invoices :
        /\ []<>(i \in cached /\ balance[i] >= Price /\ ~Paid(i) =>
                   Diverted(i) \/ undone # {} \/ (i \in exact /\ balance[i] # Price))
        /\ []<>(Paid(i) /\ (i \in cached \/ payment[i].block <= final) =>
                   reports[i] # {} \/ i \in dropped \/ undone # {})
=============================================================================
