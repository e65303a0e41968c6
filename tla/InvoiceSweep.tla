----------------------------- MODULE InvoiceSweep -----------------------------
(***************************************************************************)
(* The settlement pipeline of one invoice: the payers, the chain that      *)
(* holds the invoice address, the commerce API's row (InvoiceDb) and the   *)
(* sweeper workers (commerce/sweeper/worker.ts) that poll it, each running *)
(* list -> prepare -> track paid / claim -> sweep -> track swept over HTTP.*)
(*                                                                         *)
(* rail is the chain family of the invoice.  "evm" tracks paid and then    *)
(* claims; "tron" and "solana" claim and then track paid.                  *)
(*                                                                         *)
(* Amounts are small naturals, fees are left out (CommerceInvoiceSweeper   *)
(* splits an amount, it does not change it), one invoice stands for all:   *)
(* a tick handles its invoices independently, one after the other.         *)
(***************************************************************************)
EXTENDS InvoiceDb, FiniteSets

CONSTANTS
    Keyed,          \* workers that hold a sweep key; the others only observe
    Rails,          \* subset of {"evm", "tron", "solana"}
    Amounts,        \* sizes of one payment
    MaxReceived,    \* bound: total payments
    MaxTx,          \* bound: sweep transactions ever broadcast
    MaxRetries,     \* config.maxRetries of claimWithRetry and trackWithRetry
    FaultKinds,     \* which faults may happen
    MaxFaults       \* bound: how many

AllFaults == {"rpc", "receipt", "lost", "busy", "crash", "restore"}

ASSUME SweepAssumption ==
    /\ Keyed \subseteq Workers
    /\ Rails \subseteq {"evm", "tron", "solana"}
    /\ Amounts \subseteq Nat \ {0}
    /\ MaxReceived \in Nat
    /\ MaxTx \in Nat
    /\ MaxRetries \in Nat \ {0}
    /\ FaultKinds \subseteq AllFaults
    /\ MaxFaults \in Nat

VARIABLES
    rail,       \* chosen at creation, then constant
    received,   \* total paid to the invoice address
    balance,    \* what the invoice address holds
    txs,        \* sweep transactions by id: amount and state
    wk,         \* per worker: program counter and locals
    faults      \* faults left

chainVars == <<received, balance, txs>>
vars == <<dbVars, rail, chainVars, wk, faults>>

TxIds == 1..MaxTx
TxStates == {"unsent", "pending", "confirmed", "reverted"}

\* Program counters.  The first three talk to no database write.
Calls == {"claim", "trackPaid", "trackSwept", "trackError"}
Pcs == {"idle", "prepare", "sweep", "wait", "paidReply"} \cup Calls

Idle == [pc |-> "idle", status |-> "awaiting_payment", listed |-> 0,
         bal |-> 0, ver |-> 0, att |-> 0, claimed |-> 0, tx |-> NoTx]

Init ==
    /\ DbInit
    /\ rail \in Rails
    /\ received = 0 /\ balance = 0
    /\ txs = [t \in TxIds |-> [amount |-> 0, state |-> "unsent"]]
    /\ wk = [w \in Workers |-> Idle]
    /\ faults = MaxFaults

At(w, pc) == wk[w].pc = pc
Goto(w, pc) == wk' = [wk EXCEPT ![w].pc = pc]

\* The tick is over, its locals are gone.
Done(w) == wk' = [wk EXCEPT ![w] = Idle]

\* Enter an HTTP call (or the sweep) with the version it will carry.
Enter(w, pc, v) == wk' = [wk EXCEPT ![w].pc = pc, ![w].ver = v, ![w].att = 0]

\* The catch blocks of tick: report the error at the version first listed.
Throw(w) == Enter(w, "trackError", wk[w].listed)

-----------------------------------------------------------------------------
(* The chain.                                                               *)

Pay(a) ==
    /\ received + a <= MaxReceived
    /\ received' = received + a
    /\ balance' = balance + a
    /\ UNCHANGED <<dbVars, rail, txs, wk, faults>>

\* CommerceForwarder refuses a sweep above its balance.  Solana's settle
\* takes whatever the token account holds.  A Tron transfer may also run out
\* of energy, which the worker reclaims as soon as it has broadcast.
Mine(t) ==
    /\ txs[t].state = "pending"
    /\ \/ /\ rail # "solana" /\ balance >= txs[t].amount
          /\ balance' = balance - txs[t].amount
          /\ txs' = [txs EXCEPT ![t].state = "confirmed"]
       \/ /\ rail = "solana" /\ balance > 0
          /\ balance' = 0
          /\ txs' = [txs EXCEPT ![t] = [amount |-> balance,
                                        state |-> "confirmed"]]
       \/ /\ \/ rail = "evm" /\ balance < txs[t].amount
             \/ rail = "solana" /\ balance = 0
             \/ rail = "tron"
          /\ txs' = [txs EXCEPT ![t].state = "reverted"]
          /\ UNCHANGED balance
    /\ UNCHANGED <<dbVars, rail, received, wk, faults>>

\* CommerceInvoiceSweeper's sweep and bulkSweep ask for no key: anyone may
\* take any part of an EVM balance out, to the merchant the address was made
\* for.  Solana's settle asks for the authority, Tron for the address's key.
AnyoneSweeps ==
    /\ rail = "evm"
    /\ \E b \in 0..balance : b < balance /\ balance' = b
    /\ UNCHANGED <<dbVars, rail, received, txs, wk, faults>>

-----------------------------------------------------------------------------
(* One tick of a worker.                                                    *)

FetchInvoices(w) ==
    /\ At(w, "idle")
    /\ row.status \in Listed
    /\ wk' = [wk EXCEPT ![w] = [Idle EXCEPT !.pc = "prepare",
                                            !.status = row.status,
                                            !.listed = row.version]]
    /\ UNCHANGED <<dbVars, rail, chainVars, faults>>

PrepareInvoice_NoZeroCheck(w) ==
    /\ At(w, "prepare")
    /\ wk' = [wk EXCEPT ![w].pc = IF wk[w].status = "awaiting_payment"
                                 THEN "trackPaid" ELSE "claim",
                        ![w].bal = balance, ![w].ver = wk[w].listed]
    /\ UNCHANGED <<dbVars, rail, chainVars, faults>>

\* Read the balance; nothing to do when it is zero.  Only the EVM path marks
\* an invoice paid without a sweep key.
PrepareInvoice(w) ==
    /\ At(w, "prepare")
    /\ LET unmarked == rail = "evm" /\ wk[w].status = "awaiting_payment"
       IN  IF balance > 0 /\ (unmarked \/ w \in Keyed)
           THEN wk' = [wk EXCEPT
                         ![w].pc = IF unmarked THEN "trackPaid" ELSE "claim",
                         ![w].bal = balance, ![w].ver = wk[w].listed]
           ELSE Done(w)
    /\ UNCHANGED <<dbVars, rail, chainVars, faults>>

\* Where the tick goes once trackWithRetry returned an invoice at version v.
AfterPaid(w, v) ==
    IF rail # "evm" THEN Enter(w, "sweep", v)
    ELSE IF w \in Keyed THEN Enter(w, "claim", v) ELSE Done(w)

TrackPaidServed(w) ==
    /\ At(w, "trackPaid")
    /\ TrackAllowed(w, wk[w].ver, PaidStatus)
    /\ TrackPaid(wk[w].bal)
    /\ Goto(w, "paidReply")
    /\ UNCHANGED <<rail, chainVars, faults>>

\* The route answers with the row it reads again after the merchant's
\* callback has been awaited.
PaidReply(w) ==
    /\ At(w, "paidReply")
    /\ AfterPaid(w, row.version)
    /\ UNCHANGED <<dbVars, rail, chainVars, faults>>

ClaimServed(w) ==
    /\ At(w, "claim")
    /\ ClaimAllowed(w, wk[w].ver)
    /\ ClaimInvoice(w)
    /\ wk' = [wk EXCEPT ![w].pc = IF rail = "evm" THEN "sweep"
                                  ELSE "trackPaid",
                        ![w].ver = row.version + 1,
                        ![w].claimed = row.version + 1, ![w].att = 0]
    /\ UNCHANGED <<rail, chainVars, faults>>

\* The retry loops ended without an answer: null.
GiveUp(w) ==
    IF At(w, "trackPaid") /\ rail # "evm"
    THEN Enter(w, "sweep", wk[w].claimed + 1)
    ELSE Done(w)

Retry(w, v) ==
    IF wk[w].att + 1 < MaxRetries
    THEN wk' = [wk EXCEPT ![w].ver = v, ![w].att = @ + 1]
    ELSE GiveUp(w)

AfterConflict_IgnoreSwept(w) == Retry(w, row.version)

\* A 409 carries the current row: done when it is swept, else adopt its
\* version and try again.
AfterConflict(w) ==
    IF row.status # "swept" THEN Retry(w, row.version)
    ELSE IF At(w, "trackPaid") THEN AfterPaid(w, row.version)
    ELSE Done(w)

Refused(w) ==
    LET v == wk[w].ver
    IN  \/ At(w, "claim") /\ ~ClaimAllowed(w, v)
        \/ At(w, "trackPaid") /\ ~TrackAllowed(w, v, PaidStatus)
        \/ At(w, "trackSwept") /\ ~TrackAllowed(w, v, "swept")
        \/ At(w, "trackError") /\ ~TrackAllowed(w, v, "unchanged")

Conflict(w) ==
    /\ Refused(w)
    /\ AfterConflict(w)
    /\ UNCHANGED <<dbVars, rail, chainVars, faults>>

-----------------------------------------------------------------------------
(* sweepOne, sweepTronOne, sweepSolanaOne.                                  *)

\* The amount a sweep asks for: the balance prepared on EVM, the balance
\* read again on Tron; Solana's is known once it is mined.
SweepAmount(w) == IF rail = "evm" THEN wk[w].bal
                  ELSE IF rail = "tron" THEN balance ELSE 0

CanBroadcast(w) == IF rail = "evm" THEN balance >= wk[w].bal ELSE balance > 0

NextTx == {t \in TxIds : /\ txs[t].state = "unsent"
                         /\ \A s \in 1..(t - 1) : txs[s].state # "unsent"}

\* On Tron send() returns the id of a transaction nobody waits for.
Broadcast(w) ==
    /\ At(w, "sweep")
    /\ CanBroadcast(w)
    /\ \E t \in NextTx :
        /\ txs' = [txs EXCEPT ![t] = [amount |-> SweepAmount(w),
                                      state |-> "pending"]]
        /\ wk' = [wk EXCEPT ![w].tx = t,
                            ![w].pc = IF rail = "tron" THEN "trackSwept"
                                      ELSE "wait"]
    /\ UNCHANGED <<dbVars, rail, received, balance, faults>>

SweepRefused(w) ==
    /\ At(w, "sweep")
    /\ ~CanBroadcast(w)
    /\ Throw(w)
    /\ UNCHANGED <<dbVars, rail, chainVars, faults>>

AfterReceipt_NoCheck(w) == Goto(w, "trackSwept")

\* ethers' wait() throws on a reverted transaction; Solana's
\* confirmTransaction reports the error in a value nobody reads.
AfterReceipt(w) ==
    IF txs[wk[w].tx].state = "reverted" /\ rail = "evm"
    THEN Throw(w) ELSE Goto(w, "trackSwept")

Receipt(w) ==
    /\ At(w, "wait")
    /\ txs[wk[w].tx].state \in {"confirmed", "reverted"}
    /\ AfterReceipt(w)
    /\ UNCHANGED <<dbVars, rail, chainVars, faults>>

\* What the worker reports as swept: the transaction's amount, except on
\* Solana, where it is computed from the balance read before.
Settled(w) == IF rail = "tron" THEN txs[wk[w].tx].amount ELSE wk[w].bal

TrackSweptServed(w) ==
    /\ At(w, "trackSwept")
    /\ TrackAllowed(w, wk[w].ver, "swept")
    /\ TrackSwept(wk[w].bal, Settled(w), wk[w].tx)
    /\ Done(w)
    /\ UNCHANGED <<rail, chainVars, faults>>

TrackErrorServed(w) ==
    /\ At(w, "trackError")
    /\ TrackAllowed(w, wk[w].ver, "unchanged")
    /\ TrackError
    /\ Done(w)
    /\ UNCHANGED <<rail, chainVars, faults>>

-----------------------------------------------------------------------------
(* Faults, at most MaxFaults of them.                                       *)

Fault(kind) == kind \in FaultKinds /\ faults > 0 /\ faults' = faults - 1

\* A chain RPC fails while reading the balance or submitting the sweep.
RpcFails(w) ==
    /\ Fault("rpc")
    /\ wk[w].pc \in {"prepare", "sweep"}
    /\ Throw(w)
    /\ UNCHANGED <<dbVars, rail, chainVars>>

\* Waiting for a broadcast transaction fails; the transaction lives on.
ReceiptLost(w) ==
    /\ Fault("receipt")
    /\ At(w, "wait")
    /\ Throw(w)
    /\ UNCHANGED <<dbVars, rail, chainVars>>

\* fetch rejects before the server has seen the request: no retry loop
\* catches that, the tick's catch block does.
RequestLost(w) ==
    /\ Fault("lost")
    /\ wk[w].pc \in Calls
    /\ IF At(w, "trackError") THEN Done(w) ELSE Throw(w)
    /\ UNCHANGED <<dbVars, rail, chainVars>>

\* fetch rejects after the server has done its work.
ReplyLost(w) ==
    /\ Fault("lost")
    /\ \/ /\ At(w, "claim") /\ ClaimAllowed(w, wk[w].ver)
          /\ ClaimInvoice(w)
       \/ /\ At(w, "paidReply")
          /\ UNCHANGED dbVars
       \/ /\ At(w, "trackSwept") /\ TrackAllowed(w, wk[w].ver, "swept")
          /\ TrackSwept(wk[w].bal, Settled(w), wk[w].tx)
    /\ Throw(w)
    /\ UNCHANGED <<rail, chainVars>>

\* The server answers 5xx and the retry loop tries the same version again.
ServerBusy(w) ==
    /\ Fault("busy")
    /\ wk[w].pc \in Calls
    /\ Retry(w, wk[w].ver)
    /\ UNCHANGED <<dbVars, rail, chainVars>>

\* The worker process is killed and started again.
Crash(w) ==
    /\ Fault("crash")
    /\ ~At(w, "idle")
    /\ Done(w)
    /\ UNCHANGED <<dbVars, rail, chainVars>>

\* The database is lost and rebuilt from the persist log, and the workers
\* are started again after it (deploy/overlays/PERSIST-LOGS.md).
Restore ==
    /\ Fault("restore")
    /\ RestorePersistedInvoice
    /\ wk' = [w \in Workers |-> Idle]
    /\ UNCHANGED <<rail, chainVars>>

-----------------------------------------------------------------------------
Tick(w) ==
    \/ FetchInvoices(w) \/ PrepareInvoice(w)
    \/ TrackPaidServed(w) \/ PaidReply(w) \/ ClaimServed(w) \/ Conflict(w)
    \/ Broadcast(w) \/ SweepRefused(w) \/ Receipt(w)
    \/ TrackSweptServed(w) \/ TrackErrorServed(w)

WorkerFault(w) ==
    \/ RpcFails(w) \/ ReceiptLost(w) \/ RequestLost(w) \/ ReplyLost(w)
    \/ ServerBusy(w) \/ Crash(w)

LeaseRunsOut == LeaseExpires /\ UNCHANGED <<rail, chainVars, wk, faults>>

Next ==
    \/ \E a \in Amounts : Pay(a)
    \/ \E t \in TxIds : Mine(t)
    \/ AnyoneSweeps
    \/ \E w \in Workers : Tick(w) \/ WorkerFault(w)
    \/ LeaseRunsOut
    \/ Restore

Spec == Init /\ [][Next]_vars

\* A worker loops forever (start), and the chain includes or drops every
\* transaction it accepted.
Fairness ==
    /\ \A w \in Workers : WF_vars(Tick(w))
    /\ WF_vars(\E t \in TxIds : Mine(t))

FairSpec == Spec /\ Fairness

-----------------------------------------------------------------------------
\* Types of the row, of the log's fold, of the chain and of the workers.
TypeOK ==
    /\ row \in [status : Statuses, version : Nat \ {0},
                claimedBy : Workers \cup {NoWorker}, leaseLive : BOOLEAN,
                amountPaid : Nat, amountSwept : Nat, sweepTx : Nat]
    /\ replayed \in [status : Statuses, amountPaid : Nat,
                     amountSwept : Nat, sweepTx : Nat]
    /\ notified \in [PaidLike -> Nat]
    /\ rail \in {"evm", "tron", "solana"}
    /\ received \in Nat /\ balance \in Nat /\ faults \in Nat
    /\ txs \in [TxIds -> [amount : Nat, state : TxStates]]
    /\ wk \in [Workers -> [pc : Pcs, status : Statuses, listed : Nat,
                           bal : Nat, ver : Nat, att : Nat, claimed : Nat,
                           tx : Nat]]

\* An EVM invoice is never reported swept on the word of a transaction that
\* is pending, reverted or of another amount (sweepOne tracks swept only
\* after wait(), whatever crashes, lease takeovers and retries come between).
SweptTxConfirmed ==
    row.status = "swept" /\ rail = "evm" =>
        /\ row.sweepTx \in TxIds
        /\ txs[row.sweepTx] = [amount |-> row.amountSwept,
                              state |-> "confirmed"]

\* No phantom payment: a row that left awaiting_payment records an amount
\* that payers really sent, although it was read from the chain long before
\* trackInvoice wrote it.
PaidIsBacked ==
    row.status # "awaiting_payment" =>
        row.amountPaid > 0 /\ row.amountPaid <= received

\* Disaster recovery loses nothing of an invoice: replaying the persist log
\* gives the row's status and amounts back, after every track, error report
\* and earlier restore.
ReplayMatchesRow == replayed = Logged(row)

\* A merchant gets at most one callback for each paid-like status, although
\* paid reports are repeated after conflicts, lost replies and restarts
\* (applyTrack's becamePaidLike).
NotifyOnce == \A s \in PaidLike : notified[s] <= 1

\* A live lease ends only when its holder reports the sweep: no other
\* worker's claim or swept report gets past it (a restore starts a new row).
LiveLeaseNotStolen ==
    [][\A w \in Workers :
         row.leaseLive /\ row.claimedBy = w /\ row'.claimedBy # w =>
            \/ At(w, "trackSwept") /\ row'.status = "swept"
            \/ Restore]_row

\* The settled amounts of an EVM invoice are final: no late paid, error or
\* second swept report of any worker rewrites them (claimWithRetry and
\* trackWithRetry stop when a 409 shows a swept row).
SettledIsFinal ==
    [][rail = "evm" /\ row.status = "swept" => Logged(row') = Logged(row)]_row

\* The pipeline implements the lifecycle promised to merchants.
Lifecycle ==
    INSTANCE InvoiceLifecycle WITH
        stage <- IF row.status = "paid_partial" THEN "paid" ELSE row.status,
        paidOut <- received - balance

LifecycleSpec == Lifecycle!Spec

\* A worker's own transaction took money out of the address.
WorkersSwept == \E t \in TxIds : txs[t].state = "confirmed"

\* A payment is eventually swept and reported, when the chain's RPC and the
\* API may fail but answer in the end and one worker holds the sweep key;
\* unless strangers' sweeps took all of it: prepareInvoice sees a zero
\* balance, the merchant has the money and the row stays as it was.
PaidIsSwept ==
    received > 0 ~> (row.status = "swept" \/ (balance = 0 /\ ~WorkersSwept))

-----------------------------------------------------------------------------
(* Statements of the repository's documents.                                *)

\* docs/security.md:10, "Claim leases prevent double-sweep races between
\* workers": a lease may run out while its holder waits for a receipt.
OneSweepInFlight ==
    Cardinality({t \in TxIds : txs[t].state = "pending"}) <= 1

\* docs/sweepers.md:9, "Detect -> claim -> track paid -> sweep -> track
\* swept": a payout of the worker whose report is lost leaves a zero balance,
\* and prepareInvoice never looks at the invoice again.
PayoutIsReported == WorkersSwept ~> row.status = "swept"
=============================================================================
