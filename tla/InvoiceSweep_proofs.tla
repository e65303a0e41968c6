------------------------- MODULE InvoiceSweep_proofs -------------------------
(***************************************************************************)
(* The inductive invariant of InvoiceSweep and the theorems that follow    *)
(* from it, for any workers, payments, rails and fault budget.             *)
(***************************************************************************)
EXTENDS InvoiceSweep, TLAPS

\* What a worker does with a balance in hand.
Busy == {"trackPaid", "paidReply", "claim", "sweep", "wait", "trackSwept"}

\* Where the version a worker carries was read with a row not yet swept.
Carries(w) ==
    \/ At(w, "trackPaid")
    \/ rail = "evm" /\ wk[w].pc \in {"sweep", "wait", "trackSwept"}

\* A worker that waits for a sweep, or reports it, knows its transaction.
TxInv ==
    \A w \in Workers :
        wk[w].pc \in {"wait", "trackSwept"} => wk[w].tx \in TxIds

\* Optimistic locking: a version that still matches vouches for the status
\* that was read with it.
VersionInv ==
    \A w \in Workers :
        /\ wk[w].listed <= row.version
        /\ At(w, "prepare") /\ wk[w].listed = row.version =>
              row.status # "swept"
        /\ Carries(w) =>
              /\ wk[w].ver <= row.version
              /\ wk[w].ver = row.version => row.status # "swept"

\* Once a sweep transaction is mined, money has left the invoice address.
ChainInv ==
    /\ balance <= received
    /\ \A t \in TxIds :
        /\ txs[t].state # "unsent" => received > 0
        /\ rail = "evm" /\ txs[t].state # "unsent" =>
              txs[t].amount > 0 /\ txs[t].amount <= received
        /\ rail # "tron" /\ txs[t].state \in {"confirmed", "reverted"} =>
              balance < received

WorkerInv ==
    \A w \in Workers :
        /\ wk[w].pc \in Busy => wk[w].bal > 0 /\ wk[w].bal <= received
        /\ wk[w].pc \in {"wait", "trackSwept"} =>
              /\ txs[wk[w].tx].state # "unsent"
              /\ rail = "evm" => txs[wk[w].tx].amount = wk[w].bal
        /\ At(w, "trackSwept") /\ rail # "tron" =>
              txs[wk[w].tx].state \in {"confirmed", "reverted"}
        /\ At(w, "trackSwept") /\ rail = "evm" =>
              txs[wk[w].tx].state = "confirmed"

RowInv ==
    /\ row.status \in {"awaiting_payment", PaidStatus, "swept"}
    /\ PaidIsBacked
    /\ SweptTxConfirmed
    /\ row.status = "swept" /\ rail # "tron" => balance < received

NotifyInv ==
    /\ NotifyOnce
    /\ row.status = "awaiting_payment" => \A s \in PaidLike : notified[s] = 0
    /\ row.status # "swept" => notified["swept"] = 0

\* Reporting a sweep frees the row, and a swept row cannot be claimed.
LeaseInv == row.status = "swept" => ~row.leaseLive

IInv ==
    /\ TypeOK
    /\ rail \in Rails
    /\ TxInv
    /\ ReplayMatchesRow
    /\ VersionInv
    /\ ChainInv
    /\ WorkerInv
    /\ RowInv
    /\ LeaseInv
    /\ NotifyInv

-----------------------------------------------------------------------------
(* Types.                                                                   *)

WkRec == [pc : Pcs, status : Statuses, listed : Nat, bal : Nat, ver : Nat,
          att : Nat, claimed : Nat, tx : Nat]

USE DEF NoTx

\* Every way a worker's locals are written keeps their types: the ends of a
\* tick, entering a call, the catch blocks and the retry loops.
LEMMA LocalsType ==
    ASSUME TypeOK, NEW w \in Workers, NEW v \in Nat, NEW pc \in Pcs
    PROVE  /\ Idle \in WkRec
           /\ Done(w) => wk' \in [Workers -> WkRec]
           /\ Goto(w, pc) => wk' \in [Workers -> WkRec]
           /\ Enter(w, pc, v) => wk' \in [Workers -> WkRec]
           /\ Throw(w) => wk' \in [Workers -> WkRec]
           /\ AfterPaid(w, v) => wk' \in [Workers -> WkRec]
           /\ Retry(w, v) => wk' \in [Workers -> WkRec]
<1>1. wk \in [Workers -> WkRec]
  BY DEF TypeOK, WkRec
<1>2. wk[w] \in WkRec
  BY <1>1
<1>3. Idle \in WkRec
  BY DEF Idle, WkRec, Pcs, Calls, Statuses, Listed, PaidLike
<1>4. Done(w) => wk' \in [Workers -> WkRec]
  BY <1>1, <1>3 DEF Done
<1>5. Goto(w, pc) => wk' \in [Workers -> WkRec]
  BY <1>1, <1>2 DEF Goto, WkRec
<1>6. ASSUME NEW q \in Pcs, NEW n \in Nat, Enter(w, q, n)
      PROVE  wk' \in [Workers -> WkRec]
  BY <1>1, <1>2, <1>6 DEF Enter, WkRec
<1>7. {"trackError", "sweep", "claim"} \subseteq Pcs
  BY DEF Pcs, Calls
<1>8. Throw(w) => wk' \in [Workers -> WkRec]
  BY <1>2, <1>6, <1>7 DEF Throw, WkRec
<1>9. AfterPaid(w, v) => wk' \in [Workers -> WkRec]
  BY <1>4, <1>6, <1>7 DEF AfterPaid
<1>10. GiveUp(w) => wk' \in [Workers -> WkRec]
  BY <1>2, <1>4, <1>6, <1>7 DEF GiveUp, WkRec
<1>11. Retry(w, v) => wk' \in [Workers -> WkRec]
  BY <1>1, <1>2, <1>10 DEF Retry, WkRec
<1> QED BY <1>3, <1>4, <1>5, <1>6, <1>8, <1>9, <1>11

\* The server's three columns of state.
DbType ==
    /\ row \in [status : Statuses, version : Nat \ {0},
                claimedBy : Workers \cup {NoWorker}, leaseLive : BOOLEAN,
                amountPaid : Nat, amountSwept : Nat, sweepTx : Nat]
    /\ replayed \in [status : Statuses, amountPaid : Nat,
                     amountSwept : Nat, sweepTx : Nat]
    /\ notified \in [PaidLike -> Nat]

\* Every statement sequence of the database keeps the types of the row, of
\* the persist log's fold and of the callback counters.
LEMMA DbTypes ==
    ASSUME DbType, NEW w \in Workers, NEW n \in Nat, NEW m \in Nat,
           NEW t \in Nat
    PROVE  /\ ClaimInvoice(w) => DbType'
           /\ TrackPaid(n) => DbType'
           /\ TrackSwept(n, m, t) => DbType'
           /\ TrackError => DbType'
           /\ LeaseExpires => DbType'
           /\ RestorePersistedInvoice => DbType'
           /\ UNCHANGED dbVars => DbType'
<1>1. PaidStatus \in PaidLike /\ "swept" \in PaidLike /\ PaidLike \subseteq Statuses
  BY DEF PaidStatus, PaidLike, Statuses
<1>2. ASSUME NEW s \in PaidLike, Notify(s)
      PROVE  notified' \in [PaidLike -> Nat]
  <2>1. notified' = notified \/ notified' = [notified EXCEPT ![s] = @ + 1]
    BY <1>2 DEF Notify
  <2> QED BY <2>1 DEF DbType
<1>v. row.version + 1 \in Nat \ {0}
  BY DEF DbType
<1>3. ASSUME ClaimInvoice(w) PROVE DbType'
  <2> DEFINE r1 == [row EXCEPT !.claimedBy = w, !.leaseLive = TRUE]
  <2>1. r1 \in [status : Statuses, version : Nat \ {0},
                claimedBy : Workers \cup {NoWorker}, leaseLive : BOOLEAN,
                amountPaid : Nat, amountSwept : Nat, sweepTx : Nat]
    BY DEF DbType
  <2> QED BY <1>3, <1>v, <2>1 DEF ClaimInvoice, DbType
<1>4. ASSUME TrackPaid(n) PROVE DbType'
  <2>1. notified' \in [PaidLike -> Nat]
    BY <1>1, <1>2, <1>4 DEF TrackPaid
  <2> QED BY <1>1, <1>4, <1>v, <2>1 DEF TrackPaid, DbType
<1>5. ASSUME TrackSwept(n, m, t) PROVE DbType'
  <2>1. notified' \in [PaidLike -> Nat]
    BY <1>1, <1>2, <1>5 DEF TrackSwept
  <2> QED BY <1>1, <1>5, <1>v, <2>1 DEF TrackSwept, DbType
<1>6. TrackError => DbType'
  BY <1>v DEF TrackError, DbType
<1>7. LeaseExpires => DbType'
  BY DEF LeaseExpires, DbType
<1>8. RestorePersistedInvoice => DbType'
  BY DEF RestorePersistedInvoice, DbType
<1>9. UNCHANGED dbVars => DbType'
  BY DEF dbVars, DbType
<1> QED BY <1>3, <1>4, <1>5, <1>6, <1>7, <1>8, <1>9

\* The types, once more, as the parts that different actions write.
LEMMA TypeParts ==
    TypeOK <=> /\ DbType
               /\ rail \in {"evm", "tron", "solana"}
               /\ received \in Nat /\ balance \in Nat /\ faults \in Nat
               /\ txs \in [TxIds -> [amount : Nat, state : TxStates]]
               /\ wk \in [Workers -> WkRec]
BY DEF TypeOK, DbType, WkRec

\* Every creation of an invoice starts with well-typed state.
LEMMA TypeInit == Init => TypeOK
<1> SUFFICES ASSUME Init PROVE TypeOK
  OBVIOUS
<1>1. DbType
  BY DEF Init, DbInit, CreatedRow, Logged, DbType, Statuses, Listed, PaidLike
<1>2. wk \in [Workers -> WkRec]
  BY DEF Init, Idle, WkRec, Pcs, Calls, Statuses, Listed, PaidLike
<1>3. txs \in [TxIds -> [amount : Nat, state : TxStates]]
  BY DEF Init, TxStates
<1> QED BY <1>1, <1>2, <1>3, TypeParts, SweepAssumption DEF Init

\* No step of the payers, the chain, the server, a worker or a fault leaves
\* the types.
LEMMA TypeStep == TypeOK /\ TxInv /\ [Next]_vars => TypeOK'
<1> SUFFICES ASSUME TypeOK, TxInv, [Next]_vars PROVE TypeOK'
  OBVIOUS
<1>t. /\ DbType
      /\ rail \in {"evm", "tron", "solana"}
      /\ received \in Nat /\ balance \in Nat /\ faults \in Nat
      /\ txs \in [TxIds -> [amount : Nat, state : TxStates]]
      /\ wk \in [Workers -> WkRec]
  BY TypeParts
<1>v. row.version \in Nat /\ row.version + 1 \in Nat
  BY <1>t DEF DbType
<1>p. /\ (DbType /\ rail \in {"evm", "tron", "solana"}
           /\ received \in Nat /\ balance \in Nat /\ faults \in Nat
           /\ txs \in [TxIds -> [amount : Nat, state : TxStates]]
           /\ wk \in [Workers -> WkRec])' => TypeOK'
  BY TypeParts, PTL
<1>q. UNCHANGED dbVars => DbType'
  BY <1>t DEF dbVars, DbType
<1>s. ASSUME NEW w \in Workers, At(w, "trackSwept") PROVE Settled(w) \in Nat
  BY <1>s, <1>t DEF TxInv, At, Settled, WkRec
<1>1. ASSUME NEW a \in Amounts, Pay(a) PROVE TypeOK'
  BY <1>1, <1>t, <1>p, <1>q, SweepAssumption DEF Pay
<1>2. ASSUME NEW t \in TxIds, Mine(t) PROVE TypeOK'
  <2>1. txs[t].amount \in Nat
    BY <1>t
  <2>2. balance' \in Nat
    BY <1>2, <1>t, <2>1 DEF Mine
  <2>3. txs' \in [TxIds -> [amount : Nat, state : TxStates]]
    BY <1>2, <1>t DEF Mine, TxStates
  <2> QED BY <1>2, <1>t, <1>p, <1>q, <2>2, <2>3 DEF Mine
<1>3. ASSUME NEW w \in Workers, Tick(w) PROVE TypeOK'
  <2>w. wk[w] \in WkRec
    BY <1>t
  <2>l. /\ wk[w].bal \in Nat /\ wk[w].ver \in Nat /\ wk[w].tx \in Nat
        /\ wk[w].listed \in Nat
    BY <2>w DEF WkRec
  <2>1. CASE FetchInvoices(w)
    <3>1. [Idle EXCEPT !.pc = "prepare", !.status = row.status,
                       !.listed = row.version] \in WkRec
      BY <1>t DEF Idle, WkRec, DbType, Pcs
    <3>2. wk' \in [Workers -> WkRec]
      BY <2>1, <3>1, <1>t DEF FetchInvoices
    <3> QED BY <2>1, <3>2, <1>t, <1>p, <1>q DEF FetchInvoices, chainVars
  <2>2. CASE PrepareInvoice(w)
    <3>1. ASSUME NEW q \in {"trackPaid", "claim"}
          PROVE  [wk EXCEPT ![w].pc = q, ![w].bal = balance,
                            ![w].ver = wk[w].listed]
                   \in [Workers -> WkRec]
      BY <3>1, <1>t, <2>w, <2>l DEF WkRec, Pcs, Calls
    <3>2. Done(w) => wk' \in [Workers -> WkRec]
      BY LocalsType, <1>v DEF Pcs
    <3>3. wk' \in [Workers -> WkRec]
      BY <2>2, <3>1, <3>2 DEF PrepareInvoice
    <3> QED BY <2>2, <3>3, <1>t, <1>p, <1>q DEF PrepareInvoice, chainVars
  <2>3. CASE TrackPaidServed(w)
    <3>1. DbType'
      BY <2>3, <1>t, <2>l, DbTypes DEF TrackPaidServed
    <3>2. wk' \in [Workers -> WkRec]
      BY <2>3, LocalsType, <1>v DEF TrackPaidServed, Pcs
    <3> QED BY <2>3, <3>1, <3>2, <1>t, <1>p DEF TrackPaidServed, chainVars
  <2>4. CASE PaidReply(w)
    <3>1. wk' \in [Workers -> WkRec]
      BY <2>4, LocalsType, <1>v DEF PaidReply, Pcs
    <3> QED BY <2>4, <3>1, <1>t, <1>p, <1>q DEF PaidReply, chainVars
  <2>5. CASE ClaimServed(w)
    <3>1. DbType'
      BY <2>5, <1>t, DbTypes DEF ClaimServed
    <3>2. wk' \in [Workers -> WkRec]
      BY <2>5, <1>t, <1>v, <2>w DEF ClaimServed, WkRec, Pcs, Calls
    <3> QED BY <2>5, <3>1, <3>2, <1>t, <1>p DEF ClaimServed, chainVars
  <2>6. CASE Conflict(w)
    <3>1. wk' \in [Workers -> WkRec]
      BY <2>6, LocalsType, <1>v DEF Conflict, AfterConflict, Pcs
    <3> QED BY <2>6, <3>1, <1>t, <1>p, <1>q DEF Conflict, chainVars
  <2>7. CASE Broadcast(w)
    <3>1. PICK t \in NextTx :
             /\ txs' = [txs EXCEPT ![t] = [amount |-> SweepAmount(w),
                                           state |-> "pending"]]
             /\ wk' = [wk EXCEPT ![w].tx = t,
                                 ![w].pc = IF rail = "tron" THEN "trackSwept"
                                           ELSE "wait"]
      BY <2>7 DEF Broadcast
    <3>2. SweepAmount(w) \in Nat
      BY <1>t, <2>l DEF SweepAmount
    <3>3. t \in TxIds /\ t \in Nat
      BY SweepAssumption DEF NextTx, TxIds
    <3>4. txs' \in [TxIds -> [amount : Nat, state : TxStates]]
      BY <3>1, <3>2, <3>3, <1>t DEF TxStates
    <3>5. wk' \in [Workers -> WkRec]
      BY <3>1, <3>3, <1>t, <2>w DEF WkRec, Pcs, Calls
    <3> QED BY <2>7, <3>4, <3>5, <1>t, <1>p, <1>q DEF Broadcast
  <2>8. CASE SweepRefused(w)
    <3>1. wk' \in [Workers -> WkRec]
      BY <2>8, LocalsType, <1>v DEF SweepRefused, Pcs
    <3> QED BY <2>8, <3>1, <1>t, <1>p, <1>q DEF SweepRefused, chainVars
  <2>9. CASE Receipt(w)
    <3>1. wk' \in [Workers -> WkRec]
      BY <2>9, LocalsType, <1>v DEF Receipt, AfterReceipt, Pcs, Calls
    <3> QED BY <2>9, <3>1, <1>t, <1>p, <1>q DEF Receipt, chainVars
  <2>10. CASE TrackSweptServed(w)
    <3>1. wk' \in [Workers -> WkRec]
      BY <2>10, LocalsType, <1>v DEF TrackSweptServed, Pcs
    <3>2. At(w, "trackSwept") => Settled(w) \in Nat
      BY <1>s
    <3>3. DbType'
      BY <2>10, <3>2, <1>t, <2>l, DbTypes DEF TrackSweptServed
    <3> QED BY <2>10, <3>1, <3>3, <1>t, <1>p DEF TrackSweptServed, chainVars
  <2>11. CASE TrackErrorServed(w)
    <3>1. wk' \in [Workers -> WkRec]
      BY <2>11, LocalsType, <1>v DEF TrackErrorServed, Pcs
    <3>2. DbType'
      BY <2>11, <1>t, DbTypes DEF TrackErrorServed
    <3> QED BY <2>11, <3>1, <3>2, <1>t, <1>p DEF TrackErrorServed, chainVars
  <2> QED BY <1>3, <2>1, <2>2, <2>3, <2>4, <2>5, <2>6, <2>7, <2>8, <2>9,
             <2>10, <2>11 DEF Tick
<1>4. ASSUME NEW w \in Workers, WorkerFault(w) PROVE TypeOK'
  <2>w. wk[w] \in WkRec
    BY <1>t
  <2>l. /\ wk[w].bal \in Nat /\ wk[w].ver \in Nat /\ wk[w].tx \in Nat
        /\ wk[w].listed \in Nat
    BY <2>w DEF WkRec
  <2>f. ASSUME NEW k \in AllFaults, Fault(k) PROVE faults' \in Nat
    BY <2>f, <1>t DEF Fault
  <2>1. CASE RpcFails(w)
    <3>1. wk' \in [Workers -> WkRec]
      BY <2>1, LocalsType, <1>v DEF RpcFails, Pcs
    <3> QED BY <2>1, <3>1, <2>f, <1>t, <1>p, <1>q
            DEF RpcFails, chainVars, AllFaults
  <2>2. CASE ReceiptLost(w)
    <3>1. wk' \in [Workers -> WkRec]
      BY <2>2, LocalsType, <1>v DEF ReceiptLost, Pcs
    <3> QED BY <2>2, <3>1, <2>f, <1>t, <1>p, <1>q
            DEF ReceiptLost, chainVars, AllFaults
  <2>3. CASE RequestLost(w)
    <3>1. wk' \in [Workers -> WkRec]
      BY <2>3, LocalsType, <1>v DEF RequestLost, Pcs
    <3> QED BY <2>3, <3>1, <2>f, <1>t, <1>p, <1>q
            DEF RequestLost, chainVars, AllFaults
  <2>4. CASE ReplyLost(w)
    <3>1. wk' \in [Workers -> WkRec]
      BY <2>4, LocalsType, <1>v DEF ReplyLost, Pcs
    <3>2. At(w, "trackSwept") => Settled(w) \in Nat
      BY <1>s
    <3>3. DbType'
      BY <2>4, <3>2, <1>t, <1>q, <2>l, DbTypes DEF ReplyLost
    <3> QED BY <2>4, <3>1, <3>3, <2>f, <1>t, <1>p
            DEF ReplyLost, chainVars, AllFaults
  <2>5. CASE ServerBusy(w)
    <3>1. wk' \in [Workers -> WkRec]
      BY <2>5, <2>l, LocalsType DEF ServerBusy, Pcs
    <3> QED BY <2>5, <3>1, <2>f, <1>t, <1>p, <1>q
            DEF ServerBusy, chainVars, AllFaults
  <2>6. CASE Crash(w)
    <3>1. wk' \in [Workers -> WkRec]
      BY <2>6, LocalsType, <1>v DEF Crash, Pcs
    <3> QED BY <2>6, <3>1, <2>f, <1>t, <1>p, <1>q
            DEF Crash, chainVars, AllFaults
  <2> QED BY <1>4, <2>1, <2>2, <2>3, <2>4, <2>5, <2>6 DEF WorkerFault
<1>5. CASE LeaseRunsOut
  <2>1. DbType'
    BY <1>5, <1>t DEF LeaseRunsOut, LeaseExpires, DbType
  <2> QED BY <1>5, <2>1, <1>t, <1>p DEF LeaseRunsOut, chainVars
<1>6. CASE Restore
  <2>1. DbType'
    BY <1>6, <1>t DEF Restore, RestorePersistedInvoice, DbType
  <2>2. Idle \in WkRec
    BY DEF Idle, WkRec, Pcs, Calls, Statuses, Listed, PaidLike
  <2>3. wk' \in [Workers -> WkRec]
    BY <1>6, <2>2 DEF Restore
  <2>4. faults' \in Nat
    BY <1>6, <1>t DEF Restore, Fault
  <2> QED BY <1>6, <2>1, <2>3, <2>4, <1>t, <1>p DEF Restore, chainVars
<1>7. CASE UNCHANGED vars
  BY <1>7, <1>t, <1>p, <1>q DEF vars, chainVars
<1>8. CASE AnyoneSweeps
  <2>1. balance' \in Nat
    BY <1>8, <1>t DEF AnyoneSweeps
  <2> QED BY <1>8, <2>1, <1>t, <1>p, <1>q DEF AnyoneSweeps
<1> QED BY <1>1, <1>2, <1>3, <1>4, <1>5, <1>6, <1>7, <1>8 DEF Next

-----------------------------------------------------------------------------
(* What a step can do to each part of the state.                            *)

\* A worker's request the server accepts.
Served(w) ==
    \/ /\ At(w, "claim") /\ ClaimAllowed(w, wk[w].ver)
       /\ ClaimInvoice(w)
    \/ /\ At(w, "trackPaid") /\ TrackAllowed(w, wk[w].ver, PaidStatus)
       /\ TrackPaid(wk[w].bal)
    \/ /\ At(w, "trackSwept") /\ TrackAllowed(w, wk[w].ver, "swept")
       /\ TrackSwept(wk[w].bal, Settled(w), wk[w].tx)
    \/ TrackError

\* A step writes the database through one accepted request, the passing of
\* the lease, a restore, or not at all.
LEMMA DbSteps ==
    ASSUME [Next]_vars
    PROVE  \/ UNCHANGED dbVars
           \/ \E w \in Workers : Served(w) /\ UNCHANGED chainVars
           \/ LeaseExpires
           \/ Restore
<1>1. ASSUME NEW w \in Workers, Tick(w)
      PROVE  UNCHANGED dbVars \/ (Served(w) /\ UNCHANGED chainVars)
  BY <1>1 DEF Tick, FetchInvoices, PrepareInvoice, TrackPaidServed,
     PaidReply, ClaimServed, Conflict, Broadcast, SweepRefused, Receipt,
     TrackSweptServed, TrackErrorServed, Served
<1>2. ASSUME NEW w \in Workers, WorkerFault(w)
      PROVE  UNCHANGED dbVars \/ (Served(w) /\ UNCHANGED chainVars)
  BY <1>2 DEF WorkerFault, RpcFails, ReceiptLost, RequestLost, ReplyLost,
     ServerBusy, Crash, Served
<1>3. ASSUME NEW a \in Amounts, Pay(a) PROVE UNCHANGED dbVars
  BY <1>3 DEF Pay
<1>4. ASSUME NEW t \in TxIds, Mine(t) PROVE UNCHANGED dbVars
  BY <1>4 DEF Mine
<1>5. UNCHANGED vars \/ AnyoneSweeps => UNCHANGED dbVars
  BY DEF vars, AnyoneSweeps
<1> QED BY <1>1, <1>2, <1>3, <1>4, <1>5 DEF Next, LeaseRunsOut

\* A step writes the chain through a payment, a block, a stranger's sweep, a
\* broadcast, or not at all; the rail never changes.
LEMMA ChainSteps ==
    ASSUME [Next]_vars
    PROVE  /\ rail' = rail
           /\ \/ UNCHANGED chainVars
              \/ \E a \in Amounts : Pay(a)
              \/ \E t \in TxIds : Mine(t)
              \/ AnyoneSweeps
              \/ \E w \in Workers : Broadcast(w)
<1>1. ASSUME NEW w \in Workers, Tick(w)
      PROVE  rail' = rail /\ (UNCHANGED chainVars \/ Broadcast(w))
  BY <1>1 DEF Tick, FetchInvoices, PrepareInvoice, TrackPaidServed,
     PaidReply, ClaimServed, Conflict, Broadcast, SweepRefused, Receipt,
     TrackSweptServed, TrackErrorServed
<1>2. ASSUME NEW w \in Workers, WorkerFault(w)
      PROVE  rail' = rail /\ UNCHANGED chainVars
  BY <1>2 DEF WorkerFault, RpcFails, ReceiptLost, RequestLost, ReplyLost,
     ServerBusy, Crash
<1>3. ASSUME NEW a \in Amounts, Pay(a) PROVE rail' = rail
  BY <1>3 DEF Pay
<1>4. ASSUME NEW t \in TxIds, Mine(t) PROVE rail' = rail
  BY <1>4 DEF Mine
<1>5. UNCHANGED vars => rail' = rail /\ UNCHANGED chainVars
  BY DEF vars
<1>6. LeaseRunsOut \/ Restore => rail' = rail /\ UNCHANGED chainVars
  BY DEF LeaseRunsOut, Restore
<1>7. AnyoneSweeps => rail' = rail
  BY DEF AnyoneSweeps
<1> QED BY <1>1, <1>2, <1>3, <1>4, <1>5, <1>6, <1>7 DEF Next

\* Workers keep their locals to themselves: a step of the payers, the chain
\* or the clock writes nobody's, a worker's step only its own.
LEMMA WkSteps ==
    ASSUME TypeOK, [Next]_vars
    PROVE  \/ wk' = wk
           \/ \E w \in Workers :
                 /\ Tick(w) \/ WorkerFault(w)
                 /\ \A u \in Workers \ {w} : wk'[u] = wk[u]
           \/ Restore
<1>t. wk \in [Workers -> WkRec]
  BY TypeParts
<1>1. ASSUME NEW w \in Workers, Tick(w), NEW u \in Workers \ {w}
      PROVE  wk'[u] = wk[u]
  BY <1>1, <1>t DEF Tick, FetchInvoices, PrepareInvoice, TrackPaidServed,
     PaidReply, ClaimServed, Conflict, Broadcast, SweepRefused, Receipt,
     TrackSweptServed, TrackErrorServed, Done, Goto, Enter, Throw, AfterPaid,
     AfterConflict, AfterReceipt, Retry, GiveUp
<1>2. ASSUME NEW w \in Workers, WorkerFault(w), NEW u \in Workers \ {w}
      PROVE  wk'[u] = wk[u]
  BY <1>2, <1>t DEF WorkerFault, RpcFails, ReceiptLost, RequestLost,
     ReplyLost, ServerBusy, Crash, Done, Enter, Throw, Retry, GiveUp
<1>3. ASSUME NEW a \in Amounts, Pay(a) PROVE wk' = wk
  BY <1>3 DEF Pay
<1>4. ASSUME NEW t \in TxIds, Mine(t) PROVE wk' = wk
  BY <1>4 DEF Mine
<1>5. UNCHANGED vars \/ LeaseRunsOut \/ AnyoneSweeps => wk' = wk
  BY DEF vars, LeaseRunsOut, AnyoneSweeps
<1> QED BY <1>1, <1>2, <1>3, <1>4, <1>5 DEF Next

-----------------------------------------------------------------------------
(* The server's invariants.                                                 *)

\* Row and log change together, whoever the writer is.
LEMMA ReplayStep ==
    ASSUME IInv, [Next]_vars PROVE ReplayMatchesRow'
<1>1. CASE UNCHANGED dbVars
  BY <1>1 DEF IInv, ReplayMatchesRow, dbVars, Logged
<1>2. ASSUME NEW w \in Workers, Served(w) PROVE ReplayMatchesRow'
  <2>r. DbType /\ replayed = Logged(row)
    BY TypeParts DEF IInv, ReplayMatchesRow
  <2>1. ClaimInvoice(w) => ReplayMatchesRow'
    BY <2>r DEF DbType, ReplayMatchesRow, Logged, ClaimInvoice
  <2>2. TrackPaid(wk[w].bal) => ReplayMatchesRow'
    BY <2>r DEF DbType, ReplayMatchesRow, Logged, TrackPaid
  <2>3. TrackSwept(wk[w].bal, Settled(w), wk[w].tx) => ReplayMatchesRow'
    BY <2>r DEF DbType, ReplayMatchesRow, Logged, TrackSwept
  <2>4. TrackError => ReplayMatchesRow'
    BY <2>r DEF DbType, ReplayMatchesRow, Logged, TrackError
  <2> QED BY <1>2, <2>1, <2>2, <2>3, <2>4 DEF Served
<1>3. CASE LeaseExpires
  BY <1>3, TypeParts DEF IInv, DbType, ReplayMatchesRow, Logged, LeaseExpires
<1>4. CASE Restore
  BY <1>4, TypeParts
     DEF IInv, DbType, ReplayMatchesRow, Logged, Restore,
         RestorePersistedInvoice
<1> QED BY <1>1, <1>2, <1>3, <1>4, DbSteps

\* An accepted paid report finds a row that is not swept: the version it
\* carries was read with such a row.
LEMMA PaidNotAfterSwept ==
    ASSUME IInv, NEW w \in Workers, At(w, "trackPaid"),
           TrackAllowed(w, wk[w].ver, PaidStatus)
    PROVE  row.status \in {"awaiting_payment", PaidStatus}
BY DEF IInv, VersionInv, Carries, TrackAllowed, RowInv

\* No status is announced twice.
LEMMA NotifyStep ==
    ASSUME IInv, [Next]_vars PROVE NotifyInv'
<1>t. notified \in [PaidLike -> Nat]
  BY DEF IInv, TypeOK
<1>s. /\ PaidStatus \in PaidLike /\ "swept" \in PaidLike
      /\ PaidStatus # "swept" /\ PaidStatus # "awaiting_payment"
  BY DEF PaidStatus, PaidLike
<1>r. DbType
  BY TypeParts DEF IInv
<1>1. CASE UNCHANGED dbVars
  BY <1>1 DEF IInv, NotifyInv, NotifyOnce, dbVars
<1>2. ASSUME NEW w \in Workers, Served(w) PROVE NotifyInv'
  <2>1. CASE At(w, "claim") /\ ClaimInvoice(w)
    BY <2>1, <1>r DEF DbType, IInv, NotifyInv, NotifyOnce, ClaimInvoice
  <2>2. CASE At(w, "trackPaid") /\ TrackAllowed(w, wk[w].ver, PaidStatus)
             /\ TrackPaid(wk[w].bal)
    <3>1. row.status \in {"awaiting_payment", PaidStatus}
      BY <2>2, PaidNotAfterSwept
    <3>2. row'.status = PaidStatus
      BY <2>2, <1>r DEF TrackPaid, DbType
    <3>3. CASE row.status = PaidStatus
      BY <3>2, <3>3, <2>2, <1>s DEF TrackPaid, Notify, IInv, NotifyInv, NotifyOnce
    <3>4. CASE row.status = "awaiting_payment"
      <4>1. notified' = [notified EXCEPT ![PaidStatus] = 1]
        <5>1. notified[PaidStatus] = 0
          BY <3>4, <1>s DEF IInv, NotifyInv
        <5>2. Notify(PaidStatus)
          BY <2>2 DEF TrackPaid
        <5> QED BY <5>1, <5>2, <3>4, <1>s DEF Notify
      <4> QED BY <4>1, <3>2, <3>4, <1>t, <1>s DEF IInv, NotifyInv, NotifyOnce
    <3> QED BY <3>1, <3>3, <3>4
  <2>3. CASE TrackSwept(wk[w].bal, Settled(w), wk[w].tx)
    <3>1. row'.status = "swept"
      BY <2>3, <1>r DEF TrackSwept, DbType
    <3>2. CASE row.status = "swept"
      BY <3>1, <3>2, <2>3 DEF TrackSwept, Notify, IInv, NotifyInv, NotifyOnce
    <3>3. CASE row.status # "swept"
      <4>1. notified' = [notified EXCEPT !["swept"] = 1]
        <5>1. notified["swept"] = 0
          BY <3>3 DEF IInv, NotifyInv
        <5>2. Notify("swept")
          BY <2>3 DEF TrackSwept
        <5> QED BY <5>1, <5>2, <3>3 DEF Notify
      <4> QED BY <4>1, <3>1, <1>t, <1>s DEF IInv, NotifyInv, NotifyOnce
    <3> QED BY <3>2, <3>3
  <2>4. CASE TrackError
    BY <2>4, <1>r DEF DbType, IInv, NotifyInv, NotifyOnce, TrackError
  <2> QED BY <1>2, <2>1, <2>2, <2>3, <2>4 DEF Served
<1>3. CASE LeaseExpires
  BY <1>3, <1>r DEF DbType, IInv, NotifyInv, NotifyOnce, LeaseExpires
<1>4. CASE Restore
  <2>1. row'.status = row.status /\ notified' = notified
    BY <1>4 DEF Restore, RestorePersistedInvoice, IInv, ReplayMatchesRow, Logged
  <2> QED BY <2>1 DEF IInv, NotifyInv, NotifyOnce
<1> QED BY <1>1, <1>2, <1>3, <1>4, DbSteps

-----------------------------------------------------------------------------
(* The chain's invariant.                                                   *)

\* Payments and blocks keep the books of the invoice address.
LEMMA ChainStep ==
    ASSUME IInv, [Next]_vars PROVE ChainInv'
<1>t. /\ received \in Nat /\ balance \in Nat
      /\ rail \in {"evm", "tron", "solana"}
      /\ txs \in [TxIds -> [amount : Nat, state : TxStates]]
  BY DEF IInv, TypeOK
<1>c. ChainInv
  BY DEF IInv
<1>r. rail' = rail
  BY ChainSteps
<1>1. CASE UNCHANGED chainVars
  BY <1>1, <1>c, <1>r DEF ChainInv, chainVars
<1>2. ASSUME NEW a \in Amounts, Pay(a) PROVE ChainInv'
  <2>1. a \in Nat /\ a > 0
    BY SweepAssumption
  <2> QED BY <1>2, <2>1, <1>t, <1>c, <1>r DEF ChainInv, Pay
<1>3. ASSUME NEW t \in TxIds, Mine(t) PROVE ChainInv'
  <2>1. txs[t].amount \in Nat /\ txs[t].state = "pending"
    BY <1>3, <1>t DEF Mine
  <2>2. CASE /\ rail # "solana" /\ balance >= txs[t].amount
             /\ balance' = balance - txs[t].amount
             /\ txs' = [txs EXCEPT ![t].state = "confirmed"]
             /\ received' = received
    <3>1. balance' <= balance
      BY <2>1, <2>2, <1>t
    <3>2. rail = "evm" => balance' < received
      BY <2>1, <2>2, <1>t, <1>c DEF ChainInv
    <3> QED BY <3>1, <3>2, <2>1, <2>2, <1>t, <1>c, <1>r DEF ChainInv
  <2>3. CASE /\ rail = "solana" /\ balance > 0
             /\ balance' = 0
             /\ txs' = [txs EXCEPT ![t] = [amount |-> balance,
                                          state |-> "confirmed"]]
             /\ received' = received
    BY <2>1, <2>3, <1>t, <1>c, <1>r DEF ChainInv
  <2>4. CASE /\ \/ rail = "evm" /\ balance < txs[t].amount
                \/ rail = "solana" /\ balance = 0
                \/ rail = "tron"
             /\ txs' = [txs EXCEPT ![t].state = "reverted"]
             /\ UNCHANGED <<balance, received>>
    BY <2>1, <2>4, <1>t, <1>c, <1>r DEF ChainInv
  <2> QED BY <1>3, <2>2, <2>3, <2>4 DEF Mine
<1>4. ASSUME NEW w \in Workers, Broadcast(w) PROVE ChainInv'
  <2>1. PICK t \in NextTx :
           txs' = [txs EXCEPT ![t] = [amount |-> SweepAmount(w),
                                     state |-> "pending"]]
    BY <1>4 DEF Broadcast
  <2>2. wk[w].bal > 0 /\ wk[w].bal <= received /\ wk[w].bal \in Nat
    BY <1>4 DEF IInv, WorkerInv, TypeOK, Broadcast, At, Busy
  <2>3. balance > 0 /\ received > 0
    BY <1>4, <2>2, <1>t, <1>c DEF Broadcast, CanBroadcast, ChainInv
  <2>4. rail = "evm" => SweepAmount(w) > 0 /\ SweepAmount(w) <= received
    BY <2>2 DEF SweepAmount
  <2> QED BY <1>4, <2>1, <2>3, <2>4, <1>t, <1>c, <1>r
          DEF ChainInv, Broadcast, NextTx
<1>5. CASE AnyoneSweeps
  <2>1. balance' \in Nat /\ balance' < balance
    BY <1>5, <1>t DEF AnyoneSweeps
  <2> QED BY <1>5, <2>1, <1>t, <1>c, <1>r DEF ChainInv, AnyoneSweeps
<1> QED BY <1>1, <1>2, <1>3, <1>4, <1>5, ChainSteps

-----------------------------------------------------------------------------
(* The workers' invariants.                                                 *)

\* The moves a worker makes, as far as its balance and transaction go.
OwnMove(w) ==
    \/ wk'[w].pc \notin Busy /\ UNCHANGED chainVars
    \/ /\ wk'[w].pc \in {"trackPaid", "claim"}
       /\ balance > 0 /\ wk'[w].bal = balance
       /\ UNCHANGED chainVars
    \/ /\ wk[w].pc \in Busy /\ wk'[w].bal = wk[w].bal
       /\ wk'[w].pc \in {"trackPaid", "paidReply", "claim", "sweep"}
       /\ UNCHANGED chainVars
    \/ /\ At(w, "trackSwept") /\ wk'[w].pc = "trackSwept"
       /\ wk'[w].bal = wk[w].bal /\ wk'[w].tx = wk[w].tx
       /\ UNCHANGED chainVars
    \/ Broadcast(w)
    \/ /\ At(w, "wait") /\ wk'[w].pc = "trackSwept"
       /\ wk'[w].bal = wk[w].bal /\ wk'[w].tx = wk[w].tx
       /\ txs[wk[w].tx].state \in {"confirmed", "reverted"}
       /\ rail = "evm" => txs[wk[w].tx].state = "confirmed"
       /\ UNCHANGED chainVars

\* Every action of a worker, and every fault that hits it, is such a move.
LEMMA OwnMoves ==
    ASSUME TypeOK, NEW w \in Workers, Tick(w) \/ WorkerFault(w)
    PROVE  OwnMove(w)
<1>t. wk \in [Workers -> WkRec]
  BY TypeParts
<1>w. wk[w] \in WkRec
  BY <1>t
<1>i. Idle.pc \notin Busy
  BY DEF Idle, Busy
<1>e. ASSUME NEW pc, NEW v, Enter(w, pc, v)
      PROVE  /\ wk'[w].pc = pc
             /\ wk'[w].bal = wk[w].bal /\ wk'[w].tx = wk[w].tx
  BY <1>e, <1>t, <1>w DEF Enter, WkRec
<1>d. Done(w) \/ Throw(w) => wk'[w].pc \notin Busy
  BY <1>t, <1>i, <1>e DEF Done, Throw, Busy
<1>g. ASSUME NEW pc, Goto(w, pc)
      PROVE  /\ wk'[w].pc = pc
             /\ wk'[w].bal = wk[w].bal /\ wk'[w].tx = wk[w].tx
  BY <1>g, <1>t, <1>w DEF Goto, WkRec
<1>a. ASSUME NEW v, AfterPaid(w, v)
      PROVE  \/ wk'[w].pc \notin Busy
             \/ wk'[w].pc \in {"sweep", "claim"} /\ wk'[w].bal = wk[w].bal
  BY <1>a, <1>d, <1>e DEF AfterPaid
<1>r. ASSUME NEW v, Retry(w, v)
      PROVE  \/ wk'[w].pc \notin Busy
             \/ /\ At(w, "trackPaid") /\ wk'[w].pc = "sweep"
                /\ wk'[w].bal = wk[w].bal
             \/ /\ wk'[w].pc = wk[w].pc
                /\ wk'[w].bal = wk[w].bal /\ wk'[w].tx = wk[w].tx
  <2>1. CASE wk' = [wk EXCEPT ![w].ver = v, ![w].att = @ + 1]
    BY <2>1, <1>t, <1>w DEF WkRec
  <2>2. CASE GiveUp(w)
    BY <2>2, <1>d, <1>e DEF GiveUp
  <2> QED BY <1>r, <2>1, <2>2 DEF Retry
<1>1. CASE FetchInvoices(w)
  BY <1>1, <1>t DEF FetchInvoices, OwnMove, Idle, Busy
<1>2. CASE PrepareInvoice(w)
  <2>1. CASE Done(w)
    BY <1>2, <2>1, <1>d DEF PrepareInvoice, OwnMove
  <2>2. CASE /\ balance > 0
             /\ \E q \in {"trackPaid", "claim"} :
                  wk' = [wk EXCEPT ![w].pc = q, ![w].bal = balance,
                                  ![w].ver = wk[w].listed]
    BY <1>2, <2>2, <1>t, <1>w DEF PrepareInvoice, OwnMove, WkRec
  <2> QED BY <1>2, <2>1, <2>2 DEF PrepareInvoice
<1>3. CASE TrackPaidServed(w)
  BY <1>3, <1>g DEF TrackPaidServed, OwnMove, At, Busy
<1>4. CASE PaidReply(w)
  BY <1>4, <1>a DEF PaidReply, OwnMove, At, Busy
<1>5. CASE ClaimServed(w)
  <2>1. wk'[w].pc \in {"sweep", "trackPaid"} /\ wk'[w].bal = wk[w].bal
    BY <1>5, <1>t, <1>w DEF ClaimServed, WkRec
  <2> QED BY <1>5, <2>1 DEF ClaimServed, OwnMove, At, Busy
<1>6. ASSUME wk[w].pc \in Calls, UNCHANGED chainVars,
             NEW v, Retry(w, v)
      PROVE  OwnMove(w)
  BY <1>6, <1>r DEF OwnMove, At, Busy, Calls
<1>7. CASE Conflict(w)
  <2>1. wk[w].pc \in Calls /\ UNCHANGED chainVars
    BY <1>7 DEF Conflict, Refused, At, Calls
  <2>2. CASE Retry(w, row.version)
    BY <2>1, <2>2, <1>6
  <2>3. CASE At(w, "trackPaid") /\ AfterPaid(w, row.version)
    BY <2>1, <2>3, <1>a DEF OwnMove, At, Busy
  <2>4. CASE Done(w)
    BY <2>1, <2>4, <1>d DEF OwnMove
  <2> QED BY <1>7, <2>2, <2>3, <2>4 DEF Conflict, AfterConflict
<1>8. CASE Broadcast(w)
  BY <1>8 DEF OwnMove
<1>9. CASE SweepRefused(w)
  BY <1>9, <1>d DEF SweepRefused, OwnMove
<1>10. CASE Receipt(w)
  BY <1>10, <1>d, <1>g DEF Receipt, AfterReceipt, OwnMove
<1>11. CASE TrackSweptServed(w)
  BY <1>11, <1>d DEF TrackSweptServed, OwnMove
<1>12. CASE TrackErrorServed(w)
  BY <1>12, <1>d DEF TrackErrorServed, OwnMove
<1>13. CASE RpcFails(w) \/ ReceiptLost(w) \/ RequestLost(w) \/ ReplyLost(w)
            \/ Crash(w)
  BY <1>13, <1>d DEF RpcFails, ReceiptLost, RequestLost, ReplyLost, Crash,
     OwnMove
<1>14. CASE ServerBusy(w)
  BY <1>14, <1>6 DEF ServerBusy
<1> QED BY <1>1, <1>2, <1>3, <1>4, <1>5, <1>7, <1>8, <1>9, <1>10, <1>11,
           <1>12, <1>13, <1>14 DEF Tick, WorkerFault

\* What Broadcast leaves behind: a pending transaction nobody else knows.
LEMMA BroadcastStep ==
    ASSUME TypeOK, NEW w \in Workers, Broadcast(w)
    PROVE  \E t \in TxIds :
              /\ txs[t].state = "unsent"
              /\ txs' = [txs EXCEPT ![t] = [amount |-> SweepAmount(w),
                                            state |-> "pending"]]
              /\ wk'[w].tx = t /\ wk'[w].bal = wk[w].bal
              /\ wk'[w].pc = IF rail = "tron" THEN "trackSwept" ELSE "wait"
<1>t. wk \in [Workers -> WkRec] /\ wk[w] \in WkRec
  BY TypeParts
<1>1. PICK t \in NextTx :
        /\ txs' = [txs EXCEPT ![t] = [amount |-> SweepAmount(w),
                                      state |-> "pending"]]
        /\ wk' = [wk EXCEPT ![w].tx = t,
                            ![w].pc = IF rail = "tron" THEN "trackSwept"
                                      ELSE "wait"]
  BY DEF Broadcast
<1>2. t \in TxIds /\ txs[t].state = "unsent"
  BY DEF NextTx
<1>3. /\ wk'[w].tx = t /\ wk'[w].bal = wk[w].bal
      /\ wk'[w].pc = IF rail = "tron" THEN "trackSwept" ELSE "wait"
  BY <1>1, <1>t DEF WkRec
<1> QED BY <1>1, <1>2, <1>3

\* A worker that waits for a sweep, or reports it, broadcast it.
LEMMA TxStep ==
    ASSUME TypeOK, TxInv, [Next]_vars PROVE TxInv'
<1>1. CASE wk' = wk
  BY <1>1 DEF TxInv, TxIds
<1>2. CASE Restore
  BY <1>2 DEF TxInv, Restore, Idle
<1>3. ASSUME NEW w \in Workers, Tick(w) \/ WorkerFault(w),
             \A u \in Workers \ {w} : wk'[u] = wk[u]
      PROVE  TxInv'
  <2>1. OwnMove(w)
    BY <1>3, OwnMoves
  <2>2. wk'[w].pc \in {"wait", "trackSwept"} => wk'[w].tx \in TxIds
    <3>1. CASE Broadcast(w)
      BY <3>1, BroadcastStep
    <3>2. CASE ~Broadcast(w)
      <4>1. wk[w].pc \in {"wait", "trackSwept"} => wk[w].tx \in TxIds
        BY DEF TxInv
      <4> QED BY <2>1, <3>2, <4>1 DEF OwnMove, At, Busy
    <3> QED BY <3>1, <3>2
  <2> QED BY <1>3, <2>2 DEF TxInv, TxIds
<1> QED BY <1>1, <1>2, <1>3, WkSteps

\* A worker's balance was really received, and its sweep is what it says.
WorkerOK(u) ==
    /\ wk[u].pc \in Busy => wk[u].bal > 0 /\ wk[u].bal <= received
    /\ wk[u].pc \in {"wait", "trackSwept"} =>
          /\ txs[wk[u].tx].state # "unsent"
          /\ rail = "evm" => txs[wk[u].tx].amount = wk[u].bal
    /\ At(u, "trackSwept") /\ rail # "tron" =>
          txs[wk[u].tx].state \in {"confirmed", "reverted"}
    /\ At(u, "trackSwept") /\ rail = "evm" =>
          txs[wk[u].tx].state = "confirmed"

\* Payments, blocks and the other workers' broadcasts cannot unsettle what a
\* worker holds.
LEMMA WorkerFrame ==
    ASSUME IInv, [Next]_vars, NEW u \in Workers, wk'[u] = wk[u]
    PROVE  WorkerOK(u)'
<1>t. /\ received \in Nat
      /\ txs \in [TxIds -> [amount : Nat, state : TxStates]]
      /\ wk[u].bal \in Nat
  BY DEF IInv, TypeOK
<1>u. /\ WorkerOK(u)
      /\ wk[u].pc \in {"wait", "trackSwept"} => wk[u].tx \in TxIds
  BY DEF IInv, WorkerInv, WorkerOK, TxInv
<1>r. rail' = rail
  BY ChainSteps
<1>1. CASE UNCHANGED chainVars
  BY <1>1, <1>u, <1>r DEF WorkerOK, At, chainVars
<1>2. ASSUME NEW a \in Amounts, Pay(a) PROVE WorkerOK(u)'
  <2>1. received' >= received /\ received' \in Nat
    BY <1>2, <1>t, SweepAssumption DEF Pay
  <2>2. wk[u].pc \in Busy => wk[u].bal > 0 /\ wk[u].bal <= received'
    BY <2>1, <1>t, <1>u DEF WorkerOK
  <2> QED BY <1>2, <2>2, <1>u, <1>r DEF WorkerOK, At, Pay
<1>3. ASSUME NEW t \in TxIds, Mine(t) PROVE WorkerOK(u)'
  <2>1. /\ txs[t].state = "pending"
        /\ \A s \in TxIds \ {t} : txs'[s] = txs[s]
        /\ txs'[t].state \in {"confirmed", "reverted"}
        /\ rail = "evm" => txs'[t].amount = txs[t].amount
        /\ received' = received
    BY <1>3, <1>t DEF Mine
  <2> QED BY <2>1, <1>u, <1>r DEF WorkerOK, At
<1>4. ASSUME NEW w \in Workers, Broadcast(w) PROVE WorkerOK(u)'
  <2>1. PICK t \in TxIds :
          /\ txs[t].state = "unsent"
          /\ txs' = [txs EXCEPT ![t] = [amount |-> SweepAmount(w),
                                        state |-> "pending"]]
    BY <1>4, BroadcastStep DEF IInv
  <2>2. received' = received
    BY <1>4 DEF Broadcast
  <2> QED BY <2>1, <2>2, <1>t, <1>u, <1>r DEF WorkerOK, At
<1>5. CASE AnyoneSweeps
  BY <1>5, <1>u, <1>r DEF WorkerOK, At, AnyoneSweeps
<1> QED BY <1>1, <1>2, <1>3, <1>4, <1>5, ChainSteps

\* No worker acts on money that was not received or on a sweep that is not
\* its own.
LEMMA WorkerStep ==
    ASSUME IInv, [Next]_vars PROVE WorkerInv'
<1> SUFFICES ASSUME NEW u \in Workers PROVE WorkerOK(u)'
  BY DEF WorkerInv, WorkerOK
<1>t. /\ received \in Nat /\ balance \in Nat /\ balance <= received
      /\ txs \in [TxIds -> [amount : Nat, state : TxStates]]
      /\ wk[u].bal \in Nat
  BY DEF IInv, TypeOK, ChainInv
<1>u. /\ WorkerOK(u)
      /\ wk[u].pc \in {"wait", "trackSwept"} => wk[u].tx \in TxIds
  BY DEF IInv, WorkerInv, WorkerOK, TxInv
<1>r. rail' = rail
  BY ChainSteps
<1>1. CASE wk'[u] = wk[u]
  BY <1>1, WorkerFrame
<1>2. CASE Restore
  BY <1>2 DEF Restore, WorkerOK, At, Idle, Busy
<1>3. CASE Tick(u) \/ WorkerFault(u)
  <2>1. OwnMove(u)
    BY <1>3, OwnMoves DEF IInv
  <2>2. CASE Broadcast(u)
    <3>1. PICK t \in TxIds :
            /\ txs' = [txs EXCEPT ![t] = [amount |-> SweepAmount(u),
                                          state |-> "pending"]]
            /\ wk'[u].tx = t /\ wk'[u].bal = wk[u].bal
            /\ wk'[u].pc = IF rail = "tron" THEN "trackSwept" ELSE "wait"
      BY <2>2, BroadcastStep DEF IInv
    <3>2. txs'[t] = [amount |-> SweepAmount(u), state |-> "pending"]
      BY <3>1, <1>t
    <3>3. wk[u].bal > 0 /\ wk[u].bal <= received /\ received' = received
      BY <2>2, <1>u DEF Broadcast, WorkerOK, At, Busy
    <3> QED BY <3>1, <3>2, <3>3, <1>r DEF WorkerOK, At, SweepAmount
  <2>3. CASE /\ ~Broadcast(u)
             /\ wk'[u].pc \notin {"wait", "trackSwept"}
    BY <2>1, <2>3, <1>t, <1>u DEF OwnMove, WorkerOK, At, Busy, chainVars
  <2>4. CASE /\ ~Broadcast(u)
             /\ wk'[u].pc \in {"wait", "trackSwept"}
    BY <2>1, <2>4, <1>t, <1>u, <1>r DEF OwnMove, WorkerOK, At, Busy, chainVars
  <2> QED BY <2>2, <2>3, <2>4
<1> QED BY <1>1, <1>2, <1>3, WkSteps DEF IInv

-----------------------------------------------------------------------------
(* Optimistic locking.                                                      *)

\* The version half of VersionInv, of one worker.
VersionOK(u) ==
    /\ wk[u].listed <= row.version
    /\ At(u, "prepare") /\ wk[u].listed = row.version => row.status # "swept"
    /\ Carries(u) =>
          /\ wk[u].ver <= row.version
          /\ wk[u].ver = row.version => row.status # "swept"

\* Every write but a restore either keeps status and version, or moves to a
\* version nobody has seen.
LEMMA VersionGrows ==
    ASSUME TypeOK, [Next]_vars, ~Restore
    PROVE  \/ row'.status = row.status /\ row'.version = row.version
           \/ row'.version = row.version + 1
<1>t. DbType
  BY TypeParts
<1>1. CASE UNCHANGED dbVars
  BY <1>1 DEF dbVars
<1>2. ASSUME NEW w \in Workers, Served(w)
      PROVE  row'.version = row.version + 1
  <2>1. ClaimInvoice(w) => row'.version = row.version + 1
    BY <1>t DEF DbType, ClaimInvoice
  <2>2. TrackPaid(wk[w].bal) => row'.version = row.version + 1
    BY <1>t DEF DbType, TrackPaid
  <2>3. TrackSwept(wk[w].bal, Settled(w), wk[w].tx)
          => row'.version = row.version + 1
    BY <1>t DEF DbType, TrackSwept
  <2>4. TrackError => row'.version = row.version + 1
    BY <1>t DEF DbType, TrackError
  <2> QED BY <1>2, <2>1, <2>2, <2>3, <2>4 DEF Served
<1>3. CASE LeaseExpires
  BY <1>3, <1>t DEF LeaseExpires, DbType
<1> QED BY <1>1, <1>2, <1>3, DbSteps

\* A worker that did not move keeps its promise about its version.
LEMMA VersionFrame ==
    ASSUME IInv, [Next]_vars, ~Restore, NEW u \in Workers, wk'[u] = wk[u]
    PROVE  VersionOK(u)'
<1>1. row.version \in Nat /\ wk[u].listed \in Nat /\ wk[u].ver \in Nat
  BY DEF IInv, TypeOK
<1>2. VersionOK(u) /\ rail' = rail
  BY ChainSteps DEF IInv, VersionInv, VersionOK
<1>3. \/ row'.status = row.status /\ row'.version = row.version
      \/ row'.version = row.version + 1
  BY VersionGrows DEF IInv
<1> QED BY <1>1, <1>2, <1>3 DEF VersionOK, Carries, At

\* A worker that moved holds no version, the one it held, or one it read
\* together with a row not yet swept.
VersionMove(w) ==
    \/ ~Carries(w)' /\ ~At(w, "prepare")'
    \/ Carries(w) /\ wk'[w].ver = wk[w].ver /\ row' = row
       /\ ~At(w, "prepare")'
    \/ At(w, "prepare") /\ wk'[w].ver = wk[w].listed /\ row' = row
       /\ ~At(w, "prepare")'
    \/ wk'[w].ver = row'.version /\ row'.status # "swept"
       /\ ~At(w, "prepare")'
    \/ wk'[w].listed = row'.version /\ row'.status # "swept" /\ ~Carries(w)'

\* Every action of a worker, and every fault that hits it, is such a move.
LEMMA VersionMoves ==
    ASSUME IInv, NEW w \in Workers, Tick(w) \/ WorkerFault(w)
    PROVE  VersionMove(w) /\ (wk'[w].listed \in {0, wk[w].listed, row.version})
<1>t. wk \in [Workers -> WkRec] /\ wk[w] \in WkRec /\ DbType
  BY TypeParts DEF IInv
<1>r. rail' = rail
  BY ChainSteps DEF Next
<1>s. row.status \in Listed => row.status # "swept"
  BY DEF Listed
<1> DEFINE L == wk'[w].listed \in {0, wk[w].listed, row.version}
<1>e. ASSUME NEW pc, NEW v, Enter(w, pc, v)
      PROVE  wk'[w].pc = pc /\ wk'[w].ver = v /\ wk'[w].listed = wk[w].listed
  BY <1>e, <1>t DEF Enter, WkRec
<1>d. ASSUME Done(w) \/ Throw(w)
      PROVE  ~Carries(w)' /\ ~At(w, "prepare")' /\ L
  BY <1>d, <1>t, <1>e DEF Done, Throw, Carries, At, Idle
<1>a. ASSUME NEW v, AfterPaid(w, v)
      PROVE  ~Carries(w)' /\ ~At(w, "prepare")' /\ L
  BY <1>a, <1>d, <1>e, <1>r DEF AfterPaid, Carries, At
<1>g. ASSUME GiveUp(w)
      PROVE  ~Carries(w)' /\ ~At(w, "prepare")' /\ L
  BY <1>g, <1>d, <1>e, <1>r DEF GiveUp, Carries, At
<1>v. ASSUME wk[w].pc \in Calls, NEW v,
             wk' = [wk EXCEPT ![w].ver = v, ![w].att = @ + 1]
      PROVE  /\ wk'[w].pc = wk[w].pc /\ wk'[w].ver = v /\ L
             /\ ~At(w, "prepare")'
  BY <1>v, <1>t DEF WkRec, At, Calls
<1>1. CASE FetchInvoices(w)
  <2>1. row' = row /\ row.status # "swept"
    BY <1>1, <1>s DEF FetchInvoices, dbVars
  <2>2. wk'[w].pc = "prepare" /\ wk'[w].listed = row.version
    BY <1>1, <1>t DEF FetchInvoices, Idle
  <2> QED BY <2>1, <2>2 DEF VersionMove, Carries, At
<1>2. CASE PrepareInvoice(w)
  <2>1. CASE Done(w)
    BY <2>1, <1>d DEF VersionMove
  <2>2. CASE \E q \in {"trackPaid", "claim"} :
                  wk' = [wk EXCEPT ![w].pc = q, ![w].bal = balance,
                                  ![w].ver = wk[w].listed]
    <3>1. /\ wk'[w].pc \in {"trackPaid", "claim"}
          /\ wk'[w].ver = wk[w].listed /\ wk'[w].listed = wk[w].listed
      BY <2>2, <1>t DEF WkRec
    <3> QED BY <3>1, <1>2 DEF PrepareInvoice, VersionMove, At, dbVars
  <2> QED BY <1>2, <2>1, <2>2 DEF PrepareInvoice
<1>3. CASE TrackPaidServed(w)
  <2>1. wk'[w].pc = "paidReply" /\ L
    BY <1>3, <1>t DEF TrackPaidServed, Goto, WkRec
  <2> QED BY <2>1 DEF VersionMove, Carries, At
<1>4. CASE PaidReply(w)
  BY <1>4, <1>a DEF PaidReply, VersionMove
<1>5. CASE ClaimServed(w)
  <2>1. /\ wk'[w].ver = row.version + 1 /\ L
        /\ wk'[w].pc \in {"sweep", "trackPaid"}
    BY <1>5, <1>t DEF ClaimServed, WkRec
  <2>2. row'.version = row.version + 1 /\ row'.status = row.status
    BY <1>5, <1>t DEF ClaimServed, ClaimInvoice, DbType
  <2>3. row.status # "swept"
    BY <1>5, <1>s DEF ClaimServed, ClaimAllowed
  <2> QED BY <2>1, <2>2, <2>3 DEF VersionMove, At
<1>6. CASE Conflict(w)
  <2>1. wk[w].pc \in Calls /\ row' = row
    BY <1>6 DEF Conflict, Refused, At, Calls, dbVars
  <2>2. CASE row.status # "swept" /\ wk' = [wk EXCEPT ![w].ver = row.version,
                                                    ![w].att = @ + 1]
    BY <2>1, <2>2, <1>v DEF VersionMove
  <2>3. CASE GiveUp(w) \/ Done(w) \/ AfterPaid(w, row.version)
    BY <2>3, <1>a, <1>d, <1>g DEF VersionMove
  <2> QED BY <1>6, <2>2, <2>3 DEF Conflict, AfterConflict, Retry
<1>7. CASE Broadcast(w)
  <2>1. PICK t \in NextTx :
          wk' = [wk EXCEPT ![w].tx = t,
                           ![w].pc = IF rail = "tron" THEN "trackSwept"
                                     ELSE "wait"]
    BY <1>7 DEF Broadcast
  <2>2. /\ wk'[w].ver = wk[w].ver /\ L
        /\ wk'[w].pc = IF rail = "tron" THEN "trackSwept" ELSE "wait"
    BY <2>1, <1>t DEF WkRec
  <2>3. At(w, "sweep") /\ row' = row
    BY <1>7 DEF Broadcast, dbVars
  <2> QED BY <2>2, <2>3, <1>r DEF VersionMove, Carries, At
<1>8. CASE Receipt(w)
  <2>1. At(w, "wait") /\ row' = row
    BY <1>8 DEF Receipt, dbVars
  <2>2. CASE Goto(w, "trackSwept")
    <3>1. /\ wk'[w].ver = wk[w].ver /\ L
          /\ wk'[w].pc = "trackSwept"
      BY <2>2, <1>t DEF Goto, WkRec
    <3> QED BY <2>1, <3>1, <1>r DEF VersionMove, Carries, At
  <2>3. CASE Throw(w)
    BY <2>3, <1>d DEF VersionMove
  <2> QED BY <1>8, <2>2, <2>3 DEF Receipt, AfterReceipt
<1>9. CASE SweepRefused(w) \/ TrackSweptServed(w) \/ TrackErrorServed(w)
  BY <1>9, <1>d DEF SweepRefused, TrackSweptServed, TrackErrorServed,
     VersionMove
<1>10. CASE RpcFails(w) \/ ReceiptLost(w) \/ RequestLost(w) \/ ReplyLost(w)
            \/ Crash(w)
  BY <1>10, <1>d DEF RpcFails, ReceiptLost, RequestLost, ReplyLost, Crash,
     VersionMove
<1>11. CASE ServerBusy(w)
  <2>1. wk[w].pc \in Calls /\ row' = row
    BY <1>11 DEF ServerBusy, dbVars
  <2>2. CASE wk' = [wk EXCEPT ![w].ver = wk[w].ver, ![w].att = @ + 1]
    BY <2>1, <2>2, <1>v, <1>r DEF VersionMove, Carries, At
  <2>3. CASE GiveUp(w)
    BY <2>3, <1>g DEF VersionMove
  <2> QED BY <1>11, <2>2, <2>3 DEF ServerBusy, Retry
<1> QED BY <1>1, <1>2, <1>3, <1>4, <1>5, <1>6, <1>7, <1>8, <1>9, <1>10,
           <1>11 DEF Tick, WorkerFault

\* A version that still matches was read with a row not yet swept.
LEMMA VersionStep ==
    ASSUME IInv, [Next]_vars PROVE VersionInv'
<1> SUFFICES ASSUME NEW u \in Workers PROVE VersionOK(u)'
  BY DEF VersionInv, VersionOK
<1>1. CASE Restore
  BY <1>1 DEF Restore, RestorePersistedInvoice, VersionOK, Carries, At, Idle
<1>2. CASE ~Restore /\ wk'[u] = wk[u]
  BY <1>2, VersionFrame
<1>3. CASE ~Restore /\ (Tick(u) \/ WorkerFault(u))
  <2>1. /\ VersionMove(u)
        /\ wk'[u].listed \in {0, wk[u].listed, row.version}
    BY <1>3, VersionMoves
  <2>2. \/ row'.status = row.status /\ row'.version = row.version
        \/ row'.version = row.version + 1
    BY <1>3, VersionGrows DEF IInv
  <2>3. /\ row.version \in Nat /\ row'.version \in Nat
        /\ wk[u].listed \in Nat /\ wk[u].ver \in Nat
    BY <2>2 DEF IInv, TypeOK
  <2>4. VersionOK(u)
    BY DEF IInv, VersionInv, VersionOK
  <2>5. wk'[u].listed <= row'.version
    BY <2>1, <2>2, <2>3, <2>4 DEF VersionOK
  <2> QED BY <2>1, <2>3, <2>4, <2>5 DEF VersionMove, VersionOK, At
<1> QED BY <1>1, <1>2, <1>3, WkSteps DEF IInv

-----------------------------------------------------------------------------
(* The row against the chain.                                               *)

\* A swept row keeps its confirmed transaction and its paid amount whatever
\* happens on the chain.
LEMMA RowFrame ==
    ASSUME IInv, [Next]_vars, Logged(row') = Logged(row)
    PROVE  RowInv'
<1>t. /\ received \in Nat /\ balance \in Nat /\ row.amountPaid \in Nat
      /\ txs \in [TxIds -> [amount : Nat, state : TxStates]]
      /\ balance <= received
  BY DEF IInv, TypeOK, ChainInv
<1>i. RowInv
  BY DEF IInv
<1>l. /\ row'.status = row.status /\ row'.amountPaid = row.amountPaid
      /\ row'.amountSwept = row.amountSwept /\ row'.sweepTx = row.sweepTx
  BY DEF Logged
<1>r. rail' = rail
  BY ChainSteps
<1> DEFINE R == row.status \in {"awaiting_payment", PaidStatus, "swept"}
<1>1. CASE UNCHANGED chainVars
  BY <1>1, <1>i, <1>l, <1>r
     DEF RowInv, PaidIsBacked, SweptTxConfirmed, chainVars, PaidStatus, TxIds
<1>2. ASSUME NEW a \in Amounts, Pay(a) PROVE RowInv'
  <2>1. a \in Nat /\ received' = received + a /\ balance' = balance + a
        /\ txs' = txs
    BY <1>2, SweepAssumption DEF Pay
  <2>2. PaidIsBacked'
    BY <2>1, <1>t, <1>i, <1>l DEF RowInv, PaidIsBacked
  <2>3. SweptTxConfirmed'
    BY <2>1, <1>i, <1>l, <1>r DEF RowInv, SweptTxConfirmed, TxIds
  <2> QED BY <2>1, <2>2, <2>3, <1>t, <1>i, <1>l, <1>r DEF RowInv, PaidStatus
<1>3. ASSUME NEW t \in TxIds, Mine(t) PROVE RowInv'
  <2>1. /\ txs[t].state = "pending" /\ received' = received
        /\ \A s \in TxIds \ {t} : txs'[s] = txs[s]
        /\ balance' <= balance /\ balance' \in Nat
    BY <1>3, <1>t DEF Mine
  <2>2. PaidIsBacked'
    BY <2>1, <1>i, <1>l DEF RowInv, PaidIsBacked
  <2>3. SweptTxConfirmed'
    BY <2>1, <1>i, <1>l, <1>r DEF RowInv, SweptTxConfirmed, TxIds
  <2> QED BY <2>1, <2>2, <2>3, <1>t, <1>i, <1>l, <1>r DEF RowInv, PaidStatus
<1>4. ASSUME NEW w \in Workers, Broadcast(w) PROVE RowInv'
  <2>1. PICK t \in TxIds :
          /\ txs[t].state = "unsent"
          /\ txs' = [txs EXCEPT ![t] = [amount |-> SweepAmount(w),
                                        state |-> "pending"]]
    BY <1>4, BroadcastStep DEF IInv
  <2>2. received' = received /\ balance' = balance
    BY <1>4 DEF Broadcast
  <2>3. PaidIsBacked'
    BY <2>2, <1>i, <1>l DEF RowInv, PaidIsBacked
  <2>4. SweptTxConfirmed'
    BY <2>1, <1>t, <1>i, <1>l, <1>r DEF RowInv, SweptTxConfirmed, TxIds
  <2> QED BY <2>2, <2>3, <2>4, <1>i, <1>l, <1>r DEF RowInv, PaidStatus
<1>5. CASE AnyoneSweeps
  <2>1. /\ received' = received /\ txs' = txs
        /\ balance' \in Nat /\ balance' < balance
    BY <1>5, <1>t DEF AnyoneSweeps
  <2>2. PaidIsBacked' /\ SweptTxConfirmed'
    BY <2>1, <1>i, <1>l, <1>r DEF RowInv, PaidIsBacked, SweptTxConfirmed, TxIds
  <2> QED BY <2>1, <2>2, <1>t, <1>i, <1>l, <1>r DEF RowInv, PaidStatus
<1> QED BY <1>1, <1>2, <1>3, <1>4, <1>5, ChainSteps

\* Nor does an accepted report write anything the chain does not bear out.
LEMMA RowStep ==
    ASSUME IInv, [Next]_vars PROVE RowInv'
<1>t. DbType
  BY TypeParts DEF IInv
<1>i. RowInv
  BY DEF IInv
<1>1. CASE UNCHANGED dbVars
  BY <1>1, RowFrame DEF dbVars, Logged
<1>2. CASE LeaseExpires
  BY <1>2, <1>t, RowFrame DEF LeaseExpires, DbType, Logged
<1>3. CASE Restore
  <2>1. row'.status = row.status /\ row'.amountPaid = row.amountPaid
        /\ row'.amountSwept = row.amountSwept /\ row'.sweepTx = row.sweepTx
    BY <1>3 DEF Restore, RestorePersistedInvoice, IInv, ReplayMatchesRow,
       Logged
  <2> QED BY <2>1, RowFrame DEF Logged
<1>4. ASSUME NEW w \in Workers, Served(w), UNCHANGED chainVars PROVE RowInv'
  <2>1. CASE ClaimInvoice(w)
    BY <2>1, <1>t, RowFrame DEF ClaimInvoice, DbType, Logged
  <2>2. CASE TrackError
    BY <2>2, <1>t, RowFrame DEF TrackError, DbType, Logged
  <2>s. PaidStatus # "awaiting_payment" /\ PaidStatus # "swept"
    BY DEF PaidStatus
  <2>w. /\ received' = received /\ balance' = balance /\ txs' = txs
        /\ rail' = rail
    BY <1>4, ChainSteps DEF chainVars
  <2>o. /\ wk[w].pc \in Busy => wk[w].bal > 0 /\ wk[w].bal <= received
        /\ At(w, "trackSwept") => wk[w].tx \in TxIds
        /\ WorkerOK(w)
    BY DEF IInv, WorkerInv, WorkerOK, TxInv, At
  <2>3. CASE At(w, "trackPaid") /\ TrackPaid(wk[w].bal)
    <3>1. row'.status = PaidStatus /\ row'.amountPaid = wk[w].bal
      BY <2>3, <1>t DEF TrackPaid, DbType
    <3> QED BY <2>3, <3>1, <2>s, <2>w, <2>o
            DEF RowInv, PaidIsBacked, SweptTxConfirmed, At, Busy, PaidStatus
  <2>4. CASE At(w, "trackSwept") /\ TrackSwept(wk[w].bal, Settled(w), wk[w].tx)
    <3>1. /\ row'.status = "swept" /\ row'.amountPaid = wk[w].bal
          /\ row'.amountSwept = Settled(w) /\ row'.sweepTx = wk[w].tx
      BY <2>4, <1>t DEF TrackSwept, DbType
    <3>2. PaidIsBacked'
      BY <2>4, <3>1, <2>w, <2>o DEF PaidIsBacked, At, Busy
    <3>3. SweptTxConfirmed'
      <4>1. CASE rail = "evm"
        <5>1. txs[wk[w].tx] \in [amount : Nat, state : TxStates]
          BY <2>4, <2>o DEF IInv, TypeOK
        <5>2. /\ txs[wk[w].tx].state = "confirmed"
              /\ txs[wk[w].tx].amount = wk[w].bal
          BY <2>4, <2>o, <4>1 DEF WorkerOK, At
        <5>3. txs[wk[w].tx] = [amount |-> wk[w].bal, state |-> "confirmed"]
          BY <5>1, <5>2
        <5> QED BY <2>4, <3>1, <4>1, <5>3, <2>w, <2>o
                DEF SweptTxConfirmed, Settled, TxIds
      <4>2. CASE rail # "evm"
        BY <4>2, <2>w DEF SweptTxConfirmed
      <4> QED BY <4>1, <4>2
    <3>4. rail # "tron" => balance < received
      BY <2>4, <2>o DEF WorkerOK, At, IInv, ChainInv
    <3> QED BY <3>1, <3>2, <3>3, <3>4, <2>w DEF RowInv
  <2> QED BY <1>4, <2>1, <2>2, <2>3, <2>4 DEF Served
<1> QED BY <1>1, <1>2, <1>3, <1>4, DbSteps

\* The lease of a swept row is gone, and stays gone.
LEMMA LeaseStep ==
    ASSUME IInv, [Next]_vars PROVE LeaseInv'
<1>t. DbType /\ LeaseInv
  BY TypeParts DEF IInv
<1>1. CASE UNCHANGED dbVars
  BY <1>1, <1>t DEF LeaseInv, dbVars
<1>2. CASE LeaseExpires
  BY <1>2, <1>t DEF LeaseInv, DbType, LeaseExpires
<1>3. CASE Restore
  BY <1>3 DEF LeaseInv, Restore, RestorePersistedInvoice
<1>4. ASSUME NEW w \in Workers, Served(w) PROVE LeaseInv'
  <2>1. ClaimAllowed(w, wk[w].ver) /\ ClaimInvoice(w) => LeaseInv'
    BY <1>t DEF LeaseInv, DbType, ClaimAllowed, ClaimInvoice, Listed
  <2>2. TrackPaid(wk[w].bal) => LeaseInv'
    BY <1>t DEF LeaseInv, DbType, TrackPaid, PaidStatus
  <2>3. TrackSwept(wk[w].bal, Settled(w), wk[w].tx) => LeaseInv'
    BY <1>t DEF LeaseInv, DbType, TrackSwept
  <2>4. TrackError => LeaseInv'
    BY <1>t DEF LeaseInv, DbType, TrackError
  <2> QED BY <1>4, <2>1, <2>2, <2>3, <2>4 DEF Served
<1> QED BY <1>1, <1>2, <1>3, <1>4, DbSteps

-----------------------------------------------------------------------------
(* Theorems.                                                                *)

\* The inductive invariant holds when the invoice is created.
LEMMA IInvInit == Init => IInv
<1> SUFFICES ASSUME Init PROVE IInv
  OBVIOUS
<1>1. TypeOK
  BY TypeInit
<1>2. /\ row = CreatedRow /\ replayed = Logged(CreatedRow)
      /\ wk = [w \in Workers |-> Idle] /\ received = 0 /\ balance = 0
      /\ txs = [t \in TxIds |-> [amount |-> 0, state |-> "unsent"]]
      /\ notified = [s \in PaidLike |-> 0]
  BY DEF Init, DbInit
<1>3. TxInv /\ WorkerInv
  BY <1>2 DEF TxInv, WorkerInv, Idle, At, Busy
<1>4. VersionInv
  <2>1. row.version = 1 /\ row.status = "awaiting_payment"
    BY <1>2 DEF CreatedRow
  <2>2. \A w \in Workers : wk[w].pc = "idle" /\ wk[w].listed = 0
    BY <1>2 DEF Idle
  <2>3. \A w \in Workers : ~At(w, "prepare") /\ ~Carries(w)
    BY <2>2 DEF At, Carries
  <2>4. ASSUME NEW w \in Workers PROVE wk[w].listed <= row.version
    <3>1. wk[w].listed = 0 /\ row.version = 1
      BY <2>1, <2>2
    <3> QED BY <3>1
  <2> QED BY <2>3, <2>4 DEF VersionInv
<1>5. ChainInv
  BY <1>2 DEF ChainInv
<1>6. RowInv
  BY <1>2 DEF RowInv, PaidIsBacked, SweptTxConfirmed, CreatedRow
<1>7. NotifyInv /\ ReplayMatchesRow
  <2>1. "swept" \in PaidLike
    BY DEF PaidLike
  <2> QED BY <1>2, <2>1 DEF NotifyInv, NotifyOnce, ReplayMatchesRow
<1>8. LeaseInv
  BY <1>2 DEF LeaseInv, CreatedRow
<1>9. rail \in Rails
  BY DEF Init
<1> QED BY <1>1, <1>3, <1>4, <1>5, <1>6, <1>7, <1>8, <1>9 DEF IInv

\* Every step of the payers, the chain, the server, the workers and the
\* faults preserves the inductive invariant.
LEMMA IInvStep == IInv /\ [Next]_vars => IInv'
<1> SUFFICES ASSUME IInv, [Next]_vars PROVE IInv'
  OBVIOUS
<1>1. TypeOK' /\ TxInv'
  BY TypeStep, TxStep DEF IInv
<1>2. rail' \in Rails
  BY ChainSteps DEF IInv
<1> QED BY <1>1, <1>2, ReplayStep, VersionStep, ChainStep, WorkerStep,
           RowStep, LeaseStep, NotifyStep DEF IInv

\* Whatever the workers, the payments, the retries and the faults, the
\* pipeline stays within the inductive invariant.
THEOREM Invariance == Spec => []IInv
BY IInvInit, IInvStep, PTL DEF Spec

\* Row, log, chain and workers are well typed in every reachable state.
THEOREM TypeCorrect == Spec => []TypeOK
<1>1. IInv => TypeOK
  BY DEF IInv
<1> QED BY <1>1, Invariance, PTL

\* No EVM invoice is reported swept without its confirmed transaction.
THEOREM SweptIsConfirmed == Spec => []SweptTxConfirmed
<1>1. IInv => SweptTxConfirmed
  BY DEF IInv, RowInv
<1> QED BY <1>1, Invariance, PTL

\* No invoice records more money than payers sent, none is marked for none.
THEOREM PaymentsAreReal == Spec => []PaidIsBacked
<1>1. IInv => PaidIsBacked
  BY DEF IInv, RowInv
<1> QED BY <1>1, Invariance, PTL

\* The persist log can always restore the row.
THEOREM LogRestoresRow == Spec => []ReplayMatchesRow
<1>1. IInv => ReplayMatchesRow
  BY DEF IInv
<1> QED BY <1>1, Invariance, PTL

\* No paid-like status is announced to the merchant twice.
THEOREM CallbackOnce == Spec => []NotifyOnce
<1>1. IInv => NotifyOnce
  BY DEF IInv, NotifyInv
<1> QED BY <1>1, Invariance, PTL

\* A worker that may still report swept on an EVM invoice holds a version
\* older than the swept row.
LEMMA SweptNotAfterSwept ==
    ASSUME IInv, NEW w \in Workers, rail = "evm", At(w, "trackSwept"),
           TrackAllowed(w, wk[w].ver, "swept")
    PROVE  row.status # "swept"
BY DEF IInv, VersionInv, Carries, TrackAllowed, At

\* Once an EVM invoice is swept, no report of any worker, however late,
\* rewrites its amounts or its transaction.
THEOREM SettledStaysFinal == Spec => SettledIsFinal
<1> DEFINE Final == rail = "evm" /\ row.status = "swept"
                      => Logged(row') = Logged(row)
<1>1. ASSUME IInv, [Next]_vars, rail = "evm", row.status = "swept"
      PROVE  Logged(row') = Logged(row)
  <2>t. DbType
    BY <1>1, TypeParts DEF IInv
  <2>1. CASE UNCHANGED dbVars
    BY <2>1 DEF dbVars
  <2>2. CASE LeaseExpires
    BY <2>2, <2>t DEF LeaseExpires, DbType, Logged
  <2>3. CASE Restore
    BY <2>3, <1>1 DEF Restore, RestorePersistedInvoice, IInv,
       ReplayMatchesRow, Logged
  <2>4. ASSUME NEW w \in Workers, Served(w)
        PROVE  Logged(row') = Logged(row)
    <3>1. ~(At(w, "trackPaid") /\ TrackAllowed(w, wk[w].ver, PaidStatus))
      BY <1>1, PaidNotAfterSwept DEF PaidStatus
    <3>2. ~(At(w, "trackSwept") /\ TrackAllowed(w, wk[w].ver, "swept"))
      BY <1>1, SweptNotAfterSwept
    <3>3. ClaimInvoice(w) \/ TrackError
      BY <2>4, <3>1, <3>2 DEF Served
    <3>4. ClaimInvoice(w) => Logged(row') = Logged(row)
      BY <2>t DEF ClaimInvoice, DbType, Logged
    <3>5. TrackError => Logged(row') = Logged(row)
      BY <2>t DEF TrackError, DbType, Logged
    <3> QED BY <3>3, <3>4, <3>5
  <2> QED BY <1>1, <2>1, <2>2, <2>3, <2>4, DbSteps
<1>2. IInv /\ [Next]_vars => [Final]_row
  BY <1>1
<1> QED BY <1>2, Invariance, PTL DEF Spec, SettledIsFinal

\* While a lease is live, nobody but its holder (or a restore) takes the row
\* away from it.
THEOREM LeaseIsExclusive == Spec => LiveLeaseNotStolen
<1> DEFINE Kept == \A w \in Workers :
         row.leaseLive /\ row.claimedBy = w /\ row'.claimedBy # w =>
            \/ At(w, "trackSwept") /\ row'.status = "swept"
            \/ Restore
<1>1. ASSUME IInv, [Next]_vars, NEW w \in Workers, ~Restore,
             row.leaseLive, row.claimedBy = w, row'.claimedBy # w
      PROVE  At(w, "trackSwept") /\ row'.status = "swept"
  <2>t. DbType /\ LeaseInv
    BY <1>1, TypeParts DEF IInv
  <2>1. ~UNCHANGED dbVars
    BY <1>1 DEF dbVars
  <2>2. ~LeaseExpires
    BY <1>1, <2>t DEF LeaseExpires, DbType
  <2>3. PICK u \in Workers : Served(u)
    BY <1>1, <2>1, <2>2, DbSteps
  <2>4. CASE u # w
    <3>1. HeldByOther(u)
      BY <1>1, <2>4, WorkersAssumption DEF HeldByOther
    <3>2. TrackPaid(wk[u].bal) \/ TrackError
      BY <2>3, <3>1 DEF Served, ClaimAllowed, TrackAllowed
    <3>3. ~TrackPaid(wk[u].bal)
      BY <1>1, <2>t DEF TrackPaid, DbType
    <3>4. ~TrackError
      BY <1>1, <2>t DEF TrackError, DbType, LeaseInv
    <3> QED BY <3>2, <3>3, <3>4
  <2>5. CASE u = w
    <3>1. ~ClaimInvoice(w)
      BY <1>1, <2>t DEF ClaimInvoice, DbType
    <3>2. ~TrackPaid(wk[w].bal)
      BY <1>1, <2>t DEF TrackPaid, DbType
    <3>3. ~TrackError
      BY <1>1, <2>t DEF TrackError, DbType, LeaseInv
    <3>4. TrackSwept(wk[w].bal, Settled(w), wk[w].tx) => row'.status = "swept"
      BY <2>t DEF TrackSwept, DbType
    <3> QED BY <2>3, <2>5, <3>1, <3>2, <3>3, <3>4 DEF Served
  <2> QED BY <2>4, <2>5
<1>2. IInv /\ [Next]_vars => [Kept]_row
  BY <1>1
<1> QED BY <1>2, Invariance, PTL DEF Spec, LiveLeaseNotStolen

-----------------------------------------------------------------------------
(* Refinement.                                                              *)

\* What the merchant reads, and what has left the invoice address.
Stage == IF row.status = "paid_partial" THEN "paid" ELSE row.status
PaidOut == received - balance

\* A balance that falls is a payout that grows.
LEMMA PaidOutGrows ==
    ASSUME NEW r \in Nat, NEW b \in Nat, NEW c \in Nat, c < b, b <= r
    PROVE  r - c \in Nat /\ r - c > r - b /\ r - c <= r
OBVIOUS

\* A payment is a Receive of the lifecycle, a block or a stranger's sweep a
\* Settle, an accepted
\* first paid report a Detect, an accepted swept report a Report.
LEMMA LifecycleStep ==
    ASSUME "tron" \notin Rails, IInv, [Next]_vars
    PROVE  [Lifecycle!Next]_(Lifecycle!vars)
<1>t. /\ DbType /\ received \in Nat /\ balance \in Nat
      /\ balance <= received
      /\ txs \in [TxIds -> [amount : Nat, state : TxStates]]
      /\ rail \in {"evm", "solana"}
  BY TypeParts DEF IInv, ChainInv
<1>s. /\ PaidStatus \in {"paid", "paid_partial"}
      /\ row.status \in {"awaiting_payment", PaidStatus, "swept"}
  BY DEF IInv, RowInv, PaidStatus
<1>1. ASSUME NEW a \in Amounts, Pay(a) PROVE Lifecycle!Receive
  <2>1. a \in Nat /\ a > 0
    BY SweepAssumption
  <2>2. PaidOut' = PaidOut /\ received' \in Nat /\ received' > received
    BY <1>1, <2>1, <1>t DEF Pay, PaidOut
  <2>3. Stage' = Stage
    BY <1>1 DEF Pay, dbVars, Stage
  <2> QED BY <2>2, <2>3 DEF Lifecycle!Receive, Stage, PaidOut
<1>2. ASSUME NEW t \in TxIds, Mine(t)
      PROVE  Lifecycle!Settle \/ UNCHANGED Lifecycle!vars
  <2>1. Stage' = Stage /\ received' = received
    BY <1>2 DEF Mine, dbVars, Stage
  <2>2. balance' = balance \/ (balance' \in Nat /\ balance' < balance)
    <3>1. rail = "evm" => txs[t].amount > 0
      BY <1>2 DEF Mine, IInv, ChainInv
    <3> QED BY <1>2, <1>t, <3>1 DEF Mine
  <2>3. CASE balance' = balance
    BY <2>1, <2>3 DEF Lifecycle!vars, Stage
  <2>4. CASE balance' \in Nat /\ balance' < balance
    <3>1. PaidOut' \in Nat /\ PaidOut' > PaidOut /\ PaidOut' <= received
      <4>1. PaidOut' = received - balance'
        BY <2>1 DEF PaidOut
      <4>2. /\ received - balance' \in Nat
            /\ received - balance' > received - balance
            /\ received - balance' <= received
        BY <2>4, <1>t, PaidOutGrows
      <4> QED BY <4>1, <4>2 DEF PaidOut
    <3> QED BY <2>1, <3>1 DEF Lifecycle!Settle, Stage, PaidOut
  <2> QED BY <2>2, <2>3, <2>4
<1>3. ASSUME UNCHANGED chainVars, Stage' = Stage
      PROVE  UNCHANGED Lifecycle!vars
  BY <1>3 DEF chainVars, Lifecycle!vars, Stage
<1>4. ASSUME NEW w \in Workers, Served(w), UNCHANGED chainVars
      PROVE  Lifecycle!Detect \/ Lifecycle!Report \/ UNCHANGED Lifecycle!vars
  <2>1. CASE ClaimInvoice(w)
    BY <2>1, <1>3, <1>4, <1>t DEF ClaimInvoice, DbType, Stage
  <2>2. CASE TrackError
    BY <2>2, <1>3, <1>4, <1>t DEF TrackError, DbType, Stage
  <2>3. CASE At(w, "trackPaid") /\ TrackAllowed(w, wk[w].ver, PaidStatus)
             /\ TrackPaid(wk[w].bal)
    <3>1. row.status \in {"awaiting_payment", PaidStatus}
      BY <2>3, PaidNotAfterSwept
    <3>2. Stage' = "paid"
      BY <2>3, <1>t, <1>s DEF TrackPaid, DbType, Stage
    <3>3. CASE row.status = PaidStatus
      BY <3>2, <3>3, <1>s, <1>3, <1>4 DEF Stage
    <3>4. CASE row.status = "awaiting_payment"
      <4>1. received > 0
        BY <2>3, <1>t DEF IInv, WorkerInv, TypeOK, At, Busy
      <4> QED BY <3>2, <3>4, <4>1, <1>4
              DEF Lifecycle!Detect, Stage, chainVars
    <3> QED BY <3>1, <3>3, <3>4
  <2>4. CASE At(w, "trackSwept") /\ TrackSwept(wk[w].bal, Settled(w), wk[w].tx)
    <3>1. Stage' = "swept"
      BY <2>4, <1>t DEF TrackSwept, DbType, Stage
    <3>2. CASE row.status = "swept"
      BY <3>1, <3>2, <1>3, <1>4 DEF Stage
    <3>3. CASE row.status # "swept"
      <4>1. balance < received
        <5>1. wk[w].tx \in TxIds
          BY <2>4 DEF IInv, TxInv, At
        <5>2. txs[wk[w].tx].state \in {"confirmed", "reverted"}
          BY <2>4, <1>t DEF IInv, WorkerInv
        <5> QED BY <5>1, <5>2, <1>t DEF IInv, ChainInv
      <4>2. PaidOut > 0
        BY <4>1, <1>t DEF PaidOut
      <4>3. Stage # "swept"
        BY <3>3 DEF Stage
      <4> QED BY <3>1, <4>2, <4>3, <1>4
              DEF Lifecycle!Report, Stage, PaidOut, chainVars
    <3> QED BY <3>2, <3>3
  <2> QED BY <1>4, <2>1, <2>2, <2>3, <2>4 DEF Served
<1>5. UNCHANGED dbVars => Stage' = Stage
  BY DEF dbVars, Stage
<1>6. CASE UNCHANGED chainVars
  <2>1. LeaseExpires => Stage' = Stage
    BY <1>t DEF LeaseExpires, DbType, Stage
  <2>2. Restore => Stage' = Stage
    BY DEF Restore, RestorePersistedInvoice, IInv, ReplayMatchesRow, Logged,
       Stage
  <2> QED BY <1>3, <1>4, <1>5, <1>6, <2>1, <2>2, DbSteps DEF Lifecycle!Next
<1>7. ASSUME NEW w \in Workers, Broadcast(w)
      PROVE  UNCHANGED Lifecycle!vars
  BY <1>7, <1>5 DEF Broadcast, Lifecycle!vars, Stage
<1>8. AnyoneSweeps => Lifecycle!Settle
  <2> SUFFICES ASSUME AnyoneSweeps PROVE Lifecycle!Settle
    OBVIOUS
  <2>1. balance' \in Nat /\ balance' < balance /\ received' = received
    BY <1>t DEF AnyoneSweeps
  <2>2. /\ received - balance' \in Nat
        /\ received - balance' > received - balance
        /\ received - balance' <= received
    BY <2>1, <1>t, PaidOutGrows
  <2>3. PaidOut' = received - balance' /\ Stage' = Stage
    BY <2>1, <1>5 DEF PaidOut, AnyoneSweeps
  <2>4. PaidOut' \in Nat /\ PaidOut' > PaidOut /\ PaidOut' <= received
    BY <2>2, <2>3 DEF PaidOut
  <2> QED BY <2>1, <2>3, <2>4 DEF Lifecycle!Settle, Stage, PaidOut
<1> QED BY <1>1, <1>2, <1>6, <1>7, <1>8, ChainSteps DEF Lifecycle!Next

\* On EVM and Solana, for any workers, payments and faults, what the
\* merchant reads follows the promised lifecycle.  On Tron it does not:
\* `swept` may be reported of a transfer that never happens.
THEOREM ImplementsLifecycle ==
    ASSUME "tron" \notin Rails PROVE Spec => LifecycleSpec
<1>1. Init => Lifecycle!Init
  BY DEF Init, DbInit, CreatedRow, Lifecycle!Init
<1>2. IInv /\ [Next]_vars => [Lifecycle!Next]_(Lifecycle!vars)
  BY LifecycleStep
<1> QED BY <1>1, <1>2, Invariance, PTL DEF Spec, LifecycleSpec, Lifecycle!Spec
=============================================================================
