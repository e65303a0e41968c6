------------------------------ MODULE InvoiceDb ------------------------------
(***************************************************************************)
(* One invoice row of the commerce database (commerce/server/db.ts), the   *)
(* invoice stream of its persist log, and the callbacks the tracking       *)
(* routes post.  Every operation below is one synchronous SQLite           *)
(* statement sequence of the server process, hence one atomic step.        *)
(*                                                                         *)
(* Abstractions: the clock is reduced to leaseLive, which stands for       *)
(* claimed_until > now; the persist log is kept as the value its left fold *)
(* (applyInvoicePersistEvent) has reached, `replayed`; payer and pricing   *)
(* columns, gas and timestamps are left out.  On every rail amountSwept is *)
(* gross: amount_swept plus, where the worker subtracts it,                *)
(* fee_collected.                                                          *)
(***************************************************************************)
EXTENDS Naturals

CONSTANTS
    Workers,        \* registered sweeper addresses, one per worker process
    NoWorker,       \* claimed_by IS NULL
    AllowPartial    \* the invoice's allow_partial flag

ASSUME WorkersAssumption == NoWorker \notin Workers
ASSUME AllowPartialAssumption == AllowPartial \in BOOLEAN

VARIABLES
    row,        \* the invoices row
    replayed,   \* what replaying the persist log would restore
    notified    \* how many callbacks each paid-like status has triggered

dbVars == <<row, replayed, notified>>

NoTx == 0       \* sweep_tx IS NULL

PaidStatus == IF AllowPartial THEN "paid_partial" ELSE "paid"
Listed == {"awaiting_payment", "paid", "paid_partial"}
PaidLike == {"paid", "paid_partial", "swept"}
Statuses == Listed \cup PaidLike

\* The part of a row the invoice stream carries.
Logged(r) == [status |-> r.status, amountPaid |-> r.amountPaid,
              amountSwept |-> r.amountSwept, sweepTx |-> r.sweepTx]

\* The row createInvoice inserts, together with its invoice.created event.
CreatedRow == [status |-> "awaiting_payment", version |-> 1,
               claimedBy |-> NoWorker, leaseLive |-> FALSE,
               amountPaid |-> 0, amountSwept |-> 0, sweepTx |-> NoTx]

DbInit ==
    /\ row = CreatedRow
    /\ replayed = Logged(CreatedRow)
    /\ notified = [s \in PaidLike |-> 0]

-----------------------------------------------------------------------------
(* claimInvoice: the WHERE clause of the UPDATE, then its SET clause.       *)

HeldByOther(w) == row.leaseLive /\ row.claimedBy \notin {NoWorker, w}

ClaimAllowed_NotOwn(w, v) ==
    row.version = v /\ row.status \in Listed /\ ~row.leaseLive

ClaimAllowed(w, v) ==
    /\ row.version = v
    /\ row.status \in Listed
    /\ ~HeldByOther(w)

ClaimInvoice(w) ==
    /\ row' = [row EXCEPT !.claimedBy = w, !.leaseLive = TRUE,
                          !.version = @ + 1]
    /\ UNCHANGED <<replayed, notified>>

-----------------------------------------------------------------------------
(* trackInvoice, as applyTrack calls it.                                    *)

TrackAllowed_NoVersion(w, v, status) == ~(status = "swept" /\ HeldByOther(w))

\* The version check, and the lease check that only a swept report meets.
TrackAllowed(w, v, status) ==
    /\ row.version = v
    /\ ~(status = "swept" /\ HeldByOther(w))

Notify_Always(s) == notified' = [notified EXCEPT ![s] = @ + 1]

\* becamePaidLike: a callback goes out when the status becomes s.
Notify(s) ==
    notified' = IF row.status = s THEN notified
                ELSE [notified EXCEPT ![s] = @ + 1]

\* A paid report: the lease is left alone, invoice.paid is appended.
TrackPaid(amount) ==
    /\ row' = [row EXCEPT !.status = PaidStatus, !.amountPaid = amount,
                          !.version = @ + 1]
    /\ replayed' = [replayed EXCEPT !.status = PaidStatus,
                                    !.amountPaid = amount,
                                    !.amountSwept = row.amountSwept]
    /\ Notify(PaidStatus)

TrackSwept_NotLogged(paid, swept, tx) ==
    /\ row' = [row EXCEPT !.status = "swept", !.amountPaid = paid,
                          !.amountSwept = swept, !.sweepTx = tx,
                          !.claimedBy = NoWorker, !.leaseLive = FALSE,
                          !.version = @ + 1]
    /\ UNCHANGED replayed
    /\ Notify("swept")

\* A swept report: the lease is cleared, invoice.swept is appended.
TrackSwept(paid, swept, tx) ==
    /\ row' = [row EXCEPT !.status = "swept", !.amountPaid = paid,
                          !.amountSwept = swept, !.sweepTx = tx,
                          !.claimedBy = NoWorker, !.leaseLive = FALSE,
                          !.version = @ + 1]
    /\ replayed' = [status |-> "swept", amountPaid |-> paid,
                    amountSwept |-> swept, sweepTx |-> tx]
    /\ Notify("swept")

\* An error report carries no status: only the version moves (a swept row
\* would also have its lease cleared), and nothing is appended.
TrackError ==
    /\ row' = IF row.status = "swept"
              THEN [row EXCEPT !.claimedBy = NoWorker, !.leaseLive = FALSE,
                               !.version = @ + 1]
              ELSE [row EXCEPT !.version = @ + 1]
    /\ UNCHANGED <<replayed, notified>>

-----------------------------------------------------------------------------
\* claimed_until passes.
LeaseExpires ==
    /\ row.leaseLive
    /\ row' = [row EXCEPT !.leaseLive = FALSE]
    /\ UNCHANGED <<replayed, notified>>

RestorePersistedInvoice_NoVersion ==
    /\ row' = [CreatedRow EXCEPT !.status = replayed.status, !.version = 0]
    /\ UNCHANGED <<replayed, notified>>

\* replayInvoicePersistLogToDb into a fresh DB_PATH: a new row, version 1,
\* no lease.
RestorePersistedInvoice ==
    /\ row' = [status |-> replayed.status, version |-> 1,
               claimedBy |-> NoWorker, leaseLive |-> FALSE,
               amountPaid |-> replayed.amountPaid,
               amountSwept |-> replayed.amountSwept,
               sweepTx |-> replayed.sweepTx]
    /\ UNCHANGED <<replayed, notified>>

=============================================================================
