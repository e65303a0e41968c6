----------------------------- MODULE UserOpQueue -----------------------------
(***************************************************************************)
(* One user operation of a passkey wallet on its way to the EntryPoint:    *)
(* the wallet routes that queue it, its row in wallet_user_ops             *)
(* (commerce/server/db.ts), the bundlers that claim, submit and track it   *)
(* (commerce/bundler/worker.ts), and the chain that executes it at most    *)
(* once.                                                                   *)
(*                                                                         *)
(* Requests are handled one at a time; a wallet's request awaits the chain *)
(* between its duplicate check and its insert.  The back-off delays of the *)
(* retry loops and their number are abstracted: a loop that met a conflict *)
(* or a 5xx goes on or gives up.  What simulation finds is a free choice,  *)
(* except that an operation whose nonce is used never passes.              *)
(***************************************************************************)
EXTENDS Naturals

CONSTANTS
    Bundlers,
    Nobody,         \* claimed_by NULL
    FaultKinds,     \* subset of {"rpc", "lost", "busy", "crash", "lease"}
    MaxFaults,      \* bound: how many
    MaxAsks         \* bound: requests of the wallet

ASSUME QueueAssumption ==
    /\ Nobody \notin Bundlers
    /\ FaultKinds \subseteq {"rpc", "lost", "busy", "crash", "lease"}
    /\ MaxFaults \in Nat /\ MaxAsks \in Nat

VARIABLES
    row,        \* the row of the operation, status "none" before it exists
    asked,      \* wallet requests past their duplicate check
    asks,       \* how many there were
    op,         \* the EntryPoint: nonce "open", or the call "done"/"reverted"
    tx,         \* each bundler's handleOps transaction
    wk,         \* each bundler's program counter and locals
    unmarked,   \* history: a bundler broadcast while its submitted report
                \* was not in the row
    faults,     \* faults left
    disturbed   \* history: a call was lost or never served, a bundler died,
                \* the lease ran out, or the operation was queued again

walletVars == <<asked, asks>>
faultVars == <<faults, disturbed>>
vars == <<row, walletVars, op, tx, wk, unmarked, faultVars>>

Refused == {"rejected", "failed"}
Terminal == Refused \cup {"included"}
Statuses == Terminal \cup {"none", "pending", "claimed", "submitted"}
TxStates == {"none", "pending", "done", "reverted", "void"}
Pcs == {"idle", "check", "claim", "track", "send", "wait"}
Calls == {"claim", "track"}

Idle == [pc |-> "idle", ver |-> 0, claimed |-> 0, report |-> "none"]

Init ==
    /\ row = [status |-> "none", version |-> 0, claimedBy |-> Nobody,
              leaseLive |-> FALSE]
    /\ asked = {} /\ asks = 0
    /\ op = "open"
    /\ tx = [b \in Bundlers |-> "none"]
    /\ wk = [b \in Bundlers |-> Idle]
    /\ unmarked = FALSE /\ faults = MaxFaults /\ disturbed = FALSE

At(b, pc) == wk[b].pc = pc
Done(b) == wk' = [wk EXCEPT ![b] = Idle]
Goto(b, pc) == wk' = [wk EXCEPT ![b].pc = pc]
Report(b, status, v) ==
    wk' = [wk EXCEPT ![b].pc = "track", ![b].report = status, ![b].ver = v]

-----------------------------------------------------------------------------
(* The wallet's request.                                                    *)

\* The duplicate check.
Ask ==
    /\ asks < MaxAsks
    /\ row.status \in Refused \cup {"none"}
    /\ asks' = asks + 1
    /\ asked' = asked \cup {IF row.status = "none" THEN "create"
                            ELSE "requeue"}
    /\ UNCHANGED <<row, op, tx, wk, unmarked, faultVars>>

\* createWalletUserOp: a hash that exists by now is answered with its row.
CreateWalletUserOp ==
    /\ "create" \in asked
    /\ asked' = asked \ {"create"}
    /\ row' = IF row.status # "none" THEN row
              ELSE [row EXCEPT !.status = "pending", !.version = 1]
    /\ UNCHANGED <<asks, op, tx, wk, unmarked, faultVars>>

RequeueWalletUserOp ==
    /\ "requeue" \in asked
    /\ asked' = asked \ {"requeue"}
    /\ row' = IF row.status \notin Refused THEN row
              ELSE [status |-> "pending", version |-> row.version + 1,
                    claimedBy |-> Nobody, leaseLive |-> FALSE]
    /\ disturbed' = (disturbed \/ row.status \in Refused)
    /\ UNCHANGED <<asks, op, tx, wk, unmarked, faults>>

-----------------------------------------------------------------------------
(* The server.                                                              *)

ClaimAllowed(b, v) ==
    /\ row.version = v
    /\ row.status \in {"pending", "claimed"}
    /\ row.claimedBy \in {Nobody, b} \/ ~row.leaseLive

ClaimWalletUserOp(b) ==
    row' = [status |-> "claimed", version |-> row.version + 1,
            claimedBy |-> b, leaseLive |-> TRUE]

\* Neither the lease's age nor the row's status is looked at.
TrackAllowed(b, v) ==
    /\ row.version = v
    /\ row.claimedBy \in {Nobody, b}

TrackWalletUserOp(status) ==
    row' = [status |-> status, version |-> row.version + 1,
            claimedBy |-> IF status \in Terminal THEN Nobody
                          ELSE row.claimedBy,
            leaseLive |-> status \notin Terminal /\ row.leaseLive]

-----------------------------------------------------------------------------
(* processUserOp.                                                           *)

FetchUserOps(b) ==
    /\ At(b, "idle")
    /\ row.status \in {"pending", "claimed"}
    /\ wk' = [wk EXCEPT ![b] = [Idle EXCEPT !.pc = "check",
                                            !.ver = row.version]]
    /\ UNCHANGED <<row, walletVars, op, tx, unmarked, faultVars>>

\* Fee, hash, balance, prefund, simulation: any of them may reject, and so
\* does an RPC failure in the last two.
CheckUserOp(b) ==
    /\ At(b, "check")
    /\ \/ op = "open" /\ Goto(b, "claim")
       \/ Report(b, "rejected", wk[b].ver)
    /\ UNCHANGED <<row, walletVars, op, tx, unmarked, faultVars>>

ClaimServed(b) ==
    /\ At(b, "claim")
    /\ ClaimAllowed(b, wk[b].ver)
    /\ ClaimWalletUserOp(b)
    /\ wk' = [wk EXCEPT ![b] = [pc |-> "track", report |-> "submitted",
                                ver |-> row.version + 1,
                                claimed |-> row.version + 1]]
    /\ UNCHANGED <<walletVars, op, tx, unmarked, faultVars>>

\* Where a tick goes once a claim or track loop is over without a claim:
\* whether the submitted report was accepted is not looked at.
LoopOver(b) ==
    IF At(b, "track") /\ wk[b].report = "submitted"
    THEN Goto(b, "send") ELSE Done(b)

TrackServed(b) ==
    /\ At(b, "track")
    /\ TrackAllowed(b, wk[b].ver)
    /\ TrackWalletUserOp(wk[b].report)
    /\ LoopOver(b)
    /\ UNCHANGED <<walletVars, op, tx, unmarked, faultVars>>

AfterConflict_IgnoreIncluded(b) ==
    wk' = [wk EXCEPT ![b].ver = row.version] \/ LoopOver(b)

\* A 409 carries the current row: over when it is included, else try again
\* with its version until the attempts run out.
AfterConflict(b) ==
    \/ row.status # "included" /\ wk' = [wk EXCEPT ![b].ver = row.version]
    \/ LoopOver(b)

Conflict(b) ==
    /\ \/ At(b, "claim") /\ ~ClaimAllowed(b, wk[b].ver)
       \/ At(b, "track") /\ ~TrackAllowed(b, wk[b].ver)
    /\ AfterConflict(b)
    /\ UNCHANGED <<row, walletVars, op, tx, unmarked, faultVars>>

Broadcast(b) ==
    /\ At(b, "send") /\ op = "open"
    /\ tx' = [tx EXCEPT ![b] = "pending"]
    /\ unmarked' = (unmarked \/ row.status # "submitted" \/ row.claimedBy # b)

\* handleOps; its gas estimate fails when the nonce is used already.
SendHandleOps(b) ==
    /\ At(b, "send")
    /\ \/ Broadcast(b) /\ Goto(b, "wait")
       \/ op # "open" /\ Done(b) /\ UNCHANGED <<tx, unmarked>>
    /\ UNCHANGED <<row, walletVars, op, faultVars>>

\* The EntryPoint runs the call once; a second transaction with its nonce
\* reverts as a whole.
Mine(b) ==
    /\ tx[b] = "pending"
    /\ \/ /\ op = "open" /\ op' \in {"done", "reverted"}
          /\ tx' = [tx EXCEPT ![b] = op']
       \/ /\ op # "open" /\ tx' = [tx EXCEPT ![b] = "void"]
          /\ UNCHANGED op
    /\ UNCHANGED <<row, walletVars, wk, unmarked, faultVars>>

AfterReceipt_RawStatus(b) ==
    IF tx[b] = "void" THEN Done(b) ELSE Report(b, tx[b], wk[b].claimed + 1)

AfterReceipt_ClaimedVersion(b) ==
    IF tx[b] = "void" THEN Done(b)
    ELSE Report(b, IF tx[b] = "done" THEN "included" ELSE "failed",
                wk[b].claimed)

\* wait() throws on a reverted transaction; a mined one tells by its
\* UserOperationEvent whether the call succeeded.
AfterReceipt(b) ==
    IF tx[b] = "void" THEN Done(b)
    ELSE Report(b, IF tx[b] = "done" THEN "included" ELSE "failed",
                wk[b].claimed + 1)

Receipt(b) ==
    /\ At(b, "wait")
    /\ tx[b] \in {"done", "reverted", "void"}
    /\ AfterReceipt(b)
    /\ UNCHANGED <<row, walletVars, op, tx, unmarked, faultVars>>

-----------------------------------------------------------------------------
(* Faults, at most MaxFaults of them.  tick catches every error and goes on *)
(* to the next operation; nothing is reported.                              *)

Fault(kind) ==
    /\ kind \in FaultKinds
    /\ faults > 0 /\ faults' = faults - 1
    /\ disturbed' = (disturbed \/ kind # "rpc")

\* An RPC call made before the claim, outside a try, throws.
RpcFails(b) ==
    /\ Fault("rpc")
    /\ At(b, "check")
    /\ Done(b)
    /\ UNCHANGED <<row, walletVars, op, tx, unmarked>>

\* A call throws before or after it was served: a fetch to the server, or
\* the RPC that sends the operation or awaits its receipt.
CallLost(b) ==
    /\ Fault("lost")
    /\ wk[b].pc \in Calls \cup {"send", "wait"}
    /\ \/ /\ At(b, "claim") /\ ClaimAllowed(b, wk[b].ver)
          /\ ClaimWalletUserOp(b)
          /\ UNCHANGED <<tx, unmarked>>
       \/ /\ At(b, "track") /\ TrackAllowed(b, wk[b].ver)
          /\ TrackWalletUserOp(wk[b].report)
          /\ UNCHANGED <<tx, unmarked>>
       \/ Broadcast(b) /\ UNCHANGED row
       \/ UNCHANGED <<row, tx, unmarked>>
    /\ Done(b)
    /\ UNCHANGED <<walletVars, op>>

\* Every attempt of a loop is answered 5xx.
ServerBusy(b) ==
    /\ Fault("busy")
    /\ wk[b].pc \in Calls
    /\ LoopOver(b)
    /\ UNCHANGED <<row, walletVars, op, tx, unmarked>>

Crash(b) ==
    /\ Fault("crash")
    /\ ~At(b, "idle")
    /\ Done(b)
    /\ UNCHANGED <<row, walletVars, op, tx, unmarked>>

LeaseExpires ==
    /\ Fault("lease")
    /\ row.leaseLive
    /\ row' = [row EXCEPT !.leaseLive = FALSE]
    /\ UNCHANGED <<walletVars, op, tx, wk, unmarked>>

-----------------------------------------------------------------------------
Tick(b) ==
    \/ FetchUserOps(b) \/ CheckUserOp(b) \/ ClaimServed(b) \/ TrackServed(b)
    \/ Conflict(b) \/ SendHandleOps(b) \/ Receipt(b)

BundlerFault(b) == RpcFails(b) \/ CallLost(b) \/ ServerBusy(b) \/ Crash(b)

Next ==
    \/ Ask \/ CreateWalletUserOp \/ RequeueWalletUserOp
    \/ \E b \in Bundlers : Tick(b) \/ BundlerFault(b) \/ Mine(b)
    \/ LeaseExpires

Spec == Init /\ [][Next]_vars

\* A bundler ticks forever, and the chain mines what it accepted.
FairSpec ==
    /\ Spec
    /\ \A b \in Bundlers : WF_vars(Tick(b)) /\ WF_vars(Mine(b))

-----------------------------------------------------------------------------
TypeOK ==
    /\ row \in [status : Statuses, version : Nat,
                claimedBy : Bundlers \cup {Nobody}, leaseLive : BOOLEAN]
    /\ asked \subseteq {"create", "requeue"} /\ asks \in Nat
    /\ op \in {"open", "done", "reverted"}
    /\ tx \in [Bundlers -> TxStates]
    /\ wk \in [Bundlers -> [pc : Pcs, ver : Nat, claimed : Nat,
                            report : {"none", "submitted"} \cup Terminal]]
    /\ unmarked \in BOOLEAN /\ faults \in Nat /\ disturbed \in BOOLEAN

\* A wallet is told its operation is included only when the call succeeded
\* on chain, and not merely because a transaction that carried it was mined
\* (userOpExecutionSucceeded).
IncludedIsExecuted == row.status = "included" => op = "done"

\* A wallet is never told that an operation was rejected or failed while it
\* went through: it would sign the payment again under a new nonce.  The
\* exception is an operation broadcast although its submitted report was not
\* accepted, since processUserOp ignores what trackWithRetry returned.
RefusedNotExecuted == row.status \in Refused /\ op = "done" => unmarked

\* An included operation stays so, whatever stale reports, second claims and
\* requeue requests still arrive.
IncludedIsFinal ==
    [][row.status = "included" => row' = row]_row

\* A live claim ends by its holder's own terminal report only.
LiveClaimNotStolen ==
    [][\A b \in Bundlers :
         row.leaseLive /\ row.claimedBy = b /\ row'.claimedBy # b =>
            At(b, "track") /\ row'.status \in Terminal]_row

\* A queued operation is decided, although bundlers compete for it and RPC
\* calls before the claim may fail, unless it is disturbed.  (One that failed
\* and is requeued need not be: a bundler that simulated it before it ran
\* claims it again, its gas estimate fails, and the row stays submitted.)
OpIsDecided == row.status = "pending" ~> row.status \in Terminal \/ disturbed

-----------------------------------------------------------------------------
(* What the wallet may believe *)

Stage ==
    CASE row.status \in {"pending", "claimed"} -> "queued"
      [] row.status = "submitted" -> "sent"
      [] row.status \in Refused -> "refused"
      [] OTHER -> row.status

Operation == INSTANCE WalletOperation WITH
    stage <- Stage, fate <- op, unannounced <- unmarked

\* Whatever bundlers, versions, leases and requeues do to the row, the wallet
\* sees its operation queued, sent and decided in this order; the chain does
\* not execute it before it is shown as sent, unless a report was ignored;
\* what it is told at the end is what the chain did, and included is final.
OperationSpec == Operation!Spec
=============================================================================
