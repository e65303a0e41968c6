------------------------- MODULE UserOpQueue_proofs -------------------------
(***************************************************************************)
(* What the operation queue guarantees for any number of bundlers,         *)
(* requests and faults.                                                    *)
(*                                                                         *)
(* VersionInv is the argument of optimistic locking: a version that a      *)
(* bundler holds is not ahead of the row, and while it still matches, the  *)
(* operation is not included.  SentInv follows an operation broadcast      *)
(* while its row said so: until its bundler reports, the row stays         *)
(* submitted by that bundler, which has nothing else to report.            *)
(***************************************************************************)
EXTENDS UserOpQueue, TLAPS

\* What the EntryPoint did, some bundler's transaction did.
TxInv ==
    /\ \A b \in Bundlers : tx[b] \in {"done", "reverted"} => op = tx[b]
    /\ op = "done" => \E b \in Bundlers : tx[b] = "done"

\* A report says what the bundler's receipt said.
ReportInv ==
    \A b \in Bundlers : At(b, "track") =>
        /\ wk[b].report # "none"
        /\ wk[b].report = "included" => op = "done"

\* A receipt's report counts on a submitted report that was not served.
AheadByOne(b) ==
    /\ At(b, "track") /\ wk[b].ver = row.version + 1
    /\ row.status = "claimed" /\ row.claimedBy = b

\* A version in hand, that of a request or the one reported after the receipt.
VersionInv ==
    \A b \in Bundlers :
        /\ wk[b].pc \in Calls \cup {"check"} =>
             /\ \/ wk[b].ver <= row.version
                \/ AheadByOne(b)
             /\ wk[b].ver = row.version => row.status # "included"
        /\ wk[b].pc \in {"send", "wait"} \/ (At(b, "track") /\ wk[b].report = "submitted") =>
             /\ wk[b].claimed <= row.version
             /\ wk[b].claimed = row.version => row.status = "claimed" /\ row.claimedBy = b
             /\ wk[b].claimed + 1 = row.version => row.status \in {"claimed", "submitted"}

\* An operation without a row was never touched.
NewInv == row.status = "none" => row.version = 0

\* A decided operation is claimed by nobody.
LeaseInv == row.status \in Terminal => ~row.leaseLive

InFlight(b) == tx[b] = "done" \/ (tx[b] = "pending" /\ op = "open")

\* The bundler b waits for its transaction, or has forgotten it.
Waits(b) ==
    /\ row.status = "submitted" /\ row.claimedBy = b
    /\ \/ wk[b].pc \in {"idle", "wait"}
       \/ tx[b] = "done" /\ At(b, "track") /\ wk[b].report = "included"

SentInv ==
    ~unmarked => \A b \in Bundlers : InFlight(b) => row.status = "included" \/ Waits(b)

QueueInv ==
    /\ TypeOK /\ TxInv /\ ReportInv /\ VersionInv /\ NewInv /\ LeaseInv /\ SentInv
    /\ IncludedIsExecuted

-----------------------------------------------------------------------------

LEMMA InitQueue == Init => QueueInv
<1> SUFFICES ASSUME Init PROVE QueueInv
    OBVIOUS
<1>1. TypeOK
    BY QueueAssumption DEF Init, TypeOK, Idle, Statuses, TxStates, Pcs
<1>2. \A b \in Bundlers : tx[b] = "none" /\ wk[b].pc = "idle"
    BY DEF Init, Idle
<1>3. /\ op = "open" /\ row.status = "none" /\ row.version = 0 /\ ~row.leaseLive
    BY DEF Init
<1> QED BY <1>1, <1>2, <1>3 DEF QueueInv, TxInv, ReportInv, VersionInv, NewInv, LeaseInv,
           SentInv, InFlight, IncludedIsExecuted, At, Calls

\* The duplicate check of a request.
LEMMA AskKeeps ==
    ASSUME QueueInv, Ask
    PROVE  QueueInv'
<1> USE QueueAssumption
<1>0. TypeOK /\ TxInv /\ ReportInv /\ VersionInv /\ NewInv /\ LeaseInv
      /\ SentInv /\ IncludedIsExecuted
    BY DEF QueueInv
<1>1. TypeOK'
    BY <1>0 DEF TypeOK, Ask, faultVars
<1>2. TxInv'
    BY <1>0 DEF TxInv, TypeOK, Ask
<1>3. ReportInv'
    BY <1>0 DEF ReportInv, TypeOK, TxInv, Ask, At
<1>4. VersionInv'
    BY <1>0 DEF VersionInv, AheadByOne, TypeOK, ReportInv, NewInv, Ask, At
<1>5. NewInv'
    BY <1>0 DEF NewInv, TypeOK, ReportInv, Ask
<1>6. LeaseInv'
    BY <1>0 DEF LeaseInv, TypeOK, Ask
<1>7. SentInv'
    BY <1>0 DEF SentInv, InFlight, Waits, TypeOK, TxInv, VersionInv, ReportInv, Ask, At
<1>8. IncludedIsExecuted'
    BY <1>0 DEF IncludedIsExecuted, TypeOK, ReportInv, TxInv, Ask
<1> QED BY <1>1, <1>2, <1>3, <1>4, <1>5, <1>6, <1>7, <1>8 DEF QueueInv

\* createWalletUserOp.
LEMMA CreateKeeps ==
    ASSUME QueueInv, CreateWalletUserOp
    PROVE  QueueInv'
<1> USE QueueAssumption
<1>0. TypeOK /\ TxInv /\ ReportInv /\ VersionInv /\ NewInv /\ LeaseInv
      /\ SentInv /\ IncludedIsExecuted
    BY DEF QueueInv
<1>1. TypeOK'
    BY <1>0 DEF TypeOK, CreateWalletUserOp, faultVars, Statuses
<1>2. TxInv'
    BY <1>0 DEF TxInv, TypeOK, CreateWalletUserOp
<1>3. ReportInv'
    BY <1>0 DEF ReportInv, TypeOK, TxInv, CreateWalletUserOp, At
<1>4. VersionInv'
  <2>1. CASE row.status # "none"
      BY <2>1, <1>0 DEF VersionInv, AheadByOne, CreateWalletUserOp, At
  <2>2. CASE row.status = "none"
    <3>1. row' = [row EXCEPT !.status = "pending", !.version = 1] /\ wk' = wk
        BY <2>2 DEF CreateWalletUserOp
    <3>2. row.version = 0 /\ row'.version = 1 /\ row'.status = "pending"
        BY <3>1, <2>2, <1>0 DEF TypeOK, NewInv
    <3>3. \A c \in Bundlers : wk[c].ver \in Nat /\ wk[c].claimed \in Nat
        BY <1>0 DEF TypeOK
    <3> QED BY <3>1, <3>2, <3>3, <2>2, <1>0 DEF VersionInv, AheadByOne, At
  <2> QED BY <2>1, <2>2
<1>5. NewInv'
    BY <1>0 DEF NewInv, TypeOK, ReportInv, CreateWalletUserOp
<1>6. LeaseInv'
    BY <1>0 DEF LeaseInv, TypeOK, CreateWalletUserOp, Terminal, Refused
<1>7. SentInv'
    BY <1>0 DEF SentInv, InFlight, Waits, TypeOK, TxInv, VersionInv, ReportInv,
       CreateWalletUserOp, At
<1>8. IncludedIsExecuted'
    BY <1>0 DEF IncludedIsExecuted, TypeOK, ReportInv, TxInv, CreateWalletUserOp
<1> QED BY <1>1, <1>2, <1>3, <1>4, <1>5, <1>6, <1>7, <1>8 DEF QueueInv

\* requeueWalletUserOp.
LEMMA RequeueKeeps ==
    ASSUME QueueInv, RequeueWalletUserOp
    PROVE  QueueInv'
<1> USE QueueAssumption
<1>0. TypeOK /\ TxInv /\ ReportInv /\ VersionInv /\ NewInv /\ LeaseInv
      /\ SentInv /\ IncludedIsExecuted
    BY DEF QueueInv
<1>1. TypeOK'
    BY <1>0 DEF TypeOK, RequeueWalletUserOp, Statuses
<1>2. TxInv'
    BY <1>0 DEF TxInv, TypeOK, RequeueWalletUserOp
<1>3. ReportInv'
    BY <1>0 DEF ReportInv, TypeOK, TxInv, RequeueWalletUserOp, At
<1>4. VersionInv'
  <2>1. CASE row.status \notin Refused
      BY <2>1, <1>0 DEF VersionInv, AheadByOne, RequeueWalletUserOp, At
  <2>2. CASE row.status \in Refused
    <3>1. row'.version = row.version + 1 /\ row'.status = "pending" /\ wk' = wk
        BY <2>2 DEF RequeueWalletUserOp
    <3>2. row.status \notin {"claimed", "submitted"} /\ row.version \in Nat
        BY <2>2, <1>0 DEF Refused, TypeOK
    <3>3. \A c \in Bundlers : wk[c].ver \in Nat /\ wk[c].claimed \in Nat
        BY <1>0 DEF TypeOK
    <3> QED BY <3>1, <3>2, <3>3, <1>0 DEF VersionInv, AheadByOne, At
  <2> QED BY <2>1, <2>2
<1>5. NewInv'
    BY <1>0 DEF NewInv, TypeOK, ReportInv, RequeueWalletUserOp
<1>6. LeaseInv'
    BY <1>0 DEF LeaseInv, TypeOK, RequeueWalletUserOp
<1>7. SentInv'
    BY <1>0 DEF SentInv, InFlight, Waits, TypeOK, TxInv, VersionInv, ReportInv,
       RequeueWalletUserOp, At, Refused
<1>8. IncludedIsExecuted'
    BY <1>0 DEF IncludedIsExecuted, TypeOK, ReportInv, TxInv, RequeueWalletUserOp
<1> QED BY <1>1, <1>2, <1>3, <1>4, <1>5, <1>6, <1>7, <1>8 DEF QueueInv

\* A bundler lists the operation.
LEMMA FetchKeeps ==
    ASSUME QueueInv, NEW b \in Bundlers, FetchUserOps(b)
    PROVE  QueueInv'
<1> USE QueueAssumption
<1>0. TypeOK /\ TxInv /\ ReportInv /\ VersionInv /\ NewInv /\ LeaseInv
      /\ SentInv /\ IncludedIsExecuted
    BY DEF QueueInv
<1>1. TypeOK'
    BY <1>0 DEF TypeOK, FetchUserOps, Idle, walletVars, faultVars, Pcs
<1>2. TxInv'
    BY <1>0 DEF TxInv, TypeOK, FetchUserOps
<1>3. ReportInv'
    BY <1>0 DEF ReportInv, TypeOK, TxInv, FetchUserOps, At
<1>4. VersionInv'
    BY <1>0 DEF VersionInv, AheadByOne, TypeOK, ReportInv, NewInv, FetchUserOps, At
<1>5. NewInv'
    BY <1>0 DEF NewInv, TypeOK, ReportInv, FetchUserOps
<1>6. LeaseInv'
    BY <1>0 DEF LeaseInv, TypeOK, FetchUserOps
<1>7. SentInv'
    BY <1>0 DEF SentInv, InFlight, Waits, TypeOK, TxInv, VersionInv, ReportInv, FetchUserOps
<1>8. IncludedIsExecuted'
    BY <1>0 DEF IncludedIsExecuted, TypeOK, ReportInv, TxInv, FetchUserOps
<1> QED BY <1>1, <1>2, <1>3, <1>4, <1>5, <1>6, <1>7, <1>8 DEF QueueInv

\* Its checks and simulation.
LEMMA CheckKeeps ==
    ASSUME QueueInv, NEW b \in Bundlers, CheckUserOp(b)
    PROVE  QueueInv'
<1> USE QueueAssumption
<1>0. TypeOK /\ TxInv /\ ReportInv /\ VersionInv /\ NewInv /\ LeaseInv
      /\ SentInv /\ IncludedIsExecuted
    BY DEF QueueInv
<1>1. TypeOK'
    BY <1>0 DEF TypeOK, CheckUserOp, Goto, Report, walletVars, faultVars, Pcs
<1>2. TxInv'
    BY <1>0 DEF TxInv, TypeOK, CheckUserOp, Report
<1>3. ReportInv'
    BY <1>0 DEF ReportInv, TypeOK, TxInv, CheckUserOp, Goto, Report, At
<1>4. VersionInv'
    BY <1>0 DEF VersionInv, AheadByOne, TypeOK, ReportInv, NewInv, CheckUserOp, Goto,
       Report, At
<1>5. NewInv'
    BY <1>0 DEF NewInv, TypeOK, ReportInv, CheckUserOp, Report
<1>6. LeaseInv'
    BY <1>0 DEF LeaseInv, TypeOK, CheckUserOp, Report
<1>7. SentInv'
    BY <1>0 DEF SentInv, InFlight, Waits, TypeOK, TxInv, VersionInv, ReportInv, CheckUserOp,
       Goto, Report, At
<1>8. IncludedIsExecuted'
    BY <1>0 DEF IncludedIsExecuted, TypeOK, ReportInv, TxInv, CheckUserOp, Report
<1> QED BY <1>1, <1>2, <1>3, <1>4, <1>5, <1>6, <1>7, <1>8 DEF QueueInv

\* A claim that is served.
LEMMA ClaimKeeps ==
    ASSUME QueueInv, NEW b \in Bundlers, ClaimServed(b)
    PROVE  QueueInv'
<1> USE QueueAssumption
<1>0. TypeOK /\ TxInv /\ ReportInv /\ VersionInv /\ NewInv /\ LeaseInv
      /\ SentInv /\ IncludedIsExecuted
    BY DEF QueueInv
<1>1. TypeOK'
    BY <1>0 DEF TypeOK, ClaimServed, ClaimAllowed, ClaimWalletUserOp, walletVars, faultVars,
       Statuses, Pcs
<1>2. TxInv'
    BY <1>0 DEF TxInv, TypeOK, ClaimServed, ClaimAllowed, ClaimWalletUserOp
<1>3. ReportInv'
    BY <1>0 DEF ReportInv, TypeOK, TxInv, ClaimServed, ClaimAllowed, ClaimWalletUserOp, At
<1>4. VersionInv'
    BY <1>0 DEF VersionInv, AheadByOne, TypeOK, ReportInv, NewInv, ClaimServed,
       ClaimAllowed, ClaimWalletUserOp, At
<1>5. NewInv'
    BY <1>0 DEF NewInv, TypeOK, ReportInv, ClaimServed, ClaimAllowed, ClaimWalletUserOp
<1>6. LeaseInv'
    BY <1>0 DEF LeaseInv, TypeOK, ClaimServed, ClaimAllowed, ClaimWalletUserOp, Terminal,
       Refused
<1>7. SentInv'
    BY <1>0 DEF SentInv, InFlight, Waits, TypeOK, TxInv, VersionInv, ReportInv, ClaimServed,
       ClaimAllowed, ClaimWalletUserOp
<1>8. IncludedIsExecuted'
    BY <1>0 DEF IncludedIsExecuted, TypeOK, ReportInv, TxInv, ClaimServed, ClaimAllowed,
       ClaimWalletUserOp
<1> QED BY <1>1, <1>2, <1>3, <1>4, <1>5, <1>6, <1>7, <1>8 DEF QueueInv

\* A report that is served.
LEMMA TrackKeeps ==
    ASSUME QueueInv, NEW b \in Bundlers, TrackServed(b)
    PROVE  QueueInv'
<1> USE QueueAssumption
<1>0. TypeOK /\ TxInv /\ ReportInv /\ VersionInv /\ NewInv /\ LeaseInv
      /\ SentInv /\ IncludedIsExecuted
    BY DEF QueueInv
<1>1. TypeOK'
    BY <1>0 DEF TypeOK, TrackServed, TrackAllowed, TrackWalletUserOp, LoopOver, Goto, Done,
       Idle, walletVars, faultVars, Statuses, Pcs
<1>2. TxInv'
    BY <1>0 DEF TxInv, TypeOK, TrackServed, TrackAllowed, TrackWalletUserOp, LoopOver
<1>3. ReportInv'
    BY <1>0 DEF ReportInv, TypeOK, TxInv, TrackServed, TrackAllowed, TrackWalletUserOp,
       LoopOver, Goto, Done, Idle, At
<1>4. VersionInv'
    BY <1>0 DEF VersionInv, AheadByOne, TypeOK, ReportInv, NewInv, TrackServed,
       TrackAllowed, TrackWalletUserOp, LoopOver, Goto, Done, Idle, At, Refused
<1>5. NewInv'
    BY <1>0 DEF NewInv, TypeOK, ReportInv, TrackServed, TrackAllowed, TrackWalletUserOp,
       LoopOver
<1>6. LeaseInv'
    BY <1>0 DEF LeaseInv, TypeOK, TrackServed, TrackAllowed, TrackWalletUserOp, LoopOver
<1>7. SentInv'
    BY <1>0 DEF SentInv, InFlight, Waits, TypeOK, TxInv, VersionInv, ReportInv, TrackServed,
       TrackAllowed, TrackWalletUserOp, LoopOver, At, Calls
<1>8. IncludedIsExecuted'
    BY <1>0 DEF IncludedIsExecuted, TypeOK, ReportInv, TxInv, TrackServed, TrackAllowed,
       TrackWalletUserOp, LoopOver
<1> QED BY <1>1, <1>2, <1>3, <1>4, <1>5, <1>6, <1>7, <1>8 DEF QueueInv

\* A request answered 409.
LEMMA ConflictKeeps ==
    ASSUME QueueInv, NEW b \in Bundlers, Conflict(b)
    PROVE  QueueInv'
<1> USE QueueAssumption
<1>0. TypeOK /\ TxInv /\ ReportInv /\ VersionInv /\ NewInv /\ LeaseInv
      /\ SentInv /\ IncludedIsExecuted
    BY DEF QueueInv
<1>1. TypeOK'
    BY <1>0 DEF TypeOK, Conflict, AfterConflict, TrackAllowed, ClaimAllowed, LoopOver, Goto,
       Done, Idle, walletVars, faultVars, Pcs
<1>2. TxInv'
    BY <1>0 DEF TxInv, TypeOK, Conflict, AfterConflict, TrackAllowed, ClaimAllowed, LoopOver
<1>3. ReportInv'
    BY <1>0 DEF ReportInv, TypeOK, TxInv, Conflict, AfterConflict, TrackAllowed,
       ClaimAllowed, LoopOver, Goto, Done, Idle, At
<1>4. VersionInv'
    BY <1>0 DEF VersionInv, AheadByOne, TypeOK, ReportInv, NewInv, Conflict, AfterConflict,
       TrackAllowed, ClaimAllowed, LoopOver, Goto, Done, Idle, At, Calls
<1>5. NewInv'
    BY <1>0 DEF NewInv, TypeOK, ReportInv, Conflict, AfterConflict, TrackAllowed,
       ClaimAllowed, LoopOver
<1>6. LeaseInv'
    BY <1>0 DEF LeaseInv, TypeOK, Conflict, AfterConflict, TrackAllowed, ClaimAllowed,
       LoopOver
<1>7. SentInv'
    BY <1>0 DEF SentInv, InFlight, Waits, TypeOK, TxInv, VersionInv, ReportInv, Conflict,
       AfterConflict, TrackAllowed, ClaimAllowed, LoopOver, Goto, Done, Idle, At
<1>8. IncludedIsExecuted'
    BY <1>0 DEF IncludedIsExecuted, TypeOK, ReportInv, TxInv, Conflict, AfterConflict,
       TrackAllowed, ClaimAllowed, LoopOver
<1> QED BY <1>1, <1>2, <1>3, <1>4, <1>5, <1>6, <1>7, <1>8 DEF QueueInv

\* The broadcast, and a gas estimate that fails.
LEMMA SendKeeps ==
    ASSUME QueueInv, NEW b \in Bundlers, SendHandleOps(b)
    PROVE  QueueInv'
<1> USE QueueAssumption
<1>0. TypeOK /\ TxInv /\ ReportInv /\ VersionInv /\ NewInv /\ LeaseInv
      /\ SentInv /\ IncludedIsExecuted
    BY DEF QueueInv
<1>1. TypeOK'
  <2>1. unmarked' \in BOOLEAN /\ tx' \in [Bundlers -> TxStates]
      BY <1>0 DEF TypeOK, SendHandleOps, Broadcast, TxStates
  <2>2. wk' \in [Bundlers -> [pc : Pcs, ver : Nat, claimed : Nat,
                             report : {"none", "submitted"} \cup Terminal]]
      BY <1>0 DEF TypeOK, SendHandleOps, Goto, Done, Idle, Pcs
  <2> QED BY <2>1, <2>2, <1>0 DEF TypeOK, SendHandleOps, walletVars, faultVars
<1>2. TxInv'
    BY <1>0 DEF TxInv, TypeOK, SendHandleOps, Broadcast
<1>3. ReportInv'
    BY <1>0 DEF ReportInv, TypeOK, TxInv, SendHandleOps, Broadcast, Goto, Done, Idle, At
<1>4. VersionInv'
    BY <1>0 DEF VersionInv, AheadByOne, TypeOK, ReportInv, NewInv, SendHandleOps, Broadcast,
       Goto, Done, Idle, At, Calls
<1>5. NewInv'
    BY <1>0 DEF NewInv, TypeOK, ReportInv, SendHandleOps, Broadcast
<1>6. LeaseInv'
    BY <1>0 DEF LeaseInv, TypeOK, SendHandleOps, Broadcast
<1>7. SentInv'
  <2>1. CASE op # "open"
      BY <2>1, <1>0 DEF SendHandleOps, Broadcast, Done, Idle, SentInv, InFlight, Waits, At, TypeOK, TxInv
  <2>2. CASE op = "open"
    <3>1. /\ row' = row /\ op' = op /\ At(b, "send")
          /\ unmarked' = (unmarked \/ row.status # "submitted" \/ row.claimedBy # b)
          /\ \A c \in Bundlers : c # b => wk'[c] = wk[c] /\ tx'[c] = tx[c]
          /\ wk'[b].pc = "wait" /\ tx'[b] = "pending"
        BY <2>2, <1>0 DEF SendHandleOps, Broadcast, Goto, TypeOK
    <3>2. SUFFICES ASSUME ~unmarked', NEW c \in Bundlers, InFlight(c)'
                   PROVE  (row.status = "included" \/ Waits(c))'
        BY DEF SentInv
    <3>3. ~unmarked /\ row.status = "submitted" /\ row.claimedBy = b
        BY <3>1, <3>2
    <3>4. CASE c = b
        BY <3>1, <3>3, <3>4 DEF Waits
    <3>5. CASE c # b
        BY <3>1, <3>2, <3>3, <3>5, <1>0 DEF SentInv, InFlight, Waits
    <3> QED BY <3>4, <3>5
  <2> QED BY <2>1, <2>2
<1>8. IncludedIsExecuted'
    BY <1>0 DEF IncludedIsExecuted, TypeOK, ReportInv, TxInv, SendHandleOps, Broadcast
<1> QED BY <1>1, <1>2, <1>3, <1>4, <1>5, <1>6, <1>7, <1>8 DEF QueueInv

\* The receipt.
LEMMA ReceiptKeeps ==
    ASSUME QueueInv, NEW b \in Bundlers, Receipt(b)
    PROVE  QueueInv'
<1> USE QueueAssumption
<1>0. TypeOK /\ TxInv /\ ReportInv /\ VersionInv /\ NewInv /\ LeaseInv
      /\ SentInv /\ IncludedIsExecuted
    BY DEF QueueInv
<1>1. TypeOK'
    BY <1>0 DEF TypeOK, Receipt, AfterReceipt, Report, Done, Idle, walletVars, faultVars,
       Pcs
<1>2. TxInv'
    BY <1>0 DEF TxInv, TypeOK, Receipt, AfterReceipt, Report
<1>3. ReportInv'
    BY <1>0 DEF ReportInv, TypeOK, TxInv, Receipt, AfterReceipt, Report, Done, Idle, At
<1>4. VersionInv'
  <2>1. CASE tx[b] = "void"
      BY <2>1, <1>0 DEF Receipt, AfterReceipt, Done, Idle, VersionInv, AheadByOne, At, Calls, TypeOK
  <2>2. CASE tx[b] # "void"
    <3>1. /\ row' = row /\ \A c \in Bundlers : c # b => wk'[c] = wk[c]
          /\ wk'[b].pc = "track" /\ wk'[b].ver = wk[b].claimed + 1
          /\ wk'[b].report \in {"included", "failed"} /\ wk[b].pc = "wait"
        BY <2>2, <1>0 DEF Receipt, AfterReceipt, Report, TypeOK, At
    <3>2. /\ wk[b].claimed <= row.version /\ wk[b].claimed \in Nat /\ row.version \in Nat
          /\ wk[b].claimed = row.version => row.status = "claimed" /\ row.claimedBy = b
          /\ wk[b].claimed + 1 = row.version => row.status \in {"claimed", "submitted"}
        BY <3>1, <1>0 DEF VersionInv, TypeOK
    <3>3. wk'[b].ver <= row.version \/ wk'[b].ver = row.version + 1
        BY <3>1, <3>2
    <3> QED BY <3>1, <3>2, <3>3, <1>0 DEF VersionInv, AheadByOne, At
  <2> QED BY <2>1, <2>2
<1>5. NewInv'
    BY <1>0 DEF NewInv, TypeOK, ReportInv, Receipt, AfterReceipt, Report
<1>6. LeaseInv'
    BY <1>0 DEF LeaseInv, TypeOK, Receipt, AfterReceipt, Report
<1>7. SentInv'
    BY <1>0 DEF SentInv, InFlight, Waits, TypeOK, TxInv, VersionInv, ReportInv, Receipt,
       AfterReceipt, Report, Done, At
<1>8. IncludedIsExecuted'
    BY <1>0 DEF IncludedIsExecuted, TypeOK, ReportInv, TxInv, Receipt, AfterReceipt, Report
<1> QED BY <1>1, <1>2, <1>3, <1>4, <1>5, <1>6, <1>7, <1>8 DEF QueueInv

\* The EntryPoint.
LEMMA MineKeeps ==
    ASSUME QueueInv, NEW b \in Bundlers, Mine(b)
    PROVE  QueueInv'
<1> USE QueueAssumption
<1>0. TypeOK /\ TxInv /\ ReportInv /\ VersionInv /\ NewInv /\ LeaseInv
      /\ SentInv /\ IncludedIsExecuted
    BY DEF QueueInv
<1>1. TypeOK'
    BY <1>0 DEF TypeOK, Mine, walletVars, faultVars, TxStates
<1>2. TxInv'
    BY <1>0 DEF TxInv, TypeOK, Mine
<1>3. ReportInv'
    BY <1>0 DEF ReportInv, TypeOK, TxInv, Mine, At
<1>4. VersionInv'
    BY <1>0 DEF VersionInv, AheadByOne, TypeOK, ReportInv, NewInv, Mine, At
<1>5. NewInv'
    BY <1>0 DEF NewInv, TypeOK, ReportInv, Mine
<1>6. LeaseInv'
    BY <1>0 DEF LeaseInv, TypeOK, Mine
<1>7. SentInv'
    BY <1>0 DEF SentInv, InFlight, Waits, TypeOK, TxInv, VersionInv, ReportInv, Mine, At
<1>8. IncludedIsExecuted'
    BY <1>0 DEF IncludedIsExecuted, TypeOK, ReportInv, TxInv, Mine
<1> QED BY <1>1, <1>2, <1>3, <1>4, <1>5, <1>6, <1>7, <1>8 DEF QueueInv

\* A failed call before the claim.
LEMMA RpcFailsKeeps ==
    ASSUME QueueInv, NEW b \in Bundlers, RpcFails(b)
    PROVE  QueueInv'
<1> USE QueueAssumption
<1>0. TypeOK /\ TxInv /\ ReportInv /\ VersionInv /\ NewInv /\ LeaseInv
      /\ SentInv /\ IncludedIsExecuted
    BY DEF QueueInv
<1>1. TypeOK'
    BY <1>0 DEF TypeOK, RpcFails, Fault, Done, Idle, walletVars, Pcs
<1>2. TxInv'
    BY <1>0 DEF TxInv, TypeOK, RpcFails, Fault
<1>3. ReportInv'
    BY <1>0 DEF ReportInv, TypeOK, TxInv, RpcFails, Fault, Done, Idle, At
<1>4. VersionInv'
    BY <1>0 DEF VersionInv, AheadByOne, TypeOK, ReportInv, NewInv, RpcFails, Fault, Done,
       Idle, At
<1>5. NewInv'
    BY <1>0 DEF NewInv, TypeOK, ReportInv, RpcFails, Fault
<1>6. LeaseInv'
    BY <1>0 DEF LeaseInv, TypeOK, RpcFails, Fault
<1>7. SentInv'
    BY <1>0 DEF SentInv, InFlight, Waits, TypeOK, TxInv, VersionInv, ReportInv, RpcFails,
       Fault, Done, At
<1>8. IncludedIsExecuted'
    BY <1>0 DEF IncludedIsExecuted, TypeOK, ReportInv, TxInv, RpcFails, Fault
<1> QED BY <1>1, <1>2, <1>3, <1>4, <1>5, <1>6, <1>7, <1>8 DEF QueueInv

\* A call that throws before or after it was served.
LEMMA CallLostKeeps ==
    ASSUME QueueInv, NEW b \in Bundlers, CallLost(b)
    PROVE  QueueInv'
<1> USE QueueAssumption
<1>0. TypeOK /\ TxInv /\ ReportInv /\ VersionInv /\ NewInv /\ LeaseInv
      /\ SentInv /\ IncludedIsExecuted
    BY DEF QueueInv
<1>1. TypeOK'
  <2>0. wk' = [wk EXCEPT ![b] = Idle] /\ UNCHANGED <<op, asked, asks>>
        /\ faults' = faults - 1 /\ faults > 0 /\ disturbed' = TRUE
      BY DEF CallLost, Fault, Done, walletVars
  <2>1. CASE At(b, "claim") /\ ClaimAllowed(b, wk[b].ver) /\ ClaimWalletUserOp(b) /\ UNCHANGED <<tx, unmarked>>
      BY <1>0, <2>0, <2>1 DEF TypeOK, Idle, Pcs, ClaimAllowed, ClaimWalletUserOp, At, Statuses, Terminal, Refused, Calls
  <2>2. CASE At(b, "track") /\ TrackAllowed(b, wk[b].ver) /\ TrackWalletUserOp(wk[b].report) /\ UNCHANGED <<tx, unmarked>>
      BY <1>0, <2>0, <2>2 DEF TypeOK, Idle, Pcs, TrackAllowed, TrackWalletUserOp, At, Statuses, Terminal, Refused, Calls
  <2>3. CASE Broadcast(b) /\ UNCHANGED row
      BY <1>0, <2>0, <2>3 DEF TypeOK, Idle, Pcs, Broadcast, At, TxStates, Calls, Terminal, Statuses
  <2>4. CASE UNCHANGED <<row, tx, unmarked>>
      BY <1>0, <2>0, <2>4 DEF TypeOK, Idle, Pcs, At, Calls, Terminal, Statuses
  <2> QED BY <2>1, <2>2, <2>3, <2>4 DEF CallLost
<1>2. TxInv'
    BY <1>0 DEF TxInv, TypeOK, CallLost, Fault, ClaimAllowed, ClaimWalletUserOp,
       TrackAllowed, TrackWalletUserOp, Broadcast
<1>3. ReportInv'
    BY <1>0 DEF ReportInv, TypeOK, TxInv, CallLost, Fault, ClaimAllowed, ClaimWalletUserOp,
       TrackAllowed, TrackWalletUserOp, Broadcast, Done, Idle, At
<1>4. VersionInv'
    BY <1>0 DEF VersionInv, AheadByOne, TypeOK, ReportInv, NewInv, CallLost, Fault,
       ClaimAllowed, ClaimWalletUserOp, TrackAllowed, TrackWalletUserOp, Broadcast, Done, Idle,
       At
<1>5. NewInv'
    BY <1>0 DEF NewInv, TypeOK, ReportInv, CallLost, Fault, ClaimAllowed, ClaimWalletUserOp,
       TrackAllowed, TrackWalletUserOp, Broadcast
<1>6. LeaseInv'
  <2>0. wk' = [wk EXCEPT ![b] = Idle] /\ UNCHANGED <<op, asked, asks>>
        /\ faults' = faults - 1 /\ faults > 0 /\ disturbed' = TRUE
      BY DEF CallLost, Fault, Done, walletVars
  <2>1. CASE At(b, "claim") /\ ClaimAllowed(b, wk[b].ver) /\ ClaimWalletUserOp(b) /\ UNCHANGED <<tx, unmarked>>
      BY <1>0, <2>0, <2>1 DEF LeaseInv, TypeOK, ClaimAllowed, ClaimWalletUserOp, At, Statuses, Terminal, Refused, Calls
  <2>2. CASE At(b, "track") /\ TrackAllowed(b, wk[b].ver) /\ TrackWalletUserOp(wk[b].report) /\ UNCHANGED <<tx, unmarked>>
      BY <1>0, <2>0, <2>2 DEF LeaseInv, TypeOK, TrackAllowed, TrackWalletUserOp, At, Statuses, Terminal, Refused, Calls
  <2>3. CASE Broadcast(b) /\ UNCHANGED row
      BY <1>0, <2>0, <2>3 DEF LeaseInv, TypeOK, Broadcast, At, TxStates, Calls, Terminal, Statuses
  <2>4. CASE UNCHANGED <<row, tx, unmarked>>
      BY <1>0, <2>0, <2>4 DEF LeaseInv, TypeOK, At, Calls, Terminal, Statuses
  <2> QED BY <2>1, <2>2, <2>3, <2>4 DEF CallLost
<1>7. SentInv'
  <2>0. wk' = [wk EXCEPT ![b] = Idle] /\ UNCHANGED <<op, asked, asks>>
        /\ faults' = faults - 1 /\ faults > 0 /\ disturbed' = TRUE
      BY DEF CallLost, Fault, Done, walletVars
  <2>1. CASE At(b, "claim") /\ ClaimAllowed(b, wk[b].ver) /\ ClaimWalletUserOp(b) /\ UNCHANGED <<tx, unmarked>>
      BY <1>0, <2>0, <2>1 DEF SentInv, InFlight, Waits, Idle, TypeOK, TxInv, VersionInv, ReportInv, ClaimAllowed, ClaimWalletUserOp, At, Statuses, Terminal, Refused, Calls
  <2>2. CASE At(b, "track") /\ TrackAllowed(b, wk[b].ver) /\ TrackWalletUserOp(wk[b].report) /\ UNCHANGED <<tx, unmarked>>
      BY <1>0, <2>0, <2>2 DEF SentInv, InFlight, Waits, Idle, TypeOK, TxInv, VersionInv, ReportInv, TrackAllowed, TrackWalletUserOp, At, Statuses, Terminal, Refused, Calls
  <2>3. CASE Broadcast(b) /\ UNCHANGED row
      BY <1>0, <2>0, <2>3 DEF SentInv, InFlight, Waits, Idle, TypeOK, TxInv, VersionInv, ReportInv, Broadcast, At, TxStates, Calls, Terminal, Statuses
  <2>4. CASE UNCHANGED <<row, tx, unmarked>>
      BY <1>0, <2>0, <2>4 DEF SentInv, InFlight, Waits, Idle, TypeOK, TxInv, VersionInv, ReportInv, At, Calls, Terminal, Statuses
  <2> QED BY <2>1, <2>2, <2>3, <2>4 DEF CallLost
<1>8. IncludedIsExecuted'
    BY <1>0 DEF IncludedIsExecuted, TypeOK, ReportInv, TxInv, CallLost, Fault, ClaimAllowed,
       ClaimWalletUserOp, TrackAllowed, TrackWalletUserOp, Broadcast
<1> QED BY <1>1, <1>2, <1>3, <1>4, <1>5, <1>6, <1>7, <1>8 DEF QueueInv

\* 5xx answers to the end.
LEMMA ServerBusyKeeps ==
    ASSUME QueueInv, NEW b \in Bundlers, ServerBusy(b)
    PROVE  QueueInv'
<1> USE QueueAssumption
<1>0. TypeOK /\ TxInv /\ ReportInv /\ VersionInv /\ NewInv /\ LeaseInv
      /\ SentInv /\ IncludedIsExecuted
    BY DEF QueueInv
<1>1. TypeOK'
    BY <1>0 DEF TypeOK, ServerBusy, Fault, LoopOver, Goto, Done, Idle, walletVars, Pcs
<1>2. TxInv'
    BY <1>0 DEF TxInv, TypeOK, ServerBusy, Fault, LoopOver
<1>3. ReportInv'
    BY <1>0 DEF ReportInv, TypeOK, TxInv, ServerBusy, Fault, LoopOver, Goto, Done, Idle, At
<1>4. VersionInv'
    BY <1>0 DEF VersionInv, AheadByOne, TypeOK, ReportInv, NewInv, ServerBusy, Fault,
       LoopOver, Goto, Done, Idle, At, Calls
<1>5. NewInv'
    BY <1>0 DEF NewInv, TypeOK, ReportInv, ServerBusy, Fault, LoopOver
<1>6. LeaseInv'
    BY <1>0 DEF LeaseInv, TypeOK, ServerBusy, Fault, LoopOver
<1>7. SentInv'
    BY <1>0 DEF SentInv, InFlight, Waits, TypeOK, TxInv, VersionInv, ReportInv, ServerBusy,
       Fault, LoopOver, Goto, Done, Idle, At
<1>8. IncludedIsExecuted'
    BY <1>0 DEF IncludedIsExecuted, TypeOK, ReportInv, TxInv, ServerBusy, Fault, LoopOver
<1> QED BY <1>1, <1>2, <1>3, <1>4, <1>5, <1>6, <1>7, <1>8 DEF QueueInv

\* A bundler that dies.
LEMMA CrashKeeps ==
    ASSUME QueueInv, NEW b \in Bundlers, Crash(b)
    PROVE  QueueInv'
<1> USE QueueAssumption
<1>0. TypeOK /\ TxInv /\ ReportInv /\ VersionInv /\ NewInv /\ LeaseInv
      /\ SentInv /\ IncludedIsExecuted
    BY DEF QueueInv
<1>1. TypeOK'
    BY <1>0 DEF TypeOK, Crash, Fault, Done, Idle, walletVars, Pcs
<1>2. TxInv'
    BY <1>0 DEF TxInv, TypeOK, Crash, Fault
<1>3. ReportInv'
    BY <1>0 DEF ReportInv, TypeOK, TxInv, Crash, Fault, Done, Idle, At
<1>4. VersionInv'
    BY <1>0 DEF VersionInv, AheadByOne, TypeOK, ReportInv, NewInv, Crash, Fault, Done, Idle,
       At, Calls
<1>5. NewInv'
    BY <1>0 DEF NewInv, TypeOK, ReportInv, Crash, Fault
<1>6. LeaseInv'
    BY <1>0 DEF LeaseInv, TypeOK, Crash, Fault
<1>7. SentInv'
    BY <1>0 DEF SentInv, InFlight, Waits, TypeOK, TxInv, VersionInv, ReportInv, Crash,
       Fault, Done, Idle, At
<1>8. IncludedIsExecuted'
    BY <1>0 DEF IncludedIsExecuted, TypeOK, ReportInv, TxInv, Crash, Fault
<1> QED BY <1>1, <1>2, <1>3, <1>4, <1>5, <1>6, <1>7, <1>8 DEF QueueInv

\* A lease that runs out.
LEMMA LeaseKeeps ==
    ASSUME QueueInv, LeaseExpires
    PROVE  QueueInv'
<1> USE QueueAssumption
<1>0. TypeOK /\ TxInv /\ ReportInv /\ VersionInv /\ NewInv /\ LeaseInv
      /\ SentInv /\ IncludedIsExecuted
    BY DEF QueueInv
<1>1. TypeOK'
  <2>1. disturbed' \in BOOLEAN /\ faults' \in Nat
      BY <1>0 DEF TypeOK, LeaseExpires, Fault
  <2>2. row' \in [status : Statuses, version : Nat,
                  claimedBy : Bundlers \cup {Nobody}, leaseLive : BOOLEAN]
      BY <1>0 DEF TypeOK, LeaseExpires
  <2> QED BY <2>1, <2>2, <1>0 DEF TypeOK, LeaseExpires, walletVars
<1>2. TxInv'
    BY <1>0 DEF TxInv, TypeOK, LeaseExpires, Fault
<1>3. ReportInv'
    BY <1>0 DEF ReportInv, TypeOK, TxInv, LeaseExpires, Fault, At
<1>4. VersionInv'
    BY <1>0 DEF VersionInv, AheadByOne, TypeOK, ReportInv, NewInv, LeaseExpires, Fault, At
<1>5. NewInv'
    BY <1>0 DEF NewInv, TypeOK, ReportInv, LeaseExpires, Fault
<1>6. LeaseInv'
    BY <1>0 DEF LeaseInv, TypeOK, LeaseExpires, Fault
<1>7. SentInv'
    BY <1>0 DEF SentInv, InFlight, Waits, TypeOK, TxInv, VersionInv, ReportInv,
       LeaseExpires, Fault, At
<1>8. IncludedIsExecuted'
    BY <1>0 DEF IncludedIsExecuted, TypeOK, ReportInv, TxInv, LeaseExpires, Fault
<1> QED BY <1>1, <1>2, <1>3, <1>4, <1>5, <1>6, <1>7, <1>8 DEF QueueInv

-----------------------------------------------------------------------------

LEMMA QueueStep == QueueInv /\ [Next]_vars => QueueInv'
<1> SUFFICES ASSUME QueueInv, [Next]_vars PROVE QueueInv'
    OBVIOUS
<1>1. CASE UNCHANGED vars
    BY <1>1 DEF vars, walletVars, faultVars, QueueInv, TypeOK, TxInv, ReportInv, VersionInv,
                AheadByOne, NewInv, LeaseInv, SentInv, InFlight, Waits, IncludedIsExecuted, At
<1>2. CASE Ask \/ CreateWalletUserOp \/ RequeueWalletUserOp \/ LeaseExpires
    BY <1>2, AskKeeps, CreateKeeps, RequeueKeeps, LeaseKeeps
<1>3. CASE \E b \in Bundlers : Tick(b)
    BY <1>3, FetchKeeps, CheckKeeps, ClaimKeeps, TrackKeeps, ConflictKeeps, SendKeeps,
       ReceiptKeeps DEF Tick
<1>4. CASE \E b \in Bundlers : BundlerFault(b) \/ Mine(b)
    BY <1>4, MineKeeps, RpcFailsKeeps, CallLostKeeps, ServerBusyKeeps, CrashKeeps DEF BundlerFault
<1> QED BY <1>1, <1>2, <1>3, <1>4 DEF Next

(* The inductive invariant of the operation queue.                          *)
THEOREM QueueInvariance == Spec => []QueueInv
BY InitQueue, QueueStep, PTL DEF Spec

(* Every variable keeps its type, so every report is a status the server    *)
(* accepts.                                                                 *)
THEOREM QueueTypeCorrect == Spec => []TypeOK
<1>1. QueueInv => TypeOK
    BY DEF QueueInv
<1> QED BY <1>1, QueueInvariance, PTL

(* An operation shown as included was executed and did not revert, for any  *)
(* number of bundlers (processUserOp's report after the receipt).           *)
THEOREM IncludedWasExecuted == Spec => []IncludedIsExecuted
<1>1. QueueInv => IncludedIsExecuted
    BY DEF QueueInv
<1> QED BY <1>1, QueueInvariance, PTL

(* An operation shown as rejected or failed was not executed, unless some   *)
(* bundler broadcast it without its submitted report in the row.            *)
THEOREM RefusedWasNotExecuted == Spec => []RefusedNotExecuted
<1>1. QueueInv => RefusedNotExecuted
  <2> SUFFICES ASSUME QueueInv, op = "done", ~unmarked PROVE row.status \notin Refused
      BY DEF RefusedNotExecuted
  <2>1. PICK b \in Bundlers : tx[b] = "done"
      BY DEF QueueInv, TxInv
  <2> QED BY <2>1 DEF QueueInv, SentInv, InFlight, Waits, Refused
<1> QED BY <1>1, QueueInvariance, PTL

(* An included operation stays included: whoever still reports holds a      *)
(* version of the row from before (VersionInv).                             *)
THEOREM IncludedStays == Spec => IncludedIsFinal
<1>1. QueueInv /\ [Next]_vars => [row.status = "included" => row' = row]_row
  <2> SUFFICES ASSUME QueueInv, Next, row.status = "included" PROVE row' = row
      BY DEF vars
  <2>1. \A b \in Bundlers : At(b, "track") => ~TrackAllowed(b, wk[b].ver)
      BY DEF QueueInv, VersionInv, TrackAllowed, At, Calls
  <2>2. \A b \in Bundlers : ~ClaimAllowed(b, wk[b].ver)
      BY DEF ClaimAllowed
  <2>3. ~row.leaseLive /\ row.status \notin Refused \cup {"none"}
      BY DEF QueueInv, LeaseInv, Refused, Terminal
  <2>4. CASE Ask \/ CreateWalletUserOp \/ RequeueWalletUserOp \/ LeaseExpires
      BY <2>3, <2>4 DEF Ask, CreateWalletUserOp, RequeueWalletUserOp, LeaseExpires
  <2>5. CASE \E b \in Bundlers : Tick(b)
      BY <2>1, <2>2, <2>5 DEF Tick, FetchUserOps, CheckUserOp, ClaimServed, TrackServed,
         Conflict, SendHandleOps, Receipt
  <2>6. CASE \E b \in Bundlers : BundlerFault(b) \/ Mine(b)
      BY <2>1, <2>2, <2>6 DEF BundlerFault, RpcFails, CallLost, ServerBusy, Crash, Mine
  <2> QED BY <2>4, <2>5, <2>6 DEF Next
<1> QED BY <1>1, QueueInvariance, PTL DEF Spec, IncludedIsFinal

(* While its lease lives, a claim ends by its holder's own last report      *)
(* alone (the WHERE of claimWalletUserOp, trackWalletUserOp's check).       *)
THEOREM ClaimIsExclusive == Spec => LiveClaimNotStolen
<1>1. QueueInv /\ [Next]_vars
        => [\A b \in Bundlers :
              row.leaseLive /\ row.claimedBy = b /\ row'.claimedBy # b =>
                At(b, "track") /\ row'.status \in Terminal]_row
  <2> SUFFICES ASSUME QueueInv, Next, NEW b \in Bundlers,
                      row.leaseLive, row.claimedBy = b, row'.claimedBy # b
               PROVE  At(b, "track") /\ row'.status \in Terminal
      BY DEF vars
  <2>1. row.status \notin Terminal /\ TypeOK /\ b # Nobody
      BY QueueAssumption DEF QueueInv, LeaseInv
  <2>2. \A c \in Bundlers : ClaimAllowed(c, wk[c].ver) /\ ClaimWalletUserOp(c) => row'.claimedBy = b
      BY <2>1 DEF ClaimAllowed, ClaimWalletUserOp
  <2>3. ASSUME NEW c \in Bundlers, At(c, "track"), TrackAllowed(c, wk[c].ver),
               TrackWalletUserOp(wk[c].report)
        PROVE  At(b, "track") /\ row'.status \in Terminal
      BY <2>1, <2>3 DEF TrackAllowed, TrackWalletUserOp
  <2>4. row' # row
      OBVIOUS
  <2>5. CASE Ask \/ CreateWalletUserOp \/ RequeueWalletUserOp \/ LeaseExpires
      BY <2>1, <2>4, <2>5 DEF Ask, CreateWalletUserOp, RequeueWalletUserOp, LeaseExpires, TypeOK,
         Terminal
  <2>6. CASE \E c \in Bundlers : Tick(c)
    <3>1. PICK c \in Bundlers : Tick(c)
        BY <2>6
    <3> QED BY <2>2, <2>3, <2>4, <3>1 DEF Tick, FetchUserOps, CheckUserOp, ClaimServed, TrackServed,
           Conflict, SendHandleOps, Receipt
  <2>7. CASE \E c \in Bundlers : BundlerFault(c) \/ Mine(c)
    <3>1. PICK c \in Bundlers : BundlerFault(c) \/ Mine(c)
        BY <2>7
    <3> QED BY <2>2, <2>3, <2>4, <3>1 DEF BundlerFault, RpcFails, CallLost, ServerBusy, Crash, Mine
  <2> QED BY <2>5, <2>6, <2>7 DEF Next
<1> QED BY <1>1, QueueInvariance, PTL DEF Spec, LiveClaimNotStolen

-----------------------------------------------------------------------------
(* The operation as the wallet sees it.                                     *)

\* No bundler works on an operation that has no row yet.
UntouchedInv == row.status = "none" => \A b \in Bundlers : At(b, "idle") /\ tx[b] = "none"

LEMMA UntouchedStep ==
    ASSUME QueueInv, UntouchedInv, [Next]_vars
    PROVE  UntouchedInv'
<1> SUFFICES ASSUME row'.status = "none" PROVE (\A b \in Bundlers : At(b, "idle") /\ tx[b] = "none")'
    BY DEF UntouchedInv
<1>1. CASE row.status = "none"
  <2>1. \A b \in Bundlers : At(b, "idle") /\ tx[b] = "none"
      BY <1>1 DEF UntouchedInv
  <2>2. UNCHANGED <<wk, tx>>
    <3>1. CASE \E b \in Bundlers : Tick(b) \/ BundlerFault(b) \/ Mine(b)
        BY <1>1, <2>1, <3>1 DEF Tick, FetchUserOps, CheckUserOp, ClaimServed, TrackServed, Conflict,
           SendHandleOps, Receipt, BundlerFault, RpcFails, CallLost, ServerBusy, Crash, Mine, At, Calls
    <3> QED BY <3>1 DEF Next, Ask, CreateWalletUserOp, RequeueWalletUserOp, LeaseExpires, vars
  <2> QED BY <2>1, <2>2 DEF At
<1>2. CASE row.status # "none"
  <2>1. row' # row
      BY <1>2
  <2>2. TypeOK /\ ReportInv
      BY DEF QueueInv
  <2>3. \A b \in Bundlers : At(b, "track") /\ TrackWalletUserOp(wk[b].report) => row'.status # "none"
      BY <2>2 DEF ReportInv, TrackWalletUserOp
  <2>4. CASE \E b \in Bundlers : Tick(b)
      BY <2>1, <2>3, <2>4 DEF Tick, FetchUserOps, CheckUserOp, ClaimServed, TrackServed, Conflict,
         SendHandleOps, Receipt, ClaimWalletUserOp
  <2>5. CASE \E b \in Bundlers : BundlerFault(b) \/ Mine(b)
      BY <2>1, <2>3, <2>5 DEF BundlerFault, RpcFails, CallLost, ServerBusy, Crash, Mine,
         ClaimWalletUserOp
  <2>6. CASE Ask \/ CreateWalletUserOp \/ RequeueWalletUserOp \/ LeaseExpires
      BY <1>2, <2>1, <2>2, <2>6 DEF Ask, CreateWalletUserOp, RequeueWalletUserOp, LeaseExpires, TypeOK
  <2> QED BY <2>1, <2>4, <2>5, <2>6 DEF Next, vars
<1> QED BY <1>1, <1>2

LEMMA UntouchedInvariance == Spec => []UntouchedInv
<1>1. Init => UntouchedInv
  <2> SUFFICES ASSUME Init PROVE UntouchedInv
      OBVIOUS
  <2>1. \A b \in Bundlers : tx[b] = "none" /\ wk[b].pc = "idle"
      BY DEF Init, Idle
  <2> QED BY <2>1 DEF UntouchedInv, At
<1> QED BY <1>1, UntouchedStep, QueueInvariance, PTL DEF Spec

\* A claim that is served leaves the operation queued.
LEMMA ClaimStaysQueued ==
    ASSUME NEW b \in Bundlers, ClaimAllowed(b, wk[b].ver), ClaimWalletUserOp(b)
    PROVE  Stage' = Stage
<1>1. row.status \in {"pending", "claimed"} /\ row'.status \in {"pending", "claimed"}
    BY DEF ClaimAllowed, ClaimWalletUserOp
<1>2. Stage = "queued" /\ Stage' = "queued"
    BY <1>1 DEF Stage, Refused
<1> QED BY <1>2

\* So a report that is served sends, refuses or includes it.
LEMMA ReportedStage ==
    ASSUME QueueInv, QueueInv', UntouchedInv, NEW b \in Bundlers, At(b, "track"),
           TrackAllowed(b, wk[b].ver), TrackWalletUserOp(wk[b].report), UNCHANGED <<op, unmarked>>
    PROVE  [Operation!Next]_(Operation!vars)
<1>1. TypeOK /\ VersionInv /\ ReportInv
    BY DEF QueueInv
<1>2. row'.status = wk[b].report /\ row'.status \in {"submitted", "included"} \cup Refused
    BY <1>1 DEF TrackWalletUserOp, TypeOK, ReportInv, Terminal
<1>3. row.status \in {"pending", "claimed", "submitted"} \cup Refused
  <2>1. row.status # "included"
      BY <1>1 DEF VersionInv, TrackAllowed, At, Calls
  <2>2. row.status # "none"
      BY DEF UntouchedInv, At
  <2> QED BY <1>1, <2>1, <2>2 DEF TypeOK, Statuses, Terminal
<1>4. Stage \in {"queued", "sent", "refused"}
    BY <1>3 DEF Stage, Refused
<1>5. CASE row'.status = "submitted"
  <2>1. Stage' = "sent"
      BY <1>5 DEF Stage, Refused
  <2> QED BY <1>4, <2>1 DEF Operation!Next, Operation!Send, Operation!vars
<1>6. CASE row'.status = "included"
  <2>1. Stage' = "included" /\ op = "done"
      BY <1>1, <1>2, <1>6 DEF Stage, Refused, ReportInv
  <2> QED BY <1>4, <2>1 DEF Operation!Next, Operation!Include
<1>7. CASE row'.status \in Refused
  <2>1. Stage' = "refused"
      BY <1>7 DEF Stage, Refused
  <2>2. op = "done" => unmarked
    <3>1. SUFFICES ASSUME op = "done", ~unmarked PROVE FALSE
        OBVIOUS
    <3>2. PICK c \in Bundlers : tx'[c] = "done"
        BY <3>1 DEF QueueInv, TxInv
    <3> QED BY <1>7, <3>1, <3>2 DEF QueueInv, SentInv, InFlight, Waits, Refused
  <2> QED BY <1>4, <2>1, <2>2 DEF Operation!Next, Operation!Refuse, Operation!vars
<1> QED BY <1>2, <1>5, <1>6, <1>7

LEMMA BroadcastSends ==
    ASSUME QueueInv, UntouchedInv, NEW b \in Bundlers, Broadcast(b), UNCHANGED <<row, op>>
    PROVE  [Operation!Next]_(Operation!vars)
<1>1. row.status # "none" /\ Stage' = Stage
    BY DEF UntouchedInv, Broadcast, At, Stage
<1>2. Stage # "none"
    BY <1>1 DEF Stage
<1>3. op = "open" /\ (unmarked' = TRUE \/ unmarked' = unmarked)
    BY DEF Broadcast, QueueInv, TypeOK
<1> QED BY <1>1, <1>2, <1>3 DEF Operation!Next, Operation!SendUnannounced, Operation!vars

\* Until the operation is executed, its row is that of the waiting bundler.
LEMMA MineExecutes ==
    ASSUME QueueInv, NEW b \in Bundlers, Mine(b)
    PROVE  [Operation!Next]_(Operation!vars)
<1>1. Stage' = Stage /\ UNCHANGED unmarked
    BY DEF Mine, Stage
<1>2. CASE op' = op
    BY <1>1, <1>2 DEF Operation!vars
<1>3. CASE op' # op
  <2>1. op = "open" /\ op' \in {"done", "reverted"} /\ InFlight(b)
      BY <1>3 DEF Mine, InFlight
  <2>2. ~unmarked => row.status = "submitted"
      BY <2>1 DEF QueueInv, SentInv, Waits, IncludedIsExecuted
  <2>3. ~unmarked => Stage = "sent"
      BY <2>2 DEF Stage, Refused
  <2>4. unmarked \in BOOLEAN
      BY DEF QueueInv, TypeOK
  <2> QED BY <1>1, <2>1, <2>3, <2>4 DEF Operation!Next, Operation!Execute
<1> QED BY <1>2, <1>3

LEMMA OperationStep ==
    ASSUME QueueInv, QueueInv', UntouchedInv, [Next]_vars
    PROVE  [Operation!Next]_(Operation!vars)
<1>1. ASSUME UNCHANGED <<row, op, unmarked>> PROVE UNCHANGED Operation!vars
    BY <1>1 DEF Operation!vars, Stage
<1>2. ASSUME NEW b \in Bundlers, ClaimAllowed(b, wk[b].ver), ClaimWalletUserOp(b),
             UNCHANGED <<op, unmarked>>
      PROVE  UNCHANGED Operation!vars
    BY <1>2, ClaimStaysQueued DEF Operation!vars
<1>3. CASE UNCHANGED vars \/ Ask
    BY <1>1, <1>3 DEF vars, Ask
<1>4. CASE CreateWalletUserOp \/ RequeueWalletUserOp
  <2>1. UNCHANGED <<op, unmarked>> /\ TypeOK
      BY <1>4 DEF CreateWalletUserOp, RequeueWalletUserOp, QueueInv
  <2>2. CASE row' = row
      BY <1>1, <2>1, <2>2
  <2>3. CASE row' # row
    <3>1. row.status \in Refused \cup {"none"} /\ row'.status = "pending"
      <4>1. CASE CreateWalletUserOp
          BY <2>1, <2>3, <4>1 DEF CreateWalletUserOp, TypeOK
      <4>2. CASE RequeueWalletUserOp
          BY <2>1, <2>3, <4>2 DEF RequeueWalletUserOp, TypeOK
      <4> QED BY <1>4, <4>1, <4>2
    <3>2. Stage \in {"none", "refused"} /\ Stage' = "queued"
        BY <3>1 DEF Stage, Refused
    <3> QED BY <2>1, <3>2 DEF Operation!Next, Operation!Request
  <2> QED BY <2>2, <2>3
<1>5. CASE LeaseExpires
  <2>1. row'.status = row.status /\ UNCHANGED <<op, unmarked>>
      BY <1>5 DEF LeaseExpires, QueueInv, TypeOK
  <2> QED BY <2>1 DEF Stage, Operation!vars
<1>6. CASE \E b \in Bundlers : Tick(b)
  <2>1. PICK b \in Bundlers : Tick(b)
      BY <1>6
  <2>2. CASE FetchUserOps(b) \/ CheckUserOp(b) \/ Conflict(b) \/ Receipt(b)
      BY <1>1, <2>2 DEF FetchUserOps, CheckUserOp, Conflict, Receipt
  <2>3. CASE ClaimServed(b)
      BY <1>2, <2>3 DEF ClaimServed
  <2>4. CASE TrackServed(b)
      BY <2>4, ReportedStage DEF TrackServed
  <2>5. CASE SendHandleOps(b)
      BY <1>1, <2>5, BroadcastSends DEF SendHandleOps
  <2> QED BY <2>1, <2>2, <2>3, <2>4, <2>5 DEF Tick
<1>7. CASE \E b \in Bundlers : BundlerFault(b) \/ Mine(b)
  <2>1. PICK b \in Bundlers : BundlerFault(b) \/ Mine(b)
      BY <1>7
  <2>2. CASE RpcFails(b) \/ ServerBusy(b) \/ Crash(b)
      BY <1>1, <2>2 DEF RpcFails, ServerBusy, Crash
  <2>3. CASE CallLost(b)
      BY <1>1, <1>2, <2>3, ReportedStage, BroadcastSends DEF CallLost
  <2> QED BY <2>1, <2>2, <2>3, MineExecutes DEF BundlerFault
<1> QED BY <1>3, <1>4, <1>5, <1>6, <1>7 DEF Next

(* What the wallet is told of its operation goes through the stages of      *)
(* WalletOperation, in step with what the chain does to it, for any number  *)
(* of bundlers, requests and faults (processUserOp, requeueWalletUserOp).   *)
THEOREM ImplementsOperation == Spec => OperationSpec
<1>1. Init => Operation!Init
  <2>1. Init => row.status = "none" /\ op = "open" /\ unmarked = FALSE
      BY DEF Init
  <2>2. row.status = "none" => Stage = "none"
      BY DEF Stage, Refused
  <2> QED BY <2>1, <2>2 DEF Operation!Init
<1>2. QueueInv /\ QueueInv' /\ UntouchedInv /\ [Next]_vars => [Operation!Next]_(Operation!vars)
    BY OperationStep
<1> QED BY <1>1, <1>2, QueueInvariance, UntouchedInvariance, PTL DEF Spec, OperationSpec, Operation!Spec
=============================================================================
