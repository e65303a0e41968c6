---------------------------- MODULE RecoveryJobs ----------------------------
(***************************************************************************)
(* The recovery of one wallet off the chain: hosted requests and the       *)
(* guardian's decision (server/wallet-hosted-recovery.ts), the table of    *)
(* recovery jobs (server/db.ts), and the activator processes that run the  *)
(* jobs on the chain (wallet-deployer/worker.ts, processRecoveryJobs).     *)
(*                                                                         *)
(* A job's version only grows, so an expected version matches exactly when *)
(* the row has not changed since the process read it: a process keeps the  *)
(* set of jobs it knows the current version of in place of the numbers.    *)
(* The claim's owner and lease are left out: every claim raises the        *)
(* version, and claimed jobs are not listed again.                         *)
(***************************************************************************)
EXTENDS Integers, Sequences, FiniteSets

CONSTANTS
    Workers,
    Requests,
    Client,             \* the key a partner's initiateRecovery asks for
    Room,               \* places of a list of 100 left to this wallet's jobs
    MaxJobs,            \* bound: jobs of the wallet
    MaxStarts,          \* bound: restores the operator starts
    MaxFaults           \* bound: lost answers, failed chain calls, crashes

ASSUME RecoveryJobsAssumption ==
    /\ IsFiniteSet(Workers) /\ Client \notin Requests
    /\ Room \in Nat /\ MaxJobs \in Nat /\ MaxStarts \in Nat /\ MaxFaults \in Nat

VARIABLES
    identity,           \* account.identityId is set (else a passkey wallet)
    operatorIsGuardian, \* recoveryOperator is the activator's own key
    delayed,            \* the restore delay or recovery timelock is not 0
    wallet,             \* a passkey wallet's: unfunded, funded or deployed
    restore,            \* pendingRestores / pendingOwner
    starts,             \* how many were started: tells one from the next
    started,            \* history: the requests a restore was started for
    restored,           \* the keys a restore added
    requests,           \* status
    jobOf,              \* job_id
    jobs,
    worker,
    alive,
    faults

setting == <<identity, operatorIsGuardian, delayed>>
chainVars == <<wallet, restore, starts, started, restored>>
requestVars == <<requests, jobOf>>
jobsVars == <<setting, chainVars, requestVars, jobs, worker, alive, faults>>

NoRestore == [active |-> FALSE, key |-> Client, due |-> FALSE]

WalletStates == {"unfunded", "funded", "deployed"}

IdleWorker == [pc |-> "idle", todo |-> {}, known |-> {}, cancelSeen |-> FALSE,
               cur |-> 0, report |-> "none", inCatch |-> FALSE, left |-> 0]

JobsInit ==
    /\ identity \in BOOLEAN /\ operatorIsGuardian \in {FALSE, identity}
    /\ delayed \in BOOLEAN
    /\ wallet \in IF identity THEN {"deployed"} ELSE WalletStates
    /\ restore = NoRestore /\ starts = 0 /\ started = {} /\ restored = {}
    /\ requests = [r \in Requests |-> "none"]
    /\ jobOf = [r \in Requests |-> 0]
    /\ jobs = <<>>
    /\ worker = [w \in Workers |-> IdleWorker] /\ alive = Workers
    /\ faults = 0

-----------------------------------------------------------------------------
(* The chain *)

StartRestore(key) ==
    /\ restore' = [active |-> TRUE, key |-> key, due |-> ~delayed]
    /\ starts' = starts + 1
    /\ started' = started \cup ({key} \cap Requests)
    /\ UNCHANGED restored

CanExecute_NotDue == restore.active /\ restore.key \notin restored

(* executing reverts too when the key is one of the wallet's already *)
CanExecute == restore.active /\ restore.due /\ restore.key \notin restored

ExecuteRestore ==
    /\ restored' = restored \cup {restore.key}
    /\ restore' = NoRestore
    /\ UNCHANGED <<starts, started>>

CancelRestore ==
    /\ restore' = NoRestore
    /\ UNCHANGED <<starts, started, restored>>

SameChain == UNCHANGED <<restore, starts, started, restored>>

TimelockElapses ==
    /\ restore.active /\ ~restore.due
    /\ restore' = [restore EXCEPT !.due = TRUE]
    /\ UNCHANGED <<setting, wallet, starts, started, restored, requestVars,
                   jobs, worker, alive, faults>>

(* an owner or method cancels by a transaction of its own; *)
(* anyone executes what is due; the wallet is paid or      *)
(* deployed                                                *)
Outside ==
    /\ \/ restore.active /\ CancelRestore /\ UNCHANGED wallet
       \/ CanExecute /\ ExecuteRestore /\ UNCHANGED wallet
       \/ wallet = "unfunded" /\ wallet' = "funded" /\ SameChain
       \/ wallet # "deployed" /\ wallet' = "deployed" /\ SameChain
    /\ UNCHANGED <<setting, requestVars, jobs, worker, alive, faults>>

-----------------------------------------------------------------------------
(* Jobs: createWalletRecoveryJob, and who knows a job's current version *)

(* a cancel job's signature is good for some of the restores; runs is history *)
AnyRestore == 1..(MaxStarts + MaxJobs)

NewJob(kind, key, good) ==
    [kind |-> kind, key |-> key, good |-> good, status |-> "pending", runs |-> 0]

CreateJob(job) == Len(jobs) < MaxJobs /\ jobs' = Append(jobs, job)

Terminal == {"included", "failed", "rejected"}

WithStatus(status) == {j \in DOMAIN jobs : jobs[j].status = status}

(* listWalletRecoveryJobs gives the 100 oldest of all wallets'; the others' *)
(* jobs come and go, and leave this wallet's n oldest a place               *)
Oldest(n, status) ==
    {j \in WithStatus(status) : Cardinality({i \in WithStatus(status) : i <= j}) <= n}

(* worker w goes on as wk; what the others knew of the job is stale *)
Changed(j, w, wk) ==
    [v \in Workers |-> IF v = w THEN wk ELSE [worker[v] EXCEPT !.known = @ \ {j}]]

-----------------------------------------------------------------------------
(* Requests *)

Active == {"awaiting_email", "awaiting_guardian", "queued", "on_chain"}

ServerOnly == UNCHANGED <<setting, chainVars, worker, alive, faults>>

(* createRecoveryRequest for a passkey *)
CreateRequest(r) ==
    /\ requests[r] = "none"
    /\ \A q \in Requests : requests[q] \notin Active
    /\ \E status \in {"awaiting_email", "awaiting_guardian"} :
          requests' = [requests EXCEPT ![r] = status]
    /\ UNCHANGED <<jobOf, jobs>> /\ ServerOnly

VerifyRecoveryEmail(r) ==
    /\ requests[r] = "awaiting_email"
    /\ requests' = [requests EXCEPT ![r] = "awaiting_guardian"]
    /\ UNCHANGED <<jobOf, jobs>> /\ ServerOnly

Approve(r) ==
    /\ requests[r] = "awaiting_guardian"
    /\ CreateJob(NewJob("initiate", r, {}))
    /\ requests' = [requests EXCEPT ![r] = "queued"]
    /\ jobOf' = [jobOf EXCEPT ![r] = Len(jobs')]
    /\ ServerOnly

Reject(r) ==
    /\ requests[r] \in {"awaiting_email", "awaiting_guardian"}
    /\ requests' = [requests EXCEPT ![r] = "rejected"]
    /\ UNCHANGED <<jobOf, jobs>> /\ ServerOnly

(* cancelRecoveryRequest.  An identity's authorization cancels whatever is *)
(* pending; a passkey's assertion is over the server's challenge, which no *)
(* wallet accepts.                                                         *)
CancelRequest(r) ==
    /\ \/ /\ requests[r] \in {"awaiting_email", "awaiting_guardian"}
          /\ UNCHANGED <<jobs, jobOf>>
       \/ /\ requests[r] \in {"queued", "on_chain"}
          /\ \E good \in {{}} \cup (IF identity THEN {AnyRestore} ELSE {}) :
                CreateJob(NewJob("cancel", r, good))
          /\ jobOf' = [jobOf EXCEPT ![r] = Len(jobs')]
    /\ requests' = [requests EXCEPT ![r] = "cancelled"]
    /\ ServerOnly

(* A partner's initiateRecovery and cancelRecovery, which know no requests.   *)
(* The passkey signs the digest of the restore pending then, if there is one, *)
(* or the server's challenge, which passes here as well.                      *)
ClientInitiate ==
    /\ CreateJob(NewJob("initiate", Client, {}))
    /\ UNCHANGED requestVars /\ ServerOnly

ClientCancel ==
    /\ \E good \in {{}} \cup (IF restore.active /\ ~identity THEN {{starts}} ELSE {}) :
          CreateJob(NewJob("cancel", Client, good))
    /\ UNCHANGED requestVars /\ ServerOnly

(* The operator's wallet starts the restore of a listed request ... *)
OperatorStarts(r) ==
    /\ identity /\ ~operatorIsGuardian
    /\ requests[r] \in {"awaiting_guardian", "queued", "on_chain"}
    /\ ~restore.active /\ starts < MaxStarts /\ StartRestore(r)
    /\ UNCHANGED <<setting, wallet, requestVars, jobs, worker, alive, faults>>

(* ... and then reports it (POST .../initiated), whatever became of it      *)
(* since.  Anybody with a session may: neither the chain nor the caller is  *)
(* asked, and the request may be in any state.                              *)
OperatorReports(r) ==
    /\ identity /\ requests[r] # "none"
    /\ CreateJob(NewJob("execute", r, {}))
    /\ requests' = [requests EXCEPT ![r] = "on_chain"]
    /\ jobOf' = [jobOf EXCEPT ![r] = Len(jobs')]
    /\ ServerOnly

SyncRequest_AnyStatus(j, status) ==
    requests' = [r \in Requests |->
        CASE jobOf[r] # j \/ status \notin Terminal -> requests[r]
          [] jobs[j].kind = "initiate" -> "on_chain"
          [] jobs[j].kind = "execute"  -> "archived"
          [] OTHER -> "cancelled"]

(* syncRequestFromJob *)
SyncRequest(j, status) ==
    requests' = [r \in Requests |->
        CASE jobOf[r] # j \/ status # "included" -> requests[r]
          [] jobOf[r] = j /\ status = "included" /\ jobs[j].kind = "initiate" -> "on_chain"
          [] jobOf[r] = j /\ status = "included" /\ jobs[j].kind = "execute"  -> "archived"
          [] OTHER -> "cancelled"]

-----------------------------------------------------------------------------
(* The activator *)

Rank(j) == CASE jobs[j].kind = "cancel" -> 0 [] jobs[j].kind = "initiate" -> 1 [] OTHER -> 2

First(todo) ==
    CHOOSE j \in todo : \A i \in todo : Rank(j) < Rank(i) \/ (Rank(j) = Rank(i) /\ j <= i)

At(w, pc) == w \in alive /\ worker[w].pc = pc

WorkerOnly == UNCHANGED <<setting, wallet, jobOf, alive>>

(* a tick on the pending jobs that are listed; without one it is over *)
Starts(w, pending) ==
    /\ pending # {}
    /\ worker' = [worker EXCEPT ![w] = [IdleWorker EXCEPT
          !.pc = "jobs", !.todo = pending, !.known = pending,
          !.cancelSeen = \E j \in pending : jobs[j].kind = "cancel"]]

Fetch(w) ==
    /\ At(w, "idle")
    /\ \E n \in Room..MaxJobs : Starts(w, Oldest(n, "pending"))
    /\ SameChain /\ WorkerOnly /\ UNCHANGED <<requests, jobs, faults>>

(* claimWalletRecoveryJob *)
MayClaim(w, j) == j \in worker[w].known /\ jobs[j].status \in {"pending", "claimed"}

Claim(w) ==
    LET wk == worker[w]
        j  == First(wk.todo)
        skip == [wk EXCEPT !.todo = @ \ {j}, !.known = @ \ {j}]
        claimed == [jobs EXCEPT ![j].status = "claimed"]
    IN  /\ At(w, "jobs") /\ wk.todo # {}
        /\ \/ /\ MayClaim(w, j)
              /\ jobs' = claimed
              /\ worker' = Changed(j, w, [wk EXCEPT !.todo = @ \ {j}, !.known = @ \cup {j},
                                            !.pc = "run", !.cur = j])
              /\ UNCHANGED faults
           \/ /\ MayClaim(w, j) /\ faults < MaxFaults      \* the answer is lost
              /\ jobs' = claimed
              /\ worker' = Changed(j, w, skip)
              /\ faults' = faults + 1
           \/ /\ ~MayClaim(w, j)                           \* conflict
              /\ worker' = [worker EXCEPT ![w] = skip]
              /\ UNCHANGED <<jobs, faults>>
        /\ SameChain /\ WorkerOnly /\ UNCHANGED requests

NextJob(wk) == [wk EXCEPT !.pc = "jobs", !.known = @ \ {wk.cur}, !.cur = 0,
                          !.report = "none", !.inCatch = FALSE]

(* the running job goes on to be tracked as status *)
Report(w, status) ==
    worker' = [worker EXCEPT ![w].pc = "track", ![w].report = status,
                             ![w].inCatch = (status = "failed")]

RanOnChain(w) == jobs' = [jobs EXCEPT ![worker[w].cur].runs = @ + 1]

RunInitiate(w) ==
    LET job == jobs[worker[w].cur]
        waits == IF identity THEN ~operatorIsGuardian ELSE wallet = "unfunded"
        throws == wallet = "funded" \/ restore.active      \* no identityId to deploy it for
    IN  /\ At(w, "run") /\ job.kind = "initiate"
        /\ \/ waits /\ Report(w, "pending") /\ SameChain /\ UNCHANGED jobs
           \/ ~waits /\ throws /\ Report(w, "failed") /\ SameChain /\ UNCHANGED jobs
           \/ /\ ~waits /\ ~throws /\ StartRestore(job.key) /\ RanOnChain(w)
              /\ IF identity /\ ~delayed
                 THEN worker' = [worker EXCEPT ![w].pc = "send"]
                 ELSE Report(w, "included")
        /\ WorkerOnly /\ UNCHANGED <<requests, faults>>

RunCancel(w) ==
    LET job == jobs[worker[w].cur]
    IN  /\ At(w, "run") /\ job.kind = "cancel"
        /\ IF restore.active /\ starts \in job.good
           THEN CancelRestore /\ RanOnChain(w) /\ Report(w, "included")
           ELSE Report(w, "failed") /\ SameChain /\ UNCHANGED jobs
        /\ WorkerOnly /\ UNCHANGED <<requests, faults>>

RunExecute_SilentSkip(w) ==
    /\ At(w, "run") /\ jobs[worker[w].cur].kind = "execute"
    /\ CASE worker[w].cancelSeen -> worker' = [worker EXCEPT ![w] = NextJob(@)]
         [] ~worker[w].cancelSeen /\ ~restore.active -> Report(w, "rejected")
         [] ~worker[w].cancelSeen /\ restore.active /\ ~restore.due -> Report(w, "pending")
         [] OTHER -> worker' = [worker EXCEPT ![w].pc = "send"]
    /\ SameChain /\ WorkerOnly /\ UNCHANGED <<requests, jobs, faults>>

(* the reads of runExecute *)
RunExecute(w) ==
    /\ At(w, "run") /\ jobs[worker[w].cur].kind = "execute"
    /\ CASE worker[w].cancelSeen \/ ~restore.active -> Report(w, "rejected")
         [] ~worker[w].cancelSeen /\ restore.active /\ ~restore.due -> Report(w, "pending")
         [] OTHER -> worker' = [worker EXCEPT ![w].pc = "send"]
    /\ SameChain /\ WorkerOnly /\ UNCHANGED <<requests, jobs, faults>>

(* executeRestore or executeOwnerRecovery, after those reads or, without a *)
(* delay, after initiateRestore                                            *)
SendExecute(w) ==
    /\ At(w, "send")
    /\ IF CanExecute
       THEN /\ ExecuteRestore /\ Report(w, "included")
            /\ IF jobs[worker[w].cur].kind = "execute" THEN RanOnChain(w) ELSE UNCHANGED jobs
       ELSE Report(w, "failed") /\ SameChain /\ UNCHANGED jobs
    /\ WorkerOnly /\ UNCHANGED <<requests, faults>>

ChainCallFails(w) ==
    /\ At(w, "run") \/ At(w, "send")
    /\ faults < MaxFaults /\ faults' = faults + 1
    /\ Report(w, "failed")
    /\ SameChain /\ WorkerOnly /\ UNCHANGED <<requests, jobs>>

-----------------------------------------------------------------------------

MayTrack_AnyVersion(w) == TRUE

(* trackWalletRecoveryJob *)
MayTrack(w) == worker[w].cur \in worker[w].known

ServeTrack(w, wk) ==
    LET j == worker[w].cur
    IN  /\ jobs' = [jobs EXCEPT ![j].status = worker[w].report]
        /\ SyncRequest(j, worker[w].report)
        /\ worker' = Changed(j, w, wk)

(* An error on the way makes the activator track the job as failed; an error *)
(* while it does that ends the tick.  When only the answer was lost, the     *)
(* second call finds a newer version.                                        *)
Track(w) ==
    /\ At(w, "track")
    /\ \/ MayTrack(w) /\ ServeTrack(w, NextJob(worker[w])) /\ UNCHANGED faults
       \/ /\ ~MayTrack(w)
          /\ worker' = [worker EXCEPT ![w] = IdleWorker]
          /\ UNCHANGED <<requests, jobs, faults>>
    /\ SameChain /\ WorkerOnly

LostTrack(w) ==
    LET inCatch == IF worker[w].inCatch THEN IdleWorker
                   ELSE [worker[w] EXCEPT !.report = "failed", !.inCatch = TRUE]
    IN  /\ At(w, "track") /\ faults < MaxFaults /\ faults' = faults + 1
        /\ \/ worker' = [worker EXCEPT ![w] = inCatch] /\ UNCHANGED <<requests, jobs>>
           \/ MayTrack(w) /\ ServeTrack(w, [inCatch EXCEPT !.known = @ \ {worker[w].cur}])
        /\ SameChain /\ WorkerOnly

Visits(w, initiated) ==
    worker' = [worker EXCEPT ![w] =
        [IdleWorker EXCEPT !.pc = "sweep", !.left = Cardinality(initiated)]]

Initiated(n, status) == {j \in Oldest(n, status) : jobs[j].kind = "initiate"}

StartSweep_NoneToo(w) ==
    /\ At(w, "jobs") /\ worker[w].todo = {}
    /\ \E n \in Room..MaxJobs : Visits(w, Initiated(n, "included"))
    /\ SameChain /\ WorkerOnly /\ UNCHANGED <<requests, jobs, faults>>

StartSweep_Pending(w) ==
    /\ At(w, "jobs") /\ worker[w].todo = {}
    /\ \E n \in Room..MaxJobs :
          IF Initiated(n, "pending") = {} THEN worker' = [worker EXCEPT ![w] = IdleWorker]
          ELSE Visits(w, Initiated(n, "pending"))
    /\ SameChain /\ WorkerOnly /\ UNCHANGED <<requests, jobs, faults>>

(* maybeQueueExecutes, for one listed initiate job that is included after  *)
(* the other; included jobs stay in that list for ever                     *)
StartSweep(w) ==
    /\ At(w, "jobs") /\ worker[w].todo = {}
    /\ \E n \in Room..MaxJobs :
          IF Initiated(n, "included") = {} THEN worker' = [worker EXCEPT ![w] = IdleWorker]
          ELSE Visits(w, Initiated(n, "included"))
    /\ SameChain /\ WorkerOnly /\ UNCHANGED <<requests, jobs, faults>>

Sweep(w) ==
    /\ At(w, "sweep")
    /\ IF CanExecute THEN ExecuteRestore ELSE SameChain
    /\ worker' = [worker EXCEPT ![w] =
          IF worker[w].left = 1 THEN IdleWorker ELSE [worker[w] EXCEPT !.left = @ - 1]]
    /\ WorkerOnly /\ UNCHANGED <<requests, jobs, faults>>

(* a process ends; another of Workers stands for its restart *)
Crash(w) ==
    /\ w \in alive /\ alive # {w}
    /\ faults < MaxFaults /\ faults' = faults + 1
    /\ alive' = alive \ {w}
    /\ worker' = [worker EXCEPT ![w] = IdleWorker]
    /\ UNCHANGED <<setting, chainVars, requestVars, jobs>>

WorkerStep(w) ==
    \/ Fetch(w) \/ Claim(w)
    \/ RunInitiate(w) \/ RunCancel(w) \/ RunExecute(w) \/ SendExecute(w)
    \/ Track(w)
    \/ StartSweep(w) \/ Sweep(w)

JobsNext ==
    \/ \E r \in Requests :
          \/ CreateRequest(r) \/ VerifyRecoveryEmail(r)
          \/ Approve(r) \/ Reject(r) \/ CancelRequest(r)
          \/ OperatorStarts(r) \/ OperatorReports(r)
    \/ ClientInitiate \/ ClientCancel
    \/ TimelockElapses \/ Outside
    \/ \E w \in Workers :
          WorkerStep(w) \/ ChainCallFails(w) \/ LostTrack(w) \/ Crash(w)

JobsSpec == JobsInit /\ [][JobsNext]_jobsVars

(* The activator's loop ticks as long as the process lives, and time passes. *)
JobsFairness == WF_restore(TimelockElapses) /\ \A w \in Workers : WF_worker(WorkerStep(w))

JobsFairSpec == JobsSpec /\ JobsFairness

-----------------------------------------------------------------------------

(* Every variable has its type. *)
JobsTypeOK ==
    /\ identity \in BOOLEAN /\ operatorIsGuardian \in BOOLEAN
    /\ delayed \in BOOLEAN /\ wallet \in WalletStates
    /\ restore \in [active : BOOLEAN, key : Requests \cup {Client}, due : BOOLEAN]
    /\ starts \in Nat /\ faults \in 0..MaxFaults
    /\ started \subseteq Requests /\ restored \subseteq Requests \cup {Client}
    /\ requests \in [Requests -> Active \cup {"none", "rejected", "cancelled", "archived"}]
    /\ alive \subseteq Workers
    /\ Len(jobs) <= MaxJobs
    /\ jobs \in Seq([kind : {"initiate", "cancel", "execute"}, key : Requests \cup {Client},
                     good : SUBSET Nat, runs : Nat,
                     status : {"pending", "claimed"} \cup Terminal])
    /\ jobOf \in [Requests -> 0..Len(jobs)]
    /\ worker \in [Workers -> [pc : {"idle", "jobs", "run", "send", "track", "sweep"},
                               todo : SUBSET DOMAIN jobs, known : SUBSET DOMAIN jobs,
                               cancelSeen : BOOLEAN, cur : 0..Len(jobs),
                               report : {"none", "pending"} \cup Terminal,
                               inCatch : BOOLEAN, left : Nat]]

(* A job acts on the chain at most once, whatever answers are lost and     *)
(* processes restart: a second initiateRestore after a cancel would bring  *)
(* back what the user cancelled (claimWalletRecoveryJob, listed pending).  *)
AtMostOnce == \A j \in DOMAIN jobs : jobs[j].runs <= 1

(* A decided job stays as decided; the activator's second track of one it  *)
(* could not hear about (its catch) must not turn included into failed.    *)
JobFinal ==
    [][\A j \in DOMAIN jobs : jobs[j].status \in Terminal =>
         jobs'[j].status = jobs[j].status]_jobsVars

(* on_chain means that the request's restore was started, or that somebody *)
(* reported so and an execute job was queued for it; archived, that an     *)
(* execute job queued for it did execute a restore on the chain, whoever   *)
(* reported what (syncRequestFromJob, job_id moving on).                   *)
RequestFollowsChain ==
    \A r \in Requests :
        /\ requests[r] = "on_chain" =>
             \/ r \in started
             \/ jobOf[r] # 0 /\ jobs[jobOf[r]].kind = "execute"
        /\ requests[r] = "archived" =>
             \E j \in DOMAIN jobs : jobs[j].kind = "execute" /\ jobs[j].key = r /\ jobs[j].runs > 0

Holds(w, j) ==
    /\ w \in alive /\ worker[w].pc \in {"run", "send", "track"}
    /\ worker[w].cur = j /\ j \in worker[w].known

(* Nobody lists a claimed job again, so it must be in somebody's hands, in *)
(* one process's only, unless an answer was lost or a process died.        *)
ClaimedIsHeld ==
    /\ \A j \in DOMAIN jobs, w, v \in Workers : Holds(w, j) /\ Holds(v, j) => w = v
    /\ \A j \in DOMAIN jobs : jobs[j].status = "claimed" /\ faults = 0 =>
          \E w \in Workers : Holds(w, j)

(* the activator cannot run the job yet, and queues it again *)
Awaits(j) ==
    /\ jobs[j].kind = "initiate" /\ jobs[j].status \notin Terminal
    /\ IF identity THEN ~operatorIsGuardian ELSE wallet = "unfunded"

(* older jobs that wait take all the places there may be for it *)
Starved(j) == Cardinality({i \in DOMAIN jobs : i < j /\ Awaits(i)}) >= Room

(* Every job is decided, and then stays so (JobFinal): an execute job      *)
(* queued again until the timelock is over, a cancel that comes too late,  *)
(* a claim lost to another process.  The operator or the first funds may   *)
(* keep an initiate job waiting, jobs that wait may keep it out of the     *)
(* list, and a fault may leave it claimed.                                 *)
JobDecided ==
    \A j \in 1..MaxJobs :
        []<>(j \in DOMAIN jobs =>
                 jobs[j].status \in Terminal \/ Awaits(j) \/ Starved(j) \/ faults > 0)

(* The table seen as a queue of jobs, those yet to come included. *)
StatusOf(j) == IF j \in DOMAIN jobs THEN jobs[j].status ELSE "none"
ActsOf(j) == IF j \in DOMAIN jobs THEN jobs[j].runs ELSE 0

Queue == INSTANCE JobQueue WITH
            Jobs <- 1..MaxJobs,
            status <- [j \in 1..MaxJobs |-> StatusOf(j)],
            acts <- [j \in 1..MaxJobs |-> ActsOf(j)]

(* The table, its claims and its versions implement the queue: however     *)
(* processes race, die and repeat themselves, each job goes the way it     *)
(* promises (createWalletRecoveryJob, claimWalletRecoveryJob,              *)
(* trackWalletRecoveryJob and processRecoveryJobs).                        *)
QueueSpec == Queue!QueueSpec

Recovery == INSTANCE DelayedRecovery WITH
    Keys <- Requests \cup {Client},
    candidate <- IF restore.active THEN {restore.key} ELSE {},
    due <- restore.due,
    members <- restored

(* All that the chain is taken to do here is what a wallet's contract or   *)
(* its identity's does: processes that race for it see one delayed         *)
(* recovery at a time (runInitiate, runCancel, runExecute).                *)
RecoverySpec == Recovery!RecoverySpec

(* A due restore of an initiate job that is included, and among the oldest *)
(* that are, is executed by the next tick that finds a job to run, without *)
(* a job of its own (maybeQueueExecutes).  A tick that finds none returns  *)
(* before that, and a job that the list leaves out is never looked at.     *)
DueIsExecuted ==
    CanExecute /\ Initiated(Room, "included") # {} /\ Oldest(Room, "pending") # {}
    ~> ~restore.active \/ Initiated(Room, "included") = {} \/ faults > 0
=============================================================================
