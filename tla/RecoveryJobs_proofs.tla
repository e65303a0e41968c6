------------------------ MODULE RecoveryJobs_proofs ------------------------
(***************************************************************************)
(* What the table of recovery jobs guarantees for any number of activator  *)
(* processes, requests, jobs and faults.                                   *)
(*                                                                         *)
(* KnownInv is the argument of optimistic locking: of the jobs whose       *)
(* current version a process knows, those that are claimed are its own,    *)
(* and nobody else knows their version.                                    *)
(***************************************************************************)
EXTENDS RecoveryJobs, FiniteSetTheorems, TLAPS

Busy == {"run", "send", "track"}
JobStatuses == {"pending", "claimed"} \cup Terminal

Job == [kind : {"initiate", "cancel", "execute"}, key : Requests \cup {Client},
        good : SUBSET Nat, runs : Nat, status : JobStatuses]

WorkerRec(n) ==
    [pc : {"idle", "jobs", "run", "send", "track", "sweep"},
     todo : SUBSET (1..n), known : SUBSET (1..n), cancelSeen : BOOLEAN, cur : 0..n,
     report : {"none", "pending"} \cup Terminal, inCatch : BOOLEAN, left : Nat]

TableTypes ==
    /\ jobs \in Seq(Job) /\ Len(jobs) <= MaxJobs
    /\ worker \in [Workers -> WorkerRec(Len(jobs))]
    /\ alive \subseteq Workers /\ faults \in 0..MaxFaults

ChainTypes ==
    /\ identity \in BOOLEAN /\ operatorIsGuardian \in BOOLEAN
    /\ delayed \in BOOLEAN /\ wallet \in WalletStates
    /\ restore \in [active : BOOLEAN, key : Requests \cup {Client}, due : BOOLEAN]
    /\ starts \in Nat
    /\ started \subseteq Requests /\ restored \subseteq Requests \cup {Client}

\* A job that waits has done nothing.
RunsInv ==
    \A j \in DOMAIN jobs :
        jobs[j].runs <= 1 /\ (jobs[j].status = "pending" => jobs[j].runs = 0)

KnownInv ==
    \A w \in Workers : \A j \in worker[w].known :
        \/ jobs[j].status = "pending"
        \/ /\ jobs[j].status = "claimed"
           /\ worker[w].pc \in Busy /\ worker[w].cur = j
           /\ \A v \in Workers : j \in worker[v].known => v = w

\* What the process wk has done of its job.
RunOk(wk, js, st) ==
    /\ wk.pc \in Busy =>
         wk.cur \in DOMAIN js /\ (wk.cur \in wk.known => js[wk.cur].status = "claimed")
    /\ wk.pc = "run" \/ (wk.pc = "send" /\ js[wk.cur].kind = "execute") =>
         wk.cur \in wk.known /\ js[wk.cur].runs = 0
    /\ wk.pc = "track" =>
         /\ wk.report # "none"
         /\ wk.report \in {"pending", "rejected"} /\ wk.cur \in wk.known => js[wk.cur].runs = 0
    /\ (wk.pc = "send" \/ (wk.pc = "track" /\ wk.report = "included"))
          /\ js[wk.cur].kind = "initiate" =>
         js[wk.cur].key \in st \cup {Client}
    /\ (wk.pc = "send" /\ js[wk.cur].kind # "execute") \/ (wk.pc = "track" /\ wk.report = "included") =>
         js[wk.cur].runs > 0
    /\ wk.pc = "sweep" => wk.left # 0

RunInv == \A w \in Workers : RunOk(worker[w], jobs, started)

HeldInv ==
    \A j \in DOMAIN jobs : jobs[j].status = "claimed" /\ faults = 0 =>
        \E w \in Workers : Holds(w, j)

TableInv == TableTypes /\ RunsInv /\ KnownInv /\ RunInv /\ HeldInv

RequestInv ==
    /\ requests \in [Requests -> Active \cup {"none", "rejected", "cancelled", "archived"}]
    /\ jobOf \in [Requests -> 0..Len(jobs)]
    /\ \A r \in Requests : jobOf[r] # 0 => jobs[jobOf[r]].key = r
    /\ RequestFollowsChain

RecoveryInv == ChainTypes /\ TableInv /\ RequestInv

\* The table took a step of the queue.
QueueStep == [Queue!QueueNext]_(Queue!queueVars)

\* What a step leaves of a job.
Kept ==
    /\ QueueStep
    /\ Len(jobs) <= Len(jobs')
    /\ \A j \in DOMAIN jobs :
         /\ j \in DOMAIN jobs'
         /\ jobs'[j].kind = jobs[j].kind /\ jobs'[j].key = jobs[j].key
         /\ jobs'[j].runs >= jobs[j].runs
         /\ jobs[j].status \in Terminal => jobs'[j].status = jobs[j].status

-----------------------------------------------------------------------------
(* The table under the four kinds of change.                               *)

LEMMA JobFields ==
    ASSUME jobs \in Seq(Job), NEW j \in DOMAIN jobs
    PROVE  /\ jobs[j] \in Job /\ jobs[j].runs \in Nat /\ jobs[j].status \in JobStatuses
           /\ jobs[j].kind \in {"initiate", "cancel", "execute"}
           /\ jobs[j].key \in Requests \cup {Client}
<1>1. jobs[j] \in Job
    OBVIOUS
<1> QED BY <1>1 DEF Job

LEMMA JobDecides ==
    ASSUME NEW job \in Job, NEW s \in JobStatuses
    PROVE  LET new == [job EXCEPT !.status = s]
           IN  /\ new \in Job /\ new.status = s
               /\ new.kind = job.kind /\ new.key = job.key /\ new.runs = job.runs
BY DEF Job

LEMMA PutJob ==
    ASSUME jobs \in Seq(Job), NEW j \in DOMAIN jobs, NEW job \in Job,
           jobs' = [jobs EXCEPT ![j] = job]
    PROVE  /\ jobs' \in Seq(Job) /\ Len(jobs') = Len(jobs) /\ DOMAIN jobs' = DOMAIN jobs
           /\ jobs'[j] = job /\ \A i \in DOMAIN jobs : i # j => jobs'[i] = jobs[i]
OBVIOUS

\* The queue does nothing while the table stays.
LEMMA QueueStays ==
    ASSUME UNCHANGED jobs
    PROVE  QueueStep
<1>1. \A j : StatusOf(j)' = StatusOf(j) /\ ActsOf(j)' = ActsOf(j)
    BY DEF StatusOf, ActsOf
<1> QED BY <1>1 DEF QueueStep, Queue!queueVars

\* One job gets another status and nothing acts.
LEMMA QueueMoves ==
    ASSUME NEW j \in 1..MaxJobs, NEW from, NEW to, StatusOf(j) = from, StatusOf(j)' = to,
           \A i \in 1..MaxJobs : ActsOf(i)' = ActsOf(i),
           \A i \in 1..MaxJobs : i # j => StatusOf(i)' = StatusOf(i)
    PROVE  Queue!Move(j, from, to)
BY DEF Queue!Move

\* One job acts.
LEMMA QueueActs ==
    ASSUME NEW j \in 1..MaxJobs, StatusOf(j) = "claimed", ActsOf(j) = 0, ActsOf(j)' = 1,
           \A i \in 1..MaxJobs : StatusOf(i)' = StatusOf(i),
           \A i \in 1..MaxJobs : i # j => ActsOf(i)' = ActsOf(i)
    PROVE  QueueStep
<1>1. Queue!Act(j)
    BY DEF Queue!Act
<1> QED BY <1>1 DEF QueueStep, Queue!QueueNext

\* What the queue sees of the table.
LEMMA QueueSees ==
    ASSUME jobs \in Seq(Job), Len(jobs) <= MaxJobs
    PROVE  /\ \A j \in DOMAIN jobs : /\ j \in 1..MaxJobs /\ StatusOf(j) = jobs[j].status
                                     /\ ActsOf(j) = jobs[j].runs
           /\ \A j \in (1..MaxJobs) \ DOMAIN jobs : StatusOf(j) = "none" /\ ActsOf(j) = 0
<1>1. DOMAIN jobs = 1..Len(jobs) /\ Len(jobs) \in Nat /\ MaxJobs \in Nat
    BY RecoveryJobsAssumption
<1> QED BY <1>1 DEF StatusOf, ActsOf

\* A job is added.
LEMMA AppendKeeps ==
    ASSUME TableInv, NEW job \in Job, CreateJob(job), job.status = "pending", job.runs = 0,
           UNCHANGED <<worker, alive, faults, started>>
    PROVE  /\ TableInv' /\ Kept /\ Len(jobs') = Len(jobs) + 1
           /\ jobs'[Len(jobs')] = job /\ \A j \in DOMAIN jobs : jobs'[j] = jobs[j]
           /\ \A j \in DOMAIN jobs' : j \in DOMAIN jobs \/ j = Len(jobs')
<1> DEFINE n == Len(jobs)
<1>1. /\ jobs \in Seq(Job) /\ n \in Nat /\ n + 1 <= MaxJobs /\ DOMAIN jobs = 1..n
      /\ jobs' = Append(jobs, job)
    BY RecoveryJobsAssumption DEF TableInv, TableTypes, CreateJob
<1>2. /\ jobs' \in Seq(Job) /\ Len(jobs') = n + 1 /\ DOMAIN jobs' = 1..(n + 1)
      /\ jobs'[n + 1] = job /\ \A j \in 1..n : jobs'[j] = jobs[j]
    BY <1>1
<1> HIDE DEF n
<1>3. \A j \in DOMAIN jobs' : j \in DOMAIN jobs \/ j = n + 1
    BY <1>1, <1>2
<1>4. \A j \in DOMAIN jobs : j \in DOMAIN jobs' /\ jobs'[j] = jobs[j]
    BY <1>1, <1>2
<1>5. TableTypes'
  <2>1. WorkerRec(n) \subseteq WorkerRec(n + 1)
      BY <1>1 DEF WorkerRec
  <2>2. worker' \in [Workers -> WorkerRec(n + 1)]
      BY <2>1 DEF TableInv, TableTypes, n
  <2> QED BY <1>1, <1>2, <2>2 DEF TableInv, TableTypes
<1>6. RunsInv'
    BY <1>2, <1>3, <1>4 DEF TableInv, RunsInv
<1>7. \A w \in Workers : worker[w].known \subseteq DOMAIN jobs
    BY <1>1 DEF TableInv, TableTypes, WorkerRec, n
<1>8. KnownInv'
    BY <1>4, <1>7 DEF TableInv, KnownInv
<1>9. RunInv'
  <2> SUFFICES ASSUME NEW w \in Workers PROVE RunOk(worker'[w], jobs', started')
      BY DEF RunInv
  <2>2. RunOk(worker[w], jobs, started) /\ worker'[w] = worker[w] /\ started' = started
      BY DEF TableInv, RunInv
  <2>3. worker[w].pc \in Busy => worker[w].cur \in DOMAIN jobs
      BY <2>2 DEF RunOk
  <2> QED BY <2>2, <2>3, <1>4 DEF RunOk, Busy
<1>10. HeldInv'
    BY <1>2, <1>3, <1>4 DEF TableInv, HeldInv, Holds
<1>11. Kept
  <2>1. \A j \in DOMAIN jobs : jobs'[j].runs >= jobs[j].runs
    <3>1. \A j \in DOMAIN jobs : jobs[j].runs \in Nat
        BY <1>1, JobFields
    <3> QED BY <3>1, <1>4
  <2>2. QueueStep
    <3>1. PICK k \in 1..MaxJobs : k = n + 1
        BY <1>1, RecoveryJobsAssumption
    <3>2. /\ StatusOf(k) = "none" /\ ActsOf(k) = 0 /\ StatusOf(k)' = "pending" /\ ActsOf(k)' = 0
      <4>1. k \notin DOMAIN jobs /\ k \in DOMAIN jobs' /\ jobs'[k] = job
          BY <1>1, <1>2, <3>1
      <4> QED BY <4>1 DEF StatusOf, ActsOf
    <3>3. \A i \in 1..MaxJobs : i # k => StatusOf(i)' = StatusOf(i) /\ ActsOf(i)' = ActsOf(i)
        BY <1>3, <1>4, <3>1 DEF StatusOf, ActsOf
    <3>4. Queue!Move(k, "none", "pending")
        BY <3>2, <3>3, QueueMoves
    <3> QED BY <3>4 DEF QueueStep, Queue!QueueNext, Queue!Enqueue
  <2> QED BY <1>1, <1>2, <1>4, <2>1, <2>2 DEF Kept
<1> QED BY <1>2, <1>3, <1>4, <1>5, <1>6, <1>8, <1>9, <1>10, <1>11 DEF TableInv, n

\* Process w goes on as wk, the jobs stay.
GoesOn(w, wk) ==
    /\ wk \in WorkerRec(Len(jobs)) /\ worker' = [worker EXCEPT ![w] = wk] /\ UNCHANGED jobs
    /\ alive' = alive \/ (alive' = alive \ {w} /\ faults' # 0)
    /\ started \subseteq started' /\ faults' \in 0..MaxFaults /\ faults <= faults'
    /\ RunOk(wk, jobs', started')
    /\ \A j \in wk.known : \/ jobs[j].status = "pending"
                           \/ j \in worker[w].known /\ wk.pc \in Busy /\ wk.cur = j
    /\ \A j \in DOMAIN jobs : jobs[j].status = "claimed" /\ Holds(w, j) /\ faults' = 0 =>
           wk.pc \in Busy /\ wk.cur = j /\ j \in wk.known

LEMMA LocalKeeps ==
    ASSUME TableInv, NEW w \in Workers, NEW wk, GoesOn(w, wk)
    PROVE  TableInv' /\ Kept
<1>1. worker'[w] = wk /\ \A v \in Workers : v # w => worker'[v] = worker[v]
    BY DEF TableInv, TableTypes, GoesOn
<1>2. TableTypes'
    BY DEF TableInv, TableTypes, GoesOn
<1>3. RunsInv' /\ Kept
  <2>1. \A j \in DOMAIN jobs : jobs[j].runs \in Nat
      BY JobFields DEF TableInv, TableTypes
  <2>2. Len(jobs) \in Nat
      BY DEF TableInv, TableTypes
  <2>3. QueueStep
      BY QueueStays DEF GoesOn
  <2> QED BY <2>1, <2>2, <2>3 DEF TableInv, RunsInv, Kept, GoesOn
<1>4. KnownInv'
  <2> SUFFICES ASSUME NEW u \in Workers, NEW j \in worker'[u].known,
                      jobs[j].status # "pending"
               PROVE  /\ jobs[j].status = "claimed"
                      /\ worker'[u].pc \in Busy /\ worker'[u].cur = j
                      /\ \A v \in Workers : j \in worker'[v].known => v = u
      BY DEF KnownInv, GoesOn
  <2>1. \A v \in Workers : j \in worker'[v].known => j \in worker[v].known
      BY <1>1 DEF GoesOn
  <2>2. /\ jobs[j].status = "claimed" /\ worker[u].pc \in Busy /\ worker[u].cur = j
        /\ \A v \in Workers : j \in worker[v].known => v = u
      BY <2>1 DEF TableInv, KnownInv
  <2> QED BY <1>1, <2>1, <2>2 DEF GoesOn
<1>5. RunInv'
  <2> SUFFICES ASSUME NEW v \in Workers PROVE RunOk(worker'[v], jobs', started')
      BY DEF RunInv
  <2>2. CASE v = w
      BY <2>2, <1>1 DEF GoesOn
  <2>3. CASE v # w
    <3>1. worker'[v] = worker[v] /\ RunOk(worker[v], jobs, started)
        BY <2>3, <1>1 DEF TableInv, RunInv
    <3> QED BY <3>1 DEF RunOk, GoesOn
  <2> QED BY <2>2, <2>3
<1>6. HeldInv'
  <2> SUFFICES ASSUME NEW j \in DOMAIN jobs, jobs[j].status = "claimed", faults' = 0
               PROVE  \E v \in Workers : Holds(v, j)'
      BY DEF HeldInv, GoesOn
  <2>1. faults = 0
      BY DEF TableInv, TableTypes, GoesOn
  <2>2. PICK v \in Workers : Holds(v, j)
      BY <2>1 DEF TableInv, HeldInv
  <2>3. CASE v = w
      BY <2>2, <2>3, <1>1 DEF Holds, Busy, GoesOn
  <2>4. CASE v # w
      BY <2>2, <2>4, <1>1 DEF Holds, GoesOn
  <2> QED BY <2>3, <2>4
<1> QED BY <1>2, <1>3, <1>4, <1>5, <1>6 DEF TableInv

\* Job j acts on the chain, in the hands of w, which goes on as wk.
Ran(w, wk, j) ==
    /\ w \in alive /\ j = worker[w].cur
    /\ worker[w].pc = "run" \/ (worker[w].pc = "send" /\ jobs[j].kind = "execute")
    /\ jobs' = [jobs EXCEPT ![j].runs = @ + 1]
    /\ wk \in WorkerRec(Len(jobs)) /\ worker' = [worker EXCEPT ![w] = wk]
    /\ UNCHANGED <<alive, faults>> /\ started \subseteq started'
    /\ wk.known = worker[w].known /\ wk.cur = j /\ wk.pc \in {"send", "track"}
    /\ wk.pc = "send" => jobs[j].kind # "execute"
    /\ wk.pc = "track" => wk.report \notin {"none", "pending", "rejected"}
    /\ jobs[j].kind = "initiate" => jobs[j].key \in started' \cup {Client}

LEMMA RanKeeps ==
    ASSUME TableInv, NEW w \in Workers, NEW wk, NEW j, Ran(w, wk, j)
    PROVE  TableInv' /\ Kept /\ Len(jobs') = Len(jobs)
<1>1. /\ worker'[w] = wk /\ \A v \in Workers : v # w => worker'[v] = worker[v]
      /\ jobs \in Seq(Job)
    BY DEF TableInv, TableTypes, Ran
<1>2. RunOk(worker[w], jobs, started)
    BY DEF TableInv, RunInv
<1>3. /\ j \in DOMAIN jobs /\ j \in worker[w].known
      /\ jobs[j].status = "claimed" /\ jobs[j].runs = 0
    BY <1>2 DEF RunOk, Busy, Ran
<1>4. \A v \in Workers : j \in worker[v].known => v = w
    BY <1>3 DEF TableInv, KnownInv
<1>5. /\ jobs' \in Seq(Job) /\ Len(jobs') = Len(jobs) /\ DOMAIN jobs' = DOMAIN jobs
      /\ jobs'[j] = [jobs[j] EXCEPT !.runs = @ + 1]
      /\ \A i \in DOMAIN jobs : i # j => jobs'[i] = jobs[i]
  <2>1. jobs[j].runs \in Nat /\ jobs[j] \in Job
      BY <1>1, <1>3, JobFields
  <2>2. [jobs[j] EXCEPT !.runs = @ + 1] \in Job
      BY <2>1 DEF Job
  <2>3. jobs' = [jobs EXCEPT ![j] = [jobs[j] EXCEPT !.runs = @ + 1]]
      BY DEF Ran
  <2> QED BY <1>1, <1>3, <2>2, <2>3, PutJob
<1>6. /\ jobs'[j].kind = jobs[j].kind /\ jobs'[j].key = jobs[j].key /\ jobs'[j].runs = 1
      /\ jobs'[j].status = "claimed"
    BY <1>1, <1>3, <1>5 DEF Job
<1>7. \A i \in DOMAIN jobs : /\ jobs'[i].kind = jobs[i].kind /\ jobs'[i].key = jobs[i].key
                             /\ jobs'[i].status = jobs[i].status
                             /\ jobs[i].runs \in Nat /\ jobs'[i].runs \in Nat
                             /\ jobs'[i].runs >= jobs[i].runs
  <2>1. \A i \in DOMAIN jobs : jobs[i].runs \in Nat
      BY <1>1, JobFields
  <2> QED BY <2>1, <1>3, <1>5, <1>6 DEF Ran
<1>8. TableTypes'
    BY <1>5 DEF TableInv, TableTypes, Ran
<1>9. Kept
  <2>1. Len(jobs) \in Nat
      BY <1>1
  <2>2. QueueStep
    <3>1. /\ \A i \in DOMAIN jobs : StatusOf(i)' = StatusOf(i) /\ (i # j => ActsOf(i)' = ActsOf(i))
          /\ \A i \in (1..MaxJobs) \ DOMAIN jobs :
                 StatusOf(i)' = StatusOf(i) /\ ActsOf(i)' = ActsOf(i)
        BY <1>5, <1>7 DEF StatusOf, ActsOf
    <3>2. j \in 1..MaxJobs /\ StatusOf(j) = "claimed" /\ ActsOf(j) = 0 /\ ActsOf(j)' = 1
        BY <1>3, <1>5, <1>6, QueueSees DEF ActsOf, TableInv, TableTypes
    <3> QED BY <1>3, <3>1, <3>2, QueueActs
  <2> QED BY <2>1, <2>2, <1>5, <1>7 DEF Kept
<1>10. RunsInv'
    BY <1>3, <1>5, <1>6 DEF TableInv, RunsInv, Ran
<1>11. \A v \in Workers : worker'[v].known = worker[v].known /\ worker[v].known \subseteq DOMAIN jobs
    BY <1>1 DEF TableInv, TableTypes, WorkerRec, Ran
<1>12. KnownInv'
  <2> SUFFICES ASSUME NEW u \in Workers, NEW i \in worker'[u].known,
                      jobs'[i].status # "pending"
               PROVE  /\ jobs'[i].status = "claimed"
                      /\ worker'[u].pc \in Busy /\ worker'[u].cur = i
                      /\ \A v \in Workers : i \in worker'[v].known => v = u
      BY DEF KnownInv
  <2>1. i \in DOMAIN jobs /\ i \in worker[u].known /\ jobs[i].status # "pending"
      BY <1>7, <1>11
  <2>2. /\ jobs[i].status = "claimed" /\ worker[u].pc \in Busy /\ worker[u].cur = i
        /\ \A v \in Workers : i \in worker[v].known => v = u
      BY <2>1 DEF TableInv, KnownInv
  <2> QED BY <1>1, <1>7, <1>11, <2>1, <2>2 DEF Busy, Ran
<1>13. RunInv'
  <2> SUFFICES ASSUME NEW v \in Workers PROVE RunOk(worker'[v], jobs', started')
      BY DEF RunInv
  <2>2. CASE v = w
      BY <2>2, <1>1, <1>3, <1>5, <1>6 DEF RunOk, Busy, Ran
  <2>3. CASE v # w
    <3>1. worker'[v] = worker[v] /\ RunOk(worker[v], jobs, started) /\ j \notin worker[v].known
        BY <2>3, <1>1, <1>4 DEF TableInv, RunInv
    <3>2. worker[v].pc \in Busy => worker[v].cur \in DOMAIN jobs
        BY <3>1 DEF RunOk
    <3>3. CASE worker[v].cur = j
        BY <3>1, <3>2, <3>3, <1>5, <1>6 DEF RunOk, Busy, Ran
    <3>4. CASE worker[v].cur # j
        BY <3>1, <3>2, <3>4, <1>5 DEF RunOk, Busy, Ran
    <3> QED BY <3>3, <3>4
  <2> QED BY <2>2, <2>3
<1>14. HeldInv'
  <2> SUFFICES ASSUME NEW i \in DOMAIN jobs, jobs[i].status = "claimed", faults = 0
               PROVE  \E v \in Workers : Holds(v, i)'
      BY <1>5, <1>7 DEF HeldInv, Ran
  <2>2. PICK v \in Workers : Holds(v, i)
      BY DEF TableInv, HeldInv
  <2>3. CASE v = w
      BY <2>2, <2>3, <1>1 DEF Holds, Ran
  <2>4. CASE v # w
      BY <2>2, <2>4, <1>1 DEF Holds, Ran
  <2> QED BY <2>3, <2>4
<1> QED BY <1>5, <1>8, <1>9, <1>10, <1>12, <1>13, <1>14 DEF TableInv

\* w, which knows the version of j, gives it the status s and goes on as wk.
Gives(w, wk, j, s) ==
    /\ j \in worker[w].known /\ s \in JobStatuses
    /\ jobs' = [jobs EXCEPT ![j].status = s]
    /\ wk \in WorkerRec(Len(jobs)) /\ worker' = Changed(j, w, wk)
    /\ UNCHANGED <<alive, started>> /\ faults' \in 0..MaxFaults /\ faults <= faults'
    /\ RunOk(wk, jobs', started')
    /\ s \in {"pending", "rejected"} => jobs[j].runs = 0
    /\ s = "included" => jobs[j].runs > 0
    /\ s \in Terminal => jobs[j].status = "claimed"
    /\ \A i \in wk.known : /\ i \in worker[w].known
                           /\ \/ jobs[i].status = "pending" /\ i # j
                              \/ i = j /\ s = "claimed" /\ wk.pc \in Busy /\ wk.cur = j
    /\ \A i \in DOMAIN jobs \ {j} : ~(faults' = 0 /\ jobs[i].status = "claimed" /\ Holds(w, i))
    /\ s = "claimed" /\ faults' = 0 => /\ w \in alive /\ wk.pc \in Busy /\ wk.cur = j
                                       /\ j \in wk.known

LEMMA ChangeKeeps ==
    ASSUME TableInv, NEW w \in Workers, NEW wk, NEW j, NEW s, Gives(w, wk, j, s)
    PROVE  TableInv' /\ Kept /\ Len(jobs') = Len(jobs)
<1>1. /\ worker'[w] = wk
      /\ \A v \in Workers : v # w => worker'[v] = [worker[v] EXCEPT !.known = @ \ {j}]
    BY DEF Changed, Gives
<1>2. jobs \in Seq(Job) /\ worker \in [Workers -> WorkerRec(Len(jobs))]
    BY DEF TableInv, TableTypes
<1>3. j \in DOMAIN jobs /\ jobs[j].status \in {"pending", "claimed"}
    BY <1>2 DEF WorkerRec, TableInv, KnownInv, Gives
<1>4. \A v \in Workers : v # w =>
          /\ worker'[v].known = worker[v].known \ {j} /\ worker'[v].pc = worker[v].pc
          /\ worker'[v].cur = worker[v].cur /\ worker'[v].report = worker[v].report
          /\ worker'[v].left = worker[v].left
          /\ worker'[v] \in WorkerRec(Len(jobs))
  <2> SUFFICES ASSUME NEW v \in Workers, v # w
               PROVE  /\ worker'[v].known = worker[v].known \ {j} /\ worker'[v].pc = worker[v].pc
                      /\ worker'[v].cur = worker[v].cur /\ worker'[v].report = worker[v].report
                      /\ worker'[v].left = worker[v].left
                      /\ worker'[v] \in WorkerRec(Len(jobs))
      OBVIOUS
  <2>1. worker[v] \in WorkerRec(Len(jobs)) /\ worker'[v] = [worker[v] EXCEPT !.known = @ \ {j}]
      BY <1>1, <1>2
  <2> QED BY <2>1 DEF WorkerRec
<1>5. /\ jobs' \in Seq(Job) /\ Len(jobs') = Len(jobs) /\ DOMAIN jobs' = DOMAIN jobs
      /\ jobs'[j] = [jobs[j] EXCEPT !.status = s]
      /\ \A i \in DOMAIN jobs : i # j => jobs'[i] = jobs[i]
  <2>0. jobs[j] \in Job /\ s \in JobStatuses
      BY <1>2, <1>3, JobFields DEF Gives
  <2>1. [jobs[j] EXCEPT !.status = s] \in Job
      BY <2>0, JobDecides
  <2>2. jobs' = [jobs EXCEPT ![j] = [jobs[j] EXCEPT !.status = s]]
      BY DEF Gives
  <2> QED BY <1>2, <1>3, <2>1, <2>2, PutJob
<1>6. /\ jobs'[j].kind = jobs[j].kind /\ jobs'[j].key = jobs[j].key
      /\ jobs'[j].runs = jobs[j].runs /\ jobs'[j].status = s
  <2>1. jobs[j] \in Job /\ s \in JobStatuses
      BY <1>2, <1>3, JobFields DEF Gives
  <2> QED BY <2>1, <1>5, JobDecides
<1>7. TableTypes'
  <2>1. worker' = [v \in Workers |-> worker'[v]] /\ \A v \in Workers : worker'[v] \in WorkerRec(Len(jobs))
      BY <1>1, <1>4 DEF Changed, Gives
  <2>2. worker' \in [Workers -> WorkerRec(Len(jobs'))]
      BY <2>1, <1>5
  <2> QED BY <1>5, <2>2 DEF TableInv, TableTypes, Gives
<1>8. Kept
  <2>1. Len(jobs) \in Nat /\ \A i \in DOMAIN jobs : jobs[i].runs \in Nat
      BY <1>2, JobFields
  <2>2. QueueStep
    <3>1. /\ \A i \in DOMAIN jobs : ActsOf(i)' = ActsOf(i) /\ (i # j => StatusOf(i)' = StatusOf(i))
          /\ \A i \in (1..MaxJobs) \ DOMAIN jobs :
                 StatusOf(i)' = StatusOf(i) /\ ActsOf(i)' = ActsOf(i)
        BY <1>5, <1>6 DEF StatusOf, ActsOf
    <3>2. /\ j \in 1..MaxJobs /\ StatusOf(j) = jobs[j].status /\ ActsOf(j) = jobs[j].runs
          /\ StatusOf(j)' = s
        BY <1>2, <1>3, <1>5, <1>6, QueueSees DEF StatusOf, TableInv, TableTypes
    <3>3. Queue!Move(j, jobs[j].status, s)
        BY <1>3, <3>1, <3>2, QueueMoves
    <3>4. ActsOf(j) \in {0, 1}
        BY <1>3, <2>1, <3>2 DEF TableInv, RunsInv
    <3>5. CASE jobs[j].status = s
      <4>1. \A i \in 1..MaxJobs : StatusOf(i)' = StatusOf(i) /\ ActsOf(i)' = ActsOf(i)
          BY <3>1, <3>2, <3>5
      <4> QED BY <4>1 DEF QueueStep, Queue!queueVars
    <3>6. CASE jobs[j].status = "pending" /\ s = "claimed"
        BY <3>2, <3>3, <3>6 DEF QueueStep, Queue!QueueNext, Queue!Take
    <3>7. CASE jobs[j].status = "claimed" /\ s = "pending"
      <4>1. Queue!PutBack(j)
          BY <3>2, <3>3, <3>7 DEF Queue!PutBack, Gives
      <4> QED BY <3>2, <4>1 DEF QueueStep, Queue!QueueNext
    <3>8. CASE jobs[j].status = "claimed" /\ s \in Terminal
      <4>1. Queue!Decide(j)
          BY <3>2, <3>3, <3>4, <3>8 DEF Queue!Decide, Terminal, Gives
      <4> QED BY <3>2, <4>1 DEF QueueStep, Queue!QueueNext
    <3> QED BY <1>3, <3>5, <3>6, <3>7, <3>8 DEF Gives, JobStatuses
  <2> QED BY <2>1, <2>2, <1>3, <1>5, <1>6 DEF Kept, Terminal, Gives
<1>9. RunsInv'
    BY <1>5, <1>6 DEF TableInv, RunsInv, Gives
<1>10. KnownInv'
  <2> SUFFICES ASSUME NEW u \in Workers, NEW i \in worker'[u].known,
                      jobs'[i].status # "pending"
               PROVE  /\ jobs'[i].status = "claimed"
                      /\ worker'[u].pc \in Busy /\ worker'[u].cur = i
                      /\ \A v \in Workers : i \in worker'[v].known => v = u
      BY DEF KnownInv
  <2>0. \A v \in Workers : worker[v].known \subseteq DOMAIN jobs
      BY <1>2 DEF WorkerRec
  <2>1. CASE u = w
    <3>1. i \in DOMAIN jobs /\ i \in wk.known
        BY <2>0, <2>1, <1>1 DEF Gives
    <3>2. i = j
        BY <3>1, <1>5 DEF Gives
    <3> QED BY <3>1, <3>2, <2>1, <1>1, <1>4, <1>6 DEF Gives
  <2>2. CASE u # w
    <3>1. i \in DOMAIN jobs /\ i # j /\ i \in worker[u].known /\ jobs[i].status # "pending"
        BY <2>0, <2>2, <1>4, <1>5
    <3>2. /\ jobs[i].status = "claimed" /\ worker[u].pc \in Busy /\ worker[u].cur = i
          /\ \A v \in Workers : i \in worker[v].known => v = u
        BY <3>1 DEF TableInv, KnownInv
    <3>3. \A v \in Workers : i \in worker'[v].known => i \in worker[v].known
        BY <1>1, <1>4 DEF Gives
    <3> QED BY <3>1, <3>2, <3>3, <2>2, <1>4, <1>5
  <2> QED BY <2>1, <2>2
<1>11. RunInv'
  <2> SUFFICES ASSUME NEW v \in Workers PROVE RunOk(worker'[v], jobs', started')
      BY DEF RunInv
  <2>2. CASE v = w
      BY <2>2, <1>1 DEF Gives
  <2>3. CASE v # w
    <3>1. RunOk(worker[v], jobs, started)
        BY DEF TableInv, RunInv
    <3>2. worker[v].pc \in Busy => worker[v].cur \in DOMAIN jobs
        BY <3>1 DEF RunOk
    <3>3. worker[v].pc \in Busy /\ worker[v].cur \in worker[v].known => worker[v].cur # j
        BY <3>1, <2>3 DEF RunOk, TableInv, KnownInv, Gives
    <3>4. worker[v].pc = "run" \/ (worker[v].pc = "send" /\ jobs[worker[v].cur].kind = "execute")
            => worker[v].cur # j
        BY <3>1, <3>3 DEF RunOk, Busy
    <3>5. \A i \in DOMAIN jobs : /\ jobs'[i].kind = jobs[i].kind /\ jobs'[i].key = jobs[i].key
                                 /\ jobs'[i].runs = jobs[i].runs
                                 /\ i # j => jobs'[i].status = jobs[i].status
        BY <1>5, <1>6
    <3> QED BY <3>1, <3>2, <3>3, <3>4, <3>5, <2>3, <1>4, <1>5 DEF RunOk, Busy, Gives
  <2> QED BY <2>2, <2>3
<1>12. HeldInv'
  <2> SUFFICES ASSUME NEW i \in DOMAIN jobs, jobs'[i].status = "claimed", faults' = 0
               PROVE  \E v \in Workers : Holds(v, i)'
      BY <1>5 DEF HeldInv
  <2>1. CASE i = j
      BY <2>1, <1>1, <1>6 DEF Holds, Busy, Gives
  <2>2. CASE i # j
    <3>1. jobs[i].status = "claimed" /\ faults = 0
        BY <2>2, <1>5 DEF TableInv, TableTypes, Gives
    <3>2. PICK v \in Workers : Holds(v, i)
        BY <3>1 DEF TableInv, HeldInv
    <3>3. v # w
        BY <3>1, <3>2, <2>2 DEF Gives
    <3> QED BY <3>2, <3>3, <2>2, <1>4 DEF Holds, Gives
  <2> QED BY <2>1, <2>2
<1> QED BY <1>5, <1>7, <1>8, <1>9, <1>10, <1>11, <1>12 DEF TableInv

\* The table and its processes stay.
LEMMA AsideKeeps ==
    ASSUME TableInv, UNCHANGED <<jobs, worker, alive, faults>>, started \subseteq started'
    PROVE  TableInv' /\ Kept
<1>1. TableTypes' /\ RunsInv' /\ KnownInv'
    BY DEF TableInv, TableTypes, RunsInv, KnownInv
<1>2. RunInv'
    BY DEF TableInv, RunInv, RunOk
<1>3. HeldInv'
    BY DEF TableInv, HeldInv, Holds
<1>4. Kept
  <2>1. Len(jobs) \in Nat /\ \A j \in DOMAIN jobs : jobs[j].runs \in Nat
      BY JobFields DEF TableInv, TableTypes
  <2> QED BY <2>1, QueueStays DEF Kept
<1> QED BY <1>1, <1>2, <1>3, <1>4 DEF TableInv

\* The running job of w goes on to be tracked as status.
LEMMA ReportKeeps ==
    ASSUME TableInv, NEW w \in Workers, NEW status \in {"pending"} \cup Terminal,
           Report(w, status), UNCHANGED <<jobs, alive>>, worker[w].pc \in {"run", "send"},
           started \subseteq started', faults' \in 0..MaxFaults, faults <= faults',
           status \in {"pending", "rejected"} => worker[w].pc = "run",
           status = "included" => worker[w].pc = "send"
                                  /\ jobs[worker[w].cur].kind # "execute"
    PROVE  TableInv' /\ Kept
<1> PICK wk : wk = [worker[w] EXCEPT !.pc = "track", !.report = status,
                                     !.inCatch = (status = "failed")]
    OBVIOUS
<1>1. worker[w] \in WorkerRec(Len(jobs)) /\ RunOk(worker[w], jobs, started)
    BY DEF TableInv, TableTypes, RunInv
<1>2. worker' = [worker EXCEPT ![w] = wk]
    BY DEF Report
<1>3. wk \in WorkerRec(Len(jobs))
    BY <1>1 DEF WorkerRec
<1>4. /\ wk.pc = "track" /\ wk.report = status /\ wk.known = worker[w].known
      /\ wk.cur = worker[w].cur
    BY <1>1 DEF WorkerRec
<1>5. RunOk(wk, jobs', started')
    BY <1>1, <1>4 DEF RunOk, Busy, Terminal
<1>6. \A j \in wk.known : \/ jobs[j].status = "pending"
                          \/ j \in worker[w].known /\ wk.pc \in Busy /\ wk.cur = j
    BY <1>4 DEF TableInv, KnownInv, Busy
<1>7. \A j \in DOMAIN jobs : jobs[j].status = "claimed" /\ Holds(w, j) /\ faults' = 0 =>
          wk.pc \in Busy /\ wk.cur = j /\ j \in wk.known
    BY <1>4 DEF Holds, Busy
<1>8. GoesOn(w, wk)
    BY <1>2, <1>3, <1>5, <1>6, <1>7 DEF GoesOn
<1> QED BY <1>8, LocalKeeps

-----------------------------------------------------------------------------
(* The chain and the requests.                                             *)

ChainStep ==
    \/ SameChain \/ ExecuteRestore \/ CancelRestore
    \/ \E key \in Requests \cup {Client} : StartRestore(key)

LEMMA ChainStepKeeps ==
    ASSUME ChainTypes, ChainStep, UNCHANGED setting, wallet' \in WalletStates
    PROVE  ChainTypes' /\ started \subseteq started'
<1>1. CASE SameChain
    BY <1>1 DEF SameChain, ChainTypes, setting
<1>2. CASE ExecuteRestore
    BY <1>2 DEF ExecuteRestore, NoRestore, ChainTypes, setting
<1>3. CASE CancelRestore
    BY <1>3 DEF CancelRestore, NoRestore, ChainTypes, setting
<1>4. ASSUME NEW key \in Requests \cup {Client}, StartRestore(key)
      PROVE  ChainTypes' /\ started \subseteq started'
    BY <1>4 DEF StartRestore, ChainTypes, setting
<1> QED BY <1>1, <1>2, <1>3, <1>4 DEF ChainStep

\* Requests change to what the table and the chain bear out.
LEMMA RequestsMove ==
    ASSUME RequestInv, TableTypes, TableTypes', Kept, started \subseteq started',
           requests' \in [Requests -> Active \cup {"none", "rejected", "cancelled", "archived"}],
           jobOf' \in [Requests -> 0..Len(jobs')],
           \A r \in Requests : \/ jobOf'[r] = jobOf[r]
                               \/ jobOf'[r] \in DOMAIN jobs' /\ jobs'[jobOf'[r]].key = r,
           \A r \in Requests :
               \/ requests'[r] = requests[r] /\ jobOf'[r] = jobOf[r]
               \/ requests'[r] \notin {"on_chain", "archived"}
               \/ /\ requests'[r] = "on_chain"
                  /\ r \in started' \/ (jobOf'[r] # 0 /\ jobs'[jobOf'[r]].kind = "execute")
               \/ /\ requests'[r] = "archived"
                  /\ \E j \in DOMAIN jobs' :
                        jobs'[j].kind = "execute" /\ jobs'[j].key = r /\ jobs'[j].runs > 0
    PROVE  RequestInv'
<1>1. /\ DOMAIN jobs = 1..Len(jobs) /\ DOMAIN jobs' = 1..Len(jobs')
      /\ Len(jobs) \in Nat /\ Len(jobs') \in Nat
      /\ \A j \in DOMAIN jobs : jobs[j].runs \in Nat
      /\ \A j \in DOMAIN jobs' : jobs'[j].runs \in Nat
  <2>1. \A j \in DOMAIN jobs : jobs[j].runs \in Nat
      BY JobFields DEF TableTypes
  <2>2. \A j \in DOMAIN jobs' : jobs'[j].runs \in Nat
    <3>1. \A j \in DOMAIN jobs' : jobs'[j] \in Job
        BY DEF TableTypes
    <3> QED BY <3>1 DEF Job
  <2> QED BY <2>1, <2>2 DEF TableTypes
<1>2. \A r \in Requests : jobOf'[r] # 0 => jobs'[jobOf'[r]].key = r
  <2>1. \A r \in Requests : jobOf[r] # 0 => jobOf[r] \in DOMAIN jobs /\ jobs[jobOf[r]].key = r
      BY <1>1 DEF RequestInv
  <2> QED BY <2>1 DEF Kept
<1>3. ASSUME NEW r \in Requests, jobOf[r] # 0
      PROVE  jobs'[jobOf[r]].kind = jobs[jobOf[r]].kind
  <2>1. jobOf[r] \in DOMAIN jobs
      BY <1>1, <1>3 DEF RequestInv
  <2> QED BY <2>1 DEF Kept
<1>4. RequestFollowsChain'
  <2> SUFFICES ASSUME NEW r \in Requests
               PROVE  /\ requests'[r] = "on_chain" =>
                           r \in started' \/ (jobOf'[r] # 0 /\ jobs'[jobOf'[r]].kind = "execute")
                      /\ requests'[r] = "archived" => \E j \in DOMAIN jobs' :
                            jobs'[j].kind = "execute" /\ jobs'[j].key = r /\ jobs'[j].runs > 0
      BY DEF RequestFollowsChain
  <2>1. CASE requests'[r] = requests[r] /\ jobOf'[r] = jobOf[r]
    <3>1. requests[r] = "on_chain" =>
              r \in started \/ (jobOf[r] # 0 /\ jobs[jobOf[r]].kind = "execute")
        BY DEF RequestInv, RequestFollowsChain
    <3>2. ASSUME requests[r] = "archived"
          PROVE  \E j \in DOMAIN jobs' :
                     jobs'[j].kind = "execute" /\ jobs'[j].key = r /\ jobs'[j].runs > 0
      <4>1. PICK j \in DOMAIN jobs :
                jobs[j].kind = "execute" /\ jobs[j].key = r /\ jobs[j].runs > 0
          BY <3>2 DEF RequestInv, RequestFollowsChain
      <4>2. /\ j \in DOMAIN jobs' /\ jobs'[j].kind = "execute" /\ jobs'[j].key = r
            /\ jobs'[j].runs >= jobs[j].runs
          BY <4>1 DEF Kept
      <4> QED BY <4>1, <4>2, <1>1
    <3> QED BY <2>1, <3>1, <3>2, <1>3
  <2> QED BY <2>1
<1> QED BY <1>2, <1>4 DEF RequestInv

\* A step that adds no job and leaves the requests.
LEMMA RequestsStay ==
    ASSUME RecoveryInv, TableInv', Kept, Len(jobs') = Len(jobs), ChainStep,
           wallet' \in WalletStates, UNCHANGED <<setting, requestVars>>
    PROVE  RecoveryInv'
<1>1. ChainTypes' /\ started \subseteq started'
    BY ChainStepKeeps DEF RecoveryInv
<1>2. TableTypes /\ TableTypes' /\ DOMAIN jobs' = DOMAIN jobs
    BY DEF RecoveryInv, TableInv, TableTypes
<1>3. RequestInv'
    BY <1>1, <1>2, RequestsMove DEF RecoveryInv, RequestInv, requestVars
<1> QED BY <1>1, <1>3 DEF RecoveryInv

LEMMA JobsInitial == JobsInit => RecoveryInv
<1> SUFFICES ASSUME JobsInit PROVE RecoveryInv
    OBVIOUS
<1>1. ChainTypes
    BY DEF JobsInit, ChainTypes, NoRestore, WalletStates
<1>2. jobs \in Seq(Job) /\ Len(jobs) = 0 /\ DOMAIN jobs = {}
    BY DEF JobsInit
<1>3. IdleWorker \in WorkerRec(0)
    BY DEF IdleWorker, WorkerRec
<1>4. TableTypes
    BY <1>2, <1>3, RecoveryJobsAssumption DEF JobsInit, TableTypes
<1>5. RunsInv /\ HeldInv
    BY <1>2 DEF RunsInv, HeldInv
<1>6. KnownInv /\ RunInv
    BY DEF JobsInit, IdleWorker, KnownInv, RunInv, RunOk, Busy
<1>7. RequestInv
    BY <1>2 DEF JobsInit, RequestInv, RequestFollowsChain
<1> QED BY <1>1, <1>4, <1>5, <1>6, <1>7 DEF RecoveryInv, TableInv

-----------------------------------------------------------------------------
(* The activator's steps.                                                  *)

LEMMA Typed ==
    ASSUME RecoveryInv, NEW w \in Workers
    PROVE  /\ worker[w] \in WorkerRec(Len(jobs)) /\ RunOk(worker[w], jobs, started)
           /\ worker[w].cur \in Nat /\ worker[w].known \subseteq DOMAIN jobs
           /\ worker[w].todo \subseteq DOMAIN jobs /\ worker[w].left \in Nat
           /\ jobs \in Seq(Job) /\ Len(jobs) \in Nat /\ DOMAIN jobs = 1..Len(jobs)
           /\ faults \in Nat /\ faults \in 0..MaxFaults /\ MaxFaults \in Nat
           /\ wallet \in WalletStates /\ TableInv
<1>1. /\ worker[w] \in WorkerRec(Len(jobs)) /\ RunOk(worker[w], jobs, started)
      /\ jobs \in Seq(Job) /\ Len(jobs) \in Nat /\ DOMAIN jobs = 1..Len(jobs)
      /\ faults \in Nat /\ faults \in 0..MaxFaults /\ MaxFaults \in Nat
      /\ wallet \in WalletStates /\ TableInv
    BY RecoveryJobsAssumption DEF RecoveryInv, ChainTypes, TableInv, TableTypes, RunInv
<1> QED BY <1>1 DEF WorkerRec

LEMMA IdleTyped ==
    ASSUME Len(jobs) \in Nat
    PROVE  /\ IdleWorker \in WorkerRec(Len(jobs)) /\ IdleWorker.known = {}
           /\ IdleWorker.pc = "idle" /\ IdleWorker.cur = 0
BY DEF IdleWorker, WorkerRec

LEMMA FetchKeeps ==
    ASSUME RecoveryInv, NEW w \in Workers, Fetch(w)
    PROVE  RecoveryInv' /\ Kept
<1>0. PICK n \in Room..MaxJobs : Starts(w, Oldest(n, "pending"))
    BY DEF Fetch
<1> DEFINE pending == Oldest(n, "pending")
<1>1. pending \subseteq DOMAIN jobs /\ \A j \in pending : jobs[j].status = "pending"
    BY DEF Oldest, WithStatus
<1>2. PICK wk : wk = [IdleWorker EXCEPT
              !.pc = "jobs", !.todo = pending, !.known = pending,
              !.cancelSeen = \E j \in pending : jobs[j].kind = "cancel"]
    OBVIOUS
<1>3. worker' = [worker EXCEPT ![w] = wk] /\ worker[w].pc = "idle"
    BY <1>0, <1>2 DEF Fetch, Starts, At
<1>4. wk \in WorkerRec(Len(jobs)) /\ wk.pc = "jobs" /\ wk.known = pending
  <2>1. pending \in SUBSET (1..Len(jobs)) /\ 0 \in 0..Len(jobs)
      BY <1>1, Typed
  <2> HIDE DEF pending
  <2> QED BY <2>1, <1>2 DEF IdleWorker, WorkerRec
<1> HIDE DEF pending
<1>5. RunOk(wk, jobs', started')
    BY <1>4 DEF RunOk, Busy
<1>6. \A j \in DOMAIN jobs : ~Holds(w, j)
    BY <1>3 DEF Holds
<1>7. GoesOn(w, wk)
  <2>1. UNCHANGED <<jobs, alive, started, faults>> /\ faults \in 0..MaxFaults /\ faults <= faults'
      BY Typed DEF Fetch, SameChain, WorkerOnly
  <2> QED BY <1>1, <1>3, <1>4, <1>5, <1>6, <2>1 DEF GoesOn
<1>8. TableInv' /\ Kept
    BY <1>7, Typed, LocalKeeps
<1> QED BY <1>8, Typed, RequestsStay DEF Fetch, WorkerOnly, ChainStep, requestVars, setting

LEMMA ClaimKeeps ==
    ASSUME RecoveryInv, NEW w \in Workers, Claim(w)
    PROVE  RecoveryInv' /\ Kept
<1>1. PICK j : j = First(worker[w].todo)
    OBVIOUS
<1>2. /\ worker[w].pc = "jobs" /\ \A i : ~Holds(w, i)
      /\ \A i \in worker[w].known : jobs[i].status = "pending"
    BY Typed DEF Claim, At, Holds, Busy, TableInv, KnownInv
<1>3. PICK skip : skip = [worker[w] EXCEPT !.todo = @ \ {j}, !.known = @ \ {j}]
    OBVIOUS
<1>4. /\ skip \in WorkerRec(Len(jobs)) /\ skip.pc = "jobs" /\ skip.known = worker[w].known \ {j}
      /\ RunOk(skip, jobs', started')
  <2>1. skip \in WorkerRec(Len(jobs)) /\ skip.pc = "jobs" /\ skip.known = worker[w].known \ {j}
      BY <1>2, <1>3, Typed DEF WorkerRec
  <2> QED BY <2>1 DEF RunOk, Busy
<1>5. PICK runs : runs = [worker[w] EXCEPT !.todo = @ \ {j}, !.known = @ \cup {j},
                                           !.pc = "run", !.cur = j]
    OBVIOUS
<1>6. /\ UNCHANGED <<alive, started, requests, jobOf, setting, wallet>> /\ SameChain
    BY DEF Claim, SameChain, WorkerOnly
<1>7. CASE /\ MayClaim(w, j) /\ jobs' = [jobs EXCEPT ![j].status = "claimed"]
           /\ \/ worker' = Changed(j, w, runs) /\ faults' = faults
              \/ worker' = Changed(j, w, skip) /\ faults < MaxFaults /\ faults' = faults + 1
  <2>1. j \in worker[w].known /\ j \in DOMAIN jobs /\ jobs[j].runs = 0
      BY <1>2, <1>7, Typed DEF MayClaim, TableInv, RunsInv
  <2>2. /\ runs \in WorkerRec(Len(jobs)) /\ runs.pc = "run" /\ runs.known = worker[w].known
        /\ runs.cur = j
    <3>1. j \in 0..Len(jobs) /\ worker[w].known \cup {j} = worker[w].known
        BY <2>1, Typed
    <3>2. worker[w] \in WorkerRec(Len(jobs))
        BY Typed
    <3> QED BY <1>5, <3>1, <3>2 DEF WorkerRec
  <2>3. /\ DOMAIN jobs' = DOMAIN jobs /\ jobs'[j].status = "claimed" /\ jobs'[j].runs = 0
    <3>1. jobs[j] \in Job
        BY <2>1, Typed, JobFields
    <3> QED BY <1>7, <2>1, <3>1, Typed DEF Job
  <2>4. RunOk(runs, jobs', started')
      BY <2>1, <2>2, <2>3 DEF RunOk, Busy
  <2>5. "claimed" \in JobStatuses /\ "claimed" \notin Terminal \cup {"pending"}
      BY DEF JobStatuses, Terminal
  <2>6. CASE worker' = Changed(j, w, runs) /\ faults' = faults
    <3>1. faults' \in 0..MaxFaults /\ faults <= faults'
        BY <2>6, Typed DEF TableInv, TableTypes
    <3>2. w \in alive
        BY DEF Claim, At
    <3>3. Gives(w, runs, j, "claimed")
        BY <1>2, <1>6, <1>7, <2>1, <2>2, <2>4, <2>5, <2>6, <3>1, <3>2 DEF Gives, Busy, Terminal
    <3> QED BY <3>3, <1>6, Typed, ChangeKeeps, RequestsStay DEF ChainStep, requestVars
  <2>7. CASE worker' = Changed(j, w, skip) /\ faults < MaxFaults /\ faults' = faults + 1
    <3>1. faults' \in 0..MaxFaults /\ faults <= faults' /\ faults' # 0
        BY <2>7, Typed
    <3>2. Gives(w, skip, j, "claimed")
        BY <1>2, <1>4, <1>6, <1>7, <2>1, <2>5, <2>7, <3>1 DEF Gives, Terminal
    <3> QED BY <3>2, <1>6, Typed, ChangeKeeps, RequestsStay DEF ChainStep, requestVars
  <2> QED BY <1>7, <2>6, <2>7
<1>8. CASE worker' = [worker EXCEPT ![w] = skip] /\ UNCHANGED <<jobs, faults>>
  <2>1. GoesOn(w, skip)
    <3>1. faults' \in 0..MaxFaults /\ faults <= faults'
        BY <1>8, Typed DEF TableInv, TableTypes
    <3> QED BY <1>2, <1>4, <1>6, <1>8, <3>1 DEF GoesOn
  <2> QED BY <2>1, <1>6, <1>8, Typed, LocalKeeps, RequestsStay DEF ChainStep, requestVars
<1> QED BY <1>1, <1>3, <1>5, <1>7, <1>8 DEF Claim

\* The running job of w acted on the chain, which w tracks.
LEMMA RanReports ==
    ASSUME RecoveryInv, NEW w \in Workers, w \in alive, RanOnChain(w), Report(w, "included"),
           worker[w].pc = "run" \/ (worker[w].pc = "send" /\ jobs[worker[w].cur].kind = "execute"),
           UNCHANGED <<alive, faults>>, started \subseteq started',
           jobs[worker[w].cur].kind = "initiate" =>
               jobs[worker[w].cur].key \in started' \cup {Client}
    PROVE  TableInv' /\ Kept /\ Len(jobs') = Len(jobs)
<1>1. PICK j : j = worker[w].cur
    OBVIOUS
<1>2. PICK wk : wk = [worker[w] EXCEPT !.pc = "track", !.report = "included",
                                       !.inCatch = ("included" = "failed")]
    OBVIOUS
<1>3. worker' = [worker EXCEPT ![w] = wk] /\ jobs' = [jobs EXCEPT ![j].runs = @ + 1]
    BY <1>1, <1>2 DEF Report, RanOnChain
<1>4. /\ wk \in WorkerRec(Len(jobs)) /\ wk.known = worker[w].known /\ wk.cur = j
      /\ wk.pc = "track" /\ wk.report = "included"
  <2>1. worker[w] \in WorkerRec(Len(jobs))
      BY Typed
  <2> QED BY <1>1, <1>2, <2>1 DEF WorkerRec, Terminal
<1>5. Ran(w, wk, j)
    BY <1>1, <1>3, <1>4 DEF Ran
<1> QED BY <1>5, Typed, RanKeeps

\* w, which found out all it needs, is about to execute.
LEMMA SendKeeps ==
    ASSUME TableInv, NEW w \in Workers, w \in alive, worker[w].pc = "run",
           worker' = [worker EXCEPT ![w].pc = "send"], UNCHANGED <<jobs, alive, faults, started>>,
           jobs[worker[w].cur].kind = "execute"
    PROVE  TableInv' /\ Kept
<1>1. PICK wk : wk = [worker[w] EXCEPT !.pc = "send"]
    OBVIOUS
<1>2. worker[w] \in WorkerRec(Len(jobs)) /\ RunOk(worker[w], jobs, started)
      /\ faults \in 0..MaxFaults /\ faults <= faults'
    BY RecoveryJobsAssumption DEF TableInv, TableTypes, RunInv
<1>3. /\ wk \in WorkerRec(Len(jobs)) /\ wk.pc = "send" /\ wk.known = worker[w].known
      /\ wk.cur = worker[w].cur
    BY <1>1, <1>2 DEF WorkerRec
<1>4. RunOk(wk, jobs', started')
    BY <1>2, <1>3 DEF RunOk, Busy
<1>5. /\ \A j \in wk.known : \/ jobs[j].status = "pending"
                             \/ j \in worker[w].known /\ wk.pc \in Busy /\ wk.cur = j
      /\ \A j \in DOMAIN jobs : Holds(w, j) =>
             wk.pc \in Busy /\ wk.cur = j /\ j \in wk.known
    BY <1>3 DEF TableInv, KnownInv, Holds, Busy
<1>6. GoesOn(w, wk)
    BY <1>1, <1>2, <1>3, <1>4, <1>5 DEF GoesOn
<1> QED BY <1>6, LocalKeeps

LEMMA RunInitiateKeeps ==
    ASSUME RecoveryInv, NEW w \in Workers, RunInitiate(w)
    PROVE  RecoveryInv' /\ Kept
<1> DEFINE job == jobs[worker[w].cur]
<1>1. /\ w \in alive /\ worker[w].pc = "run" /\ job.kind = "initiate"
      /\ UNCHANGED <<setting, wallet, jobOf, alive, requests, faults>>
    BY DEF RunInitiate, At, WorkerOnly
<1>2. /\ TableInv /\ jobs \in Seq(Job) /\ worker[w].cur \in DOMAIN jobs
      /\ wallet \in WalletStates /\ faults \in 0..MaxFaults /\ faults <= faults'
    BY <1>1, Typed DEF RunOk, Busy
<1>3. job.key \in Requests \cup {Client}
    BY <1>2, JobFields
<1>4. ASSUME NEW status \in {"pending", "failed"}, Report(w, status), SameChain, UNCHANGED jobs
      PROVE  RecoveryInv' /\ Kept
  <2>1. started \subseteq started' /\ status \in {"pending"} \cup Terminal
      BY <1>4 DEF SameChain, Terminal
  <2>2. TableInv' /\ Kept
      BY <1>1, <1>2, <1>4, <2>1, ReportKeeps
  <2> QED BY <1>1, <1>2, <1>4, <2>2, RequestsStay DEF ChainStep, requestVars
<1>5. ASSUME StartRestore(job.key), RanOnChain(w)
      PROVE  /\ ChainStep /\ started \subseteq started'
             /\ job.key \in started' \cup {Client}
    BY <1>3, <1>5 DEF StartRestore, ChainStep
<1>6. ASSUME StartRestore(job.key), RanOnChain(w), Report(w, "included")
      PROVE  RecoveryInv' /\ Kept
  <2>1. TableInv' /\ Kept /\ Len(jobs') = Len(jobs)
      BY <1>1, <1>5, <1>6, RanReports
  <2> QED BY <1>1, <1>2, <1>5, <1>6, <2>1, RequestsStay DEF requestVars
<1>7. ASSUME StartRestore(job.key), RanOnChain(w),
             worker' = [worker EXCEPT ![w].pc = "send"]
      PROVE  RecoveryInv' /\ Kept
  <2>1. PICK j : j = worker[w].cur
      OBVIOUS
  <2>2. PICK wk : wk = [worker[w] EXCEPT !.pc = "send"]
      OBVIOUS
  <2>3. worker' = [worker EXCEPT ![w] = wk] /\ jobs' = [jobs EXCEPT ![j].runs = @ + 1]
      BY <1>7, <2>1, <2>2 DEF RanOnChain
  <2>4. /\ wk \in WorkerRec(Len(jobs)) /\ wk.known = worker[w].known /\ wk.cur = j
        /\ wk.pc = "send"
    <3>1. worker[w] \in WorkerRec(Len(jobs))
        BY Typed
    <3> QED BY <2>1, <2>2, <3>1 DEF WorkerRec
  <2>5. Ran(w, wk, j)
      BY <1>1, <1>5, <1>7, <2>1, <2>3, <2>4 DEF Ran
  <2>6. TableInv' /\ Kept /\ Len(jobs') = Len(jobs)
      BY <1>2, <2>5, RanKeeps
  <2> QED BY <1>1, <1>2, <1>5, <1>7, <2>6, RequestsStay DEF requestVars
<1> QED BY <1>4, <1>6, <1>7 DEF RunInitiate

LEMMA RunCancelKeeps ==
    ASSUME RecoveryInv, NEW w \in Workers, RunCancel(w)
    PROVE  RecoveryInv' /\ Kept
<1>1. /\ w \in alive /\ worker[w].pc = "run" /\ jobs[worker[w].cur].kind = "cancel"
      /\ UNCHANGED <<setting, wallet, jobOf, alive, requests, faults>>
    BY DEF RunCancel, At, WorkerOnly
<1>2. TableInv /\ wallet \in WalletStates /\ faults \in 0..MaxFaults /\ faults <= faults'
    BY <1>1, Typed
<1>3. CASE CancelRestore /\ RanOnChain(w) /\ Report(w, "included")
  <2>1. started \subseteq started' /\ ChainStep
      BY <1>3 DEF CancelRestore, ChainStep
  <2>2. TableInv' /\ Kept /\ Len(jobs') = Len(jobs)
      BY <1>1, <1>3, <2>1, RanReports
  <2> QED BY <1>1, <1>2, <2>1, <2>2, RequestsStay DEF requestVars
<1>4. CASE Report(w, "failed") /\ SameChain /\ UNCHANGED jobs
  <2>1. started \subseteq started' /\ "failed" \in {"pending"} \cup Terminal
      BY <1>4 DEF SameChain, Terminal
  <2>2. TableInv' /\ Kept
      BY <1>1, <1>2, <1>4, <2>1, ReportKeeps
  <2> QED BY <1>1, <1>2, <1>4, <2>2, RequestsStay DEF ChainStep, requestVars
<1> QED BY <1>3, <1>4 DEF RunCancel

LEMMA RunExecuteKeeps ==
    ASSUME RecoveryInv, NEW w \in Workers, RunExecute(w)
    PROVE  RecoveryInv' /\ Kept
<1>1. /\ w \in alive /\ worker[w].pc = "run" /\ jobs[worker[w].cur].kind = "execute"
      /\ UNCHANGED <<setting, wallet, jobOf, alive, requests, jobs, faults>> /\ SameChain
    BY DEF RunExecute, At, WorkerOnly
<1>2. /\ TableInv /\ wallet \in WalletStates /\ faults \in 0..MaxFaults /\ faults <= faults'
      /\ UNCHANGED started
    BY <1>1, Typed DEF SameChain
<1>3. ASSUME NEW status \in {"rejected", "pending"}, Report(w, status)
      PROVE  TableInv' /\ Kept
  <2>1. status \in {"pending"} \cup Terminal /\ status # "included"
      BY DEF Terminal
  <2> QED BY <1>1, <1>2, <1>3, <2>1, ReportKeeps
<1>4. ASSUME worker' = [worker EXCEPT ![w].pc = "send"]
      PROVE  TableInv' /\ Kept
    BY <1>1, <1>2, <1>4, SendKeeps
<1>5. TableInv' /\ Kept
    BY <1>3, <1>4 DEF RunExecute
<1> QED BY <1>1, <1>2, <1>5, RequestsStay DEF ChainStep, requestVars

LEMMA SendExecuteKeeps ==
    ASSUME RecoveryInv, NEW w \in Workers, SendExecute(w)
    PROVE  RecoveryInv' /\ Kept
<1>1. /\ w \in alive /\ worker[w].pc = "send"
      /\ UNCHANGED <<setting, wallet, jobOf, alive, requests, faults>>
    BY DEF SendExecute, At, WorkerOnly
<1>2. TableInv /\ wallet \in WalletStates /\ faults \in 0..MaxFaults /\ faults <= faults'
    BY <1>1, Typed
<1>3. CASE CanExecute
  <2>0. /\ ExecuteRestore /\ Report(w, "included")
        /\ IF jobs[worker[w].cur].kind = "execute" THEN RanOnChain(w) ELSE UNCHANGED jobs
      BY <1>3 DEF SendExecute
  <2>1. UNCHANGED started /\ ChainStep /\ "included" \in {"pending"} \cup Terminal
      BY <2>0 DEF ExecuteRestore, ChainStep, Terminal
  <2>2. CASE jobs[worker[w].cur].kind = "execute" /\ RanOnChain(w)
    <3>1. TableInv' /\ Kept /\ Len(jobs') = Len(jobs)
        BY <1>1, <2>0, <2>1, <2>2, RanReports
    <3> QED BY <1>1, <1>2, <2>1, <3>1, RequestsStay DEF requestVars
  <2>3. CASE jobs[worker[w].cur].kind # "execute" /\ UNCHANGED jobs
    <3>1. TableInv' /\ Kept
        BY <1>1, <1>2, <2>0, <2>1, <2>3, ReportKeeps
    <3> QED BY <1>1, <1>2, <2>1, <2>3, <3>1, RequestsStay DEF requestVars
  <2> QED BY <2>0, <2>2, <2>3
<1>4. CASE ~CanExecute
  <2>0. Report(w, "failed") /\ SameChain /\ UNCHANGED jobs
      BY <1>4 DEF SendExecute
  <2>1. started \subseteq started' /\ "failed" \in {"pending"} \cup Terminal
      BY <2>0 DEF SameChain, Terminal
  <2>2. TableInv' /\ Kept
      BY <1>1, <1>2, <2>0, <2>1, ReportKeeps
  <2> QED BY <1>1, <1>2, <2>0, <2>2, RequestsStay DEF ChainStep, requestVars
<1> QED BY <1>3, <1>4

LEMMA ChainCallFailsKeeps ==
    ASSUME RecoveryInv, NEW w \in Workers, ChainCallFails(w)
    PROVE  RecoveryInv' /\ Kept
<1>1. /\ worker[w].pc \in {"run", "send"} /\ Report(w, "failed") /\ SameChain
      /\ UNCHANGED <<setting, wallet, jobOf, alive, requests, jobs>>
    BY DEF ChainCallFails, At, WorkerOnly
<1>2. /\ TableInv /\ wallet \in WalletStates /\ faults' \in 0..MaxFaults /\ faults <= faults'
      /\ started \subseteq started' /\ "failed" \in {"pending"} \cup Terminal
    BY <1>1, Typed DEF ChainCallFails, SameChain, Terminal
<1>3. TableInv' /\ Kept
    BY <1>1, <1>2, ReportKeeps
<1> QED BY <1>1, <1>2, <1>3, RequestsStay DEF ChainStep, requestVars

\* The job table answers a track: the table, and the requests that follow.
LEMMA ServeTrackKeeps ==
    ASSUME RecoveryInv, NEW w \in Workers, NEW wk, MayTrack(w), ServeTrack(w, wk),
           worker[w].pc = "track", wk \in WorkerRec(Len(jobs)), RunOk(wk, jobs', started'),
           wk.known \subseteq worker[w].known \ {worker[w].cur},
           faults' \in 0..MaxFaults, faults <= faults', SameChain, WorkerOnly
    PROVE  RecoveryInv' /\ Kept
<1>1. PICK j, s : j = worker[w].cur /\ s = worker[w].report
    OBVIOUS
<1>2. /\ jobs' = [jobs EXCEPT ![j].status = s] /\ worker' = Changed(j, w, wk)
      /\ SyncRequest(j, s) /\ UNCHANGED <<alive, started, setting, wallet, jobOf>>
    BY <1>1 DEF ServeTrack, SameChain, WorkerOnly
<1>3. /\ j \in DOMAIN jobs /\ j \in worker[w].known /\ jobs[j].status = "claimed"
      /\ s # "none" /\ (s \in {"pending", "rejected"} => jobs[j].runs = 0) /\ j # 0
      /\ s = "included" /\ jobs[j].kind = "initiate" => jobs[j].key \in started \cup {Client}
      /\ s = "included" => jobs[j].runs > 0
    BY <1>1, Typed DEF MayTrack, RunOk, Busy
<1>4. s \in JobStatuses /\ s # "claimed"
  <2>1. worker[w].report \in {"none", "pending"} \cup Terminal
      BY Typed DEF WorkerRec
  <2> QED BY <1>1, <1>3, <2>1 DEF JobStatuses, Terminal
<1>5. \A i \in wk.known : /\ i \in worker[w].known
                          /\ jobs[i].status = "pending" /\ i # j
    BY <1>1, Typed DEF TableInv, KnownInv
<1>6. Gives(w, wk, j, s)
    BY <1>1, <1>2, <1>3, <1>4, <1>5 DEF Gives, Holds
<1>7. TableInv' /\ Kept /\ Len(jobs') = Len(jobs)
    BY <1>6, Typed, ChangeKeeps
<1>8. ChainTypes' /\ started \subseteq started'
    BY <1>2, ChainStepKeeps, Typed DEF ChainStep, RecoveryInv
<1>9. /\ TableTypes /\ TableTypes' /\ DOMAIN jobs' = DOMAIN jobs /\ RequestInv
      /\ jobs'[j].kind = jobs[j].kind /\ jobs'[j].key = jobs[j].key
      /\ jobs[j].runs \in Nat /\ jobs'[j].runs \in Nat /\ jobs'[j].runs >= jobs[j].runs
  <2>1. /\ TableTypes /\ TableTypes' /\ RequestInv
        /\ DOMAIN jobs = 1..Len(jobs) /\ DOMAIN jobs' = 1..Len(jobs')
      BY <1>7 DEF RecoveryInv, TableInv, TableTypes
  <2>2. jobs[j].runs \in Nat
      BY <1>3, <2>1, JobFields DEF TableTypes
  <2>3. jobs'[j] \in Job
      BY <1>3, <1>7, <2>1 DEF TableTypes
  <2> QED BY <1>3, <1>7, <2>1, <2>2, <2>3 DEF Kept, Job
<1>10. requests' \in [Requests -> Active \cup {"none", "rejected", "cancelled", "archived"}]
    BY <1>2, <1>9 DEF SyncRequest, RequestInv, Active
<1>11. ASSUME NEW r \in Requests
       PROVE  \/ requests'[r] = requests[r]
              \/ requests'[r] \notin {"on_chain", "archived"}
              \/ requests'[r] = "on_chain" /\ r \in started'
              \/ /\ requests'[r] = "archived"
                 /\ \E i \in DOMAIN jobs' :
                       jobs'[i].kind = "execute" /\ jobs'[i].key = r /\ jobs'[i].runs > 0
  <2>1. CASE jobOf[r] = j /\ s = "included" /\ jobs[j].kind = "initiate"
    <3>1. requests'[r] = "on_chain"
        BY <1>2, <2>1 DEF SyncRequest
    <3>2. jobs[j].key = r
        BY <1>3, <1>9, <2>1 DEF RequestInv
    <3> QED BY <1>2, <1>3, <2>1, <3>1, <3>2, RecoveryJobsAssumption
  <2>2. CASE jobOf[r] = j /\ s = "included" /\ jobs[j].kind = "execute"
    <3>1. jobs[j].key = r /\ requests'[r] = "archived"
        BY <1>2, <1>3, <1>9, <2>2 DEF RequestInv, SyncRequest
    <3> QED BY <1>3, <1>9, <2>2, <3>1
  <2>3. CASE ~(jobOf[r] = j /\ s = "included")
      BY <1>2, <2>3 DEF SyncRequest
  <2>4. CASE /\ jobOf[r] = j /\ s = "included"
             /\ jobs[j].kind # "initiate" /\ jobs[j].kind # "execute"
      BY <1>2, <2>4 DEF SyncRequest
  <2> QED BY <2>1, <2>2, <2>3, <2>4
<1>12. RequestInv'
  <2>1. /\ jobOf' = jobOf /\ jobOf' \in [Requests -> 0..Len(jobs')]
      BY <1>2, <1>7, <1>9 DEF RequestInv
  <2> QED BY <1>7, <1>8, <1>9, <1>10, <1>11, <2>1, RequestsMove
<1> QED BY <1>7, <1>8, <1>12 DEF RecoveryInv

LEMMA TrackKeeps ==
    ASSUME RecoveryInv, NEW w \in Workers, Track(w)
    PROVE  RecoveryInv' /\ Kept
<1>1. worker[w].pc = "track" /\ SameChain /\ WorkerOnly
    BY DEF Track, At
<1>2. CASE MayTrack(w) /\ ServeTrack(w, NextJob(worker[w])) /\ UNCHANGED faults
  <2>1. PICK wk : wk = NextJob(worker[w])
      OBVIOUS
  <2>2. /\ wk \in WorkerRec(Len(jobs)) /\ wk.pc = "jobs"
        /\ wk.known = worker[w].known \ {worker[w].cur}
    <3>1. worker[w] \in WorkerRec(Len(jobs)) /\ 0 \in 0..Len(jobs)
        BY Typed
    <3> QED BY <2>1, <3>1 DEF NextJob, WorkerRec
  <2>3. RunOk(wk, jobs', started')
      BY <2>2 DEF RunOk, Busy
  <2>4. faults' \in 0..MaxFaults /\ faults <= faults'
      BY <1>2, Typed
  <2> QED BY <1>1, <1>2, <2>1, <2>2, <2>3, <2>4, ServeTrackKeeps
<1>3. CASE /\ ~MayTrack(w) /\ worker' = [worker EXCEPT ![w] = IdleWorker]
           /\ UNCHANGED <<requests, jobs, faults>>
  <2>1. RunOk(IdleWorker, jobs', started')
      BY DEF IdleWorker, RunOk, Busy
  <2>2. \A j : ~Holds(w, j)
      BY <1>3 DEF Holds, MayTrack
  <2>3. UNCHANGED <<alive, started, wallet, setting, jobOf>> /\ faults' \in 0..MaxFaults
        /\ faults <= faults' /\ wallet \in WalletStates
      BY <1>1, <1>3, Typed DEF SameChain, WorkerOnly
  <2>4. GoesOn(w, IdleWorker)
      BY <1>3, <2>1, <2>2, <2>3, Typed, IdleTyped DEF GoesOn
  <2>5. TableInv' /\ Kept
      BY <2>4, Typed, LocalKeeps
  <2> QED BY <1>1, <1>3, <2>3, <2>5, RequestsStay DEF ChainStep, requestVars
<1> QED BY <1>2, <1>3 DEF Track

LEMMA LostTrackKeeps ==
    ASSUME RecoveryInv, NEW w \in Workers, LostTrack(w)
    PROVE  RecoveryInv' /\ Kept
<1>1. PICK inCatch : inCatch = IF worker[w].inCatch THEN IdleWorker
                               ELSE [worker[w] EXCEPT !.report = "failed", !.inCatch = TRUE]
    OBVIOUS
<1>2. /\ worker[w].pc = "track" /\ SameChain /\ WorkerOnly
      /\ faults' \in 0..MaxFaults /\ faults <= faults' /\ faults' # 0
  <2>1. /\ worker[w].pc = "track" /\ SameChain /\ WorkerOnly
        /\ faults < MaxFaults /\ faults' = faults + 1
      BY DEF LostTrack, At
  <2> QED BY <2>1, Typed
<1>3. /\ inCatch \in WorkerRec(Len(jobs)) /\ RunOk(inCatch, jobs, started)
      /\ inCatch.known = {} \/ (/\ inCatch.known = worker[w].known /\ inCatch.pc = "track"
                              /\ inCatch.cur = worker[w].cur)
      /\ inCatch.pc = "idle" \/ (/\ inCatch.pc = "track" /\ inCatch.report = "failed"
                                /\ inCatch.cur \in DOMAIN jobs)
  <2>1. CASE worker[w].inCatch
      BY <1>1, <2>1, Typed, IdleTyped DEF RunOk, Busy
  <2>2. CASE ~worker[w].inCatch
    <3>1. worker[w] \in WorkerRec(Len(jobs)) /\ RunOk(worker[w], jobs, started)
        BY Typed
    <3>2. /\ inCatch \in WorkerRec(Len(jobs)) /\ inCatch.known = worker[w].known
          /\ inCatch.pc = "track" /\ inCatch.cur = worker[w].cur /\ inCatch.report = "failed"
        BY <1>1, <1>2, <2>2, <3>1 DEF WorkerRec, Terminal
    <3> QED BY <1>2, <3>1, <3>2 DEF RunOk, Busy
  <2> QED BY <2>1, <2>2
<1>4. CASE worker' = [worker EXCEPT ![w] = inCatch] /\ UNCHANGED <<requests, jobs>>
  <2>1. UNCHANGED <<alive, started, wallet, setting, jobOf>> /\ wallet \in WalletStates
      BY <1>2, Typed DEF SameChain, WorkerOnly
  <2>2. \A j \in inCatch.known : \/ jobs[j].status = "pending"
                                 \/ /\ j \in worker[w].known
                                    /\ inCatch.pc \in Busy /\ inCatch.cur = j
      BY <1>3, Typed DEF TableInv, KnownInv, Busy
  <2>3. GoesOn(w, inCatch)
      BY <1>2, <1>3, <1>4, <2>1, <2>2 DEF GoesOn
  <2>4. TableInv' /\ Kept
      BY <2>3, Typed, LocalKeeps
  <2> QED BY <1>2, <1>4, <2>1, <2>4, RequestsStay DEF ChainStep, requestVars
<1>5. CASE MayTrack(w) /\ ServeTrack(w, [inCatch EXCEPT !.known = @ \ {worker[w].cur}])
  <2>1. PICK wk : wk = [inCatch EXCEPT !.known = @ \ {worker[w].cur}]
      OBVIOUS
  <2>2. /\ wk \in WorkerRec(Len(jobs)) /\ wk.known \subseteq worker[w].known \ {worker[w].cur}
        /\ wk.known = inCatch.known \ {worker[w].cur}
        /\ wk.pc = inCatch.pc /\ wk.cur = inCatch.cur /\ wk.report = inCatch.report
      BY <1>3, <2>1 DEF WorkerRec
  <2>3. wk.pc = "track" => wk.cur \in DOMAIN jobs' /\ wk.cur \notin wk.known
    <3>1. DOMAIN jobs' = DOMAIN jobs
        BY <1>5, Typed DEF ServeTrack
    <3> QED BY <1>3, <2>2, <3>1
  <2>4. RunOk(wk, jobs', started')
      BY <1>3, <2>2, <2>3 DEF RunOk, Busy
  <2> QED BY <1>2, <1>5, <2>1, <2>2, <2>4, ServeTrackKeeps
<1> QED BY <1>1, <1>4, <1>5 DEF LostTrack

LEMMA StartSweepKeeps ==
    ASSUME RecoveryInv, NEW w \in Workers, StartSweep(w)
    PROVE  RecoveryInv' /\ Kept
<1>0. PICK n \in Room..MaxJobs :
          IF Initiated(n, "included") = {} THEN worker' = [worker EXCEPT ![w] = IdleWorker]
          ELSE Visits(w, Initiated(n, "included"))
    BY DEF StartSweep
<1> DEFINE included == Initiated(n, "included")
<1>1. PICK wk : wk = IF included = {} THEN IdleWorker
                     ELSE [IdleWorker EXCEPT !.pc = "sweep", !.left = Cardinality(included)]
    OBVIOUS
<1>2. /\ worker[w].pc = "jobs" /\ worker' = [worker EXCEPT ![w] = wk] /\ SameChain
      /\ UNCHANGED <<setting, wallet, jobOf, alive, requests, jobs, faults>>
    BY <1>0, <1>1 DEF StartSweep, Visits, At, WorkerOnly
<1>3. IsFiniteSet(included)
  <2>1. included \subseteq 1..Len(jobs) /\ Len(jobs) \in Nat
      BY Typed DEF Initiated, Oldest, WithStatus
  <2>2. IsFiniteSet(1..Len(jobs))
      BY <2>1, FS_Interval
  <2> QED BY <2>1, <2>2, FS_Subset
<1>4. Cardinality(included) \in Nat /\ (included # {} => Cardinality(included) # 0)
    BY <1>3, FS_CardinalityType, FS_EmptySet
<1>5. /\ wk \in WorkerRec(Len(jobs)) /\ wk.known = {}
      /\ wk.pc \in {"idle", "sweep"} /\ (wk.pc = "sweep" => wk.left # 0)
  <2>1. CASE included = {}
      BY <1>1, <2>1, Typed, IdleTyped
  <2>2. CASE included # {}
    <3>1. IdleWorker \in WorkerRec(Len(jobs)) /\ IdleWorker.known = {}
        BY Typed, IdleTyped
    <3> HIDE DEF included
    <3>2. wk = [IdleWorker EXCEPT !.pc = "sweep", !.left = Cardinality(included)]
        BY <1>1, <2>2
    <3> QED BY <1>4, <2>2, <3>1, <3>2 DEF WorkerRec
  <2> QED BY <2>1, <2>2
<1>6. RunOk(wk, jobs', started')
    BY <1>5 DEF RunOk, Busy
<1>7. /\ UNCHANGED started /\ faults' \in 0..MaxFaults /\ faults <= faults'
      /\ wallet \in WalletStates /\ \A j : ~Holds(w, j)
    BY <1>2, Typed DEF SameChain, Holds
<1>8. GoesOn(w, wk)
    BY <1>2, <1>5, <1>6, <1>7 DEF GoesOn
<1>9. TableInv' /\ Kept
    BY <1>8, Typed, LocalKeeps
<1> QED BY <1>2, <1>7, <1>9, RequestsStay DEF ChainStep, requestVars

LEMMA SweepKeeps ==
    ASSUME RecoveryInv, NEW w \in Workers, Sweep(w)
    PROVE  RecoveryInv' /\ Kept
<1>1. PICK wk : wk = IF worker[w].left = 1 THEN IdleWorker
                     ELSE [worker[w] EXCEPT !.left = @ - 1]
    OBVIOUS
<1>2. /\ worker[w].pc = "sweep" /\ ChainStep /\ UNCHANGED started
      /\ worker' = [worker EXCEPT ![w] = wk]
      /\ UNCHANGED <<setting, wallet, jobOf, alive, requests, jobs, faults>>
  <2>1. /\ worker[w].pc = "sweep" /\ (SameChain \/ ExecuteRestore)
        /\ worker' = [worker EXCEPT ![w] = wk]
        /\ UNCHANGED <<setting, wallet, jobOf, alive, requests, jobs, faults>>
      BY <1>1 DEF Sweep, At, WorkerOnly
  <2>2. ChainStep /\ UNCHANGED started
      BY <2>1 DEF ChainStep, SameChain, ExecuteRestore
  <2> QED BY <2>1, <2>2
<1>3. /\ wk \in WorkerRec(Len(jobs)) /\ wk.known \subseteq worker[w].known
      /\ wk.pc \in {"idle", "sweep"} /\ (wk.pc = "sweep" => wk.left # 0)
  <2>1. CASE worker[w].left = 1
      BY <1>1, <2>1, Typed, IdleTyped
  <2>2. CASE worker[w].left # 1
    <3>1. /\ worker[w] \in WorkerRec(Len(jobs)) /\ worker[w].left # 0
          /\ worker[w].left \in Nat
        BY <1>2, Typed DEF RunOk
    <3>2. worker[w].left - 1 \in Nat /\ worker[w].left - 1 # 0
        BY <2>2, <3>1
    <3> QED BY <1>1, <1>2, <2>2, <3>1, <3>2 DEF WorkerRec
  <2> QED BY <2>1, <2>2
<1>4. RunOk(wk, jobs', started')
    BY <1>3 DEF RunOk, Busy
<1>5. /\ faults' \in 0..MaxFaults /\ faults <= faults' /\ wallet \in WalletStates
      /\ \A j : ~Holds(w, j) /\ \A i \in worker[w].known : jobs[i].status = "pending"
    BY <1>2, Typed DEF Holds, TableInv, KnownInv, Busy
<1>6. GoesOn(w, wk)
    BY <1>2, <1>3, <1>4, <1>5 DEF GoesOn
<1>7. TableInv' /\ Kept
    BY <1>6, Typed, LocalKeeps
<1> QED BY <1>2, <1>5, <1>7, RequestsStay DEF requestVars

LEMMA CrashKeeps ==
    ASSUME RecoveryInv, NEW w \in Workers, Crash(w)
    PROVE  RecoveryInv' /\ Kept
<1>1. /\ worker' = [worker EXCEPT ![w] = IdleWorker] /\ alive' = alive \ {w}
      /\ UNCHANGED <<setting, chainVars, requestVars, jobs>>
      /\ faults < MaxFaults /\ faults' = faults + 1
    BY DEF Crash
<1>2. /\ faults' \in 0..MaxFaults /\ faults <= faults' /\ faults' # 0 /\ SameChain
      /\ UNCHANGED <<started, wallet>> /\ wallet \in WalletStates
    BY <1>1, Typed DEF chainVars, SameChain
<1>3. RunOk(IdleWorker, jobs', started')
    BY DEF IdleWorker, RunOk, Busy
<1>4. GoesOn(w, IdleWorker)
    BY <1>1, <1>2, <1>3, Typed, IdleTyped DEF GoesOn
<1>5. TableInv' /\ Kept
    BY <1>4, Typed, LocalKeeps
<1> QED BY <1>1, <1>2, <1>5, RequestsStay DEF ChainStep

-----------------------------------------------------------------------------
(* The server's steps, and those outside.                                  *)

LEMMA NewJobTyped ==
    ASSUME NEW kind \in {"initiate", "cancel", "execute"}, NEW key \in Requests \cup {Client},
           NEW good \in SUBSET Nat
    PROVE  LET job == NewJob(kind, key, good)
           IN  /\ job \in Job /\ job.status = "pending" /\ job.runs = 0
               /\ job.kind = kind /\ job.key = key
BY DEF NewJob, Job, JobStatuses

LEMMA RequestsTyped ==
    RecoveryInv => /\ requests \in [Requests -> Active \cup {"none", "rejected", "cancelled", "archived"}]
                   /\ TableTypes /\ RequestInv /\ ChainTypes /\ TableInv
BY DEF RecoveryInv, RequestInv, TableInv

\* A step of the server that adds no job.
LEMMA MarkKeeps ==
    ASSUME RecoveryInv, NEW r \in Requests, ServerOnly, UNCHANGED <<jobOf, jobs>>,
           NEW status \in {"awaiting_email", "awaiting_guardian", "rejected", "cancelled"},
           requests' = [requests EXCEPT ![r] = status]
    PROVE  RecoveryInv' /\ Kept
<1>1. UNCHANGED <<worker, alive, faults, started>>
    BY DEF ServerOnly, chainVars
<1>2. TableInv' /\ Kept /\ TableTypes'
    BY <1>1, AsideKeeps, RequestsTyped DEF TableInv
<1>3. ChainTypes'
    BY RequestsTyped DEF ServerOnly, setting, chainVars, ChainTypes
<1>4. /\ requests' \in [Requests -> Active \cup {"none", "rejected", "cancelled", "archived"}]
      /\ \A q \in Requests : requests'[q] = requests[q] \/ requests'[q] \notin {"on_chain", "archived"}
    BY RequestsTyped DEF Active
<1>5. RequestInv'
    BY <1>1, <1>2, <1>4, RequestsTyped, RequestsMove DEF RequestInv
<1> QED BY <1>2, <1>3, <1>5 DEF RecoveryInv

\* A step of the server that adds a job, for request r or for none.
LEMMA QueueKeeps ==
    ASSUME RecoveryInv, NEW job \in Job, CreateJob(job), job.status = "pending", job.runs = 0,
           ServerOnly,
           \/ UNCHANGED <<requests, jobOf>>
           \/ \E r \in Requests, status \in {"queued", "on_chain", "cancelled"} :
                 /\ requests' = [requests EXCEPT ![r] = status]
                 /\ jobOf' = [jobOf EXCEPT ![r] = Len(jobs')] /\ job.key = r
                 /\ status = "on_chain" => job.kind = "execute"
    PROVE  RecoveryInv' /\ Kept
<1>1. UNCHANGED <<worker, alive, faults, started>>
    BY DEF ServerOnly, chainVars
<1>2. /\ TableInv' /\ Kept /\ Len(jobs') = Len(jobs) + 1 /\ jobs'[Len(jobs')] = job
      /\ \A j \in DOMAIN jobs' : j \in DOMAIN jobs \/ j = Len(jobs')
    BY <1>1, AppendKeeps, RequestsTyped
<1>3. ChainTypes'
    BY RequestsTyped DEF ServerOnly, setting, chainVars, ChainTypes
<1>4. /\ TableTypes' /\ Len(jobs) \in Nat /\ Len(jobs') \in DOMAIN jobs'
      /\ Len(jobs') \in 0..Len(jobs') /\ 0..Len(jobs) \subseteq 0..Len(jobs')
    BY <1>2, RequestsTyped DEF TableInv, TableTypes
<1>5. /\ requests' \in [Requests -> Active \cup {"none", "rejected", "cancelled", "archived"}]
      /\ jobOf' \in [Requests -> 0..Len(jobs')]
      /\ \A q \in Requests :
            \/ requests'[q] = requests[q] /\ jobOf'[q] = jobOf[q]
            \/ /\ jobOf'[q] = Len(jobs') /\ job.key = q
               /\ \/ requests'[q] \in {"queued", "cancelled"}
                  \/ requests'[q] = "on_chain" /\ job.kind = "execute"
  <2>1. jobOf \in [Requests -> 0..Len(jobs')]
      BY <1>4, RequestsTyped DEF RequestInv
  <2>2. CASE UNCHANGED <<requests, jobOf>>
      BY <2>1, <2>2, RequestsTyped
  <2>3. CASE \E r \in Requests, status \in {"queued", "on_chain", "cancelled"} :
               /\ requests' = [requests EXCEPT ![r] = status]
               /\ jobOf' = [jobOf EXCEPT ![r] = Len(jobs')] /\ job.key = r
               /\ status = "on_chain" => job.kind = "execute"
    <3>1. PICK r \in Requests, status \in {"queued", "on_chain", "cancelled"} :
               /\ requests' = [requests EXCEPT ![r] = status]
               /\ jobOf' = [jobOf EXCEPT ![r] = Len(jobs')] /\ job.key = r
               /\ status = "on_chain" => job.kind = "execute"
        BY <2>3
    <3> QED BY <1>4, <2>1, <3>1, RequestsTyped DEF Active
  <2> QED BY <2>2, <2>3
<1>6. \A q \in Requests :
          \/ requests'[q] = requests[q] /\ jobOf'[q] = jobOf[q]
          \/ /\ jobOf'[q] \in DOMAIN jobs' /\ jobs'[jobOf'[q]].key = q /\ jobOf'[q] # 0
             /\ \/ requests'[q] \notin {"on_chain", "archived"}
                \/ requests'[q] = "on_chain" /\ jobs'[jobOf'[q]].kind = "execute"
  <2>1. Len(jobs') \in DOMAIN jobs' /\ Len(jobs') # 0 /\ jobs'[Len(jobs')] = job
      BY <1>2, <1>4
  <2> QED BY <1>5, <2>1
<1>7. RequestInv'
    BY <1>1, <1>2, <1>4, <1>5, <1>6, RequestsTyped, RequestsMove
<1> QED BY <1>2, <1>3, <1>7 DEF RecoveryInv

LEMMA MarkStepKeeps ==
    ASSUME RecoveryInv, NEW r \in Requests,
           \/ CreateRequest(r) \/ VerifyRecoveryEmail(r) \/ Reject(r)
    PROVE  RecoveryInv' /\ Kept
<1>1. CASE CreateRequest(r)
    BY <1>1, MarkKeeps DEF CreateRequest
<1>2. CASE VerifyRecoveryEmail(r)
    BY <1>2, MarkKeeps DEF VerifyRecoveryEmail
<1>3. CASE Reject(r)
    BY <1>3, MarkKeeps DEF Reject
<1> QED BY <1>1, <1>2, <1>3

LEMMA ApproveKeeps ==
    ASSUME RecoveryInv, NEW r \in Requests, Approve(r)
    PROVE  RecoveryInv' /\ Kept
<1>1. PICK job : job = NewJob("initiate", r, {})
    OBVIOUS
<1>2. job \in Job /\ job.status = "pending" /\ job.runs = 0 /\ job.kind = "initiate" /\ job.key = r
    BY <1>1, NewJobTyped
<1>3. /\ CreateJob(job) /\ ServerOnly /\ requests' = [requests EXCEPT ![r] = "queued"]
      /\ jobOf' = [jobOf EXCEPT ![r] = Len(jobs')]
    BY <1>1 DEF Approve
<1> QED BY <1>2, <1>3, QueueKeeps

LEMMA CancelRequestKeeps ==
    ASSUME RecoveryInv, NEW r \in Requests, CancelRequest(r)
    PROVE  RecoveryInv' /\ Kept
<1>1. requests' = [requests EXCEPT ![r] = "cancelled"] /\ ServerOnly
    BY DEF CancelRequest
<1>2. CASE UNCHANGED <<jobs, jobOf>>
    BY <1>1, <1>2, MarkKeeps
<1>3. CASE \E good \in {{}} \cup (IF identity THEN {AnyRestore} ELSE {}) :
              /\ CreateJob(NewJob("cancel", r, good))
              /\ jobOf' = [jobOf EXCEPT ![r] = Len(jobs')]
  <2>1. PICK good \in {{}} \cup (IF identity THEN {AnyRestore} ELSE {}) :
              /\ CreateJob(NewJob("cancel", r, good))
              /\ jobOf' = [jobOf EXCEPT ![r] = Len(jobs')]
      BY <1>3
  <2>2. good \in SUBSET Nat
      BY RecoveryJobsAssumption DEF AnyRestore
  <2>3. PICK job : job = NewJob("cancel", r, good)
      OBVIOUS
  <2>4. /\ job \in Job /\ job.status = "pending" /\ job.runs = 0 /\ job.kind = "cancel"
        /\ job.key = r
      BY <2>2, <2>3, NewJobTyped
  <2> QED BY <1>1, <2>1, <2>3, <2>4, QueueKeeps
<1> QED BY <1>2, <1>3 DEF CancelRequest

LEMMA OperatorReportsKeeps ==
    ASSUME RecoveryInv, NEW r \in Requests, OperatorReports(r)
    PROVE  RecoveryInv' /\ Kept
<1>1. PICK job : job = NewJob("execute", r, {})
    OBVIOUS
<1>2. job \in Job /\ job.status = "pending" /\ job.runs = 0 /\ job.kind = "execute" /\ job.key = r
    BY <1>1, NewJobTyped
<1>3. /\ CreateJob(job) /\ ServerOnly /\ requests' = [requests EXCEPT ![r] = "on_chain"]
      /\ jobOf' = [jobOf EXCEPT ![r] = Len(jobs')]
    BY <1>1 DEF OperatorReports
<1> QED BY <1>2, <1>3, QueueKeeps

LEMMA ClientKeeps ==
    ASSUME RecoveryInv, ClientInitiate \/ ClientCancel
    PROVE  RecoveryInv' /\ Kept
<1>1. CASE ClientInitiate
  <2>1. PICK job : job = NewJob("initiate", Client, {})
      OBVIOUS
  <2>2. job \in Job /\ job.status = "pending" /\ job.runs = 0 /\ job.kind = "initiate"
      BY <2>1, NewJobTyped
  <2> QED BY <1>1, <2>1, <2>2, QueueKeeps DEF ClientInitiate, requestVars
<1>2. CASE ClientCancel
  <2>1. PICK good \in {{}} \cup (IF restore.active /\ ~identity THEN {{starts}} ELSE {}) :
              CreateJob(NewJob("cancel", Client, good))
      BY <1>2 DEF ClientCancel
  <2>2. good \in SUBSET Nat
      BY <2>1, RequestsTyped DEF ChainTypes
  <2>3. PICK job : job = NewJob("cancel", Client, good)
      OBVIOUS
  <2>4. job \in Job /\ job.status = "pending" /\ job.runs = 0 /\ job.kind = "cancel"
      BY <2>2, <2>3, NewJobTyped
  <2>5. CreateJob(job) /\ ServerOnly /\ UNCHANGED <<requests, jobOf>>
      BY <1>2, <2>1, <2>3 DEF ClientCancel, requestVars
  <2> QED BY <2>4, <2>5, QueueKeeps
<1> QED BY <1>1, <1>2

\* A step of the chain alone.
LEMMA ChainKeeps ==
    ASSUME RecoveryInv,
           TimelockElapses \/ Outside \/ \E r \in Requests : OperatorStarts(r)
    PROVE  RecoveryInv' /\ Kept
<1>1. UNCHANGED <<setting, requestVars, jobs, worker, alive, faults>>
    BY DEF TimelockElapses, Outside, OperatorStarts
<1>2. ChainTypes' /\ started \subseteq started'
  <2>1. CASE TimelockElapses
      BY <2>1, RequestsTyped DEF TimelockElapses, ChainTypes, setting
  <2>2. CASE Outside
    <3>1. ChainStep /\ wallet' \in WalletStates
        BY <2>2, RequestsTyped DEF Outside, ChainStep, ChainTypes, WalletStates
    <3> QED BY <1>1, <3>1, RequestsTyped, ChainStepKeeps
  <2>3. ASSUME NEW r \in Requests, OperatorStarts(r)
        PROVE  ChainTypes' /\ started \subseteq started'
    <3>1. ChainStep /\ wallet' \in WalletStates
        BY <2>3, RequestsTyped DEF OperatorStarts, ChainStep, ChainTypes
    <3> QED BY <1>1, <3>1, RequestsTyped, ChainStepKeeps
  <2> QED BY <2>1, <2>2, <2>3
<1>3. TableInv' /\ Kept /\ TableTypes'
    BY <1>1, <1>2, AsideKeeps, RequestsTyped DEF TableInv
<1>4. RequestInv'
  <2>1. UNCHANGED <<requests, jobOf>> /\ jobs' = jobs
      BY <1>1 DEF requestVars
  <2> QED BY <1>2, <1>3, <2>1, RequestsTyped, RequestsMove DEF RequestInv
<1> QED BY <1>2, <1>3, <1>4 DEF RecoveryInv

-----------------------------------------------------------------------------
(* The theorems.                                                           *)

LEMMA StepKeeps == RecoveryInv /\ [JobsNext]_jobsVars => RecoveryInv' /\ Kept
<1> SUFFICES ASSUME RecoveryInv, [JobsNext]_jobsVars PROVE RecoveryInv' /\ Kept
    OBVIOUS
<1>1. CASE UNCHANGED jobsVars
  <2>1. /\ UNCHANGED <<setting, requestVars, jobs, worker, alive, faults, started, wallet>>
        /\ SameChain
      BY <1>1 DEF jobsVars, chainVars, SameChain
  <2>2. TableInv' /\ Kept
      BY <2>1, AsideKeeps, RequestsTyped
  <2> QED BY <2>1, <2>2, RequestsTyped, RequestsStay DEF ChainStep, ChainTypes
<1>2. ASSUME NEW r \in Requests,
             \/ CreateRequest(r) \/ VerifyRecoveryEmail(r)
             \/ Approve(r) \/ Reject(r) \/ CancelRequest(r)
             \/ OperatorStarts(r) \/ OperatorReports(r)
      PROVE  RecoveryInv' /\ Kept
    BY <1>2, MarkStepKeeps, ApproveKeeps, CancelRequestKeeps, OperatorReportsKeeps, ChainKeeps
<1>3. ASSUME NEW w \in Workers,
             WorkerStep(w) \/ ChainCallFails(w) \/ LostTrack(w) \/ Crash(w)
      PROVE  RecoveryInv' /\ Kept
    BY <1>3, FetchKeeps, ClaimKeeps, RunInitiateKeeps, RunCancelKeeps, RunExecuteKeeps,
       SendExecuteKeeps, TrackKeeps, StartSweepKeeps, SweepKeeps, ChainCallFailsKeeps,
       LostTrackKeeps, CrashKeeps DEF WorkerStep
<1>4. CASE ClientInitiate \/ ClientCancel
    BY <1>4, ClientKeeps
<1>5. CASE TimelockElapses \/ Outside
    BY <1>5, ChainKeeps
<1> QED BY <1>1, <1>2, <1>3, <1>4, <1>5 DEF JobsNext

\* The invariant the others follow from: who knows the version of which job,
\* what a process did of its job, and what the requests rest on.
THEOREM RecoveryInvariance == JobsSpec => []RecoveryInv
<1>1. JobsInit => RecoveryInv
    BY JobsInitial
<1>2. RecoveryInv /\ [JobsNext]_jobsVars => RecoveryInv'
    BY StepKeeps
<1> QED BY <1>1, <1>2, PTL DEF JobsSpec

\* Every variable has its type.
THEOREM JobsTypeCorrect == JobsSpec => []JobsTypeOK
<1>1. RecoveryInv => JobsTypeOK
  <2> SUFFICES ASSUME RecoveryInv PROVE JobsTypeOK
      OBVIOUS
  <2>1. /\ DOMAIN jobs = 1..Len(jobs) /\ Job = [kind : {"initiate", "cancel", "execute"},
             key : Requests \cup {Client}, good : SUBSET Nat, runs : Nat,
             status : {"pending", "claimed"} \cup Terminal]
      BY RequestsTyped DEF TableTypes, Job, JobStatuses
  <2> QED BY <2>1, RequestsTyped DEF JobsTypeOK, ChainTypes, TableTypes, RequestInv, WorkerRec
<1> QED BY <1>1, RecoveryInvariance, PTL

\* A job acts on the chain at most once (claimWalletRecoveryJob, the version
\* it expects, and listing pending jobs only).
THEOREM JobsActOnce == JobsSpec => []AtMostOnce
<1>1. RecoveryInv => AtMostOnce
    BY DEF RecoveryInv, TableInv, RunsInv, AtMostOnce
<1> QED BY <1>1, RecoveryInvariance, PTL

\* A request that shows on_chain had its restore started or was reported so by
\* somebody; archived, an execute job of it did act (syncRequestFromJob).
THEOREM RequestsFollowChain == JobsSpec => []RequestFollowsChain
<1>1. RecoveryInv => RequestFollowsChain
    BY DEF RecoveryInv, RequestInv
<1> QED BY <1>1, RecoveryInvariance, PTL

\* A claimed job is in the hands of one process, unless an answer was lost or
\* a process died.
THEOREM JobsHeld == JobsSpec => []ClaimedIsHeld
<1>1. RecoveryInv => ClaimedIsHeld
  <2> SUFFICES ASSUME RecoveryInv PROVE ClaimedIsHeld
      OBVIOUS
  <2>1. ASSUME NEW j \in DOMAIN jobs, NEW w \in Workers, NEW v \in Workers,
               Holds(w, j), Holds(v, j)
        PROVE  w = v
    <3>1. jobs[j].status = "claimed"
        BY <2>1, Typed DEF Holds, RunOk, Busy
    <3> QED BY <2>1, <3>1 DEF Holds, RecoveryInv, TableInv, KnownInv
  <2> QED BY <2>1 DEF ClaimedIsHeld, RecoveryInv, TableInv, HeldInv
<1> QED BY <1>1, RecoveryInvariance, PTL

\* A decided job stays as decided (trackWalletRecoveryJob's expected version).
THEOREM JobsFinal == JobsSpec => JobFinal
<1>1. RecoveryInv /\ [JobsNext]_jobsVars =>
        [\A j \in DOMAIN jobs : jobs[j].status \in Terminal =>
             jobs'[j].status = jobs[j].status]_jobsVars
    BY StepKeeps DEF Kept
<1> QED BY <1>1, RecoveryInvariance, PTL DEF JobsSpec, JobFinal

\* The table implements the queue of jobs: each is taken by one process at a
\* time, acts once or not at all, and its outcome tells the truth
\* (claimWalletRecoveryJob, trackWalletRecoveryJob, processRecoveryJobs).
THEOREM ImplementsQueue == JobsSpec => QueueSpec
<1>1. JobsInit => Queue!QueueInit
  <2>1. JobsInit => \A j \in 1..MaxJobs : StatusOf(j) = "none" /\ ActsOf(j) = 0
      BY DEF JobsInit, StatusOf, ActsOf
  <2> QED BY <2>1 DEF Queue!QueueInit
<1>2. RecoveryInv /\ [JobsNext]_jobsVars => [Queue!QueueNext]_(Queue!queueVars)
    BY StepKeeps DEF Kept, QueueStep
<1> QED BY <1>1, <1>2, RecoveryInvariance, PTL DEF JobsSpec, QueueSpec, Queue!QueueSpec
-----------------------------------------------------------------------------
(* What happens to the restore is a delayed recovery.                       *)

RecoveryStep == [Recovery!RecoveryNext]_(Recovery!recoveryVars)

RestoreTyped == restore \in [active : BOOLEAN, key : Requests \cup {Client}, due : BOOLEAN]

LEMMA RestoreStays ==
    ASSUME UNCHANGED <<restore, restored>>
    PROVE  RecoveryStep
BY DEF RecoveryStep, Recovery!recoveryVars

LEMMA RestoreAnnounced ==
    ASSUME NEW key \in Requests \cup {Client}, ~restore.active, delayed \in BOOLEAN,
           StartRestore(key)
    PROVE  RecoveryStep
<1>1. /\ restore'.active /\ restore'.key = key /\ restore'.due \in BOOLEAN
      /\ UNCHANGED restored
    BY DEF StartRestore
<1>2. Recovery!Announce(key)
    BY <1>1 DEF Recovery!Announce
<1> QED BY <1>2 DEF RecoveryStep, Recovery!RecoveryNext

LEMMA RestoreSucceeds ==
    ASSUME CanExecute, ExecuteRestore
    PROVE  RecoveryStep
<1>1. Recovery!Succeed
    BY DEF CanExecute, ExecuteRestore, NoRestore, Recovery!Succeed, Recovery!Over
<1> QED BY <1>1 DEF RecoveryStep, Recovery!RecoveryNext

LEMMA RestoreCalledOff ==
    ASSUME restore.active, CancelRestore
    PROVE  RecoveryStep
<1>1. Recovery!CallOff
    BY DEF CancelRestore, NoRestore, Recovery!CallOff, Recovery!Over
<1> QED BY <1>1 DEF RecoveryStep, Recovery!RecoveryNext

LEMMA RestoreBecomesDue ==
    ASSUME RestoreTyped, TimelockElapses
    PROVE  RecoveryStep
<1>1. /\ restore.active /\ restore'.active /\ restore'.key = restore.key /\ restore'.due
      /\ UNCHANGED restored
    BY DEF TimelockElapses, RestoreTyped
<1>2. Recovery!DelayEnds
    BY <1>1 DEF RestoreTyped, TimelockElapses, Recovery!DelayEnds
<1> QED BY <1>2 DEF RecoveryStep, Recovery!RecoveryNext

\* The server's own steps leave the chain alone, and most of a worker's do.
LEMMA ServerRestores ==
    ASSUME RestoreTyped, delayed \in BOOLEAN, NEW r \in Requests,
           \/ CreateRequest(r) \/ VerifyRecoveryEmail(r)
           \/ Approve(r) \/ Reject(r) \/ CancelRequest(r)
           \/ OperatorStarts(r) \/ OperatorReports(r)
    PROVE  RecoveryStep
<1>1. CASE OperatorStarts(r)
    BY <1>1, RestoreAnnounced DEF OperatorStarts
<1>2. CASE ServerOnly
    BY <1>2, RestoreStays DEF ServerOnly, chainVars
<1> QED BY <1>1, <1>2 DEF CreateRequest, VerifyRecoveryEmail, Approve, Reject, CancelRequest,
                          OperatorReports

LEMMA WorkerRestores ==
    ASSUME RecoveryInv, NEW w \in Workers, WorkerStep(w)
    PROVE  RecoveryStep
<1>1. CASE RunInitiate(w)
  <2>1. CASE SameChain
      BY <2>1, RestoreStays DEF SameChain
  <2>2. CASE ~restore.active /\ StartRestore(jobs[worker[w].cur].key)
    <3>1. jobs[worker[w].cur].key \in Requests \cup {Client} /\ delayed \in BOOLEAN
        BY <1>1, Typed, JobFields
           DEF RunInitiate, At, Busy, RecoveryInv, ChainTypes, TableInv, TableTypes, RunInv, RunOk
    <3> QED BY <2>2, <3>1, RestoreAnnounced
  <2> QED BY <1>1, <2>1, <2>2 DEF RunInitiate
<1>2. CASE RunCancel(w)
  <2>1. SameChain \/ (restore.active /\ CancelRestore)
      BY <1>2 DEF RunCancel
  <2> QED BY <2>1, RestoreCalledOff, RestoreStays DEF SameChain
<1>3. CASE SendExecute(w) \/ Sweep(w)
  <2>1. SameChain \/ (CanExecute /\ ExecuteRestore)
      BY <1>3 DEF SendExecute, Sweep
  <2> QED BY <2>1, RestoreSucceeds, RestoreStays DEF SameChain
<1>4. CASE Fetch(w) \/ Claim(w) \/ RunExecute(w) \/ Track(w) \/ StartSweep(w)
  <2>1. SameChain
      BY <1>4 DEF Fetch, Claim, RunExecute, Track, StartSweep
  <2> QED BY <2>1, RestoreStays DEF SameChain
<1> QED BY <1>1, <1>2, <1>3, <1>4 DEF WorkerStep

LEMMA OthersRestore ==
    ASSUME RestoreTyped,
           \/ ClientInitiate \/ ClientCancel \/ TimelockElapses \/ Outside
           \/ \E w \in Workers : ChainCallFails(w) \/ LostTrack(w) \/ Crash(w)
           \/ UNCHANGED jobsVars
    PROVE  RecoveryStep
<1>1. CASE TimelockElapses
    BY <1>1, RestoreBecomesDue
<1>2. CASE Outside
  <2>1. \/ restore.active /\ CancelRestore
        \/ CanExecute /\ ExecuteRestore
        \/ SameChain
      BY <1>2 DEF Outside
  <2> QED BY <2>1, RestoreCalledOff, RestoreSucceeds, RestoreStays DEF SameChain
<1>3. CASE \/ ClientInitiate \/ ClientCancel
           \/ \E w \in Workers : ChainCallFails(w) \/ LostTrack(w) \/ Crash(w)
           \/ UNCHANGED jobsVars
  <2>1. UNCHANGED <<restore, restored>>
      BY <1>3 DEF ClientInitiate, ClientCancel, ServerOnly, ChainCallFails, LostTrack, Crash,
                  SameChain, chainVars, jobsVars
  <2> QED BY <2>1, RestoreStays
<1> QED BY <1>1, <1>2, <1>3

(* Whatever jobs race for it and however often they are repeated, what the  *)
(* chain sees of them is one delayed recovery at a time (processRecoveryJobs*)
(* and maybeQueueExecutes).                                                 *)
THEOREM ImplementsRecovery == JobsSpec => RecoverySpec
<1>1. JobsInit => Recovery!RecoveryInit
    BY DEF JobsInit, NoRestore, Recovery!RecoveryInit
<1>2. RecoveryInv /\ [JobsNext]_jobsVars => [Recovery!RecoveryNext]_(Recovery!recoveryVars)
  <2> SUFFICES ASSUME RecoveryInv, [JobsNext]_jobsVars PROVE RecoveryStep
      BY DEF RecoveryStep
  <2>1. RestoreTyped /\ delayed \in BOOLEAN
      BY DEF RecoveryInv, ChainTypes, RestoreTyped
  <2> QED BY <2>1, ServerRestores, WorkerRestores, OthersRestore DEF JobsNext
<1> QED BY <1>1, <1>2, RecoveryInvariance, PTL DEF JobsSpec, RecoverySpec, Recovery!RecoverySpec
=============================================================================
