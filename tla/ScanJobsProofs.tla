--------------------------- MODULE ScanJobsProofs ---------------------------
(***************************************************************************)
(* Proofs about the scan queue, for every number of workers, schedulers,   *)
(* addresses and jobs, every attempt limit and every lease length.         *)
(***************************************************************************)
EXTENDS ScanJobs, TLAPS

USE DEF Jobs, Attempts

\* The types of the constants of a row.
LEMMA RowTypes ==
    /\ NoJob \in JobRow
    /\ NoRun \in RunRow
    /\ IdleWorker \in WorkerState
    /\ \A a \in Addresses : PendingJob(a) \in JobRow
  <1>1. NoJob \in JobRow
    BY ScanJobsAssumption
       DEF NoJob, JobRow, ActiveStatus, WaitingStatus, FinalStatus
  <1>2. NoRun \in RunRow
    BY ScanJobsAssumption DEF NoRun, RunRow, GoodRunStatus
  <1>3. IdleWorker \in WorkerState
    BY ScanJobsAssumption DEF IdleWorker, WorkerState, GoodRunStatus
  <1>4. ASSUME NEW a \in Addresses PROVE PendingJob(a) \in JobRow
    BY ZenonT(150), <1>1 DEF PendingJob, JobRow, ActiveStatus, WaitingStatus
  <1> QED BY <1>1, <1>2, <1>3, <1>4

\* A run keeps its type when its status or its retry changes.
LEMMA EditedRun ==
    ASSUME NEW row \in RunRow
    PROVE  /\ \A s \in {"running", "failed", "deleted"} \cup GoodRunStatus :
                 [row EXCEPT !.status = s] \in RunRow
           /\ \A k \in 0..MaxJobs : [row EXCEPT !.retryTask = k] \in RunRow
  BY DEF RunRow

\* A worker that claims a job keeps its type.
LEMMA BusyWorker ==
    ASSUME NEW j \in 0..MaxJobs, NEW n \in 0..MaxAttempts
    PROVE  [IdleWorker EXCEPT !.pc = "claimed", !.job = j, !.attempt = n] \in WorkerState
  BY RowTypes DEF WorkerState

LEMMA InitAttemptInv == Init => AttemptInv
  <1> SUFFICES ASSUME Init PROVE AttemptInv
    OBVIOUS
  <1>1. TypeOK
    BY RowTypes DEF Init, TypeOK, AddressRow
  <1>2. WorkerMemory /\ OwnerIsCurrent
    BY DEF Init, WorkerMemory, OwnerIsCurrent, IdleWorker, GoodRunStatus
  <1>3. AttemptBudget
    BY DEF Init, AttemptBudget, NoJob, WaitingStatus
  <1> QED BY <1>1, <1>2, <1>3 DEF AttemptInv

-----------------------------------------------------------------------------
(* Steps that touch neither a worker's memory nor the owner of a job.      *)

\* One cell of scan_runs replaced by a row keeps the table typed.
LEMMA RunCell ==
    ASSUME TypeOK, NEW j \in Jobs, NEW n \in Attempts, NEW row \in RunRow,
           run' = [run EXCEPT ![j][n] = row]
    PROVE  run' \in [Jobs -> [Attempts -> RunRow]]
  <1>1. [run[j] EXCEPT ![n] = row] \in [Attempts -> RunRow]
    BY DEF TypeOK
  <1> QED BY <1>1 DEF TypeOK

\* A job that is neither handed to a worker nor moved to a status that needs
\* an attempt count of its own leaves the three relations as they are.
LEMMA QuietJobs ==
    ASSUME AttemptInv, worker' = worker,
           \A j \in Jobs :
              \/ /\ job'[j].owner = job[j].owner
                 /\ job'[j].attempts = job[j].attempts
                 /\ \/ job'[j].status = job[j].status
                    \/ /\ job[j].status \in WaitingStatus
                       /\ job'[j].status \in WaitingStatus
              \/ /\ job'[j].owner = None
                 /\ job'[j].attempts = 0
                 /\ job'[j].status # "dead_letter"
    PROVE  WorkerMemory' /\ OwnerIsCurrent' /\ AttemptBudget'
  <1>1. WorkerMemory'
    BY SMTT(150) DEF AttemptInv, WorkerMemory
  <1>2. OwnerIsCurrent'
    <2> SUFFICES ASSUME NEW w \in Workers, worker[w].job # 0,
                        job'[worker[w].job].owner = w
                 PROVE  worker[w].attempt = job'[worker[w].job].attempts
      BY DEF OwnerIsCurrent
    <2>1. worker[w].job \in Jobs
      BY DEF AttemptInv, TypeOK, WorkerState
    <2> QED BY <2>1, ScanJobsAssumption DEF AttemptInv, OwnerIsCurrent
  <1>3. AttemptBudget'
    BY ScanJobsAssumption DEF AttemptInv, AttemptBudget, WaitingStatus
  <1> QED BY <1>1, <1>2, <1>3

LEMMA SelectStep ==
    ASSUME AttemptInv, NEW s \in Schedulers, NEW a \in Addresses,
           SchedulerSelect(s, a) \/ SchedulerAborts(s)
    PROVE  AttemptInv'
  BY ZenonT(150) DEF SchedulerSelect, SchedulerAborts, AttemptInv, TypeOK, WorkerMemory,
         OwnerIsCurrent, AttemptBudget

LEMMA EnqueueStep ==
    ASSUME AttemptInv, NEW s \in Schedulers, SchedulerEnqueue(s)
    PROVE  AttemptInv'
  <1> DEFINE a == selected[s]
  <1>1. a \in Addresses
    BY DEF SchedulerEnqueue, AttemptInv, TypeOK
  <1>2. UNCHANGED <<run, worker>> /\ selected' \in [Schedulers -> Addresses \cup {None}]
    BY DEF SchedulerEnqueue, AttemptInv, TypeOK
  <1>3. address' \in [Addresses -> AddressRow]
    BY ZenonT(150), <1>1 DEF SchedulerEnqueue, AttemptInv, TypeOK, AddressRow
  <1>4. CASE UNCHANGED job
    BY <1>2, <1>3, <1>4 DEF AttemptInv, TypeOK, WorkerMemory, OwnerIsCurrent, AttemptBudget
  <1>5. CASE \E j \in Jobs : Fresh(j) /\ job' = [job EXCEPT ![j] = PendingJob(a)]
    <2>1. PICK j \in Jobs : job' = [job EXCEPT ![j] = PendingJob(a)]
      BY <1>5
    <2>2. TypeOK'
      BY <1>1, <1>2, <1>3, <2>1, RowTypes DEF AttemptInv, TypeOK
    <2>3. OwnerIsCurrent' /\ AttemptBudget' /\ WorkerMemory'
      BY <1>1, <1>2, <2>1, ScanJobsAssumption
         DEF AttemptInv, TypeOK, WorkerMemory, OwnerIsCurrent, AttemptBudget,
             PendingJob, NoJob, WaitingStatus
    <2> QED BY <2>2, <2>3 DEF AttemptInv
  <1> QED BY <1>4, <1>5 DEF SchedulerEnqueue

LEMMA AddressStep ==
    ASSUME AttemptInv, NEW a \in Addresses,
           AddressFallsDue(a) \/ SetAddressStatus(a)
    PROVE  AttemptInv'
  BY ZenonT(150) DEF AddressFallsDue, SetAddressStatus, AttemptInv, TypeOK, AddressRow,
         WorkerMemory, OwnerIsCurrent, AttemptBudget

LEMMA DeleteStep ==
    ASSUME AttemptInv, NEW a \in Addresses, DeleteAddress(a)
    PROVE  AttemptInv'
  <1>1. job' \in [Jobs -> JobRow]
    <2>1. \A j \in Jobs : [NoJob EXCEPT !.status = "deleted", !.addr = a] \in JobRow
      BY ZenonT(150), RowTypes DEF JobRow
    <2> QED BY <2>1 DEF DeleteAddress, AttemptInv, TypeOK
  <1>2. run' \in [Jobs -> [Attempts -> RunRow]]
    <2>1. [NoRun EXCEPT !.status = "deleted"] \in RunRow
      BY RowTypes DEF RunRow
    <2> QED BY <2>1 DEF DeleteAddress, AttemptInv, TypeOK
  <1>3. address' \in [Addresses -> AddressRow]
    BY DEF DeleteAddress, AttemptInv, TypeOK, AddressRow
  <1>4. TypeOK'
    BY <1>1, <1>2, <1>3 DEF DeleteAddress, AttemptInv, TypeOK
  <1>5. \A j \in Jobs : \/ job'[j] = job[j]
                         \/ /\ job'[j].status = "deleted"
                            /\ job'[j].owner = None
                            /\ job'[j].attempts = 0
    BY DEF DeleteAddress, NoJob
  <1>6. WorkerMemory' /\ OwnerIsCurrent' /\ AttemptBudget'
    BY ZenonT(150), <1>5, QuietJobs DEF DeleteAddress
  <1> QED BY <1>4, <1>6 DEF AttemptInv

LEMMA TimeStep ==
    ASSUME AttemptInv, NEW j \in Jobs, BackoffElapses(j) \/ LeaseTicks(j)
    PROVE  AttemptInv'
  <1>1. PICK row \in JobRow : /\ job' = [job EXCEPT ![j] = row]
                              /\ row.status = job[j].status
                              /\ row.owner = job[j].owner
                              /\ row.attempts = job[j].attempts
    <2>1. CASE BackoffElapses(j)
      <3>1. [job[j] EXCEPT !.due = TRUE] \in JobRow
        <4>1. job[j] \in JobRow
          BY DEF AttemptInv, TypeOK
        <4> QED BY <4>1 DEF JobRow
      <3> QED BY <2>1, <3>1 DEF BackoffElapses, AttemptInv, TypeOK, JobRow
    <2>2. CASE LeaseTicks(j)
      <3>1. job[j].lease - 1 \in 0..LeaseTTL
        BY SMTT(150), <2>2, ScanJobsAssumption DEF LeaseTicks, AttemptInv, TypeOK, JobRow
      <3>2. [job[j] EXCEPT !.lease = job[j].lease - 1] \in JobRow
        BY SMTT(150), <3>1 DEF AttemptInv, TypeOK, JobRow
      <3> QED BY <2>2, <3>2 DEF LeaseTicks, AttemptInv, TypeOK, JobRow
    <2> QED BY <2>1, <2>2
  <1>2. UNCHANGED <<run, worker, selected, address>>
    BY DEF BackoffElapses, LeaseTicks
  <1>3. TypeOK'
    BY <1>1, <1>2 DEF AttemptInv, TypeOK
  <1>4. WorkerMemory' /\ OwnerIsCurrent' /\ AttemptBudget'
    BY <1>1, <1>2, QuietJobs DEF AttemptInv, TypeOK
  <1> QED BY <1>3, <1>4 DEF AttemptInv

LEMMA RetryStep ==
    ASSUME AttemptInv, NEW i \in Jobs, NEW n \in Attempts, RetryRun(i, n)
    PROVE  AttemptInv'
  <1>1. PICK j \in Jobs :
          /\ \/ /\ job[j].status \in WaitingStatus
                /\ job' = [job EXCEPT ![j].status = "pending", ![j].due = TRUE]
             \/ job' = [job EXCEPT ![j] = PendingJob(job[i].addr)]
          /\ run' = [run EXCEPT ![i][n].retryTask = j]
    BY DEF RetryRun
  <1>2. UNCHANGED <<worker, selected, address>>
    BY DEF RetryRun
  <1>3. job[i].addr \in Addresses \cup {None}
    BY DEF AttemptInv, TypeOK, JobRow
  <1>4. PendingJob(job[i].addr) \in JobRow
    BY ZenonT(150), <1>3, RowTypes DEF PendingJob, JobRow, ActiveStatus, WaitingStatus
  <1>5. run' \in [Jobs -> [Attempts -> RunRow]]
    <2>1. [run[i][n] EXCEPT !.retryTask = j] \in RunRow
      <3>1. j \in 0..MaxJobs /\ run[i][n] \in RunRow
        BY ScanJobsAssumption DEF AttemptInv, TypeOK
      <3> QED BY <3>1, EditedRun
    <2>2. run' = [run EXCEPT ![i][n] = [run[i][n] EXCEPT !.retryTask = j]]
      BY <1>1 DEF AttemptInv, TypeOK
    <2> QED BY <2>1, <2>2, RunCell DEF AttemptInv
  <1>6. CASE /\ job[j].status \in WaitingStatus
             /\ job' = [job EXCEPT ![j].status = "pending", ![j].due = TRUE]
    <2>1. [job[j] EXCEPT !.status = "pending", !.due = TRUE] \in JobRow
      <3>1. job[j] \in JobRow
        BY DEF AttemptInv, TypeOK
      <3> QED BY <3>1 DEF JobRow, ActiveStatus, WaitingStatus
    <2>2. job' = [job EXCEPT ![j] = [job[j] EXCEPT !.status = "pending", !.due = TRUE]]
      BY <1>6 DEF AttemptInv, TypeOK
    <2>3. TypeOK'
      BY SMTT(150), <1>2, <1>5, <2>1, <2>2 DEF AttemptInv, TypeOK
    <2>4. WorkerMemory' /\ OwnerIsCurrent' /\ AttemptBudget'
      BY SMTT(150), <1>2, <1>6, <2>2, QuietJobs DEF AttemptInv, TypeOK, JobRow, WaitingStatus
    <2> QED BY <2>3, <2>4 DEF AttemptInv
  <1>7. CASE job' = [job EXCEPT ![j] = PendingJob(job[i].addr)]
    <2>1. TypeOK'
      BY <1>2, <1>4, <1>5, <1>7 DEF AttemptInv, TypeOK
    <2>2. WorkerMemory' /\ OwnerIsCurrent' /\ AttemptBudget'
      BY <1>2, <1>7, QuietJobs DEF AttemptInv, TypeOK, PendingJob, NoJob
    <2> QED BY <2>1, <2>2 DEF AttemptInv
  <1> QED BY SMTT(150), <1>1, <1>6, <1>7

-----------------------------------------------------------------------------
(* Steps of the worker.                                                    *)

\* What a claim does to the queue, whether or not its worker learns of it.
LEMMA ClaimedRows ==
    ASSUME AttemptInv, NEW w \in Workers, NEW claimed \in SUBSET DueJobs,
           ClaimUpdate(w, claimed)
    PROVE  /\ job' \in [Jobs -> JobRow]
           /\ run' \in [Jobs -> [Attempts -> RunRow]]
           /\ AttemptBudget'
           /\ \A j \in Jobs : \/ job'[j] = job[j] /\ j \notin claimed
                              \/ job'[j].owner = None /\ j \notin claimed
                              \/ /\ j \in claimed
                                 /\ job'[j].owner = w
                                 /\ job'[j].attempts = job[j].attempts + 1
           /\ \A j \in claimed : job[j].attempts + 1 \in Attempts
  <1>1. \A j \in DueJobs : j \in Jobs /\ job[j].attempts < MaxAttempts
    BY DEF DueJobs, Reclaimable, ExpiredJobs, AttemptInv, AttemptBudget
  <1>2. \A j \in DueJobs : j \notin DeadLettered
    BY SMTT(150), <1>1, ScanJobsAssumption DEF DeadLettered, AttemptInv, TypeOK, JobRow
  <1>3. \A j \in DueJobs : ClaimedJob(j, w) \in JobRow
    <2> SUFFICES ASSUME NEW j \in DueJobs PROVE ClaimedJob(j, w) \in JobRow
      OBVIOUS
    <2>1. /\ job[j] \in JobRow
          /\ job[j].attempts + 1 \in 0..MaxAttempts
          /\ LeaseTTL \in 0..LeaseTTL
      BY SMTT(150), <1>1, ScanJobsAssumption DEF AttemptInv, TypeOK, JobRow
    <2> QED BY ZenonT(150), <2>1 DEF ClaimedJob, JobRow, ActiveStatus
  <1>4. \A j \in DeadLettered : /\ BuriedJob(j) \in JobRow
                                /\ job[j].attempts = MaxAttempts
    <2> SUFFICES ASSUME NEW j \in DeadLettered
                 PROVE  BuriedJob(j) \in JobRow /\ job[j].attempts = MaxAttempts
      OBVIOUS
    <2>1. job[j] \in JobRow /\ job[j].attempts >= MaxAttempts
      BY DEF DeadLettered, ExpiredJobs, AttemptInv, TypeOK
    <2>2. 0 \in 0..LeaseTTL
      BY ScanJobsAssumption
    <2>3. BuriedJob(j) \in JobRow
      BY <2>1, <2>2 DEF BuriedJob, JobRow, FinalStatus
    <2>4. job[j].attempts = MaxAttempts
      BY <2>1, ScanJobsAssumption DEF JobRow
    <2> QED BY <2>3, <2>4
  <1>5. job' \in [Jobs -> JobRow]
    BY <1>3, <1>4 DEF ClaimUpdate, AttemptInv, TypeOK
  <1>6. run' \in [Jobs -> [Attempts -> RunRow]]
    <2>1. \A j \in Jobs, n \in Attempts :
             /\ run[j][n] \in RunRow
             /\ [run[j][n] EXCEPT !.status = "failed"] \in RunRow
      BY ZenonT(150), EditedRun DEF AttemptInv, TypeOK
    <2> QED BY <2>1 DEF ClaimUpdate, CloseRunsOf
  <1>7. \A j \in Jobs : job'[j] = IF j \in DeadLettered THEN BuriedJob(j)
                                  ELSE IF j \in claimed THEN ClaimedJob(j, w)
                                  ELSE job[j]
    BY DEF ClaimUpdate
  <1>8. AttemptBudget'
    <2> SUFFICES ASSUME NEW j \in Jobs
                 PROVE  /\ job'[j].status \in WaitingStatus =>
                              job'[j].attempts < MaxAttempts
                        /\ job'[j].status = "dead_letter" =>
                              job'[j].attempts = MaxAttempts
      BY DEF AttemptBudget
    <2>1. job[j] \in JobRow
      BY DEF AttemptInv, TypeOK
    <2>2. BuriedJob(j).status = "dead_letter" /\ BuriedJob(j).attempts = job[j].attempts
      BY <2>1 DEF BuriedJob, JobRow
    <2>3. ClaimedJob(j, w).status = "processing"
      BY <2>1 DEF ClaimedJob, JobRow
    <2> QED BY <1>4, <1>7, <2>2, <2>3 DEF AttemptInv, AttemptBudget, WaitingStatus
  <1>9. \A j \in Jobs : \/ job'[j] = job[j] /\ j \notin claimed
                        \/ job'[j].owner = None /\ j \notin claimed
                        \/ /\ j \in claimed
                           /\ job'[j].owner = w
                           /\ job'[j].attempts = job[j].attempts + 1
    BY ZenonT(150), <1>2, <1>7 DEF BuriedJob, ClaimedJob, AttemptInv, TypeOK, JobRow
  <1>10. \A j \in claimed : job[j].attempts + 1 \in Attempts
    BY SMTT(150), <1>1, ScanJobsAssumption DEF AttemptInv, TypeOK, JobRow
  <1> QED BY <1>5, <1>6, <1>8, <1>9, <1>10

LEMMA ClaimStep ==
    ASSUME AttemptInv, NEW w \in Workers,
           Claim(w) \/ ClaimNothing(w) \/ ClaimReplyLost(w)
    PROVE  AttemptInv'
  <1>1. CASE Claim(w)
    <2>1. PICK j \in DueJobs :
            /\ ClaimUpdate(w, {j})
            /\ worker' = [worker EXCEPT ![w] =
                 [IdleWorker EXCEPT !.pc = "claimed", !.job = j,
                                    !.attempt = job[j].attempts + 1]]
      BY <1>1 DEF Claim
    <2>2. j \in Jobs
      BY DEF DueJobs, Reclaimable, ExpiredJobs
    <2>3. job[j].attempts + 1 \in Attempts
      BY <2>1, ClaimedRows
    <2>4. worker' \in [Workers -> WorkerState]
      <3>1. [IdleWorker EXCEPT !.pc = "claimed", !.job = j,
                               !.attempt = job[j].attempts + 1] \in WorkerState
        <4>1. j \in 0..MaxJobs /\ job[j].attempts + 1 \in 0..MaxAttempts
          BY <2>2, <2>3
        <4> QED BY <4>1, BusyWorker
      <3> QED BY SMTT(150), <2>1, <3>1 DEF AttemptInv, TypeOK
    <2>5. TypeOK'
      BY ZenonT(150), <1>1, <2>1, <2>4, ClaimedRows DEF Claim, AttemptInv, TypeOK
    <2>6. WorkerMemory'
      BY <2>1, <2>2, <2>3
         DEF AttemptInv, TypeOK, WorkerMemory, IdleWorker, GoodRunStatus
    <2>7. OwnerIsCurrent'
      <3> SUFFICES ASSUME NEW v \in Workers, worker'[v].job # 0,
                          job'[worker'[v].job].owner = v
                   PROVE  worker'[v].attempt = job'[worker'[v].job].attempts
        BY DEF OwnerIsCurrent
      <3>1. CASE v = w
        BY SMTT(150), <2>1, <2>2, <3>1, ClaimedRows DEF AttemptInv, TypeOK, IdleWorker
      <3>2. CASE v # w
        <4>1. worker'[v] = worker[v] /\ worker[v].job \in Jobs
          BY <2>1, <3>2 DEF AttemptInv, TypeOK, WorkerState
        <4>2. job'[worker[v].job] = job[worker[v].job]
          BY SMTT(150), <2>1, <3>2, <4>1, ClaimedRows, ScanJobsAssumption
        <4> QED BY <4>1, <4>2 DEF AttemptInv, OwnerIsCurrent
      <3> QED BY <3>1, <3>2
    <2> QED BY <2>1, <2>5, <2>6, <2>7, ClaimedRows DEF AttemptInv
  <1>2. CASE ClaimNothing(w) \/ ClaimReplyLost(w)
    <2>1. PICK claimed \in SUBSET DueJobs : ClaimUpdate(w, claimed)
      BY <1>2 DEF ClaimNothing, ClaimReplyLost
    <2>2. UNCHANGED <<worker, selected, address>> /\ worker[w].job = 0
      BY <1>2 DEF ClaimNothing, ClaimReplyLost, AttemptInv, WorkerMemory
    <2>3. TypeOK' /\ WorkerMemory'
      BY <2>1, <2>2, ClaimedRows DEF AttemptInv, TypeOK, WorkerMemory
    <2>4. OwnerIsCurrent'
      <3> SUFFICES ASSUME NEW v \in Workers, worker[v].job # 0,
                          job'[worker[v].job].owner = v
                   PROVE  worker[v].attempt = job'[worker[v].job].attempts
        BY <2>2 DEF OwnerIsCurrent
      <3>1. v # w /\ worker[v].job \in Jobs
        BY <2>2 DEF AttemptInv, TypeOK, WorkerState
      <3>2. job'[worker[v].job] = job[worker[v].job]
        BY SMTT(150), <2>1, <3>1, ClaimedRows, ScanJobsAssumption
      <3> QED BY <3>2 DEF AttemptInv, OwnerIsCurrent
    <2> QED BY <2>1, <2>3, <2>4, ClaimedRows DEF AttemptInv
  <1> QED BY <1>1, <1>2

\* A worker that goes on with its attempt, or drops it, keeps its relation to
\* the queue while no job is handed to a worker.
LEMMA OwnMemory ==
    ASSUME AttemptInv, NEW w \in Workers, NEW m \in WorkerState,
           worker' = [worker EXCEPT ![w] = m],
           m.pc \in {"idle", "dead"} => m.job = 0,
           m.pc \notin {"idle", "dead"} => /\ worker[w].pc \notin {"idle", "dead"}
                                          /\ m.job = worker[w].job
                                          /\ m.attempt = worker[w].attempt,
           m.pc \in {"finish", "commit", "fallback"} => m.result # "none",
           m.result \in GoodRunStatus \/ m.pc = "scanning" => m.hasRun,
           \A j \in Jobs : /\ job'[j].owner \in {job[j].owner, None}
                           /\ job'[j].attempts = job[j].attempts
    PROVE  WorkerMemory' /\ OwnerIsCurrent' /\ worker' \in [Workers -> WorkerState]
  <1>1. /\ worker'[w] = m
        /\ \A v \in Workers \ {w} : worker'[v] = worker[v]
    BY DEF AttemptInv, TypeOK
  <1>2. WorkerMemory'
    BY SMTT(150), <1>1 DEF AttemptInv, WorkerMemory
  <1>3. OwnerIsCurrent'
    <2> SUFFICES ASSUME NEW v \in Workers, worker'[v].job # 0,
                        job'[worker'[v].job].owner = v
                 PROVE  worker'[v].attempt = job'[worker'[v].job].attempts
      BY DEF OwnerIsCurrent
    <2>1. worker'[v].job = worker[v].job /\ worker'[v].attempt = worker[v].attempt
      BY <1>1
    <2>2. worker[v].job \in Jobs
      BY <2>1 DEF AttemptInv, TypeOK, WorkerState
    <2> QED BY <2>1, <2>2, ScanJobsAssumption DEF AttemptInv, OwnerIsCurrent
  <1>4. worker' \in [Workers -> WorkerState]
    BY DEF AttemptInv, TypeOK
  <1> QED BY <1>2, <1>3, <1>4

\* The same, when the queue is left alone.
LEMMA OwnMemoryOnly ==
    ASSUME AttemptInv, NEW w \in Workers, NEW m \in WorkerState,
           worker' = [worker EXCEPT ![w] = m],
           m.pc \in {"idle", "dead"} => m.job = 0,
           m.pc \notin {"idle", "dead"} => /\ worker[w].pc \notin {"idle", "dead"}
                                          /\ m.job = worker[w].job
                                          /\ m.attempt = worker[w].attempt,
           m.pc \in {"finish", "commit", "fallback"} => m.result # "none",
           m.result \in GoodRunStatus \/ m.pc = "scanning" => m.hasRun,
           UNCHANGED <<job, selected>>,
           run' \in [Jobs -> [Attempts -> RunRow]],
           address' \in [Addresses -> AddressRow]
    PROVE  AttemptInv'
  <1>1. WorkerMemory' /\ OwnerIsCurrent' /\ worker' \in [Workers -> WorkerState]
    BY OwnMemory
  <1> QED BY <1>1 DEF AttemptInv, TypeOK, AttemptBudget

LEMMA RenewStep ==
    ASSUME AttemptInv, NEW w \in Workers, RenewLease(w) \/ RenewalFails(w)
    PROVE  AttemptInv'
  <1>1. worker[w] \in WorkerState
    BY DEF AttemptInv, TypeOK
  <1>2. CASE RenewLease(w)
    <2> DEFINE j == worker[w].job
    <2>1. j \in Jobs
      BY <1>2 DEF RenewLease, AttemptInv, WorkerMemory
    <2>2. [job[j] EXCEPT !.lease = LeaseTTL] \in JobRow
      <3>1. job[j] \in JobRow /\ LeaseTTL \in 0..LeaseTTL
        BY <2>1, ScanJobsAssumption DEF AttemptInv, TypeOK
      <3> QED BY <3>1 DEF JobRow
    <2>3. job' = [job EXCEPT ![j] = [job[j] EXCEPT !.lease = LeaseTTL]]
      BY <1>2, <2>1 DEF RenewLease, AttemptInv, TypeOK
    <2>4. UNCHANGED <<run, worker, selected, address>>
      BY <1>2 DEF RenewLease
    <2>5. TypeOK'
      BY <2>2, <2>3, <2>4 DEF AttemptInv, TypeOK
    <2>6. WorkerMemory' /\ OwnerIsCurrent' /\ AttemptBudget'
      BY <2>3, <2>4, QuietJobs DEF AttemptInv, TypeOK, JobRow
    <2> QED BY SMTT(150), <2>5, <2>6 DEF AttemptInv
  <1>3. CASE RenewalFails(w)
    <2> DEFINE m == [worker[w] EXCEPT !.lost = TRUE]
    <2>1. m \in WorkerState
      BY <1>1 DEF WorkerState
    <2>2. worker' = [worker EXCEPT ![w] = m]
      BY <1>3 DEF RenewalFails, AttemptInv, TypeOK
    <2>3. /\ m.pc = worker[w].pc /\ m.pc \notin {"idle", "dead"}
          /\ m.job = worker[w].job /\ m.attempt = worker[w].attempt
          /\ m.result = worker[w].result /\ m.hasRun = worker[w].hasRun
      BY <1>1, <1>3 DEF RenewalFails, WorkerState
    <2>4. UNCHANGED <<job, run, selected, address>>
      BY <1>3 DEF RenewalFails
    <2> HIDE DEF m
    <2> QED BY ZenonT(150), <2>1, <2>2, <2>3, <2>4, OwnMemoryOnly DEF AttemptInv, TypeOK, WorkerMemory
  <1> QED BY <1>2, <1>3

\* The insert of a run writes a typed run and a typed link, and nothing else.
LEMMA InsertedRun ==
    ASSUME AttemptInv, NEW w \in Workers, worker[w].pc = "claimed", InsertRun(w)
    PROVE  /\ job' \in [Jobs -> JobRow]
           /\ run' \in [Jobs -> [Attempts -> RunRow]]
           /\ \A i \in Jobs : /\ job'[i].status = job[i].status
                              /\ job'[i].owner = job[i].owner
                              /\ job'[i].attempts = job[i].attempts
           /\ AttemptBudget'
  <1> DEFINE j == worker[w].job  n == worker[w].attempt
  <1>1. j \in Jobs /\ n \in Attempts
    BY DEF AttemptInv, WorkerMemory
  <1>2. [job[j] EXCEPT !.lastRun = n] \in JobRow
    <2>1. job[j] \in JobRow /\ n \in 0..MaxAttempts
      BY SMTT(150), <1>1, ScanJobsAssumption DEF AttemptInv, TypeOK
    <2> QED BY SMTT(150), <2>1 DEF JobRow
  <1>3. job' = [job EXCEPT ![j] = [job[j] EXCEPT !.lastRun = n]]
    BY SMTT(150), <1>1 DEF InsertRun, AttemptInv, TypeOK
  <1>4. job' \in [Jobs -> JobRow]
    BY <1>2, <1>3 DEF AttemptInv, TypeOK
  <1>5. \A i \in Jobs : /\ job'[i].status = job[i].status
                        /\ job'[i].owner = job[i].owner
                        /\ job'[i].attempts = job[i].attempts
    BY SMTT(150), <1>3 DEF AttemptInv, TypeOK, JobRow
  <1>6. run' \in [Jobs -> [Attempts -> RunRow]]
    <2>1. [run[j][n] EXCEPT !.status = "running"] \in RunRow
      BY ZenonT(150), <1>1, EditedRun DEF AttemptInv, TypeOK
    <2>2. run' = [run EXCEPT ![j][n] = [run[j][n] EXCEPT !.status = "running"]]
      BY <1>1 DEF InsertRun, AttemptInv, TypeOK
    <2> QED BY ZenonT(150), <1>1, <2>1, <2>2, RunCell DEF AttemptInv
  <1>7. AttemptBudget'
    BY <1>5 DEF AttemptInv, AttemptBudget
  <1> QED BY <1>4, <1>5, <1>6, <1>7

LEMMA InsertStep ==
    ASSUME AttemptInv, NEW w \in Workers, StartScan(w) \/ InsertRunReplyLost(w)
    PROVE  AttemptInv'
  <1>1. /\ worker[w].pc = "claimed" /\ InsertRun(w)
        /\ UNCHANGED <<selected, address>>
    BY DEF StartScan, InsertRunReplyLost
  <1>2. worker[w] \in WorkerState
    BY DEF AttemptInv, TypeOK
  <1>3. PICK m \in WorkerState :
          /\ worker' = [worker EXCEPT ![w] = m]
          /\ m.pc \in {"scanning", "finish"}
          /\ m.pc = "finish" => m.result = "error"
          /\ m.result \in {"none", "error"}
          /\ m.job = worker[w].job
          /\ m.attempt = worker[w].attempt
          /\ m.pc = "scanning" => m.hasRun
    <2>1. CASE StartScan(w)
      <3> DEFINE m == [worker[w] EXCEPT !.hasRun = TRUE,
                         !.pc = IF worker[w].lost THEN "finish" ELSE "scanning",
                         !.result = IF worker[w].lost THEN "error" ELSE "none"]
      <3>1. m \in WorkerState
        BY ZenonT(150), <1>2 DEF WorkerState
      <3>2. worker' = [worker EXCEPT ![w] = m]
        BY <2>1 DEF StartScan, AttemptInv, TypeOK
      <3>3. /\ m.pc = IF worker[w].lost THEN "finish" ELSE "scanning"
            /\ m.result = IF worker[w].lost THEN "error" ELSE "none"
            /\ m.hasRun = TRUE
            /\ m.job = worker[w].job /\ m.attempt = worker[w].attempt
        BY <1>2 DEF WorkerState
      <3> HIDE DEF m
      <3> QED BY <3>1, <3>2, <3>3
    <2>2. CASE InsertRunReplyLost(w)
      <3> DEFINE m == [worker[w] EXCEPT !.pc = "finish", !.result = "error"]
      <3>1. m \in WorkerState
        BY <1>2 DEF WorkerState
      <3>2. worker' = [worker EXCEPT ![w] = m]
        BY <2>2 DEF InsertRunReplyLost, AttemptInv, TypeOK
      <3>3. /\ m.pc = "finish" /\ m.result = "error"
            /\ m.job = worker[w].job /\ m.attempt = worker[w].attempt
        BY <1>2 DEF WorkerState
      <3> HIDE DEF m
      <3> QED BY <3>1, <3>2, <3>3
    <2> QED BY <2>1, <2>2
  <1>4. /\ job' \in [Jobs -> JobRow]
        /\ run' \in [Jobs -> [Attempts -> RunRow]]
        /\ \A i \in Jobs : /\ job'[i].owner = job[i].owner
                           /\ job'[i].attempts = job[i].attempts
        /\ AttemptBudget'
    BY <1>1, InsertedRun
  <1>5. WorkerMemory' /\ OwnerIsCurrent' /\ worker' \in [Workers -> WorkerState]
    BY ZenonT(150), <1>1, <1>3, <1>4, OwnMemory DEF GoodRunStatus
  <1> QED BY <1>1, <1>4, <1>5 DEF AttemptInv, TypeOK

LEMMA ScanStep ==
    ASSUME AttemptInv, NEW w \in Workers,
           ScanBlocked(w) \/ ScanSucceeds(w) \/ ScanFails(w)
    PROVE  AttemptInv'
  <1>1. worker[w] \in WorkerState
    BY SMTT(150) DEF AttemptInv, TypeOK
  <1>2. UNCHANGED <<job, run, selected>> /\ worker[w].pc \notin {"idle", "dead"}
    BY ZenonT(150) DEF ScanBlocked, ScanSucceeds, ScanFails
  <1>3. address' \in [Addresses -> AddressRow]
    <2> DEFINE a == job[worker[w].job].addr
    <2>1. \/ address' = address
          \/ \E due \in BOOLEAN : address' = [address EXCEPT ![a].due = due]
      BY DEF ScanBlocked, ScanSucceeds, ScanFails
    <2>2. ASSUME NEW due \in BOOLEAN, address' = [address EXCEPT ![a].due = due]
          PROVE  address' \in [Addresses -> AddressRow]
      <3>1. \A b \in Addresses : /\ address[b] \in AddressRow
                                 /\ [address[b] EXCEPT !.due = due] \in AddressRow
        BY SMTT(150) DEF AttemptInv, TypeOK, AddressRow
      <3> HIDE DEF a
      <3> QED BY ZenonT(150), <2>2, <3>1 DEF AttemptInv, TypeOK
    <2> QED BY <2>1, <2>2 DEF AttemptInv, TypeOK
  <1>4. PICK result \in GoodRunStatus \cup {"error"} :
          /\ worker' = [worker EXCEPT ![w].pc = "finish", ![w].result = result]
          /\ result \in GoodRunStatus => worker[w].pc = "scanning"
    <2>1. CASE ScanSucceeds(w)
      BY ZenonT(150), <2>1 DEF ScanSucceeds
    <2>2. CASE ScanBlocked(w) \/ ScanFails(w)
      <3>1. worker' = [worker EXCEPT ![w].pc = "finish", ![w].result = "error"]
        BY <2>2 DEF ScanBlocked, ScanFails
      <3> QED BY SMTT(150), <3>1 DEF GoodRunStatus
    <2> QED BY SMTT(150), <2>1, <2>2
  <1> DEFINE m == [worker[w] EXCEPT !.pc = "finish", !.result = result]
  <1>5. m \in WorkerState
    BY <1>1 DEF WorkerState
  <1>6. worker' = [worker EXCEPT ![w] = m]
    BY <1>4 DEF AttemptInv, TypeOK
  <1>7. /\ m.pc = "finish" /\ m.result = result /\ m.hasRun = worker[w].hasRun
        /\ m.job = worker[w].job /\ m.attempt = worker[w].attempt
    BY <1>1 DEF WorkerState
  <1>8. result # "none"
    BY DEF GoodRunStatus
  <1>9. result \in GoodRunStatus => worker[w].hasRun
    BY <1>4 DEF AttemptInv, WorkerMemory
  <1> HIDE DEF m
  <1> QED BY <1>2, <1>3, <1>5, <1>6, <1>7, <1>8, <1>9, OwnMemoryOnly
          DEF AttemptInv, TypeOK

\* The finalisers: the row is released, and the budget is kept because the
\* owner's attempt is the row's attempt.
LEMMA FinalisedRow ==
    ASSUME AttemptInv, NEW w \in Workers, NEW lastRun \in 0..MaxAttempts,
           worker[w].pc \in {"finish", "commit"},
           job[worker[w].job].status = "processing",
           job[worker[w].job].owner = w,
           job' = [job EXCEPT ![worker[w].job] = FinalisedJob(w, lastRun)]
    PROVE  /\ job' \in [Jobs -> JobRow]
           /\ AttemptBudget'
           /\ \A i \in Jobs : /\ job'[i].owner \in {job[i].owner, None}
                              /\ job'[i].attempts = job[i].attempts
  <1> DEFINE j == worker[w].job
             row == FinalisedJob(w, lastRun)
  <1>1. j \in Jobs /\ worker[w].attempt \in Attempts
    BY DEF AttemptInv, WorkerMemory
  <1>2. job[j] \in JobRow /\ worker[w].attempt = job[j].attempts
    <2>1. j # 0
      BY <1>1
    <2> QED BY <1>1, <2>1 DEF AttemptInv, TypeOK, OwnerIsCurrent
  <1>3. FinalStatusFor(w) \in FinalStatus \cup {"retryable"}
    BY DEF FinalStatusFor, FinalStatus
  <1>4. row \in JobRow
    <2>1. 0 \in 0..LeaseTTL
      BY ScanJobsAssumption
    <2>2. (FinalStatusFor(w) # "retryable") \in BOOLEAN
      OBVIOUS
    <2> QED BY ZenonT(150), <1>2, <1>3, <2>1, <2>2
            DEF FinalisedJob, JobRow, ActiveStatus, WaitingStatus
  <1>5. /\ row.owner = None
        /\ row.attempts = job[j].attempts
        /\ row.status = FinalStatusFor(w)
    BY <1>2 DEF FinalisedJob, JobRow
  <1>6. /\ FinalStatusFor(w) \in WaitingStatus => job[j].attempts < MaxAttempts
        /\ FinalStatusFor(w) = "dead_letter" => job[j].attempts = MaxAttempts
    BY <1>1, <1>2, ScanJobsAssumption DEF FinalStatusFor, WaitingStatus
  <1>7. /\ job'[j] = row
        /\ \A i \in Jobs \ {j} : job'[i] = job[i]
    BY <1>1 DEF AttemptInv, TypeOK
  <1> HIDE DEF row
  <1>8. job' \in [Jobs -> JobRow]
    BY <1>4 DEF AttemptInv, TypeOK, row
  <1>9. AttemptBudget'
    BY <1>5, <1>6, <1>7 DEF AttemptInv, AttemptBudget
  <1> QED BY <1>5, <1>7, <1>8, <1>9

\* A finished worker is idle again.
LEMMA BackToIdle ==
    ASSUME AttemptInv, NEW w \in Workers, worker' = [worker EXCEPT ![w] = IdleWorker],
           \A j \in Jobs : /\ job'[j].owner \in {job[j].owner, None}
                           /\ job'[j].attempts = job[j].attempts
    PROVE  WorkerMemory' /\ OwnerIsCurrent' /\ worker' \in [Workers -> WorkerState]
  <1>1. /\ IdleWorker.pc = "idle" /\ IdleWorker.job = 0
        /\ IdleWorker.result = "none"
    BY DEF IdleWorker
  <1>2. IdleWorker \in WorkerState /\ IdleWorker.result \notin GoodRunStatus
    BY <1>1, RowTypes DEF GoodRunStatus
  <1> QED BY <1>1, <1>2, OwnMemory

\* So is one that gave its run up, and a crashed one never comes back.
LEMMA BackToIdleOnly ==
    ASSUME AttemptInv, NEW w \in Workers,
           \/ worker' = [worker EXCEPT ![w] = IdleWorker]
           \/ worker' = [worker EXCEPT ![w] = [IdleWorker EXCEPT !.pc = "dead"]],
           UNCHANGED <<job, selected, address>>,
           run' \in [Jobs -> [Attempts -> RunRow]]
    PROVE  AttemptInv'
  <1>1. PICK m \in WorkerState :
          /\ worker' = [worker EXCEPT ![w] = m]
          /\ m.pc \in {"idle", "dead"} /\ m.job = 0 /\ m.result = "none"
    <2>1. IdleWorker \in WorkerState /\ [IdleWorker EXCEPT !.pc = "dead"] \in WorkerState
      BY RowTypes DEF WorkerState
    <2> QED BY <2>1 DEF IdleWorker
  <1> QED BY <1>1, OwnMemoryOnly DEF AttemptInv, TypeOK, GoodRunStatus

LEMMA FinishWithoutRunStep ==
    ASSUME AttemptInv, NEW w \in Workers, FinishWithoutRun(w)
    PROVE  AttemptInv'
  <1>1. /\ worker' = [worker EXCEPT ![w] = IdleWorker]
        /\ UNCHANGED <<run, selected, address>>
    BY DEF FinishWithoutRun
  <1>2. CASE UNCHANGED job
    BY <1>1, <1>2, BackToIdleOnly DEF AttemptInv, TypeOK
  <1>3. CASE /\ OwnsLiveLease(w, worker[w].job)
             /\ job' = [job EXCEPT ![worker[w].job] = FinalisedJob(w, 0)]
    <2>1. 0 \in 0..MaxAttempts
      BY ScanJobsAssumption
    <2>2. /\ job' \in [Jobs -> JobRow]
          /\ AttemptBudget'
          /\ \A i \in Jobs : /\ job'[i].owner \in {job[i].owner, None}
                             /\ job'[i].attempts = job[i].attempts
      BY <1>3, <2>1, FinalisedRow DEF FinishWithoutRun, OwnsLiveLease
    <2>3. WorkerMemory' /\ OwnerIsCurrent' /\ worker' \in [Workers -> WorkerState]
      BY <1>1, <2>2, BackToIdle
    <2> QED BY <1>1, <2>2, <2>3 DEF AttemptInv, TypeOK
  <1> QED BY <1>2, <1>3 DEF FinishWithoutRun

\* The committed finalisation, whether or not its worker learns of it.
LEMMA FinishedRows ==
    ASSUME AttemptInv, NEW w \in Workers, worker[w].pc = "commit", FinishUpdate(w)
    PROVE  /\ job' \in [Jobs -> JobRow]
           /\ run' \in [Jobs -> [Attempts -> RunRow]]
           /\ AttemptBudget'
           /\ \A i \in Jobs : /\ job'[i].owner \in {job[i].owner, None}
                              /\ job'[i].attempts = job[i].attempts
  <1> DEFINE j == worker[w].job  n == worker[w].attempt
             s == IF worker[w].result = "error" THEN "failed" ELSE worker[w].result
  <1>1. j \in Jobs /\ n \in Attempts /\ n \in 0..MaxAttempts
    BY ScanJobsAssumption DEF AttemptInv, WorkerMemory
  <1>2. s \in {"running", "failed", "deleted"} \cup GoodRunStatus
    <2>1. worker[w] \in WorkerState /\ worker[w].result # "none"
      BY SMTT(150) DEF AttemptInv, TypeOK, WorkerMemory
    <2> QED BY <2>1 DEF WorkerState
  <1>3. run' \in [Jobs -> [Attempts -> RunRow]]
    <2>1. run[j][n] \in RunRow
      BY <1>1 DEF AttemptInv, TypeOK
    <2>2. [run[j][n] EXCEPT !.status = s] \in RunRow
      BY <1>2, <2>1, EditedRun
    <2>3. run' = [run EXCEPT ![j][n] = [run[j][n] EXCEPT !.status = s]]
      BY <1>1 DEF FinishUpdate, AttemptInv, TypeOK
    <2> QED BY <1>1, <2>2, <2>3, RunCell DEF AttemptInv
  <1> QED BY <1>1, <1>3, FinalisedRow DEF FinishUpdate

LEMMA FinishJobAndRunStep ==
    ASSUME AttemptInv, NEW w \in Workers, FinishJobAndRun(w)
    PROVE  AttemptInv'
  <1>1. /\ worker[w].pc = "commit" /\ FinishUpdate(w)
        /\ worker' = [worker EXCEPT ![w] = IdleWorker]
        /\ UNCHANGED <<selected, address>>
    BY DEF FinishJobAndRun
  <1>2. /\ job' \in [Jobs -> JobRow]
        /\ run' \in [Jobs -> [Attempts -> RunRow]]
        /\ AttemptBudget'
        /\ \A i \in Jobs : /\ job'[i].owner \in {job[i].owner, None}
                           /\ job'[i].attempts = job[i].attempts
    BY <1>1, FinishedRows
  <1>3. WorkerMemory' /\ OwnerIsCurrent' /\ worker' \in [Workers -> WorkerState]
    BY <1>1, <1>2, BackToIdle
  <1> QED BY <1>1, <1>2, <1>3 DEF AttemptInv, TypeOK

\* The worker moves on to the transaction or to the fallback.
LEMMA FinishStep ==
    ASSUME AttemptInv, NEW w \in Workers,
           BeginFinish(w) \/ FinishFails(w) \/ FinishReplyLost(w)
    PROVE  AttemptInv'
  <1>1. worker[w] \in WorkerState /\ worker[w].pc \in {"finish", "commit"}
    BY DEF BeginFinish, FinishFails, FinishReplyLost, AttemptInv, TypeOK
  <1>2. UNCHANGED <<selected, address>>
    BY DEF BeginFinish, FinishFails, FinishReplyLost
  <1>3. PICK m \in WorkerState :
          /\ worker' = [worker EXCEPT ![w] = m]
          /\ m.pc \in {"commit", "fallback"}
          /\ m.job = worker[w].job /\ m.attempt = worker[w].attempt
          /\ m.result = worker[w].result /\ m.hasRun = worker[w].hasRun
    <2>1. CASE BeginFinish(w)
      <3> DEFINE live == job[worker[w].job].lease > 0
                 m == [worker[w] EXCEPT !.pc = "commit", !.nowLive = live]
      <3>1. live \in BOOLEAN
        OBVIOUS
      <3> HIDE DEF live
      <3>2. m \in WorkerState
        BY <1>1, <3>1 DEF WorkerState
      <3>3. worker' = [worker EXCEPT ![w] = m]
        BY <2>1 DEF BeginFinish, AttemptInv, TypeOK, live
      <3>4. /\ m.pc = "commit" /\ m.job = worker[w].job
            /\ m.attempt = worker[w].attempt
            /\ m.result = worker[w].result /\ m.hasRun = worker[w].hasRun
        BY <1>1 DEF WorkerState
      <3> HIDE DEF m
      <3> QED BY <3>2, <3>3, <3>4
    <2>2. CASE FinishFails(w) \/ FinishReplyLost(w)
      <3> DEFINE m == [worker[w] EXCEPT !.pc = "fallback"]
      <3>1. m \in WorkerState
        BY <1>1 DEF WorkerState
      <3>2. worker' = [worker EXCEPT ![w] = m]
        BY <2>2 DEF FinishFails, FinishReplyLost, AttemptInv, TypeOK
      <3>3. /\ m.pc = "fallback" /\ m.job = worker[w].job
            /\ m.attempt = worker[w].attempt
            /\ m.result = worker[w].result /\ m.hasRun = worker[w].hasRun
        BY <1>1 DEF WorkerState
      <3> HIDE DEF m
      <3> QED BY <3>1, <3>2, <3>3
    <2> QED BY <2>1, <2>2
  <1>4. /\ job' \in [Jobs -> JobRow]
        /\ run' \in [Jobs -> [Attempts -> RunRow]]
        /\ AttemptBudget'
        /\ \A i \in Jobs : /\ job'[i].owner \in {job[i].owner, None}
                           /\ job'[i].attempts = job[i].attempts
    <2>1. CASE BeginFinish(w) \/ FinishFails(w)
      <3>1. UNCHANGED <<job, run>>
        BY <2>1 DEF BeginFinish, FinishFails
      <3> QED BY <3>1 DEF AttemptInv, TypeOK, AttemptBudget
    <2>2. CASE FinishReplyLost(w)
      BY <2>2, FinishedRows DEF FinishReplyLost
    <2> QED BY <2>1, <2>2
  <1>5. /\ worker[w].result # "none"
        /\ worker[w].result \in GoodRunStatus => worker[w].hasRun
    BY SMTT(150), <1>1 DEF AttemptInv, WorkerMemory
  <1>6. WorkerMemory' /\ OwnerIsCurrent' /\ worker' \in [Workers -> WorkerState]
    BY ZenonT(150), <1>1, <1>3, <1>4, <1>5, OwnMemory
  <1> QED BY <1>2, <1>4, <1>6 DEF AttemptInv, TypeOK

LEMMA LeaveStep ==
    ASSUME AttemptInv, NEW w \in Workers, FallbackAudit(w) \/ Crash(w)
    PROVE  AttemptInv'
  <1>1. CASE FallbackAudit(w)
    <2> DEFINE j == worker[w].job  n == worker[w].attempt
    <2>1. j \in Jobs /\ n \in Attempts
      BY SMTT(150), <1>1 DEF FallbackAudit, AttemptInv, WorkerMemory
    <2>2. CASE UNCHANGED run
      BY <1>1, <2>2, BackToIdleOnly DEF FallbackAudit, AttemptInv, TypeOK
    <2>3. CASE run' = [run EXCEPT ![j][n].status = "failed"]
      <3>1. [run[j][n] EXCEPT !.status = "failed"] \in RunRow
        BY ZenonT(150), <2>1, EditedRun DEF AttemptInv, TypeOK
      <3>2. run' = [run EXCEPT ![j][n] = [run[j][n] EXCEPT !.status = "failed"]]
        BY SMTT(150), <2>1, <2>3 DEF AttemptInv, TypeOK
      <3>3. run' \in [Jobs -> [Attempts -> RunRow]]
        BY <2>1, <3>1, <3>2, RunCell DEF AttemptInv
      <3> QED BY <1>1, <3>3, BackToIdleOnly DEF FallbackAudit
    <2> QED BY SMTT(150), <1>1, <2>2, <2>3 DEF FallbackAudit
  <1>2. CASE Crash(w)
    BY <1>2, BackToIdleOnly DEF Crash, AttemptInv, TypeOK
  <1> QED BY <1>1, <1>2

LEMMA NextAttemptInv == AttemptInv /\ [Next]_vars => AttemptInv'
  <1> SUFFICES ASSUME AttemptInv, [Next]_vars PROVE AttemptInv'
    OBVIOUS
  <1>1. ASSUME NEW s \in Schedulers,
               \/ \E a \in Addresses : SchedulerSelect(s, a)
               \/ SchedulerEnqueue(s) \/ SchedulerAborts(s)
        PROVE  AttemptInv'
    <2>1. ASSUME NEW a \in Addresses, SchedulerSelect(s, a) PROVE AttemptInv'
      BY <2>1, SelectStep
    <2>2. CASE SchedulerEnqueue(s)
      BY <2>2, EnqueueStep
    <2>3. CASE SchedulerAborts(s)
      BY <2>3 DEF SchedulerAborts, AttemptInv, TypeOK, WorkerMemory, OwnerIsCurrent,
                  AttemptBudget
    <2> QED BY <1>1, <2>1, <2>2, <2>3
  <1>2. ASSUME NEW a \in Addresses,
               AddressFallsDue(a) \/ SetAddressStatus(a) \/ DeleteAddress(a)
        PROVE  AttemptInv'
    BY <1>2, AddressStep, DeleteStep
  <1>3. ASSUME NEW j \in Jobs,
               \/ BackoffElapses(j) \/ LeaseTicks(j)
               \/ \E n \in Attempts : RetryRun(j, n)
        PROVE  AttemptInv'
    BY <1>3, TimeStep, RetryStep
  <1>4. ASSUME NEW w \in Workers, WorkerStep(w) PROVE AttemptInv'
    BY <1>4, ClaimStep, InsertStep, ScanStep, FinishWithoutRunStep,
       FinishJobAndRunStep, FinishStep, LeaveStep DEF WorkerStep
  <1>5. ASSUME NEW w \in Workers,
               \/ RenewLease(w) \/ RenewalFails(w) \/ ClaimReplyLost(w)
               \/ InsertRunReplyLost(w) \/ FinishReplyLost(w) \/ Crash(w)
        PROVE  AttemptInv'
    BY <1>5, RenewStep, ClaimStep, InsertStep, FinishStep, LeaveStep
  <1>6. CASE UNCHANGED vars
    BY <1>6 DEF vars, AttemptInv, TypeOK, WorkerMemory, OwnerIsCurrent, AttemptBudget
  <1> QED BY <1>1, <1>2, <1>3, <1>4, <1>5, <1>6 DEF Next

\* For every number of processes, jobs and attempts the tables and the workers'
\* memories are typed, locked_by fences the attempt it was set for, waiting
\* jobs have an attempt left and dead letters have none: the claim of
\* claim_due_scan_job and the finalisers of finish_scan_job_for_result agree.
THEOREM AttemptsAreConsistent == Spec => []AttemptInv
  BY InitAttemptInv, NextAttemptInv, PTL DEF Spec

\* The type invariant, and the budget the schedulers run checks, on their own.
THEOREM TypeCorrect == Spec => []TypeOK
  <1>1. AttemptInv => TypeOK
    BY DEF AttemptInv
  <1> QED BY <1>1, AttemptsAreConsistent, PTL

THEOREM BudgetIsKept == Spec => []AttemptBudget
  <1>1. AttemptInv => AttemptBudget
    BY DEF AttemptInv
  <1> QED BY <1>1, AttemptsAreConsistent, PTL

-----------------------------------------------------------------------------
(* One active job per address.                                             *)

\* Whatever a claim does to a row, it activates none and moves none.
LEMMA ClaimKeepsActive ==
    ASSUME AttemptInv, NEW w \in Workers, NEW claimed \in SUBSET DueJobs,
           ClaimUpdate(w, claimed)
    PROVE  \A j \in Jobs : Active(j)' => Active(j) /\ job'[j].addr = job[j].addr
  <1> SUFFICES ASSUME NEW j \in Jobs, Active(j)'
               PROVE  Active(j) /\ job'[j].addr = job[j].addr
    OBVIOUS
  <1>1. job[j] \in JobRow
    BY DEF AttemptInv, TypeOK
  <1>2. job'[j] = IF j \in DeadLettered THEN BuriedJob(j)
                  ELSE IF j \in claimed THEN ClaimedJob(j, w) ELSE job[j]
    BY DEF ClaimUpdate
  <1>3. j \notin DeadLettered
    <2>1. BuriedJob(j).status = "dead_letter"
      BY <1>1 DEF BuriedJob, JobRow
    <2> QED BY <1>2, <2>1 DEF Active, ActiveStatus, WaitingStatus
  <1>4. CASE j \in claimed
    <2>1. job[j].status \in ActiveStatus
      BY <1>4 DEF DueJobs, Reclaimable, ExpiredJobs, ActiveStatus
    <2>2. ClaimedJob(j, w).addr = job[j].addr
      BY <1>1 DEF ClaimedJob, JobRow
    <2> QED BY <1>2, <1>3, <1>4, <2>1, <2>2 DEF Active
  <1>5. CASE j \notin claimed
    BY <1>2, <1>3, <1>5 DEF Active
  <1> QED BY <1>4, <1>5

\* A step activates at most one row, and only for an address without one.
LEMMA ActivationStep ==
    ASSUME AttemptInv, [Next]_vars
    PROVE  \/ \A j \in Jobs : Active(j)' => Active(j) /\ job'[j].addr = job[j].addr
           \/ \E j \in Jobs, a \in Addresses \cup {None} :
                 /\ ~HasActiveJob(a)
                 /\ job' = [job EXCEPT ![j] = PendingJob(a)]
  <1> DEFINE Kept == \A j \in Jobs : Active(j)' => Active(j) /\ job'[j].addr = job[j].addr
             Added == \E j \in Jobs, a \in Addresses \cup {None} :
                         /\ ~HasActiveJob(a)
                         /\ job' = [job EXCEPT ![j] = PendingJob(a)]
  <1>1. ASSUME NEW s \in Schedulers, SchedulerEnqueue(s) PROVE Kept \/ Added
    <2>1. selected[s] \in Addresses \cup {None}
      BY DEF AttemptInv, TypeOK
    <2> QED BY <1>1, <2>1 DEF SchedulerEnqueue, Active
  <1>2. ASSUME NEW i \in Jobs, NEW n \in Attempts, RetryRun(i, n) PROVE Kept \/ Added
    <2>1. job[i].addr \in Addresses \cup {None}
      BY DEF AttemptInv, TypeOK, JobRow
    <2>2. PICK j \in Jobs :
            \/ /\ Active(j)
               /\ job' = [job EXCEPT ![j].status = "pending", ![j].due = TRUE]
            \/ /\ ~HasActiveJob(job[i].addr)
               /\ job' = [job EXCEPT ![j] = PendingJob(job[i].addr)]
      BY <1>2 DEF RetryRun
    <2>3. CASE /\ Active(j)
               /\ job' = [job EXCEPT ![j].status = "pending", ![j].due = TRUE]
      BY SMTT(150), <2>3 DEF Active, AttemptInv, TypeOK, JobRow
    <2> QED BY <2>1, <2>2, <2>3
  <1>3. ASSUME NEW a \in Addresses, DeleteAddress(a) PROVE Kept
    BY <1>3 DEF DeleteAddress, Active, ActiveStatus, WaitingStatus, NoJob
  <1>4. ASSUME NEW j \in Jobs, BackoffElapses(j) \/ LeaseTicks(j) PROVE Kept
    <2>1. CASE BackoffElapses(j)
      BY <2>1 DEF BackoffElapses, Active, AttemptInv, TypeOK, JobRow
    <2>2. CASE LeaseTicks(j)
      <3>1. job' = [job EXCEPT ![j] = [job[j] EXCEPT !.lease = job[j].lease - 1]]
        BY <2>2 DEF LeaseTicks, AttemptInv, TypeOK
      <3> QED BY SMTT(150), <3>1 DEF Active, AttemptInv, TypeOK, JobRow
    <2> QED BY <1>4, <2>1, <2>2
  <1>5. ASSUME NEW w \in Workers, Claim(w) \/ ClaimNothing(w) \/ ClaimReplyLost(w)
        PROVE  Kept
    <2>1. PICK claimed \in SUBSET DueJobs : ClaimUpdate(w, claimed)
      BY ZenonT(150), <1>5 DEF Claim, ClaimNothing, ClaimReplyLost
    <2> QED BY <2>1, ClaimKeepsActive
  <1>6. ASSUME NEW w \in Workers, StartScan(w) \/ InsertRunReplyLost(w) PROVE Kept
    <2>1. job' = [job EXCEPT ![worker[w].job].lastRun = worker[w].attempt]
      BY <1>6 DEF StartScan, InsertRunReplyLost, InsertRun
    <2> QED BY SMTT(150), <2>1 DEF Active, AttemptInv, TypeOK, JobRow
  <1>7. ASSUME NEW w \in Workers, RenewLease(w) PROVE Kept
    BY <1>7 DEF RenewLease, Active, AttemptInv, TypeOK, JobRow
  <1>8. ASSUME NEW w \in Workers, NEW lastRun \in 0..MaxAttempts,
               job[worker[w].job].status = "processing",
               job' = [job EXCEPT ![worker[w].job] = FinalisedJob(w, lastRun)]
        PROVE  Kept
    <2>1. SUFFICES ASSUME NEW j \in Jobs, j = worker[w].job PROVE Active(j) /\ job'[j].addr = job[j].addr
      BY SMTT(150), <1>8 DEF Active, AttemptInv, TypeOK
    <2>2. job[j] \in JobRow
      BY SMTT(150) DEF AttemptInv, TypeOK
    <2>3. FinalisedJob(w, lastRun).addr = job[j].addr
      BY SMTT(150), <2>1, <2>2 DEF FinalisedJob, JobRow
    <2> QED BY <1>8, <2>1, <2>3 DEF Active, ActiveStatus, AttemptInv, TypeOK
  <1>9. ASSUME NEW w \in Workers,
               FinishWithoutRun(w) \/ FinishJobAndRun(w) \/ FinishReplyLost(w)
        PROVE  Kept
    <2>1. 0 \in 0..MaxAttempts /\ worker[w].attempt \in 0..MaxAttempts
      BY ScanJobsAssumption DEF AttemptInv, TypeOK, WorkerState
    <2>2. CASE UNCHANGED job
      BY <2>2 DEF Active
    <2> QED BY <1>8, <1>9, <2>1, <2>2
            DEF FinishWithoutRun, FinishJobAndRun, FinishReplyLost, FinishUpdate,
                OwnsLiveLease
  <1>10. ASSUME UNCHANGED job PROVE Kept
    BY <1>10 DEF Active
  <1> HIDE DEF Kept, Added
  <1>11. ASSUME NEW s \in Schedulers,
                \/ \E a \in Addresses : SchedulerSelect(s, a)
                \/ SchedulerEnqueue(s) \/ SchedulerAborts(s)
         PROVE  Kept \/ Added
    BY <1>1, <1>10, <1>11 DEF SchedulerSelect, SchedulerAborts
  <1>12. ASSUME NEW a \in Addresses,
                AddressFallsDue(a) \/ SetAddressStatus(a) \/ DeleteAddress(a)
         PROVE  Kept \/ Added
    BY SMTT(150), <1>3, <1>10, <1>12 DEF AddressFallsDue, SetAddressStatus
  <1>13. ASSUME NEW j \in Jobs,
                \/ BackoffElapses(j) \/ LeaseTicks(j)
                \/ \E n \in Attempts : RetryRun(j, n)
         PROVE  Kept \/ Added
    BY SMTT(150), <1>2, <1>4, <1>13
  <1>14. ASSUME NEW w \in Workers,
                \/ WorkerStep(w) \/ RenewLease(w) \/ RenewalFails(w)
                \/ ClaimReplyLost(w) \/ InsertRunReplyLost(w)
                \/ FinishReplyLost(w) \/ Crash(w)
         PROVE  Kept \/ Added
    BY <1>5, <1>6, <1>7, <1>9, <1>10, <1>14
       DEF WorkerStep, RenewalFails, Crash, ScanBlocked, ScanSucceeds, ScanFails,
           BeginFinish, FinishFails, FallbackAudit
  <1>15. ASSUME UNCHANGED vars PROVE Kept
    BY <1>10, <1>15 DEF vars
  <1>16. Kept \/ Added
    BY <1>11, <1>12, <1>13, <1>14, <1>15 DEF Next
  <1> QED BY <1>16 DEF Kept, Added

\* The partial unique index is respected by construction of each insert, and
\* no finaliser, retry or claim revives a job of an address that has another.
THEOREM OneActiveJob == Spec => []OneActiveJobPerAddress
  <1>1. Init => OneActiveJobPerAddress
    BY DEF Init, OneActiveJobPerAddress, Active, ActiveStatus, WaitingStatus, NoJob
  <1>2. AttemptInv /\ OneActiveJobPerAddress /\ [Next]_vars => OneActiveJobPerAddress'
    <2> SUFFICES ASSUME AttemptInv, OneActiveJobPerAddress, [Next]_vars
                 PROVE  OneActiveJobPerAddress'
      OBVIOUS
    <2>1. CASE \A j \in Jobs : Active(j)' => Active(j) /\ job'[j].addr = job[j].addr
      BY <2>1 DEF OneActiveJobPerAddress
    <2>2. ASSUME NEW j \in Jobs, NEW a \in Addresses \cup {None}, ~HasActiveJob(a),
                 job' = [job EXCEPT ![j] = PendingJob(a)]
          PROVE  OneActiveJobPerAddress'
      <3>1. /\ job'[j].addr = a
            /\ \A i \in Jobs \ {j} : job'[i] = job[i]
        BY <2>2 DEF PendingJob, NoJob, AttemptInv, TypeOK
      <3> QED BY <2>2, <3>1 DEF OneActiveJobPerAddress, HasActiveJob, Active
    <2> QED BY <2>1, <2>2, ActivationStep
  <1> QED BY <1>1, <1>2, AttemptsAreConsistent, PTL DEF Spec

-----------------------------------------------------------------------------
(* A run recorded good is the last run of a succeeded job.                 *)

\* Of one table cell with a new status.
LEMMA StatusCell ==
    ASSUME TypeOK, NEW j \in Jobs, NEW n \in Attempts, NEW s,
           run' = [run EXCEPT ![j][n].status = s]
    PROVE  /\ run'[j][n].status = s
           /\ \A i \in Jobs, k \in Attempts :
                 i # j \/ k # n => run'[i][k] = run[i][k]
  <1>1. run' = [run EXCEPT ![j] = [run[j] EXCEPT ![n] = [run[j][n] EXCEPT !.status = s]]]
    BY DEF TypeOK
  <1>2. run[j][n] \in RunRow /\ run[j] \in [Attempts -> RunRow]
    BY DEF TypeOK
  <1>3. [run[j][n] EXCEPT !.status = s].status = s
    BY <1>2 DEF RunRow
  <1> QED BY ZenonT(150), <1>1, <1>2, <1>3 DEF TypeOK

\* Steps that record nothing good and reopen no succeeded job.
LEMMA NothingGoodRecorded ==
    ASSUME GoodRunMeansSucceededJob,
           \A j \in Jobs, n \in Attempts :
              run'[j][n].status \in GoodRunStatus => run[j][n].status \in GoodRunStatus,
           \A j \in Jobs :
              job[j].status = "succeeded" =>
                 \/ job'[j].status = "succeeded" /\ job'[j].lastRun = job[j].lastRun
                 \/ \A n \in Attempts : run'[j][n].status \notin GoodRunStatus
    PROVE  GoodRunMeansSucceededJob'
  BY DEF GoodRunMeansSucceededJob

LEMMA QueueStepGoodRun ==
    ASSUME AttemptInv, GoodRunMeansSucceededJob,
           \/ \E s \in Schedulers : SchedulerEnqueue(s)
           \/ \E a \in Addresses : DeleteAddress(a)
           \/ \E j \in Jobs : \/ BackoffElapses(j) \/ LeaseTicks(j)
                              \/ \E n \in Attempts : RetryRun(j, n)
    PROVE  GoodRunMeansSucceededJob'
  <1>1. ASSUME NEW s \in Schedulers, SchedulerEnqueue(s)
        PROVE  GoodRunMeansSucceededJob'
    <2>1. UNCHANGED run
      BY <1>1 DEF SchedulerEnqueue
    <2>2. \A j \in Jobs : job[j].status = "succeeded" => job'[j] = job[j]
      BY <1>1 DEF SchedulerEnqueue, Fresh, AttemptInv, TypeOK
    <2> QED BY <2>1, <2>2, NothingGoodRecorded
  <1>2. ASSUME NEW a \in Addresses, DeleteAddress(a) PROVE GoodRunMeansSucceededJob'
    <2>1. \A j \in Jobs : \/ job'[j] = job[j] /\ run'[j] = run[j]
                          \/ \A n \in Attempts : run'[j][n].status = "deleted"
      BY <1>2 DEF DeleteAddress, NoRun
    <2> QED BY <2>1, NothingGoodRecorded DEF GoodRunStatus
  <1>3. ASSUME NEW j \in Jobs, BackoffElapses(j) \/ LeaseTicks(j)
        PROVE  GoodRunMeansSucceededJob'
    <2>1. UNCHANGED run /\ job[j].status # "succeeded"
      BY <1>3 DEF BackoffElapses, LeaseTicks, WaitingStatus
    <2>2. \A i \in Jobs \ {j} : job'[i] = job[i]
      BY <1>3 DEF BackoffElapses, LeaseTicks, AttemptInv, TypeOK
    <2> QED BY <2>1, <2>2, NothingGoodRecorded
  <1>4. ASSUME NEW i \in Jobs, NEW n \in Attempts, RetryRun(i, n)
        PROVE  GoodRunMeansSucceededJob'
    <2>1. PICK j \in Jobs :
            /\ job[j].status # "succeeded"
            /\ \/ job' = [job EXCEPT ![j].status = "pending", ![j].due = TRUE]
               \/ job' = [job EXCEPT ![j] = PendingJob(job[i].addr)]
            /\ run' = [run EXCEPT ![i][n].retryTask = j]
      BY ZenonT(150), <1>4 DEF RetryRun, Fresh, WaitingStatus
    <2>2. \A k \in Jobs \ {j} : job'[k] = job[k]
      BY <2>1 DEF AttemptInv, TypeOK
    <2>3. \A k \in Jobs, m \in Attempts : run'[k][m].status = run[k][m].status
      <3>1. run[i][n] \in RunRow
        BY DEF AttemptInv, TypeOK
      <3>2. [run[i][n] EXCEPT !.retryTask = j].status = run[i][n].status
        BY <3>1 DEF RunRow
      <3>3. run' = [run EXCEPT ![i] = [run[i] EXCEPT ![n] =
                      [run[i][n] EXCEPT !.retryTask = j]]]
        BY <2>1 DEF AttemptInv, TypeOK
      <3> QED BY <3>2, <3>3 DEF AttemptInv, TypeOK
    <2> QED BY <2>1, <2>2, <2>3, NothingGoodRecorded
  <1> QED BY <1>1, <1>2, <1>3, <1>4

LEMMA ClaimStepGoodRun ==
    ASSUME AttemptInv, GoodRunMeansSucceededJob, NEW w \in Workers,
           NEW claimed \in SUBSET DueJobs, ClaimUpdate(w, claimed)
    PROVE  GoodRunMeansSucceededJob'
  <1>1. \A j \in Jobs, n \in Attempts :
           run'[j][n].status \in GoodRunStatus => run[j][n].status \in GoodRunStatus
    <2> SUFFICES ASSUME NEW j \in Jobs, NEW n \in Attempts,
                        run'[j][n].status \in GoodRunStatus
                 PROVE  run[j][n].status \in GoodRunStatus
      OBVIOUS
    <2>1. \/ run'[j][n] = run[j][n]
          \/ run'[j][n] = [run[j][n] EXCEPT !.status = "failed"]
      BY DEF ClaimUpdate, CloseRunsOf
    <2>2. run[j][n] \in RunRow
      BY ZenonT(150) DEF AttemptInv, TypeOK
    <2>3. [run[j][n] EXCEPT !.status = "failed"].status = "failed"
      BY <2>2 DEF RunRow
    <2> QED BY <2>1, <2>3 DEF GoodRunStatus
  <1>2. \A j \in Jobs : job[j].status = "succeeded" => job'[j] = job[j]
    BY DEF ClaimUpdate, DeadLettered, DueJobs, Reclaimable, ExpiredJobs, WaitingStatus
  <1> QED BY <1>1, <1>2, NothingGoodRecorded

LEMMA WorkerStepGoodRun ==
    ASSUME AttemptInv, GoodRunMeansSucceededJob, NEW w \in Workers,
           \/ StartScan(w) \/ InsertRunReplyLost(w) \/ RenewLease(w)
           \/ FinishWithoutRun(w) \/ FinishJobAndRun(w) \/ FinishReplyLost(w)
           \/ FallbackAudit(w)
    PROVE  GoodRunMeansSucceededJob'
  <1> DEFINE j == worker[w].job  n == worker[w].attempt
  <1>1. j \in Jobs /\ n \in Attempts
    <2>1. worker[w].pc \notin {"idle", "dead"}
      BY SMTT(150) DEF StartScan, InsertRunReplyLost, RenewLease, FinishWithoutRun,
             FinishJobAndRun, FinishReplyLost, FallbackAudit
    <2> QED BY SMTT(150), <2>1 DEF AttemptInv, WorkerMemory
  <1>2. CASE StartScan(w) \/ InsertRunReplyLost(w)
    <2>1. InsertRun(w)
      BY SMTT(150), <1>2 DEF StartScan, InsertRunReplyLost
    <2>2. job[j].status # "succeeded" /\ run' = [run EXCEPT ![j][n].status = "running"]
      BY SMTT(150), <2>1 DEF InsertRun, OwnsLiveLease
    <2>3. \A i \in Jobs \ {j} : job'[i] = job[i]
      BY SMTT(150), <2>1 DEF InsertRun, AttemptInv, TypeOK
    <2>4. \A i \in Jobs, k \in Attempts :
             run'[i][k] = run[i][k] \/ run'[i][k].status = "running"
      <3>1. TypeOK /\ run' = [run EXCEPT ![j][n].status = "running"]
        BY <2>2 DEF AttemptInv
      <3>2. /\ run'[j][n].status = "running"
            /\ \A i \in Jobs, k \in Attempts :
                  i # j \/ k # n => run'[i][k] = run[i][k]
        BY ZenonT(150), <1>1, <3>1, StatusCell
      <3> QED BY ZenonT(150), <3>2
    <2> QED BY SMTT(150), <2>2, <2>3, <2>4, NothingGoodRecorded DEF GoodRunStatus
  <1>3. CASE RenewLease(w)
    <2>1. UNCHANGED run /\ job[j].status # "succeeded"
      BY <1>3 DEF RenewLease, OwnsLiveLease
    <2>2. \A i \in Jobs \ {j} : job'[i] = job[i]
      BY <1>3 DEF RenewLease, AttemptInv, TypeOK
    <2> QED BY <2>1, <2>2, NothingGoodRecorded
  <1>4. CASE FinishWithoutRun(w)
    <2>1. UNCHANGED run
      BY <1>4 DEF FinishWithoutRun
    <2>2. \A i \in Jobs : job[i].status = "succeeded" => job'[i] = job[i]
      BY <1>1, <1>4 DEF FinishWithoutRun, OwnsLiveLease, AttemptInv, TypeOK
    <2> QED BY <2>1, <2>2, NothingGoodRecorded
  <1>5. CASE FinishJobAndRun(w) \/ FinishReplyLost(w)
    <2>1. FinishUpdate(w) /\ worker[w].pc = "commit"
      BY <1>5 DEF FinishJobAndRun, FinishReplyLost
    <2>2. /\ job[j].status = "processing"
          /\ job'[j] = FinalisedJob(w, n)
          /\ \A i \in Jobs \ {j} : job'[i] = job[i]
      BY <1>1, <2>1 DEF FinishUpdate, AttemptInv, TypeOK
    <2>3. /\ run'[j][n].status =
                IF worker[w].result = "error" THEN "failed" ELSE worker[w].result
          /\ \A i \in Jobs, k \in Attempts : i # j \/ k # n => run'[i][k] = run[i][k]
      <3> DEFINE s == IF worker[w].result = "error" THEN "failed" ELSE worker[w].result
      <3>1. run' = [run EXCEPT ![j][n].status = s]
        BY <2>1 DEF FinishUpdate
      <3>2. TypeOK
        BY DEF AttemptInv
      <3> HIDE DEF s, j, n
      <3>3. /\ run'[j][n].status = s
            /\ \A i \in Jobs, k \in Attempts : i # j \/ k # n => run'[i][k] = run[i][k]
        BY ZenonT(150), <1>1, <3>1, <3>2, StatusCell
      <3> QED BY <3>3 DEF s
    <2>4. \A k \in Attempts : run[j][k].status \notin GoodRunStatus
      BY <1>1, <2>2 DEF GoodRunMeansSucceededJob
    <2>5. job[j] \in JobRow
      BY <1>1 DEF AttemptInv, TypeOK
    <2>6. /\ FinalisedJob(w, n).status = FinalStatusFor(w)
          /\ FinalisedJob(w, n).lastRun = n
      BY SMTT(150), <2>5 DEF FinalisedJob, JobRow
    <2>7. CASE worker[w].result = "error"
      BY <1>1, <2>2, <2>3, <2>4, <2>7 DEF GoodRunMeansSucceededJob, GoodRunStatus
    <2>8. CASE worker[w].result # "error"
      <3>1. FinalStatusFor(w) = "succeeded"
        BY <2>8 DEF FinalStatusFor
      <3> QED BY SMTT(150), <1>1, <2>2, <2>3, <2>4, <2>6, <3>1 DEF GoodRunMeansSucceededJob
    <2> QED BY <2>7, <2>8
  <1>6. CASE FallbackAudit(w)
    <2>1. UNCHANGED job /\ (UNCHANGED run \/ run' = [run EXCEPT ![j][n].status = "failed"])
      BY <1>6 DEF FallbackAudit
    <2>2. \A i \in Jobs, k \in Attempts :
             run'[i][k] = run[i][k] \/ run'[i][k].status = "failed"
      <3>1. TypeOK
        BY DEF AttemptInv
      <3>2. CASE run' = [run EXCEPT ![j][n].status = "failed"]
        <4> HIDE DEF j, n
        <4> QED BY <1>1, <3>1, <3>2, StatusCell
      <3> QED BY <2>1, <3>2
    <2> QED BY SMTT(150), <2>1, <2>2, NothingGoodRecorded DEF GoodRunStatus
  <1> QED BY <1>2, <1>3, <1>4, <1>5, <1>6

\* The transaction of finish_scan_job_and_run_for_result, the closing of runs
\* by the claim and the late fallback never leave an audit success without a
\* succeeded job, even when replies are lost.
THEOREM AuditSuccessIsReal == Spec => []GoodRunMeansSucceededJob
  <1>1. Init => GoodRunMeansSucceededJob
    BY DEF Init, GoodRunMeansSucceededJob, NoRun, GoodRunStatus
  <1>2. AttemptInv /\ GoodRunMeansSucceededJob /\ [Next]_vars => GoodRunMeansSucceededJob'
    <2> SUFFICES ASSUME AttemptInv, GoodRunMeansSucceededJob, [Next]_vars
                 PROVE  GoodRunMeansSucceededJob'
      OBVIOUS
    <2>1. CASE UNCHANGED <<job, run>>
      BY <2>1, NothingGoodRecorded
    <2>2. ASSUME NEW w \in Workers, Claim(w) \/ ClaimNothing(w) \/ ClaimReplyLost(w)
          PROVE  GoodRunMeansSucceededJob'
      <3>1. PICK claimed \in SUBSET DueJobs : ClaimUpdate(w, claimed)
        BY ZenonT(150), <2>2 DEF Claim, ClaimNothing, ClaimReplyLost
      <3> QED BY <3>1, ClaimStepGoodRun
    <2>3. ASSUME NEW w \in Workers,
                 \/ WorkerStep(w) \/ RenewLease(w) \/ RenewalFails(w)
                 \/ ClaimReplyLost(w) \/ InsertRunReplyLost(w)
                 \/ FinishReplyLost(w) \/ Crash(w)
          PROVE  GoodRunMeansSucceededJob'
      BY <2>1, <2>2, <2>3, WorkerStepGoodRun
         DEF WorkerStep, RenewalFails, Crash, ScanBlocked, ScanSucceeds, ScanFails,
             BeginFinish, FinishFails
    <2>4. CASE \/ \E s \in Schedulers, a \in Addresses : SchedulerSelect(s, a)
               \/ \E s \in Schedulers : SchedulerAborts(s)
               \/ \E a \in Addresses : AddressFallsDue(a) \/ SetAddressStatus(a)
               \/ UNCHANGED vars
      BY <2>1, <2>4 DEF SchedulerSelect, SchedulerAborts, AddressFallsDue,
                        SetAddressStatus, vars
    <2> QED BY <2>3, <2>4, QueueStepGoodRun DEF Next
  <1> QED BY <1>1, <1>2, AttemptsAreConsistent, PTL DEF Spec

-----------------------------------------------------------------------------
(* A stale worker finishes nothing.                                        *)

\* Steps under which a processing job is not finished.
LEMMA QueueStepFenced ==
    ASSUME AttemptInv,
           \/ \E s \in Schedulers : SchedulerEnqueue(s)
           \/ \E a \in Addresses : DeleteAddress(a)
           \/ \E j \in Jobs : \/ BackoffElapses(j) \/ LeaseTicks(j)
                              \/ \E n \in Attempts : RetryRun(j, n)
           \/ \E w \in Workers : \/ StartScan(w) \/ InsertRunReplyLost(w)
                                 \/ RenewLease(w)
                                 \/ Claim(w) \/ ClaimNothing(w) \/ ClaimReplyLost(w)
    PROVE  FencedFinishStep
  <1> SUFFICES ASSUME NEW j \in Jobs, job[j].status = "processing"
               PROVE  job'[j].status \notin {"succeeded", "retryable"}
    BY DEF FencedFinishStep
  <1>1. job[j] \in JobRow
    BY DEF AttemptInv, TypeOK
  <1>2. ASSUME NEW s \in Schedulers, SchedulerEnqueue(s)
        PROVE  job'[j].status = "processing"
    BY <1>2 DEF SchedulerEnqueue, Fresh, AttemptInv, TypeOK
  <1>3. ASSUME NEW a \in Addresses, DeleteAddress(a)
        PROVE  job'[j].status \in {"processing", "deleted"}
    BY <1>3 DEF DeleteAddress, NoJob
  <1>4. ASSUME NEW i \in Jobs, BackoffElapses(i)
        PROVE  job'[j].status = "processing"
    BY <1>4 DEF BackoffElapses, WaitingStatus, AttemptInv, TypeOK
  <1>5. ASSUME NEW i \in Jobs, LeaseTicks(i)
        PROVE  job'[j].status = "processing"
    <2>1. job' = [job EXCEPT ![i] = [job[i] EXCEPT !.lease = job[i].lease - 1]]
      BY <1>5 DEF LeaseTicks, AttemptInv, TypeOK
    <2> QED BY <1>1, <2>1 DEF AttemptInv, TypeOK, JobRow
  <1>6. ASSUME NEW i \in Jobs, NEW n \in Attempts, RetryRun(i, n)
        PROVE  job'[j].status = "processing"
    <2>1. PICK k \in Jobs :
            /\ job[k].status # "processing"
            /\ \/ job' = [job EXCEPT ![k].status = "pending", ![k].due = TRUE]
               \/ job' = [job EXCEPT ![k] = PendingJob(job[i].addr)]
      BY SMTT(150), <1>6 DEF RetryRun, Fresh, WaitingStatus
    <2> QED BY <2>1 DEF AttemptInv, TypeOK
  <1>7. ASSUME NEW w \in Workers, StartScan(w) \/ InsertRunReplyLost(w)
        PROVE  job'[j].status = "processing"
    <2>1. job' = [job EXCEPT ![worker[w].job].lastRun = worker[w].attempt]
      BY ZenonT(150), <1>7 DEF StartScan, InsertRunReplyLost, InsertRun
    <2> QED BY SMTT(150), <1>1, <2>1 DEF AttemptInv, TypeOK, JobRow
  <1>8. ASSUME NEW w \in Workers, RenewLease(w)
        PROVE  job'[j].status = "processing"
    BY SMTT(150), <1>1, <1>8 DEF RenewLease, AttemptInv, TypeOK, JobRow
  <1>9. ASSUME NEW w \in Workers, Claim(w) \/ ClaimNothing(w) \/ ClaimReplyLost(w)
        PROVE  job'[j].status \in {"processing", "dead_letter"}
    <2>1. PICK claimed \in SUBSET DueJobs : ClaimUpdate(w, claimed)
      BY <1>9 DEF Claim, ClaimNothing, ClaimReplyLost
    <2>2. /\ BuriedJob(j).status = "dead_letter"
          /\ ClaimedJob(j, w).status = "processing"
      BY <1>1 DEF BuriedJob, ClaimedJob, JobRow
    <2> QED BY SMTT(150), <2>1, <2>2 DEF ClaimUpdate
  <1> QED BY <1>2, <1>3, <1>4, <1>5, <1>6, <1>7, <1>8, <1>9

LEMMA FinishStepFenced ==
    ASSUME AttemptInv, NEW w \in Workers,
           FinishWithoutRun(w) \/ FinishJobAndRun(w) \/ FinishReplyLost(w)
    PROVE  FencedFinishStep
  <1> SUFFICES ASSUME NEW j \in Jobs, job[j].status = "processing",
                      job'[j].status \in {"succeeded", "retryable"}
               PROVE  /\ worker[w].job = j
                      /\ worker[w].attempt = job[j].attempts
                      /\ worker'[w].job # j \/ worker'[w].pc = "fallback"
    BY SMTT(150) DEF FencedFinishStep
  <1>1. worker[w].job = j /\ job[j].owner = w
    <2>1. \A i \in Jobs \ {worker[w].job} : job'[i] = job[i]
      BY DEF FinishWithoutRun, FinishJobAndRun, FinishReplyLost, FinishUpdate,
             AttemptInv, TypeOK
    <2>2. worker[w].job = j
      BY <2>1
    <2>3. CASE UNCHANGED job
      BY <2>3
    <2> QED BY <2>2, <2>3
            DEF FinishWithoutRun, FinishJobAndRun, FinishReplyLost, FinishUpdate,
                OwnsLiveLease
  <1>2. worker[w].attempt = job[j].attempts
    <2>1. j # 0
      OBVIOUS
    <2> QED BY <1>1, <2>1 DEF AttemptInv, OwnerIsCurrent
  <1>3. worker'[w].job # j \/ worker'[w].pc = "fallback"
    <2>1. CASE FinishWithoutRun(w) \/ FinishJobAndRun(w)
      <3>1. worker'[w] = IdleWorker
        BY <2>1 DEF FinishWithoutRun, FinishJobAndRun, AttemptInv, TypeOK
      <3> QED BY <3>1 DEF IdleWorker
    <2>2. CASE FinishReplyLost(w)
      <3>1. worker' = [worker EXCEPT ![w] = [worker[w] EXCEPT !.pc = "fallback"]]
        BY <2>2 DEF FinishReplyLost, AttemptInv, TypeOK
      <3> QED BY <3>1 DEF AttemptInv, TypeOK, WorkerState
    <2> QED BY <2>1, <2>2
  <1> QED BY <1>1, <1>2, <1>3

\* The locked_by test of the finalisers is enough to keep every stale worker
\* from finishing a job that was reclaimed: ids need not carry the attempt.
THEOREM StaleWorkersFinishNothing == Spec => FencedFinish
  <1>1. AttemptInv /\ [Next]_vars => [FencedFinishStep]_vars
    <2> SUFFICES ASSUME AttemptInv, Next PROVE FencedFinishStep \/ UNCHANGED vars
      BY SMTT(150)
    <2>1. ASSUME UNCHANGED job PROVE FencedFinishStep
      BY SMTT(150), <2>1 DEF FencedFinishStep
    <2>2. ASSUME NEW w \in Workers,
                 \/ WorkerStep(w) \/ RenewLease(w) \/ RenewalFails(w)
                 \/ ClaimReplyLost(w) \/ InsertRunReplyLost(w)
                 \/ FinishReplyLost(w) \/ Crash(w)
          PROVE  FencedFinishStep
      BY <2>1, <2>2, QueueStepFenced, FinishStepFenced
         DEF WorkerStep, RenewalFails, Crash, ScanBlocked, ScanSucceeds, ScanFails,
             BeginFinish, FinishFails, FallbackAudit
    <2>3. CASE \/ \E s \in Schedulers, a \in Addresses : SchedulerSelect(s, a)
               \/ \E s \in Schedulers : SchedulerAborts(s)
               \/ \E a \in Addresses : AddressFallsDue(a) \/ SetAddressStatus(a)
      BY <2>1, <2>3 DEF SchedulerSelect, SchedulerAborts, AddressFallsDue,
                        SetAddressStatus
    <2> QED BY <2>2, <2>3, QueueStepFenced DEF Next
  <1> QED BY <1>1, AttemptsAreConsistent, PTL DEF Spec, FencedFinish

-----------------------------------------------------------------------------
(***************************************************************************)
(* The audit of scan runs agrees with the queue, whether or not replies    *)
(* are lost.                                                               *)
(*                                                                         *)
(* AuditInv is the inductive invariant: it says of every run which attempt *)
(* wrote it last and of every worker what its own run must look like, as   *)
(* long as it owns its job and after it was fenced off.                    *)
(***************************************************************************)

\* An attempt is claimed by one worker, and none is claimed ahead of the count.
AttemptsAreClaimedOnce ==
    \A w \in Workers :
        worker[w].job # 0 =>
           /\ job[worker[w].job].status # "deleted" =>
                 worker[w].attempt <= job[worker[w].job].attempts
           /\ \A v \in Workers \ {w} :
                 worker[v].job = worker[w].job => worker[v].attempt # worker[w].attempt

\* Runs exist for attempts that were made, and go with their job.
RunsOfAttempts ==
    \A j \in Jobs, n \in Attempts :
        /\ (run[j][n].status = "deleted") <=> (job[j].status = "deleted")
        /\ job[j].status # "deleted" /\ n > job[j].attempts =>
              run[j][n].status = "absent"

\* The run a claim would close is the open run of the current attempt; with
\* replies that arrive, every open run is.
OpenRuns ==
    \A j \in Jobs, n \in Attempts :
        run[j][n].status = "running" =>
           /\ job[j].lastRun = n =>
                 job[j].status = "processing" /\ job[j].attempts = n
           /\ job[j].status = "processing" /\ job[j].attempts = n =>
                 job[j].lastRun = n
           /\ ~LossyReplies => job[j].status = "processing" /\ job[j].attempts = n

\* A job is processing while it has an owner, and new before its first attempt.
OwnersHold ==
    \A j \in Jobs : /\ (job[j].status = "processing") <=> (job[j].owner # None)
                    /\ job[j].status = "absent" => job[j].attempts = 0

\* A worker that remembers its run owns the job and the run is open, or it was
\* fenced off and the run is closed; the run a worker does not remember was not
\* inserted, or the reply was lost.
RunOfWorker(w) ==
    LET j == worker[w].job  n == worker[w].attempt IN
        /\ worker[w].pc = "claimed" => ~worker[w].hasRun
        /\ worker[w].pc \in {"commit", "fallback"} => worker[w].hasRun
        /\ job[j].owner = w /\ worker[w].hasRun => run[j][n].status = "running"
        /\ job[j].owner = w /\ ~worker[w].hasRun =>
              \/ run[j][n].status = "absent"
              \/ /\ LossyReplies
                 /\ worker[w].pc = "finish"
                 /\ run[j][n].status = "running"
        /\ job[j].owner # w /\ worker[w].hasRun =>
              \/ run[j][n].status \in {"failed", "deleted"}
              \/ /\ LossyReplies
                 /\ worker[w].pc = "fallback"
                 /\ run[j][n].status \in GoodRunStatus
                 /\ job[j].status = "succeeded"
                 /\ job[j].attempts = n

RunsOfWorkers == \A w \in Workers : worker[w].job # 0 => RunOfWorker(w)

AuditInv ==
    /\ AttemptsAreClaimedOnce
    /\ RunsOfAttempts
    /\ OpenRuns
    /\ OwnersHold
    /\ RunsOfWorkers

LEMMA InitAuditInv == Init => AuditInv
  <1> SUFFICES ASSUME Init PROVE AuditInv
    OBVIOUS
  <1>1. /\ \A j \in Jobs : job[j] = NoJob
        /\ \A j \in Jobs, n \in Attempts : run[j][n] = NoRun
        /\ \A w \in Workers : worker[w].job = 0
    BY DEF Init, IdleWorker
  <1> QED BY <1>1
          DEF AuditInv, AttemptsAreClaimedOnce, RunsOfAttempts, OpenRuns, OwnersHold,
              RunsOfWorkers, NoJob, NoRun

-----------------------------------------------------------------------------
(* Steps that record nothing in the audit.                                 *)

\* A job that keeps its holder, its attempts and its last run, as far as the
\* audit is concerned.
SameForAudit(j) ==
    /\ job'[j].owner = job[j].owner
    /\ job'[j].attempts = job[j].attempts
    /\ job'[j].lastRun = job[j].lastRun
    /\ \/ job'[j].status = job[j].status
       \/ job[j].status \in WaitingStatus /\ job'[j].status \in WaitingStatus

\* A worker that goes on with its attempt without touching its run, or drops it.
GoesOnOrDrops(w) ==
    \/ worker'[w].job = 0
    \/ /\ worker'[w].job = worker[w].job
       /\ worker'[w].attempt = worker[w].attempt
       /\ worker'[w].hasRun = worker[w].hasRun
       /\ \/ worker'[w].pc = worker[w].pc
          \/ /\ worker[w].pc # "fallback"
             /\ worker'[w].pc # "claimed"
             /\ worker'[w].pc # "finish" => worker[w].hasRun

LEMMA MemoryInRange ==
    ASSUME AttemptInv, NEW w \in Workers, worker[w].job # 0
    PROVE  worker[w].job \in Jobs /\ worker[w].attempt \in Attempts
  BY SMTT(150) DEF AttemptInv, WorkerMemory

LEMMA NothingRecorded ==
    ASSUME AttemptInv, AuditInv,
           \A j \in Jobs, n \in Attempts : run'[j][n].status = run[j][n].status,
           \A j \in Jobs : SameForAudit(j),
           \A w \in Workers : GoesOnOrDrops(w)
    PROVE  AuditInv'
  <1>1. AttemptsAreClaimedOnce'
    <2> SUFFICES ASSUME NEW w \in Workers, worker'[w].job # 0
                 PROVE  /\ job'[worker'[w].job].status # "deleted" =>
                              worker'[w].attempt <= job'[worker'[w].job].attempts
                        /\ \A v \in Workers \ {w} :
                              worker'[v].job = worker'[w].job =>
                                 worker'[v].attempt # worker'[w].attempt
      BY DEF AttemptsAreClaimedOnce
    <2>1. \A v \in Workers : worker'[v].job # 0 =>
             /\ worker'[v].job = worker[v].job
             /\ worker'[v].attempt = worker[v].attempt
      BY DEF GoesOnOrDrops
    <2>2. worker[w].job \in Jobs
      BY <2>1, MemoryInRange
    <2> QED BY SMTT(150), <2>1, <2>2
            DEF AuditInv, AttemptsAreClaimedOnce, SameForAudit, WaitingStatus
  <1>2. RunsOfAttempts' /\ OpenRuns' /\ OwnersHold'
    BY SMTT(150) DEF AuditInv, RunsOfAttempts, OpenRuns, OwnersHold, SameForAudit,
                     WaitingStatus
  <1>3. RunsOfWorkers'
    <2> SUFFICES ASSUME NEW w \in Workers, worker'[w].job # 0
                 PROVE  RunOfWorker(w)'
      BY DEF RunsOfWorkers
    <2>1. /\ worker'[w].job = worker[w].job
          /\ worker'[w].attempt = worker[w].attempt
          /\ worker'[w].hasRun = worker[w].hasRun
      BY DEF GoesOnOrDrops
    <2>2. worker[w].job \in Jobs /\ worker[w].attempt \in Attempts
      BY <2>1, MemoryInRange
    <2>3. RunOfWorker(w) /\ SameForAudit(worker[w].job) /\ GoesOnOrDrops(w)
      BY <2>1, <2>2 DEF AuditInv, RunsOfWorkers
    <2> QED BY SMTT(150), <2>1, <2>2, <2>3
            DEF RunOfWorker, SameForAudit, GoesOnOrDrops, WaitingStatus
  <1> QED BY <1>1, <1>2, <1>3 DEF AuditInv

\* Schedulers that read or give up, operators, time, and the renewal task.
LEMMA QuietQueueStep ==
    ASSUME AttemptInv, AuditInv,
           \/ \E s \in Schedulers : \/ \E a \in Addresses : SchedulerSelect(s, a)
                                    \/ SchedulerAborts(s)
                                    \/ SchedulerEnqueue(s) /\ UNCHANGED job
           \/ \E a \in Addresses : AddressFallsDue(a) \/ SetAddressStatus(a)
           \/ \E j \in Jobs : BackoffElapses(j) \/ LeaseTicks(j)
           \/ \E w \in Workers : RenewLease(w)
           \/ UNCHANGED vars
    PROVE  /\ \A j \in Jobs, n \in Attempts : run'[j][n].status = run[j][n].status
           /\ \A j \in Jobs : SameForAudit(j)
           /\ worker' = worker
  <1>1. UNCHANGED <<run, worker>>
    BY DEF SchedulerSelect, SchedulerAborts, SchedulerEnqueue, AddressFallsDue,
           SetAddressStatus, BackoffElapses, LeaseTicks, RenewLease, vars
  <1>2. CASE UNCHANGED job
    BY <1>1, <1>2 DEF SameForAudit
  <1>3. ASSUME NEW i \in Jobs,
               \/ job' = [job EXCEPT ![i].due = TRUE]
               \/ job' = [job EXCEPT ![i].lease = @ - 1]
               \/ job' = [job EXCEPT ![i].lease = LeaseTTL]
        PROVE  \A j \in Jobs : SameForAudit(j)
    <2>1. job[i] \in JobRow /\ job \in [Jobs -> JobRow]
      BY DEF AttemptInv, TypeOK
    <2>2. PICK row : /\ job' = [job EXCEPT ![i] = row]
                     /\ row \in {[job[i] EXCEPT !.due = TRUE],
                                 [job[i] EXCEPT !.lease = job[i].lease - 1],
                                 [job[i] EXCEPT !.lease = LeaseTTL]}
      BY <1>3, <2>1
    <2>3. /\ row.status = job[i].status /\ row.owner = job[i].owner
          /\ row.attempts = job[i].attempts /\ row.lastRun = job[i].lastRun
      BY <2>1, <2>2 DEF JobRow
    <2> QED BY <2>1, <2>2, <2>3 DEF SameForAudit
  <1>4. ASSUME NEW w \in Workers, RenewLease(w) PROVE worker[w].job \in Jobs
    BY <1>4, MemoryInRange DEF RenewLease, AttemptInv, WorkerMemory
  <1> QED BY <1>1, <1>2, <1>3, <1>4
          DEF SchedulerSelect, SchedulerAborts, SchedulerEnqueue, AddressFallsDue,
              SetAddressStatus, BackoffElapses, LeaseTicks, RenewLease, vars

\* A worker that moves on without a write to the queue or to its run.
LEMMA QuietWorkerStep ==
    ASSUME AttemptInv, AuditInv, NEW w \in Workers,
           \/ RenewalFails(w) \/ ScanBlocked(w) \/ ScanSucceeds(w) \/ ScanFails(w)
           \/ BeginFinish(w) \/ FinishFails(w) \/ Crash(w)
           \/ FinishWithoutRun(w) /\ UNCHANGED job
           \/ FallbackAudit(w) /\ UNCHANGED run
    PROVE  /\ UNCHANGED <<job, run>>
           /\ \A v \in Workers : GoesOnOrDrops(v)
  <1> DEFINE m == worker[w]
  <1>1. UNCHANGED <<job, run>>
    BY DEF RenewalFails, ScanBlocked, ScanSucceeds, ScanFails, BeginFinish, FinishFails,
           Crash, FinishWithoutRun, FallbackAudit
  <1>2. m \in WorkerState /\ worker \in [Workers -> WorkerState]
    BY DEF AttemptInv, TypeOK
  <1>3. \E x : /\ worker' = [worker EXCEPT ![w] = x]
               /\ \/ x.job = 0
                  \/ /\ x.job = m.job /\ x.attempt = m.attempt /\ x.hasRun = m.hasRun
                     /\ \/ x.pc = m.pc
                        \/ /\ m.pc # "fallback" /\ x.pc # "claimed"
                           /\ x.pc # "finish" => m.hasRun
    <2>1. CASE RenewalFails(w)
      <3> WITNESS [m EXCEPT !.lost = TRUE]
      <3> QED BY <1>2, <2>1 DEF RenewalFails, WorkerState
    <2>2. CASE ScanBlocked(w) \/ ScanFails(w)
      <3> WITNESS [m EXCEPT !.pc = "finish", !.result = "error"]
      <3> QED BY <1>2, <2>2 DEF ScanBlocked, ScanFails, WorkerState
    <2>3. CASE ScanSucceeds(w)
      <3>1. PICK r \in GoodRunStatus :
              worker' = [worker EXCEPT ![w].pc = "finish", ![w].result = r]
        BY <2>3 DEF ScanSucceeds
      <3> WITNESS [m EXCEPT !.pc = "finish", !.result = r]
      <3> QED BY <1>2, <2>3, <3>1 DEF ScanSucceeds, WorkerState
    <2>4. CASE BeginFinish(w)
      <3> DEFINE live == (job[m.job].lease > 0)
                 x == [m EXCEPT !.pc = "commit", !.nowLive = live]
      <3>1. worker' = [worker EXCEPT ![w] = x] /\ m.pc = "finish" /\ m.hasRun
        BY ZenonT(150), <1>2, <2>4 DEF BeginFinish
      <3>2. /\ x.pc = "commit" /\ x.job = m.job /\ x.attempt = m.attempt
            /\ x.hasRun = m.hasRun
        <4> HIDE DEF live
        <4> QED BY <1>2 DEF WorkerState
      <3> QED BY <3>1, <3>2
    <2>5. CASE FinishFails(w)
      <3> WITNESS [m EXCEPT !.pc = "fallback"]
      <3> QED BY <1>2, <2>5 DEF FinishFails, WorkerState
    <2>6. CASE Crash(w)
      <3> WITNESS [IdleWorker EXCEPT !.pc = "dead"]
      <3> QED BY <2>6 DEF Crash, IdleWorker
    <2>7. CASE FinishWithoutRun(w) \/ FallbackAudit(w)
      <3> WITNESS IdleWorker
      <3> QED BY <2>7 DEF FinishWithoutRun, FallbackAudit, IdleWorker
    <2> QED BY <2>1, <2>2, <2>3, <2>4, <2>5, <2>6, <2>7
  <1>4. \A v \in Workers : GoesOnOrDrops(v)
    BY <1>2, <1>3 DEF GoesOnOrDrops
  <1> QED BY <1>1, <1>4

LEMMA QuietStepAudit ==
    ASSUME AttemptInv, AuditInv,
           \A j \in Jobs, n \in Attempts : run'[j][n].status = run[j][n].status,
           \A j \in Jobs : SameForAudit(j),
           worker' = worker
    PROVE  AuditInv'
  BY NothingRecorded DEF GoesOnOrDrops

-----------------------------------------------------------------------------
(* New jobs.                                                               *)

\* A row is inserted for a new job and nothing else changes.
Submitted(j) ==
    /\ job[j].status = "absent"
    /\ job'[j].status = "pending"
    /\ job'[j].owner = None
    /\ job'[j].attempts = 0
    /\ job'[j].lastRun = 0
    /\ \A i \in Jobs \ {j} : job'[i] = job[i]

LEMMA SubmittedAudit ==
    ASSUME AttemptInv, AuditInv, NEW j \in Jobs, Submitted(j),
           \A i \in Jobs, n \in Attempts : run'[i][n].status = run[i][n].status,
           worker' = worker
    PROVE  AuditInv'
  <1>1. job[j].attempts = 0
    BY DEF Submitted, AuditInv, OwnersHold
  <1>2. \A n \in Attempts : n > 0 /\ run[j][n].status = "absent"
    <2>1. \A n \in Attempts : n > 0
      BY DEF Attempts
    <2> QED BY <1>1, <2>1 DEF Submitted, AuditInv, RunsOfAttempts
  <1>3. \A w \in Workers : worker[w].job # j
    <2> SUFFICES ASSUME NEW w \in Workers, worker[w].job = j PROVE FALSE
      OBVIOUS
    <2>1. j # 0
      BY DEF Jobs
    <2>2. worker[w].attempt \in Attempts /\ worker[w].attempt <= 0
      BY <1>1, <2>1, MemoryInRange DEF AuditInv, AttemptsAreClaimedOnce, Submitted
    <2> QED BY <2>2 DEF Attempts
  <1>4. AttemptsAreClaimedOnce'
    BY SMTT(150), <1>3, MemoryInRange DEF AuditInv, AttemptsAreClaimedOnce, Submitted
  <1>5. RunsOfAttempts' /\ OpenRuns' /\ OwnersHold'
    BY SMTT(150), <1>2
       DEF AuditInv, RunsOfAttempts, OpenRuns, OwnersHold, Submitted
  <1>6. RunsOfWorkers'
    <2> SUFFICES ASSUME NEW w \in Workers, worker[w].job # 0 PROVE RunOfWorker(w)'
      BY DEF RunsOfWorkers
    <2>1. job'[worker[w].job] = job[worker[w].job]
      BY <1>3, MemoryInRange DEF Submitted
    <2>2. RunOfWorker(w) /\ worker[w].job \in Jobs /\ worker[w].attempt \in Attempts
      BY MemoryInRange DEF AuditInv, RunsOfWorkers
    <2> QED BY <2>1, <2>2 DEF RunOfWorker
  <1> QED BY <1>4, <1>5, <1>6 DEF AuditInv

\* The two statements that insert a job: the scheduler's and the audit retry's.
LEMMA SubmitFacts ==
    ASSUME AttemptInv,
           \/ \E s \in Schedulers : SchedulerEnqueue(s) /\ ~UNCHANGED job
           \/ \E i \in Jobs, n \in Attempts : RetryRun(i, n)
    PROVE  /\ \A j \in Jobs, n \in Attempts : run'[j][n].status = run[j][n].status
           /\ worker' = worker
           /\ \/ \A j \in Jobs : SameForAudit(j)
              \/ \E j \in Jobs : Submitted(j)
  <1>1. ASSUME NEW j \in Jobs, NEW a, Fresh(j), job' = [job EXCEPT ![j] = PendingJob(a)]
        PROVE  Submitted(j)
    BY <1>1 DEF Fresh, Submitted, PendingJob, NoJob, AttemptInv, TypeOK
  <1>2. ASSUME NEW s \in Schedulers, SchedulerEnqueue(s), ~UNCHANGED job
        PROVE  UNCHANGED <<run, worker>> /\ \E j \in Jobs : Submitted(j)
    BY <1>1, <1>2 DEF SchedulerEnqueue
  <1>3. ASSUME NEW i \in Jobs, NEW n \in Attempts, RetryRun(i, n)
        PROVE  /\ \A j \in Jobs, k \in Attempts : run'[j][k].status = run[j][k].status
               /\ worker' = worker
               /\ \/ \A j \in Jobs : SameForAudit(j)
                  \/ \E j \in Jobs : Submitted(j)
    <2>1. PICK j \in Jobs :
            /\ \/ /\ job[j].status \in WaitingStatus
                  /\ job' = [job EXCEPT ![j].status = "pending", ![j].due = TRUE]
               \/ Fresh(j) /\ job' = [job EXCEPT ![j] = PendingJob(job[i].addr)]
            /\ run' = [run EXCEPT ![i][n].retryTask = j]
      BY <1>3 DEF RetryRun
    <2>2. \A k \in Jobs, m \in Attempts : run'[k][m].status = run[k][m].status
      <3>1. run[i][n] \in RunRow
        BY DEF AttemptInv, TypeOK
      <3>2. [run[i][n] EXCEPT !.retryTask = j].status = run[i][n].status
        BY <3>1 DEF RunRow
      <3>3. run' = [run EXCEPT ![i] = [run[i] EXCEPT ![n] =
                      [run[i][n] EXCEPT !.retryTask = j]]]
        BY <2>1 DEF AttemptInv, TypeOK
      <3> QED BY <3>2, <3>3 DEF AttemptInv, TypeOK
    <2>3. CASE /\ job[j].status \in WaitingStatus
               /\ job' = [job EXCEPT ![j].status = "pending", ![j].due = TRUE]
      <3>1. job[j] \in JobRow /\ job \in [Jobs -> JobRow]
        BY DEF AttemptInv, TypeOK
      <3>2. job' = [job EXCEPT ![j] = [job[j] EXCEPT !.status = "pending", !.due = TRUE]]
        BY <2>3, <3>1
      <3>3. \A k \in Jobs : SameForAudit(k)
        BY SMTT(150), <2>3, <3>1, <3>2 DEF SameForAudit, JobRow, WaitingStatus
      <3> QED BY <1>3, <2>2, <3>3 DEF RetryRun
    <2> QED BY <1>1, <1>3, <2>1, <2>2, <2>3 DEF RetryRun
  <1> QED BY <1>2, <1>3

-----------------------------------------------------------------------------
(* Deleted addresses.                                                      *)

\* These jobs are removed with their runs, and nothing else changes.
Removed(js) ==
    /\ \A j \in js : /\ job'[j].status = "deleted"
                     /\ job'[j].owner = None
                     /\ job'[j].attempts = 0
                     /\ \A n \in Attempts : run'[j][n].status = "deleted"
    /\ \A j \in Jobs \ js : job'[j] = job[j] /\ run'[j] = run[j]
    /\ worker' = worker

LEMMA DeleteFacts ==
    ASSUME AttemptInv, NEW a \in Addresses, DeleteAddress(a)
    PROVE  \E js \in SUBSET Jobs : Removed(js)
  <1> WITNESS {j \in Jobs : job[j].addr = a} \in SUBSET Jobs
  <1> QED BY DEF DeleteAddress, Removed, NoJob, NoRun

LEMMA RemovedAudit ==
    ASSUME AttemptInv, AuditInv, NEW js \in SUBSET Jobs, Removed(js)
    PROVE  AuditInv'
  <1>1. AttemptsAreClaimedOnce'
    BY SMTT(150), MemoryInRange DEF AuditInv, AttemptsAreClaimedOnce, Removed
  <1>2. RunsOfAttempts' /\ OpenRuns' /\ OwnersHold'
    BY SMTT(150) DEF AuditInv, RunsOfAttempts, OpenRuns, OwnersHold, Removed
  <1>3. RunsOfWorkers'
    <2> SUFFICES ASSUME NEW w \in Workers, worker[w].job # 0 PROVE RunOfWorker(w)'
      BY DEF RunsOfWorkers, Removed
    <2>1. RunOfWorker(w) /\ worker[w].job \in Jobs /\ worker[w].attempt \in Attempts
      BY MemoryInRange DEF AuditInv, RunsOfWorkers
    <2>2. w # None
      BY ScanJobsAssumption
    <2> QED BY SMTT(150), <2>1, <2>2 DEF RunOfWorker, Removed
  <1> QED BY <1>1, <1>2, <1>3 DEF AuditInv

-----------------------------------------------------------------------------
(* Claims.                                                                 *)

\* The jobs of granted start another attempt for w, those of buried are given
\* up, and the run that each of them points at is closed.
Dispatched(w, granted, buried) ==
    /\ \A j \in granted : /\ j \notin buried
                          /\ job[j].status \in ActiveStatus
                          /\ job[j].attempts < MaxAttempts
                          /\ job'[j].status = "processing"
                          /\ job'[j].owner = w
                          /\ job'[j].attempts = job[j].attempts + 1
    /\ \A j \in buried : /\ job[j].status = "processing"
                         /\ job[j].attempts = MaxAttempts
                         /\ job'[j].status = "dead_letter"
                         /\ job'[j].owner = None
                         /\ job'[j].attempts = job[j].attempts
    /\ \A j \in granted \cup buried : job'[j].lastRun = job[j].lastRun
    /\ \A j \in Jobs \ (granted \cup buried) : job'[j] = job[j]
    /\ \A j \in Jobs, n \in Attempts :
          run'[j][n].status =
             IF /\ j \in granted \cup buried
                /\ job[j].lastRun = n
                /\ run[j][n].status = "running"
             THEN "failed" ELSE run[j][n].status

LEMMA ClaimFacts ==
    ASSUME AttemptInv, NEW w \in Workers, NEW claimed \in SUBSET DueJobs,
           ClaimUpdate(w, claimed)
    PROVE  /\ claimed \in SUBSET Jobs
           /\ DeadLettered \in SUBSET Jobs
           /\ Dispatched(w, claimed, DeadLettered)
  <1>1. \A j \in Jobs : job[j] \in JobRow
    BY DEF AttemptInv, TypeOK
  <1>2. \A j \in DueJobs : /\ j \in Jobs
                           /\ job[j].status \in ActiveStatus
                           /\ job[j].attempts < MaxAttempts
    BY DEF DueJobs, Reclaimable, ExpiredJobs, AttemptInv, AttemptBudget, ActiveStatus
  <1>3. \A j \in DeadLettered : /\ j \in Jobs
                                /\ job[j].status = "processing"
                                /\ job[j].attempts = MaxAttempts
    BY SMTT(150), <1>1, ScanJobsAssumption DEF DeadLettered, ExpiredJobs, JobRow
  <1>4. \A j \in claimed : j \notin DeadLettered
    BY SMTT(150), <1>1, <1>2, <1>3, ScanJobsAssumption DEF JobRow
  <1>5. \A j \in Jobs : job'[j] = IF j \in DeadLettered THEN BuriedJob(j)
                                  ELSE IF j \in claimed THEN ClaimedJob(j, w)
                                  ELSE job[j]
    BY DEF ClaimUpdate
  <1>6. \A j \in claimed : /\ job'[j].status = "processing"
                           /\ job'[j].owner = w
                           /\ job'[j].attempts = job[j].attempts + 1
                           /\ job'[j].lastRun = job[j].lastRun
    <2> SUFFICES ASSUME NEW j \in claimed
                 PROVE  /\ job'[j].status = "processing"
                        /\ job'[j].owner = w
                        /\ job'[j].attempts = job[j].attempts + 1
                        /\ job'[j].lastRun = job[j].lastRun
      OBVIOUS
    <2>1. job[j] \in JobRow /\ job'[j] = ClaimedJob(j, w)
      BY <1>1, <1>2, <1>4, <1>5
    <2> QED BY <2>1 DEF ClaimedJob, JobRow
  <1>7. \A j \in DeadLettered : /\ job'[j].status = "dead_letter"
                                /\ job'[j].owner = None
                                /\ job'[j].attempts = job[j].attempts
                                /\ job'[j].lastRun = job[j].lastRun
    <2> SUFFICES ASSUME NEW j \in DeadLettered
                 PROVE  /\ job'[j].status = "dead_letter"
                        /\ job'[j].owner = None
                        /\ job'[j].attempts = job[j].attempts
                        /\ job'[j].lastRun = job[j].lastRun
      OBVIOUS
    <2>1. job[j] \in JobRow /\ job'[j] = BuriedJob(j)
      BY <1>1, <1>3, <1>5
    <2> QED BY <2>1 DEF BuriedJob, JobRow
  <1>8. \A j \in Jobs, n \in Attempts :
          run'[j][n].status =
             IF /\ j \in claimed \cup DeadLettered
                /\ job[j].lastRun = n
                /\ run[j][n].status = "running"
             THEN "failed" ELSE run[j][n].status
    <2> SUFFICES ASSUME NEW j \in Jobs, NEW n \in Attempts
                 PROVE  run'[j][n].status =
                          IF /\ j \in claimed \cup DeadLettered
                             /\ job[j].lastRun = n
                             /\ run[j][n].status = "running"
                          THEN "failed" ELSE run[j][n].status
      OBVIOUS
    <2>1. run[j][n] \in RunRow
      BY DEF AttemptInv, TypeOK
    <2>2. [run[j][n] EXCEPT !.status = "failed"].status = "failed"
      BY <2>1 DEF RunRow
    <2> QED BY <2>2 DEF ClaimUpdate, CloseRunsOf
  <1> QED BY <1>2, <1>3, <1>4, <1>5, <1>6, <1>7, <1>8 DEF Dispatched

\* The worker of a claim learns of its one job, or of none.
LearnsOf(w, granted) ==
    /\ worker[w].job = 0
    /\ \A v \in Workers \ {w} : worker'[v] = worker[v]
    /\ \/ worker'[w] = worker[w]
       \/ \E j \in granted : /\ worker'[w].job = j
                              /\ worker'[w].attempt = job[j].attempts + 1
                              /\ worker'[w].pc = "claimed"
                              /\ worker'[w].hasRun = FALSE

LEMMA ClaimMemory ==
    ASSUME AttemptInv, NEW w \in Workers,
           Claim(w) \/ ClaimNothing(w) \/ ClaimReplyLost(w)
    PROVE  \E granted, buried \in SUBSET Jobs :
              Dispatched(w, granted, buried) /\ LearnsOf(w, granted)
  <1>1. worker[w].job = 0 /\ worker \in [Workers -> WorkerState]
    BY DEF Claim, ClaimNothing, ClaimReplyLost, AttemptInv, WorkerMemory, TypeOK
  <1>2. CASE Claim(w)
    <2>1. PICK j \in DueJobs :
            /\ ClaimUpdate(w, {j})
            /\ worker' = [worker EXCEPT ![w] =
                 [IdleWorker EXCEPT !.pc = "claimed", !.job = j,
                                    !.attempt = job[j].attempts + 1]]
      BY <1>2 DEF Claim
    <2>2. LearnsOf(w, {j})
      BY <1>1, <2>1 DEF LearnsOf, IdleWorker
    <2> QED BY <2>1, <2>2, ClaimFacts
  <1>3. CASE ClaimNothing(w) \/ ClaimReplyLost(w)
    <2>1. PICK claimed \in SUBSET DueJobs : ClaimUpdate(w, claimed)
      BY <1>3 DEF ClaimNothing, ClaimReplyLost
    <2>2. LearnsOf(w, claimed)
      BY <1>1, <1>3 DEF LearnsOf, ClaimNothing, ClaimReplyLost
    <2> QED BY <2>1, <2>2, ClaimFacts
  <1> QED BY <1>2, <1>3

LEMMA DispatchedAudit ==
    ASSUME AttemptInv, AuditInv, NEW w \in Workers,
           NEW granted \in SUBSET Jobs, NEW buried \in SUBSET Jobs,
           Dispatched(w, granted, buried), LearnsOf(w, granted)
    PROVE  AuditInv'
  <1>1. \A j \in Jobs : /\ job[j].attempts \in Nat
                        /\ job'[j].attempts \in {job[j].attempts, job[j].attempts + 1}
                        /\ (job'[j].status = "deleted") <=> (job[j].status = "deleted")
    <2>1. \A j \in Jobs : job[j].attempts \in Nat
      BY DEF AttemptInv, TypeOK, JobRow
    <2> QED BY SMTT(150), <2>1 DEF Dispatched, ActiveStatus, WaitingStatus
  <1>2. \A n \in Attempts : n \in Nat
    BY DEF Attempts
  <1>3. \A j \in Jobs : j # 0
    BY DEF Jobs
  <1>4. AttemptsAreClaimedOnce'
    <2> SUFFICES ASSUME NEW u \in Workers, worker'[u].job # 0
                 PROVE  /\ job'[worker'[u].job].status # "deleted" =>
                              worker'[u].attempt <= job'[worker'[u].job].attempts
                        /\ \A v \in Workers \ {u} :
                              worker'[v].job = worker'[u].job =>
                                 worker'[v].attempt # worker'[u].attempt
      BY DEF AttemptsAreClaimedOnce
    <2>1. CASE worker'[u] = worker[u] /\ worker'[w] = worker[w]
      <3>1. \A v \in Workers : worker'[v] = worker[v]
        BY <2>1 DEF LearnsOf
      <3>2. worker[u].job \in Jobs /\ worker[u].attempt \in Attempts
        BY <2>1, MemoryInRange
      <3> QED BY SMTT(150), <1>1, <1>2, <2>1, <3>1, <3>2
              DEF AuditInv, AttemptsAreClaimedOnce
    <2>2. ASSUME NEW j \in granted, worker'[w].job = j,
                 worker'[w].attempt = job[j].attempts + 1
          PROVE  /\ job'[worker'[u].job].status # "deleted" =>
                       worker'[u].attempt <= job'[worker'[u].job].attempts
                 /\ \A v \in Workers \ {u} :
                       worker'[v].job = worker'[u].job =>
                          worker'[v].attempt # worker'[u].attempt
      <3>1. \A v \in Workers \ {w} : worker[v].job = j =>
               worker[v].attempt \in Nat /\ worker[v].attempt <= job[j].attempts
        <4> SUFFICES ASSUME NEW v \in Workers \ {w}, worker[v].job = j
                     PROVE  worker[v].attempt \in Nat /\ worker[v].attempt <= job[j].attempts
          OBVIOUS
        <4>1. worker[v].attempt \in Attempts
          BY <1>3, MemoryInRange
        <4>2. job[j].status # "deleted"
          BY DEF Dispatched, ActiveStatus, WaitingStatus
        <4> QED BY <1>2, <1>3, <4>1, <4>2 DEF AuditInv, AttemptsAreClaimedOnce
      <3>2. \A v \in Workers \ {w} : worker'[v] = worker[v]
        BY DEF LearnsOf
      <3>3. CASE u = w
        BY SMTT(150), <1>1, <2>2, <3>1, <3>2, <3>3 DEF Dispatched
      <3>4. CASE u # w
        <4>1. worker[u].job \in Jobs /\ worker[u].attempt \in Attempts
          BY <3>2, <3>4, MemoryInRange
        <4> QED BY SMTT(150), <1>1, <1>2, <2>2, <3>1, <3>2, <3>4, <4>1
                DEF AuditInv, AttemptsAreClaimedOnce
      <3> QED BY <3>3, <3>4
    <2> QED BY <2>1, <2>2 DEF LearnsOf
  <1>5. RunsOfAttempts'
    BY SMTT(150), <1>1, <1>2 DEF AuditInv, RunsOfAttempts, Dispatched
  <1>6. OpenRuns'
    <2> SUFFICES ASSUME NEW j \in Jobs, NEW n \in Attempts, run'[j][n].status = "running"
                 PROVE  /\ job'[j].lastRun = n =>
                              job'[j].status = "processing" /\ job'[j].attempts = n
                        /\ job'[j].status = "processing" /\ job'[j].attempts = n =>
                              job'[j].lastRun = n
                        /\ ~LossyReplies =>
                              job'[j].status = "processing" /\ job'[j].attempts = n
      BY DEF OpenRuns
    <2>1. /\ run[j][n].status = "running"
          /\ j \in granted \cup buried => job[j].lastRun # n
      BY DEF Dispatched
    <2>2. job[j].attempts + 1 = n => job[j].status = "deleted"
      BY <1>1, <1>2, <2>1 DEF AuditInv, RunsOfAttempts
    <2> QED BY SMTT(150), <2>1, <2>2
            DEF AuditInv, OpenRuns, Dispatched, ActiveStatus, WaitingStatus
  <1>7. OwnersHold'
    BY SMTT(150), ScanJobsAssumption DEF AuditInv, OwnersHold, Dispatched
  <1>8. RunsOfWorkers'
    <2> SUFFICES ASSUME NEW v \in Workers, worker'[v].job # 0 PROVE RunOfWorker(v)'
      BY DEF RunsOfWorkers
    <2>1. v # None /\ w # None
      BY ScanJobsAssumption
    <2>2. CASE v # w \/ worker'[v] = worker[v]
      <3>1. worker'[v] = worker[v] /\ v # w
        BY <2>2 DEF LearnsOf
      <3>2. RunOfWorker(v) /\ worker[v].job \in Jobs /\ worker[v].attempt \in Attempts
        BY <3>1, MemoryInRange DEF AuditInv, RunsOfWorkers
      <3> DEFINE k == worker[v].job  n == worker[v].attempt
      <3>3. CASE k \notin granted \cup buried
        BY SMTT(150), <3>1, <3>2, <3>3 DEF RunOfWorker, Dispatched
      <3>4. CASE k \in granted \cup buried
        <4>1. job'[k].owner # v /\ job[k].status # "succeeded"
          BY <2>1, <3>1, <3>4 DEF Dispatched, ActiveStatus, WaitingStatus
        <4>2. CASE job[k].owner = v
          <5>1. /\ job[k].status = "processing"
                /\ job[k].attempts = n
            BY <2>1, <3>2, <4>2, <3>1 DEF AuditInv, OwnersHold, AttemptInv, OwnerIsCurrent
          <5>2. run[k][n].status = "running" => job[k].lastRun = n
            BY <3>2, <5>1 DEF AuditInv, OpenRuns
          <5> QED BY SMTT(150), <3>1, <3>2, <3>4, <4>1, <4>2, <5>2
                  DEF RunOfWorker, Dispatched
        <4>3. CASE job[k].owner # v
          BY SMTT(150), <3>1, <3>2, <3>4, <4>1, <4>3 DEF RunOfWorker, Dispatched
        <4> QED BY <4>2, <4>3
      <3> QED BY <3>3, <3>4
    <2>3. ASSUME NEW j \in granted, v = w, worker'[w].job = j,
                 worker'[w].attempt = job[j].attempts + 1,
                 worker'[w].pc = "claimed", worker'[w].hasRun = FALSE
          PROVE  RunOfWorker(v)'
      <3>1. job[j].attempts + 1 \in Attempts
        BY <1>1, ScanJobsAssumption DEF Dispatched, Attempts
      <3>2. run[j][job[j].attempts + 1].status = "absent"
        BY <1>1, <3>1 DEF AuditInv, RunsOfAttempts, Dispatched, ActiveStatus, WaitingStatus
      <3> QED BY SMTT(150), <2>3, <3>1, <3>2 DEF RunOfWorker, Dispatched
    <2> QED BY <2>2, <2>3 DEF LearnsOf
  <1> QED BY <1>4, <1>5, <1>6, <1>7, <1>8 DEF AuditInv

-----------------------------------------------------------------------------
(* The worker's own run: inserted, finished, or marked by the fallback.    *)

\* The job of a worker about to write, its attempt, and what the fence says.
LEMMA OwnerFacts ==
    ASSUME AttemptInv, AuditInv, NEW w \in Workers,
           worker[w].pc \notin {"idle", "dead"}
    PROVE  /\ worker[w].job \in Jobs
           /\ worker[w].job # 0
           /\ worker[w].attempt \in Attempts
           /\ RunOfWorker(w)
           /\ \A v \in Workers \ {w} :
                 worker[v].job = worker[w].job => worker[v].attempt # worker[w].attempt
           /\ job[worker[w].job].status # "deleted" =>
                 worker[w].attempt <= job[worker[w].job].attempts
           /\ job[worker[w].job].owner = w =>
                 /\ job[worker[w].job].status = "processing"
                 /\ job[worker[w].job].attempts = worker[w].attempt
  <1>1. worker[w].job \in Jobs /\ worker[w].attempt \in Attempts
    BY DEF AttemptInv, WorkerMemory
  <1>2. worker[w].job # 0
    BY <1>1 DEF Jobs
  <1>3. w # None
    BY ScanJobsAssumption
  <1> QED BY <1>1, <1>2, <1>3
          DEF AuditInv, AttemptsAreClaimedOnce, RunsOfWorkers, OwnersHold, AttemptInv,
              OwnerIsCurrent

\* Only one cell of the audit is written, and only one job.
OnlyWrites(j, n, status) ==
    /\ run'[j][n].status = status
    /\ \A i \in Jobs, k \in Attempts : i # j \/ k # n => run'[i][k] = run[i][k]
    /\ \A i \in Jobs \ {j} : job'[i] = job[i]

\* A worker keeps its attempt, in this state of it, or forgets it.
KeepsOrForgets(w, pc, hasRun) ==
    /\ \A v \in Workers \ {w} : worker'[v] = worker[v]
    /\ \/ worker'[w].job = 0
       \/ /\ worker'[w].job = worker[w].job
          /\ worker'[w].attempt = worker[w].attempt
          /\ worker'[w].pc = pc
          /\ worker'[w].hasRun = hasRun

\* What one worker writes of its own attempt does not touch the others'.
LEMMA OtherWorkers ==
    ASSUME AttemptInv, AuditInv, NEW w \in Workers, NEW s, NEW pc, NEW hasRun,
           worker[w].pc \notin {"idle", "dead"},
           OnlyWrites(worker[w].job, worker[w].attempt, s),
           KeepsOrForgets(w, pc, hasRun),
           job'[worker[w].job].attempts = job[worker[w].job].attempts,
           (job'[worker[w].job].status = "deleted") <=> (job[worker[w].job].status = "deleted"),
           \/ job'[worker[w].job] = job[worker[w].job]
           \/ /\ job[worker[w].job].owner = w
              /\ job'[worker[w].job].owner \in {w, None}
    PROVE  /\ AttemptsAreClaimedOnce'
           /\ \A v \in Workers \ {w} : worker'[v].job # 0 => RunOfWorker(v)'
  <1> DEFINE j == worker[w].job  n == worker[w].attempt
  <1>1. /\ j \in Jobs /\ n \in Attempts
        /\ job[j].owner = w => job[j].status = "processing"
        /\ \A v \in Workers \ {w} : worker[v].job = j => worker[v].attempt # n
    BY OwnerFacts
  <1>2. AttemptsAreClaimedOnce'
    <2> SUFFICES ASSUME NEW u \in Workers, worker'[u].job # 0
                 PROVE  /\ job'[worker'[u].job].status # "deleted" =>
                              worker'[u].attempt <= job'[worker'[u].job].attempts
                        /\ \A v \in Workers \ {u} :
                              worker'[v].job = worker'[u].job =>
                                 worker'[v].attempt # worker'[u].attempt
      BY DEF AttemptsAreClaimedOnce
    <2>1. \A v \in Workers : worker'[v].job # 0 =>
             worker'[v].job = worker[v].job /\ worker'[v].attempt = worker[v].attempt
      BY DEF KeepsOrForgets
    <2>2. worker[u].job \in Jobs
      BY <2>1, MemoryInRange
    <2> QED BY SMTT(150), <2>1, <2>2 DEF AuditInv, AttemptsAreClaimedOnce, OnlyWrites
  <1>3. ASSUME NEW v \in Workers \ {w}, worker'[v].job # 0 PROVE RunOfWorker(v)'
    <2>1. worker'[v] = worker[v] /\ v # None
      BY <1>3, ScanJobsAssumption DEF KeepsOrForgets
    <2>2. RunOfWorker(v) /\ worker[v].job \in Jobs /\ worker[v].attempt \in Attempts
      BY <1>3, <2>1, MemoryInRange DEF AuditInv, RunsOfWorkers
    <2>3. run'[worker[v].job][worker[v].attempt] = run[worker[v].job][worker[v].attempt]
      BY <1>1, <2>2 DEF OnlyWrites
    <2>4. CASE job'[worker[v].job] = job[worker[v].job]
      BY SMTT(150), <2>1, <2>2, <2>3, <2>4 DEF RunOfWorker
    <2>5. CASE /\ worker[v].job = j
               /\ job[j].owner = w
               /\ job'[j].owner \in {w, None}
      <3>1. job[j].owner # v /\ job'[j].owner # v /\ job[j].status # "succeeded"
        BY <1>1, <1>3, <2>1, <2>5
      <3> QED BY SMTT(150), <2>1, <2>2, <2>3, <2>5, <3>1 DEF RunOfWorker
    <2> QED BY <2>2, <2>4, <2>5 DEF OnlyWrites
  <1> QED BY <1>2, <1>3

LEMMA InsertFacts ==
    ASSUME AttemptInv, AuditInv, NEW w \in Workers,
           StartScan(w) \/ InsertRunReplyLost(w)
    PROVE  LET j == worker[w].job  n == worker[w].attempt IN
           /\ worker[w].pc = "claimed"
           /\ job[j].owner = w
           /\ run[j][n].status = "absent"
           /\ job'[j].status = job[j].status
           /\ job'[j].owner = job[j].owner
           /\ job'[j].attempts = job[j].attempts
           /\ job'[j].lastRun = n
           /\ OnlyWrites(j, n, "running")
           /\ \/ KeepsOrForgets(w, "scanning", TRUE)
              \/ KeepsOrForgets(w, "finish", TRUE)
              \/ LossyReplies /\ KeepsOrForgets(w, "finish", FALSE)
  <1> DEFINE j == worker[w].job  n == worker[w].attempt
  <1>1. /\ worker[w].pc = "claimed"
        /\ InsertRun(w)
    BY DEF StartScan, InsertRunReplyLost
  <1>2. j \in Jobs /\ n \in Attempts /\ RunOfWorker(w)
    BY <1>1, OwnerFacts
  <1>3. job[j].owner = w /\ run[j][n].status = "absent"
    BY <1>1, <1>2 DEF InsertRun, OwnsLiveLease, RunOfWorker
  <1>4. /\ job'[j].status = job[j].status
        /\ job'[j].owner = job[j].owner
        /\ job'[j].attempts = job[j].attempts
        /\ job'[j].lastRun = n
        /\ \A i \in Jobs \ {j} : job'[i] = job[i]
    <2>1. job[j] \in JobRow /\ job \in [Jobs -> JobRow]
      BY <1>2 DEF AttemptInv, TypeOK
    <2>2. job' = [job EXCEPT ![j] = [job[j] EXCEPT !.lastRun = n]]
      BY <1>1, <2>1 DEF InsertRun
    <2> QED BY SMTT(150), <1>2, <2>1, <2>2 DEF JobRow
  <1>5. OnlyWrites(j, n, "running")
    <2>1. run' = [run EXCEPT ![j][n].status = "running"] /\ TypeOK
      BY <1>1 DEF InsertRun, AttemptInv
    <2>2. \A i \in Jobs \ {j} : job'[i] = job[i]
      BY <1>4
    <2> HIDE DEF j, n
    <2>3. /\ run'[j][n].status = "running"
          /\ \A i \in Jobs, k \in Attempts : i # j \/ k # n => run'[i][k] = run[i][k]
      BY ZenonT(150), <1>2, <2>1, StatusCell
    <2> QED BY <2>2, <2>3 DEF OnlyWrites
  <1>6. \/ KeepsOrForgets(w, "scanning", TRUE)
        \/ KeepsOrForgets(w, "finish", TRUE)
        \/ LossyReplies /\ KeepsOrForgets(w, "finish", FALSE)
    <2>1. worker[w] \in WorkerState /\ worker \in [Workers -> WorkerState]
      BY DEF AttemptInv, TypeOK
    <2>2. CASE StartScan(w)
      <3>1. PICK pc \in {"scanning", "finish"}, result \in {"none", "error"} :
              worker' = [worker EXCEPT ![w] =
                 [worker[w] EXCEPT !.hasRun = TRUE, !.pc = pc, !.result = result]]
        BY <2>1, <2>2 DEF StartScan
      <3> QED BY SMTT(150), <2>1, <3>1 DEF KeepsOrForgets, WorkerState
    <2>3. CASE InsertRunReplyLost(w)
      <3>1. worker' = [worker EXCEPT ![w] =
                 [worker[w] EXCEPT !.pc = "finish", !.result = "error"]]
        BY <2>1, <2>3 DEF InsertRunReplyLost
      <3>2. worker[w].hasRun = FALSE
        BY <1>1, <1>2, <2>1 DEF RunOfWorker, WorkerState
      <3> QED BY SMTT(150), <2>1, <2>3, <3>1, <3>2
              DEF KeepsOrForgets, WorkerState, InsertRunReplyLost
    <2> QED BY <2>2, <2>3
  <1> QED BY <1>1, <1>3, <1>4, <1>5, <1>6

LEMMA InsertAudit ==
    ASSUME AttemptInv, AuditInv, NEW w \in Workers,
           StartScan(w) \/ InsertRunReplyLost(w)
    PROVE  AuditInv'
  <1> DEFINE j == worker[w].job  n == worker[w].attempt
  <1>1. /\ worker[w].pc = "claimed"
        /\ job[j].owner = w
        /\ run[j][n].status = "absent"
        /\ job'[j].status = job[j].status
        /\ job'[j].owner = job[j].owner
        /\ job'[j].attempts = job[j].attempts
        /\ job'[j].lastRun = n
        /\ OnlyWrites(j, n, "running")
        /\ \/ KeepsOrForgets(w, "scanning", TRUE)
           \/ KeepsOrForgets(w, "finish", TRUE)
           \/ LossyReplies /\ KeepsOrForgets(w, "finish", FALSE)
    BY InsertFacts
  <1>2. /\ j \in Jobs /\ n \in Attempts /\ j # 0
        /\ job[j].status = "processing" /\ job[j].attempts = n
        /\ \A v \in Workers \ {w} : worker[v].job = j => worker[v].attempt # n
    BY <1>1, OwnerFacts
  <1>3. /\ AttemptsAreClaimedOnce'
        /\ \A v \in Workers \ {w} : worker'[v].job # 0 => RunOfWorker(v)'
    <2>1. /\ job'[j].owner = w
          /\ (job'[j].status = "deleted") <=> (job[j].status = "deleted")
          /\ worker[w].pc \notin {"idle", "dead"}
      BY <1>1
    <2> QED BY <1>1, <2>1, OtherWorkers
  <1>4. RunsOfAttempts' /\ OpenRuns' /\ OwnersHold'
    <2>1. ASSUME NEW i \in Jobs, NEW k \in Attempts, i # j \/ k # n
          PROVE  run'[i][k] = run[i][k]
      BY <1>1, <2>1 DEF OnlyWrites
    <2>2. ~(n > n)
      BY <1>2 DEF Attempts
    <2> HIDE DEF j, n
    <2>3. RunsOfAttempts'
      BY SMTT(150), <1>1, <1>2, <2>1, <2>2 DEF AuditInv, RunsOfAttempts, OnlyWrites
    <2>4. OpenRuns'
      BY SMTT(150), <1>1, <1>2, <2>1 DEF AuditInv, OpenRuns, OnlyWrites
    <2>5. OwnersHold'
      BY SMTT(150), <1>1, <1>2 DEF AuditInv, OwnersHold, OnlyWrites
    <2> QED BY <2>3, <2>4, <2>5
  <1>5. worker'[w].job # 0 => RunOfWorker(w)'
    BY SMTT(150), <1>1, <1>2 DEF RunOfWorker, KeepsOrForgets, OnlyWrites
  <1> QED BY <1>3, <1>4, <1>5 DEF AuditInv, RunsOfWorkers

\* What the finaliser of worker w writes of its own attempt, with or without a
\* run; the transaction tests that w owns the job, and its own run is open then.
LEMMA FinishFacts ==
    ASSUME AttemptInv, AuditInv, NEW w \in Workers,
           FinishJobAndRun(w) \/ FinishReplyLost(w)
    PROVE  LET j == worker[w].job  n == worker[w].attempt IN
           /\ worker[w].pc = "commit"
           /\ worker[w].hasRun
           /\ job[j].owner = w
           /\ run[j][n].status = "running"
           /\ job'[j].status = FinalStatusFor(w)
           /\ job'[j].owner = None
           /\ job'[j].attempts = job[j].attempts
           /\ job'[j].lastRun = n
           /\ run'[j][n].status = IF worker[w].result = "error" THEN "failed"
                                  ELSE worker[w].result
           /\ worker[w].result \in GoodRunStatus \cup {"error"}
           /\ OnlyWrites(j, n, run'[j][n].status)
           /\ KeepsOrForgets(w, "fallback", TRUE)
           /\ worker'[w].job = 0 \/ LossyReplies
  <1> DEFINE j == worker[w].job  n == worker[w].attempt
  <1>1. FinishUpdate(w) /\ worker[w].pc = "commit"
    BY DEF FinishJobAndRun, FinishReplyLost
  <1>2. j \in Jobs /\ n \in Attempts /\ RunOfWorker(w)
    BY <1>1, OwnerFacts
  <1>3. worker[w].hasRun /\ job[j].owner = w /\ run[j][n].status = "running"
    BY <1>1, <1>2 DEF FinishUpdate, RunOfWorker
  <1>4. /\ job'[j].status = FinalStatusFor(w)
        /\ job'[j].owner = None
        /\ job'[j].attempts = job[j].attempts
        /\ job'[j].lastRun = n
        /\ \A i \in Jobs \ {j} : job'[i] = job[i]
    <2>1. job[j] \in JobRow /\ job \in [Jobs -> JobRow]
      BY <1>2 DEF AttemptInv, TypeOK
    <2>2. job' = [job EXCEPT ![j] = FinalisedJob(w, n)]
      BY <1>1 DEF FinishUpdate
    <2>3. /\ FinalisedJob(w, n).status = FinalStatusFor(w)
          /\ FinalisedJob(w, n).owner = None
          /\ FinalisedJob(w, n).attempts = job[j].attempts
          /\ FinalisedJob(w, n).lastRun = n
      BY ZenonT(150), <2>1 DEF FinalisedJob, JobRow
    <2> QED BY <1>2, <2>1, <2>2, <2>3
  <1>5. worker[w].result \in GoodRunStatus \cup {"error"}
    <2>1. worker[w].result # "none" /\ worker[w] \in WorkerState
      BY <1>1 DEF AttemptInv, TypeOK, WorkerMemory
    <2> QED BY <2>1 DEF WorkerState
  <1>6. /\ run'[j][n].status = IF worker[w].result = "error" THEN "failed"
                               ELSE worker[w].result
        /\ \A i \in Jobs, k \in Attempts : i # j \/ k # n => run'[i][k] = run[i][k]
    <2> DEFINE s == IF worker[w].result = "error" THEN "failed" ELSE worker[w].result
    <2>1. run' = [run EXCEPT ![j][n].status = s] /\ TypeOK
      BY <1>1 DEF FinishUpdate, AttemptInv
    <2> HIDE DEF s, j, n
    <2>2. /\ run'[j][n].status = s
          /\ \A i \in Jobs, k \in Attempts : i # j \/ k # n => run'[i][k] = run[i][k]
      BY ZenonT(150), <1>2, <2>1, StatusCell
    <2> QED BY <2>2 DEF s
  <1>7. KeepsOrForgets(w, "fallback", TRUE) /\ (worker'[w].job = 0 \/ LossyReplies)
    <2>1. worker[w] \in WorkerState /\ worker \in [Workers -> WorkerState]
      BY DEF AttemptInv, TypeOK
    <2>2. CASE FinishJobAndRun(w)
      BY <2>1, <2>2 DEF FinishJobAndRun, KeepsOrForgets, IdleWorker
    <2>3. CASE FinishReplyLost(w)
      <3>1. worker' = [worker EXCEPT ![w] = [worker[w] EXCEPT !.pc = "fallback"]]
        BY <2>1, <2>3 DEF FinishReplyLost
      <3>2. worker[w].hasRun = TRUE
        BY <1>3, <2>1 DEF WorkerState
      <3> QED BY SMTT(150), <2>1, <2>3, <3>1, <3>2
              DEF KeepsOrForgets, WorkerState, FinishReplyLost
    <2> QED BY <2>2, <2>3
  <1>8. OnlyWrites(j, n, run'[j][n].status)
    BY <1>4, <1>6 DEF OnlyWrites
  <1> QED BY <1>1, <1>3, <1>4, <1>5, <1>6, <1>7, <1>8

LEMMA FinishAudit ==
    ASSUME AttemptInv, AuditInv, NEW w \in Workers,
           FinishJobAndRun(w) \/ FinishReplyLost(w)
    PROVE  AuditInv'
  <1> DEFINE j == worker[w].job  n == worker[w].attempt  s == run'[j][n].status
  <1>1. /\ worker[w].pc = "commit"
        /\ worker[w].hasRun
        /\ job[j].owner = w
        /\ job'[j].status = FinalStatusFor(w)
        /\ job'[j].owner = None
        /\ job'[j].attempts = job[j].attempts
        /\ job'[j].lastRun = n
        /\ s = IF worker[w].result = "error" THEN "failed" ELSE worker[w].result
        /\ worker[w].result \in GoodRunStatus \cup {"error"}
        /\ OnlyWrites(j, n, s)
        /\ KeepsOrForgets(w, "fallback", TRUE)
        /\ worker'[w].job = 0 \/ LossyReplies
    BY FinishFacts
  <1>2. /\ j \in Jobs /\ n \in Attempts /\ j # 0
        /\ job[j].status = "processing" /\ job[j].attempts = n
    BY <1>1, OwnerFacts
  <1>3. /\ job'[j].status \in FinalStatus \cup WaitingStatus
        /\ \/ s = "failed"
           \/ s \in GoodRunStatus /\ job'[j].status = "succeeded"
    BY SMTT(150), <1>1 DEF FinalStatusFor, FinalStatus, WaitingStatus
  <1>4. /\ AttemptsAreClaimedOnce'
        /\ \A v \in Workers \ {w} : worker'[v].job # 0 => RunOfWorker(v)'
    <2>1. /\ (job'[j].status = "deleted") <=> (job[j].status = "deleted")
          /\ worker[w].pc \notin {"idle", "dead"}
      BY <1>1, <1>2, <1>3 DEF FinalStatus, WaitingStatus
    <2> QED BY <1>1, <2>1, OtherWorkers
  <1>5. RunsOfAttempts' /\ OpenRuns' /\ OwnersHold'
    <2>1. ASSUME NEW i \in Jobs, NEW k \in Attempts, i # j \/ k # n
          PROVE  run'[i][k] = run[i][k]
      BY <1>1, <2>1 DEF OnlyWrites
    <2>2. ~(n > n)
      BY <1>2 DEF Attempts
    <2>3. s \notin {"deleted", "running"}
      BY <1>3 DEF GoodRunStatus
    <2> HIDE DEF j, n
    <2>4. RunsOfAttempts'
      BY SMTT(150), <1>1, <1>2, <1>3, <2>1, <2>2, <2>3
         DEF AuditInv, RunsOfAttempts, OnlyWrites, FinalStatus, WaitingStatus
    <2>5. OpenRuns'
      BY SMTT(150), <1>1, <1>2, <1>3, <2>1, <2>3
         DEF AuditInv, OpenRuns, OnlyWrites, FinalStatus, WaitingStatus
    <2>6. OwnersHold'
      BY SMTT(150), <1>1, <1>2, <1>3
         DEF AuditInv, OwnersHold, OnlyWrites, FinalStatus, WaitingStatus
    <2> QED BY <2>4, <2>5, <2>6
  <1>6. worker'[w].job # 0 => RunOfWorker(w)'
    <2>1. w # None
      BY ScanJobsAssumption
    <2> QED BY SMTT(150), <1>1, <1>2, <1>3, <2>1 DEF RunOfWorker, KeepsOrForgets, OnlyWrites
  <1> QED BY <1>4, <1>5, <1>6 DEF AuditInv, RunsOfWorkers

LEMMA FinishWithoutRunFacts ==
    ASSUME AttemptInv, AuditInv, NEW w \in Workers,
           FinishWithoutRun(w), ~UNCHANGED job
    PROVE  LET j == worker[w].job  n == worker[w].attempt IN
           /\ worker[w].pc = "finish"
           /\ job[j].owner = w
           /\ \/ run[j][n].status = "absent"
              \/ LossyReplies /\ run[j][n].status = "running"
           /\ job'[j].status = IF n >= MaxAttempts THEN "dead_letter" ELSE "retryable"
           /\ job'[j].owner = None
           /\ job'[j].attempts = job[j].attempts
           /\ job'[j].lastRun = 0
           /\ OnlyWrites(j, n, run[j][n].status)
           /\ KeepsOrForgets(w, "idle", FALSE)
           /\ worker'[w].job = 0
           /\ run' = run
  <1> DEFINE j == worker[w].job  n == worker[w].attempt
  <1>1. /\ worker[w].pc = "finish" /\ ~worker[w].hasRun
        /\ OwnsLiveLease(w, j)
        /\ job' = [job EXCEPT ![j] = FinalisedJob(w, 0)]
        /\ worker' = [worker EXCEPT ![w] = IdleWorker]
        /\ run' = run
    BY DEF FinishWithoutRun
  <1>2. j \in Jobs /\ n \in Attempts /\ RunOfWorker(w)
    BY <1>1, OwnerFacts
  <1>3. job[j].owner = w
    BY <1>1 DEF OwnsLiveLease
  <1>4. \/ run[j][n].status = "absent"
        \/ LossyReplies /\ run[j][n].status = "running"
    BY <1>1, <1>2, <1>3 DEF RunOfWorker
  <1>5. worker[w].result = "error"
    BY <1>1 DEF AttemptInv, TypeOK, WorkerMemory, WorkerState
  <1>6. job[j] \in JobRow /\ job \in [Jobs -> JobRow] /\ worker \in [Workers -> WorkerState]
    BY <1>2 DEF AttemptInv, TypeOK
  <1>7. /\ FinalisedJob(w, 0).status = IF n >= MaxAttempts THEN "dead_letter" ELSE "retryable"
        /\ FinalisedJob(w, 0).owner = None
        /\ FinalisedJob(w, 0).attempts = job[j].attempts
        /\ FinalisedJob(w, 0).lastRun = 0
    BY ZenonT(150), <1>5, <1>6 DEF FinalisedJob, FinalStatusFor, JobRow
  <1>8. KeepsOrForgets(w, "idle", FALSE) /\ worker'[w].job = 0
    BY <1>1, <1>6 DEF KeepsOrForgets, IdleWorker
  <1>9. OnlyWrites(j, n, run[j][n].status)
    BY <1>1, <1>2, <1>6 DEF OnlyWrites
  <1>10. job'[j] = FinalisedJob(w, 0)
    BY <1>1, <1>2, <1>6
  <1> QED BY <1>1, <1>3, <1>4, <1>7, <1>8, <1>9, <1>10

LEMMA FinishWithoutRunAudit ==
    ASSUME AttemptInv, AuditInv, NEW w \in Workers,
           FinishWithoutRun(w), ~UNCHANGED job
    PROVE  AuditInv'
  <1> DEFINE j == worker[w].job  n == worker[w].attempt
  <1>1. /\ worker[w].pc = "finish"
        /\ job[j].owner = w
        /\ \/ run[j][n].status = "absent"
           \/ LossyReplies /\ run[j][n].status = "running"
        /\ job'[j].status \in {"dead_letter", "retryable"}
        /\ job'[j].owner = None
        /\ job'[j].attempts = job[j].attempts
        /\ job'[j].lastRun = 0
        /\ OnlyWrites(j, n, run[j][n].status)
        /\ KeepsOrForgets(w, "idle", FALSE)
        /\ worker'[w].job = 0
        /\ run' = run
    BY FinishWithoutRunFacts
  <1>2. /\ j \in Jobs /\ n \in Attempts
        /\ job[j].status = "processing" /\ job[j].attempts = n
    BY <1>1, OwnerFacts
  <1>3. /\ AttemptsAreClaimedOnce'
        /\ \A v \in Workers \ {w} : worker'[v].job # 0 => RunOfWorker(v)'
    <2>1. /\ (job'[j].status = "deleted") <=> (job[j].status = "deleted")
          /\ worker[w].pc \notin {"idle", "dead"}
      BY <1>1, <1>2
    <2> QED BY <1>1, <2>1, OtherWorkers
  <1>4. RunsOfAttempts' /\ OpenRuns' /\ OwnersHold'
    <2>1. \A i \in Jobs \ {j} : job'[i] = job[i]
      BY <1>1 DEF OnlyWrites
    <2>2. \A k \in Attempts : k # 0
      BY DEF Attempts
    <2> HIDE DEF j, n
    <2>3. RunsOfAttempts'
      BY SMTT(150), <1>1, <1>2, <2>1 DEF AuditInv, RunsOfAttempts
    <2>4. OpenRuns'
      <3>1. ~LossyReplies => \A k \in Attempts : run[j][k].status # "running"
        BY <1>1, <1>2 DEF AuditInv, OpenRuns
      <3> QED BY SMTT(150), <1>1, <1>2, <2>1, <2>2, <3>1 DEF AuditInv, OpenRuns
    <2>5. OwnersHold'
      BY SMTT(150), <1>1, <1>2, <2>1 DEF AuditInv, OwnersHold
    <2> QED BY <2>3, <2>4, <2>5
  <1> QED BY <1>1, <1>3, <1>4 DEF AuditInv, RunsOfWorkers

\* The fallback writes a run that is open while its worker owns the job, and
\* one that is closed already, or good in a lost reply, when it does not.
LEMMA FallbackFacts ==
    ASSUME AttemptInv, AuditInv, NEW w \in Workers,
           FallbackAudit(w), ~UNCHANGED run
    PROVE  LET j == worker[w].job  n == worker[w].attempt IN
           /\ worker[w].pc = "fallback"
           /\ run[j][n].status # "deleted"
           /\ job[j].owner = w => run[j][n].status = "running"
           /\ job[j].owner # w =>
                 \/ run[j][n].status = "failed"
                 \/ /\ LossyReplies
                    /\ run[j][n].status \in GoodRunStatus
                    /\ job[j].status = "succeeded"
                    /\ job[j].attempts = n
           /\ OnlyWrites(j, n, "failed")
           /\ KeepsOrForgets(w, "idle", FALSE)
           /\ worker'[w].job = 0
           /\ job' = job
  <1> DEFINE j == worker[w].job  n == worker[w].attempt
  <1>1. /\ worker[w].pc = "fallback"
        /\ run[j][n].status # "deleted"
        /\ run' = [run EXCEPT ![j][n].status = "failed"]
        /\ worker' = [worker EXCEPT ![w] = IdleWorker]
        /\ job' = job
    BY DEF FallbackAudit
  <1>2. j \in Jobs /\ n \in Attempts /\ RunOfWorker(w)
    BY <1>1, OwnerFacts
  <1>3. /\ run'[j][n].status = "failed"
        /\ \A i \in Jobs, k \in Attempts : i # j \/ k # n => run'[i][k] = run[i][k]
    <2>1. run' = [run EXCEPT ![j][n].status = "failed"] /\ TypeOK
      BY <1>1 DEF AttemptInv
    <2> HIDE DEF j, n
    <2> QED BY ZenonT(150), <1>2, <2>1, StatusCell
  <1>4. KeepsOrForgets(w, "idle", FALSE) /\ worker'[w].job = 0
    BY <1>1 DEF KeepsOrForgets, IdleWorker, AttemptInv, TypeOK
  <1> QED BY <1>1, <1>2, <1>3, <1>4 DEF RunOfWorker, OnlyWrites

LEMMA FallbackAuditInv ==
    ASSUME AttemptInv, AuditInv, NEW w \in Workers,
           FallbackAudit(w), ~UNCHANGED run
    PROVE  AuditInv'
  <1> DEFINE j == worker[w].job  n == worker[w].attempt
  <1>1. /\ worker[w].pc = "fallback"
        /\ run[j][n].status # "deleted"
        /\ OnlyWrites(j, n, "failed")
        /\ KeepsOrForgets(w, "idle", FALSE)
        /\ worker'[w].job = 0
        /\ job' = job
    BY FallbackFacts
  <1>2. /\ j \in Jobs /\ n \in Attempts
        /\ job[j].status # "deleted" => n <= job[j].attempts
    BY <1>1, OwnerFacts
  <1>3. /\ AttemptsAreClaimedOnce'
        /\ \A v \in Workers \ {w} : worker'[v].job # 0 => RunOfWorker(v)'
    BY <1>1, OtherWorkers
  <1>4. RunsOfAttempts' /\ OpenRuns' /\ OwnersHold'
    <2>1. ASSUME NEW i \in Jobs, NEW k \in Attempts, i # j \/ k # n
          PROVE  run'[i][k] = run[i][k]
      BY <1>1, <2>1 DEF OnlyWrites
    <2>2. run'[j][n].status = "failed"
      BY <1>1 DEF OnlyWrites
    <2>3. ~(n > job[j].attempts) /\ job[j].status # "deleted"
      <3>1. job[j].status # "deleted" /\ n <= job[j].attempts
        BY <1>1, <1>2 DEF AuditInv, RunsOfAttempts
      <3>2. job[j].attempts \in Nat /\ n \in Nat
        BY <1>2 DEF AttemptInv, TypeOK, JobRow, Attempts
      <3> QED BY <3>1, <3>2
    <2> HIDE DEF j, n
    <2>4. RunsOfAttempts'
      BY SMTT(150), <1>1, <1>2, <2>1, <2>2, <2>3 DEF AuditInv, RunsOfAttempts
    <2>5. OpenRuns'
      BY SMTT(150), <1>1, <1>2, <2>1, <2>2 DEF AuditInv, OpenRuns
    <2>6. OwnersHold'
      BY SMTT(150), <1>1 DEF AuditInv, OwnersHold
    <2> QED BY <2>4, <2>5, <2>6
  <1> QED BY <1>1, <1>3, <1>4 DEF AuditInv, RunsOfWorkers

-----------------------------------------------------------------------------
(* Every step, as the audit sees it.                                       *)

AuditUnchanged ==
    /\ \A j \in Jobs, n \in Attempts : run'[j][n].status = run[j][n].status
    /\ \A j \in Jobs : SameForAudit(j)

RunsUnchanged ==
    \A j \in Jobs, n \in Attempts : run'[j][n].status = run[j][n].status

\* The ways a step of the queue can look to the audit.
AuditStep ==
    \/ AuditUnchanged
    \/ RunsUnchanged /\ \E j \in Jobs : Submitted(j)
    \/ \E js \in SUBSET Jobs : Removed(js)
    \/ \E w \in Workers :
          \/ \E granted, buried \in SUBSET Jobs : Dispatched(w, granted, buried)
          \/ StartScan(w) \/ InsertRunReplyLost(w)
          \/ FinishJobAndRun(w) \/ FinishReplyLost(w)
          \/ FinishWithoutRun(w) /\ ~UNCHANGED job
          \/ FallbackAudit(w) /\ ~UNCHANGED run

LEMMA NextAuditStep ==
    ASSUME AttemptInv, AuditInv, [Next]_vars
    PROVE  AuditInv' /\ AuditStep
  <1>1. CASE \/ \E s \in Schedulers : \/ \E a \in Addresses : SchedulerSelect(s, a)
                                      \/ SchedulerAborts(s)
                                      \/ SchedulerEnqueue(s) /\ UNCHANGED job
             \/ \E a \in Addresses : AddressFallsDue(a) \/ SetAddressStatus(a)
             \/ \E j \in Jobs : BackoffElapses(j) \/ LeaseTicks(j)
             \/ \E w \in Workers : RenewLease(w)
             \/ UNCHANGED vars
    BY <1>1, QuietQueueStep, QuietStepAudit DEF AuditStep, AuditUnchanged
  <1>2. CASE \/ \E s \in Schedulers : SchedulerEnqueue(s) /\ ~UNCHANGED job
             \/ \E i \in Jobs, n \in Attempts : RetryRun(i, n)
    BY <1>2, SubmitFacts, QuietStepAudit, SubmittedAudit
       DEF AuditStep, AuditUnchanged, RunsUnchanged
  <1>3. CASE \E a \in Addresses : DeleteAddress(a)
    BY <1>3, DeleteFacts, RemovedAudit DEF AuditStep
  <1>4. ASSUME NEW w \in Workers,
               \/ RenewalFails(w) \/ ScanBlocked(w) \/ ScanSucceeds(w) \/ ScanFails(w)
               \/ BeginFinish(w) \/ FinishFails(w) \/ Crash(w)
               \/ FinishWithoutRun(w) /\ UNCHANGED job
               \/ FallbackAudit(w) /\ UNCHANGED run
        PROVE  AuditInv' /\ AuditStep
    <2>1. UNCHANGED <<job, run>> /\ \A v \in Workers : GoesOnOrDrops(v)
      BY <1>4, QuietWorkerStep
    <2>2. AuditUnchanged
      BY <2>1 DEF AuditUnchanged, SameForAudit
    <2> QED BY <2>1, <2>2, NothingRecorded DEF AuditStep, AuditUnchanged
  <1>5. ASSUME NEW w \in Workers, Claim(w) \/ ClaimNothing(w) \/ ClaimReplyLost(w)
        PROVE  AuditInv' /\ AuditStep
    BY <1>5, ClaimMemory, DispatchedAudit DEF AuditStep
  <1>6. ASSUME NEW w \in Workers,
               \/ StartScan(w) \/ InsertRunReplyLost(w)
               \/ FinishJobAndRun(w) \/ FinishReplyLost(w)
               \/ FinishWithoutRun(w) /\ ~UNCHANGED job
               \/ FallbackAudit(w) /\ ~UNCHANGED run
        PROVE  AuditInv' /\ AuditStep
    BY <1>6, InsertAudit, FinishAudit, FinishWithoutRunAudit, FallbackAuditInv
       DEF AuditStep
  <1> QED BY <1>1, <1>2, <1>3, <1>4, <1>5, <1>6 DEF Next, WorkerStep

\* What every run's status owes to its attempt and to the worker that owns or
\* owned it holds throughout, whether or not replies are lost.
THEOREM AuditIsConsistent == Spec => []AuditInv
  <1>1. AttemptInv /\ AuditInv /\ [Next]_vars => AuditInv'
    BY NextAuditStep
  <1> QED BY <1>1, InitAuditInv, AttemptsAreConsistent, PTL DEF Spec

\* With replies that arrive, crashes, reclaims and burials leave no open run
\* behind: the claim closes the run the job points at, and a worker that is the
\* owner and knows of no run has none.
THEOREM OpenRunsAreCurrent ==
    ASSUME ~LossyReplies
    PROVE  Spec => []RunningRunIsCurrent
  <1>1. AuditInv => RunningRunIsCurrent
    BY DEF AuditInv, OpenRuns, RunningRunIsCurrent
  <1> QED BY <1>1, AuditIsConsistent, PTL

LEMMA GoodRunStep ==
    ASSUME AttemptInv, AuditInv, ~LossyReplies, SucceededJobHasGoodRun, AuditStep
    PROVE  SucceededJobHasGoodRun'
  <1> SUFFICES ASSUME NEW j \in Jobs, job'[j].status = "succeeded"
               PROVE  \E n \in Attempts : /\ job'[j].lastRun = n
                                          /\ run'[j][n].status \in GoodRunStatus
    BY DEF SucceededJobHasGoodRun
  <1>1. ASSUME job[j].status = "succeeded", job'[j].lastRun = job[j].lastRun,
               \A n \in Attempts : run[j][n].status \in GoodRunStatus =>
                                     run'[j][n].status \in GoodRunStatus
        PROVE  \E n \in Attempts : /\ job'[j].lastRun = n
                                   /\ run'[j][n].status \in GoodRunStatus
    BY <1>1 DEF SucceededJobHasGoodRun
  <1>2. CASE AuditUnchanged
    BY <1>1, <1>2 DEF AuditUnchanged, SameForAudit, WaitingStatus
  <1>3. CASE RunsUnchanged /\ \E i \in Jobs : Submitted(i)
    BY <1>1, <1>3 DEF RunsUnchanged, Submitted
  <1>4. CASE \E js \in SUBSET Jobs : Removed(js)
    BY <1>1, <1>4 DEF Removed
  <1>5. ASSUME NEW w \in Workers, NEW granted \in SUBSET Jobs,
               NEW buried \in SUBSET Jobs, Dispatched(w, granted, buried)
        PROVE  \E n \in Attempts : /\ job'[j].lastRun = n
                                   /\ run'[j][n].status \in GoodRunStatus
    <2>1. j \notin granted \cup buried
      BY <1>5 DEF Dispatched
    <2> QED BY <1>1, <1>5, <2>1 DEF Dispatched
  <1>6. ASSUME NEW w \in Workers, StartScan(w) \/ InsertRunReplyLost(w)
        PROVE  \E n \in Attempts : /\ job'[j].lastRun = n
                                   /\ run'[j][n].status \in GoodRunStatus
    <2>1. worker[w].job # j
      <3>1. /\ worker[w].pc = "claimed"
            /\ job[worker[w].job].owner = w
            /\ job'[worker[w].job].status = job[worker[w].job].status
        BY <1>6, InsertFacts
      <3>2. job[worker[w].job].status = "processing"
        BY <3>1, OwnerFacts
      <3> QED BY <3>1, <3>2
    <2>2. OnlyWrites(worker[w].job, worker[w].attempt, "running")
      BY <1>6, InsertFacts
    <2>3. job'[j] = job[j] /\ \A n \in Attempts : run'[j][n] = run[j][n]
      BY <2>1, <2>2 DEF OnlyWrites
    <2> QED BY <1>1, <2>3
  <1>7. ASSUME NEW w \in Workers, FinishJobAndRun(w) \/ FinishReplyLost(w)
        PROVE  \E n \in Attempts : /\ job'[j].lastRun = n
                                   /\ run'[j][n].status \in GoodRunStatus
    <2>1. CASE worker[w].job = j
      <3>1. /\ job'[j].lastRun = worker[w].attempt
            /\ worker[w].attempt \in Attempts
            /\ worker[w].result # "error"
        BY <1>7, <2>1, FinishFacts, OwnerFacts DEF FinalStatusFor
      <3> QED BY <1>7, <2>1, <3>1, FinishFacts
    <2>2. CASE worker[w].job # j
      <3>1. OnlyWrites(worker[w].job, worker[w].attempt,
                       run'[worker[w].job][worker[w].attempt].status)
        BY <1>7, FinishFacts
      <3>2. job'[j] = job[j] /\ \A n \in Attempts : run'[j][n] = run[j][n]
        BY <2>2, <3>1 DEF OnlyWrites
      <3> QED BY <1>1, <3>2
    <2> QED BY <2>1, <2>2
  <1>8. ASSUME NEW w \in Workers, FinishWithoutRun(w), ~UNCHANGED job
        PROVE  \E n \in Attempts : /\ job'[j].lastRun = n
                                   /\ run'[j][n].status \in GoodRunStatus
    <2>1. worker[w].job # j
      BY <1>8, FinishWithoutRunFacts
    <2>2. /\ OnlyWrites(worker[w].job, worker[w].attempt,
                        run[worker[w].job][worker[w].attempt].status)
          /\ run' = run
      BY <1>8, FinishWithoutRunFacts
    <2>3. job'[j] = job[j]
      BY <2>1, <2>2 DEF OnlyWrites
    <2> QED BY <1>1, <2>2, <2>3
  <1>9. ASSUME NEW w \in Workers, FallbackAudit(w), ~UNCHANGED run
        PROVE  \E n \in Attempts : /\ job'[j].lastRun = n
                                   /\ run'[j][n].status \in GoodRunStatus
    <2> DEFINE i == worker[w].job  m == worker[w].attempt
    <2>0. OnlyWrites(i, m, "failed")
      BY <1>9, FallbackFacts
    <2>1. /\ job' = job
          /\ run[i][m].status \in {"running", "failed"}
          /\ \A n \in Attempts : j # i \/ n # m => run'[j][n] = run[j][n]
      <3>1. job' = job /\ run[i][m].status \in {"running", "failed"}
        BY <1>9, FallbackFacts
      <3> QED BY <2>0, <3>1 DEF OnlyWrites
    <2>2. \A n \in Attempts : run[j][n].status \in GoodRunStatus => j # i \/ n # m
      BY <2>1 DEF GoodRunStatus
    <2> QED BY <1>1, <2>1, <2>2
  <1> QED BY <1>2, <1>3, <1>4, <1>5, <1>6, <1>7, <1>8, <1>9 DEF AuditStep

\* With replies that arrive, neither a stale worker nor a fallback write ever
\* contradicts the success of a job.
THEOREM SuccessIsRecorded ==
    ASSUME ~LossyReplies
    PROVE  Spec => []SucceededJobHasGoodRun
  <1>1. Init => SucceededJobHasGoodRun
    BY DEF Init, SucceededJobHasGoodRun, NoJob
  <1>2. AttemptInv /\ AuditInv /\ SucceededJobHasGoodRun /\ [Next]_vars
           => SucceededJobHasGoodRun'
    BY NextAuditStep, GoodRunStep
  <1> QED BY <1>1, <1>2, AttemptsAreConsistent, AuditIsConsistent, PTL DEF Spec

LEMMA FailedRunStep ==
    ASSUME AttemptInv, AuditInv, AuditStep,
           NEW j \in Jobs, NEW n \in Attempts, run[j][n].status = "failed"
    PROVE  run'[j][n].status \in {"failed", "deleted"}
  <1>1. CASE AuditUnchanged \/ RunsUnchanged
    BY <1>1 DEF AuditUnchanged, RunsUnchanged
  <1>2. CASE \E js \in SUBSET Jobs : Removed(js)
    BY <1>2 DEF Removed
  <1>3. ASSUME NEW w \in Workers, NEW granted \in SUBSET Jobs,
               NEW buried \in SUBSET Jobs, Dispatched(w, granted, buried)
        PROVE  run'[j][n].status = "failed"
    BY <1>3 DEF Dispatched
  <1>4. ASSUME NEW w \in Workers,
               \/ StartScan(w) \/ InsertRunReplyLost(w)
               \/ FinishJobAndRun(w) \/ FinishReplyLost(w)
        PROVE  run'[j][n].status = "failed"
    <2> DEFINE i == worker[w].job  m == worker[w].attempt
    <2>1. /\ run[i][m].status \in {"absent", "running"}
          /\ OnlyWrites(i, m, run'[i][m].status)
      <3>1. CASE StartScan(w) \/ InsertRunReplyLost(w)
        <4>1. run[i][m].status = "absent" /\ OnlyWrites(i, m, "running")
          BY <3>1, InsertFacts
        <4> QED BY <4>1 DEF OnlyWrites
      <3>2. CASE FinishJobAndRun(w) \/ FinishReplyLost(w)
        BY <3>2, FinishFacts
      <3> QED BY <1>4, <3>1, <3>2
    <2>2. j # i \/ n # m
      BY <2>1
    <2> HIDE DEF i, m
    <2>3. run'[j][n] = run[j][n]
      BY <2>1, <2>2 DEF OnlyWrites
    <2> QED BY <2>3
  <1>5. ASSUME NEW w \in Workers, FinishWithoutRun(w)
        PROVE  run'[j][n].status = "failed"
    BY <1>5 DEF FinishWithoutRun
  <1>6. ASSUME NEW w \in Workers, FallbackAudit(w), ~UNCHANGED run
        PROVE  run'[j][n].status = "failed"
    <2>1. OnlyWrites(worker[w].job, worker[w].attempt, "failed")
      BY <1>6, FallbackFacts
    <2> QED BY <2>1 DEF OnlyWrites
  <1> QED BY <1>1, <1>2, <1>3, <1>4, <1>5, <1>6 DEF AuditStep

\* Whatever replies are lost, a late worker never turns a run that was recorded
\* failed into a good one: its own update is fenced, and the fallback writes
\* nothing but failed.
THEOREM FailuresAreFinal == Spec => FailedRunStaysFailed
  <1>1. AttemptInv /\ AuditInv /\ [Next]_vars =>
          [\A j \in Jobs, n \in Attempts :
             run[j][n].status = "failed" => run'[j][n].status \in {"failed", "deleted"}]_vars
    BY NextAuditStep, FailedRunStep
  <1> QED BY <1>1, AttemptsAreConsistent, AuditIsConsistent, PTL
          DEF Spec, FailedRunStaysFailed

-----------------------------------------------------------------------------
(***************************************************************************)
(* The scan queue implements JobLifecycle: leases, owners, clocks, crashes *)
(* and lost replies add no history of jobs and runs that the lifecycle     *)
(* does not have.  Every step, as AuditStep describes it, is a step of the *)
(* lifecycle or leaves its state alone.                                    *)
(***************************************************************************)

LEMMA PhaseFacts ==
    /\ PhaseOf("absent") = "none"
    /\ \A s \in WaitingStatus : PhaseOf(s) = "waiting"
    /\ PhaseOf("processing") = "held"
    /\ PhaseOf("succeeded") = "done"
    /\ PhaseOf("dead_letter") = "dead"
    /\ PhaseOf("deleted") = "gone"
  BY DEF PhaseOf, WaitingStatus

LEMMA VerdictFacts ==
    /\ VerdictOf("absent") = "none"
    /\ VerdictOf("running") = "open"
    /\ \A s \in GoodRunStatus : VerdictOf(s) = "good"
    /\ VerdictOf("failed") = "bad"
    /\ VerdictOf("deleted") = "gone"
  BY DEF VerdictOf, GoodRunStatus

\* Only an open run has the verdict open.
LEMMA OpenVerdict ==
    ASSUME AttemptInv, NEW j \in Jobs, NEW n \in Attempts
    PROVE  (VerdictOf(run[j][n].status) = "open") <=> (run[j][n].status = "running")
  <1>1. run[j][n].status \in {"absent", "running", "failed", "deleted"} \cup GoodRunStatus
    BY DEF AttemptInv, TypeOK, RunRow
  <1> QED BY <1>1, VerdictFacts

LEMMA InitLifecycle == Init => Lifecycle!Init
  <1> SUFFICES ASSUME Init PROVE Lifecycle!Init
    OBVIOUS
  <1>1. /\ \A j \in Jobs : job[j].status = "absent" /\ job[j].attempts = 0
        /\ \A j \in Jobs, n \in Attempts : run[j][n].status = "absent"
    BY DEF Init, NoJob, NoRun
  <1> QED BY <1>1, PhaseFacts, VerdictFacts DEF Lifecycle!Init, Lifecycle!Tries, Attempts

LEMMA UnchangedLifecycle ==
    ASSUME AuditUnchanged
    PROVE  UNCHANGED Lifecycle!lifecycle
  <1>1. \A j \in Jobs : /\ PhaseOf(job'[j].status) = PhaseOf(job[j].status)
                        /\ job'[j].attempts = job[j].attempts
    BY PhaseFacts DEF AuditUnchanged, SameForAudit
  <1>2. \A j \in Jobs, n \in Attempts : run'[j][n].status = run[j][n].status
    BY DEF AuditUnchanged
  <1> QED BY <1>1, <1>2 DEF Lifecycle!lifecycle

LEMMA SubmitRefines ==
    ASSUME AuditInv, NEW j \in Jobs, Submitted(j), RunsUnchanged
    PROVE  Lifecycle!Submit(j)
  <1>1. /\ \A i \in Jobs \ {j} : job'[i] = job[i]
        /\ job'[j].status = "pending" /\ job[j].status = "absent"
        /\ job'[j].attempts = job[j].attempts
    BY DEF Submitted, AuditInv, OwnersHold
  <1> QED BY <1>1, PhaseFacts DEF Lifecycle!Submit, RunsUnchanged, WaitingStatus

LEMMA RemoveRefines ==
    ASSUME NEW js \in SUBSET Jobs, Removed(js)
    PROVE  Lifecycle!Remove(js)
  BY PhaseFacts, VerdictFacts DEF Lifecycle!Remove, Lifecycle!Tries, Attempts, Removed

LEMMA DispatchRefines ==
    ASSUME AttemptInv, AuditInv, NEW w \in Workers,
           NEW granted \in SUBSET Jobs, NEW buried \in SUBSET Jobs,
           Dispatched(w, granted, buried)
    PROVE  Lifecycle!Dispatch(granted, buried)
  <1>1. \A j \in granted : /\ PhaseOf(job[j].status) \in {"waiting", "held"}
                           /\ job[j].attempts < MaxAttempts
    BY PhaseFacts DEF Dispatched, ActiveStatus
  <1>2. \A j \in buried : PhaseOf(job[j].status) = "held" /\ job[j].attempts = MaxAttempts
    BY PhaseFacts DEF Dispatched
  <1>3. \A j \in Jobs :
           /\ PhaseOf(job'[j].status) =
                IF j \in buried THEN "dead"
                ELSE IF j \in granted THEN "held" ELSE PhaseOf(job[j].status)
           /\ job'[j].attempts =
                IF j \in granted THEN job[j].attempts + 1 ELSE job[j].attempts
    BY PhaseFacts DEF Dispatched
  <1>4. \A j \in Jobs, n \in Attempts :
           VerdictOf(run'[j][n].status) =
              IF /\ j \in granted \cup buried
                 /\ PhaseOf(job[j].status) = "held"
                 /\ n = job[j].attempts
                 /\ VerdictOf(run[j][n].status) = "open"
              THEN "bad" ELSE VerdictOf(run[j][n].status)
    <2> SUFFICES ASSUME NEW j \in Jobs, NEW n \in Attempts
                 PROVE  VerdictOf(run'[j][n].status) =
                          IF /\ j \in granted \cup buried
                             /\ PhaseOf(job[j].status) = "held"
                             /\ n = job[j].attempts
                             /\ VerdictOf(run[j][n].status) = "open"
                          THEN "bad" ELSE VerdictOf(run[j][n].status)
      OBVIOUS
    <2>1. /\ j \in granted \cup buried
          /\ run[j][n].status = "running"
          => (job[j].lastRun = n <=> PhaseOf(job[j].status) = "held" /\ job[j].attempts = n)
      <3> SUFFICES ASSUME j \in granted \cup buried, run[j][n].status = "running"
                   PROVE  (job[j].lastRun = n) <=>
                            /\ PhaseOf(job[j].status) = "held"
                            /\ job[j].attempts = n
        OBVIOUS
      <3>1. (job[j].lastRun = n) <=>
                job[j].status = "processing" /\ job[j].attempts = n
        BY DEF AuditInv, OpenRuns
      <3>2. (job[j].status = "processing") <=> (PhaseOf(job[j].status) = "held")
        BY PhaseFacts DEF Dispatched, ActiveStatus
      <3> QED BY <3>1, <3>2
    <2> QED BY <2>1, OpenVerdict, VerdictFacts DEF Dispatched
  <1> QED BY <1>1, <1>2, <1>3, <1>4
          DEF Lifecycle!Dispatch, Lifecycle!Exhausted, Lifecycle!CloseLatest,
              Lifecycle!Tries, Attempts

-----------------------------------------------------------------------------
(* What a worker writes of its own attempt.                                *)

LEMMA OpenRefines ==
    ASSUME AttemptInv, AuditInv, NEW w \in Workers,
           StartScan(w) \/ InsertRunReplyLost(w)
    PROVE  Lifecycle!Open(worker[w].job)
  <1> DEFINE j == worker[w].job  n == worker[w].attempt
  <1>1. /\ worker[w].pc = "claimed"
        /\ job[j].owner = w
        /\ run[j][n].status = "absent"
        /\ job'[j].status = job[j].status
        /\ job'[j].attempts = job[j].attempts
        /\ OnlyWrites(j, n, "running")
    BY InsertFacts
  <1>2. /\ j \in Jobs /\ n \in Attempts
        /\ job[j].status = "processing" /\ job[j].attempts = n
    BY <1>1, OwnerFacts
  <1> HIDE DEF j, n
  <1>3. \A i \in Jobs : /\ PhaseOf(job'[i].status) = PhaseOf(job[i].status)
                        /\ job'[i].attempts = job[i].attempts
    BY <1>1 DEF OnlyWrites
  <1>4. \A i \in Jobs, k \in Attempts :
           VerdictOf(run'[i][k].status) = IF i = j /\ k = n THEN "open"
                                          ELSE VerdictOf(run[i][k].status)
    BY <1>1, VerdictFacts DEF OnlyWrites
  <1>5. PhaseOf(job[j].status) = "held" /\ VerdictOf(run[j][n].status) = "none"
    BY <1>1, <1>2, PhaseFacts, VerdictFacts
  <1>6. Lifecycle!Open(j)
    <2>1. /\ [i \in Jobs |-> PhaseOf(job'[i].status)] = [i \in Jobs |-> PhaseOf(job[i].status)]
          /\ [i \in Jobs |-> job'[i].attempts] = [i \in Jobs |-> job[i].attempts]
      BY <1>3
    <2>2. [i \in Jobs |-> [k \in Attempts |-> VerdictOf(run'[i][k].status)]]
            = [[i \in Jobs |-> [k \in Attempts |-> VerdictOf(run[i][k].status)]]
                 EXCEPT ![j][n] = "open"]
      BY <1>2, <1>4
    <2> QED BY <1>2, <1>5, <2>1, <2>2 DEF Lifecycle!Open
  <1> QED BY <1>6 DEF j

LEMMA FinishRefines ==
    ASSUME AttemptInv, AuditInv, NEW w \in Workers,
           FinishJobAndRun(w) \/ FinishReplyLost(w)
    PROVE  Lifecycle!Succeed(worker[w].job) \/ Lifecycle!Fail(worker[w].job)
  <1> DEFINE j == worker[w].job  n == worker[w].attempt
  <1>1. /\ worker[w].pc = "commit"
        /\ job[j].owner = w
        /\ run[j][n].status = "running"
        /\ job'[j].status = FinalStatusFor(w)
        /\ job'[j].attempts = job[j].attempts
        /\ run'[j][n].status = IF worker[w].result = "error" THEN "failed"
                               ELSE worker[w].result
        /\ worker[w].result \in GoodRunStatus \cup {"error"}
        /\ OnlyWrites(j, n, run'[j][n].status)
    BY FinishFacts
  <1>2. /\ j \in Jobs /\ n \in Attempts
        /\ job[j].status = "processing" /\ job[j].attempts = n
    BY <1>1, OwnerFacts
  <1>3. PhaseOf(job[j].status) = "held" /\ VerdictOf(run[j][n].status) = "open"
    BY <1>1, <1>2, PhaseFacts, VerdictFacts
  <1>4. CASE worker[w].result # "error"
    <2>1. /\ PhaseOf(job'[j].status) = "done"
          /\ VerdictOf(run'[j][n].status) = "good"
      BY <1>1, <1>4, PhaseFacts, VerdictFacts DEF FinalStatusFor
    <2> HIDE DEF j, n
    <2>2. \A i \in Jobs :
             /\ PhaseOf(job'[i].status) = IF i = j THEN "done" ELSE PhaseOf(job[i].status)
             /\ job'[i].attempts = job[i].attempts
      BY <1>1, <2>1 DEF OnlyWrites
    <2>3. \A i \in Jobs, k \in Attempts :
             VerdictOf(run'[i][k].status) = IF i = j /\ k = n THEN "good"
                                            ELSE VerdictOf(run[i][k].status)
      BY <1>1, <2>1 DEF OnlyWrites
    <2>4. Lifecycle!Succeed(j)
      <3>1. /\ [i \in Jobs |-> PhaseOf(job'[i].status)] =
                 [[i \in Jobs |-> PhaseOf(job[i].status)] EXCEPT ![j] = "done"]
            /\ [i \in Jobs |-> job'[i].attempts] = [i \in Jobs |-> job[i].attempts]
        BY <1>2, <2>2
      <3>2. [i \in Jobs |-> [k \in Attempts |-> VerdictOf(run'[i][k].status)]]
              = [[i \in Jobs |-> [k \in Attempts |-> VerdictOf(run[i][k].status)]]
                   EXCEPT ![j][n] = "good"]
        BY <1>2, <2>3
      <3> QED BY <1>2, <1>3, <3>1, <3>2 DEF Lifecycle!Succeed
    <2> QED BY <2>4 DEF j
  <1>5. CASE worker[w].result = "error"
    <2>1. /\ PhaseOf(job'[j].status) = IF n = MaxAttempts THEN "dead" ELSE "waiting"
          /\ VerdictOf(run'[j][n].status) = "bad"
      <3>1. (n >= MaxAttempts) <=> (n = MaxAttempts)
        BY <1>2, ScanJobsAssumption DEF Attempts
      <3> QED BY <1>1, <1>5, <3>1, PhaseFacts, VerdictFacts DEF FinalStatusFor, WaitingStatus
    <2> HIDE DEF j, n
    <2>2. \A i \in Jobs :
             /\ PhaseOf(job'[i].status) =
                   IF i = j THEN IF job[j].attempts = MaxAttempts THEN "dead" ELSE "waiting"
                   ELSE PhaseOf(job[i].status)
             /\ job'[i].attempts = job[i].attempts
      BY <1>1, <1>2, <2>1 DEF OnlyWrites
    <2>3. \A i \in Jobs, k \in Attempts :
             VerdictOf(run'[i][k].status) =
                IF /\ i \in {j} /\ PhaseOf(job[i].status) = "held"
                   /\ k = job[i].attempts /\ VerdictOf(run[i][k].status) = "open"
                THEN "bad" ELSE VerdictOf(run[i][k].status)
      BY <1>1, <1>2, <1>3, <2>1 DEF OnlyWrites
    <2>4. Lifecycle!Fail(j)
      BY <1>2, <1>3, <2>2, <2>3
         DEF Lifecycle!Fail, Lifecycle!Exhausted, Lifecycle!CloseLatest, Lifecycle!Tries,
             Attempts
    <2> QED BY <2>4 DEF j
  <1> QED BY <1>4, <1>5

LEMMA FinishWithoutRunRefines ==
    ASSUME AttemptInv, AuditInv, NEW w \in Workers,
           FinishWithoutRun(w), ~UNCHANGED job
    PROVE  Lifecycle!Fail(worker[w].job) \/ Lifecycle!Forsake(worker[w].job)
  <1> DEFINE j == worker[w].job  n == worker[w].attempt
  <1>1. /\ worker[w].pc = "finish"
        /\ job[j].owner = w
        /\ \/ run[j][n].status = "absent"
           \/ LossyReplies /\ run[j][n].status = "running"
        /\ job'[j].status = IF n >= MaxAttempts THEN "dead_letter" ELSE "retryable"
        /\ job'[j].attempts = job[j].attempts
        /\ OnlyWrites(j, n, run[j][n].status)
        /\ run' = run
    BY FinishWithoutRunFacts
  <1>2. /\ j \in Jobs /\ n \in Attempts
        /\ job[j].status = "processing" /\ job[j].attempts = n
    BY <1>1, OwnerFacts
  <1>3. PhaseOf(job[j].status) = "held"
    BY <1>2, PhaseFacts
  <1>4. PhaseOf(job'[j].status) = IF n = MaxAttempts THEN "dead" ELSE "waiting"
    <2>1. (n >= MaxAttempts) <=> (n = MaxAttempts)
      BY <1>2, ScanJobsAssumption DEF Attempts
    <2> QED BY <1>1, <2>1, PhaseFacts DEF WaitingStatus
  <1> HIDE DEF j, n
  <1>5. \A i \in Jobs :
           /\ PhaseOf(job'[i].status) =
                 IF i = j THEN IF job[j].attempts = MaxAttempts THEN "dead" ELSE "waiting"
                 ELSE PhaseOf(job[i].status)
           /\ job'[i].attempts = job[i].attempts
    BY <1>1, <1>2, <1>4 DEF OnlyWrites
  <1>6. CASE run[j][n].status = "absent"
    <2>1. VerdictOf(run[j][n].status) # "open"
      BY <1>6, VerdictFacts
    <2>2. \A i \in Jobs, k \in Attempts :
             VerdictOf(run'[i][k].status) =
                IF /\ i \in {j} /\ PhaseOf(job[i].status) = "held"
                   /\ k = job[i].attempts /\ VerdictOf(run[i][k].status) = "open"
                THEN "bad" ELSE VerdictOf(run[i][k].status)
      BY <1>1, <1>2, <2>1
    <2>3. Lifecycle!Fail(j)
      BY <1>2, <1>3, <1>5, <2>2
         DEF Lifecycle!Fail, Lifecycle!Exhausted, Lifecycle!CloseLatest, Lifecycle!Tries,
             Attempts
    <2> QED BY <2>3 DEF j
  <1>7. CASE LossyReplies /\ run[j][n].status = "running"
    <2>1. VerdictOf(run[j][n].status) = "open"
      BY <1>7, VerdictFacts
    <2>2. Lifecycle!Forsake(j)
      BY <1>1, <1>2, <1>3, <1>5, <1>7, <2>1 DEF Lifecycle!Forsake, Lifecycle!Exhausted
    <2> QED BY <2>2 DEF j
  <1> QED BY <1>1, <1>6, <1>7

LEMMA FallbackRefines ==
    ASSUME AttemptInv, AuditInv, NEW w \in Workers,
           FallbackAudit(w), ~UNCHANGED run
    PROVE  \/ Lifecycle!Disown(worker[w].job)
           \/ Lifecycle!Recant(worker[w].job)
           \/ UNCHANGED Lifecycle!lifecycle
  <1> DEFINE j == worker[w].job  n == worker[w].attempt
  <1>1. /\ worker[w].pc = "fallback"
        /\ job[j].owner = w => run[j][n].status = "running"
        /\ job[j].owner # w =>
              \/ run[j][n].status = "failed"
              \/ /\ LossyReplies
                 /\ run[j][n].status \in GoodRunStatus
                 /\ job[j].status = "succeeded"
                 /\ job[j].attempts = n
        /\ OnlyWrites(j, n, "failed")
        /\ job' = job
    BY FallbackFacts
  <1>2. /\ j \in Jobs /\ n \in Attempts
        /\ job[j].owner = w => job[j].status = "processing" /\ job[j].attempts = n
    BY <1>1, OwnerFacts
  <1> HIDE DEF j, n
  <1>3. \A i \in Jobs, k \in Attempts :
           VerdictOf(run'[i][k].status) = IF i = j /\ k = n THEN "bad"
                                          ELSE VerdictOf(run[i][k].status)
    BY <1>1, VerdictFacts DEF OnlyWrites
  <1>4. CASE job[j].owner = w
    <2>1. PhaseOf(job[j].status) = "held" /\ VerdictOf(run[j][n].status) = "open"
      BY <1>1, <1>2, <1>4, PhaseFacts, VerdictFacts
    <2>2. \A i \in Jobs, k \in Attempts :
             VerdictOf(run'[i][k].status) =
                IF /\ i \in {j} /\ PhaseOf(job[i].status) = "held"
                   /\ k = job[i].attempts /\ VerdictOf(run[i][k].status) = "open"
                THEN "bad" ELSE VerdictOf(run[i][k].status)
      BY <1>2, <1>3, <1>4, <2>1
    <2>3. Lifecycle!Disown(j)
      BY <1>1, <1>2, <1>4, <2>1, <2>2
         DEF Lifecycle!Disown, Lifecycle!CloseLatest, Lifecycle!Tries, Attempts
    <2> QED BY <2>3 DEF j
  <1>5. CASE run[j][n].status = "failed"
    <2>1. VerdictOf(run[j][n].status) = "bad"
      BY <1>5, VerdictFacts
    <2> QED BY <1>1, <1>3, <2>1 DEF Lifecycle!lifecycle
  <1>6. CASE /\ LossyReplies
             /\ run[j][n].status \in GoodRunStatus
             /\ job[j].status = "succeeded"
             /\ job[j].attempts = n
    <2>1. PhaseOf(job[j].status) = "done" /\ VerdictOf(run[j][n].status) = "good"
      BY <1>6, PhaseFacts, VerdictFacts
    <2>2. [i \in Jobs |-> [k \in Attempts |-> VerdictOf(run'[i][k].status)]]
            = [[i \in Jobs |-> [k \in Attempts |-> VerdictOf(run[i][k].status)]]
                 EXCEPT ![j][n] = "bad"]
      BY <1>2, <1>3
    <2>3. Lifecycle!Recant(j)
      BY <1>1, <1>2, <1>6, <2>1, <2>2 DEF Lifecycle!Recant
    <2> QED BY <2>3 DEF j
  <1> QED BY <1>1, <1>4, <1>5, <1>6

-----------------------------------------------------------------------------
LEMMA StepRefines ==
    ASSUME AttemptInv, AuditInv, AuditStep
    PROVE  [Lifecycle!Next]_(Lifecycle!lifecycle)
  <1>1. CASE AuditUnchanged
    BY <1>1, UnchangedLifecycle
  <1>2. CASE RunsUnchanged /\ \E j \in Jobs : Submitted(j)
    BY <1>2, SubmitRefines DEF Lifecycle!Next
  <1>3. CASE \E js \in SUBSET Jobs : Removed(js)
    BY <1>3, RemoveRefines DEF Lifecycle!Next
  <1>4. ASSUME NEW w \in Workers, NEW granted \in SUBSET Jobs,
               NEW buried \in SUBSET Jobs, Dispatched(w, granted, buried)
        PROVE  Lifecycle!Next
    BY <1>4, DispatchRefines DEF Lifecycle!Next
  <1>5. ASSUME NEW w \in Workers,
               \/ StartScan(w) \/ InsertRunReplyLost(w)
               \/ FinishJobAndRun(w) \/ FinishReplyLost(w)
               \/ FinishWithoutRun(w) /\ ~UNCHANGED job
               \/ FallbackAudit(w) /\ ~UNCHANGED run
        PROVE  [Lifecycle!Next]_(Lifecycle!lifecycle)
    <2>1. worker[w].job \in Jobs
      <3>1. worker[w].pc \notin {"idle", "dead"}
        BY ZenonT(150), <1>5 DEF StartScan, InsertRunReplyLost, FinishJobAndRun, FinishReplyLost,
                    FinishWithoutRun, FallbackAudit
      <3> QED BY <3>1, OwnerFacts
    <2>2. \/ Lifecycle!Open(worker[w].job)
          \/ Lifecycle!Succeed(worker[w].job)
          \/ Lifecycle!Fail(worker[w].job)
          \/ Lifecycle!Forsake(worker[w].job)
          \/ Lifecycle!Disown(worker[w].job)
          \/ Lifecycle!Recant(worker[w].job)
          \/ UNCHANGED Lifecycle!lifecycle
      BY <1>5, OpenRefines, FinishRefines, FinishWithoutRunRefines, FallbackRefines
    <2> QED BY <2>1, <2>2 DEF Lifecycle!Next
  <1> QED BY <1>1, <1>2, <1>3, <1>4, <1>5 DEF AuditStep

\* Every behaviour of the queue is one of JobLifecycle's, for every number of
\* workers, jobs and attempts; where replies arrive, of one that forgets nothing
\* (Forgetful is LossyReplies).
THEOREM QueueImplementsLifecycle == Spec => ImplementsLifecycle
  <1>1. AttemptInv /\ AuditInv /\ [Next]_vars => [Lifecycle!Next]_(Lifecycle!lifecycle)
    BY NextAuditStep, StepRefines
  <1> QED BY <1>1, InitLifecycle, AttemptsAreConsistent, AuditIsConsistent, PTL
          DEF Spec, ImplementsLifecycle, Lifecycle!Spec
=============================================================================
