------------------------------ MODULE ScanJobs ------------------------------
(***************************************************************************)
(* The durable scan queue of coin-listener: the tables scan_jobs and       *)
(* scan_runs, the scheduler that inserts jobs for due addresses, the       *)
(* workers that claim, scan and finalise them under a lease, the audit     *)
(* retry of the API, and the crashes, lost replies and database errors     *)
(* that hit any of them.                                                   *)
(*                                                                         *)
(* A SQL statement, or a transaction that holds its row locks until        *)
(* commit, is one action.  What a worker remembers between two statements  *)
(* is its record in worker.  Time is abstracted: due stands for            *)
(* next_attempt_at <= NOW() and next_scan_at <= now, lease counts the      *)
(* ticks left until lease_expires_at and 0 means it is not after NOW().    *)
(*                                                                         *)
(* A claim creates at most one scan run, so the n-th attempt of job j owns *)
(* run[j][n]; last_scan_run_id of a job is the attempt of that run, or 0.  *)
(***************************************************************************)
EXTENDS Naturals

CONSTANTS
    Workers,        \* worker process incarnations; a restart is a new one
    Schedulers,     \* scheduler processes
    Addresses,      \* watched addresses
    MaxJobs,        \* bound: job rows ever inserted
    MaxAttempts,    \* SCAN_JOB_MAX_ATTEMPTS, shared by scheduler and API
    LeaseTTL,       \* SCAN_LOCK_TTL_SECONDS, in ticks
    LossyReplies,   \* may the reply of a committed statement be lost?
    None

ASSUME ScanJobsAssumption ==
    /\ MaxJobs \in Nat
    /\ MaxAttempts \in Nat \ {0}
    /\ LeaseTTL \in Nat \ {0}
    /\ LossyReplies \in BOOLEAN
    /\ None \notin Workers
    /\ None \notin Addresses

VARIABLES
    job,        \* scan_jobs
    run,        \* scan_runs, by job and attempt
    worker,     \* what each worker process remembers
    selected,   \* the candidate a scheduler has read but not yet enqueued
    address     \* watched_addresses: status and whether a scan is due

vars == <<job, run, worker, selected, address>>

Jobs == 1..MaxJobs
Attempts == 1..MaxAttempts

WaitingStatus == {"pending", "retryable"}
ActiveStatus == WaitingStatus \cup {"processing"}
FinalStatus == {"succeeded", "dead_letter"}
GoodRunStatus == {"success", "unsupported"}

\* "absent": not inserted yet; "deleted": removed with its address.
JobRow == [status : ActiveStatus \cup FinalStatus \cup {"absent", "deleted"},
           addr : Addresses \cup {None},
           attempts : 0..MaxAttempts,
           owner : Workers \cup {None},
           lease : 0..LeaseTTL,
           due : BOOLEAN,
           lastRun : 0..MaxAttempts]

\* retryTask is metadata.retry_task_id, 0 while no retry was granted.
RunRow == [status : {"absent", "running", "failed", "deleted"} \cup GoodRunStatus,
           retryTask : 0..MaxJobs]

WorkerState == [pc : {"idle", "claimed", "scanning", "finish", "commit",
                      "fallback", "dead"},
                job : 0..MaxJobs,
                attempt : 0..MaxAttempts,
                hasRun : BOOLEAN,
                result : GoodRunStatus \cup {"none", "error"},
                lost : BOOLEAN,
                nowLive : BOOLEAN]

AddressRow == [status : {"active", "inactive", "deleted"}, due : BOOLEAN]

NoJob == [status |-> "absent", addr |-> None, attempts |-> 0, owner |-> None,
          lease |-> 0, due |-> FALSE, lastRun |-> 0]
NoRun == [status |-> "absent", retryTask |-> 0]
IdleWorker == [pc |-> "idle", job |-> 0, attempt |-> 0, hasRun |-> FALSE,
               result |-> "none", lost |-> FALSE, nowLive |-> FALSE]

Init ==
    /\ job = [j \in Jobs |-> NoJob]
    /\ run = [j \in Jobs |-> [n \in Attempts |-> NoRun]]
    /\ worker = [w \in Workers |-> IdleWorker]
    /\ selected = [s \in Schedulers |-> None]
    /\ address = [a \in Addresses |-> [status |-> "active", due |-> TRUE]]

-----------------------------------------------------------------------------
\* The partial unique index idx_scan_jobs_active_address is on these rows.
Active(j) == job[j].status \in ActiveStatus
HasActiveJob(a) == \E j \in Jobs : Active(j) /\ job[j].addr = a

\* Job ids are handed out in created_at order.
Fresh(j) == /\ job[j].status = "absent"
            /\ \A i \in Jobs : i < j => job[i].status # "absent"

PendingJob(a) == [NoJob EXCEPT !.status = "pending", !.addr = a, !.due = TRUE]

\* The WHERE clause shared by the renewal, the run insert and the finalisers.
OwnsLiveLease(w, j) == /\ job[j].status = "processing"
                       /\ job[j].owner = w
                       /\ job[j].lease > 0

-----------------------------------------------------------------------------
(* The scheduler.                                                          *)

\* The SELECT of the enqueue transaction reads its snapshot.
SchedulerSelect(s, a) ==
    /\ selected[s] = None
    /\ address[a].status = "active"
    /\ address[a].due
    /\ ~HasActiveJob(a)
    /\ selected' = [selected EXCEPT ![s] = a]
    /\ UNCHANGED <<job, run, worker, address>>

\* Faulty: the row is inserted whether or not the address has an active job.
SchedulerEnqueueIgnoringConflict(s) ==
    /\ selected[s] # None
    /\ selected' = [selected EXCEPT ![s] = None]
    /\ address' = [address EXCEPT ![selected[s]].due = FALSE]
    /\ \E j \in Jobs : /\ Fresh(j)
                       /\ job' = [job EXCEPT ![j] = PendingJob(selected[s])]
    /\ UNCHANGED <<run, worker>>

\* It then locks the row, which rechecks the row's own columns but not the
\* NOT EXISTS; inserts ON CONFLICT DO NOTHING; and moves next_scan_at.
SchedulerEnqueue(s) ==
    /\ selected[s] # None
    /\ selected' = [selected EXCEPT ![s] = None]
    /\ LET a == selected[s] IN
         \/ /\ address[a] # [status |-> "active", due |-> TRUE]
            /\ UNCHANGED <<job, address>>
         \/ /\ address[a] = [status |-> "active", due |-> TRUE]
            /\ address' = [address EXCEPT ![a].due = FALSE]
            /\ \/ HasActiveJob(a) /\ UNCHANGED job
               \/ /\ ~HasActiveJob(a)
                  /\ \E j \in Jobs : /\ Fresh(j)
                                     /\ job' = [job EXCEPT ![j] = PendingJob(a)]
    /\ UNCHANGED <<run, worker>>

\* A database error or a stop rolls the transaction back.
SchedulerAborts(s) ==
    /\ selected[s] # None
    /\ selected' = [selected EXCEPT ![s] = None]
    /\ UNCHANGED <<job, run, worker, address>>

-----------------------------------------------------------------------------
(* Operators and the passing of time.                                      *)

AddressFallsDue(a) ==
    /\ address[a].status # "deleted"
    /\ ~address[a].due
    /\ address' = [address EXCEPT ![a].due = TRUE]
    /\ UNCHANGED <<job, run, worker, selected>>

SetAddressStatus(a) ==
    /\ address[a].status # "deleted"
    /\ \E status \in {"active", "inactive"} \ {address[a].status} :
         address' = [address EXCEPT ![a].status = status]
    /\ UNCHANGED <<job, run, worker, selected>>

\* Jobs and runs go with their address (ON DELETE CASCADE).
DeleteAddress(a) ==
    /\ address[a].status # "deleted"
    /\ address' = [address EXCEPT ![a] = [status |-> "deleted", due |-> FALSE]]
    /\ job' = [j \in Jobs |-> IF job[j].addr = a
                              THEN [NoJob EXCEPT !.status = "deleted", !.addr = a]
                              ELSE job[j]]
    /\ run' = [j \in Jobs |-> IF job[j].addr = a
                              THEN [n \in Attempts |-> [NoRun EXCEPT !.status = "deleted"]]
                              ELSE run[j]]
    /\ UNCHANGED <<worker, selected>>

BackoffElapses(j) ==
    /\ job[j].status \in WaitingStatus
    /\ ~job[j].due
    /\ job' = [job EXCEPT ![j].due = TRUE]
    /\ UNCHANGED <<run, worker, selected, address>>

LeaseTicks(j) ==
    /\ job[j].status = "processing"
    /\ job[j].lease > 0
    /\ job' = [job EXCEPT ![j].lease = @ - 1]
    /\ UNCHANGED <<run, worker, selected, address>>

\* POST /api/scan-runs/:id/retry: the run must be failed or unsupported, its
\* address active, and not retried before; a waiting job of the address is
\* made due, a processing one refuses the retry and rolls everything back.
\* The attempts a waiting job has used up stay used up.
RetryRun(i, n) ==
    /\ run[i][n].status \in {"failed", "unsupported"}
    /\ run[i][n].retryTask = 0
    /\ address[job[i].addr].status = "active"
    /\ \E j \in Jobs :
         /\ \/ /\ Active(j) /\ job[j].addr = job[i].addr
               /\ job[j].status \in WaitingStatus
               /\ job' = [job EXCEPT ![j].status = "pending", ![j].due = TRUE]
            \/ /\ ~HasActiveJob(job[i].addr)
               /\ Fresh(j)
               /\ job' = [job EXCEPT ![j] = PendingJob(job[i].addr)]
         /\ run' = [run EXCEPT ![i][n].retryTask = j]
    /\ UNCHANGED <<worker, selected, address>>

-----------------------------------------------------------------------------
(* The worker.                                                             *)

ExpiredJobs == {j \in Jobs : job[j].status = "processing" /\ job[j].lease = 0}

\* CLAIM_DUE_SCAN_JOB buries the expired jobs that have no attempt left ...
DeadLettered == {j \in ExpiredJobs : job[j].attempts >= MaxAttempts}

\* Faulty: the attempts used up are not compared, or nothing is reclaimed.
ReclaimableForever == ExpiredJobs
NeverReclaimable == {}

\* ... and takes one due job, a stale processing one first.
Reclaimable == {j \in ExpiredJobs : job[j].attempts < MaxAttempts}
DueJobs == IF Reclaimable # {}
           THEN Reclaimable
           ELSE {j \in Jobs : job[j].status \in WaitingStatus /\ job[j].due}

\* Faulty: the runs of reclaimed and buried jobs stay open.
CloseNoRuns(js) == run

\* The run a job points at is closed when it is still running.
CloseRunsOf(js) ==
    [j \in Jobs |->
       [n \in Attempts |->
          IF j \in js /\ job[j].lastRun = n /\ run[j][n].status = "running"
          THEN [run[j][n] EXCEPT !.status = "failed"]
          ELSE run[j][n]]]

BuriedJob(j) == [job[j] EXCEPT !.status = "dead_letter", !.owner = None,
                               !.lease = 0]

ClaimedJob(j, w) == [job[j] EXCEPT !.status = "processing", !.owner = w,
                                   !.lease = LeaseTTL, !.attempts = @ + 1]

ClaimUpdate(w, claimed) ==
    /\ job' = [j \in Jobs |-> IF j \in DeadLettered THEN BuriedJob(j)
                              ELSE IF j \in claimed THEN ClaimedJob(j, w)
                              ELSE job[j]]
    /\ run' = CloseRunsOf(DeadLettered \cup claimed)

Claim(w) ==
    /\ worker[w].pc = "idle"
    /\ \E j \in DueJobs :
         /\ ClaimUpdate(w, {j})
         /\ worker' = [worker EXCEPT ![w] =
                         [IdleWorker EXCEPT !.pc = "claimed", !.job = j,
                                            !.attempt = job[j].attempts + 1]]
    /\ UNCHANGED <<selected, address>>

\* Nothing is due, but the dead-letter part of the statement still runs; an
\* idle worker polls for ever.
ClaimNothing(w) ==
    /\ worker[w].pc = "idle"
    /\ DueJobs = {}
    /\ ClaimUpdate(w, {})
    /\ UNCHANGED <<worker, selected, address>>

\* The claim commits, the worker sees an error and never learns of the job.
ClaimReplyLost(w) ==
    /\ LossyReplies
    /\ worker[w].pc = "idle"
    /\ \E j \in DueJobs : ClaimUpdate(w, {j})
    /\ UNCHANGED <<worker, selected, address>>

\* The renewal task runs beside the scan until the job is finalised.
RenewLease(w) ==
    /\ worker[w].pc \in {"claimed", "scanning", "finish", "commit", "fallback"}
    /\ ~worker[w].lost
    /\ OwnsLiveLease(w, worker[w].job)
    /\ job' = [job EXCEPT ![worker[w].job].lease = LeaseTTL]
    /\ UNCHANGED <<run, worker, selected, address>>

\* No row updated, or a database error: ownership_lost is raised and the
\* renewal task ends.
RenewalFails(w) ==
    /\ worker[w].pc \in {"claimed", "scanning", "finish", "commit", "fallback"}
    /\ ~worker[w].lost
    /\ worker' = [worker EXCEPT ![w].lost = TRUE]
    /\ UNCHANGED <<job, run, selected, address>>

\* INSERT_SCAN_RUN, for an active address and under the lease only.
InsertRun(w) ==
    LET j == worker[w].job  n == worker[w].attempt IN
      /\ address[job[j].addr].status = "active"
      /\ OwnsLiveLease(w, j)
      /\ run' = [run EXCEPT ![j][n].status = "running"]
      /\ job' = [job EXCEPT ![j].lastRun = n]

StartScan(w) ==
    /\ worker[w].pc = "claimed"
    /\ InsertRun(w)
    /\ worker' = [worker EXCEPT
                    ![w].hasRun = TRUE,
                    ![w].pc = IF worker[w].lost THEN "finish" ELSE "scanning",
                    ![w].result = IF worker[w].lost THEN "error" ELSE "none"]
    /\ UNCHANGED <<selected, address>>

\* Context or run insert refused, or a database error: the scan is blocked.
ScanBlocked(w) ==
    /\ worker[w].pc = "claimed"
    /\ worker' = [worker EXCEPT ![w].pc = "finish", ![w].result = "error"]
    /\ UNCHANGED <<job, run, selected, address>>

\* The run was inserted but the worker sees an error instead of the row.
InsertRunReplyLost(w) ==
    /\ LossyReplies
    /\ worker[w].pc = "claimed"
    /\ InsertRun(w)
    /\ worker' = [worker EXCEPT ![w].pc = "finish", ![w].result = "error"]
    /\ UNCHANGED <<selected, address>>

\* The scan ends well.  finish_address_scan is not guarded by the lease: it
\* writes next_scan_at = started_at + interval, which may already be past.
ScanSucceeds(w) ==
    LET a == job[worker[w].job].addr IN
      /\ worker[w].pc = "scanning"
      /\ address[a].status # "deleted"
      /\ \E due \in BOOLEAN : address' = [address EXCEPT ![a].due = due]
      /\ \E result \in GoodRunStatus :
           worker' = [worker EXCEPT ![w].pc = "finish", ![w].result = result]
      /\ UNCHANGED <<job, run, selected>>

\* A provider, configuration or database error ends it, or the lost lease
\* cancels it; finish_address_scan may have been written by then.
ScanFails(w) ==
    LET a == job[worker[w].job].addr IN
      /\ worker[w].pc = "scanning"
      /\ worker' = [worker EXCEPT ![w].pc = "finish", ![w].result = "error"]
      /\ \/ UNCHANGED address
         \/ /\ address[a].status # "deleted"
            /\ \E due \in BOOLEAN : address' = [address EXCEPT ![a].due = due]
      /\ UNCHANGED <<job, run, selected>>

\* The three finalisers: succeeded, dead_letter, retryable.
FinalStatusFor(w) ==
    IF worker[w].result # "error" THEN "succeeded"
    ELSE IF worker[w].attempt >= MaxAttempts THEN "dead_letter"
    ELSE "retryable"

FinalisedJob(w, lastRun) ==
    [job[worker[w].job] EXCEPT !.status = FinalStatusFor(w), !.owner = None,
                               !.lease = 0, !.lastRun = lastRun,
                               !.due = (FinalStatusFor(w) # "retryable")]

\* Without a run the job is finalised by one statement; its errors are only
\* logged, and last_scan_run_id becomes NULL.
FinishWithoutRun(w) ==
    /\ worker[w].pc = "finish"
    /\ ~worker[w].hasRun
    /\ \/ /\ OwnsLiveLease(w, worker[w].job)
          /\ job' = [job EXCEPT ![worker[w].job] = FinalisedJob(w, 0)]
       \/ UNCHANGED job
    /\ worker' = [worker EXCEPT ![w] = IdleWorker]
    /\ UNCHANGED <<run, selected, address>>

\* With a run, BEGIN fixes NOW() for the lease test of the transaction.
BeginFinish(w) ==
    /\ worker[w].pc = "finish"
    /\ worker[w].hasRun
    /\ worker' = [worker EXCEPT ![w].pc = "commit",
                                ![w].nowLive = (job[worker[w].job].lease > 0)]
    /\ UNCHANGED <<job, run, selected, address>>

\* Faulty: the finalisers do not compare locked_by.
FinishUpdateUnfenced(w) ==
    LET j == worker[w].job  n == worker[w].attempt IN
      /\ job[j].status = "processing"
      /\ job' = [job EXCEPT ![j] = FinalisedJob(w, n)]
      /\ run' = [run EXCEPT ![j][n].status =
                   IF worker[w].result = "error" THEN "failed" ELSE worker[w].result]

\* Faulty: the run is recorded even when the job update matched no row.
FinishUpdateNotAtomic(w) ==
    LET j == worker[w].job  n == worker[w].attempt IN
      /\ job' = IF OwnsLiveLease(w, j)
                THEN [job EXCEPT ![j] = FinalisedJob(w, n)] ELSE job
      /\ run' = [run EXCEPT ![j][n].status =
                   IF worker[w].result = "error" THEN "failed" ELSE worker[w].result]

\* Faulty: the job is finalised without its run.
FinishUpdateJobOnly(w) ==
    /\ OwnsLiveLease(w, worker[w].job)
    /\ job' = [job EXCEPT ![worker[w].job] = FinalisedJob(w, worker[w].attempt)]
    /\ UNCHANGED run

\* The job update, the run update (which tests no status) and COMMIT.
FinishUpdate(w) ==
    LET j == worker[w].job  n == worker[w].attempt IN
      /\ job[j].status = "processing"
      /\ job[j].owner = w
      /\ worker[w].nowLive
      /\ job' = [job EXCEPT ![j] = FinalisedJob(w, n)]
      /\ run' = [run EXCEPT ![j][n].status =
                   IF worker[w].result = "error" THEN "failed" ELSE worker[w].result]

FinishJobAndRun(w) ==
    /\ worker[w].pc = "commit"
    /\ FinishUpdate(w)
    /\ worker' = [worker EXCEPT ![w] = IdleWorker]
    /\ UNCHANGED <<selected, address>>

\* No row matched, or a database error: everything is rolled back.
FinishFails(w) ==
    /\ worker[w].pc \in {"finish", "commit"}
    /\ worker[w].hasRun
    /\ worker' = [worker EXCEPT ![w].pc = "fallback"]
    /\ UNCHANGED <<job, run, selected, address>>

\* The transaction committed, the worker sees an error.
FinishReplyLost(w) ==
    /\ LossyReplies
    /\ worker[w].pc = "commit"
    /\ FinishUpdate(w)
    /\ worker' = [worker EXCEPT ![w].pc = "fallback"]
    /\ UNCHANGED <<selected, address>>

\* The fallback marks the worker's own run failed, whatever it is by now; it
\* does nothing when the run is gone or the database fails again.
FallbackAudit(w) ==
    LET j == worker[w].job  n == worker[w].attempt IN
      /\ worker[w].pc = "fallback"
      /\ \/ /\ run[j][n].status # "deleted"
            /\ run' = [run EXCEPT ![j][n].status = "failed"]
         \/ UNCHANGED run
      /\ worker' = [worker EXCEPT ![w] = IdleWorker]
      /\ UNCHANGED <<job, selected, address>>

\* The process stops or dies; at least one worker is kept running.
Crash(w) ==
    /\ worker[w].pc # "dead"
    /\ \E v \in Workers \ {w} : worker[v].pc # "dead"
    /\ worker' = [worker EXCEPT ![w] = [IdleWorker EXCEPT !.pc = "dead"]]
    /\ UNCHANGED <<job, run, selected, address>>

-----------------------------------------------------------------------------
WorkerStep(w) ==
    \/ Claim(w) \/ ClaimNothing(w)
    \/ StartScan(w) \/ ScanBlocked(w)
    \/ ScanSucceeds(w) \/ ScanFails(w)
    \/ FinishWithoutRun(w) \/ BeginFinish(w) \/ FinishJobAndRun(w)
    \/ FinishFails(w) \/ FallbackAudit(w)

Next ==
    \/ \E s \in Schedulers : \/ \E a \in Addresses : SchedulerSelect(s, a)
                             \/ SchedulerEnqueue(s)
                             \/ SchedulerAborts(s)
    \/ \E a \in Addresses : \/ AddressFallsDue(a)
                            \/ SetAddressStatus(a)
                            \/ DeleteAddress(a)
    \/ \E j \in Jobs : \/ BackoffElapses(j)
                       \/ LeaseTicks(j)
                       \/ \E n \in Attempts : RetryRun(j, n)
    \/ \E w \in Workers : \/ WorkerStep(w)
                          \/ RenewLease(w) \/ RenewalFails(w)
                          \/ ClaimReplyLost(w) \/ InsertRunReplyLost(w)
                          \/ FinishReplyLost(w)
                          \/ Crash(w)

Spec == Init /\ [][Next]_vars

\* A live worker keeps stepping, time passes; nothing is promised of the
\* scheduler, the API, the renewal task or the database's health.
Fairness ==
    /\ \A w \in Workers : WF_vars(WorkerStep(w))
    /\ \A j \in Jobs : WF_vars(BackoffElapses(j)) /\ WF_vars(LeaseTicks(j))

FairSpec == Spec /\ Fairness

-----------------------------------------------------------------------------
(* Properties.                                                             *)

\* Every row and every worker's memory has its type.
TypeOK ==
    /\ job \in [Jobs -> JobRow]
    /\ run \in [Jobs -> [Attempts -> RunRow]]
    /\ worker \in [Workers -> WorkerState]
    /\ selected \in [Schedulers -> Addresses \cup {None}]
    /\ address \in [Addresses -> AddressRow]

\* However schedulers with stale snapshots and audit retries interleave, an
\* address never has two jobs a worker could take or is working on.
OneActiveJobPerAddress ==
    \A i, j \in Jobs :
        Active(i) /\ Active(j) /\ job[i].addr = job[j].addr => i = j

\* A waiting job has an attempt left, so that it can still be claimed, even
\* after an audit retry revived it; a dead letter has used up every attempt.
AttemptBudget ==
    \A j \in Jobs :
        /\ job[j].status \in WaitingStatus => job[j].attempts < MaxAttempts
        /\ job[j].status = "dead_letter" => job[j].attempts = MaxAttempts

\* The audit never claims a success the queue does not know of: a good run
\* is the last run of a succeeded job, whoever wrote it and however late.
GoodRunMeansSucceededJob ==
    \A j \in Jobs, n \in Attempts :
        run[j][n].status \in GoodRunStatus =>
            job[j].status = "succeeded" /\ job[j].lastRun = n

\* With replies that arrive, a succeeded job points at a run recorded good:
\* neither a stale worker nor a fallback audit write contradicts it.
SucceededJobHasGoodRun ==
    \A j \in Jobs :
        job[j].status = "succeeded" =>
            \E n \in Attempts : /\ job[j].lastRun = n
                                /\ run[j][n].status \in GoodRunStatus

\* With replies that arrive, an open run belongs to the current attempt of a
\* job that is still processing: crashes and reclaims leave no orphan.
RunningRunIsCurrent ==
    \A j \in Jobs, n \in Attempts :
        run[j][n].status = "running" =>
            /\ job[j].status = "processing"
            /\ job[j].attempts = n
            /\ job[j].lastRun = n

\* A worker that remembers the attempt it claimed is fenced by locked_by
\* alone: whenever it is the owner, the attempt is still the current one.
OwnerIsCurrent ==
    \A w \in Workers :
        LET j == worker[w].job IN
            j # 0 /\ job[j].owner = w => worker[w].attempt = job[j].attempts

\* A worker is busy with one attempt of one job, or remembers none; it scans
\* only under a run, and once it finalises its scan has a result.
WorkerMemory ==
    \A w \in Workers :
        /\ worker[w].pc \in {"idle", "dead"} => worker[w].job = 0
        /\ worker[w].pc \notin {"idle", "dead"} =>
              worker[w].job \in Jobs /\ worker[w].attempt \in Attempts
        /\ worker[w].pc \in {"finish", "commit", "fallback"} =>
              worker[w].result # "none"
        /\ worker[w].pc = "scanning" => worker[w].hasRun
        /\ worker[w].result \in GoodRunStatus => worker[w].hasRun

\* The attempt arithmetic of claims, finalisers and retries is consistent:
\* the types depend on the budget, the budget on the fencing of the owner.
AttemptInv == TypeOK /\ WorkerMemory /\ OwnerIsCurrent /\ AttemptBudget

\* A job leaves processing for succeeded or retryable only through the
\* worker that holds its current attempt, never through a stale one.
FencedFinishStep ==
    \A j \in Jobs :
        /\ job[j].status = "processing"
        /\ job'[j].status \in {"succeeded", "retryable"}
        => \E w \in Workers :
             /\ worker[w].job = j
             /\ worker[w].attempt = job[j].attempts
             /\ worker'[w].job # j \/ worker'[w].pc = "fallback"

FencedFinish == [][FencedFinishStep]_vars

\* A run recorded failed, by its worker or by a reclaim, is never recorded
\* good by the worker that comes back late.
FailedRunStaysFailed ==
    [][\A j \in Jobs, n \in Attempts :
         run[j][n].status = "failed" => run'[j][n].status \in {"failed", "deleted"}]_vars

\* Every job is finally succeeded, dead-lettered or deleted, whatever crashes,
\* database errors and lost replies hit its attempts.
EveryJobEnds == \A j \in Jobs : Active(j) ~> ~Active(j)

\* With replies that arrive, no run is left running in the audit for ever.
EveryRunEnds ==
    \A j \in Jobs, n \in Attempts :
        run[j][n].status = "running" ~> run[j][n].status # "running"

\* The audit design: an audit write that fails does not make a scan that
\* succeeded be reported as failed.
SuccessfulScanNeverReportedFailed ==
    [][\A w \in Workers :
         /\ worker[w].pc \in {"commit", "fallback"}
         /\ worker[w].result \in GoodRunStatus
         /\ OwnsLiveLease(w, worker[w].job)
         => run'[worker[w].job][worker[w].attempt].status # "failed"]_vars

-----------------------------------------------------------------------------
(* What the queue promises, as JobLifecycle states it.                     *)

PhaseOf(status) ==
    CASE status = "absent" -> "none"
      [] status \in WaitingStatus -> "waiting"
      [] status = "processing" -> "held"
      [] status = "succeeded" -> "done"
      [] status = "dead_letter" -> "dead"
      [] status = "deleted" -> "gone"

VerdictOf(status) ==
    CASE status = "absent" -> "none"
      [] status = "running" -> "open"
      [] status \in GoodRunStatus -> "good"
      [] status = "failed" -> "bad"
      [] status = "deleted" -> "gone"

Lifecycle == INSTANCE JobLifecycle WITH
    Limit <- MaxAttempts,
    Forgetful <- LossyReplies,
    phase <- [j \in Jobs |-> PhaseOf(job[j].status)],
    tries <- [j \in Jobs |-> job[j].attempts],
    verdict <- [j \in Jobs |-> [n \in Attempts |-> VerdictOf(run[j][n].status)]]

\* Every interleaving of schedulers, workers, leases, crashes, retries and lost
\* replies is one of the lifecycle's histories; where replies arrive, one in
\* which nothing is forsaken or recanted.
ImplementsLifecycle == Lifecycle!Spec
=============================================================================
