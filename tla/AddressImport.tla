---------------------------- MODULE AddressImport ----------------------------
(***************************************************************************)
(* Batch imports of watched addresses: the API that submits and cancels    *)
(* tasks, the attempts (one per row and chain) a task consists of, and the *)
(* workers that claim a task, create the addresses of a batch of attempts, *)
(* refresh the counts and complete the task.                               *)
(*                                                                         *)
(* A SQL statement or transaction is one action, except the refresh of the *)
(* counts: it aggregates the attempts in its snapshot and then may have to *)
(* wait for the row of the task, which Postgres re-reads while it keeps    *)
(* the aggregate.  stale stands for locked_at < now - 5 minutes.           *)
(***************************************************************************)
EXTENDS Naturals, FiniteSets

CONSTANTS
    Workers,        \* worker process incarnations; a restart is a new one
    Tasks,          \* import tasks that may be submitted
    AttemptCount,   \* attempts of a task: rows times chains
    BatchSize,      \* ADDRESS_IMPORT_ROW_BATCH_SIZE
    MaxFaults,      \* bound: database errors and overtakings that ever happen
    None

ASSUME AddressImportAssumption ==
    /\ AttemptCount \in Nat \ {0}
    /\ BatchSize \in Nat \ {0}
    /\ MaxFaults \in Nat
    /\ None \notin Workers
    /\ None \notin Tasks

VARIABLES
    task,       \* watched_address_import_tasks
    attempt,    \* watched_address_import_attempts, by task and row number
    created,    \* attempts whose watched address this import has created
    worker,     \* what each worker remembers of the task it works on
    overtaken,  \* tasks whose lock went stale under a working worker
    faults      \* faults that may still happen

vars == <<task, attempt, created, worker, overtaken, faults>>

Rows == 1..AttemptCount
OpenStatus == {"pending", "running"}
FinishedStatus == {"completed", "failed"}

CountsRow == [processed : 0..AttemptCount,
              success : 0..AttemptCount,
              failed : 0..AttemptCount]

TaskRow == [status : OpenStatus \cup FinishedStatus \cup {"absent", "cancelled"},
            owner : Workers \cup {None},
            stale : BOOLEAN,
            counts : CountsRow]

AttemptStatus == {"pending", "success", "failed", "skipped"}

\* refreshes: how many of the two refreshes of a batch are still to come.
WorkerState == [pc : {"idle", "renew", "read", "attempt", "create", "refuse",
                      "refresh", "write", "check", "complete", "dead"},
                task : Tasks \cup {None},
                batch : SUBSET Rows,
                refreshes : 0..2,
                counts : CountsRow]

NoCounts == [processed |-> 0, success |-> 0, failed |-> 0]
NoTask == [status |-> "absent", owner |-> None, stale |-> FALSE, counts |-> NoCounts]
IdleWorker == [pc |-> "idle", task |-> None, batch |-> {}, refreshes |-> 0,
               counts |-> NoCounts]

Init ==
    /\ task = [t \in Tasks |-> NoTask]
    /\ attempt = [t \in Tasks |-> [r \in Rows |-> "pending"]]
    /\ created = [t \in Tasks |-> [r \in Rows |-> FALSE]]
    /\ worker = [w \in Workers |-> IdleWorker]
    /\ overtaken = [t \in Tasks |-> FALSE]
    /\ faults = MaxFaults

Fault == faults > 0 /\ faults' = faults - 1

\* Faulty: an attempt that was skipped or succeeded is counted twice.
CountsOfTwice(status) ==
    [processed |-> Cardinality({r \in Rows : status[r] # "pending"})
                   + Cardinality({r \in Rows : status[r] \in {"success", "skipped"}}),
     success |-> Cardinality({r \in Rows : status[r] = "success"}),
     failed |-> Cardinality({r \in Rows : status[r] = "failed"})]

\* The aggregate of REFRESH_IMPORT_TASK_COUNTS and of the cancellation.
CountsOf(status) ==
    [processed |-> Cardinality({r \in Rows : status[r] # "pending"}),
     success |-> Cardinality({r \in Rows : status[r] = "success"}),
     failed |-> Cardinality({r \in Rows : status[r] = "failed"})]

-----------------------------------------------------------------------------
(* The API, and the passing of time.                                       *)

\* Task, rows and attempts are inserted in one transaction.
SubmitImport(t) ==
    /\ task[t].status = "absent"
    /\ task' = [task EXCEPT ![t].status = "pending"]
    /\ UNCHANGED <<attempt, created, worker, overtaken, faults>>

\* Attempts first, then the task with fresh counts, in one transaction that
\* is rolled back when the task is no longer open.
CancelImport(t) ==
    LET skipped == [r \in Rows |-> IF attempt[t][r] = "pending" THEN "skipped"
                                   ELSE attempt[t][r]]
    IN
      /\ task[t].status \in OpenStatus
      /\ attempt' = [attempt EXCEPT ![t] = skipped]
      /\ task' = [task EXCEPT ![t] = [status |-> "cancelled", owner |-> None,
                                      stale |-> FALSE, counts |-> CountsOf(skipped)]]
      /\ UNCHANGED <<created, worker, overtaken, faults>>

\* Some worker is in the middle of the task's processing.
Held(t) == \E w \in Workers : worker[w].task = t

LockAges(t) ==
    /\ task[t].status = "running"
    /\ ~task[t].stale
    /\ task' = [task EXCEPT ![t].stale = TRUE]
    /\ UNCHANGED <<attempt, created, worker>>

AbandonedLockAges(t) == ~Held(t) /\ LockAges(t) /\ UNCHANGED <<overtaken, faults>>

\* A worker that is stuck in one attempt for five minutes.
HeldLockAges(t) ==
    /\ Held(t)
    /\ LockAges(t)
    /\ overtaken' = [overtaken EXCEPT ![t] = TRUE]
    /\ Fault

-----------------------------------------------------------------------------
(* process_one_address_import_task.                                        *)

Owns(w, t) == task[t].status = "running" /\ task[t].owner = w

\* The statement answers, or it commits and the worker sees an error, which
\* ends the processing until the task is claimed again.
Answer(w, m) ==
    \/ worker' = [worker EXCEPT ![w] = m] /\ UNCHANGED faults
    \/ worker' = [worker EXCEPT ![w] = IdleWorker] /\ Fault

\* Faulty: a task is never taken over from a worker that died.
ClaimableUnlessLocked(w) ==
    LET own == {t \in Tasks : Owns(w, t)} IN
      IF own # {} THEN own ELSE {t \in Tasks : task[t].status = "pending"}

\* The worker's own running task first, then a stale one, then a new one.
Claimable(w) ==
    LET own == {t \in Tasks : Owns(w, t)}
        stale == {t \in Tasks : task[t].status = "running" /\ task[t].stale}
    IN
      IF own # {} THEN own
      ELSE IF stale # {} THEN stale
      ELSE {t \in Tasks : task[t].status = "pending"}

ClaimTask(w) ==
    /\ worker[w].pc = "idle"
    /\ \E t \in Claimable(w) :
         /\ task' = [task EXCEPT ![t].status = "running", ![t].owner = w,
                                 ![t].stale = FALSE]
         /\ Answer(w, [IdleWorker EXCEPT !.pc = "renew", !.task = t])
    /\ UNCHANGED <<attempt, created, overtaken>>

\* Renewal before the batch and before each of its attempts.
RenewLock(w) ==
    LET m == worker[w] IN
      /\ m.pc \in {"renew", "attempt"}
      /\ Owns(w, m.task)
      /\ task' = [task EXCEPT ![m.task].stale = FALSE]
      /\ Answer(w, [m EXCEPT !.pc = IF m.pc = "renew" THEN "read" ELSE "create"])
      /\ UNCHANGED <<attempt, created, overtaken>>

\* The task was cancelled, completed or taken over.
RenewRefused(w) ==
    /\ worker[w].pc \in {"renew", "attempt"}
    /\ ~Owns(w, worker[w].task)
    /\ worker' = [worker EXCEPT ![w] = IdleWorker]
    /\ UNCHANGED <<task, attempt, created, overtaken, faults>>

\* What follows when batch is left to do: its next attempt, or the counts.
Continue(m, batch) ==
    IF batch # {}
    THEN [m EXCEPT !.pc = "attempt", !.batch = batch]
    ELSE [m EXCEPT !.pc = "refresh", !.batch = {}, !.refreshes = 2]

PendingRows(t) == {r \in Rows : attempt[t][r] = "pending"}

\* The first pending attempts; none for a worker that lost the task, which
\* then goes on to the counts.
ReadBatch(w) ==
    LET m == worker[w]
        pending == PendingRows(m.task)
        batch == {r \in pending : Cardinality({q \in pending : q < r}) < BatchSize}
    IN
      /\ m.pc = "read"
      /\ worker' = [worker EXCEPT ![w] =
           Continue(m, IF Owns(w, m.task) THEN batch ELSE {})]
      /\ UNCHANGED <<task, attempt, created, overtaken, faults>>

Current(m) == CHOOSE r \in m.batch : \A q \in m.batch : r <= q

\* Faulty: the outcome is written over another one.
MarkMatchesAny(w, t, r) == Owns(w, t) \/ task[t].status = "cancelled"

\* The WHERE clause of both marks: a pending attempt of the worker's own
\* task, or any open attempt of a cancelled one.
MarkMatches(w, t, r) ==
    \/ attempt[t][r] = "pending" /\ Owns(w, t)
    \/ attempt[t][r] \in {"pending", "skipped"} /\ task[t].status = "cancelled"

\* A mark on a cancelled task matches its row and leaves it as it is.
Mark(t, r, outcome) ==
    attempt' = [attempt EXCEPT ![t][r] =
                  IF task[t].status = "cancelled" THEN @ ELSE outcome]

\* The transaction that inserts the address and marks the attempt; with its
\* reply lost the worker goes on as if it had failed.
CreateAddress(w) ==
    LET m == worker[w]  t == m.task  r == Current(m) IN
      /\ m.pc = "create"
      /\ MarkMatches(w, t, r)
      /\ ~created[t][r]
      /\ created' = [created EXCEPT ![t][r] = TRUE]
      /\ Mark(t, r, "success")
      /\ \/ /\ worker' = [worker EXCEPT ![w] = Continue(m, m.batch \ {r})]
            /\ UNCHANGED faults
         \/ /\ worker' = [worker EXCEPT ![w].pc = "refuse"]
            /\ Fault
      /\ UNCHANGED <<task, overtaken>>

\* Invalid or duplicate address, database error, or a mark without a row:
\* everything is rolled back.
CreateFails(w) ==
    /\ worker[w].pc = "create"
    /\ worker' = [worker EXCEPT ![w].pc = "refuse"]
    /\ UNCHANGED <<task, attempt, created, overtaken, faults>>

MarkFailed(w) ==
    LET m == worker[w]  t == m.task  r == Current(m) IN
      /\ m.pc = "refuse"
      /\ MarkMatches(w, t, r)
      /\ Mark(t, r, "failed")
      /\ Answer(w, Continue(m, m.batch \ {r}))
      /\ UNCHANGED <<task, created, overtaken>>

\* Another outcome was there first, or the task is somebody else's.
MarkRefused(w) ==
    LET m == worker[w] IN
      /\ m.pc = "refuse"
      /\ ~MarkMatches(w, m.task, Current(m))
      /\ worker' = [worker EXCEPT ![w] = IdleWorker]
      /\ UNCHANGED <<task, attempt, created, overtaken, faults>>

-----------------------------------------------------------------------------
(* Counts and completion.                                                  *)

\* The snapshot of the refresh.
RefreshRead(w) ==
    LET m == worker[w] IN
      /\ m.pc = "refresh"
      /\ worker' = [worker EXCEPT ![w] =
           [m EXCEPT !.pc = "write", !.counts = CountsOf(attempt[m.task])]]
      /\ UNCHANGED <<task, attempt, created, overtaken, faults>>

\* Its update, whatever the status of the task.  After the second refresh the
\* worker looks at the status that was returned.
RefreshWrite(w) ==
    LET m == worker[w] IN
      /\ m.pc = "write"
      /\ task' = [task EXCEPT ![m.task].counts = m.counts]
      /\ Answer(w, IF m.refreshes = 2
                   THEN [m EXCEPT !.pc = "refresh", !.refreshes = 1]
                   ELSE IF task[m.task].status = "running"
                   THEN [m EXCEPT !.pc = "check", !.refreshes = 0]
                   ELSE IdleWorker)
      /\ UNCHANGED <<attempt, created, overtaken>>

\* Faulty: whether attempts are left is not looked at.
NothingPendingUnchecked(t) == TRUE

NothingPending(t) == PendingRows(t) = {}

CheckPending(w) ==
    LET m == worker[w] IN
      /\ m.pc = "check"
      /\ worker' = [worker EXCEPT ![w] =
           IF NothingPending(m.task) THEN [m EXCEPT !.pc = "complete"] ELSE IdleWorker]
      /\ UNCHANGED <<task, attempt, created, overtaken, faults>>

\* Faulty: one failed attempt fails the task.
FinalStatusAnyFailure(counts) == IF counts.failed > 0 THEN "failed" ELSE "completed"

FinalStatus(counts) ==
    IF counts.success = 0 /\ counts.failed > 0 THEN "failed" ELSE "completed"

\* Guarded by the status and not by locked_by.
Complete(w) ==
    LET m == worker[w] IN
      /\ m.pc = "complete"
      /\ task' = IF task[m.task].status = "running"
                 THEN [task EXCEPT ![m.task].status = FinalStatus(m.counts),
                                   ![m.task].owner = None, ![m.task].stale = FALSE]
                 ELSE task
      /\ Answer(w, IdleWorker)
      /\ UNCHANGED <<attempt, created, overtaken>>

\* A statement fails without an effect; the failure of the creating
\* transaction is CreateFails.
StatementFails(w) ==
    /\ worker[w].pc \notin {"idle", "create", "dead"}
    /\ Fault
    /\ worker' = [worker EXCEPT ![w] = IdleWorker]
    /\ UNCHANGED <<task, attempt, created, overtaken>>

\* The process stops or dies; at least one worker is kept running.
Crash(w) ==
    /\ worker[w].pc # "dead"
    /\ \E v \in Workers \ {w} : worker[v].pc # "dead"
    /\ worker' = [worker EXCEPT ![w] = [IdleWorker EXCEPT !.pc = "dead"]]
    /\ UNCHANGED <<task, attempt, created, overtaken, faults>>

-----------------------------------------------------------------------------
WorkerStep(w) ==
    \/ ClaimTask(w) \/ RenewLock(w) \/ RenewRefused(w) \/ ReadBatch(w)
    \/ CreateAddress(w) \/ CreateFails(w) \/ MarkFailed(w) \/ MarkRefused(w)
    \/ RefreshRead(w) \/ RefreshWrite(w) \/ CheckPending(w) \/ Complete(w)

Next ==
    \/ \E t \in Tasks : \/ SubmitImport(t) \/ CancelImport(t)
                        \/ AbandonedLockAges(t) \/ HeldLockAges(t)
    \/ \E w \in Workers : WorkerStep(w) \/ StatementFails(w) \/ Crash(w)

Spec == Init /\ [][Next]_vars

\* A live worker keeps looping, and time passes.
Fairness ==
    /\ \A w \in Workers : WF_vars(WorkerStep(w))
    /\ \A t \in Tasks : WF_vars(AbandonedLockAges(t))

FairSpec == Spec /\ Fairness

-----------------------------------------------------------------------------
(* Properties.                                                             *)

\* Every row and every worker's memory has its type.
TypeOK ==
    /\ task \in [Tasks -> TaskRow]
    /\ attempt \in [Tasks -> [Rows -> AttemptStatus]]
    /\ created \in [Tasks -> [Rows -> BOOLEAN]]
    /\ worker \in [Workers -> WorkerState]
    /\ overtaken \in [Tasks -> BOOLEAN]
    /\ faults \in 0..MaxFaults

\* A task that was finished or cancelled has no attempt left to make, not even
\* when a worker that lost it finished it.
FinishedMeansProcessed ==
    \A t \in Tasks :
        task[t].status \in FinishedStatus \cup {"cancelled"} =>
            PendingRows(t) = {}

\* The verdict and the counts of a finished task are those of its attempts,
\* as long as no worker was overtaken: they are computed from two snapshots
\* that cancellations, crashes and lost replies leave behind.
VerdictMatchesAttempts ==
    \A t \in Tasks :
        task[t].status \in FinishedStatus /\ ~overtaken[t] =>
            /\ task[t].counts = CountsOf(attempt[t])
            /\ task[t].status = FinalStatus(CountsOf(attempt[t]))
            /\ task[t].status = "failed" => \A r \in Rows : attempt[t][r] = "failed"

\* Attempts and addresses agree: success means that the import created the
\* address, failed and pending that it did not, whichever worker came late or
\* saw an error for a transaction that committed.
AddressesAreAccounted ==
    \A t \in Tasks, r \in Rows :
        /\ attempt[t][r] = "success" => created[t][r]
        /\ attempt[t][r] \in {"failed", "pending"} => ~created[t][r]

\* When faults stop, every import is completed, failed or cancelled.
EveryImportEnds ==
    \A t \in Tasks :
        task[t].status \in OpenStatus ~> task[t].status \notin OpenStatus

\* The import design: a cancellation stops the attempts that are not made yet,
\* so that a skipped attempt leaves no address behind.
SkippedCreatesNothing ==
    \A t \in Tasks, r \in Rows : attempt[t][r] = "skipped" => ~created[t][r]
=============================================================================
