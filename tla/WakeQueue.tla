------------------------------ MODULE WakeQueue ------------------------------
(***************************************************************************)
(* Scan jobs are rows of a table; the Redis list only wakes the workers.   *)
(* A job is committed first and signalled after it, a signal is not pushed *)
(* while one is in the list, and a worker that finds no job waits for one  *)
(* at most five seconds.  A signal is lost with the process that owes it   *)
(* or that popped it.                                                      *)
(***************************************************************************)
EXTENDS Naturals, FiniteSets, Sequences

CONSTANTS
    Workers,        \* run_worker
    Producers,      \* run_scheduler
    MaxJobs,        \* bound on the jobs
    Legacy,         \* scan tasks a former version left in the list
    MaxFaults       \* bound on errors and crashes

Assumptions == MaxJobs \in Nat /\ Legacy \in Nat /\ MaxFaults \in Nat

VARIABLES
    made,       \* jobs committed so far
    due,        \* jobs that wait for a worker
    list,       \* the Redis list, popped at its end
    producer,   \* "signal": it has committed a job and owes its signal
    worker,     \* what each worker is at
    faults,
    quiet       \* history: due jobs whose signal was lost or never sent

vars == <<made, due, list, producer, worker, faults, quiet>>

Init ==
    /\ made = 0 /\ due = 0
    /\ list \in {[i \in 1..n |-> "legacy"] : n \in 0..Legacy}
    /\ producer = [p \in Producers |-> "idle"]
    /\ worker = [w \in Workers |-> "claim"]
    /\ faults = 0 /\ quiet = FALSE

\* enqueue_due_addresses commits a job, then signals.
CommitJob(p) ==
    /\ producer[p] = "idle" /\ made < MaxJobs
    /\ made' = made + 1 /\ due' = due + 1
    /\ producer' = [producer EXCEPT ![p] = "signal"]
    /\ UNCHANGED <<list, worker, faults, quiet>>

\* ScanQueue::signal, one script.
\* A faulty one: any entry counts as a signal.
PushedIfEmpty == IF list # <<>> THEN list ELSE <<"wake">> \o list
Pushed == IF \E i \in DOMAIN list : list[i] = "wake" THEN list ELSE <<"wake">> \o list
Signal(p) ==
    /\ producer[p] = "signal"
    /\ list' = Pushed
    /\ producer' = [producer EXCEPT ![p] = "idle"]
    /\ UNCHANGED <<made, due, worker, faults, quiet>>

\* The script fails, which is logged, or the scheduler dies before it.
SignalFails(p) ==
    /\ producer[p] = "signal" /\ faults < MaxFaults
    /\ faults' = faults + 1 /\ quiet' = TRUE
    /\ producer' = [producer EXCEPT ![p] = "idle"]
    /\ UNCHANGED <<made, due, list, worker>>

\* A backoff is over or a lease has run out: nobody signals it.
JobFallsDue ==
    /\ made < MaxJobs
    /\ made' = made + 1 /\ due' = due + 1 /\ quiet' = TRUE
    /\ UNCHANGED <<list, producer, worker, faults>>

\* claim_due_scan_job; while it works the worker holds the job.
Claim(w) ==
    /\ worker[w] = "claim"
    /\ IF due > 0
       THEN /\ due' = due - 1 /\ quiet' = (quiet /\ due > 1)
            /\ worker' = [worker EXCEPT ![w] = "work"]
       ELSE /\ worker' = [worker EXCEPT ![w] = "wait"]
            /\ UNCHANGED <<due, quiet>>
    /\ UNCHANGED <<made, list, producer, faults>>
Work(w) ==
    /\ worker[w] = "work"
    /\ worker' = [worker EXCEPT ![w] = "claim"]
    /\ UNCHANGED <<made, due, list, producer, faults, quiet>>

\* wait_for_signal: BRPOP; a task of a former version is an error and a pause.
AfterPop(payload) == IF payload = "wake" THEN "claim" ELSE "pause"
Pop(w) ==
    /\ worker[w] = "wait" /\ list # <<>>
    /\ worker' = [worker EXCEPT ![w] = AfterPop(list[Len(list)])]
    /\ list' = SubSeq(list, 1, Len(list) - 1)
    /\ UNCHANGED <<made, due, producer, faults, quiet>>

\* Five seconds are over.
\* A faulty one: the wait has no end.
TimedOutNever(w) == FALSE
TimedOut(w) == worker[w] = "wait"
Timeout(w) ==
    /\ TimedOut(w)
    /\ worker' = [worker EXCEPT ![w] = "claim"]
    /\ UNCHANGED <<made, due, list, producer, faults, quiet>>

\* An error of the claim or of the wait: the worker pauses job_idle_sleep_ms.
Pauses(w) ==
    /\ worker[w] \in {"claim", "wait"} /\ faults < MaxFaults
    /\ faults' = faults + 1
    /\ worker' = [worker EXCEPT ![w] = "pause"]
    /\ UNCHANGED <<made, due, list, producer, quiet>>
Resumes(w) ==
    /\ worker[w] = "pause"
    /\ worker' = [worker EXCEPT ![w] = "claim"]
    /\ UNCHANGED <<made, due, list, producer, faults, quiet>>

\* A worker dies, perhaps between its pop and its claim, and starts again.
Dies(w) ==
    /\ worker[w] \in {"claim", "wait", "pause", "work"} /\ faults < MaxFaults
    /\ faults' = faults + 1
    /\ quiet' = (quiet \/ due > 0)
    /\ worker' = [worker EXCEPT ![w] = "down"]
    /\ UNCHANGED <<made, due, list, producer>>
Restarts(w) ==
    /\ worker[w] = "down"
    /\ worker' = [worker EXCEPT ![w] = "claim"]
    /\ UNCHANGED <<made, due, list, producer, faults, quiet>>

WorkerStep(w) == Claim(w) \/ Work(w) \/ Pop(w) \/ Timeout(w) \/ Resumes(w) \/ Restarts(w)

Next ==
    \/ JobFallsDue
    \/ \E p \in Producers : CommitJob(p) \/ Signal(p) \/ SignalFails(p)
    \/ \E w \in Workers : WorkerStep(w) \/ Pauses(w) \/ Dies(w)

Fairness == \A w \in Workers : WF_vars(WorkerStep(w))

Spec == Init /\ [][Next]_vars /\ Fairness

-----------------------------------------------------------------------------
TypeOK ==
    /\ made \in 0..MaxJobs /\ due \in 0..made /\ quiet \in BOOLEAN
    /\ worker \in [Workers -> {"claim", "wait", "pause", "work", "down"}]

\* Signals are coalesced: the list never holds two, however many are sent.
OneSignalAtMost == Cardinality({i \in DOMAIN list : list[i] = "wake"}) <= 1

\* No wake-up is lost in a race: while a signalled job is due, a worker is about to
\* look at the table, or a signal is in the list or on its way.
NobodySleepsThroughAJob ==
    due > 0 /\ ~quiet =>
        \/ \E w \in Workers : worker[w] # "wait"
        \/ \E i \in DOMAIN list : list[i] = "wake"
        \/ \E p \in Producers : producer[p] = "signal"

\* A job that is due finds a worker in the end, signalled or not.
Owed == due > 0
=============================================================================
